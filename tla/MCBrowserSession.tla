-------------------------- MODULE MCBrowserSession --------------------------
(***************************************************************************)
(* BrowserSession for TLC.                                                 *)
(***************************************************************************)
EXTENDS BrowserSession, TLC

Symmetry == Permutations(Sessions)
=============================================================================
