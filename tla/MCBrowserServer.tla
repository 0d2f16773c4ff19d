-------------------------- MODULE MCBrowserServer ---------------------------
(***************************************************************************)
(* BrowserServer for TLC.                                                  *)
(***************************************************************************)
EXTENDS BrowserServer, TLC

Symmetry == Permutations(Sessions)
=============================================================================
