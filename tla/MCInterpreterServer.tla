------------------------- MODULE MCInterpreterServer -------------------------
(***************************************************************************)
(* InterpreterServer for TLC.                                              *)
(***************************************************************************)
EXTENDS InterpreterServer
=============================================================================
