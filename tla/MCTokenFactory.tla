---------------------------- MODULE MCTokenFactory ----------------------------
(* Small instances of TokenFactory for TLC.                                 *)
EXTENDS TokenFactory
=============================================================================
