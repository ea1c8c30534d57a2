-------------------------------- MODULE MCAuth --------------------------------
(***************************************************************************)
(* A small instance of Auth for TLC.                                       *)
(***************************************************************************)
EXTENDS Auth

CONSTANTS t1, t2, b1, b2   \* two tokens, two browsers
=============================================================================
