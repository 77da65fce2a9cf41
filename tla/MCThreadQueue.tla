----------------------------- MODULE MCThreadQueue -----------------------------
(* An instance of ThreadQueue for TLC.                                     *)
EXTENDS ThreadQueue

CONSTANTS t1, t2
=============================================================================
