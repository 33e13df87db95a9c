------------------------------ MODULE MCE1000 ------------------------------
(* A small instance of E1000 for TLC.                                       *)
EXTENDS E1000, TLC

CONSTANTS f1, f2

MCFrames == {f1, f2}
============================================================================
