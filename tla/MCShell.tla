------------------------------ MODULE MCShell ------------------------------
(* A small instance of Shell for TLC.                                       *)
EXTENDS Shell

CONSTANTS a, b

MCChars == {a, b}
MCUsageErrors == {<<a>>}
============================================================================
