---------------------------- MODULE MCKeyboard ----------------------------
(* Small instances of Keyboard for TLC: all tasks have Normal priority, as  *)
(* in main.rs.                                                              *)
EXTENDS Keyboard

CONSTANTS stream, term, net, k1, k2, k3

AllTasks == {stream, term, net}
KernelTasks == {term, net}
MCStreams == {stream}
MCTerminals == {term}
MCCodes == {k1, k2, k3}
MCPrio == [t \in Tasks |-> 1]
===========================================================================
