----------------------------- MODULE MCWasmHost -----------------------------
(* Small instances of WasmHost for TLC.                                     *)
EXTENDS WasmHost, TLC

CONSTANTS p1, p2

MCProcs == {p1, p2}
MCModes == {(p1 :> "spawn_task") @@ (p2 :> "call_async"), (p1 :> "spawn_task") @@ (p2 :> "call")}
MCGrants == (p1 :> [path |-> <<>>, rights |-> {"READ", "WRITE", "CALL"}])
            @@ (p2 :> [path |-> <<"a">>, rights |-> {"READ"}])
MCPaths == {<<"a">>, <<"b">>, <<"a", "b">>}
MCContents == {<<1>>, <<1, 2>>}
MCPermits == {-1, 1}

\* No action depends on the reply of the last call: it is there for the step that
\* gives it.
WithoutReply == <<mode, fsVars, taskVars, fuel, capVars, syncVars>>

YieldProcs == {p1}
YieldModes == [YieldProcs -> {"spawn_task"}]
=============================================================================
