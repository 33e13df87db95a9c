------------------------------- MODULE WasmInv -------------------------------
(***************************************************************************)
(* The inductive invariant of WasmHost, part by part, and the kinds of     *)
(* steps a running process takes, each named by its effect: what the       *)
(* proofs about WasmHost are built on.                                     *)
(***************************************************************************)
EXTENDS WasmProcess

(* The invariant of the processes, the registry and the capability ids.      *)

\* The processes: only a live one is queued, runs or is suspended, and the one
\* that runs is neither queued nor suspended.
ProcInv ==
  /\ mode \in [Procs -> {"spawn_task", "call_async", "call"}]
  /\ status \in [Procs -> {"unspawned", "live", "idle", "dropped"}]
  /\ running \in Procs \cup {NoProc}
  /\ queued \subseteq Procs /\ running \notin queued
  /\ DOMAIN invocation = Procs
  /\ \A p \in Procs : p \in queued \/ p = running \/ invocation[p] # NotSuspended => status[p] = "live"
  /\ running # NoProc => invocation[running] = NotSuspended
  /\ fuel \in 0..FUEL_PER_SLICE

\* The states in which a registered mutex and semaphore may be.
Unlocked == {FALSE}
Counting == [permits : Nat, max : Nat]

\* The registry: no mutex stays locked, and every permit is free or granted.
SyncInv ==
  /\ mutexes \in Seq(Unlocked)
  /\ semaphores \in Seq(Counting)
  /\ granted \in Seq(Nat) /\ Len(granted) = Len(semaphores)
  /\ \A h \in DOMAIN semaphores : semaphores[h].permits + granted[h] = semaphores[h].max

\* Capability ids are handed out in order.
CapInv ==
  /\ DOMAIN caps = Procs
  /\ next_index \in 1..MaxCaps + 1
  /\ \A p \in Procs : DOMAIN caps[p] \subseteq 1..(next_index - 1)

-----------------------------------------------------------------------------
(* What a step of a running process does, by kinds of steps.                 *)

\* The call has passed its checks: it is paid for, and the process goes on.
Serves(p) ==
  /\ running = p
  /\ fuel' \in Nat /\ fuel' < fuel
  /\ UNCHANGED <<mode, taskVars>>

Ended(p) == running = p /\ End(p) /\ UNCHANGED <<mode, fsVars, queued, syncVars>>

Suspends(p) ==
  /\ running = p /\ running' = NoProc /\ fuel' = 0
  /\ \E s : invocation' = [invocation EXCEPT ![p] = s]
  /\ UNCHANGED <<mode, fsVars, status, queued, capVars, syncVars>>

\* print: nothing is paid for, and nothing changes.
Prints(p) ==
  /\ running = p
  /\ reply' = OK
  /\ UNCHANGED <<mode, fsVars, taskVars, fuel, capVars, syncVars>>

\* An error, or an answer that changes nothing.
Answers(p) == Serves(p) /\ UNCHANGED <<fsVars, capVars, syncVars>>

Opens(p) ==
  /\ Serves(p)
  /\ \E id \in DOMAIN caps[p], path \in Paths :
       LET n == OpenAt(caps[p][id].handle, path) IN
         /\ caps[p][id].kind = "Directory" /\ {"READ"} \subseteq caps[p][id].rights
         /\ n # NoNode
         /\ OpenAtHandle(n)
         /\ AddCapability(p, Derive(n, next_handle_at, caps[p][id].rights))
  /\ next_handle_at < AtBase + MaxOpenAts /\ next_index <= MaxCaps
  /\ UNCHANGED <<orphaned, syncVars>>

Closes(p) ==
  /\ Serves(p)
  /\ reply' = OK
  /\ \E id : /\ caps' = [caps EXCEPT ![p] = [i \in DOMAIN @ \ {id} |-> @[i]]]
             /\ IF id \in DOMAIN caps[p] /\ caps[p][id].kind \in FileKinds
                THEN Close(caps[p][id].handle) ELSE UNCHANGED fsVars
  /\ UNCHANGED <<next_index, orphaned, syncVars>>

Makes(p) ==
  /\ Serves(p)
  /\ reply' = OK
  /\ \E h : \E path \in Paths : CanMake(h, path) /\ nodes' = MkdirAt(h, path)
  /\ UNCHANGED <<open_handles, next_handle, next_handle_at, capVars, syncVars>>

\* An operation on a mutex or semaphore of the registry.
UsesSync(p) ==
  /\ Serves(p)
  /\ reply' = OK
  /\ \/ \E h : mutexes' = [mutexes EXCEPT ![h] = FALSE] /\ UNCHANGED <<semaphores, granted>>
     \/ \E h \in DOMAIN semaphores :
          /\ (semaphores[h].permits # 0 /\ TakePermit(h)) \/ GivePermit(h)
          /\ UNCHANGED mutexes
  /\ UNCHANGED <<fsVars, capVars>>

MakesSync(p) ==
  /\ Serves(p)
  /\ next_index <= MaxCaps
  /\ \E h :
       \/ /\ AddCapability(p, Capability("Mutex", h, {"CALL"}))
          /\ mutexes' = Append(mutexes, FALSE)
          /\ UNCHANGED <<semaphores, granted>>
       \/ /\ AddCapability(p, Capability("Semaphore", h, {"CALL"}))
          /\ \E n \in Nat : semaphores' = Append(semaphores, [permits |-> n, max |-> n])
          /\ granted' = Append(granted, 0)
          /\ UNCHANGED mutexes
  /\ UNCHANGED <<fsVars, orphaned>>

Kinds(p) ==
  \/ Ended(p) \/ Suspends(p) \/ Prints(p) \/ Answers(p)
  \/ Opens(p) \/ Closes(p) \/ Makes(p) \/ UsesSync(p) \/ MakesSync(p)

-----------------------------------------------------------------------------
(* The tree of nodes.                                                        *)

\* A file, or a directory whose entries are among the nodes ns.
NodeOK(x, ns) ==
  \/ x.kind = "file"
  \/ /\ x = [kind |-> "dir", entries |-> x.entries]
     /\ \A name \in DOMAIN x.entries : x.entries[name] \in ns

\* Nodes are numbered in the order of their creation; every entry leads to one.
NodesInv ==
  /\ \E n \in Nat \ {0} : DOMAIN nodes = 0..n - 1
  /\ \A n \in DOMAIN nodes : NodeOK(nodes[n], DOMAIN nodes)

\* What becomes of the nodes there are: nothing, or a directory gets an entry.
NodesGrow ==
  /\ DOMAIN nodes \subseteq DOMAIN nodes'
  /\ \A n \in DOMAIN nodes : /\ nodes'[n].kind = nodes[n].kind
                             /\ nodes[n].kind = "file" => nodes'[n] = nodes[n]

-----------------------------------------------------------------------------
(* The handles and their owners.                                             *)

\* Capability i of process p stands for handle h of the filesystem.
Holds(p, i, h) == i \in FileCaps(p) /\ caps[p][i].handle = h

\* Handles that open and open_at have handed out.
HandedOut == 1..next_handle - 1 \cup AtBase..next_handle_at - 1

\* Open handles were handed out.
HandlesIssued ==
  /\ next_handle \in 1..MaxOpens + 1 /\ next_handle_at \in Nat /\ next_handle_at >= AtBase
  /\ DOMAIN open_handles \subseteq HandedOut

HandlesLead == \A h \in DOMAIN open_handles : open_handles[h] \in DOMAIN nodes

UnspawnedHoldNone == \A p \in Procs : status[p] = "unspawned" => DOMAIN caps[p] = {}

\* A capability has an open handle, of a node of its kind.
Fits(p, i, h) ==
  /\ h \in DOMAIN open_handles \ orphaned
  /\ nodes[open_handles[h]].kind = "dir" <=> caps[p][i].kind = "Directory"

CapsFit == \A p \in Procs : \A i, h : Holds(p, i, h) => Fits(p, i, h)

OneHolder == \A p, q \in Procs : \A i, j, h : Holds(p, i, h) /\ Holds(q, j, h) => p = q /\ i = j

\* A handle nobody holds is orphaned, or is that of a directory wasm-test could not read.
Accounted(h) ==
  \/ \E p \in Procs : \E i : Holds(p, i, h)
  \/ h < AtBase /\ nodes[open_handles[h]].kind = "dir"

AllAccounted == \A h \in DOMAIN open_handles \ orphaned : Accounted(h)

\* Each open handle has its owner, and each capability its handle.
Owned == orphaned \subseteq DOMAIN open_handles /\ CapsFit /\ OneHolder /\ AllAccounted

\* The owners are right as long as open and open_at draw different numbers.
HandleInv == HandlesIssued /\ HandlesLead /\ UnspawnedHoldNone /\ (Apart => Owned)

-----------------------------------------------------------------------------
\* The part of the invariant that is not about the filesystem.
BaseInv == ProcInv /\ CapInv /\ SyncInv

\* The inductive invariant.
IInv == BaseInv /\ NodesInv /\ HandleInv
=============================================================================
