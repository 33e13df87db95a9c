-------------------------- MODULE WasmProcess_proofs --------------------------
(***************************************************************************)
(* The steps of the kernel, and the kinds of steps of a running process,   *)
(* preserve the invariant of WasmInv: the processes, the capability ids    *)
(* and the registry; the handles with their owners; the tree of nodes      *)
(* under insertions, with paths of any length.                             *)
(***************************************************************************)
EXTENDS WasmInv, TLAPS, WellFoundedInduction

USE ZenonT(10), SMTT(30)

-----------------------------------------------------------------------------
(* Lemmas on maps.                                                           *)

\* What BTreeMap::insert leaves in a map.
LEMMA PutMap ==
  ASSUME NEW f, NEW k, NEW v
  PROVE  /\ DOMAIN Put(f, k, v) = DOMAIN f \cup {k}
         /\ Put(f, k, v)[k] = v
         /\ \A x \in DOMAIN f : x # k => Put(f, k, v)[x] = f[x]
BY DEF Put

-----------------------------------------------------------------------------
(* The processes, the capability ids and the registry.                       *)

\* The end of an invocation, whether it ran or could not be continued.
LEMMA EndKeepsProcs ==
  ASSUME ProcInv, NEW p \in Procs, End(p), UNCHANGED mode, queued' = queued \ {p},
         running \in {NoProc, p}
  PROVE  ProcInv'
<1>1. NoProc \notin Procs
  BY HostAssumption
<1>2. /\ running' = NoProc /\ fuel' = 0
      /\ invocation' = [invocation EXCEPT ![p] = NotSuspended]
      /\ status' = [status EXCEPT ![p] = "idle"] \/ status' = [status EXCEPT ![p] = "dropped"]
  BY DEF End
<1>3. status' \in [Procs -> {"unspawned", "live", "idle", "dropped"}]
  BY <1>2 DEF ProcInv
<1>4. \A q \in Procs : /\ q # p => status'[q] = status[q] /\ invocation'[q] = invocation[q]
                       /\ invocation'[p] = NotSuspended
  BY <1>2 DEF ProcInv
<1>5. \A q \in Procs : q \in queued' \/ q = running' \/ invocation'[q] # NotSuspended => status'[q] = "live"
  BY <1>1, <1>2, <1>4 DEF ProcInv
<1>6. fuel' \in 0..FUEL_PER_SLICE
  BY <1>2, HostAssumption
<1>7. DOMAIN invocation' = Procs /\ queued' \subseteq Procs /\ running' \notin queued'
  BY <1>1, <1>2 DEF ProcInv
<1> QED  BY <1>1, <1>2, <1>3, <1>5, <1>6, <1>7 DEF ProcInv

\* A step of the running process.
LEMMA GuestKeepsProcs ==
  ASSUME ProcInv, NEW p \in Procs, Kinds(p)
  PROVE  ProcInv'
<1>1. CASE Ended(p)
  <2>1. queued' = queued \ {p} /\ running \in {NoProc, p}
    BY <1>1 DEF Ended, ProcInv
  <2> QED  BY <1>1, <2>1, EndKeepsProcs DEF Ended
<1>2. CASE Suspends(p)
  <2>1. PICK s : invocation' = [invocation EXCEPT ![p] = s]
    BY <1>2, ZenonT(20) DEF Suspends
  <2>2. running = p /\ running' = NoProc /\ fuel' = 0 /\ UNCHANGED <<mode, status, queued>>
    BY <1>2 DEF Suspends
  <2>3. \A q \in Procs : invocation'[q] = IF q = p THEN s ELSE invocation[q]
    BY <2>1 DEF ProcInv
  <2>4. \A q \in Procs : q \in queued' \/ q = running' \/ invocation'[q] # NotSuspended => status'[q] = "live"
    BY <2>2, <2>3, HostAssumption DEF ProcInv
  <2>5. fuel' \in 0..FUEL_PER_SLICE
    BY <2>2, HostAssumption
  <2>6. DOMAIN invocation' = Procs /\ queued' \subseteq Procs /\ running' \notin queued'
    BY <2>1, <2>2, HostAssumption DEF ProcInv
  <2> QED  BY <2>2, <2>4, <2>5, <2>6 DEF ProcInv
<1>3. CASE Serves(p)
  <2>1. UNCHANGED <<mode, status, queued, running, invocation>>
    BY <1>3 DEF Serves, taskVars
  <2>2. fuel' \in 0..FUEL_PER_SLICE
    BY <1>3, HostAssumption DEF Serves, ProcInv
  <2> QED  BY <2>1, <2>2 DEF ProcInv
<1>4. CASE Prints(p)
  BY <1>4 DEF Prints, ProcInv, taskVars
<1> QED  BY <1>1, <1>2, <1>3, <1>4, ZenonT(20) DEF Kinds, Answers, Opens, Closes, Makes, UsesSync, MakesSync

\* A process becomes live and is put on the run queue.
LEMMA SpawnKeepsProcs ==
  ASSUME ProcInv, NEW p \in Procs, running = NoProc, spawn_task(p),
         UNCHANGED <<mode, running, invocation, fuel>>
  PROVE  ProcInv'
<1>1. \A q \in Procs : status'[q] = IF q = p THEN "live" ELSE status[q]
  BY DEF spawn_task, ProcInv
<1>2. status' \in [Procs -> {"unspawned", "live", "idle", "dropped"}]
  BY DEF spawn_task, ProcInv
<1>3. running' \notin queued' /\ queued' \subseteq Procs
  BY HostAssumption DEF spawn_task, ProcInv
<1>4. \A q \in Procs : q \in queued' \/ q = running' \/ invocation'[q] # NotSuspended => status'[q] = "live"
  BY <1>1, HostAssumption DEF ProcInv, spawn_task
<1> QED  BY <1>2, <1>3, <1>4 DEF ProcInv

\* A poll enters the function, resumes it, or ends the process.
LEMMA PollKeepsProcs ==
  ASSUME ProcInv, NEW p \in Procs, Poll(p)
  PROVE  ProcInv'
<1>1. running = NoProc /\ p \in queued /\ queued' = queued \ {p} /\ UNCHANGED mode
  BY DEF Poll
<1>2. CASE CannotContinue(p)
  BY <1>1, <1>2, EndKeepsProcs DEF CannotContinue
<1>3. CASE Enter(p) \/ Resume(p)
  <2>1. running' = p /\ fuel' = FUEL_PER_SLICE /\ UNCHANGED status
    BY <1>3 DEF Enter, Resume
  <2>2. DOMAIN invocation' = Procs
    BY <1>3 DEF Enter, Resume, ProcInv
  <2>3. \A q \in Procs : invocation'[q] = IF q = p THEN NotSuspended ELSE invocation[q]
    BY <1>3 DEF Enter, Resume, ProcInv
  <2>4. \A q \in Procs : q \in queued' \/ q = running' \/ invocation'[q] # NotSuspended => status'[q] = "live"
    BY <1>1, <2>1, <2>3 DEF ProcInv
  <2>5. fuel' \in 0..FUEL_PER_SLICE
    BY <2>1, HostAssumption
  <2> QED  BY <1>1, <2>1, <2>2, <2>3, <2>4, <2>5 DEF ProcInv
<1> QED  BY <1>2, <1>3 DEF Poll

\* A step of the kernel.
LEMMA KernelKeepsProcs ==
  ASSUME ProcInv, Kernel
  PROVE  ProcInv'
<1>1. CASE UNCHANGED <<mode, taskVars, fuel>>
  BY <1>1 DEF ProcInv, taskVars
<1>2. ASSUME NEW path, NEW content, KernelAddFile(path, content) \/ KernelMkdir(path)
      PROVE  ProcInv'
  BY <1>1, <1>2 DEF KernelAddFile, KernelMkdir
<1>3. ASSUME NEW p \in Procs, NEW path, NEW rights, SpawnProcess(p, path, rights)
      PROVE  ProcInv'
  BY <1>3, SpawnKeepsProcs DEF SpawnProcess
<1>4. ASSUME NEW p \in Procs, CallAgain(p)
      PROVE  ProcInv'
  BY <1>4, SpawnKeepsProcs DEF CallAgain
<1>5. ASSUME NEW p \in Procs, OuterWake(p)
      PROVE  ProcInv'
  BY <1>5, HostAssumption DEF OuterWake, ProcInv
<1>6. ASSUME NEW p \in Procs, NEW path, WasmTest(p, path)
      PROVE  ProcInv'
  <2>1. CASE UNCHANGED <<status, running>>
    BY <1>1, <1>6, <2>1 DEF WasmTest, taskVars
  <2>2. CASE ~UNCHANGED <<status, running>>
    <3>1. /\ running = NoProc /\ status[p] = "unspawned"
          /\ status' = [status EXCEPT ![p] = "live"] /\ running' = p
          /\ UNCHANGED <<mode, fuel, queued, invocation>>
      BY <1>6, <2>2 DEF WasmTest
    <3>2. \A q \in Procs : status'[q] = IF q = p THEN "live" ELSE status[q]
      BY <3>1 DEF ProcInv
    <3>3. status' \in [Procs -> {"unspawned", "live", "idle", "dropped"}]
      BY <3>1 DEF ProcInv
    <3>4. p \notin queued /\ invocation[p] = NotSuspended
      BY <3>1 DEF ProcInv
    <3>5. \A q \in Procs : q \in queued' \/ q = running' \/ invocation'[q] # NotSuspended => status'[q] = "live"
      BY <3>1, <3>2, HostAssumption DEF ProcInv
    <3> QED  BY <3>1, <3>3, <3>4, <3>5 DEF ProcInv
  <2> QED  BY <2>1, <2>2
<1> QED  BY <1>2, <1>3, <1>4, <1>5, <1>6, PollKeepsProcs DEF Kernel

-----------------------------------------------------------------------------
\* A step of a process hands out the next capability id, or none.
LEMMA GuestKeepsCaps ==
  ASSUME CapInv, NEW p \in Procs, Kinds(p)
  PROVE  CapInv'
<1>0. MaxCaps \in Nat
  BY HostAssumption
<1>1. CASE UNCHANGED capVars
  BY <1>1 DEF CapInv, capVars
<1>2. ASSUME NEW c, AddCapability(p, c), next_index <= MaxCaps
      PROVE  CapInv'
  <2>1. PICK cs : cs = Put(caps[p], next_index, c)
    OBVIOUS
  <2>2. DOMAIN cs = DOMAIN caps[p] \cup {next_index}
    BY <2>1, PutMap, ZenonT(20)
  <2>3. caps' = [caps EXCEPT ![p] = cs] /\ next_index' = next_index + 1
    BY <1>2, <2>1 DEF AddCapability
  <2> QED  BY <1>0, <1>2, <2>2, <2>3 DEF CapInv
<1>3. CASE Ended(p)
  BY <1>1, <1>3 DEF Ended, End, CapInv, capVars
<1>4. CASE Closes(p)
  BY <1>4 DEF Closes, CapInv
<1> QED  BY <1>1, <1>2, <1>3, <1>4, ZenonT(20) DEF Kinds, Suspends, Prints, Answers, Opens, Makes, UsesSync, MakesSync

\* So does a step of the kernel.
LEMMA KernelKeepsCaps ==
  ASSUME CapInv, Kernel
  PROVE  CapInv'
<1>0. MaxCaps \in Nat
  BY HostAssumption
<1>1. CASE UNCHANGED capVars
  BY <1>1 DEF CapInv, capVars
<1>2. ASSUME NEW p \in Procs, NEW path, NEW rights, SpawnProcess(p, path, rights)
      PROVE  CapInv'
  BY <1>0, <1>2 DEF SpawnProcess, CapInv
<1>3. ASSUME NEW p \in Procs, Poll(p)
      PROVE  CapInv'
  BY <1>1, <1>3 DEF Poll, Enter, Resume, CannotContinue, End, CapInv, capVars
<1> QED  BY <1>1, <1>2, <1>3 DEF Kernel, KernelAddFile, KernelMkdir, WasmTest, CallAgain, OuterWake

\* A permit is taken or given back.
LEMMA PermitKeepsSync ==
  ASSUME SyncInv, NEW h \in DOMAIN semaphores, UNCHANGED mutexes,
         (semaphores[h].permits # 0 /\ TakePermit(h)) \/ GivePermit(h)
  PROVE  SyncInv'
<1>1. PICK s \in Counting : s = semaphores[h]
  BY DEF SyncInv
<1>2. PICK g \in Nat : g = granted[h]
  BY DEF SyncInv
<1>3. s.permits \in Nat /\ s.max \in Nat /\ s.permits + g = s.max
  BY <1>1, <1>2 DEF SyncInv, Counting
<1>4. PICK n \in Nat, m \in Nat : /\ n + m = s.max
                                  /\ semaphores' = [semaphores EXCEPT ![h] = [s EXCEPT !.permits = n]]
                                  /\ granted' = [granted EXCEPT ![h] = m]
  <2>1. CASE semaphores[h].permits # 0 /\ TakePermit(h)
    <3>1. PICK n \in Nat, m \in Nat : n = s.permits - 1 /\ m = g + 1 /\ n + m = s.max
      BY <1>1, <1>3, <2>1
    <3> QED  BY <1>1, <1>2, <2>1, <3>1, ZenonT(40) DEF TakePermit
  <2>2. CASE GivePermit(h)
    <3>1. PICK n \in Nat, m \in Nat : /\ n = IF s.permits < s.max THEN s.permits + 1 ELSE s.permits
                                      /\ m = IF g > 0 THEN g - 1 ELSE 0
                                      /\ n + m = s.max
      BY <1>3
    <3> QED  BY <1>1, <1>2, <2>2, <3>1, ZenonT(40) DEF GivePermit
  <2> QED  BY <2>1, <2>2
<1>5. PICK r : r = [s EXCEPT !.permits = n]
  BY ZenonT(40)
<1>6. r \in Counting /\ r.permits + m = r.max
  BY <1>1, <1>4, <1>5 DEF Counting
<1>7. semaphores' \in Seq(Counting) /\ Len(semaphores') = Len(semaphores)
  BY <1>4, <1>5, <1>6 DEF SyncInv
<1>8. granted' \in Seq(Nat) /\ Len(granted') = Len(granted)
  BY <1>4 DEF SyncInv
<1>9. ASSUME NEW x \in DOMAIN semaphores
      PROVE  semaphores'[x].permits + granted'[x] = semaphores'[x].max
  <2>1. CASE x = h
    <3>1. semaphores'[h] = r
      BY <1>4, <1>5
    <3>2. h \in DOMAIN granted
      BY DEF SyncInv
    <3>3. granted'[h] = m
      BY <1>4, <3>2
    <3> QED  BY <1>6, <2>1, <3>1, <3>3
  <2>2. CASE x # h
    BY <1>4, <2>2 DEF SyncInv
  <2> QED  BY <2>1, <2>2
<1>10. DOMAIN semaphores' = DOMAIN semaphores /\ Len(granted') = Len(semaphores')
  BY <1>7, <1>8 DEF SyncInv
<1> QED  BY <1>7, <1>8, <1>9, <1>10, ZenonT(20) DEF SyncInv

\* A semaphore is registered with all its permits free.
LEMMA CreateKeepsSync ==
  ASSUME SyncInv, NEW n \in Nat, UNCHANGED mutexes,
         semaphores' = Append(semaphores, [permits |-> n, max |-> n]),
         granted' = Append(granted, 0)
  PROVE  SyncInv'
<1>1. PICK r \in Counting : r = [permits |-> n, max |-> n]
  BY DEF Counting
<1>2. r.permits + 0 = r.max
  BY <1>1
<1>3. PICK k \in Nat : k = Len(semaphores) /\ k = Len(granted)
  BY DEF SyncInv
<1>4. /\ semaphores' \in Seq(Counting) /\ Len(semaphores') = k + 1
      /\ semaphores'[k + 1] = r
      /\ \A h \in 1..k : semaphores'[h] = semaphores[h]
  BY <1>1, <1>3 DEF SyncInv
<1>5. /\ granted' \in Seq(Nat) /\ Len(granted') = k + 1
      /\ granted'[k + 1] = 0
      /\ \A h \in 1..k : granted'[h] = granted[h]
  BY <1>3 DEF SyncInv
<1>6. \A h \in 1..k + 1 : semaphores'[h].permits + granted'[h] = semaphores'[h].max
  <2>1. \A h \in 1..k : semaphores[h].permits + granted[h] = semaphores[h].max
    BY <1>3 DEF SyncInv
  <2> QED  BY <1>2, <1>4, <1>5, <2>1
<1> QED  BY <1>4, <1>5, <1>6 DEF SyncInv

\* No call leaves a mutex locked, or invents or loses a permit.
LEMMA GuestKeepsSync ==
  ASSUME SyncInv, NEW p \in Procs, Kinds(p)
  PROVE  SyncInv'
<1>1. CASE UNCHANGED syncVars
  BY <1>1 DEF SyncInv, syncVars
<1>2. ASSUME UNCHANGED <<semaphores, granted>>, mutexes' \in Seq(Unlocked)
      PROVE  SyncInv'
  BY <1>2 DEF SyncInv
<1>3. CASE UsesSync(p)
  <2>1. ASSUME NEW h, mutexes' = [mutexes EXCEPT ![h] = FALSE]
        PROVE  mutexes' \in Seq(Unlocked)
    <3>1. PICK v \in Unlocked : v = FALSE
      BY DEF Unlocked
    <3>2. mutexes' = [mutexes EXCEPT ![h] = v]
      BY <2>1, <3>1, ZenonT(40)
    <3>3. CASE h \in DOMAIN mutexes
      BY <3>2, <3>3 DEF SyncInv
    <3>4. CASE h \notin DOMAIN mutexes
      <4>1. mutexes' = mutexes
        BY <3>2, <3>4 DEF SyncInv
      <4> QED  BY <4>1 DEF SyncInv
    <3> QED  BY <3>3, <3>4
  <2> QED  BY <1>2, <1>3, <2>1, PermitKeepsSync DEF UsesSync
<1>4. CASE MakesSync(p)
  <2>1. ASSUME mutexes' = Append(mutexes, FALSE)
        PROVE  mutexes' \in Seq(Unlocked)
    <3>1. PICK v \in Unlocked : v = FALSE
      BY DEF Unlocked
    <3>2. mutexes' = Append(mutexes, v)
      BY <2>1, <3>1, ZenonT(40)
    <3> QED  BY <3>2 DEF SyncInv
  <2> QED  BY <1>2, <1>4, <2>1, CreateKeepsSync, ZenonT(20) DEF MakesSync
<1> QED  BY <1>1, <1>3, <1>4 DEF Kinds, Ended, Suspends, Prints, Answers, Opens, Closes, Makes

\* No step of the kernel touches the registry.
LEMMA KernelKeepsSync ==
  ASSUME Kernel
  PROVE  UNCHANGED syncVars
BY DEF Kernel, KernelAddFile, KernelMkdir, SpawnProcess, WasmTest, CallAgain, OuterWake, Poll,
       Enter, Resume, CannotContinue

-----------------------------------------------------------------------------
(* Paths.                                                                    *)

\* A lookup that finds a node found it at the end of the path.
LEMMA WalkLeads ==
  ASSUME NEW base, NEW path, Walk(nodes, base, path) # NoNode
  PROVE  /\ Walk(nodes, base, path) \in DOMAIN nodes
         /\ Leads(nodes, base, path, Walk(nodes, base, path))
<1>1. \E n \in DOMAIN nodes : Leads(nodes, base, path, n)
  BY DEF Walk
<1>2. Walk(nodes, base, path) = CHOOSE n \in DOMAIN nodes : Leads(nodes, base, path, n)
  BY <1>1 DEF Walk
<1> QED  BY <1>1, <1>2

-----------------------------------------------------------------------------
(* The handles and their owners.                                             *)

\* The next handles are fresh, as long as the two counters are apart.
LEMMA FreshHandles ==
  ASSUME HandlesIssued
  PROVE  /\ next_handle < AtBase => next_handle \notin DOMAIN open_handles
         /\ Apart => next_handle_at \notin DOMAIN open_handles
<1>1. AtBase \in Nat /\ MaxOpens \in Nat
  BY HostAssumption
<1> QED  BY <1>1 DEF HandlesIssued, HandedOut, Apart

\* The counter of open never goes back.
LEMMA ApartBefore ==
  ASSUME HandlesIssued, Apart', next_handle' = next_handle \/ next_handle' = next_handle + 1
  PROVE  Apart /\ (next_handle' = next_handle + 1 => next_handle < AtBase)
<1>1. AtBase \in Nat /\ MaxOpens \in Nat
  BY HostAssumption
<1> QED  BY <1>1 DEF HandlesIssued, Apart

\* Whoever holds a handle holds an open one, and no other process has it.
LEMMA HeldIsOpen ==
  ASSUME CapsFit
  PROVE  \A p \in Procs : \A i, h : Holds(p, i, h) => h \in DOMAIN open_handles \ orphaned
BY DEF CapsFit, Fits

\* Nothing changes but that the tree of nodes grows.
LEMMA GrowKeepsHandles ==
  ASSUME HandleInv, NodesGrow,
         UNCHANGED <<open_handles, next_handle, next_handle_at, orphaned, caps, status>>
  PROVE  HandleInv'
<1>1. \A h \in DOMAIN open_handles : /\ open_handles[h] \in DOMAIN nodes'
                                     /\ nodes'[open_handles[h]].kind = nodes[open_handles[h]].kind
  BY DEF HandleInv, HandlesLead, NodesGrow
<1>2. \A p, i, h : Holds(p, i, h)' <=> Holds(p, i, h)
  BY DEF Holds, FileCaps
<1>3. HandlesIssued' /\ HandlesLead' /\ UnspawnedHoldNone'
  BY <1>1 DEF HandleInv, HandlesIssued, HandedOut, HandlesLead, UnspawnedHoldNone
<1> SUFFICES ASSUME Apart'
             PROVE  Owned'
  BY <1>3 DEF HandleInv
<1>4. Owned
  BY DEF HandleInv, Apart
<1>5. CapsFit'
  BY <1>1, <1>2, <1>4 DEF Owned, CapsFit, Fits
<1>6. OneHolder'
  BY <1>2, <1>4 DEF Owned, OneHolder
<1>7. AllAccounted'
  BY <1>1, <1>2, <1>4 DEF Owned, AllAccounted, Accounted
<1> QED  BY <1>4, <1>5, <1>6, <1>7 DEF Owned

\* The files and directories of the processes stay as they are, and so do the
\* handles that are open; new ones may be added to the ids that stand for others.
LEMMA SameHandles ==
  ASSUME HandleInv, UNCHANGED <<fsVars, orphaned>>,
         \A p \in Procs : /\ FileCaps(p)' = FileCaps(p)
                          /\ \A i \in FileCaps(p) : caps'[p][i] = caps[p][i]
                          /\ status'[p] = "unspawned" => DOMAIN caps'[p] = {}
  PROVE  HandleInv'
<1>1. UNCHANGED <<nodes, open_handles, next_handle, next_handle_at>>
  BY DEF fsVars
<1>2. \A p \in Procs : \A i, h : Holds(p, i, h)' <=> Holds(p, i, h)
  BY DEF Holds
<1>3. HandlesIssued' /\ HandlesLead' /\ UnspawnedHoldNone'
  BY <1>1 DEF HandleInv, HandlesIssued, HandedOut, HandlesLead, UnspawnedHoldNone
<1> SUFFICES ASSUME Apart'
             PROVE  Owned'
  BY <1>3 DEF HandleInv
<1>4. Owned
  BY <1>1 DEF HandleInv, Apart
<1>5. CapsFit'
  <2>1. \A p \in Procs : \A i, h : Holds(p, i, h) => caps'[p][i] = caps[p][i]
    BY DEF Holds
  <2> QED  BY <1>1, <1>2, <1>4, <2>1 DEF Owned, CapsFit, Fits
<1>6. OneHolder'
  BY <1>2, <1>4 DEF Owned, OneHolder
<1>7. AllAccounted'
  BY <1>1, <1>2, <1>4 DEF Owned, AllAccounted, Accounted
<1> QED  BY <1>1, <1>4, <1>5, <1>6, <1>7 DEF Owned

\* A handle, fresh as long as the counters are apart, is opened for a node, and one
\* process gets a capability for it.
LEMMA GainKeepsHandles ==
  ASSUME CapInv, HandleInv, NEW p \in Procs, NEW h, NEW n \in DOMAIN nodes, NEW c,
         Apart' => Apart /\ h \notin DOMAIN open_handles,
         h \in HandedOut', DOMAIN open_handles \subseteq HandedOut',
         next_handle' \in 1..MaxOpens + 1, next_handle_at' \in Nat, next_handle_at' >= AtBase,
         open_handles' = Put(open_handles, h, n),
         UNCHANGED <<nodes, orphaned>>,
         c.kind \in FileKinds, c.handle = h, nodes[n].kind = "dir" <=> c.kind = "Directory",
         caps' = [caps EXCEPT ![p] = Put(caps[p], next_index, c)],
         \A q \in Procs : q # p => status'[q] = status[q],
         status'[p] # "unspawned"
  PROVE  HandleInv'
<1>0. PICK x : x = next_index
  OBVIOUS
<1>1. /\ DOMAIN open_handles' = DOMAIN open_handles \cup {h}
      /\ open_handles'[h] = n
      /\ \A k \in DOMAIN open_handles : k # h => open_handles'[k] = open_handles[k]
  BY DEF Put
<1>2. x \notin DOMAIN caps[p] /\ DOMAIN caps = Procs
  BY <1>0 DEF CapInv
<1>3. /\ \A q \in Procs : q # p => caps'[q] = caps[q]
      /\ DOMAIN caps'[p] = DOMAIN caps[p] \cup {x}
      /\ caps'[p][x] = c
      /\ \A i \in DOMAIN caps[p] : caps'[p][i] = caps[p][i]
  BY <1>0, <1>2 DEF Put
<1>4. /\ FileCaps(p)' = FileCaps(p) \cup {x}
      /\ \A q \in Procs : q # p => FileCaps(q)' = FileCaps(q)
      /\ \A q \in Procs : \A i \in FileCaps(q) : caps'[q][i] = caps[q][i]
  BY <1>2, <1>3 DEF FileCaps
<1>5. \A q \in Procs : \A i, k : Holds(q, i, k)' <=>
        (Holds(q, i, k) \/ (q = p /\ i = x /\ k = h))
  BY <1>2, <1>3, <1>4 DEF Holds, FileCaps
<1>6. UnspawnedHoldNone' /\ HandlesLead' /\ HandlesIssued'
  BY <1>1, <1>3 DEF HandleInv, UnspawnedHoldNone, HandlesLead, HandlesIssued
<1> SUFFICES ASSUME Apart'
             PROVE  Owned'
  BY <1>6 DEF HandleInv
<1>7. Owned /\ h \notin DOMAIN open_handles
  BY DEF HandleInv
<1>8. /\ OneHolder' /\ AllAccounted'
      /\ orphaned' \subseteq DOMAIN open_handles' /\ h \notin orphaned
  <2>1. OneHolder'
    BY <1>5, <1>7, HeldIsOpen DEF Owned, OneHolder
  <2>2. AllAccounted'
    BY <1>1, <1>5, <1>7 DEF Owned, AllAccounted, Accounted
  <2> QED  BY <1>1, <1>7, <2>1, <2>2 DEF Owned
<1>9. Fits(p, x, h)'
  <2>1. h \in DOMAIN open_handles' \ orphaned' /\ nodes'[open_handles'[h]] = nodes[n]
    BY <1>1, <1>8
  <2>2. nodes[n].kind = "dir" <=> caps'[p][x].kind = "Directory"
    BY <1>3
  <2> QED  BY ONLY <2>1, <2>2 DEF Fits
<1>10. ASSUME NEW q \in Procs, NEW i, NEW k, Holds(q, i, k)
       PROVE  Fits(q, i, k)'
  <2>1. Fits(q, i, k) /\ k \in DOMAIN open_handles
    BY <1>7, <1>10 DEF Owned, CapsFit, Fits
  <2>2. caps'[q][i] = caps[q][i]
    BY <1>4, <1>10 DEF Holds
  <2> QED  BY <1>1, <1>7, <2>1, <2>2 DEF Fits
<1>11. CapsFit'
  <2> SUFFICES ASSUME NEW q \in Procs, NEW i, NEW k, Holds(q, i, k)'
               PROVE  Fits(q, i, k)'
    BY DEF CapsFit
  <2>1. CASE Holds(q, i, k)
    BY <1>10, <2>1
  <2>2. CASE q = p /\ i = x /\ k = h
    BY ONLY <1>9, <2>2 DEF Fits
  <2> QED  BY <1>5, <2>1, <2>2
<1> QED  BY <1>8, <1>11 DEF Owned

\* A process is dropped with its capabilities; what they stood for stays open.
LEMMA DropKeepsHandles ==
  ASSUME CapInv, HandleInv, NEW p \in Procs, UNCHANGED fsVars,
         caps' = [caps EXCEPT ![p] = <<>>],
         orphaned' = orphaned \cup FileHandles(p),
         \A q \in Procs : q # p => status'[q] = status[q]
  PROVE  HandleInv'
<1>1. UNCHANGED <<nodes, open_handles, next_handle, next_handle_at>>
  BY DEF fsVars
<1>2. DOMAIN caps'[p] = {} /\ \A q \in Procs : q # p => caps'[q] = caps[q]
  BY DEF CapInv
<1>3. FileCaps(p)' = {} /\ \A q \in Procs : q # p => FileCaps(q)' = FileCaps(q)
  BY <1>2 DEF FileCaps
<1>4. \A q \in Procs : \A i, h : Holds(q, i, h)' <=> Holds(q, i, h) /\ q # p
  BY <1>2, <1>3 DEF Holds
<1>5. \A h : h \in FileHandles(p) <=> \E i : Holds(p, i, h)
  BY DEF FileHandles, Holds, FileCaps
<1>6. HandlesIssued' /\ HandlesLead' /\ UnspawnedHoldNone'
  BY <1>1, <1>2 DEF HandleInv, HandlesIssued, HandedOut, HandlesLead, UnspawnedHoldNone
<1> SUFFICES ASSUME Apart'
             PROVE  Owned'
  BY <1>6 DEF HandleInv
<1>7. Owned
  BY <1>1 DEF HandleInv, Apart
<1>8. ASSUME NEW q \in Procs, NEW i, NEW h, Holds(q, i, h)'
      PROVE  Fits(q, i, h)'
  <2>1. q # p /\ Holds(q, i, h) /\ caps'[q] = caps[q]
    BY <1>2, <1>4, <1>8
  <2>2. h \notin FileHandles(p)
    BY <1>5, <1>7, <2>1 DEF Owned, OneHolder
  <2>3. Fits(q, i, h)
    BY <1>7, <2>1 DEF Owned, CapsFit
  <2> QED  BY <1>1, <2>1, <2>2, <2>3 DEF Fits
<1>9. CapsFit'
  BY <1>8 DEF CapsFit
<1>10. OneHolder'
  BY <1>4, <1>7 DEF Owned, OneHolder
<1>11. AllAccounted'
  BY <1>1, <1>4, <1>5, <1>7 DEF Owned, AllAccounted, Accounted
<1>12. orphaned' \subseteq DOMAIN open_handles'
  BY <1>1, <1>5, <1>7, HeldIsOpen DEF Owned
<1> QED  BY <1>9, <1>10, <1>11, <1>12 DEF Owned

\* A capability is given up and its handle closed.
LEMMA CloseKeepsHandles ==
  ASSUME CapInv, HandleInv, NEW p \in Procs, NEW id \in FileCaps(p),
         caps' = [caps EXCEPT ![p] = [i \in DOMAIN caps[p] \ {id} |-> caps[p][i]]],
         Close(caps[p][id].handle), UNCHANGED <<orphaned, status>>
  PROVE  HandleInv'
<1>1. PICK g : g = caps[p][id].handle
  OBVIOUS
<1>2. /\ UNCHANGED <<nodes, next_handle, next_handle_at>>
      /\ DOMAIN open_handles' = DOMAIN open_handles \ {g}
      /\ \A h \in DOMAIN open_handles : h # g => open_handles'[h] = open_handles[h]
  BY <1>1 DEF Close
<1>3. /\ \A q \in Procs : q # p => caps'[q] = caps[q]
      /\ DOMAIN caps'[p] = DOMAIN caps[p] \ {id}
      /\ \A i \in DOMAIN caps[p] : i # id => caps'[p][i] = caps[p][i]
  BY DEF CapInv
<1>4. \A q \in Procs : \A i : /\ i \in FileCaps(q)' <=> i \in FileCaps(q) /\ ~(q = p /\ i = id)
                              /\ i \in FileCaps(q)' => caps'[q][i] = caps[q][i]
  BY <1>3 DEF FileCaps
<1>5. \A q \in Procs : \A i, h : Holds(q, i, h)' <=> Holds(q, i, h) /\ ~(q = p /\ i = id)
  BY <1>4 DEF Holds
<1>6. Holds(p, id, g) /\ \A h : Holds(p, id, h) => h = g
  BY <1>1 DEF Holds
<1>7. HandlesIssued' /\ HandlesLead' /\ UnspawnedHoldNone'
  BY <1>2, <1>3 DEF HandleInv, HandlesIssued, HandedOut, HandlesLead, UnspawnedHoldNone
<1> SUFFICES ASSUME Apart'
             PROVE  Owned'
  BY <1>7 DEF HandleInv
<1>8. Owned
  BY <1>2 DEF HandleInv, Apart
<1>9. \A q \in Procs : \A i, h : Holds(q, i, h)' => h # g
  BY <1>5, <1>6, <1>8 DEF Owned, OneHolder
<1>10. ASSUME NEW q \in Procs, NEW i, NEW h, Holds(q, i, h)'
      PROVE  Fits(q, i, h)'
  <2>1. Holds(q, i, h) /\ h # g
    BY <1>5, <1>9, <1>10
  <2>2. caps'[q][i] = caps[q][i]
    BY <1>4, <1>10 DEF Holds
  <2>3. Fits(q, i, h)
    BY <1>8, <2>1 DEF Owned, CapsFit
  <2> QED  BY <1>2, <2>1, <2>2, <2>3 DEF Fits
<1>11. CapsFit'
  BY <1>10 DEF CapsFit
<1>12. OneHolder'
  BY <1>5, <1>8 DEF Owned, OneHolder
<1>13. ASSUME NEW h \in DOMAIN open_handles' \ orphaned'
       PROVE  Accounted(h)'
  <2>1. h \in DOMAIN open_handles \ orphaned /\ h # g
    BY <1>2, <1>13
  <2>2. \A q \in Procs : \A i : Holds(q, i, h) => Holds(q, i, h)'
    BY <1>5, <1>6, <2>1
  <2> QED  BY <1>2, <1>8, <2>1, <2>2 DEF Owned, AllAccounted, Accounted
<1>14. AllAccounted'
  BY <1>13 DEF AllAccounted
<1>15. orphaned' \subseteq DOMAIN open_handles'
  <2>1. g \notin orphaned
    BY <1>6, <1>8, HeldIsOpen DEF Owned
  <2> QED  BY <1>2, <1>8, <2>1 DEF Owned
<1> QED  BY <1>11, <1>12, <1>14, <1>15 DEF Owned

\* The wasm-test command draws a handle; for a directory, which it cannot read,
\* it does not close it.
LEMMA TestKeepsHandles ==
  ASSUME HandleInv, next_handle <= MaxOpens, next_handle' = next_handle + 1,
         NEW n \in DOMAIN nodes,
         \/ open_handles' = Put(open_handles, next_handle, n) /\ nodes[n].kind = "dir"
         \/ open_handles' = [h \in DOMAIN open_handles \ {next_handle} |-> open_handles[h]],
         UNCHANGED <<nodes, next_handle_at, orphaned, caps>>,
         \A q \in Procs : status'[q] = "unspawned" => status[q] = "unspawned"
  PROVE  HandleInv'
<1>1. MaxOpens \in Nat /\ AtBase \in Nat
  BY HostAssumption
<1>2. \A p, i, h : Holds(p, i, h)' <=> Holds(p, i, h)
  BY DEF Holds, FileCaps
<1>3. HandlesIssued'
  <2>1. DOMAIN open_handles' \subseteq DOMAIN open_handles \cup {next_handle}
    BY DEF Put
  <2> QED  BY <1>1, <2>1 DEF HandleInv, HandlesIssued, HandedOut
<1>4. HandlesLead' /\ UnspawnedHoldNone'
  BY DEF HandleInv, HandlesLead, UnspawnedHoldNone, Put
<1> SUFFICES ASSUME Apart'
             PROVE  Owned'
  BY <1>3, <1>4 DEF HandleInv
<1>5. Owned /\ next_handle < AtBase /\ next_handle \notin DOMAIN open_handles
  BY FreshHandles, ApartBefore DEF HandleInv
<1>6. /\ \A h \in DOMAIN open_handles : h \in DOMAIN open_handles' /\ open_handles'[h] = open_handles[h]
      /\ \A h \in DOMAIN open_handles' \ DOMAIN open_handles :
           h = next_handle /\ open_handles'[h] = n /\ nodes[n].kind = "dir"
  BY <1>5 DEF Put
<1>7. CapsFit'
  BY <1>2, <1>6, <1>5 DEF Owned, CapsFit, Fits
<1>8. OneHolder'
  BY <1>2, <1>5 DEF Owned, OneHolder
<1>9. ASSUME NEW h \in DOMAIN open_handles' \ orphaned'
      PROVE  Accounted(h)'
  <2>1. CASE h \in DOMAIN open_handles
    <3>1. Accounted(h)
      BY <1>9, <1>5, <2>1 DEF Owned, AllAccounted
    <3> QED  BY <1>2, <1>6, <2>1, <3>1 DEF Accounted
  <2>2. CASE h \notin DOMAIN open_handles
    BY <1>6, <1>9, <1>5, <2>2 DEF Accounted
  <2> QED  BY <2>1, <2>2
<1>10. AllAccounted'
  BY <1>9 DEF AllAccounted
<1> QED  BY <1>6, <1>7, <1>8, <1>10, <1>5 DEF Owned

\* The end of an invocation: a borrowed process keeps its capabilities.
LEMMA EndKeepsHandles ==
  ASSUME ProcInv, CapInv, HandleInv, NEW p \in Procs, End(p), UNCHANGED fsVars
  PROVE  HandleInv'
<1>1. \A q \in Procs : q # p => status'[q] = status[q]
  BY DEF End, ProcInv
<1>2. CASE mode[p] # "call_async"
  BY <1>1, <1>2, DropKeepsHandles DEF End
<1>3. CASE mode[p] = "call_async"
  <2>1. status'[p] = "idle" /\ UNCHANGED <<caps, orphaned>>
    BY <1>3 DEF End, ProcInv, capVars
  <2>2. \A q \in Procs : /\ FileCaps(q)' = FileCaps(q)
                         /\ \A i \in FileCaps(q) : caps'[q][i] = caps[q][i]
    BY <2>1 DEF FileCaps
  <2>3. \A q \in Procs : status'[q] = "unspawned" => DOMAIN caps'[q] = {}
    BY <1>1, <2>1 DEF HandleInv, UnspawnedHoldNone
  <2> QED  BY <2>1, <2>2, <2>3, SameHandles
<1> QED  BY <1>2, <1>3

\* sp_fs_open: the next relative handle, for the node the path leads to.
LEMMA OpenKeepsHandles ==
  ASSUME ProcInv, CapInv, NodesInv, HandleInv, NEW p \in Procs, Opens(p)
  PROVE  HandleInv'
<1>1. PICK id \in DOMAIN caps[p], path \in Paths :
        /\ OpenAt(caps[p][id].handle, path) # NoNode
        /\ OpenAtHandle(OpenAt(caps[p][id].handle, path))
        /\ AddCapability(p, Derive(OpenAt(caps[p][id].handle, path), next_handle_at, caps[p][id].rights))
  BY DEF Opens
<1>2. PICK n : n = OpenAt(caps[p][id].handle, path)
  OBVIOUS
<1>3. n \in DOMAIN nodes
  BY <1>1, <1>2, WalkLeads DEF OpenAt
<1>4. PICK c : c = Derive(n, next_handle_at, caps[p][id].rights)
  OBVIOUS
<1>5. c.kind \in FileKinds /\ c.handle = next_handle_at /\ (nodes[n].kind = "dir" <=> c.kind = "Directory")
  <2>1. IsDir(nodes, n) <=> nodes[n].kind = "dir"
    BY <1>1, <1>2 DEF IsDir
  <2>2. /\ IsDir(nodes, n) => c.kind = "Directory"
        /\ ~IsDir(nodes, n) => c.kind = "File"
        /\ c.handle = next_handle_at
    BY <1>4 DEF Derive, Capability
  <2> QED  BY <2>1, <2>2 DEF FileKinds
<1>6. /\ open_handles' = Put(open_handles, next_handle_at, n)
      /\ next_handle_at' = next_handle_at + 1
      /\ UNCHANGED <<nodes, next_handle>>
      /\ caps' = [caps EXCEPT ![p] = Put(caps[p], next_index, c)]
      /\ UNCHANGED <<orphaned, status>>
  BY <1>1, <1>2, <1>4, ZenonT(20) DEF OpenAtHandle, AddCapability, Opens, Serves, taskVars
<1>7. AtBase \in Nat /\ (Apart' => Apart /\ next_handle_at \notin DOMAIN open_handles)
  BY <1>6, FreshHandles, HostAssumption DEF HandleInv, Apart
<1>8. /\ next_handle_at \in HandedOut' /\ DOMAIN open_handles \subseteq HandedOut'
      /\ next_handle' \in 1..MaxOpens + 1 /\ next_handle_at' \in Nat /\ next_handle_at' >= AtBase
  BY <1>6, <1>7 DEF HandleInv, HandlesIssued, HandedOut
<1>9. status'[p] # "unspawned"
  BY <1>6 DEF Opens, Serves, ProcInv
<1> QED  BY <1>3, <1>5, <1>6, <1>7, <1>8, <1>9, GainKeepsHandles, ZenonT(20)

\* The kernel opens a directory and gives it to the process it spawns.
LEMMA SpawnKeepsHandles ==
  ASSUME ProcInv, CapInv, NodesInv, HandleInv, NEW p \in Procs, NEW path, NEW rights,
         SpawnProcess(p, path, rights)
  PROVE  HandleInv'
<1>1. PICK n : n = Walk(nodes, Root, path)
  OBVIOUS
<1>2. /\ status[p] = "unspawned" /\ IsDir(nodes, n)
      /\ next_handle <= MaxOpens
      /\ OpenHandle(n)
      /\ caps' = [caps EXCEPT ![p] = [i \in {next_index} |-> Capability("Directory", next_handle, rights)]]
      /\ spawn_task(p)
      /\ UNCHANGED orphaned
  BY <1>1 DEF SpawnProcess
<1>3. n \in DOMAIN nodes /\ nodes[n].kind = "dir"
  BY <1>1, <1>2, WalkLeads DEF IsDir
<1>4. PICK c : c = Capability("Directory", next_handle, rights)
  OBVIOUS
<1>5. c.kind \in FileKinds /\ c.handle = next_handle /\ c.kind = "Directory"
  BY <1>4 DEF Capability, FileKinds
<1>6. caps' = [caps EXCEPT ![p] = Put(caps[p], next_index, c)]
  <2>1. DOMAIN caps[p] = {}
    BY <1>2 DEF HandleInv, UnspawnedHoldNone
  <2>2. Put(caps[p], next_index, c) = [i \in {next_index} |-> c]
    BY <2>1 DEF Put
  <2> QED  BY <1>2, <1>4, <2>2, ZenonT(20)
<1>7. /\ open_handles' = Put(open_handles, next_handle, n)
      /\ next_handle' = next_handle + 1
      /\ UNCHANGED <<nodes, next_handle_at>>
  BY <1>2 DEF OpenHandle
<1>8. MaxOpens \in Nat /\ AtBase \in Nat /\ (Apart' => Apart /\ next_handle \notin DOMAIN open_handles)
  BY <1>7, FreshHandles, ApartBefore, HostAssumption DEF HandleInv
<1>9. /\ next_handle \in HandedOut' /\ DOMAIN open_handles \subseteq HandedOut'
      /\ next_handle' \in 1..MaxOpens + 1 /\ next_handle_at' \in Nat /\ next_handle_at' >= AtBase
  BY <1>2, <1>7, <1>8 DEF HandleInv, HandlesIssued, HandedOut
<1>10. /\ \A q \in Procs : q # p => status'[q] = status[q]
       /\ status'[p] # "unspawned"
  BY <1>2 DEF spawn_task, ProcInv
<1> QED  BY <1>2, <1>3, <1>5, <1>6, <1>7, <1>8, <1>9, <1>10, GainKeepsHandles, ZenonT(20)

-----------------------------------------------------------------------------
(* The tree of nodes.                                                        *)

\* A node that is created gets the number behind the last one.
LEMMA NewNodeIsNext ==
  ASSUME NodesInv
  PROVE  /\ NewNode \in Nat \ {0}
         /\ DOMAIN nodes = 0..NewNode - 1
         /\ NoNode \notin DOMAIN nodes /\ Root \in DOMAIN nodes
<1>1. PICK n \in Nat \ {0} : DOMAIN nodes = 0..n - 1
  BY DEF NodesInv
<1>2. \A k \in DOMAIN nodes : k + 1 \notin DOMAIN nodes => k + 1 = n
  BY <1>1
<1>3. n \in {k + 1 : k \in DOMAIN nodes} /\ n \notin DOMAIN nodes
  <2>1. n - 1 \in DOMAIN nodes /\ n = n - 1 + 1
    BY <1>1
  <2> QED  BY <1>1, <2>1
<1>4. NewNode = n
  BY <1>2, <1>3 DEF NewNode
<1> QED  BY <1>1, <1>4 DEF NoNode, Root

\* New nodes are hung into directory d.
LEMMA InsertNodes ==
  ASSUME NodesInv, NEW d \in DOMAIN nodes, nodes[d].kind = "dir", NEW name, NEW m \in Nat,
         NEW created, DOMAIN created = NewNode..NewNode + m,
         \A n \in DOMAIN created : NodeOK(created[n], 0..NewNode + m),
         nodes' = Insert(d, name, created)
  PROVE  /\ NodesInv' /\ NodesGrow
         /\ \A n \in DOMAIN nodes : n # d => nodes'[n] = nodes[n]
         /\ nodes'[d].entries = Put(nodes[d].entries, name, NewNode)
         /\ nodes'[NewNode] = created[NewNode] /\ NewNode \notin DOMAIN nodes
<1>1. /\ NewNode \in Nat \ {0}
      /\ DOMAIN nodes = 0..NewNode - 1
  BY NewNodeIsNext
<1>2. DOMAIN nodes' = 0..NewNode + m
  BY <1>1 DEF Insert
<1>3. PICK e : e = Put(nodes[d].entries, name, NewNode)
  OBVIOUS
<1>4. nodes[d] = [kind |-> "dir", entries |-> nodes[d].entries]
  BY DEF NodesInv, NodeOK
<1>5. nodes'[d] = [kind |-> "dir", entries |-> e]
  BY <1>3, <1>4 DEF Insert
<1>6. \A n \in DOMAIN nodes : n # d => nodes'[n] = nodes[n]
  BY DEF Insert
<1>7. \A n \in NewNode..NewNode + m : nodes'[n] = created[n]
  BY <1>1 DEF Insert
<1>8. DOMAIN e = DOMAIN nodes[d].entries \cup {name}
  BY <1>3 DEF Put
<1>9. \A x \in DOMAIN e : e[x] = NewNode \/ (x \in DOMAIN nodes[d].entries /\ e[x] = nodes[d].entries[x])
  BY <1>3, <1>8 DEF Put
<1>10. \A x \in DOMAIN nodes[d].entries : nodes[d].entries[x] \in DOMAIN nodes
  BY <1>4 DEF NodesInv, NodeOK
<1>11. NodeOK(nodes'[d], 0..NewNode + m)
  <2>1. \A x \in DOMAIN e : e[x] \in 0..NewNode + m
    BY <1>1, <1>9, <1>10
  <2> QED  BY <1>5, <2>1 DEF NodeOK
<1>12. ASSUME NEW n \in DOMAIN nodes, n # d
       PROVE  NodeOK(nodes'[n], 0..NewNode + m)
  <2>1. NodeOK(nodes[n], DOMAIN nodes) /\ nodes'[n] = nodes[n]
    BY <1>6, <1>12 DEF NodesInv
  <2>2. DOMAIN nodes \subseteq 0..NewNode + m
    BY <1>1
  <2> QED  BY <2>1, <2>2 DEF NodeOK
<1>13. ASSUME NEW n \in NewNode..NewNode + m
       PROVE  NodeOK(nodes'[n], 0..NewNode + m)
  BY <1>7
<1>14. \A n \in 0..NewNode + m : n \in DOMAIN nodes \/ n \in NewNode..NewNode + m
  BY <1>1
<1>15. \E k \in Nat \ {0} : 0..NewNode + m = 0..k - 1
  <2>1. PICK k \in Nat \ {0} : k = NewNode + m + 1
    BY <1>1
  <2>2. k - 1 = NewNode + m
    BY <1>1, <2>1
  <2> QED  BY <2>2
<1>16. NodesInv'
  BY <1>2, <1>11, <1>12, <1>13, <1>14, <1>15 DEF NodesInv
<1>17. NodesGrow
  BY <1>1, <1>2, <1>5, <1>6 DEF NodesGrow
<1>18. nodes'[d].entries = e /\ NewNode \in NewNode..NewNode + m
  BY <1>1, <1>5
<1> QED  BY <1>1, <1>3, <1>6, <1>7, <1>16, <1>17, <1>18

-----------------------------------------------------------------------------
\* A name leads to the node it led to, or to a new one that is a file.
NameStays(d, name) ==
  \/ nodes'[d].entries[name] = nodes[d].entries[name]
  \/ /\ nodes'[d].entries[name] \notin DOMAIN nodes
     /\ ~IsDir(nodes', nodes'[d].entries[name])

\* mkdir_at adds a directory under a name that was free.
LEMMA MkdirNodes ==
  ASSUME NodesInv, NEW h, NEW path, CanMake(h, path), nodes' = MkdirAt(h, path)
  PROVE  /\ NodesInv' /\ NodesGrow
         /\ \A d \in DOMAIN nodes : IsDir(nodes, d) =>
              \A name \in DOMAIN nodes[d].entries : nodes'[d].entries[name] = nodes[d].entries[name]
<1>1. PICK d : d = Walk(nodes, BaseNode(h), Parent(path))
  OBVIOUS
<1>2. IsDir(nodes, d) /\ ~Has(nodes, d, Name(path))
  BY <1>1 DEF CanMake
<1>3. d \in DOMAIN nodes /\ nodes[d].kind = "dir"
  BY <1>1, <1>2, WalkLeads DEF IsDir
<1>4. PICK created : created = [n \in {NewNode} |-> Directory]
  BY ZenonT(20)
<1>5. DOMAIN created = NewNode..NewNode + 0 /\ NewNode \in Nat
  BY <1>4, NewNodeIsNext
<1>6. NodeOK(Directory, 0..NewNode + 0)
  BY DEF NodeOK, Directory
<1>7. \A n \in DOMAIN created : NodeOK(created[n], 0..NewNode + 0)
  BY <1>4, <1>6
<1>8. nodes' = Insert(d, Name(path), created)
  BY <1>1, <1>4 DEF MkdirAt
<1>9. /\ NodesInv' /\ NodesGrow
      /\ \A n \in DOMAIN nodes : n # d => nodes'[n] = nodes[n]
      /\ nodes'[d].entries = Put(nodes[d].entries, Name(path), NewNode)
  BY <1>3, <1>5, <1>7, <1>8, InsertNodes, ZenonT(20)
<1>10. \A name \in DOMAIN nodes[d].entries : nodes'[d].entries[name] = nodes[d].entries[name]
  <2>1. Name(path) \notin DOMAIN nodes[d].entries
    BY <1>2 DEF Has
  <2> QED  BY <1>9, <2>1 DEF Put
<1> QED  BY <1>9, <1>10

\* The first k components of a path.
LEMMA PathPrefix ==
  ASSUME NEW path \in Seq(STRING), NEW k \in 0..Len(path)
  PROVE  \E s \in Seq(STRING) : /\ s = SubSeq(path, 1, k) /\ Len(s) = k
                                /\ \A i \in 1..k : s[i] = path[i]
<1>1. /\ SubSeq(path, 1, k) \in Seq(STRING) /\ Len(SubSeq(path, 1, k)) = k
      /\ \A i \in 1..k : SubSeq(path, 1, k)[i] = path[i]
  OBVIOUS
<1> QED  BY <1>1, ZenonT(20)

\* A lookup goes on through a name of the directory it has reached.
LEMMA PrefixExtends ==
  ASSUME NodesInv, NEW path \in Seq(STRING), NEW k \in 0..Len(path) - 1,
         Prefix(path, k) # NoNode, Has(nodes, Prefix(path, k), path[k + 1])
  PROVE  Prefix(path, k + 1) # NoNode
<1>1. PICK s \in Seq(STRING) : s = SubSeq(path, 1, k) /\ Len(s) = k /\ \A i \in 1..k : s[i] = path[i]
  <2>1. k \in 0..Len(path)
    OBVIOUS
  <2> QED  BY <2>1, PathPrefix
<1>2. PICK t \in Seq(STRING) : /\ t = SubSeq(path, 1, k + 1) /\ Len(t) = k + 1
                               /\ \A i \in 1..k + 1 : t[i] = path[i]
  <2>1. k + 1 \in 0..Len(path)
    OBVIOUS
  <2> QED  BY <2>1, PathPrefix
<1>3. PICK d : d = Prefix(path, k)
  OBVIOUS
<1>4. d \in DOMAIN nodes /\ Leads(nodes, Root, s, d)
  BY <1>1, <1>3, WalkLeads DEF Prefix
<1>5. PICK trail \in [0..k -> DOMAIN nodes] :
        /\ trail[0] = Root
        /\ trail[k] = d
        /\ \A i \in 1..k : /\ Has(nodes, trail[i - 1], path[i])
                           /\ trail[i] = nodes[trail[i - 1]].entries[path[i]]
  <2>1. PICK trail \in [0..Len(s) -> DOMAIN nodes] :
          /\ trail[0] = Root
          /\ trail[Len(s)] = d
          /\ \A i \in 1..Len(s) : /\ Has(nodes, trail[i - 1], s[i])
                                  /\ trail[i] = nodes[trail[i - 1]].entries[s[i]]
    BY <1>4 DEF Leads
  <2>2. trail \in [0..k -> DOMAIN nodes] /\ trail[0] = Root /\ trail[k] = d
    BY <1>1, <2>1
  <2>3. \A i \in 1..k : /\ Has(nodes, trail[i - 1], path[i])
                        /\ trail[i] = nodes[trail[i - 1]].entries[path[i]]
    BY <1>1, <2>1
  <2> QED  BY <2>2, <2>3, ZenonT(20)
<1>6. PICK n : n = nodes[d].entries[path[k + 1]]
  OBVIOUS
<1>7. n \in DOMAIN nodes
  BY <1>3, <1>4, <1>6 DEF Has, IsDir, NodesInv, NodeOK
<1>8. PICK longer : longer = [i \in 0..k + 1 |-> IF i = k + 1 THEN n ELSE trail[i]]
  BY ZenonT(20)
<1>9. longer \in [0..k + 1 -> DOMAIN nodes]
  BY <1>5, <1>7, <1>8
<1>10. longer[0] = Root /\ longer[k + 1] = n
  BY <1>5, <1>8
<1>11. \A i \in 1..k + 1 : /\ Has(nodes, longer[i - 1], t[i])
                           /\ longer[i] = nodes[longer[i - 1]].entries[t[i]]
  <2>1. ASSUME NEW i \in 1..k
        PROVE  longer[i - 1] = trail[i - 1] /\ longer[i] = trail[i] /\ t[i] = path[i]
    BY <1>2, <1>8
  <2>2. longer[(k + 1) - 1] = d /\ t[k + 1] = path[k + 1] /\ longer[k + 1] = n
    BY <1>2, <1>5, <1>8
  <2>3. \A i \in 1..k + 1 : i \in 1..k \/ i = k + 1
    OBVIOUS
  <2> QED  BY <1>3, <1>5, <1>6, <2>1, <2>2, <2>3, ZenonT(20)
<1>12. Leads(nodes, Root, t, n)
  <2>1. longer \in [0..Len(t) -> DOMAIN nodes] /\ longer[0] = Root /\ longer[Len(t)] = n
    BY <1>2, <1>9, <1>10
  <2>2. \A i \in 1..Len(t) : /\ Has(nodes, longer[i - 1], t[i])
                             /\ longer[i] = nodes[longer[i - 1]].entries[t[i]]
    BY <1>2, <1>11
  <2> QED  BY <2>1, <2>2, ZenonT(20) DEF Leads
<1>13. Walk(nodes, Root, t) \in DOMAIN nodes
  BY <1>7, <1>12 DEF Walk
<1> QED  BY <1>2, <1>13, NewNodeIsNext DEF Prefix

-----------------------------------------------------------------------------
(* Paths of any length.                                                      *)

\* Some number of a non-empty set of them is the least.
LEMMA LeastOf ==
  ASSUME NEW T, T \subseteq Nat, T # {}
  PROVE  \E m \in T : \A k \in T : m <= k
<1>1. PICK R : R = OpToRel(<, Nat)
  BY ZenonT(40)
<1>2. IsWellFoundedOn(R, Nat)
  BY <1>1, NatLessThanWellFounded, ZenonT(40)
<1>3. PICK m \in T : \A k \in T : ~(<<k, m>> \in R)
  BY <1>2, WFMin, ZenonT(40)
<1>4. \A k \in T : ~(k < m)
  BY <1>1, <1>3, ZenonT(40) DEF OpToRel
<1> QED  BY <1>4

\* Induction over the steps of a trail.
LEMMA SetInduction ==
  ASSUME NEW T, 0 \in T, \A n \in Nat : n \in T => n + 1 \in T
  PROVE  Nat \subseteq T
<1> SUFFICES ASSUME Nat \ T # {}
             PROVE  FALSE
  OBVIOUS
<1>1. PICK m \in Nat \ T : \A k \in Nat \ T : m <= k
  BY LeastOf, ZenonT(40)
<1>2. m # 0 /\ m - 1 \in Nat /\ m - 1 \notin Nat \ T
  BY <1>1
<1> QED  BY <1>1, <1>2

\* A lookup stays in every set of nodes that has its base and, with a node, its
\* children.
LEMMA TrailStays ==
  ASSUME NEW path \in Seq(STRING), NEW base, NEW n, Leads(nodes, base, path, n),
         NEW S, base \in S, \A x \in S : Children(x) \subseteq S
  PROVE  n \in S
<1>1. PICK trail \in [0..Len(path) -> DOMAIN nodes] :
        /\ trail[0] = base
        /\ trail[Len(path)] = n
        /\ \A i \in 1..Len(path) : /\ Has(nodes, trail[i - 1], path[i])
                                   /\ trail[i] = nodes[trail[i - 1]].entries[path[i]]
  BY DEF Leads
<1>2. PICK T : T = {i \in Nat : i <= Len(path) => trail[i] \in S}
  OBVIOUS
<1>3. 0 \in T
  BY <1>1, <1>2
<1>4. ASSUME NEW i \in Nat, i \in T
      PROVE  i + 1 \in T
  <2> SUFFICES ASSUME i + 1 <= Len(path)
               PROVE  trail[i + 1] \in S
    BY <1>2
  <2>1. i + 1 \in 1..Len(path) /\ (i + 1) - 1 = i /\ trail[i] \in S
    BY <1>2, <1>4
  <2>2. Has(nodes, trail[i], path[i + 1]) /\ trail[i + 1] = nodes[trail[i]].entries[path[i + 1]]
    BY <1>1, <2>1
  <2>3. trail[i + 1] \in Children(trail[i])
    BY <2>2 DEF Has, Children
  <2> QED  BY <2>1, <2>3
<1>5. Nat \subseteq T
  BY <1>3, <1>4, SetInduction
<1>6. Len(path) \in T
  BY <1>5
<1> QED  BY <1>1, <1>2, <1>6

\* There is a longest part of the path that exists: the root always does.
LEMMA ExistingIsLongest ==
  ASSUME NodesInv, NEW path \in Seq(STRING), path # <<>>
  PROVE  /\ Existing(path) \in 0..Len(path) - 1
         /\ Prefix(path, Existing(path)) # NoNode
         /\ \A j \in Existing(path) + 1..Len(path) - 1 : Prefix(path, j) = NoNode
<1>1. Len(path) \in Nat \ {0}
  OBVIOUS
<1>2. Prefix(path, 0) # NoNode
  <2>1. PICK s \in Seq(STRING) : s = SubSeq(path, 1, 0) /\ Len(s) = 0
    BY <1>1, PathPrefix
  <2>2. PICK trail \in [0..0 -> DOMAIN nodes] : trail = [i \in 0..0 |-> Root]
    BY NewNodeIsNext
  <2>3. trail[0] = Root
    BY <2>2
  <2>4. Leads(nodes, Root, s, Root)
    BY <2>1, <2>3 DEF Leads
  <2>5. Walk(nodes, Root, s) \in DOMAIN nodes
    BY <2>4, NewNodeIsNext DEF Walk
  <2> QED  BY <2>1, <2>5, NewNodeIsNext DEF Prefix
<1>3. PICK T : T = {i \in 0..Len(path) - 1 : Prefix(path, Len(path) - 1 - i) # NoNode}
  BY ZenonT(40)
<1>4. Len(path) - 1 \in T
  BY <1>1, <1>2, <1>3
<1>5. PICK m \in T : \A i \in T : m <= i
  <2>1. T \subseteq Nat /\ T # {}
    BY <1>3, <1>4
  <2> QED  BY <2>1, LeastOf, ZenonT(40)
<1>6. PICK k \in 0..Len(path) - 1 : k = Len(path) - 1 - m
  <2>1. m \in 0..Len(path) - 1
    BY <1>3, <1>5
  <2>2. Len(path) - 1 - m \in 0..Len(path) - 1
    BY <1>1, <2>1
  <2> QED  BY <2>2
<1>7. Prefix(path, k) # NoNode
  BY <1>3, <1>5, <1>6
<1>8. ASSUME NEW j \in k + 1..Len(path) - 1
      PROVE  Prefix(path, j) = NoNode
  <2>1. PICK i \in 0..Len(path) - 1 : i = Len(path) - 1 - j /\ i < m
    <3>1. m \in 0..Len(path) - 1
      BY <1>3, <1>5
    <3>2. Len(path) - 1 - j \in 0..Len(path) - 1 /\ Len(path) - 1 - j < m
      BY <1>1, <1>6, <1>8, <3>1
    <3> QED  BY <3>2
  <2>2. i \notin T /\ Len(path) - 1 - i = j
    BY <1>1, <1>3, <1>5, <2>1
  <2> QED  BY <1>3, <2>1, <2>2
<1> QED  BY <1>6, <1>7, <1>8 DEF Existing

\* add_file replaces a name only by its file: the directories it makes all have
\* names that were free.
LEMMA AddFileNodes ==
  ASSUME NodesInv, NEW path \in Seq(STRING), NEW content, nodes' = AddFile(path, content)
  PROVE  /\ NodesInv' /\ NodesGrow
         /\ \A d \in DOMAIN nodes : IsDir(nodes, d) =>
              \A name \in DOMAIN nodes[d].entries : NameStays(d, name)
<1>0. Len(path) \in Nat
  OBVIOUS
<1>1. PICK k : k = Existing(path)
  OBVIOUS
<1>2. PICK d : d = Prefix(path, k)
  OBVIOUS
<1>3. CASE path = <<>> \/ ~IsDir(nodes, d)
  <2>1. nodes' = nodes
    BY <1>1, <1>2, <1>3 DEF AddFile
  <2> QED  BY <2>1 DEF NodesInv, NodesGrow, NameStays
<1>4. CASE path # <<>> /\ IsDir(nodes, d)
  <2>1. /\ k \in 0..Len(path) - 1 /\ d # NoNode
        /\ \A j \in k + 1..Len(path) - 1 : Prefix(path, j) = NoNode
    BY <1>1, <1>2, <1>4, ExistingIsLongest
  <2>2. d \in DOMAIN nodes /\ nodes[d].kind = "dir"
    BY <1>2, <1>4, <2>1, WalkLeads DEF Prefix, IsDir
  <2>3. PICK created : created = Chain(path, k + 1, content)
    OBVIOUS
  <2>4. nodes' = Insert(d, path[k + 1], created)
    BY <1>1, <1>2, <1>4, <2>3 DEF AddFile
  <2>5. PICK m \in Nat : m = Len(path) - (k + 1)
    <3>1. Len(path) - (k + 1) \in Nat
      BY <1>0, <2>1
    <3> QED  BY <3>1
  <2>6. NewNode \in Nat \ {0}
    BY NewNodeIsNext
  <2>7. NewNode + Len(path) - (k + 1) = NewNode + m
    BY <1>0, <2>1, <2>5, <2>6
  <2>8. /\ DOMAIN created = NewNode..NewNode + m
        /\ \A n \in NewNode..NewNode + m : n # NewNode + m =>
             \E key : created[n] = [kind |-> "dir", entries |-> [name \in {key} |-> n + 1]]
        /\ created[NewNode + m] = File(content)
    <3>1. created = [n \in NewNode..NewNode + m |->
                       IF n = NewNode + m THEN File(content)
                       ELSE [kind |-> "dir", entries |->
                               [name \in {path[k + 1 + 1 + n - NewNode]} |-> n + 1]]]
      BY <2>3, <2>7 DEF Chain
    <3>2. NewNode + m \in NewNode..NewNode + m
      BY <2>6
    <3>3. ASSUME NEW n \in NewNode..NewNode + m, n # NewNode + m
          PROVE  \E key : created[n] = [kind |-> "dir", entries |-> [name \in {key} |-> n + 1]]
      BY <3>1, <3>3, ZenonT(40)
    <3> QED  BY <3>1, <3>2, <3>3, ZenonT(40)
  <2>9. ASSUME NEW n \in NewNode..NewNode + m
        PROVE  NodeOK(created[n], 0..NewNode + m)
    <3>1. CASE n = NewNode + m
      BY <2>8, <3>1 DEF NodeOK, File
    <3>2. CASE n # NewNode + m
      <4>1. PICK key : created[n] = [kind |-> "dir", entries |-> [name \in {key} |-> n + 1]]
        BY <2>8, <3>2, ZenonT(40)
      <4>2. n + 1 \in 0..NewNode + m
        BY <2>6, <3>2
      <4> QED  BY <4>1, <4>2 DEF NodeOK
    <3> QED  BY <3>1, <3>2
  <2>10. /\ NodesInv' /\ NodesGrow
         /\ \A n \in DOMAIN nodes : n # d => nodes'[n] = nodes[n]
         /\ nodes'[d].entries = Put(nodes[d].entries, path[k + 1], NewNode)
         /\ nodes'[NewNode] = created[NewNode] /\ NewNode \notin DOMAIN nodes
    BY <2>2, <2>4, <2>8, <2>9, InsertNodes, ZenonT(40)
  <2>11. ASSUME NEW name \in DOMAIN nodes[d].entries
         PROVE  NameStays(d, name)
    <3>1. CASE name # path[k + 1]
      BY <2>10, <3>1 DEF NameStays, Put
    <3>2. CASE name = path[k + 1]
      <4>1. nodes'[d].entries[name] = NewNode
        BY <2>10, <3>2 DEF Put
      <4>2. Prefix(path, k + 1) # NoNode
        BY <1>2, <1>4, <2>1, <2>11, <3>2, PrefixExtends DEF Has
      <4>3. m = 0
        BY <2>1, <2>5, <4>2
      <4>4. nodes'[NewNode] = File(content)
        BY <2>6, <2>8, <2>10, <4>3
      <4> QED  BY <2>10, <4>1, <4>4 DEF NameStays, IsDir, File
    <3> QED  BY <3>1, <3>2
  <2> QED  BY <2>10, <2>11 DEF NameStays
<1> QED  BY <1>3, <1>4

-----------------------------------------------------------------------------
\* A step of a process keeps the tree and the ownership of the handles.
LEMMA GuestKeepsFs ==
  ASSUME ProcInv, CapInv, NodesInv, HandleInv, NEW p \in Procs, Kinds(p)
  PROVE  NodesInv' /\ HandleInv'
<1>1. UNCHANGED nodes => NodesInv'
  BY DEF NodesInv
<1>2. CASE Ended(p)
  BY <1>1, <1>2, EndKeepsHandles DEF Ended, fsVars
<1>3. ASSUME UNCHANGED <<fsVars, caps, orphaned, status>>
      PROVE  NodesInv' /\ HandleInv'
  <2>1. \A q \in Procs : /\ FileCaps(q)' = FileCaps(q)
                         /\ \A i \in FileCaps(q) : caps'[q][i] = caps[q][i]
    BY <1>3 DEF FileCaps
  <2>2. \A q \in Procs : status'[q] = "unspawned" => DOMAIN caps'[q] = {}
    BY <1>3 DEF HandleInv, UnspawnedHoldNone
  <2> QED  BY <1>1, <1>3, <2>1, <2>2, SameHandles DEF fsVars
<1>4. CASE Suspends(p) \/ Prints(p) \/ Answers(p) \/ UsesSync(p)
  BY <1>3, <1>4 DEF Suspends, Prints, Answers, UsesSync, Serves, taskVars, capVars
<1>5. CASE Opens(p)
  BY <1>1, <1>5, OpenKeepsHandles DEF Opens, OpenAtHandle
<1>6. CASE Closes(p)
  <2>1. PICK id : /\ caps' = [caps EXCEPT ![p] = [i \in DOMAIN caps[p] \ {id} |-> caps[p][i]]]
                  /\ IF id \in DOMAIN caps[p] /\ caps[p][id].kind \in FileKinds
                     THEN Close(caps[p][id].handle) ELSE UNCHANGED fsVars
    BY <1>6 DEF Closes
  <2>2. UNCHANGED <<orphaned, status>>
    BY <1>6 DEF Closes, Serves, taskVars
  <2>3. CASE id \in FileCaps(p)
    BY <1>1, <2>1, <2>2, <2>3, CloseKeepsHandles DEF FileCaps, Close
  <2>4. CASE id \notin FileCaps(p)
    <3>1. UNCHANGED fsVars
      BY <2>1, <2>4 DEF FileCaps
    <3>2. /\ \A q \in Procs : q # p => caps'[q] = caps[q]
          /\ DOMAIN caps'[p] = DOMAIN caps[p] \ {id}
          /\ \A i \in DOMAIN caps[p] : i # id => caps'[p][i] = caps[p][i]
      BY <2>1 DEF CapInv
    <3>3. \A q \in Procs : /\ FileCaps(q)' = FileCaps(q)
                           /\ \A i \in FileCaps(q) : caps'[q][i] = caps[q][i]
      BY <2>4, <3>2 DEF FileCaps
    <3>4. \A q \in Procs : status'[q] = "unspawned" => DOMAIN caps'[q] = {}
      BY <2>2, <3>2 DEF HandleInv, UnspawnedHoldNone
    <3> QED  BY <1>1, <2>2, <3>1, <3>3, <3>4, SameHandles DEF fsVars
  <2> QED  BY <2>3, <2>4
<1>7. CASE Makes(p)
  BY <1>7, MkdirNodes, GrowKeepsHandles DEF Makes, Serves, taskVars, capVars
<1>8. CASE MakesSync(p)
  <2>1. PICK c : c.kind \notin FileKinds /\ AddCapability(p, c)
    BY <1>8, ZenonT(20) DEF MakesSync, Capability, FileKinds
  <2>2. next_index \notin DOMAIN caps[p] /\ DOMAIN caps = Procs
    BY DEF CapInv
  <2>3. /\ \A q \in Procs : q # p => caps'[q] = caps[q]
        /\ DOMAIN caps'[p] = DOMAIN caps[p] \cup {next_index}
        /\ caps'[p][next_index] = c
        /\ \A i \in DOMAIN caps[p] : caps'[p][i] = caps[p][i]
    BY <2>1, <2>2 DEF AddCapability, Put
  <2>4. \A q \in Procs : /\ FileCaps(q)' = FileCaps(q)
                         /\ \A i \in FileCaps(q) : caps'[q][i] = caps[q][i]
    BY <2>1, <2>2, <2>3 DEF FileCaps
  <2>5. UNCHANGED <<fsVars, orphaned, status>> /\ status[p] = "live"
    BY <1>8 DEF MakesSync, Serves, taskVars, ProcInv
  <2>6. \A q \in Procs : status'[q] = "unspawned" => DOMAIN caps'[q] = {}
    BY <2>3, <2>5 DEF HandleInv, UnspawnedHoldNone
  <2> QED  BY <1>1, <2>4, <2>5, <2>6, SameHandles DEF fsVars
<1> QED  BY <1>2, <1>4, <1>5, <1>6, <1>7, <1>8 DEF Kinds

\* A step of the kernel keeps the tree and the ownership of the handles.
LEMMA KernelKeepsFs ==
  ASSUME ProcInv, CapInv, NodesInv, HandleInv, Kernel
  PROVE  NodesInv' /\ HandleInv'
<1>1. UNCHANGED nodes => NodesInv'
  BY DEF NodesInv
<1>2. ASSUME NEW path \in Paths, NEW content, KernelAddFile(path, content)
      PROVE  NodesInv' /\ HandleInv'
  <2>1. path \in Seq(STRING)
    BY HostAssumption
  <2>2. NodesInv' /\ NodesGrow
    BY <1>2, <2>1, AddFileNodes DEF KernelAddFile
  <2> QED  BY <1>2, <2>2, GrowKeepsHandles DEF KernelAddFile, taskVars, capVars
<1>3. ASSUME NEW path, KernelMkdir(path)
      PROVE  NodesInv' /\ HandleInv'
  BY <1>3, MkdirNodes, GrowKeepsHandles DEF KernelMkdir, taskVars, capVars
<1>4. ASSUME NEW p \in Procs, NEW path, NEW rights, SpawnProcess(p, path, rights)
      PROVE  NodesInv' /\ HandleInv'
  BY <1>1, <1>4, SpawnKeepsHandles, ZenonT(40) DEF SpawnProcess, OpenHandle
<1>5. ASSUME NEW p \in Procs, NEW path, WasmTest(p, path)
      PROVE  NodesInv' /\ HandleInv'
  <2>1. PICK n : n = Walk(nodes, Root, path)
    OBVIOUS
  <2>2. n \in DOMAIN nodes /\ next_handle <= MaxOpens /\ UNCHANGED <<caps, orphaned>>
    BY <1>5, <2>1, WalkLeads DEF WasmTest, capVars
  <2>3. /\ next_handle' = next_handle + 1 /\ UNCHANGED <<nodes, next_handle_at>>
        /\ \/ open_handles' = Put(open_handles, next_handle, n) /\ nodes[n].kind = "dir"
           \/ open_handles' = [h \in DOMAIN open_handles \ {next_handle} |-> open_handles[h]]
    BY <1>5, <2>1 DEF WasmTest, OpenHandle, IsDir
  <2>4. \A q \in Procs : status'[q] = "unspawned" => status[q] = "unspawned"
    BY <1>5 DEF WasmTest, ProcInv
  <2> QED  BY <1>1, <2>2, <2>3, <2>4, TestKeepsHandles
<1>6. ASSUME UNCHANGED <<fsVars, caps, orphaned>>,
             \A q \in Procs : status'[q] = "unspawned" => status[q] = "unspawned"
      PROVE  NodesInv' /\ HandleInv'
  <2>1. \A q \in Procs : /\ FileCaps(q)' = FileCaps(q)
                         /\ \A i \in FileCaps(q) : caps'[q][i] = caps[q][i]
    BY <1>6 DEF FileCaps
  <2>2. \A q \in Procs : status'[q] = "unspawned" => DOMAIN caps'[q] = {}
    BY <1>6 DEF HandleInv, UnspawnedHoldNone
  <2> QED  BY <1>1, <1>6, <2>1, <2>2, SameHandles DEF fsVars
<1>7. ASSUME NEW p \in Procs, CallAgain(p) \/ OuterWake(p)
      PROVE  NodesInv' /\ HandleInv'
  <2>1. \A q \in Procs : status'[q] = "unspawned" => status[q] = "unspawned"
    BY <1>7 DEF CallAgain, OuterWake, spawn_task, ProcInv
  <2> QED  BY <1>6, <1>7, <2>1 DEF CallAgain, OuterWake, capVars
<1>8. ASSUME NEW p \in Procs, Poll(p)
      PROVE  NodesInv' /\ HandleInv'
  <2>1. CASE CannotContinue(p)
    BY <1>1, <1>8, <2>1, EndKeepsHandles DEF Poll, CannotContinue, fsVars
  <2>2. CASE Enter(p) \/ Resume(p)
    BY <1>6, <1>8, <2>2 DEF Poll, Enter, Resume, capVars
  <2> QED  BY <1>8, <2>1, <2>2 DEF Poll
<1> QED  BY <1>2, <1>3, <1>4, <1>5, <1>7, <1>8 DEF Kernel

-----------------------------------------------------------------------------
(* What a step may never do.                                                 *)

\* The kernel replaces a name at most by a new file.
LEMMA KernelNodes ==
  ASSUME IInv, Kernel
  PROVE  /\ NodesGrow
         /\ \A d \in DOMAIN nodes : IsDir(nodes, d) =>
              \A name \in DOMAIN nodes[d].entries : NameStays(d, name)
<1>1. CASE UNCHANGED nodes
  BY <1>1 DEF NodesGrow, NameStays
<1>2. ASSUME NEW path \in Paths, NEW content, KernelAddFile(path, content)
      PROVE  /\ NodesGrow
             /\ \A d \in DOMAIN nodes : IsDir(nodes, d) =>
                  \A name \in DOMAIN nodes[d].entries : NameStays(d, name)
  <2>1. path \in Seq(STRING) /\ NodesInv
    BY HostAssumption DEF IInv
  <2> QED  BY <1>2, <2>1, AddFileNodes DEF KernelAddFile
<1>3. ASSUME NEW path, KernelMkdir(path)
      PROVE  /\ NodesGrow
             /\ \A d \in DOMAIN nodes : IsDir(nodes, d) =>
                  \A name \in DOMAIN nodes[d].entries : NameStays(d, name)
  BY <1>3, MkdirNodes DEF KernelMkdir, NameStays, IInv
<1>4. (\E path \in Paths, content \in Contents : KernelAddFile(path, content))
        \/ (\E path \in Paths : KernelMkdir(path)) \/ UNCHANGED nodes
  BY DEF Kernel, SpawnProcess, OpenHandle, WasmTest, CallAgain, OuterWake, Poll, fsVars
<1> QED  BY <1>1, <1>2, <1>3, <1>4

\* A process never takes a name from the node it leads to.
LEMMA GuestNodes ==
  ASSUME IInv, NEW p \in Procs, Kinds(p)
  PROVE  /\ NodesGrow
         /\ \A d \in DOMAIN nodes : IsDir(nodes, d) =>
              \A name \in DOMAIN nodes[d].entries : nodes'[d].entries[name] = nodes[d].entries[name]
<1>1. CASE UNCHANGED nodes
  BY <1>1 DEF NodesGrow
<1>2. CASE Makes(p)
  BY <1>2, MkdirNodes DEF Makes, IInv
<1>3. Makes(p) \/ UNCHANGED nodes
  BY ZenonT(40) DEF Kinds, Ended, Suspends, Prints, Answers, Opens, OpenAtHandle, Closes, Close, UsesSync, MakesSync, fsVars
<1> QED  BY <1>1, <1>2, <1>3

\* The counter of open advances by one, or not at all.
LEMMA CounterSteps ==
  ASSUME Kernel \/ \E p \in Procs : Kinds(p)
  PROVE  next_handle' = next_handle \/ next_handle' = next_handle + 1
<1>1. ASSUME NEW p \in Procs, Kinds(p)
      PROVE  next_handle' = next_handle
  BY <1>1, ZenonT(40) DEF Kinds, Ended, Suspends, Prints, Answers, Opens, OpenAtHandle, Closes, Close, Makes,
                          UsesSync, MakesSync, fsVars
<1>2. ASSUME Kernel
      PROVE  next_handle' = next_handle \/ next_handle' = next_handle + 1
  BY <1>2 DEF Kernel, KernelAddFile, KernelMkdir, SpawnProcess, OpenHandle, WasmTest, CallAgain, OuterWake,
              Poll, fsVars
<1> QED  BY <1>1, <1>2

\* The part of stability that is about one capability.
Stable(p, i) ==
  i \in DOMAIN caps'[p] =>
    /\ caps'[p][i] = caps[p][i]
    /\ Apart' => open_handles'[caps[p][i].handle] = open_handles[caps[p][i].handle]

\* No call of any process touches a capability that is held ...
LEMMA GuestIsStable ==
  ASSUME IInv, NEW p \in Procs, Kinds(p), NEW q \in Procs, NEW i \in FileCaps(q)
  PROVE  Stable(q, i)
<1>1. DOMAIN caps = Procs /\ i \in DOMAIN caps[q] /\ next_index \notin DOMAIN caps[p]
  BY DEF IInv, BaseInv, CapInv, FileCaps
<1>2. ASSUME Apart
      PROVE  /\ Owned
             /\ caps[q][i].handle \in DOMAIN open_handles /\ next_handle_at \notin DOMAIN open_handles
  BY <1>2, FreshHandles DEF IInv, HandleInv, Owned, CapsFit, Fits, Holds
<1>3. CASE UNCHANGED open_handles /\ UNCHANGED caps
  BY <1>3 DEF Stable
<1>4. CASE Ended(p)
  BY <1>1, <1>4 DEF Ended, End, fsVars, capVars, Stable
<1>5. ASSUME NEW c, AddCapability(p, c)
      PROVE  i \in DOMAIN caps'[q] /\ caps'[q][i] = caps[q][i]
  BY <1>1, <1>5 DEF AddCapability, Put
<1>6. CASE Opens(p)
  <2>1. PICK n : open_handles' = Put(open_handles, next_handle_at, n)
    BY <1>6 DEF Opens, OpenAtHandle
  <2>2. Apart' => Apart
    BY <1>6 DEF Opens, OpenAtHandle, Apart
  <2>3. Apart' => open_handles'[caps[q][i].handle] = open_handles[caps[q][i].handle]
    BY <1>2, <2>1, <2>2 DEF Put
  <2>4. caps'[q][i] = caps[q][i]
    BY <1>5, <1>6 DEF Opens
  <2> QED  BY <2>3, <2>4 DEF Stable
<1>7. CASE MakesSync(p)
  BY <1>5, <1>7, ZenonT(40) DEF MakesSync, fsVars, Stable
<1>8. CASE Closes(p)
  <2>1. PICK id : /\ caps' = [caps EXCEPT ![p] = [j \in DOMAIN caps[p] \ {id} |-> caps[p][j]]]
                  /\ IF id \in DOMAIN caps[p] /\ caps[p][id].kind \in FileKinds
                     THEN Close(caps[p][id].handle) ELSE UNCHANGED fsVars
    BY <1>8 DEF Closes
  <2>2. SUFFICES ASSUME i \in DOMAIN caps'[q]
                 PROVE  /\ caps'[q][i] = caps[q][i]
                        /\ Apart' => open_handles'[caps[q][i].handle] = open_handles[caps[q][i].handle]
    BY DEF Stable
  <2>3. caps'[q][i] = caps[q][i] /\ ~(q = p /\ i = id)
    BY <1>1, <2>1, <2>2
  <2>4. ASSUME id \in FileCaps(p), Apart'
        PROVE  open_handles'[caps[q][i].handle] = open_handles[caps[q][i].handle]
    <3>1. Holds(p, id, caps[p][id].handle) /\ Holds(q, i, caps[q][i].handle)
      BY <2>4 DEF Holds
    <3>2. Close(caps[p][id].handle)
      BY <2>1, <2>4 DEF FileCaps
    <3>3. Apart
      BY <2>4, <3>2 DEF Close, Apart
    <3>4. caps[q][i].handle # caps[p][id].handle
      BY <1>2, <2>3, <3>1, <3>3 DEF Owned, OneHolder
    <3> QED  BY <1>2, <3>4, <3>2, <3>3 DEF Close
  <2>5. CASE id \notin FileCaps(p)
    BY <2>1, <2>3, <2>5 DEF FileCaps, fsVars
  <2> QED  BY <2>3, <2>4, <2>5
<1> QED  BY <1>3, <1>4, <1>6, <1>7, <1>8 DEF Kinds, Suspends, Prints, Answers, Makes, UsesSync, fsVars, capVars

\* ... and neither does the kernel.
LEMMA KernelIsStable ==
  ASSUME IInv, Kernel, NEW q \in Procs, NEW i \in FileCaps(q)
  PROVE  Stable(q, i)
<1>1. DOMAIN caps = Procs /\ i \in DOMAIN caps[q] /\ status[q] # "unspawned"
  BY DEF IInv, BaseInv, CapInv, HandleInv, UnspawnedHoldNone, FileCaps
<1>2. ASSUME NEW n, OpenHandle(n), Apart'
      PROVE  open_handles'[caps[q][i].handle] = open_handles[caps[q][i].handle]
  <2>1. next_handle' = next_handle + 1
    BY <1>2 DEF OpenHandle
  <2>2. Owned /\ next_handle \notin DOMAIN open_handles
    BY <1>2, <2>1, ApartBefore, FreshHandles DEF IInv, HandleInv
  <2>3. caps[q][i].handle \in DOMAIN open_handles
    BY <2>2 DEF Owned, CapsFit, Fits, Holds
  <2> QED  BY <1>2, <2>2, <2>3 DEF OpenHandle, Put
<1>3. ASSUME NEW p \in Procs, NEW path, NEW rights, SpawnProcess(p, path, rights)
      PROVE  Stable(q, i)
  <2>1. Apart' => open_handles'[caps[q][i].handle] = open_handles[caps[q][i].handle]
    BY <1>2, <1>3 DEF SpawnProcess
  <2>2. caps'[q] = caps[q]
    BY <1>1, <1>3 DEF SpawnProcess
  <2> QED  BY <2>1, <2>2 DEF Stable
<1>4. ASSUME NEW p \in Procs, NEW path, WasmTest(p, path)
      PROVE  Stable(q, i)
  <2>1. ASSUME open_handles' = [h \in DOMAIN open_handles \ {next_handle} |-> open_handles[h]], Apart',
               next_handle' = next_handle + 1
        PROVE  open_handles'[caps[q][i].handle] = open_handles[caps[q][i].handle]
    <3>1. Owned /\ next_handle \notin DOMAIN open_handles
      BY <2>1, ApartBefore, FreshHandles DEF IInv, HandleInv
    <3>2. caps[q][i].handle \in DOMAIN open_handles
      BY <3>1 DEF Owned, CapsFit, Fits, Holds
    <3> QED  BY <2>1, <3>1, <3>2
  <2> QED  BY <1>2, <1>4, <2>1 DEF WasmTest, capVars, Stable
<1>5. ASSUME NEW p \in Procs, Poll(p)
      PROVE  Stable(q, i)
  BY <1>1, <1>5 DEF Poll, Enter, Resume, CannotContinue, End, capVars, fsVars, Stable
<1>6. CASE UNCHANGED <<open_handles, caps>>
  BY <1>6 DEF Stable
<1> QED  BY <1>3, <1>4, <1>5, <1>6 DEF Kernel, KernelAddFile, KernelMkdir, CallAgain, OuterWake, fsVars, capVars
=============================================================================
