------------------------- MODULE WasmAuthority_proofs -------------------------
(***************************************************************************)
(* The theorems about WasmHost, for any processes, grants, paths, fuel     *)
(* costs and bounds.  First, every step of a running process is of one of  *)
(* the kinds that WasmInv names: what a host call does, by its effect.     *)
(* Then what follows, with the invariant, for the processes, the registry, *)
(* the handles, the capabilities and the names in the filesystem.          *)
(***************************************************************************)
EXTENDS WasmHost, WasmProcess_proofs

USE ZenonT(10), SMTT(30)

-----------------------------------------------------------------------------
(* The kinds of steps.                                                       *)

\* A call that is charged for and goes on has less fuel afterwards.
LEMMA ChargeShrinks ==
  ASSUME fuel \in Nat, NEW cost \in Nat \ {0}, HasFuel(cost), Charge(cost)
  PROVE  fuel' \in Nat /\ fuel' < fuel
<1>1. YIELD_THRESHOLD \in Nat \ {0}
  BY HostAssumption
<1> QED  BY <1>1 DEF HasFuel, Charge

\* A call that is served has passed its checks and been paid for.
LEMMA ServedServes ==
  ASSUME ProcInv, NEW p, NEW cost \in Nat \ {0}, NEW error, Served(p, cost, error), UNCHANGED mode
  PROVE  Serves(p) /\ error = OK
<1>1. fuel \in Nat
  BY HostAssumption DEF ProcInv
<1> QED  BY <1>1, ChargeShrinks DEF Served, Serves, taskVars

\* A call that fails ends or suspends the process, or only costs fuel.
LEMMA FailsKinds ==
  ASSUME ProcInv, NEW p, NEW fn, NEW cost \in Nat \ {0}, NEW error, NEW handle,
         Fails(p, fn, cost, error, handle), UNCHANGED mode
  PROVE  Ended(p) \/ Suspends(p) \/ Answers(p)
<1>1. ASSUME NEW h, Trap(p, fn, h)
      PROVE  Ended(p) \/ Suspends(p)
  <2>1. CASE End(p) /\ UNCHANGED queued
    BY <2>1 DEF Ended, Fails
  <2>2. CASE Suspend(p, fn, h)
    <3>1. \E s : invocation' = [invocation EXCEPT ![p] = s]
      BY <2>2, ZenonT(20) DEF Suspend
    <3> QED  BY <2>2, <3>1, ZenonT(20) DEF Suspends, Suspend, Fails
  <2> QED  BY <1>1, <2>1, <2>2 DEF Trap
<1>2. CASE HasFuel(cost) /\ Charge(cost) /\ UNCHANGED <<taskVars, capVars>>
  <2>1. fuel \in Nat
    BY HostAssumption DEF ProcInv
  <2> QED  BY <1>2, <2>1, ChargeShrinks DEF Fails, Answers, Serves
<1> QED  BY <1>1, <1>2 DEF Fails

\* A capability that passes the checks is held, of the kind and with the right.
LEMMA CapErrorOK ==
  ASSUME NEW p, NEW id, NEW kinds, NEW right, NEW wrong_kind, wrong_kind # OK,
         CapError(p, id, kinds, right, wrong_kind) = OK
  PROVE  id \in DOMAIN caps[p] /\ caps[p][id].kind \in kinds /\ right \subseteq caps[p][id].rights
<1>1. CAP_NOT_FOUND # OK /\ PERMISSION_DENIED # OK
  BY DEF CAP_NOT_FOUND, PERMISSION_DENIED, OK
<1> QED  BY <1>1 DEF CapError

\* A mutex or semaphore that passes the checks is registered.
LEMMA SyncErrorOK ==
  ASSUME NEW p, NEW id, NEW kind, NEW registry, SyncError(p, id, kind, registry) = OK
  PROVE  caps[p][id].handle \in DOMAIN registry
<1>1. INVALID_HANDLE # OK
  BY DEF INVALID_HANDLE, OK
<1> QED  BY <1>1 DEF SyncError

\* sp_fs_open succeeds on a directory that is held with READ, for a path that
\* leads somewhere.
LEMMA OpenErrorOK ==
  ASSUME NEW p, NEW id, NEW path, NEW mem, OpenError(p, id, path, mem) = OK
  PROVE  /\ id \in DOMAIN caps[p]
         /\ caps[p][id].kind = "Directory" /\ {"READ"} \subseteq caps[p][id].rights
         /\ OpenAt(caps[p][id].handle, path) # NoNode
<1>1. NOT_A_DIRECTORY # OK /\ FS_ERROR # OK
  BY DEF NOT_A_DIRECTORY, FS_ERROR, OK
<1>2. PICK e : e = CapError(p, id, {"Directory"}, {"READ"}, NOT_A_DIRECTORY)
  OBVIOUS
<1>3. PICK pe : pe = PathError(mem)
  OBVIOUS
<1>4. e = OK /\ OpenAt(caps[p][id].handle, path) # NoNode
  BY <1>1, <1>2, <1>3 DEF OpenError, First
<1>5. id \in DOMAIN caps[p] /\ caps[p][id].kind \in {"Directory"} /\ {"READ"} \subseteq caps[p][id].rights
  BY ONLY <1>1, <1>2, <1>4, CapErrorOK, ZenonT(20)
<1> QED  BY <1>4, <1>5

\* Every filesystem call is of one of the kinds.
LEMMA FsKinds ==
  ASSUME ProcInv, CapInv, NEW p \in Procs, FsCall(p), UNCHANGED mode
  PROVE  Kinds(p)
<1>0. CAP_LOOKUP \in Nat \ {0} /\ FS_OPERATION \in Nat \ {0} /\ MEMORY_IO \in Nat
  BY HostAssumption
<1>1. ASSUME NEW mem \in MemKinds, sp_get_capabilities(p, mem)
      PROVE  Kinds(p)
  <2>1. PICK count \in 0..MaxCaps :
          LET io == CAP_LOOKUP + MEMORY_IO * count
          IN  \/ \E error : Fails(p, "sp_get_capabilities", CAP_LOOKUP, error, 0)
              \/ \E error : Fails(p, "sp_get_capabilities", io, error, 0)
              \/ (\E error : Served(p, io, error)) /\ UNCHANGED <<fsVars, capVars, syncVars>>
    BY <1>1 DEF sp_get_capabilities
  <2>2. PICK io : io = CAP_LOOKUP + MEMORY_IO * count
    OBVIOUS
  <2>3. io \in Nat \ {0}
    BY <1>0, <2>1, <2>2
  <2>4. \/ \E error : Fails(p, "sp_get_capabilities", CAP_LOOKUP, error, 0)
        \/ \E error : Fails(p, "sp_get_capabilities", io, error, 0)
        \/ (\E error : Served(p, io, error)) /\ UNCHANGED <<fsVars, capVars, syncVars>>
    BY <2>1, <2>2
  <2> QED  BY <1>0, <2>3, <2>4, FailsKinds, ServedServes DEF Kinds, Answers
<1>2. ASSUME NEW id, NEW path \in Paths, NEW mem \in MemKinds, sp_fs_open(p, id, path, mem)
      PROVE  Kinds(p)
  <2>1. PICK error : error = OpenError(p, id, path, mem)
    OBVIOUS
  <2>2. CASE Fails(p, "sp_fs_open", FS_OPERATION, error, 0)
    BY <1>0, <2>2, FailsKinds DEF Kinds
  <2>3. CASE ~Fails(p, "sp_fs_open", FS_OPERATION, error, 0)
    <3>1. /\ next_handle_at < AtBase + MaxOpenAts /\ next_index <= MaxCaps
          /\ Served(p, FS_OPERATION, error)
          /\ OpenAtHandle(OpenAt(caps[p][id].handle, path))
          /\ AddCapability(p, Derive(OpenAt(caps[p][id].handle, path), next_handle_at, caps[p][id].rights))
          /\ UNCHANGED <<orphaned, syncVars>>
      BY <1>2, <2>1, <2>3 DEF sp_fs_open
    <3>2. Serves(p) /\ error = OK
      BY <1>0, <3>1, ServedServes
    <3> QED  BY <2>1, <3>1, <3>2, OpenErrorOK, ZenonT(20) DEF Kinds, Opens
  <2> QED  BY <2>2, <2>3
<1>3. ASSUME NEW id, NEW path \in Paths, NEW mem \in MemKinds, sp_fs_mkdir(p, id, path, mem)
      PROVE  Kinds(p)
  <2>1. PICK e : e = First(PathError(mem), CapError(p, id, {"Directory"}, {"WRITE"}, NOT_A_DIRECTORY))
    OBVIOUS
  <2>2. PICK error : error = IF e = OK /\ ~CanMake(caps[p][id].handle, path) THEN FS_ERROR ELSE e
    OBVIOUS
  <2>3. CASE Fails(p, "sp_fs_mkdir", FS_OPERATION, error, 0)
    BY <1>0, <2>3, FailsKinds DEF Kinds
  <2>4. CASE ~Fails(p, "sp_fs_mkdir", FS_OPERATION, error, 0)
    <3>1. /\ Served(p, FS_OPERATION, error)
          /\ nodes' = MkdirAt(caps[p][id].handle, path)
          /\ reply' = OK
          /\ UNCHANGED <<open_handles, next_handle, next_handle_at, capVars, syncVars>>
      BY <1>3, <2>1, <2>2, <2>4 DEF sp_fs_mkdir
    <3>2. Serves(p) /\ error = OK
      BY <1>0, <3>1, ServedServes
    <3>3. CanMake(caps[p][id].handle, path)
      BY <2>2, <3>2 DEF FS_ERROR, OK
    <3> QED  BY <3>1, <3>2, <3>3 DEF Kinds, Makes
  <2> QED  BY <2>3, <2>4
<1>4. ASSUME NEW id, NEW offset, NEW mem, sp_fs_read(p, id, offset, mem)
      PROVE  Kinds(p)
  <2>1. PICK io : io = FS_OPERATION + MEMORY_IO
    OBVIOUS
  <2>2. \/ \E error : Fails(p, "sp_fs_read", FS_OPERATION, error, 0)
        \/ \E error : Fails(p, "sp_fs_read", io, error, 0)
        \/ (\E error : Served(p, io, error)) /\ UNCHANGED <<fsVars, capVars, syncVars>>
    BY <1>4, <2>1, ZenonT(20) DEF sp_fs_read
  <2>3. io \in Nat \ {0}
    BY <1>0, <2>1
  <2> QED  BY <1>0, <2>2, <2>3, FailsKinds, ServedServes DEF Kinds, Answers
<1>5. ASSUME NEW id, sp_fs_size(p, id)
      PROVE  Kinds(p)
  <2>1. \/ \E error : Fails(p, "sp_fs_size", CAP_LOOKUP, error, 0)
        \/ (\E error : Served(p, CAP_LOOKUP, error)) /\ UNCHANGED <<fsVars, capVars, syncVars>>
    BY <1>5 DEF sp_fs_size
  <2> QED  BY <1>0, <2>1, FailsKinds, ServedServes DEF Kinds, Answers
<1>6. ASSUME NEW id, sp_fs_close(p, id)
      PROVE  Kinds(p)
  <2>1. CASE Fails(p, "sp_fs_close", CAP_LOOKUP, OK, 0)
    BY <1>0, <2>1, FailsKinds DEF Kinds
  <2>2. CASE ~Fails(p, "sp_fs_close", CAP_LOOKUP, OK, 0)
    <3>1. Serves(p)
      BY <1>0, <1>6, <2>2, ServedServes DEF sp_fs_close
    <3> QED  BY <1>6, <2>2, <3>1 DEF sp_fs_close, Kinds, Closes
  <2> QED  BY <2>1, <2>2
<1> QED  BY <1>1, <1>2, <1>3, <1>4, <1>5, <1>6 DEF FsCall

\* Every call on a mutex or semaphore is of one of the kinds.
LEMMA SyncKinds ==
  ASSUME ProcInv, SyncInv, NEW p \in Procs, SyncCall(p), UNCHANGED mode
  PROVE  Kinds(p)
<1>0. SYNC_CREATE \in Nat \ {0} /\ SYNC_OPERATION \in Nat \ {0}
  BY HostAssumption
<1>1. CASE sp_mutex_create(p)
  <2>1. CASE Fails(p, "sp_mutex_create", SYNC_CREATE, OK, 0)
    BY <1>0, <2>1, FailsKinds DEF Kinds
  <2>2. CASE ~Fails(p, "sp_mutex_create", SYNC_CREATE, OK, 0)
    BY <1>0, <1>1, <2>2, ServedServes, ZenonT(20) DEF sp_mutex_create, Kinds, MakesSync
  <2> QED  BY <2>1, <2>2
<1>2. ASSUME NEW permits \in Permits, sp_sem_create(p, permits)
      PROVE  Kinds(p)
  <2>1. PICK error : error = IF permits < 0 THEN PERMISSION_DENIED ELSE OK
    OBVIOUS
  <2>2. CASE Fails(p, "sp_sem_create", SYNC_CREATE, error, 0)
    BY <1>0, <2>2, FailsKinds DEF Kinds
  <2>3. CASE ~Fails(p, "sp_sem_create", SYNC_CREATE, error, 0)
    <3>1. PICK h : h = NextHandle(semaphores)
      OBVIOUS
    <3>2. /\ next_index <= MaxCaps
          /\ Served(p, SYNC_CREATE, error)
          /\ semaphores' = Append(semaphores, [permits |-> permits, max |-> permits])
          /\ granted' = Append(granted, 0)
          /\ AddCapability(p, Capability("Semaphore", h, {"CALL"}))
          /\ UNCHANGED <<fsVars, orphaned, mutexes>>
      BY <1>2, <2>1, <2>3, <3>1 DEF sp_sem_create
    <3>3. Serves(p) /\ error = OK
      BY <1>0, <3>2, ServedServes
    <3>4. permits \in Nat
      BY <2>1, <3>3, HostAssumption DEF PERMISSION_DENIED, OK
    <3> QED  BY <3>1, <3>2, <3>3, <3>4, ZenonT(20) DEF Kinds, MakesSync
  <2> QED  BY <2>2, <2>3
<1>3. ASSUME NEW id, sp_mutex_lock(p, id)
      PROVE  Kinds(p)
  <2>1. PICK error : error = SyncError(p, id, "Mutex", mutexes)
    OBVIOUS
  <2>2. PICK wait : wait = IF error = OK /\ mutexes[caps[p][id].handle] THEN caps[p][id].handle ELSE 0
    OBVIOUS
  <2>3. CASE Fails(p, "sp_mutex_lock", SYNC_OPERATION, error, wait)
    BY <1>0, <2>3, FailsKinds DEF Kinds
  <2>4. CASE ~Fails(p, "sp_mutex_lock", SYNC_OPERATION, error, wait)
    <3>1. /\ Served(p, SYNC_OPERATION, error) /\ TakeAndDrop(caps[p][id].handle) /\ reply' = OK
          /\ UNCHANGED <<fsVars, capVars, semaphores, granted>>
      BY <1>3, <2>1, <2>2, <2>4 DEF sp_mutex_lock
    <3>2. \E h : mutexes' = [mutexes EXCEPT ![h] = FALSE]
      BY <3>1, ZenonT(20) DEF TakeAndDrop
    <3>3. Serves(p)
      BY <1>0, <3>1, ServedServes
    <3>4. UsesSync(p)
      BY <3>1, <3>2, <3>3, ZenonT(20) DEF UsesSync
    <3> QED  BY <3>4 DEF Kinds
  <2> QED  BY <2>3, <2>4
<1>4. ASSUME NEW id, sp_mutex_try_lock(p, id)
      PROVE  Kinds(p)
  <2>1. \/ \E error : Fails(p, "sp_mutex_try_lock", SYNC_OPERATION, error, 0)
        \/ /\ \E error : Served(p, SYNC_OPERATION, error)
           /\ TakeAndDrop(caps[p][id].handle) /\ reply' = OK
           /\ UNCHANGED <<fsVars, capVars, semaphores, granted>>
    BY <1>4 DEF sp_mutex_try_lock
  <2>2. TakeAndDrop(caps[p][id].handle) => \E h : mutexes' = [mutexes EXCEPT ![h] = FALSE]
    BY ZenonT(20) DEF TakeAndDrop
  <2>3. ASSUME NEW error, Served(p, SYNC_OPERATION, error), reply' = OK,
               TakeAndDrop(caps[p][id].handle), UNCHANGED <<fsVars, capVars, semaphores, granted>>
        PROVE  UsesSync(p)
    <3>1. Serves(p)
      BY <1>0, <2>3, ServedServes
    <3> QED  BY <2>2, <2>3, <3>1 DEF UsesSync
  <2>4. ASSUME NEW error, Fails(p, "sp_mutex_try_lock", SYNC_OPERATION, error, 0)
        PROVE  Kinds(p)
    BY <1>0, <2>4, FailsKinds DEF Kinds
  <2> QED  BY <2>1, <2>3, <2>4 DEF Kinds
<1>5. ASSUME NEW id, sp_mutex_unlock(p, id)
      PROVE  Kinds(p)
  <2>1. \/ \E error : Fails(p, "sp_mutex_unlock", SYNC_OPERATION, error, 0)
        \/ (\E error : Served(p, SYNC_OPERATION, error)) /\ UNCHANGED <<fsVars, capVars, syncVars>>
    BY <1>5 DEF sp_mutex_unlock
  <2> QED  BY <1>0, <2>1, FailsKinds, ServedServes DEF Kinds, Answers
<1>6. ASSUME NEW id, sp_sem_acquire(p, id)
      PROVE  Kinds(p)
  <2>1. PICK h : h = caps[p][id].handle
    OBVIOUS
  <2>2. PICK error : error = SyncError(p, id, "Semaphore", semaphores)
    OBVIOUS
  <2>3. PICK wait : wait = IF error = OK /\ semaphores[h].permits = 0 THEN h ELSE 0
    OBVIOUS
  <2>4. CASE Fails(p, "sp_sem_acquire", SYNC_OPERATION, error, wait)
    BY <1>0, <2>4, FailsKinds DEF Kinds
  <2>5. CASE ~Fails(p, "sp_sem_acquire", SYNC_OPERATION, error, wait)
    <3>1. /\ Served(p, SYNC_OPERATION, error) /\ wait = 0 /\ TakePermit(h) /\ reply' = OK
          /\ UNCHANGED <<fsVars, capVars, mutexes>>
      BY <1>6, <2>1, <2>2, <2>3, <2>5 DEF sp_sem_acquire
    <3>2. Serves(p) /\ error = OK
      BY <1>0, <3>1, ServedServes
    <3>3. h \in DOMAIN semaphores
      BY <2>1, <2>2, <3>2, SyncErrorOK
    <3>4. h # 0
      BY <3>3 DEF SyncInv
    <3>5. semaphores[h].permits # 0
      BY <2>3, <3>1, <3>2, <3>4
    <3>6. UsesSync(p)
      BY <3>1, <3>2, <3>3, <3>5 DEF UsesSync
    <3> QED  BY <3>6 DEF Kinds
  <2> QED  BY <2>4, <2>5
<1>7. ASSUME NEW id, sp_sem_try_acquire(p, id)
      PROVE  Kinds(p)
  <2>1. PICK h : h = caps[p][id].handle
    OBVIOUS
  <2>2. PICK e : e = SyncError(p, id, "Semaphore", semaphores)
    OBVIOUS
  <2>3. PICK error : error = IF e = OK /\ semaphores[h].permits = 0 THEN SEM_NO_PERMITS ELSE e
    OBVIOUS
  <2>4. CASE Fails(p, "sp_sem_try_acquire", SYNC_OPERATION, error, 0)
    BY <1>0, <2>4, FailsKinds DEF Kinds
  <2>5. CASE ~Fails(p, "sp_sem_try_acquire", SYNC_OPERATION, error, 0)
    <3>1. /\ Served(p, SYNC_OPERATION, error) /\ TakePermit(h) /\ reply' = OK
          /\ UNCHANGED <<fsVars, capVars, mutexes>>
      BY <1>7, <2>1, <2>2, <2>3, <2>5 DEF sp_sem_try_acquire
    <3>2. Serves(p) /\ error = OK
      BY <1>0, <3>1, ServedServes
    <3>3. e = OK /\ semaphores[h].permits # 0
      BY <2>3, <3>2 DEF SEM_NO_PERMITS, OK
    <3>4. h \in DOMAIN semaphores
      BY <2>1, <2>2, <3>3, SyncErrorOK
    <3>5. UsesSync(p)
      BY <3>1, <3>2, <3>3, <3>4 DEF UsesSync
    <3> QED  BY <3>5 DEF Kinds
  <2> QED  BY <2>4, <2>5
<1>8. ASSUME NEW id, sp_sem_release(p, id)
      PROVE  Kinds(p)
  <2>1. PICK h : h = caps[p][id].handle
    OBVIOUS
  <2>2. PICK error : error = SyncError(p, id, "Semaphore", semaphores)
    OBVIOUS
  <2>3. CASE Fails(p, "sp_sem_release", SYNC_OPERATION, error, 0)
    BY <1>0, <2>3, FailsKinds DEF Kinds
  <2>4. CASE ~Fails(p, "sp_sem_release", SYNC_OPERATION, error, 0)
    <3>1. /\ Served(p, SYNC_OPERATION, error) /\ GivePermit(h) /\ reply' = OK
          /\ UNCHANGED <<fsVars, capVars, mutexes>>
      BY <1>8, <2>1, <2>2, <2>4 DEF sp_sem_release
    <3>2. Serves(p) /\ error = OK
      BY <1>0, <3>1, ServedServes
    <3>3. h \in DOMAIN semaphores
      BY <2>1, <2>2, <3>2, SyncErrorOK
    <3> QED  BY <3>1, <3>2, <3>3 DEF Kinds, UsesSync
  <2> QED  BY <2>3, <2>4
<1> QED  BY <1>1, <1>2, <1>3, <1>4, <1>5, <1>6, <1>7, <1>8 DEF SyncCall

\* Every step of a process is of one of the kinds.
LEMMA GuestKinds ==
  ASSUME ProcInv, SyncInv, CapInv, NEW p \in Procs, Guest(p)
  PROVE  Kinds(p)
<1>1. CASE FsCall(p)
  BY <1>1, FsKinds DEF Guest
<1>2. CASE SyncCall(p)
  BY <1>2, SyncKinds DEF Guest
<1>3. CASE sp_sched_yield(p)
  <2>1. CASE End(p) /\ UNCHANGED queued
    BY <1>3, <2>1 DEF Guest, Kinds, Ended, sp_sched_yield
  <2>2. CASE Suspend(p, "sp_sched_yield", 0)
    <3>1. \E s : invocation' = [invocation EXCEPT ![p] = s]
      BY <2>2, ZenonT(20) DEF Suspend
    <3> QED  BY <1>3, <2>2, <3>1, ZenonT(20) DEF Guest, Kinds, Suspends, Suspend, sp_sched_yield
  <2> QED  BY <1>3, <2>1, <2>2 DEF sp_sched_yield, Trap
<1>4. CASE Finish(p)
  BY <1>4 DEF Guest, Finish, Kinds, Ended
<1>5. CASE print(p)
  BY <1>5 DEF Guest, Kinds, Prints, print
<1> QED  BY <1>1, <1>2, <1>3, <1>4, <1>5 DEF Guest
-----------------------------------------------------------------------------
(* The invariant of processes, capability ids and registry.                  *)

\* It holds when the kernel starts ...
LEMMA BaseInit ==
  ASSUME Init
  PROVE  BaseInv
<1>1. ProcInv
  BY HostAssumption DEF Init, ProcInv
<1>2. CapInv
  BY HostAssumption DEF Init, CapInv
<1>3. SyncInv
  BY DEF Init, SyncInv
<1> QED  BY <1>1, <1>2, <1>3 DEF BaseInv

\* ... and every step preserves it, ...
LEMMA BaseStep ==
  ASSUME BaseInv, [Next]_vars
  PROVE  BaseInv'
<1>1. CASE Kernel
  <2>1. SyncInv'
    BY <1>1, KernelKeepsSync DEF BaseInv, SyncInv, syncVars
  <2> QED  BY <1>1, <2>1, KernelKeepsProcs, KernelKeepsCaps DEF BaseInv
<1>2. ASSUME NEW p \in Procs, Guest(p)
      PROVE  BaseInv'
  <2>1. Kinds(p)
    BY <1>2, GuestKinds DEF BaseInv
  <2> QED  BY <2>1, GuestKeepsProcs, GuestKeepsCaps, GuestKeepsSync DEF BaseInv
<1>3. CASE UNCHANGED vars
  BY <1>3 DEF BaseInv, ProcInv, CapInv, SyncInv, vars, taskVars, capVars, syncVars
<1> QED  BY <1>1, <1>2, <1>3 DEF Next

\* ... so it always holds.
LEMMA BaseInvariance == Spec => []BaseInv
<1>1. Init => BaseInv
  BY BaseInit
<1>2. BaseInv /\ [Next]_vars => BaseInv'
  BY BaseStep
<1> QED  BY <1>1, <1>2, PTL DEF Spec

\* Every permit of a semaphore is free or granted, for any number of processes,
\* whatever they call, wait for and release (sp_sem_acquire, sp_sem_release).
THEOREM PermitsAreAccounted == Spec => []SemaphoresAccounted
<1>1. BaseInv => SemaphoresAccounted
  BY DEF BaseInv, SyncInv, SemaphoresAccounted
<1> QED  BY <1>1, BaseInvariance, PTL

\* While a process runs, only it takes steps.
LEMMA RunningSteps ==
  ASSUME BaseInv, Next, running # NoProc
  PROVE  running \in Procs /\ Kinds(running)
<1>1. ~Kernel
  BY DEF Kernel, KernelAddFile, KernelMkdir, SpawnProcess, WasmTest, CallAgain, OuterWake, Poll
<1>2. PICK p \in Procs : Guest(p)
  BY <1>1 DEF Next
<1>3. Kinds(p)
  BY <1>2, GuestKinds DEF BaseInv
<1>4. running = p
  BY <1>3, ZenonT(20) DEF Kinds, Ended, Suspends, Prints, Answers, Opens, Closes, Makes, UsesSync, MakesSync, Serves
<1> QED  BY <1>3, <1>4

\* Each host call a process survives leaves it less fuel (consume_fuel), or is one
\* that, as print, changes and returns nothing.
THEOREM CallsUseUpFuel == Spec => FuelShrinks
<1>1. ASSUME BaseInv, [Next]_vars
      PROVE  [running # NoProc /\ running' = running =>
                \/ fuel' < fuel
                \/ reply' = OK /\ UNCHANGED <<fuel, fsVars, taskVars, capVars, syncVars>>]_vars
  <2> SUFFICES ASSUME Next, running # NoProc, running' = running
               PROVE  \/ fuel' < fuel
                      \/ reply' = OK /\ UNCHANGED <<fuel, fsVars, taskVars, capVars, syncVars>>
    BY <1>1
  <2>1. Kinds(running)
    BY <1>1, RunningSteps
  <2>2. CASE Prints(running)
    BY <2>2 DEF Prints
  <2> QED  BY <2>1, <2>2, ZenonT(20) DEF Kinds, Ended, End, Suspends, Answers, Opens, Closes, Makes, UsesSync, MakesSync, Serves
<1> QED  BY <1>1, BaseInvariance, PTL DEF Spec, FuelShrinks

\* A host call that returns an error or suspends the process has changed neither
\* the filesystem, the capabilities nor the registry.
THEOREM FailedCallsDoNothing == Spec => FailedCallHasNoEffect
<1>1. ASSUME BaseInv, [Next]_vars
      PROVE  [running # NoProc /\ (reply' < 0 \/ invocation'[running] # NotSuspended) =>
                UNCHANGED <<fsVars, caps, next_index, syncVars>>]_vars
  <2> SUFFICES ASSUME Next, running # NoProc, reply' < 0 \/ invocation'[running] # NotSuspended
               PROVE  UNCHANGED <<fsVars, caps, next_index, syncVars>>
    BY <1>1
  <2>1. running \in Procs /\ Kinds(running)
    BY <1>1, RunningSteps
  <2>2. invocation[running] = NotSuspended /\ DOMAIN invocation = Procs
    BY <1>1 DEF BaseInv, ProcInv
  <2>3. ~Ended(running)
    BY <2>1, <2>2 DEF Ended, End, OK
  <2>4. CASE Suspends(running) \/ Prints(running) \/ Answers(running)
    BY <2>4 DEF Suspends, Prints, Answers, capVars
  <2>5. CASE Serves(running) /\ ~Answers(running)
    <3>1. reply' < 0
      BY <2>2, <2>5 DEF Serves, taskVars
    <3>2. next_index \in Nat /\ ~(next_index < 0) /\ ~(OK < 0)
      BY <1>1 DEF BaseInv, CapInv, OK
    <3>3. reply' = next_index \/ reply' = OK
      BY <2>1, <2>5, ZenonT(20) DEF Kinds, Ended, Suspends, Prints, Opens, Closes, Makes, UsesSync, MakesSync, AddCapability, Serves, End, taskVars
    <3> QED  BY <3>1, <3>2, <3>3
  <2> QED  BY <2>1, <2>3, <2>4, <2>5, ZenonT(20) DEF Kinds, Opens, Closes, Makes, UsesSync, MakesSync
<1> QED  BY <1>1, BaseInvariance, PTL DEF Spec, FailedCallHasNoEffect

-----------------------------------------------------------------------------
\* It holds when the kernel starts ...
LEMMA IInit ==
  ASSUME Init
  PROVE  IInv
<1>1. BaseInv
  BY BaseInit
<1>2. NodesInv
  <2>1. nodes = [n \in {0} |-> Directory]
    BY DEF Init, FsInit, Root
  <2>2. DOMAIN nodes = 0..1 - 1
    BY <2>1
  <2>3. NodeOK(Directory, DOMAIN nodes)
    BY DEF NodeOK, Directory
  <2> QED  BY <2>1, <2>2, <2>3 DEF NodesInv
<1>3. HandleInv
  <2>1. DOMAIN open_handles = {} /\ orphaned = {} /\ next_handle = 1 /\ next_handle_at = AtBase
    BY DEF Init, FsInit
  <2>2. \A p \in Procs : DOMAIN caps[p] = {}
    BY DEF Init
  <2>3. \A p \in Procs : FileCaps(p) = {} /\ \A i, h : ~Holds(p, i, h)
    BY <2>2 DEF FileCaps, Holds
  <2>4. AtBase \in Nat /\ MaxOpens \in Nat
    BY HostAssumption
  <2>5. HandlesIssued /\ HandlesLead
    BY <2>1, <2>4 DEF HandlesIssued, HandlesLead
  <2>6. UnspawnedHoldNone /\ Owned
    BY <2>1, <2>2, <2>3 DEF UnspawnedHoldNone, Owned, CapsFit, OneHolder, AllAccounted
  <2> QED  BY <2>5, <2>6 DEF HandleInv
<1> QED  BY <1>1, <1>2, <1>3 DEF IInv

\* ... and every step preserves it, ...
LEMMA IStep ==
  ASSUME IInv, [Next]_vars
  PROVE  IInv'
<1>1. BaseInv'
  BY BaseStep DEF IInv
<1>2. CASE Kernel
  BY <1>1, <1>2, KernelKeepsFs DEF IInv, BaseInv
<1>3. ASSUME NEW p \in Procs, Guest(p)
      PROVE  IInv'
  <2>1. Kinds(p)
    BY <1>3, GuestKinds DEF IInv, BaseInv
  <2> QED  BY <1>1, <2>1, GuestKeepsFs DEF IInv, BaseInv
<1>4. CASE UNCHANGED vars
  <2>1. UNCHANGED <<fsVars, caps, orphaned, status>>
    BY <1>4 DEF vars, taskVars, capVars
  <2>2. NodesInv'
    BY <2>1 DEF IInv, NodesInv, fsVars
  <2>3. \A q \in Procs : /\ FileCaps(q)' = FileCaps(q)
                         /\ \A i \in FileCaps(q) : caps'[q][i] = caps[q][i]
    BY <2>1 DEF FileCaps
  <2>4. \A q \in Procs : status'[q] = "unspawned" => DOMAIN caps'[q] = {}
    BY <2>1 DEF IInv, HandleInv, UnspawnedHoldNone
  <2> QED  BY <1>1, <2>1, <2>2, <2>3, <2>4, SameHandles DEF IInv
<1> QED  BY <1>2, <1>3, <1>4 DEF Next

\* ... so it always holds.
LEMMA IInvariance == Spec => []IInv
<1>1. Init => IInv
  BY IInit
<1>2. IInv /\ [Next]_vars => IInv'
  BY IStep
<1> QED  BY <1>1, <1>2, PTL DEF Spec

\* Every variable keeps its type, only live processes are queued, run or are
\* suspended, and open handles refer to nodes (wasm/mod.rs, ramfs.rs).
THEOREM TypeCorrect == Spec => []TypeOK
<1>1. ASSUME IInv
      PROVE  TypeOK
  <2>1. \A h \in DOMAIN semaphores : semaphores[h].permits \in 0..semaphores[h].max
    <3>1. /\ \A h \in DOMAIN semaphores : semaphores[h] \in Counting
          /\ \A h \in DOMAIN semaphores : h \in DOMAIN granted /\ granted[h] \in Nat
      BY <1>1 DEF IInv, BaseInv, SyncInv
    <3>2. \A h \in DOMAIN semaphores : semaphores[h].permits + granted[h] = semaphores[h].max
      BY <1>1 DEF IInv, BaseInv, SyncInv
    <3> QED  BY <3>1, <3>2 DEF Counting
  <2> QED  BY <1>1, <2>1 DEF TypeOK, IInv, BaseInv, ProcInv, CapInv, HandleInv, HandlesIssued, HandlesLead, HandedOut
<1> QED  BY <1>1, IInvariance, PTL

\* Until open has been called AtBase times, every file or directory capability has
\* its open handle, of a node of its kind, to itself; only dropped processes and
\* wasm-test leave handles without an owner.
THEOREM OneOwnerPerHandle == Spec => []HandlesHaveOneOwner
<1>1. ASSUME IInv
      PROVE  HandlesHaveOneOwner
  <2> SUFFICES ASSUME Apart
               PROVE  HandlesHaveOneOwner
    BY DEF HandlesHaveOneOwner
  <2>0. Owned
    BY <1>1 DEF IInv, HandleInv
  <2>1. \A h \in DOMAIN open_handles : IsDir(nodes, open_handles[h]) <=> nodes[open_handles[h]].kind = "dir"
    BY <1>1, NewNodeIsNext DEF IInv, HandleInv, HandlesLead, IsDir
  <2>2. ASSUME NEW p \in Procs, NEW i \in FileCaps(p)
        PROVE  /\ caps[p][i].handle \in DOMAIN open_handles
               /\ IsDir(nodes, open_handles[caps[p][i].handle]) <=> caps[p][i].kind = "Directory"
    BY <2>0, <2>1, <2>2 DEF Owned, CapsFit, Fits, Holds
  <2>3. \A h : \A o \in Holders(h) : o[1] \in Procs /\ Holds(o[1], o[2], h) /\ o = <<o[1], o[2]>>
    BY DEF Holders, Holds
  <2>4. ASSUME NEW h \in orphaned
        PROVE  Holders(h) = {}
    BY <2>0, <2>3, <2>4 DEF Owned, CapsFit, Fits
  <2>5. ASSUME NEW h, NEW p \in Procs, NEW i, Holds(p, i, h)
        PROVE  \E o \in Holders(h) : Holders(h) = {o}
    <3>1. i \in 1..MaxCaps
      BY <1>1, <2>5, HostAssumption DEF IInv, BaseInv, CapInv, Holds, FileCaps
    <3>2. <<p, i>> \in Holders(h)
      BY <2>5, <3>1 DEF Holders, Holds
    <3>3. \A o \in Holders(h) : o = <<p, i>>
      BY <2>0, <2>3, <2>5 DEF Owned, OneHolder
    <3>4. Holders(h) = {<<p, i>>}
      BY <3>2, <3>3
    <3> QED  BY <3>2, <3>4
  <2>6. ASSUME NEW h, \A p \in Procs : \A i : ~Holds(p, i, h)
        PROVE  Holders(h) = {}
    BY <2>3, <2>6
  <2>7. ASSUME NEW h \in DOMAIN open_handles, h \notin orphaned
        PROVE  \/ \E o \in Holders(h) : Holders(h) = {o}
               \/ Holders(h) = {} /\ h < AtBase /\ IsDir(nodes, open_handles[h])
    <3>1. CASE \E p \in Procs : \E i : Holds(p, i, h)
      BY <2>5, <3>1
    <3>2. CASE ~ \E p \in Procs : \E i : Holds(p, i, h)
      BY <2>0, <2>1, <2>6, <2>7, <3>2 DEF Owned, AllAccounted, Accounted
    <3> QED  BY <3>1, <3>2
  <2> QED  BY <2>2, <2>4, <2>7 DEF HandlesHaveOneOwner
<1> QED  BY <1>1, IInvariance, PTL

-----------------------------------------------------------------------------
\* A name goes on leading to its node, unless add_file puts a new file there.
THEOREM NamesStay == Spec => NamesAreKept
<1>1. ASSUME IInv, [Next]_vars
      PROVE  [\A d \in {n \in DOMAIN nodes : IsDir(nodes, n)} : \A name \in DOMAIN nodes[d].entries :
                LET n == nodes'[d].entries[name] IN
                  \/ n = nodes[d].entries[name]
                  \/ running = NoProc /\ n \notin DOMAIN nodes /\ ~IsDir(nodes', n)]_vars
  <2>1. CASE Kernel
    <3>1. running = NoProc
      BY <2>1 DEF Kernel, KernelAddFile, KernelMkdir, SpawnProcess, WasmTest, CallAgain, OuterWake, Poll
    <3> QED  BY <1>1, <2>1, <3>1, KernelNodes DEF NameStays
  <2>2. ASSUME NEW p \in Procs, Guest(p)
        PROVE  \A d \in {n \in DOMAIN nodes : IsDir(nodes, n)} :
                 \A name \in DOMAIN nodes[d].entries : nodes'[d].entries[name] = nodes[d].entries[name]
    BY <1>1, <2>2, GuestKinds, GuestNodes DEF IInv, BaseInv
  <2> QED  BY <1>1, <2>1, <2>2 DEF Next
<1> QED  BY <1>1, IInvariance, PTL DEF Spec, NamesAreKept

\* What a capability stands for never changes while it is held: its object and its
\* rights, and, until open has been called AtBase times, the node behind its handle
\* and the contents of a file.
THEOREM CapabilitiesStayWhatTheyAre == Spec => CapabilitiesAreStable
<1>1. ASSUME IInv, [Next]_vars
      PROVE  [\A p \in Procs : \A i \in FileCaps(p) : i \in DOMAIN caps'[p] =>
                LET h == caps[p][i].handle IN
                  /\ caps'[p][i] = caps[p][i]
                  /\ Apart' => /\ open_handles'[h] = open_handles[h]
                               /\ caps[p][i].kind = "File" =>
                                    nodes'[open_handles[h]] = nodes[open_handles[h]]]_vars
  <2> SUFFICES ASSUME Next, NEW p \in Procs, NEW i \in FileCaps(p), i \in DOMAIN caps'[p]
               PROVE  /\ caps'[p][i] = caps[p][i]
                      /\ Apart' => /\ open_handles'[caps[p][i].handle] = open_handles[caps[p][i].handle]
                                   /\ caps[p][i].kind = "File" =>
                                        nodes'[open_handles[caps[p][i].handle]] = nodes[open_handles[caps[p][i].handle]]
    BY <1>1
  <2>1. Kernel \/ \E q \in Procs : Kinds(q)
    BY <1>1, GuestKinds DEF Next, IInv, BaseInv
  <2>2. Stable(p, i) /\ NodesGrow
    BY <1>1, <2>1, GuestIsStable, KernelIsStable, GuestNodes, KernelNodes
  <2> SUFFICES ASSUME Apart', caps[p][i].kind = "File"
               PROVE  nodes'[open_handles[caps[p][i].handle]] = nodes[open_handles[caps[p][i].handle]]
    BY <2>2 DEF Stable
  <2>3. Owned
    <3>1. next_handle' = next_handle \/ next_handle' = next_handle + 1
      BY <2>1, CounterSteps
    <3> QED  BY <1>1, <3>1, ApartBefore DEF IInv, HandleInv
  <2>4. PICK n \in DOMAIN nodes : n = open_handles[caps[p][i].handle]
    BY <1>1, <2>3 DEF IInv, HandleInv, HandlesLead, Owned, CapsFit, Fits, Holds
  <2>5. nodes[n].kind = "file"
    <3>1. nodes[n].kind # "dir"
      BY <2>3, <2>4 DEF Owned, CapsFit, Fits, Holds
    <3>2. nodes[n].kind = "dir" \/ nodes[n].kind = "file"
      BY <1>1, <2>4 DEF IInv, NodesInv, NodeOK
    <3> QED  BY <3>1, <3>2
  <2> QED  BY <2>2, <2>4, <2>5 DEF NodesGrow
<1> QED  BY <1>1, IInvariance, PTL DEF Spec, CapabilitiesAreStable

\* A process gains a filesystem capability only by sp_fs_open, for a node below a
\* directory it holds with READ, and with no right it did not hold on that.
THEOREM AuthorityIsDerived == Spec => DerivedAuthority
<1>1. ASSUME IInv, [Next]_vars
      PROVE  [\A p \in Procs : running = p =>
                \A i \in DOMAIN caps'[p] \ DOMAIN caps[p] : caps'[p][i].kind \in FileKinds =>
                  \E j \in DOMAIN caps[p] :
                    /\ caps[p][j].kind = "Directory"
                    /\ caps'[p][i].rights \cup {"READ"} \subseteq caps[p][j].rights
                    /\ caps[p][j].handle \in DOMAIN open_handles
                    /\ open_handles'[caps'[p][i].handle] \in Below(open_handles[caps[p][j].handle])]_vars
  <2> SUFFICES ASSUME Next, NEW p \in Procs, running = p,
                      NEW i \in DOMAIN caps'[p] \ DOMAIN caps[p], caps'[p][i].kind \in FileKinds
               PROVE  \E j \in DOMAIN caps[p] :
                        /\ caps[p][j].kind = "Directory"
                        /\ caps'[p][i].rights \cup {"READ"} \subseteq caps[p][j].rights
                        /\ caps[p][j].handle \in DOMAIN open_handles
                        /\ open_handles'[caps'[p][i].handle] \in Below(open_handles[caps[p][j].handle])
    BY <1>1
  <2>1. Kinds(p) /\ DOMAIN caps = Procs /\ next_index \notin DOMAIN caps[p]
    BY <1>1, RunningSteps, HostAssumption DEF IInv, BaseInv, CapInv
  <2>2. ~UNCHANGED caps /\ ~Ended(p) /\ ~Closes(p)
    <3>1. ~UNCHANGED caps
      OBVIOUS
    <3>2. caps' # [caps EXCEPT ![p] = <<>>]
      BY <2>1
    <3>3. ASSUME NEW id
          PROVE  caps' # [caps EXCEPT ![p] = [j \in DOMAIN caps[p] \ {id} |-> caps[p][j]]]
      BY <2>1
    <3> QED  BY <3>1, <3>2, <3>3, ZenonT(40) DEF Ended, End, Closes, capVars
  <2>3. ~MakesSync(p)
    <3>1. ASSUME NEW c, AddCapability(p, c), c.kind \notin FileKinds
          PROVE  FALSE
      BY <2>1, <3>1 DEF AddCapability, Put
    <3> QED  BY <3>1, ZenonT(40) DEF MakesSync, Capability, FileKinds
  <2>4. Opens(p)
    BY <2>1, <2>2, <2>3 DEF Kinds, Suspends, Prints, Answers, Makes, UsesSync, capVars
  <2>5. PICK id \in DOMAIN caps[p], path \in Paths :
          /\ caps[p][id].kind = "Directory" /\ {"READ"} \subseteq caps[p][id].rights
          /\ OpenAt(caps[p][id].handle, path) # NoNode
          /\ OpenAtHandle(OpenAt(caps[p][id].handle, path))
          /\ AddCapability(p, Derive(OpenAt(caps[p][id].handle, path), next_handle_at, caps[p][id].rights))
    BY <2>4 DEF Opens
  <2>6. PICK n : n = OpenAt(caps[p][id].handle, path)
    OBVIOUS
  <2>7. PICK c : c = Derive(n, next_handle_at, caps[p][id].rights)
    OBVIOUS
  <2>8. i = next_index /\ caps'[p][i] = c
    BY <2>1, <2>5, <2>6, <2>7 DEF AddCapability, Put
  <2>9. c.handle = next_handle_at /\ c.rights \subseteq caps[p][id].rights
    BY <2>7 DEF Derive, Capability
  <2>10. open_handles'[next_handle_at] = n
    BY <2>5, <2>6 DEF OpenAtHandle, Put
  <2>11. PICK base : base = open_handles[caps[p][id].handle]
    OBVIOUS
  <2>12. n \in DOMAIN nodes /\ Leads(nodes, base, path, n) /\ path \in Seq(STRING)
    BY <2>5, <2>6, <2>11, WalkLeads, HostAssumption DEF OpenAt
  <2>13. n \in Below(base)
    BY <2>12, TrailStays DEF Below
  <2>14. caps[p][id].handle \in DOMAIN open_handles
    BY <2>5 DEF OpenAt
  <2> QED  BY <2>5, <2>8, <2>9, <2>10, <2>11, <2>13, <2>14
<1> QED  BY <1>1, IInvariance, PTL DEF Spec, DerivedAuthority
=============================================================================
