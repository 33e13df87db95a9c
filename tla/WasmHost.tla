------------------------------ MODULE WasmHost ------------------------------
(***************************************************************************)
(* The host functions that WASM processes call                             *)
(* (src/kernel/src/wasm/host.rs), on their capabilities, the RAM           *)
(* filesystem and the registry of mutexes and semaphores.                  *)
(*                                                                         *)
(* Between two host calls the guest computes: that is stuttering here. Its *)
(* next host call, with any arguments, is an action.  Every sp_ function   *)
(* but sp_sched_yield charges fuel first; below the threshold it traps,    *)
(* which suspends the invocation.  print charges nothing.                  *)
(***************************************************************************)
EXTENDS WasmProcess

-----------------------------------------------------------------------------
(* Error codes, and the functions that return no value.                     *)

CAP_NOT_FOUND == -1
NO_MEMORY_EXPORT == -2
MEMORY_READ_FAILED == -3
INVALID_UTF8 == -4
PERMISSION_DENIED == -5
NOT_A_DIRECTORY == -6
FS_ERROR == -7
BUFFER_TOO_SMALL == -8
MEMORY_WRITE_FAILED == -9
NOT_A_FILE == -10
MUTEX_LOCKED == -11
SEM_NO_PERMITS == -12
INVALID_HANDLE == -13

VoidFns == {"sp_fs_close", "sp_sched_yield"}

\* A suspended invocation: the HostTrap, the handle it waits for, and whether the
\* function that trapped returns a value.
Suspended(fn, handle) ==
  [ trap |-> IF handle = 0 THEN "Yield" ELSE IF fn = "sp_mutex_lock" THEN "MutexWait" ELSE "SemWait",
    handle |-> handle,
    result |-> fn \notin VoidFns ]

-----------------------------------------------------------------------------
(* The checks of the host functions.                                        *)

\* The ids a guest may pass: those it was given, and one of a later generation.
Ids(p) == DOMAIN caps[p] \cup {GenBase + 1}

\* The checks every function makes on its capability, in their order: OK, or the
\* error it returns.
CapError(p, id, kinds, right, wrong_kind) ==
  IF id \notin DOMAIN caps[p] THEN CAP_NOT_FOUND
  ELSE IF caps[p][id].kind \notin kinds THEN wrong_kind
  ELSE IF ~(right \subseteq caps[p][id].rights) THEN PERMISSION_DENIED
  ELSE OK

\* `mem` is what the guest's memory does with the path or the buffer it passes.  A
\* length for which the host cannot allocate its copy, and panics, is left out.
MemKinds == {"ok", "no_export", "bad_range", "bad_utf8"}

PathError(mem) ==
  [ ok |-> OK, no_export |-> NO_MEMORY_EXPORT,
    bad_range |-> MEMORY_READ_FAILED, bad_utf8 |-> INVALID_UTF8 ][mem]

\* The first of two errors that is one.
First(e1, e2) == IF e1 # OK THEN e1 ELSE e2

\* The checks of a function on a mutex or semaphore: its capability, and that
\* the handle is registered.
SyncError(p, id, kind, registry) ==
  LET e == CapError(p, id, {kind}, {"CALL"}, INVALID_HANDLE)
  IN  IF e = OK /\ caps[p][id].handle \notin DOMAIN registry THEN INVALID_HANDLE ELSE e

-----------------------------------------------------------------------------
(* Fuel, and the ways a host function ends.                                 *)

\* A host function trapped: poll stores the invocation and returns Pending, and
\* wakes nobody.  Under the synchronous call a trap is an error.
Suspend(p, fn, handle) ==
  /\ running' = NoProc
  /\ fuel' = 0
  /\ invocation' = [invocation EXCEPT ![p] = Suspended(fn, handle)]
  /\ reply' = OK
  /\ UNCHANGED <<status, queued, capVars>>

Trap(p, fn, handle) ==
  \/ mode[p] # "call" /\ Suspend(p, fn, handle)
  \/ mode[p] = "call" /\ End(p) /\ UNCHANGED queued

\* Mutant: nothing is charged.
ChargeNothing(cost) == UNCHANGED fuel

\* consume_fuel subtracts, saturating at zero ...
Charge(cost) == fuel' = IF fuel > cost THEN fuel - cost ELSE 0

\* ... and check_fuel passes if the threshold is still met.
HasFuel(cost) == fuel - cost >= YIELD_THRESHOLD

\* The call traps, for want of fuel or waiting for `handle`, or returns an error.
Fails(p, fn, cost, error, handle) ==
  /\ running = p
  /\ \/ /\ ~HasFuel(cost)
        /\ Trap(p, fn, 0)
     \/ /\ HasFuel(cost) /\ error = OK /\ handle # 0
        /\ Trap(p, fn, handle)
     \/ /\ HasFuel(cost) /\ error # OK
        /\ Charge(cost)
        /\ reply' = error
        /\ UNCHANGED <<taskVars, capVars>>
  /\ UNCHANGED <<fsVars, syncVars>>

\* The call passes its checks and goes on.
Served(p, cost, error) ==
  /\ running = p
  /\ HasFuel(cost)
  /\ error = OK
  /\ Charge(cost)
  /\ UNCHANGED taskVars

-----------------------------------------------------------------------------
(* Capability and filesystem functions.                                     *)

\* Fuel for the copies is charged once their number is known.
sp_get_capabilities(p, mem) ==
  \E count \in 0..MaxCaps :
    LET io == CAP_LOOKUP + MEMORY_IO * count
        error == IF mem = "no_export" THEN NO_MEMORY_EXPORT
                 ELSE IF BufLen < count THEN BUFFER_TOO_SMALL ELSE OK
        write == IF mem = "bad_range" /\ count > 0 THEN MEMORY_WRITE_FAILED ELSE OK
    IN  /\ count = Cardinality(DOMAIN caps[p])
        /\ \/ Fails(p, "sp_get_capabilities", CAP_LOOKUP, error, 0)
           \/ /\ HasFuel(CAP_LOOKUP) /\ error = OK
              /\ Fails(p, "sp_get_capabilities", io, write, 0)
           \/ /\ Served(p, io, First(error, write))
              /\ reply' = count
              /\ UNCHANGED <<fsVars, capVars, syncVars>>

OpenError(p, id, path, mem) ==
  LET error == First(PathError(mem), CapError(p, id, {"Directory"}, {"READ"}, NOT_A_DIRECTORY))
  IN  IF error = OK /\ OpenAt(caps[p][id].handle, path) = NoNode THEN FS_ERROR ELSE error

\* Mutant: the fuel is checked after the file was opened.
OpenThenCharge(p, id, path, mem) ==
  LET n == OpenAt(caps[p][id].handle, path) IN
    \/ Fails(p, "sp_fs_open", FS_OPERATION, OpenError(p, id, path, mem), 0)
    \/ /\ running = p /\ OpenError(p, id, path, mem) = OK
       /\ next_handle_at < AtBase + MaxOpenAts /\ next_index <= MaxCaps
       /\ OpenAtHandle(n)
       /\ caps' = [caps EXCEPT ![p] =
                     Put(@, next_index, Derive(n, next_handle_at, caps[p][id].rights))]
       /\ next_index' = next_index + 1
       /\ \/ HasFuel(FS_OPERATION) /\ Charge(FS_OPERATION) /\ reply' = next_index /\ UNCHANGED taskVars
          \/ /\ ~HasFuel(FS_OPERATION) /\ reply' = OK /\ running' = NoProc /\ fuel' = 0
             /\ invocation' = [invocation EXCEPT ![p] = Suspended("sp_fs_open", 0)]
             /\ UNCHANGED <<status, queued>>
       /\ UNCHANGED <<orphaned, syncVars>>

sp_fs_open(p, id, path, mem) ==
  LET n == OpenAt(caps[p][id].handle, path)
      error == OpenError(p, id, path, mem)
  IN  \/ Fails(p, "sp_fs_open", FS_OPERATION, error, 0)
      \/ /\ next_handle_at < AtBase + MaxOpenAts /\ next_index <= MaxCaps
         /\ Served(p, FS_OPERATION, error)
         /\ OpenAtHandle(n)
         /\ AddCapability(p, Derive(n, next_handle_at, caps[p][id].rights))
         /\ UNCHANGED <<orphaned, syncVars>>

\* The bytes are read, and then charged and copied to the guest.
sp_fs_read(p, id, offset, mem) ==
  LET h == caps[p][id].handle
      error == IF mem = "no_export" THEN NO_MEMORY_EXPORT
               ELSE LET e == CapError(p, id, {"File"}, {"READ"}, NOT_A_FILE)
                    IN  IF e = OK /\ (h \notin DOMAIN open_handles \/ IsDir(nodes, open_handles[h]))
                        THEN FS_ERROR ELSE e
      write == IF mem = "bad_range" THEN MEMORY_WRITE_FAILED ELSE OK
  IN  \/ Fails(p, "sp_fs_read", FS_OPERATION, error, 0)
      \/ /\ HasFuel(FS_OPERATION) /\ error = OK
         /\ Fails(p, "sp_fs_read", FS_OPERATION + MEMORY_IO, write, 0)
      \/ /\ Served(p, FS_OPERATION + MEMORY_IO, First(error, write))
         /\ reply' = BytesRead(open_handles[h], offset, BufLen)
         /\ UNCHANGED <<fsVars, capVars, syncVars>>

sp_fs_size(p, id) ==
  LET h == caps[p][id].handle
      e == CapError(p, id, FileKinds, {}, NOT_A_FILE)
      error == IF e = OK /\ h \notin DOMAIN open_handles THEN FS_ERROR ELSE e
  IN  \/ Fails(p, "sp_fs_size", CAP_LOOKUP, error, 0)
      \/ /\ Served(p, CAP_LOOKUP, error)
         /\ reply' = Size(open_handles[h])
         /\ UNCHANGED <<fsVars, capVars, syncVars>>

\* Any capability is removed; a file or directory is closed.  Without fuel
\* nothing is done, and the guest goes on behind the call when it is resumed.
sp_fs_close(p, id) ==
  \/ Fails(p, "sp_fs_close", CAP_LOOKUP, OK, 0)
  \/ /\ Served(p, CAP_LOOKUP, OK)
     /\ reply' = OK
     /\ caps' = [caps EXCEPT ![p] = [i \in DOMAIN @ \ {id} |-> @[i]]]
     /\ IF id \in DOMAIN caps[p] /\ caps[p][id].kind \in FileKinds
        THEN Close(caps[p][id].handle) ELSE UNCHANGED fsVars
     /\ UNCHANGED <<next_index, orphaned, syncVars>>

sp_fs_mkdir(p, id, path, mem) ==
  LET e == First(PathError(mem), CapError(p, id, {"Directory"}, {"WRITE"}, NOT_A_DIRECTORY))
      error == IF e = OK /\ ~CanMake(caps[p][id].handle, path) THEN FS_ERROR ELSE e
  IN  \/ Fails(p, "sp_fs_mkdir", FS_OPERATION, error, 0)
      \/ /\ Cardinality(DOMAIN nodes) < MaxNodes
         /\ Served(p, FS_OPERATION, error)
         /\ nodes' = MkdirAt(caps[p][id].handle, path)
         /\ reply' = OK
         /\ UNCHANGED <<open_handles, next_handle, next_handle_at, capVars, syncVars>>

\* print logs a line: the guest passes nothing and gets nothing back.
print(p) ==
  /\ running = p
  /\ reply' = OK
  /\ UNCHANGED <<fsVars, taskVars, fuel, capVars, syncVars>>

sp_sched_yield(p) ==
  /\ running = p
  /\ Trap(p, "sp_sched_yield", 0)
  /\ UNCHANGED <<fsVars, syncVars>>

-----------------------------------------------------------------------------
(* Mutexes and semaphores.                                                  *)

sp_mutex_create(p) ==
  \/ Fails(p, "sp_mutex_create", SYNC_CREATE, OK, 0)
  \/ /\ Len(mutexes) < MaxSync /\ next_index <= MaxCaps
     /\ Served(p, SYNC_CREATE, OK)
     /\ mutexes' = Append(mutexes, FALSE)
     /\ AddCapability(p, Capability("Mutex", NextHandle(mutexes), {"CALL"}))
     /\ UNCHANGED <<fsVars, orphaned, semaphores, granted>>

sp_mutex_lock(p, id) ==
  LET h == caps[p][id].handle
      error == SyncError(p, id, "Mutex", mutexes)
      wait == IF error = OK /\ mutexes[h] THEN h ELSE 0
  IN  \/ Fails(p, "sp_mutex_lock", SYNC_OPERATION, error, wait)
      \/ /\ Served(p, SYNC_OPERATION, error)
         /\ TakeAndDrop(h)
         /\ reply' = OK
         /\ UNCHANGED <<fsVars, capVars, semaphores, granted>>

sp_mutex_try_lock(p, id) ==
  LET h == caps[p][id].handle
      e == SyncError(p, id, "Mutex", mutexes)
      error == IF e = OK /\ mutexes[h] THEN MUTEX_LOCKED ELSE e
  IN  \/ Fails(p, "sp_mutex_try_lock", SYNC_OPERATION, error, 0)
      \/ /\ Served(p, SYNC_OPERATION, error)
         /\ TakeAndDrop(h)
         /\ reply' = OK
         /\ UNCHANGED <<fsVars, capVars, semaphores, granted>>

\* There is nothing left to unlock.
sp_mutex_unlock(p, id) ==
  LET error == SyncError(p, id, "Mutex", mutexes)
  IN  \/ Fails(p, "sp_mutex_unlock", SYNC_OPERATION, error, 0)
      \/ /\ Served(p, SYNC_OPERATION, error)
         /\ reply' = OK
         /\ UNCHANGED <<fsVars, capVars, syncVars>>

sp_sem_create(p, permits) ==
  LET error == IF permits < 0 THEN PERMISSION_DENIED ELSE OK
      h == NextHandle(semaphores)
  IN  \/ Fails(p, "sp_sem_create", SYNC_CREATE, error, 0)
      \/ /\ Len(semaphores) < MaxSync /\ next_index <= MaxCaps
         /\ Served(p, SYNC_CREATE, error)
         /\ semaphores' = Append(semaphores, [permits |-> permits, max |-> permits])
         /\ granted' = Append(granted, 0)
         /\ AddCapability(p, Capability("Semaphore", h, {"CALL"}))
         /\ UNCHANGED <<fsVars, orphaned, mutexes>>

sp_sem_acquire(p, id) ==
  LET h == caps[p][id].handle
      error == SyncError(p, id, "Semaphore", semaphores)
      wait == IF error = OK /\ semaphores[h].permits = 0 THEN h ELSE 0
  IN  \/ Fails(p, "sp_sem_acquire", SYNC_OPERATION, error, wait)
      \/ /\ Served(p, SYNC_OPERATION, error)
         /\ wait = 0
         /\ TakePermit(h)
         /\ reply' = OK
         /\ UNCHANGED <<fsVars, capVars, mutexes>>

sp_sem_try_acquire(p, id) ==
  LET h == caps[p][id].handle
      e == SyncError(p, id, "Semaphore", semaphores)
      error == IF e = OK /\ semaphores[h].permits = 0 THEN SEM_NO_PERMITS ELSE e
  IN  \/ Fails(p, "sp_sem_try_acquire", SYNC_OPERATION, error, 0)
      \/ /\ Served(p, SYNC_OPERATION, error)
         /\ TakePermit(h)
         /\ reply' = OK
         /\ UNCHANGED <<fsVars, capVars, mutexes>>

sp_sem_release(p, id) ==
  LET h == caps[p][id].handle
      error == SyncError(p, id, "Semaphore", semaphores)
  IN  \/ Fails(p, "sp_sem_release", SYNC_OPERATION, error, 0)
      \/ /\ Served(p, SYNC_OPERATION, error)
         /\ GivePermit(h)
         /\ reply' = OK
         /\ UNCHANGED <<fsVars, capVars, mutexes>>

-----------------------------------------------------------------------------
FsCall(p) ==
  \/ \E mem \in MemKinds : sp_get_capabilities(p, mem)
  \/ \E id \in Ids(p) :
       \/ \E path \in Paths, mem \in MemKinds :
            sp_fs_open(p, id, path, mem) \/ sp_fs_mkdir(p, id, path, mem)
       \/ \E offset \in 0..BufLen, mem \in MemKinds : sp_fs_read(p, id, offset, mem)
       \/ sp_fs_size(p, id)
       \/ sp_fs_close(p, id)

SyncCall(p) ==
  \/ sp_mutex_create(p)
  \/ \E permits \in Permits : sp_sem_create(p, permits)
  \/ \E id \in Ids(p) :
       \/ sp_mutex_lock(p, id)
       \/ sp_mutex_try_lock(p, id)
       \/ sp_mutex_unlock(p, id)
       \/ sp_sem_acquire(p, id)
       \/ sp_sem_try_acquire(p, id)
       \/ sp_sem_release(p, id)

\* The function returns, or traps on its own: unreachable code, or no wasmi fuel.
Finish(p) ==
  /\ running = p
  /\ End(p)
  /\ UNCHANGED <<fsVars, queued, syncVars>>

\* The running process makes a host call, or its function ends.
Guest(p) ==
  /\ FsCall(p) \/ SyncCall(p) \/ print(p) \/ sp_sched_yield(p) \/ Finish(p)
  /\ UNCHANGED mode

Next == Kernel \/ \E p \in Procs : Guest(p)

Spec == Init /\ [][Next]_vars

\* A guest computes forever only as long as wasmi's fuel lasts, and the executor
\* polls every task on its run queue.
Fairness == \A p \in Procs : WF_vars(Guest(p)) /\ WF_vars(Poll(p))

FairSpec == Spec /\ Fairness

-----------------------------------------------------------------------------
(* Properties.                                                              *)

\* Every variable has its type; a process is suspended only inside a host call,
\* and only a live one is queued or runs.
TypeOK ==
  /\ status \in [Procs -> {"unspawned", "live", "idle", "dropped"}]
  /\ running \in Procs \cup {NoProc}
  /\ \A p \in Procs : p \in queued \/ p = running \/ invocation[p] # NotSuspended => status[p] = "live"
  /\ running \notin queued
  /\ fuel \in 0..FUEL_PER_SLICE
  /\ \A p \in Procs :
       DOMAIN caps[p] \subseteq 1..(next_index - 1)
  /\ \A h \in DOMAIN open_handles : open_handles[h] \in DOMAIN nodes
  /\ \A h \in DOMAIN semaphores : semaphores[h].permits \in 0..semaphores[h].max

Holders(h) == {o \in Procs \X (1..MaxCaps) : o[2] \in FileCaps(o[1]) /\ caps[o[1]][o[2]].handle = h}

\* Until open was called AtBase times (10000 in the code): a file or directory
\* capability refers to an open handle of a node of its kind, and a handle of the
\* filesystem has one owner, so no opens and closes of any process leave a
\* capability whose handle was closed, or handed out again.  Handles without an
\* owner are those of processes that were dropped, and of the directories the
\* wasm-test command opened and, unable to read them, did not close.
HandlesHaveOneOwner ==
  Apart =>
    /\ \A p \in Procs : \A i \in FileCaps(p) :
         LET c == caps[p][i] IN
           /\ c.handle \in DOMAIN open_handles
           /\ IsDir(nodes, open_handles[c.handle]) <=> c.kind = "Directory"
    /\ \A h \in DOMAIN open_handles :
         IF h \in orphaned THEN Holders(h) = {}
         ELSE \/ \E o \in Holders(h) : Holders(h) = {o}
              \/ Holders(h) = {} /\ h < AtBase /\ IsDir(nodes, open_handles[h])

\* Authority is only ever derived: a filesystem capability that a running process
\* gains has no right its process did not already hold, together with READ, on a
\* directory capability in whose subtree the new node lies (sp_fs_open).
DerivedAuthority ==
  [][\A p \in Procs : running = p =>
       \A i \in DOMAIN caps'[p] \ DOMAIN caps[p] : caps'[p][i].kind \in FileKinds =>
         \E j \in DOMAIN caps[p] :
           /\ caps[p][j].kind = "Directory"
           /\ caps'[p][i].rights \cup {"READ"} \subseteq caps[p][j].rights
           /\ caps[p][j].handle \in DOMAIN open_handles
           /\ open_handles'[caps'[p][i].handle] \in Below(open_handles[caps[p][j].handle])]_vars

\* What a capability stands for never changes while it is held: not its object or
\* rights, and, until open was called AtBase times, not the node behind its handle
\* nor that file's contents, even when the kernel adds another file under the same
\* path.
CapabilitiesAreStable ==
  [][\A p \in Procs : \A i \in FileCaps(p) : i \in DOMAIN caps'[p] =>
       LET h == caps[p][i].handle IN
         /\ caps'[p][i] = caps[p][i]
         /\ Apart' => /\ open_handles'[h] = open_handles[h]
                      /\ caps[p][i].kind = "File" => nodes'[open_handles[h]] = nodes[open_handles[h]]]_vars

\* A name in a directory goes on leading to the same node, except that the kernel
\* may replace it by a new file: making a directory never hides an existing one.
NamesAreKept ==
  [][\A d \in {n \in DOMAIN nodes : IsDir(nodes, n)} : \A name \in DOMAIN nodes[d].entries :
       LET n == nodes'[d].entries[name] IN
         \/ n = nodes[d].entries[name]
         \/ running = NoProc /\ n \notin DOMAIN nodes /\ ~IsDir(nodes', n)]_vars

\* A host call that returns an error, or suspends the guest, did nothing: a guest
\* that makes it again neither loses a handle nor does the work twice.
FailedCallHasNoEffect ==
  [][running # NoProc /\ (reply' < 0 \/ invocation'[running] # NotSuspended) =>
       UNCHANGED <<fsVars, caps, next_index, syncVars>>]_vars

\* A guest was told that it has a permit exactly as often as one was taken from
\* the semaphore: waiting, running out of fuel in sp_sem_acquire, being resumed
\* and releasing too often neither invent nor lose a permit.
SemaphoresAccounted ==
  \A h \in DOMAIN semaphores : semaphores[h].permits + granted[h] = semaphores[h].max

\* What a guest does to the kernel is paid for: a host call it survives leaves it
\* less fuel, so that a slice has a bounded number of them, or, as print, changes
\* nothing and returns nothing, whatever the number of such calls.
FuelShrinks ==
  [][running # NoProc /\ running' = running =>
       \/ fuel' < fuel
       \/ reply' = OK /\ UNCHANGED <<fuel, fsVars, taskVars, capVars, syncVars>>]_vars

\* As HostTrap::Yield is documented, a process that yields runs again.
YieldedIsResumed ==
  \A p \in Procs : invocation[p].trap = "Yield" ~> running = p
=============================================================================
