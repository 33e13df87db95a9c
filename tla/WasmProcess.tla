----------------------------- MODULE WasmProcess -----------------------------
(***************************************************************************)
(* WASM processes (src/kernel/src/wasm/mod.rs): how the kernel spawns,     *)
(* calls, polls and drops them, their capabilities                         *)
(* (common/src/capability.rs), and the registry of their mutexes and       *)
(* semaphores (sync/registry.rs).  What a process does while it runs, its  *)
(* host calls, is in WasmHost.                                             *)
(*                                                                         *)
(* A process runs only inside a poll of its future, or inside the          *)
(* synchronous call of the wasm-test command, and nothing else runs        *)
(* meanwhile.  wasmi resumes a suspended invocation behind the call that   *)
(* trapped, with the results it is given: WasmTask gives none, which wasmi *)
(* takes only for a function without results.                              *)
(***************************************************************************)
EXTENDS RamFs

CONSTANTS
  Procs,            \* WASM processes
  NoProc,
  Modes,            \* how each process may be run: by "spawn_task", "call_async" or "call"
  Grants,           \* Grants[p]: the directory and rights the kernel grants p
  Paths,            \* paths passed to the filesystem
  Permits,          \* arguments of sp_sem_create
  FUEL_PER_SLICE, YIELD_THRESHOLD,
  CAP_LOOKUP, FS_OPERATION, MEMORY_IO, SYNC_CREATE, SYNC_OPERATION,
  GenBase,          \* 2^32: where the generation starts in a raw capability id
  BufLen,           \* length of the guest's buffers, in bytes and in entries
  MaxNodes, MaxOpens, MaxOpenAts, MaxCaps, MaxSync   \* bounds

ASSUME HostAssumption ==
  /\ Modes \subseteq [Procs -> {"spawn_task", "call_async", "call"}]
  /\ NoProc \notin Procs
  /\ {YIELD_THRESHOLD, CAP_LOOKUP, FS_OPERATION, SYNC_CREATE, SYNC_OPERATION} \subseteq Nat \ {0}
  /\ {FUEL_PER_SLICE, MEMORY_IO} \subseteq Nat
  /\ Paths \subseteq Seq(STRING)
  /\ Permits \subseteq Int
  /\ {AtBase, BufLen, MaxNodes, MaxOpens, MaxOpenAts, MaxCaps, MaxSync} \subseteq Nat
  \* fewer than 2^32 capabilities and handles: no counter wraps
  /\ MaxCaps < GenBase /\ MaxOpens < GenBase /\ AtBase + MaxOpenAts <= GenBase

VARIABLES
  mode,         \* mode[p]: the function p is run by, which never changes
  status,       \* "unspawned", "live", "idle" between two call_async, "dropped"
  queued,       \* processes whose task is on the executor's run queue
  running,      \* the process that runs
  invocation,   \* invocation[p]: how the host call trapped that p is suspended in
  fuel,         \* fuel_remaining of the running process; a poll resets its own, so
                \* that of the others is never read
  caps,         \* HostState.capabilities: raw id -> capability
  next_index,   \* NEXT_INDEX of Capability::new
  mutexes,      \* MUTEX_REGISTRY: handle -> locked
  semaphores,   \* SEM_REGISTRY: handle -> [permits, max]
  reply,        \* what the last host call returned to the running process
  granted,      \* history: permits a guest was told it has, by handle
  orphaned      \* history: file handles of dropped processes

taskVars == <<status, queued, running, invocation>>
capVars == <<caps, next_index, orphaned>>
syncVars == <<mutexes, semaphores, granted>>
vars == <<mode, fsVars, taskVars, fuel, capVars, syncVars, reply>>

\* The code of success; the errors are in WasmHost.
OK == 0

NotSuspended == [trap |-> "none", handle |-> 0, result |-> TRUE]

-----------------------------------------------------------------------------
(* Capabilities.  A raw id is index + generation * GenBase.                 *)

FileKinds == {"File", "Directory"}

\* Capability::new: the next index, generation 0.
Capability(kind, handle, rights) == [kind |-> kind, handle |-> handle, rights |-> rights]

AddCapability(p, cap) ==
  /\ caps' = [caps EXCEPT ![p] = Put(@, next_index, cap)]
  /\ next_index' = next_index + 1
  /\ reply' = next_index

DirRights == {"READ", "WRITE", "EXECUTE", "GRANT"}
FileRights == {"READ", "WRITE"}

\* The capability for an opened node keeps its parent's rights, as far as they
\* apply to its type.
Derive(n, handle, parent_rights) ==
  IF IsDir(nodes, n) THEN Capability("Directory", handle, parent_rights \cap DirRights)
  ELSE Capability("File", handle, parent_rights \cap FileRights)

\* The capabilities of p for files and directories, and their handles.
FileCaps(p) == {i \in DOMAIN caps[p] : caps[p][i].kind \in FileKinds}

FileHandles(p) == {caps[p][i].handle : i \in FileCaps(p)}

-----------------------------------------------------------------------------
(* The registry.  Nothing destroys a registered mutex or semaphore.         *)

\* create_mutex and create_semaphore count their handles from 1.
NextHandle(registry) == Len(registry) + 1

\* try_lock().is_some(): the guard is dropped, and the mutex unlocked, at once.  A
\* guest that was told it has the lock excludes nobody.
TakeAndDrop(h) == ~mutexes[h] /\ mutexes' = [mutexes EXCEPT ![h] = FALSE]

\* Semaphore::try_acquire succeeded.
TakePermit(h) ==
  /\ semaphores' = [semaphores EXCEPT ![h].permits = @ - 1]
  /\ granted' = [granted EXCEPT ![h] = @ + 1]

\* Mutant: the maximum is not enforced.
GivePermitUncapped(h) ==
  /\ semaphores' = [semaphores EXCEPT ![h].permits = @ + 1]
  /\ granted' = [granted EXCEPT ![h] = IF @ > 0 THEN @ - 1 ELSE 0]

\* Semaphore::release: one more permit, up to the maximum.
GivePermit(h) ==
  /\ semaphores' = [semaphores EXCEPT ![h].permits = IF @ < semaphores[h].max THEN @ + 1 ELSE @]
  /\ granted' = [granted EXCEPT ![h] = IF @ > 0 THEN @ - 1 ELSE 0]

-----------------------------------------------------------------------------
(* The life of a process.                                                   *)

Init ==
  /\ FsInit
  /\ mode \in Modes
  /\ status = [p \in Procs |-> "unspawned"]
  /\ queued = {}
  /\ running = NoProc
  /\ invocation = [p \in Procs |-> NotSuspended]
  /\ fuel = 0
  /\ caps = [p \in Procs |-> <<>>]
  /\ next_index = 1
  /\ mutexes = <<>>
  /\ semaphores = <<>>
  /\ reply = OK
  /\ granted = <<>>
  /\ orphaned = {}

\* The invocation is over.  A process that its task owns, or that wasm-test made,
\* is dropped with its store; one that call_async borrowed can be called again.
\* Dropping the capabilities closes no file.
End(p) ==
  /\ running' = NoProc
  /\ fuel' = 0
  /\ invocation' = [invocation EXCEPT ![p] = NotSuspended]
  /\ reply' = OK
  /\ \/ /\ mode[p] = "call_async"
        /\ status' = [status EXCEPT ![p] = "idle"]
        /\ UNCHANGED capVars
     \/ /\ mode[p] # "call_async"
        /\ status' = [status EXCEPT ![p] = "dropped"]
        /\ caps' = [caps EXCEPT ![p] = <<>>]
        /\ orphaned' = orphaned \cup FileHandles(p)
        /\ UNCHANGED next_index

-----------------------------------------------------------------------------
(* Spawning and polling.                                                    *)

\* p is given to the executor, as a task of its own or as part of one.
spawn_task(p) ==
  /\ status' = [status EXCEPT ![p] = "live"]
  /\ queued' = queued \cup {p}

\* The kernel opens a directory and spawns p with a capability for it, as the
\* documentation of spawn_process_with_caps shows; p's future is then polled.
SpawnProcess(p, path, rights) ==
  LET n == Walk(nodes, Root, path) IN
    /\ running = NoProc
    /\ status[p] = "unspawned" /\ mode[p] # "call"
    /\ IsDir(nodes, n)
    /\ next_handle <= MaxOpens /\ next_index <= MaxCaps
    /\ OpenHandle(n)
    /\ caps' = [caps EXCEPT ![p] = [i \in {next_index} |-> Capability("Directory", next_handle, rights)]]
    /\ next_index' = next_index + 1
    /\ spawn_task(p)
    /\ UNCHANGED <<mode, running, invocation, fuel, orphaned, syncVars, reply>>

\* A borrowed process is called again.
CallAgain(p) ==
  /\ running = NoProc
  /\ status[p] = "idle"
  /\ spawn_task(p)
  /\ UNCHANGED <<mode, fsVars, running, invocation, fuel, capVars, syncVars, reply>>

\* The task a WasmCallFuture is part of is woken for another of its futures, and
\* polls this one too.
OuterWake(p) ==
  /\ running = NoProc
  /\ mode[p] = "call_async" /\ status[p] = "live" /\ p \notin queued
  /\ queued' = queued \cup {p}
  /\ UNCHANGED <<mode, fsVars, status, running, invocation, fuel, capVars, syncVars, reply>>

\* call_resumable enters the exported function.
Enter(p) ==
  /\ invocation[p] = NotSuspended
  /\ running' = p
  /\ fuel' = FUEL_PER_SLICE
  /\ UNCHANGED <<status, invocation, capVars, syncVars, reply>>

\* Mutant: resume is given a zero for the result of the call that trapped.
ResumeWithZero(p) ==
  /\ invocation[p] # NotSuspended
  /\ running' = p
  /\ fuel' = FUEL_PER_SLICE
  /\ invocation' = [invocation EXCEPT ![p] = NotSuspended]
  /\ granted' = [h \in DOMAIN granted |->
                   IF invocation[p].trap = "SemWait" /\ invocation[p].handle = h
                   THEN granted[h] + 1 ELSE granted[h]]
  /\ UNCHANGED <<status, capVars, mutexes, semaphores, reply>>

\* The invocation goes on behind a call that has no result ...
Resume(p) ==
  /\ ~invocation[p].result
  /\ running' = p
  /\ fuel' = FUEL_PER_SLICE
  /\ invocation' = [invocation EXCEPT ![p] = NotSuspended]
  /\ UNCHANGED <<status, capVars, syncVars, reply>>

\* ... and is an error for a call that has one, as is a missing export.
CannotContinue(p) ==
  /\ invocation[p].result
  /\ End(p)
  /\ UNCHANGED syncVars

\* WasmTask::poll and WasmCallFuture::poll.
Poll(p) ==
  /\ running = NoProc
  /\ p \in queued
  /\ queued' = queued \ {p}
  /\ Enter(p) \/ Resume(p) \/ CannotContinue(p)
  /\ UNCHANGED <<mode, fsVars>>

\* The wasm-test command: it opens, reads and closes the file, spawns a process
\* without capabilities, if the file is a module, and calls it.  A directory cannot
\* be read, and its handle stays open.
WasmTest(p, path) ==
  LET n == Walk(nodes, Root, path) IN
    /\ running = NoProc
    /\ mode[p] = "call" /\ status[p] = "unspawned"
    /\ n # NoNode
    /\ next_handle <= MaxOpens
    /\ \/ /\ IsDir(nodes, n)
          /\ OpenHandle(n)
          /\ UNCHANGED <<status, running>>
       \/ /\ ~IsDir(nodes, n)
          /\ next_handle' = next_handle + 1
          /\ open_handles' = [h \in DOMAIN open_handles \ {next_handle} |-> open_handles[h]]
          /\ \/ status' = [status EXCEPT ![p] = "live"] /\ running' = p
             \/ UNCHANGED <<status, running>>
          /\ UNCHANGED <<nodes, next_handle_at>>
    /\ UNCHANGED <<mode, fuel, queued, invocation, capVars, syncVars, reply>>

\* The kernel adds a file or creates a directory.
KernelAddFile(path, content) ==
  /\ running = NoProc
  /\ nodes' = AddFile(path, content)
  /\ Cardinality(DOMAIN nodes') <= MaxNodes
  /\ UNCHANGED <<mode, open_handles, next_handle, next_handle_at, taskVars, fuel, capVars, syncVars, reply>>

KernelMkdir(path) ==
  /\ running = NoProc
  /\ Cardinality(DOMAIN nodes) < MaxNodes
  /\ CanMake(0, path)
  /\ nodes' = MkdirAt(0, path)
  /\ UNCHANGED <<mode, open_handles, next_handle, next_handle_at, taskVars, fuel, capVars, syncVars, reply>>

Kernel ==
  \/ \E path \in Paths, content \in Contents : KernelAddFile(path, content)
  \/ \E path \in Paths : KernelMkdir(path)
  \/ \E p \in Procs :
       \/ SpawnProcess(p, Grants[p].path, Grants[p].rights)
       \/ \E path \in Paths : WasmTest(p, path)
       \/ CallAgain(p)
       \/ OuterWake(p)
       \/ Poll(p)
=============================================================================
