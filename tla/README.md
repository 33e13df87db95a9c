# A TLA+ model of SovelmaOS

SovelmaOS is a small x86_64 kernel in Rust (`src/kernel`) with a cooperative
async executor, WASM processes that reach the kernel through capabilities, a RAM
filesystem, a network stack on smoltcp and a terminal. This directory models the
executor with its interrupts, the keyboard, the async synchronisation primitives,
WASM processes with their host functions and the RAM filesystem, the network
services and the network driver, and the shell. TLC model-checks it, and TLAPS
proves main invariants. Paths below are relative to the repository.

## Inventory

One CPU, no threads and no preemption: `kernel_main` spawns three tasks and calls
`Executor::run`, which never returns. Concurrency comes from interrupts, from the
interleaving of tasks at their awaits, and, for the types declared `Sync`, from
any further CPU. Nothing is persisted, so there is no crash recovery.

| component | state | operations | interacts with |
|---|---|---|---|
| executor (`task/executor.rs`, `task/mod.rs`) | registered tasks, four bounded run queues, waker cache | spawn, run, wake, yield, sleep | every task, every interrupt |
| interrupts (`arch/x86_64/interrupts.rs`) | interrupt flag, HLT | timer, keyboard, exceptions | executor, keyboard |
| keyboard (`task/keyboard.rs`) | scancode queue, AtomicWaker | add_scancode, poll_next, get_scancode | interrupt, executor, terminal |
| async mutex (`sync/mutex.rs`) | locked flag, waiter queue | try_lock, lock, drop of the guard | executor |
| semaphore (`sync/semaphore.rs`) | permits, waiter queue | try_acquire, acquire, release | executor |
| sync registry (`sync/registry.rs`) | handle maps | create, get, destroy | WASM host |
| WASM runtime and host (`wasm/`) | store, invocation, fuel, capabilities | poll, resume, `sp_*` functions | executor, RAM filesystem, registry |
| capabilities (`common/src/capability.rs`, `capability/mod.rs`) | table of id, object, rights | grant, revoke, look up | WASM host |
| RAM filesystem (`fs/`) | node tree, open handles, two counters | add_file, open, open_at, mkdir, read, size, close | WASM host, terminal |
| DHCP, DNS, stack (`net/`) | client state, address, route, servers, query slots | start, poll, renew, fallback; init, resolve, poll, cancel | network and terminal tasks |
| e1000 and loopback (`net/e1000.rs`, `net/device.rs`) | descriptor rings, packet queues | transmit, receive | network card, smoltcp |
| terminal (`terminal/`) | line, cursor, history | key handling, commands | keyboard, network, filesystem |
| boot, console, PCI, memory | registers, page tables | set up once; output | all |

The hard behaviours, each at its line, are the `hazards` of `PROJECT.json`: wakes
that race a poll or a halt, wakers that outlive what they were made for, bounded
queues that drop, a self-waking task that keeps a level busy, retry loops on
atomics, resumption after a host trap, handles and authority that outlive changes
of the file tree, leases that come and go around a timeout, descriptor rings at
their limit, and a line editor whose indices move independently.

## Modules

- `Executor`: the executor, its interrupts, and a polled task that may do whatever
  the contract of `Future::poll` allows. The variables carry the names of the
  struct's fields; `pc` and `level` are its position in `run_ready_tasks` and
  `sleep_if_idle`; `armed` counts the clones of a waker that event sources hold.
  `refused` and `late` are history. `enable_and_hlt` is `sti; hlt`, which takes no
  interrupt in between, hence one action.
- `TaskSched`: what a task may rely on, with sets for queues and no interrupts.
  `Executor!ImplementsSched` is the refinement: ready tasks are the live tasks with
  an id on some queue.
- `Keyboard`: extends `Executor`. Tasks now run code: `print_keypresses` over
  `ScancodeStream`, the terminal loop of `main.rs`, and loops that only yield (the
  network and DHCP tasks). The keyboard interrupt may come between any two
  operations on the queue and on the AtomicWaker. `ImplementsExecutor` shows that
  the composition is an instance of `Executor`.
- `Waiters`: what the two primitives share: tasks driven as `TaskSched` allows, the
  bounded waiter queue and the `registered` flag of a future.
- `AsyncMutex` (its state predicates and actions are prefixed `M` where `Semaphore`
  has the same), `Semaphore`: one action per atomic operation. `cpus` is how many
  tasks can be in the middle of a poll: 1 is the kernel as it is, 2 what `Sync`
  permits. `compare_exchange_weak` fails only on a different value, as on x86_64,
  the only target; memory orderings are those of the total order of the steps.
- `RamFs`: the node tree, shared by reference as its `Arc`s are (a replaced node
  lives on for its handles), the open handles and both handle counters. Operators,
  which the next two modules make part of their actions. `open` counts from 1 and
  `open_at` from 10000 (`AtBase`); `Apart` says that the first has not reached the
  second.
- `WasmProcess`: extends `RamFs`. Processes run by `spawn_task`, by a `call_async` that
  borrows them, or by the synchronous call of `wasm-test`; polls, fuel slices and
  resumption; capabilities and their rights; the registry's objects; the kernel
  adding files and directories. `running`, `invocation` and `fuel` are `WasmTask`'s;
  `granted` and `orphaned` are history.
- `WasmHost`: extends `WasmProcess` with the host: fuel charges, traps, `print`, which
  is free, and every `sp_*` function with its checks in the order of the code. One
  host call is one step, since nothing else runs during a poll.
- `WasmInv`: the inductive invariant of the two, and the kinds of steps a host call
  can be, for the proofs.
- `Network`: `DhcpClient`, `DnsResolver`, what they configure in `NetworkStack`, and
  the commands. A turn of each of the three tasks of `kernel_main` is a step,
  because none awaits under a lock, and they take turns. Of the clock only the time
  since the client's start matters (`elapsed`). A DNS handle can be copied and asked at
  any time: `handles` are those given out, `spent` those whose answer was given, and
  `misused` says that one was asked after that. A lookup of an empty slot panics in
  smoltcp, and the kernel then halts.
- `E1000`: both descriptor rings, with the card as a second actor of any speed.
  `NetDevice`, two bounded queues, is the loopback device of `net/device.rs` and the
  abstract device that `E1000!ImplementsDevice` refines to.
- `Shell`: the line editor and the history; its methods are functions of the
  terminal's state.
- `*_proofs`: theorems. `MC*` with the `.cfg` files: instances for TLC.

External, modelled from their use: crossbeam's `ArrayQueue` (atomic FIFO push and
pop), `AtomicWaker`, the HLT instruction; wasmi, which resumes a trapped call only
with as many values as the call has results; smoltcp's DHCP socket (it may grant,
change or lose a lease whenever the stack is polled, and `reset` drops the lease)
and DNS socket (a query takes the first free slot, or a new one; a lookup that has an
answer frees its slot, and of a free slot it panics); the network card, which owns
the descriptors from head to tail and sees head = tail as an empty ring.

## Runs

| run | shows |
|---|---|
| `executor` | with interrupts anywhere: no task is forgotten unless a full queue refused its wake; the CPU halts only when idle; ids stay on their own level; levels are drained in order; `TaskSched` is implemented |
| `executor_starvation` (violated) | a woken Critical task is not polled while a Normal task keeps waking itself: the pass never leaves the Normal level |
| `keyboard` | every accepted scancode is handed out once, in order, eventually, and wakes the stream's task |
| `keyboard_kernel` (violated) | with the kernel's own tasks the scancode queue is never created and no key press is handled |
| `mutex` | mutual exclusion on one and two CPUs; on one CPU a clean waiter queue and no stall |
| `mutex_lost_wake` (violated) | a woken waiter that loses the lock is not registered again and waits forever on a free lock |
| `semaphore` | permits are neither made nor lost by racing loops and keep their bound; on one CPU every free permit has a task on its way to it while wakers are queued |
| `wasm` | with two processes and the kernel changing files in between: capabilities are derived only from directories above and keep their object and rights; names are not taken away by mkdir; failed and trapped calls change nothing; permits are accounted for; every call with an effect or an answer uses up fuel; and until `open` has reached the handles of `open_at`, file capabilities are backed by open handles with one owner and stand for the same file as long as they are held |
| `wasm_yield` (violated) | a process that yielded is not resumed: `poll` returns Pending and nobody holds its waker |
| `network` | client, interface and DHCP socket agree; an address without a lease is given up after the timeout; the resolver is ready when servers are known; until a handle is asked again after its answer, queries and slots correspond and nothing panics; a lease is applied by a client that was started, however it meets the timeout |
| `e1000` | rings and registers agree; `NetDevice` is implemented: no frame is lost, doubled or reordered except a reply to a full ring; receiving never stops; sending stops only if the driver fills the whole ring, where the tail meets the head |
| `shell` | no key sequence indexes outside line or history; the history is a record of the lines that were entered, which are also the commands executed; looking back never loses the line being typed |

Bounds. `executor`: four tasks on two levels, queues of 2, two waker clones each;
with three Normal tasks both a spawn and a wake meet a full queue, and a task can
have two ids queued. `keyboard`: three tasks, three scancodes, a scancode queue of 2,
so that a key can be lost and the queue drained and refilled during one `poll_next`;
run queues of 5 as, in the kernel, they are larger than the ids the tasks can queue.
`mutex` and `semaphore`: four tasks against two waiter places, so that a third waiter
is dropped while another task holds the object; the semaphore starts with one permit
of at most two, and releases without an acquire start until one has added a permit. Tasks are
interchangeable there, which justifies the symmetry; the runs with temporal
properties have none.

`wasm`: two processes, in the modes the MC module lists, over a tree with one
subdirectory, few nodes, opens, capabilities and registered objects; a slice has fuel
for a few calls, so that every function runs out of fuel somewhere. Three opens are
possible and the first handle of `open_at` is 3, so that the last open may reuse a
handle; with `Apart` left out of them, both properties that have it as their condition
are violated. The bounds on creation can leave nothing to do, so the deadlock check is
off here, and only here; the reply to the last call is not part of the state's view.
`network`: two leases that differ in every field, one of them without a gateway and
servers, three host names, one of them refused, two DNS slots and ids up to 2, enough
for a slot to be used again while an older handle for it is around, a timeout of few
ticks. `e1000`: rings of 4 and 3 and two frames, enough to wrap, to fill and to tell
order apart. `shell`: lines of 2 characters and 3 history entries over two characters,
so that lines repeat and the history overflows.

Fairness. The CPU keeps executing the executor and the polled task (weak fairness):
polls are finite code and nothing preempts them. The timer keeps ticking. No key
press and no device event is assumed. In `mutex_lost_wake` a ready task is polled
(strong fairness: the run queue is FIFO and the tasks share a level) and a guard is
eventually dropped. In `wasm_yield` queued processes are polled and a running guest
gets on, since wasmi's fuel bounds what it computes. In `network` the executor keeps
running the three tasks, and nothing is assumed of servers. In `e1000` the card sends
what it owns and the poller asks for received frames each turn.

The violated properties quote the repository's own text; `findings` in
`PROJECT.json` has the lines. The starvation run has a Critical task, which
`Task::with_priority` offers and the kernel does not create yet.

What the models show beside the properties. The host drops the guard before
`sp_mutex_lock` returns, so that a guest's mutex excludes nobody and no guest ever
waits for one; the comment on the function says that it blocks if the lock is held
(`wasm/host.rs:599`), the SDK that it blocks until the lock is acquired
(`src/userspace/sdk/src/lib.rs:136`). The 10000th `open` hands out the first handle of
`open_at`; from then on what a capability reads can change under it, and the close of
one can take away the handle of another. `get_result` empties the slot of its handle
before it looks for the query: a handle asked again after its answer can take the
answer of the query that has the slot now, and the next lookup for that one panics.
Nothing in the kernel asks for results yet. `kernel_main` starts a DHCP client and
then gives its tasks a second, idle one, so in the kernel as it is no lease is ever
applied; `Network` starts from either, and `LeaseIsApplied` is about the first.
`renew` keeps the start time, so a renewal late after the start falls back to
link-local at once, until the answer comes. A lost lease leaves address, route and
servers in place until the fallback, which replaces only the address. The resolver
keeps the servers of the first lease. `cancel` does not free the slot. A host call
that traps and has a result ends its process at the next poll. Under `wasm-test` the
host's fuel is zero, so every `sp_*` call traps.

## Proofs

For every value of the constants that satisfies the named assumptions of the
modules (tasks, priorities, capacities, CPU counts, permits, limits, leases):

- `Executor_proofs`: `TypeCorrect`, `TasksAreNotLost`, `HaltsOnlyWhenIdle`,
  `WakersKeepPriority`, `LevelsAreDrainedInOrder` and `ExecutorRefinesSched`. The
  properties are not inductive alone. `IInv` adds that a waker that exists pushes to
  its task's own level, that a task is current exactly during a poll, that a poll
  which says it arranged a wake has one queued, armed or refused, and that between
  the check and the HLT interrupts are off and the queues empty. The refinement maps
  each action to a step of `TaskSched` or a stutter under `IInv`.
- `Keyboard_proofs`: `KeyboardRefinesExecutor`, so that the executor's invariant holds
  of the composition, and from it `KeyboardTypeCorrect`, `KeysWakeTheirReader` and
  `KeysAreDeliveredInOrder`, for any tasks, scancodes and queue sizes. The three
  are inductive together with `Executor_proofs!IInv`: a stream's wake-up is
  either still in the AtomicWaker or already on a run queue.
- `Sync_proofs`, of the mutex: `MutexTypeCorrect` and `MutexIsExclusive` for any number
  of CPUs; `MutexWaitersArePending` and `MutexDoesNotStall` from the one-CPU invariant,
  which adds that only the running task is inside a call.
- `Sync_proofs`, of the semaphore: `TypeCorrect` and `PermitsAreAccounted`. The invariant
  adds what the retry loops know: the value loaded before a compare_exchange is
  positive (acquire) or below the maximum (release), and who owns a permit at which
  point. `QueuedWaitersArePending` and `SemaphoreDoesNotStall` follow from a one-CPU
  invariant of its own: on one CPU what a retry loop loaded is still the count, so no
  compare_exchange fails and the slow path runs only without permits. Each step then
  changes the permits and the tasks on their way by the same amount, or adds tasks.
- `WasmProcess_proofs`, `WasmAuthority_proofs`: for any processes, trees, contents,
  fuel and number of objects. A host call does one of few things (`Kinds` in
  `WasmInv`): it ends the process, suspends it, prints, answers without an effect,
  opens or closes a file, makes a directory, or makes or uses a sync object.
  `WasmProcess_proofs` shows that each kind, each poll and each action of the kernel
  keeps the invariant; `WasmAuthority_proofs` shows that each `sp_*` function is of
  one kind, and has the theorems: `TypeCorrect`, `OneOwnerPerHandle`,
  `AuthorityIsDerived`, `CapabilitiesStayWhatTheyAre`, `NamesStay`,
  `FailedCallsDoNothing`, `CallsUseUpFuel` and `PermitsAreAccounted`.
  `OneOwnerPerHandle` and the part of `CapabilitiesStayWhatTheyAre` about nodes and
  contents are conditional on `Apart`. `IInv` adds to the properties what they rest
  on: that open handles were handed out by their counter, that as long as the counters
  are apart every open handle has one holder, is orphaned or is a directory
  `wasm-test` opened, that capability ids are below `next_index`, that nodes are
  numbered in order and every entry leads to one, that only live processes are queued,
  run or are suspended, and that no mutex stays locked. Where a path leads is a
  function on its positions, so that a lookup below a directory stays in every set
  closed under children.
- `Shell_proofs`: `ShellNeverPanics`, `ShellHistoryIsARecord` and `ShellKeepsTheLine`,
  for every character set and both limits. The invariant `Inv` adds that the lines of
  the history are lines, of legal length, and that the place in the history is one of
  its indices; each key's method is shown to keep it. For `ShellKeepsTheLine` the
  functions that repeat history_up and history_down are shown equal to explicit ones:
  after k steps up the line is the k-th latest, and the saved line is the one that was
  typed.
- `Network_proofs`: `ClientIsRight`, `StaleAddressesGo`, `ResolverIsReady` and
  `QueriesHaveSlots`, for any leases, timeout, hosts and bounds. `IInv` adds that a
  client without a socket has neither configuration nor address, and that an address
  without a configuration is that of a client that is discovering; that is what makes
  its timeout run. The queries have an invariant of their own, `QInv`, which holds as
  long as no handle was asked after its answer: each query is listed once, those
  listed are among the handles not yet spent, no two of these share an id or a slot,
  every slot is in use for its query's host, and ids are below `next_id`. A cancelled
  query is not listed and keeps its slot, which is why the handles are needed. The ids
  matter because `get_result` and `cancel` remove the first entry with the id they are
  given; `NetworkAssumption` stops before the u16 wraps, since a query still listed
  after 65536 others would share its id. That the loop of `poll` leaves the unfinished
  queries, each once, is shown by induction on its steps.
- `E1000_proofs`: `RingsAreInStep` and `DriverRefinesDevice`, for rings of any size
  from two. `IInv` says which descriptors are outstanding, not only how many: those
  without DD are the arc of the transmit ring from the card's head to `tx_cur`, those
  with DD the arc of the receive ring from `rx_cur` to the card's head, and the
  receive tail is the one before `rx_cur`. The queues of `NetDevice` are the frames
  along the arcs; a step at either end of an arc appends to its queue or takes the
  first frame off it.

The installed theorem of induction takes an operator as a parameter and cannot be used;
where a proof needs induction it uses that the natural numbers are well-founded, applied
to the set of numbers for which the claim holds.

Only model-checked, on passing runs: the liveness properties `AcceptedIsConsumed`,
`LeaseIsApplied`, `FramesAreSent` and `FramesAreReceived`, since liveness under fairness
is beyond the prover. Every other property of a passing run is a theorem.

## Not modelled

Boot, console, PCI, page tables and heap (sequential I/O), smoltcp and wasmi
themselves, exception handlers (they print and halt), `SemaphorePermit` beyond its
drop, output and wording of the terminal, the fuel of a guest's own instructions.
The host copies paths and data into buffers of the length the guest gives
(`wasm/host.rs:326`, `427`, `523`); lengths for which it cannot allocate one, and
panics, are left out.
Code without a caller: `CapabilityTable`, the destroy functions of the registry, the
socket wrappers, UDP and listening sockets. The MAC address and registers of the
e1000 that are written once; its descriptors are written without volatile accesses,
and the model takes them to reach the card before the tail register does.
