----------------------------- MODULE Semaphore -----------------------------
(***************************************************************************)
(* Semaphore (src/kernel/src/sync/semaphore.rs) and the tasks that use it, *)
(* at the granularity of its atomic operations: the loads and the          *)
(* compare_exchanges of the retry loops on `permits`, push and pop on      *)
(* `waiters`.  A task that was granted a permit releases it once; a task   *)
(* may also call release() without a permit, as the WASM host function     *)
(* sp_sem_release and the unit tests do.                                   *)
(***************************************************************************)
EXTENDS Waiters

CONSTANTS
  Initial,     \* permits at creation: new(Initial) or with_max(Initial, MaxPermits)
  MaxPermits,  \* max_permits
  MaxExtra     \* bound: a release() without a permit starts only below it

ASSUME SemaphoreAssumption ==
  /\ Initial \in Nat
  /\ MaxPermits \in Nat
  /\ Initial <= MaxPermits
  /\ MaxExtra \in Nat
  /\ IsFiniteSet(Tasks)

VARIABLES
  permits,  \* Semaphore.permits
  seen,     \* seen[t]: `current` of t's retry loop, 0 outside of it
  owns,     \* owns[t]: t was granted a permit it has not given back
  extra     \* history: permits that were added by tasks that owned none

vars == <<waitVars, permits, seen, owns, extra>>
semVars == <<permits, seen, owns, extra>>

Init ==
  /\ WInit
  /\ permits = Initial
  /\ seen = [t \in Tasks |-> 0]
  /\ owns = [t \in Tasks |-> FALSE]
  /\ extra = 0

-----------------------------------------------------------------------------
(* try_acquire, called by a task at "idle" ("try"), by the fast path and by *)
(* the double-check of SemaphoreAcquireFuture::poll.                        *)

Sites == {"try", "fast", "recheck"}

Cas(site) == CASE site = "try" -> "try_cas"
               [] site = "fast" -> "fast_cas"
               [] site = "recheck" -> "recheck_cas"

TryAcquire(t) ==
  /\ At(t, "idle")
  /\ Goto(t, "try")
  /\ UNCHANGED <<schedVars, waiters, registered, semVars>>

\* The load of the retry loop finds permits.
LoadSome(t, site) ==
  /\ At(t, site)
  /\ permits > 0
  /\ seen' = [seen EXCEPT ![t] = permits]
  /\ Goto(t, Cas(site))
  /\ UNCHANGED <<schedVars, waiters, registered, permits, owns, extra>>

\* The load reads 0: try_acquire returns false to its caller.
LoadNone(t, site) ==
  /\ At(t, site)
  /\ permits = 0
  /\ \/ site = "try" /\ Goto(t, "idle") /\ UNCHANGED <<schedVars, waiters, registered>>
     \/ site = "fast" /\ Goto(t, "register") /\ UNCHANGED <<schedVars, waiters, registered>>
     \/ site = "recheck" /\ Suspend(t)
  /\ UNCHANGED semVars

\* Mutant: a plain store of the decremented count.
AcquireStore(t, site) ==
  /\ At(t, Cas(site))
  /\ permits' = seen[t] - 1
  /\ owns' = [owns EXCEPT ![t] = TRUE]
  /\ seen' = [seen EXCEPT ![t] = 0]
  /\ Goto(t, "hold")
  /\ UNCHANGED <<schedVars, waiters, registered, extra>>

\* The compare_exchange succeeds if permits is still what was loaded ...
AcquireCas(t, site) ==
  /\ At(t, Cas(site))
  /\ permits = seen[t]
  /\ permits' = seen[t] - 1
  /\ owns' = [owns EXCEPT ![t] = TRUE]
  /\ seen' = [seen EXCEPT ![t] = 0]
  /\ Goto(t, "hold")
  /\ UNCHANGED <<schedVars, waiters, registered, extra>>

\* ... and otherwise the loop starts again.
AcquireRetry(t, site) ==
  /\ At(t, Cas(site))
  /\ permits # seen[t]
  /\ seen' = [seen EXCEPT ![t] = 0]
  /\ Goto(t, site)
  /\ UNCHANGED <<schedVars, waiters, registered, permits, owns, extra>>

-----------------------------------------------------------------------------
(* release.                                                                 *)

ReleaseOwned(t) ==
  /\ At(t, "hold")
  /\ Goto(t, "release")
  /\ UNCHANGED <<schedVars, waiters, registered, semVars>>

ReleaseUnowned(t) ==
  /\ At(t, "idle")
  /\ extra < MaxExtra
  /\ Goto(t, "release")
  /\ UNCHANGED <<schedVars, waiters, registered, semVars>>

\* The load finds permits at the maximum: nothing is added.
ReleaseSaturated(t) ==
  /\ At(t, "release")
  /\ permits >= MaxPermits
  /\ owns' = [owns EXCEPT ![t] = FALSE]
  /\ Goto(t, "wake")
  /\ UNCHANGED <<schedVars, waiters, registered, permits, seen, extra>>

\* Mutant: the maximum is not looked at.
ReleaseLoadUnbounded(t) ==
  /\ At(t, "release")
  /\ seen' = [seen EXCEPT ![t] = permits]
  /\ Goto(t, "release_cas")
  /\ UNCHANGED <<schedVars, waiters, registered, permits, owns, extra>>

ReleaseLoad(t) ==
  /\ At(t, "release")
  /\ permits < MaxPermits
  /\ seen' = [seen EXCEPT ![t] = permits]
  /\ Goto(t, "release_cas")
  /\ UNCHANGED <<schedVars, waiters, registered, permits, owns, extra>>

\* Mutant: nobody is woken after the increment.
ReleaseCasSilently(t) ==
  /\ At(t, "release_cas")
  /\ permits = seen[t]
  /\ permits' = seen[t] + 1
  /\ owns' = [owns EXCEPT ![t] = FALSE]
  /\ extra' = IF owns[t] THEN extra ELSE extra + 1
  /\ seen' = [seen EXCEPT ![t] = 0]
  /\ Goto(t, "idle")
  /\ UNCHANGED <<schedVars, waiters, registered>>

ReleaseCas(t) ==
  /\ At(t, "release_cas")
  /\ permits = seen[t]
  /\ permits' = seen[t] + 1
  /\ owns' = [owns EXCEPT ![t] = FALSE]
  /\ extra' = IF owns[t] THEN extra ELSE extra + 1
  /\ seen' = [seen EXCEPT ![t] = 0]
  /\ Goto(t, "wake")
  /\ UNCHANGED <<schedVars, waiters, registered>>

ReleaseRetry(t) ==
  /\ At(t, "release_cas")
  /\ permits # seen[t]
  /\ seen' = [seen EXCEPT ![t] = 0]
  /\ Goto(t, "release")
  /\ UNCHANGED <<schedVars, waiters, registered, permits, owns, extra>>

-----------------------------------------------------------------------------
Acquiring(t) ==
  \E site \in Sites :
    LoadSome(t, site) \/ LoadNone(t, site) \/ AcquireCas(t, site) \/ AcquireRetry(t, site)

Releasing(t) == ReleaseSaturated(t) \/ ReleaseLoad(t) \/ ReleaseCas(t) \/ ReleaseRetry(t)

Step(t) ==
  \/ Poll(t) /\ UNCHANGED semVars
  \/ Yield(t) /\ UNCHANGED semVars
  \/ NewFuture(t) /\ UNCHANGED semVars
  \/ Register(t) /\ UNCHANGED semVars
  \/ WakeNext(t) /\ UNCHANGED semVars
  \/ TryAcquire(t)
  \/ Acquiring(t)
  \/ ReleaseOwned(t)
  \/ ReleaseUnowned(t)
  \/ Releasing(t)

Next == \E t \in Tasks : Step(t)

Spec == Init /\ [][Next]_vars
-----------------------------------------------------------------------------
(* Properties.                                                              *)

Points == {"idle", "try", "try_cas", "fast", "fast_cas", "register", "recheck",
           "recheck_cas", "wait", "hold", "release", "release_cas", "wake"}

\* Every variable has its type: the permit count, an unsigned integer, never
\* goes below zero and "will not exceed the maximum".
TypeOK ==
  /\ WTypeOK(Points)
  /\ permits \in 0..MaxPermits
  /\ seen \in [Tasks -> 0..MaxPermits]
  /\ owns \in [Tasks -> BOOLEAN]
  /\ extra \in Nat

Owners == {t \in Tasks : owns[t]}

\* No permit is created or lost by racing retry loops: the free permits and the
\* granted ones never exceed the initial ones plus those added by tasks that
\* owned none; and as long as nobody releases what it does not own, they are
\* exactly the initial ones, so at most that many tasks are inside.
PermitsAccounted ==
  /\ permits + Cardinality(Owners) <= Initial + extra
  /\ extra = 0 => permits + Cardinality(Owners) = Initial

\* With one CPU the waiter queue holds only wakers of tasks that are pending in
\* acquire(), each once.
WaitersArePending ==
  cpus = 1 =>
    /\ NoDuplicateWaiter
    /\ \A i \in 1..Len(waiters) : pc[waiters[i]] \in {"recheck", "wait"}

\* With one CPU, while wakers are queued, every free permit has a task on its
\* way to it: one that is about to wake a waiter, that is inside acquire(), or
\* that has been woken for it.
OnItsWay(t) ==
  \/ pc[t] = "wake"
  \/ t \in running /\ pc[t] \in {"fast", "fast_cas", "try_cas"}
  \/ t \in ready /\ pc[t] = "wait"

NoStall ==
  (cpus = 1 /\ waiters # <<>>) =>
    permits <= Cardinality({t \in Tasks : OnItsWay(t)})
=============================================================================
