----------------------------- MODULE Semaphore -----------------------------
(***************************************************************************)
(* CountingSemaphore of std::sync (stdlib/src/std_sync.c): permits that    *)
(* threads acquire, waiting while there are none, and release, one or      *)
(* several at a time.  Any thread may release, also permits it does not    *)
(* hold.  See CondVar for how the monitor is modelled.                     *)
(***************************************************************************)
EXTENDS Integers, Tally, CondVar

CONSTANTS Threads,      \* the threads that acquire and release
          Initial,      \* permits at the start
          Maximum,      \* the most permits the semaphore may hold
          MaxAcquire    \* bound on the acquires of each thread

SemaphoreAssumption ==
  /\ IsFiniteSet(Threads) /\ MaxAcquire \in Nat
  /\ Maximum \in Nat \ {0} /\ Initial \in 0 .. Maximum

VARIABLES
  count,      \* free permits
  pc,         \* where each thread is
  held,       \* ghost: permits each thread has acquired and not given back
  given,      \* ghost: permits released without having been acquired
  acquires    \* acquires each thread has begun

vars == <<count, pc, held, given, acquires>>

\* semaphore_new(initial, maximum).
Init ==
  /\ count = Initial /\ given = 0
  /\ pc = [t \in Threads |-> "idle"]
  /\ held = [t \in Threads |-> 0] /\ acquires = [t \in Threads |-> 0]

-----------------------------------------------------------------------------
Begin(t) ==
  /\ pc[t] = "idle" /\ acquires[t] < MaxAcquire
  /\ acquires' = [acquires EXCEPT ![t] = @ + 1]

Again(t) == pc[t] = "woken" /\ UNCHANGED acquires

\* acquire and try_acquire: a permit is free.
Acquire(t) ==
  /\ Begin(t) \/ Again(t)
  /\ count > 0
  /\ count' = count - 1
  /\ held' = [held EXCEPT ![t] = @ + 1]
  /\ pc' = [pc EXCEPT ![t] = "idle"]
  /\ UNCHANGED given

\* acquire: no permit is free.  A thread that already holds a permit is
\* assumed to use try_acquire, which returns false here: holding while
\* waiting is a deadlock of the caller's making.
AcquireBlocks(t) ==
  /\ Begin(t) \/ Again(t)
  /\ count = 0 /\ held[t] = 0
  /\ pc' = [pc EXCEPT ![t] = "waiting"]
  /\ UNCHANGED <<count, held, given>>

Fits(update) == update <= Maximum - count

\* Mutant: one waiter is woken however many permits are released.
WakeOne(newPc) == CHOOSE f \in Signal(newPc, "waiting", "woken") : TRUE

Wake(newPc) == Broadcast(newPc, "waiting", "woken")

\* release_by(update) of permits the thread holds.
Release(t, update) ==
  /\ pc[t] = "idle" /\ held[t] >= update
  /\ Fits(update)
  /\ count' = count + update
  /\ held' = [held EXCEPT ![t] = @ - update]
  /\ pc' = Wake(pc)
  /\ UNCHANGED <<given, acquires>>

\* release_by(update) of permits nobody has acquired, at most Maximum in all.
Give(t, update) ==
  /\ pc[t] = "idle" /\ held[t] = 0
  /\ Fits(update) /\ given + update <= Maximum
  /\ count' = count + update
  /\ given' = given + update
  /\ pc' = Wake(pc)
  /\ UNCHANGED <<held, acquires>>

ReleaseRefused(t, update) ==
  /\ pc[t] = "idle" /\ ~Fits(update)
  /\ UNCHANGED vars

SpuriousWakeup(t) ==
  /\ pc[t] = "waiting"
  /\ pc' = [pc EXCEPT ![t] = "woken"]
  /\ UNCHANGED <<count, held, given, acquires>>

Next ==
  \E t \in Threads :
    \/ Acquire(t) \/ AcquireBlocks(t) \/ SpuriousWakeup(t)
    \/ \E u \in 1 .. Maximum : Release(t, u) \/ Give(t, u) \/ ReleaseRefused(t, u)

Spec == Init /\ [][Next]_vars

-----------------------------------------------------------------------------
\* No permit is lost and none is invented, whatever the order in which woken
\* threads and newcomers take them.
Conserved ==
  count + Total(held) = Initial + given

\* Nobody sleeps while a permit is free: a release of several permits wakes
\* enough threads.
NoSleeperWithPermit == (\E t \in Threads : pc[t] = "waiting") => count = 0

\* Every permit is held, free for nobody but newcomers, or accounted for.
PermitsExact == Conserved /\ NoSleeperWithPermit
=============================================================================
