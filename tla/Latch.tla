------------------------------- MODULE Latch -------------------------------
(***************************************************************************)
(* Latch of std::sync (stdlib/src/std_sync.c, stdlib/std/sync.mla): a      *)
(* single-use counter that threads count down and wait to reach zero.      *)
(* See CondVar for how the monitor is modelled.                            *)
(***************************************************************************)
EXTENDS Integers, CondVar

CONSTANTS Threads,      \* the threads that use the latch
          Expected,     \* the initial count
          MaxUpdate     \* bound on the argument of count_down_by

LatchAssumption == Expected \in Nat /\ MaxUpdate \in Nat \ {0}

VARIABLES
  count,       \* the count
  pc,          \* where each thread is; "through" once a wait has returned
  arrived      \* ghost: the sum of the accepted updates

vars == <<count, pc, arrived>>

\* latch_new(expected).
Init == count = Expected /\ pc = [t \in Threads |-> "idle"] /\ arrived = 0

-----------------------------------------------------------------------------
\* Mutant: only one of the waiting threads is woken.
OpenedOne(newCount, newPc) ==
  IF newCount = 0
  THEN CHOOSE f \in Signal(newPc, "waiting", "woken") : TRUE
  ELSE newPc

\* Reaching zero wakes every waiting thread.
Opened(newCount, newPc) ==
  IF newCount = 0 THEN Broadcast(newPc, "waiting", "woken") ELSE newPc

\* count_down_by(update), and the first half of arrive_and_wait (update 1).
CountDown(t, update, next) ==
  /\ pc[t] = "idle"
  /\ update <= count
  /\ count' = count - update
  /\ arrived' = arrived + update
  /\ pc' = Opened(count', [pc EXCEPT ![t] = next])

\* An update that exceeds the count is refused as a whole; arrive_and_wait
\* then returns the error without waiting.
CountDownRefused(t, update) ==
  /\ pc[t] = "idle" /\ update > count
  /\ UNCHANGED vars

\* wait, try_wait: the latch is open.
Pass(t) ==
  /\ pc[t] \in {"idle", "arrived", "woken"}
  /\ count = 0
  /\ pc' = [pc EXCEPT ![t] = "through"]
  /\ UNCHANGED <<count, arrived>>

\* wait: the latch is closed.
Block(t) ==
  /\ pc[t] \in {"idle", "arrived", "woken"}
  /\ count > 0
  /\ pc' = [pc EXCEPT ![t] = "waiting"]
  /\ UNCHANGED <<count, arrived>>

SpuriousWakeup(t) ==
  /\ pc[t] = "waiting"
  /\ pc' = [pc EXCEPT ![t] = "woken"]
  /\ UNCHANGED <<count, arrived>>

Next ==
  \E t \in Threads :
    \/ \E u \in 1 .. MaxUpdate : CountDown(t, u, "idle") \/ CountDownRefused(t, u)
    \/ CountDown(t, 1, "arrived")
    \/ Pass(t) \/ Block(t) \/ SpuriousWakeup(t)

Spec == Init /\ [][Next]_vars

-----------------------------------------------------------------------------
\* A wait returns only after exactly Expected arrivals have been accepted,
\* however they were grouped and although every waiter is woken at random.
OpensAtExpected ==
  (\E t \in Threads : pc[t] = "through") => arrived = Expected

\* Nobody sleeps at an open latch: the one broadcast, made by whichever
\* thread takes the count to zero, reaches every waiter.
NoSleeperWhenOpen == (\E t \in Threads : pc[t] = "waiting") => count > 0

\* The latch opens for everybody, and for nobody too early.
OpensExactly == OpensAtExpected /\ NoSleeperWhenOpen
=============================================================================
