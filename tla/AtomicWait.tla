---------------------------- MODULE AtomicWait ----------------------------
(***************************************************************************)
(* The atomics of std::sync: AtomicU32 and AtomicI64 of                    *)
(* stdlib/src/std_sync.c with their wait and notify, and the narrow        *)
(* AtomicU16 / AtomicU8 of stdlib/std/sync.mla, which keep a small integer *)
(* in an AtomicU32 and build fetch_add and fetch_sub from a                *)
(* compare-exchange loop.                                                  *)
(*                                                                         *)
(* Writers change the value and notify afterwards, in two steps.  wait     *)
(* reads the value with the caller's memory order while it holds the       *)
(* mutex of the condition variable: the read may return what a writer has  *)
(* overwritten as long as that writer has not been through the mutex,      *)
(* which it locks to notify.                                               *)
(***************************************************************************)
EXTENDS Integers, FiniteSets, CondVar

CONSTANTS Writers, Waiters,   \* the threads
          NarrowMod,          \* the values are computed modulo this (2^16, 2^8)
          WordMod,            \* the storage is computed modulo this (2^32)
          MaxOps              \* bound on the operations of each writer

AtomicAssumption ==
  /\ NarrowMod \in Nat \ {0} /\ WordMod \in Nat /\ WordMod % NarrowMod = 0
  /\ WordMod > NarrowMod /\ MaxOps \in Nat
  /\ Writers \cap Waiters = {} /\ IsFiniteSet(Waiters)

Everyone == Writers \cup Waiters
Narrow  == 0 .. NarrowMod - 1
Word    == 0 .. WordMod - 1

VARIABLES
  value,      \* the word of storage
  pc,         \* where each thread is
  observed,   \* writer: the expected value of its compare-exchange loop
  operand,    \* writer: what it adds (fetch_sub adds the negation)
  over,       \* writer: the value it has overwritten
  old,        \* waiter: the value it waits to change
  ops,        \* operations each writer has begun
  users,      \* the waiters that use wait on this word
  abs         \* ghost: the integer the operations have been applied to

wvars == <<observed, operand, ops>>
vars  == <<value, pc, wvars, over, old, users, abs>>

\* notify_one is meant for words one thread waits on.
NotifyModes == IF Cardinality(users) <= 1 THEN {"one", "all"} ELSE {"all"}

Init ==
  /\ value = 0 /\ abs = 0
  /\ pc = [t \in Everyone |-> "idle"]
  /\ observed = [t \in Writers |-> 0] /\ operand = [t \in Writers |-> 0]
  /\ over = [t \in Writers |-> 0] /\ ops = [t \in Writers |-> 0]
  /\ old = [t \in Waiters |-> 0] /\ users \in SUBSET Waiters

-----------------------------------------------------------------------------
\* What a read under the mutex may return.
Readable == {value} \cup {over[w] : w \in {w \in Writers : pc[w] = "changed"}}

\* A successful write by t of the word v.
Write(t, v) ==
  /\ value' = v
  /\ over' = [over EXCEPT ![t] = value]
  /\ pc' = [pc EXCEPT ![t] = "changed"]

\* store, exchange, fetch_and, fetch_or, fetch_xor and a compare_exchange
\* that succeeds: one atomic operation on the word, whose operand and so
\* whose outcome is narrow.
Store(t, v) ==
  /\ pc[t] = "idle" /\ ops[t] < MaxOps
  /\ ops' = [ops EXCEPT ![t] = @ + 1]
  /\ Write(t, v)
  /\ abs' = v
  /\ UNCHANGED <<observed, operand, old, users>>

\* fetch_add / fetch_sub: the relaxed load before the loop may be stale.
AddLoad(t, d, seen) ==
  /\ pc[t] = "idle" /\ ops[t] < MaxOps
  /\ ops' = [ops EXCEPT ![t] = @ + 1]
  /\ seen \in Readable
  /\ observed' = [observed EXCEPT ![t] = seen]
  /\ operand' = [operand EXCEPT ![t] = d]
  /\ pc' = [pc EXCEPT ![t] = "loop"]
  /\ UNCHANGED <<value, over, old, users, abs>>

\* u16(u32(previous) + u32(value)): computed in the word, then cut.
Sum(previous, d) == ((previous + d) % WordMod) % NarrowMod

\* The compare-exchange of the loop succeeds.
AddCas(t) ==
  /\ pc[t] = "loop"
  /\ value = observed[t]
  /\ Write(t, Sum(observed[t] % NarrowMod, operand[t]))
  /\ abs' = (abs + operand[t]) % NarrowMod
  /\ observed' = [observed EXCEPT ![t] = 0] /\ operand' = [operand EXCEPT ![t] = 0]
  /\ UNCHANGED <<ops, old, users>>

\* It fails and reports the value it found.
AddRetry(t) ==
  /\ pc[t] = "loop"
  /\ value # observed[t]
  /\ observed' = [observed EXCEPT ![t] = value]
  /\ UNCHANGED <<value, pc, operand, over, old, ops, users, abs>>

\* Mutant: notify wakes one thread whatever was asked for.
WokenOne(mode, newPc) == Signal(newPc, "waiting", "woken")

Woken(mode, newPc) ==
  IF mode = "one" THEN Signal(newPc, "waiting", "woken")
                  ELSE {Broadcast(newPc, "waiting", "woken")}

\* notify_one / notify_all, under the mutex.
Notify(t, mode) ==
  /\ pc[t] = "changed"
  /\ \E f \in Woken(mode, [pc EXCEPT ![t] = "idle"]) : pc' = f
  /\ over' = [over EXCEPT ![t] = 0]
  /\ UNCHANGED <<value, wvars, old, users, abs>>

\* wait(old): the value read equals old, block.  A thread woken by a writer
\* reads at least what that writer stored.
WaitBlocks(t, v) ==
  /\ \/ pc[t] = "idle" /\ old' = [old EXCEPT ![t] = v]
     \/ pc[t] = "woken" /\ v = old[t] /\ UNCHANGED old
  /\ v \in Readable
  /\ pc' = [pc EXCEPT ![t] = "waiting"]
  /\ UNCHANGED <<value, wvars, over, users, abs>>

\* The value read differs from old, return.
WaitReturns(t) ==
  /\ pc[t] = "woken"
  /\ \E v \in Readable : v # old[t]
  /\ pc' = [pc EXCEPT ![t] = "idle"]
  /\ old' = [old EXCEPT ![t] = 0]
  /\ UNCHANGED <<value, wvars, over, users, abs>>

SpuriousWakeup(t) ==
  /\ pc[t] = "waiting"
  /\ pc' = [pc EXCEPT ![t] = "woken"]
  /\ UNCHANGED <<value, wvars, over, old, users, abs>>

Write1(t) ==
  \/ \E v \in Narrow : Store(t, v)
  \/ \E d \in -1 .. 1, seen \in Readable : AddLoad(t, d, seen)

NotifyStep(t) == \E m \in NotifyModes : Notify(t, m)

Next ==
  \/ \E t \in Writers :
       \/ Write1(t) \/ AddCas(t) \/ AddRetry(t)
       \/ NotifyStep(t)
  \/ \E t \in users :
       \/ \E v \in Narrow : WaitBlocks(t, v)
       \/ WaitReturns(t) \/ SpuriousWakeup(t)

Spec == Init /\ [][Next]_vars

\* A writer that has begun goes on to notify; a woken thread tests again.
TestAgain(t) == pc[t] = "woken" /\ (WaitReturns(t) \/ \E v \in Narrow : WaitBlocks(t, v))
FairSpec ==
  /\ Spec
  /\ \A t \in Writers : WF_vars(AddCas(t) \/ AddRetry(t)) /\ WF_vars(NotifyStep(t))
  /\ \A t \in Waiters : WF_vars(TestAgain(t))

-----------------------------------------------------------------------------
\* No update is lost: the whole word, which wait compares with the narrow
\* value it is given, is what the operations give when each is applied
\* atomically, modulo the narrow width.
Atomicity == value = abs

\* No lost wakeup: a thread sleeps on a value that is no longer there only
\* as long as some writer has still to notify.
NoLostWakeup ==
  (\E t \in Waiters : pc[t] = "waiting" /\ value # old[t])
    => \E w \in Writers : pc[w] = "changed"

\* The word is exact and nobody sleeps on a value it no longer has.
WordExact == Atomicity /\ NoLostWakeup

\* A sleeping thread whose value has changed returns, unless it changes back.
Returns ==
  \A t \in Waiters :
    (pc[t] = "waiting" /\ value # old[t]) ~> (pc[t] = "idle" \/ value = old[t])
=============================================================================
