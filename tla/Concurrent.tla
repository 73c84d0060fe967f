----------------------------- MODULE Concurrent -----------------------------
(***************************************************************************)
(* WaitGroup and OrderedGate of std::concurrent                            *)
(* (stdlib/std/concurrent.mla), used together as their documentation       *)
(* shows: worker number n waits for turn n of the gate, does its work,     *)
(* releases the next turn and reports done() to the wait group, for which  *)
(* coordinators wait.  The first Initial workers are counted when the      *)
(* group is made; each later worker is added by the one before it.         *)
(* Each primitive is a monitor of its own; see CondVar.                    *)
(***************************************************************************)
EXTENDS Integers, Sequences, CondVar

CONSTANTS Workers,        \* number of workers, and of turns
          Initial,        \* how many of them the group starts with
          Coordinators    \* the threads that wait for the group

ConcurrentAssumption == Workers \in Nat \ {0} /\ Initial \in 1 .. Workers

Turns == 0 .. Workers - 1

VARIABLES
  turn,      \* of the gate
  count,     \* of the wait group
  wpc,       \* where each worker is
  cpc,       \* where each coordinator is
  log        \* ghost: the workers in the order they did their work

vars == <<turn, count, wpc, cpc, log>>

\* OrderedGate::new(0) and WaitGroup::new(Initial).
Init ==
  /\ turn = 0 /\ count = Initial
  /\ wpc = [n \in Turns |-> IF n < Initial THEN "start" ELSE "unborn"]
  /\ cpc = [c \in Coordinators |-> "start"]
  /\ log = << >>

-----------------------------------------------------------------------------
\* wait_for(n): the turn is active.
WaitForPasses(n) ==
  /\ wpc[n] \in {"start", "woken"}
  /\ turn = n
  /\ wpc' = [wpc EXCEPT ![n] = "working"]
  /\ UNCHANGED <<turn, count, cpc, log>>

WaitForBlocks(n) ==
  /\ wpc[n] \in {"start", "woken"}
  /\ turn # n
  /\ wpc' = [wpc EXCEPT ![n] = "waiting"]
  /\ UNCHANGED <<turn, count, cpc, log>>

Work(n) ==
  /\ wpc[n] = "working"
  /\ log' = Append(log, n)
  /\ wpc' = [wpc EXCEPT ![n] = "worked"]
  /\ UNCHANGED <<turn, count, cpc>>

NotifyTurn(newWpc) == Broadcast(newWpc, "waiting", "woken")

\* advance(), or set(turn + 1), which the active worker may call instead.
Advance(n) ==
  /\ wpc[n] = "worked"
  /\ turn' = turn + 1
  /\ wpc' = NotifyTurn([wpc EXCEPT ![n] = "advanced"])
  /\ UNCHANGED <<count, cpc, log>>

\* The waiters of the group are woken when the count becomes zero.
NotifyDone(next, newCpc) ==
  IF next = 0 THEN Broadcast(newCpc, "waiting", "woken") ELSE newCpc

\* add(delta), accepted.
Add(delta) ==
  /\ count + delta >= 0
  /\ count' = count + delta
  /\ cpc' = NotifyDone(count + delta, cpc)

\* The worker before an uncounted one adds it before it is done itself.
AddWorker(n) ==
  /\ n + 1 \in Turns /\ wpc[n + 1] = "unborn"
  /\ wpc[n] = "advanced"
  /\ Add(1)
  /\ wpc' = [wpc EXCEPT ![n + 1] = "start"]
  /\ UNCHANGED <<turn, log>>

\* done(), which is add(-1).
Done(n) ==
  /\ wpc[n] = "advanced"
  /\ n + 1 \in Turns => wpc[n + 1] # "unborn"
  /\ Add(-1)
  /\ wpc' = [wpc EXCEPT ![n] = "done"]
  /\ UNCHANGED <<turn, log>>

\* One done() too many is refused.
DoneRefused(n) ==
  /\ wpc[n] = "done" /\ count - 1 < 0
  /\ UNCHANGED vars

\* Mutant: `if' instead of `while' around the wait.
WaitReturnsNoRecheck(c) ==
  /\ (cpc[c] = "start" /\ count = 0) \/ cpc[c] = "woken"
  /\ cpc' = [cpc EXCEPT ![c] = "returned"]
  /\ UNCHANGED <<turn, count, wpc, log>>

\* wait(): nothing is left to wait for.
WaitReturns(c) ==
  /\ cpc[c] \in {"start", "woken"}
  /\ count = 0
  /\ cpc' = [cpc EXCEPT ![c] = "returned"]
  /\ UNCHANGED <<turn, count, wpc, log>>

WaitBlocks(c) ==
  /\ cpc[c] \in {"start", "woken"}
  /\ count > 0
  /\ cpc' = [cpc EXCEPT ![c] = "waiting"]
  /\ UNCHANGED <<turn, count, wpc, log>>

SpuriousWakeup ==
  \/ /\ \E n \in Turns : wpc[n] = "waiting" /\ wpc' = [wpc EXCEPT ![n] = "woken"]
     /\ UNCHANGED <<turn, count, cpc, log>>
  \/ /\ \E c \in Coordinators : cpc[c] = "waiting" /\ cpc' = [cpc EXCEPT ![c] = "woken"]
     /\ UNCHANGED <<turn, count, wpc, log>>

WorkerStep(n) ==
  \/ WaitForPasses(n) \/ Work(n) \/ Advance(n) \/ AddWorker(n) \/ Done(n)

Next ==
  \/ \E n \in Turns : WorkerStep(n) \/ WaitForBlocks(n) \/ DoneRefused(n)
  \/ \E c \in Coordinators : WaitReturns(c) \/ WaitBlocks(c)
  \/ SpuriousWakeup

Spec == Init /\ [][Next]_vars

\* A thread that can go on does; a woken thread gets the mutex.
FairSpec ==
  /\ Spec
  /\ \A n \in Turns : WF_vars(WorkerStep(n))
  /\ \A c \in Coordinators : WF_vars(WaitReturns(c))

-----------------------------------------------------------------------------
\* The work is done in the order of the turns, one worker at a time, in
\* whatever order the threads start and are woken.
TurnsInOrder ==
  /\ \A i \in 1 .. Len(log) : log[i] = i - 1
  /\ \A n, m \in Turns : wpc[n] = "working" /\ wpc[m] = "working" => n = m

\* wait() returns only when every worker is done, those added later too.
WaitCoversAll ==
  (\E c \in Coordinators : cpc[c] = "returned") => \A n \in Turns : wpc[n] = "done"

\* The gate keeps the order and the group waits for all, as one guarantee for
\* code that hands out turns and waits for the batch.
GateAndGroup == TurnsInOrder /\ WaitCoversAll

\* Everybody gets a turn and every coordinator returns.
AllReturn ==
  <>[](/\ \A n \in Turns : wpc[n] = "done"
       /\ \A c \in Coordinators : cpc[c] = "returned")
=============================================================================
