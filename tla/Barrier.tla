------------------------------ MODULE Barrier ------------------------------
(***************************************************************************)
(* Barrier of std::sync (stdlib/src/std_sync.c): a cyclic barrier whose    *)
(* participants arrive, get a phase token and wait for the phase of the    *)
(* token to end; a participant may also arrive and leave for good.         *)
(*                                                                         *)
(* A participant thread t stands for Weight[t] of the expected arrivals    *)
(* (arrive(update)), arrives once per phase and waits before it arrives    *)
(* again.  See CondVar for how the monitor is modelled.                    *)
(***************************************************************************)
EXTENDS Integers, Tally, CondVar

CONSTANTS Threads,     \* the participants
          Weight,      \* how many arrivals each of them makes at once
          PhaseMax     \* the largest phase number (INT64_MAX in the code)

BarrierAssumption ==
  /\ IsFiniteSet(Threads) /\ Threads # {}
  /\ Weight \in [Threads -> Nat \ {0}]
  /\ PhaseMax \in Nat

VARIABLES
  expected, remaining, phase,   \* the fields of the barrier
  pc,                           \* where each participant is
  token,                        \* the phase it arrived in
  arrivals, passed              \* ghosts: phases it arrived in, waits it finished

bvars == <<expected, remaining, phase>>
vars  == <<bvars, pc, token, arrivals, passed>>

\* barrier_new(expected).
Init ==
  /\ expected = Total(Weight) /\ remaining = Total(Weight) /\ phase = 0
  /\ pc = [t \in Threads |-> "idle"] /\ token = [t \in Threads |-> 0]
  /\ arrivals = [t \in Threads |-> 0] /\ passed = [t \in Threads |-> 0]

-----------------------------------------------------------------------------
\* barrier_advance_phase: the next phase begins and everybody is woken.
AdvancePhase(newExpected, newPc) ==
  /\ phase < PhaseMax
  /\ phase' = phase + 1
  /\ remaining' = newExpected
  /\ expected' = newExpected
  /\ pc' = Broadcast(newPc, "waiting", "woken")

\* arrive(update), accepted: the last arrival of a phase ends it.
Arrive(t) ==
  /\ pc[t] = "idle"
  /\ Weight[t] <= remaining
  /\ \/ /\ Weight[t] = remaining
        /\ AdvancePhase(expected, [pc EXCEPT ![t] = "arrived"])
     \/ /\ Weight[t] < remaining
        /\ remaining' = remaining - Weight[t]
        /\ pc' = [pc EXCEPT ![t] = "arrived"]
        /\ UNCHANGED <<expected, phase>>
  /\ token' = [token EXCEPT ![t] = phase]
  /\ arrivals' = [arrivals EXCEPT ![t] = @ + 1]
  /\ UNCHANGED passed

\* arrive(update), refused: too many arrivals, or no phase number is left.
Refused(t) ==
  \/ Weight[t] > remaining
  \/ Weight[t] = remaining /\ phase = PhaseMax

ArriveRefused(t) ==
  /\ pc[t] = "idle" /\ Refused(t)
  /\ UNCHANGED vars

\* Mutant: the participant leaves but is still expected.
ArriveAndDropStillExpected(t) ==
  /\ pc[t] = "idle" /\ Weight[t] = 1
  /\ expected > 0 /\ remaining > 0
  /\ \/ /\ remaining = 1
        /\ AdvancePhase(expected, [pc EXCEPT ![t] = "left"])
     \/ /\ remaining > 1
        /\ remaining' = remaining - 1
        /\ pc' = [pc EXCEPT ![t] = "left"]
        /\ UNCHANGED <<expected, phase>>
  /\ arrivals' = [arrivals EXCEPT ![t] = @ + 1]
  /\ UNCHANGED <<token, passed>>

\* arrive_and_drop.
ArriveAndDrop(t) ==
  /\ pc[t] = "idle" /\ Weight[t] = 1
  /\ expected > 0 /\ remaining > 0
  /\ \/ /\ remaining = 1
        /\ AdvancePhase(expected - 1, [pc EXCEPT ![t] = "left"])
     \/ /\ remaining > 1
        /\ remaining' = remaining - 1 /\ expected' = expected - 1
        /\ pc' = [pc EXCEPT ![t] = "left"]
        /\ UNCHANGED phase
  /\ arrivals' = [arrivals EXCEPT ![t] = @ + 1]
  /\ UNCHANGED <<token, passed>>

\* Mutant: a woken participant does not test the phase again.
WaitPassesNoRecheck(t) ==
  /\ \/ pc[t] = "arrived" /\ phase # token[t]
     \/ pc[t] = "woken"
  /\ pc' = [pc EXCEPT ![t] = "idle"]
  /\ passed' = [passed EXCEPT ![t] = @ + 1]
  /\ UNCHANGED <<bvars, token, arrivals>>

\* wait(token): the phase of the token is over.
WaitPasses(t) ==
  /\ pc[t] \in {"arrived", "woken"}
  /\ phase # token[t]
  /\ pc' = [pc EXCEPT ![t] = "idle"]
  /\ passed' = [passed EXCEPT ![t] = @ + 1]
  /\ UNCHANGED <<bvars, token, arrivals>>

WaitBlocks(t) ==
  /\ pc[t] \in {"arrived", "woken"}
  /\ phase = token[t]
  /\ pc' = [pc EXCEPT ![t] = "waiting"]
  /\ UNCHANGED <<bvars, token, arrivals, passed>>

SpuriousWakeup(t) ==
  /\ pc[t] = "waiting"
  /\ pc' = [pc EXCEPT ![t] = "woken"]
  /\ UNCHANGED <<bvars, token, arrivals, passed>>

Next ==
  \E t \in Threads :
    \/ Arrive(t) \/ ArriveRefused(t) \/ ArriveAndDrop(t)
    \/ WaitPasses(t) \/ WaitBlocks(t) \/ SpuriousWakeup(t)

Spec == Init /\ [][Next]_vars

\* Every participant goes on arriving, or leaves, and goes on waiting.
FairSpec ==
  /\ Spec
  /\ \A t \in Threads : /\ WF_vars(Arrive(t) \/ ArriveAndDrop(t))
                        /\ WF_vars(WaitPasses(t))

-----------------------------------------------------------------------------
\* Nobody gets past the barrier before everybody who has not left has
\* arrived as often.
NobodyAhead ==
  \A t, u \in Threads : pc[u] = "left" \/ passed[t] <= arrivals[u]

\* A participant that arrives once per phase is refused only when the phase
\* numbers are used up: dropped participants are accounted for exactly.
NeverRefused ==
  \A t \in Threads : pc[t] = "idle" /\ Refused(t) => phase = PhaseMax

\* The participants go through the phases together.
PhasesInStep == NobodyAhead /\ NeverRefused

\* A phase that can end ends: its waiters return.
WaitersReturn ==
  \A t \in Threads :
    (pc[t] = "waiting" /\ token[t] < PhaseMax) ~> (pc[t] = "idle")
=============================================================================
