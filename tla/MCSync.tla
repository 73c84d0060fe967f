------------------------------- MODULE MCSync -------------------------------
(* Monitors for TLC.                                                       *)
EXTENDS Monitors

CONSTANTS t1, t2, t3, t4    \* threads

\* Two single participants and one that arrives for two.
MCWeight == [t \in {t1, t2, t3} |-> IF t = t3 THEN 2 ELSE 1]

ASSUME
  /\ L!LatchAssumption /\ B!BarrierAssumption /\ S!SemaphoreAssumption
  /\ G!ConcurrentAssumption /\ A!AtomicAssumption
  /\ StopAssumption /\ JThreadAssumption
=============================================================================
