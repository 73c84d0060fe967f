------------------------------ MODULE Monitors ------------------------------
(***************************************************************************)
(* The blocking objects of std::sync, std::concurrent and std::jthread     *)
(* side by side.  They share no state, so a behaviour uses one of them,    *)
(* chosen at the start, and the others stay as they were created: the      *)
(* reachable states are the union of theirs, not the product.              *)
(***************************************************************************)
EXTENDS JThread

CONSTANTS LatchThreads, Expected, MaxUpdate, \* Latch
          Initial, Maximum, MaxAcquire,      \* Semaphore
          Weight, PhaseMax,                  \* Barrier
          Workers, GroupSize, Coordinators,  \* Concurrent
          Writers, Waiters, NarrowMod, WordMod, MaxOps   \* AtomicWait

VARIABLES
  object,                                    \* the one in use
  lCount, lPc, lArrived,                     \* Latch
  sCount, sPc, sHeld, sGiven, sAcquires,     \* Semaphore
  bExpected, bRemaining, bPhase, bPc, bToken, bArrivals, bPassed,   \* Barrier
  gTurn, gCount, gWpc, gCpc, gLog,           \* Concurrent
  aValue, aPc, aObserved, aOperand, aOver, aOld, aOps, aUsers, aAbs \* AtomicWait

latch     == <<lCount, lPc, lArrived>>
semaphore == <<sCount, sPc, sHeld, sGiven, sAcquires>>
barrier   == <<bExpected, bRemaining, bPhase, bPc, bToken, bArrivals, bPassed>>
group     == <<gTurn, gCount, gWpc, gCpc, gLog>>
atomic    == <<aValue, aPc, aObserved, aOperand, aOver, aOld, aOps, aUsers, aAbs>>

L == INSTANCE Latch WITH Threads <- LatchThreads,
                         count <- lCount, pc <- lPc, arrived <- lArrived

S == INSTANCE Semaphore WITH count <- sCount, pc <- sPc, held <- sHeld,
                             given <- sGiven, acquires <- sAcquires

B == INSTANCE Barrier WITH expected <- bExpected, remaining <- bRemaining, phase <- bPhase,
                           pc <- bPc, token <- bToken, arrivals <- bArrivals, passed <- bPassed

G == INSTANCE Concurrent WITH Initial <- GroupSize, turn <- gTurn, count <- gCount,
                              wpc <- gWpc, cpc <- gCpc, log <- gLog

A == INSTANCE AtomicWait WITH
       value <- aValue, pc <- aPc, observed <- aObserved, operand <- aOperand,
       over <- aOver, old <- aOld, ops <- aOps, users <- aUsers, abs <- aAbs

Objects == {"latch", "barrier", "semaphore", "group", "atomic", "jthread"}

MInit ==
  /\ object \in Objects
  /\ L!Init /\ B!Init /\ S!Init /\ G!Init /\ JInit
  /\ A!Init /\ (object # "atomic" => aUsers = {})

InUse(name, step) == object = name /\ step /\ UNCHANGED object

LatchStep     == InUse("latch", L!Next) /\ UNCHANGED <<barrier, semaphore, group, atomic, jvars>>
BarrierStep   == InUse("barrier", B!Next) /\ UNCHANGED <<latch, semaphore, group, atomic, jvars>>
SemaphoreStep == InUse("semaphore", S!Next) /\ UNCHANGED <<latch, barrier, group, atomic, jvars>>
GroupStep     == InUse("group", G!Next) /\ UNCHANGED <<latch, barrier, semaphore, atomic, jvars>>
AtomicStep    == InUse("atomic", A!Next) /\ UNCHANGED <<latch, barrier, semaphore, group, jvars>>
JThreadStep   == InUse("jthread", JNext) /\ UNCHANGED <<latch, barrier, semaphore, group, atomic>>

MNext ==
  \/ LatchStep \/ BarrierStep \/ SemaphoreStep
  \/ GroupStep \/ AtomicStep \/ JThreadStep

\* The fairness of each module (see there), owed by the object in use.
Fairness ==
  /\ \A t \in Threads :
       /\ WF_barrier(object = "barrier" /\ (B!Arrive(t) \/ B!ArriveAndDrop(t)))
       /\ WF_barrier(object = "barrier" /\ B!WaitPasses(t))
  /\ \A n \in G!Turns : WF_group(object = "group" /\ G!WorkerStep(n))
  /\ \A c \in Coordinators : WF_group(object = "group" /\ G!WaitReturns(c))
  /\ \A t \in Writers :
       /\ WF_atomic(object = "atomic" /\ (A!AddCas(t) \/ A!AddRetry(t)))
       /\ WF_atomic(object = "atomic" /\ A!NotifyStep(t))
  /\ \A t \in Waiters : WF_atomic(object = "atomic" /\ A!TestAgain(t))
  /\ WF_jvars(object = "jthread" /\ OwnerProgress)
  /\ WF_jvars(object = "jthread" /\ WorkerProgress)
  /\ SF_jvars(object = "jthread" /\ OwnerAdvances)
  /\ SF_jvars(object = "jthread" /\ WorkerAdvances)

MFairSpec ==
  MInit /\ [][MNext]_<<object, latch, barrier, semaphore, group, atomic, jvars>> /\ Fairness

-----------------------------------------------------------------------------
\* The properties of the other objects, each explained in its module.
\* A latch opens after exactly the expected arrivals, and then for everybody.
OpensExactly == L!OpensExactly
\* Nobody gets past a barrier before everybody has arrived as often, and an
\* arrival is refused only when the phase numbers are used up.
PhasesInStep == B!PhasesInStep
\* Permits are conserved and nobody sleeps while one is free.
PermitsExact == S!PermitsExact
\* OrderedGate lets the workers through in order, WaitGroup::wait covers work
\* added while somebody waits.
GateAndGroup == G!GateAndGroup
\* No update and no wakeup of an atomic word is lost.
WordExact == A!WordExact
\* Nobody sleeps for ever: a barrier phase that can end ends, drop-outs
\* included; a thread waiting for an atomic to change returns when it has;
\* and a jthread's close() terminates.
SleepersReturn == B!WaitersReturn /\ A!Returns /\ CloseReturns
=============================================================================
