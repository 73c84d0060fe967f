------------------------------- MODULE Audio --------------------------------
(***************************************************************************)
(* Three mechanisms of the audio controller, the audition clip, the live   *)
(* notes and the worker pool, and the MIDI patchbay side by side.  They    *)
(* share no state, so a behaviour uses one of them, chosen at the start.   *)
(***************************************************************************)
EXTENDS AudioPreview

CONSTANTS
  Targets, NoTarget, QueueSize, MaxCalls, MaxPanics, PanicMidNote,   \* LiveNotes
  Workers, Render, Routings, MaxSources, MaxStages, GenMod, Limits,  \* AudioPool
  NInputs, NOutputs, Connections, PortQueue, IndexMod, FirstIndex, Waits,
  MaxEvents, MaxSends, MaxConfigs                                    \* MidiPatchbay

VARIABLES
  part,     \* the mechanism in use
  nTarget, nPanic, nLivePanic, nSeenPanic, nHeld, nQueue, nMidi, nBlock, nSounding,
  nDown, nCalls, nPanics,
  aCursor, aFinished, aGeneration, aStop, aWake, aJobSlot, aRoutes, aAlone, aPosts, aAt,
  aSeen, aMine, aJob, aStage, aBegan,
  mStarted, mActive, mConnections, mInq, mOutq, mControl, mCb, mEvents, mSends, mConfigs,
  mRoutes, mBlock, mSent, mPlayed, mHeard, mPolled

notes == <<nTarget, nPanic, nLivePanic, nSeenPanic, nHeld, nQueue, nMidi, nBlock,
           nSounding, nDown, nCalls, nPanics>>
pool  == <<aCursor, aFinished, aGeneration, aStop, aWake, aJobSlot, aRoutes, aAlone, aPosts,
           aAt, aSeen, aMine, aJob, aStage, aBegan>>
midi  == <<mStarted, mActive, mConnections, mInq, mOutq, mControl, mCb, mEvents, mSends,
           mConfigs, mRoutes, mBlock, mSent, mPlayed, mHeard, mPolled>>

N == INSTANCE LiveNotes WITH
       target <- nTarget, panic <- nPanic, livePanic <- nLivePanic,
       seenPanic <- nSeenPanic, held <- nHeld, queue <- nQueue, midi <- nMidi,
       block <- nBlock, sounding <- nSounding, down <- nDown, calls <- nCalls,
       panics <- nPanics

A == INSTANCE AudioPool WITH
       cursor <- aCursor, finished <- aFinished, generation <- aGeneration, stop <- aStop,
       wake <- aWake, jobSlot <- aJobSlot, routes <- aRoutes, alone <- aAlone,
       posts <- aPosts, at <- aAt, seen <- aSeen, mine <- aMine, job <- aJob,
       stage <- aStage, began <- aBegan

M == INSTANCE MidiPatchbay WITH
       QueueSize <- PortQueue,
       started <- mStarted, active <- mActive, connections <- mConnections, inq <- mInq,
       outq <- mOutq, control <- mControl, cb <- mCb, events <- mEvents, sends <- mSends,
       configs <- mConfigs, routes <- mRoutes, block <- mBlock, sent <- mSent,
       played <- mPlayed, heard <- mHeard, polled <- mPolled

AInit == /\ part \in {"pool", "preview", "notes", "patchbay"}
         /\ Init /\ N!Init /\ A!Init /\ M!Init

PreviewStep  == part = "preview" /\ Next /\ UNCHANGED <<part, notes, pool, midi>>
NotesStep    == part = "notes" /\ N!Next /\ UNCHANGED <<part, vars, pool, midi>>
PoolStep     == part = "pool" /\ A!Next /\ UNCHANGED <<part, vars, notes, midi>>
PatchbayStep == part = "patchbay" /\ M!Next /\ UNCHANGED <<part, vars, notes, pool>>
ANext == PreviewStep \/ NotesStep \/ PoolStep \/ PatchbayStep

\* The fairness of AudioPool.
AFairSpec ==
  /\ AInit /\ [][ANext]_<<part, vars, notes, pool, midi>>
  /\ \A t \in A!Threads :
       WF_pool(part = "pool" /\ A!Owed(t)) /\ SF_pool(part = "pool" /\ A!DrainClaim(t))

-----------------------------------------------------------------------------
\* The other properties, each stated and explained in its module.
\* A released key sounds nowhere.
NoHangingNote == N!NoHangingNote
\* A stage runs each source once, and those that share an insert in order.
StagesExact == A!StagesExact
\* A stage and the shutdown of the pool return.
PoolReturns == A!PoolReturns
\* The patchbay forwards each event once along each route; its queues lose nothing.
PatchbayExact == M!PatchbayExact
=============================================================================
