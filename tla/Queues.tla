------------------------------- MODULE Queues -------------------------------
(***************************************************************************)
(* The queues of std::sync side by side: the wait-free ring, the lock-free *)
(* string queue, alone or fed by a ticker, and the blocking channel.  They *)
(* share no state: a behaviour uses one of them, chosen at the start.      *)
(***************************************************************************)
EXTENDS SpscQueue

CONSTANTS Null, Empty,
          IndexMod, MaxMessages, Closers, Event,           \* LockFreeQueue, AsyncTicker
          Senders, Receivers, AllocFails, MaxSend          \* Channel

VARIABLES
  kind,          \* the queue in use
  qHead, qTail, qClosed, qHeadView, qClosedViewP, qTailView, qClosedViewC, qItems,
  qPpc, qMsgP, qCpc, qMsgC, qResult, qZeros, qCloser, qLive, qSent, qGot,
  ticking, running, started, freed, tpc, opc,
  chPc, chVal, chResult, chClosed, chCount, chHead, chTail, chItems, chLive, chSent, chGot

tvars == <<qHead, qTail, qClosed, qHeadView, qClosedViewP, qTailView, qClosedViewC,
           qItems, qPpc, qMsgP, qCpc, qMsgC, qResult, qZeros, qCloser, qLive, qSent, qGot,
           ticking, running, started, freed, tpc, opc>>
chvars == <<chPc, chVal, chResult, chClosed, chCount, chHead, chTail, chItems, chLive,
            chSent, chGot>>

T == INSTANCE AsyncTicker WITH
       MaxSend <- MaxMessages,
       head <- qHead, tail <- qTail, closed <- qClosed, headView <- qHeadView,
       closedViewP <- qClosedViewP, tailView <- qTailView, closedViewC <- qClosedViewC,
       items <- qItems, ppc <- qPpc, msgP <- qMsgP, cpc <- qCpc, msgC <- qMsgC,
       result <- qResult, zeros <- qZeros, closer <- qCloser, live <- qLive,
       sent <- qSent, got <- qGot

C == INSTANCE Channel WITH
       pc <- chPc, val <- chVal, result <- chResult, closed <- chClosed,
       count <- chCount, head <- chHead, tail <- chTail, items <- chItems,
       live <- chLive, sent <- chSent, got <- chGot

QInit ==
  /\ kind \in {"ring", "queue", "channel"}
  /\ Init /\ T!TInit /\ C!Init
  /\ kind # "queue" => ~ticking /\ qCloser = "any"

RingStep    == kind = "ring" /\ Next /\ UNCHANGED <<kind, tvars, chvars>>
QueueStep   == kind = "queue" /\ T!TNext /\ UNCHANGED <<kind, vars, chvars>>
ChannelStep == kind = "channel" /\ C!Next /\ UNCHANGED <<kind, vars, tvars>>
QNext == RingStep \/ QueueStep \/ ChannelStep

\* The fairness of SpscQueue, of AsyncTicker and of Channel.
QFairSpec ==
  /\ QInit /\ [][QNext]_<<kind, vars, tvars, chvars>>
  /\ WF_vars(kind = "ring" /\ PropagateTail) /\ WF_vars(kind = "ring" /\ PropagateHead)
  /\ WF_vars(kind = "ring" /\ PushCopy) /\ WF_vars(kind = "ring" /\ PushPublish)
  /\ WF_vars(kind = "ring" /\ PopCheck) /\ WF_vars(kind = "ring" /\ PopCopy)
  /\ WF_vars(kind = "ring" /\ PopPublish)
  /\ WF_tvars(ticking /\ T!TickerStep) /\ WF_tvars(ticking /\ T!Joined)
  /\ \A t \in Senders : WF_chvars(kind = "channel" /\ chPc[t] = "sendWoken" /\ C!Send(t))
  /\ \A t \in Receivers : WF_chvars(kind = "channel" /\ C!Recv(t))

-----------------------------------------------------------------------------
\* The properties of the other queues, each explained in its module.
\* A slot of the lock-free queue owns its message alone.
SlotOwnership == T!SlotOwnership
\* Its second 0 in a row is final.
SecondZeroIsFinal == T!SecondZeroIsFinal
\* After a ticker's stop there is no late event and no thread.
StopIsFinal == T!StopIsFinal
\* The lock-free queue implements the closable bounded FIFO.
QueueIsFifo == T!QueueIsFifo
\* No wakeup of the channel's conditions is lost.
NoLostWakeup == C!NoLostWakeup
\* A receiver told that the channel is closed and drained can rely on it.
ClosedMeansDrained == C!ClosedMeansDrained
\* The channel implements the closable bounded FIFO.
ChannelIsFifo == C!ChannelIsFifo
\* Nobody is blocked for ever: neither in the channel nor in a ticker's stop.
BlockedReturn == C!BlockedReturn /\ T!StopReturns
=============================================================================
