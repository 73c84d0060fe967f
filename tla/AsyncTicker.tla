---------------------------- MODULE AsyncTicker ----------------------------
(***************************************************************************)
(* AsyncTicker and EventLoop (stdlib/src/std_time.c, timer.mla,            *)
(* event_loop.mla): a thread that posts an event to a LockFreeQueue every  *)
(* interval until its owner stops it.  The ticker's thread is the          *)
(* producer of the queue, its owner the consumer, who polls the queue in   *)
(* its main loop, stops and closes the ticker and then closes and frees    *)
(* the queue.  A queue may also be used by a program of its own, as        *)
(* LockFreeQueue has it.                                                   *)
(***************************************************************************)
EXTENDS LockFreeQueue

CONSTANT Event            \* event_name, a member of Values

TickerAssumption == Event \in Values

VARIABLES
  ticking,     \* whether the queue belongs to a ticker
  running,     \* t->running
  started,     \* t->started
  freed,       \* the ticker has been freed
  tpc,         \* the thread: unborn, loop, asleep, sending, exited
  opc          \* the owner: new, polling, stopping, freeing, stopped, closed

ticker == <<ticking, running, started, freed, tpc, opc>>
tvars  == <<vars, ticker>>

TInit ==
  /\ Init
  /\ ticking \in BOOLEAN /\ (ticking => closer = "any")
  /\ running = FALSE /\ started = FALSE /\ freed = FALSE
  /\ tpc = "unborn" /\ opc = "new"

-----------------------------------------------------------------------------
\* async_ticker_new; pthread_create may fail, then nothing is left behind.
Start ==
  /\ opc = "new" /\ cpc = "idle" /\ live
  /\ running' = TRUE /\ started' = TRUE
  /\ tpc' = "loop" /\ opc' = "polling"
  /\ UNCHANGED <<vars, ticking, freed>>

StartFails == opc = "new" /\ cpc = "idle" /\ UNCHANGED tvars

\* ticker_thread_main: while(running), before the sleep.
TickLoop ==
  /\ tpc = "loop"
  /\ tpc' = IF running THEN "asleep" ELSE "exited"
  /\ UNCHANGED <<vars, ticking, running, started, freed, opc>>

\* The test after the sleep, then the call of lfqueue_send.
TickWake ==
  /\ tpc = "asleep"
  /\ tpc' = IF running THEN "sending" ELSE "exited"
  /\ UNCHANGED <<vars, ticking, running, started, freed, opc>>

\* The result of the send is ignored.
TickRefused ==
  /\ tpc = "sending" /\ SendRefused
  /\ tpc' = "loop"
  /\ UNCHANGED <<ticking, running, started, freed, opc>>

TickSend ==
  /\ tpc = "sending"
  /\ SendBegin(Event) \/ SendStore \/ SendPublish
  /\ tpc' = IF ppc = "publish" THEN "loop" ELSE "sending"
  /\ UNCHANGED <<ticking, running, started, freed, opc>>

-----------------------------------------------------------------------------
\* async_ticker_stop, and the beginning of async_ticker_free, which calls it
\* also for a ticker that was stopped before.
Stop(then) ==
  /\ opc \in {"polling", "stopped"} /\ cpc = "idle"
  /\ running' = FALSE
  /\ opc' = then
  /\ UNCHANGED <<vars, ticking, started, freed, tpc>>

\* stop has joined: what the thread stored is visible from here on; free
\* frees the ticker.  `result' is cleared: it is what a try_recv after the
\* join returned.
StopFinishes ==
  /\ started' = FALSE
  /\ freed' = (opc = "freeing")
  /\ opc' = IF opc = "freeing" THEN "closed" ELSE "stopped"
  /\ tailView' = tail /\ result' = "none"
  /\ UNCHANGED <<pvars, head, cpc, msgC, zeros, got, headView, closedViewP, closedViewC,
                 closed, items, live, closer, ticking, running, tpc>>

\* Mutant: the thread is not joined, only told to stop.
JoinedDetached ==
  /\ opc \in {"stopping", "freeing"}
  /\ StopFinishes

\* A started thread is joined, once.
Joined ==
  /\ opc \in {"stopping", "freeing"}
  /\ started => tpc = "exited"
  /\ StopFinishes

\* The owner polls whenever it is not inside stop or close.
Poll ==
  /\ opc \in {"polling", "stopped", "closed"}
  /\ RecvLoad \/ RecvEmpty \/ RecvTake \/ RecvPublish
  /\ UNCHANGED ticker

\* Once the ticker is closed the owner closes and frees the queue.
DropQueue ==
  /\ opc = "closed" /\ cpc = "idle"
  /\ Close \/ Free
  /\ UNCHANGED ticker

Visible == (PropagateHead \/ PropagateTail \/ PropagateClosed) /\ UNCHANGED ticker

TickerStep == TickLoop \/ TickWake \/ TickRefused \/ TickSend

TNext ==
  \/ ~ticking /\ Next /\ UNCHANGED ticker
  \/ ticking /\ \/ Start \/ StartFails \/ TickerStep
                \/ Stop("stopping") \/ Stop("freeing") \/ Joined
                \/ Poll \/ DropQueue \/ Visible

TSpec == TInit /\ [][TNext]_tvars

\* The ticker's thread is scheduled, and so is its owner after the join.
TFairSpec == TSpec /\ WF_tvars(ticking /\ TickerStep) /\ WF_tvars(ticking /\ Joined)

-----------------------------------------------------------------------------
\* Once stop has returned, and so before the ticker and the queue can be
\* freed, the thread has exited: it neither posts another event nor touches
\* freed memory, whatever step it was at when it was told to stop.
ThreadContained ==
  (opc \in {"stopped", "closed"} \/ freed \/ (ticking /\ ~live))
     => tpc \in {"unborn", "exited"} /\ ppc = "idle"

\* A try_recv after the stop that finds the queue empty means that every
\* event posted has been received: there is no late one.
EmptyAfterStop ==
  (ticking /\ opc \in {"stopped", "closed"} /\ result = "empty") => got = sent

\* stop is final in both senses.
StopIsFinal == ThreadContained /\ EmptyAfterStop

\* stop and close return, also when the queue is full.
StopReturns == (opc \in {"stopping", "freeing"}) ~> (opc \in {"stopped", "closed"})
=============================================================================
