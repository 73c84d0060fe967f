------------------------------ MODULE JThread ------------------------------
(***************************************************************************)
(* jthread (stdlib/std/jthread.mla): a worker thread together with the     *)
(* stop source its token came from.  This module composes the shared stop  *)
(* state of StopState, step by step, with the thread that owns the jthread *)
(* and the worker: close() requests stop, joins the worker and releases    *)
(* the source; join() does so without the request.  The worker polls the   *)
(* token and closes it before it returns.                                  *)
(***************************************************************************)
EXTENDS StopState

CONSTANT Worker

JThreadAssumption == Worker \in Threads /\ Worker # Creator

VARIABLES
  jpc,       \* the owner: setup, owning, joining, closing, releasing, done
  wstate     \* the worker: unborn, running, closing its token, exited

Owner == Creator
jvars == <<vars, jpc, wstate>>

\* The owner creates the source first.
JInit == Init /\ jpc = "setup" /\ wstate = "unborn"

\* The worker is spawned with a token of the source; from_parts(worker,
\* source) makes them a jthread.
Spawn ==
  /\ jpc = "setup" /\ jpc' = "owning"
  /\ wstate' = "running"
  /\ src[Owner] > 0 /\ TransferToken(Owner, Worker)

-----------------------------------------------------------------------------
\* close() begins with request_stop().
Close ==
  /\ jpc = "owning" /\ jpc' = "closing"
  /\ RequestStop(Owner)
  /\ UNCHANGED wstate

\* join() only joins.
Join ==
  /\ jpc = "owning" /\ pc[Owner] = "idle" /\ jpc' = "joining"
  /\ UNCHANGED <<vars, wstate>>

\* Mutant: the source is released while the worker still runs.
JoinedEarly ==
  /\ jpc \in {"joining", "closing"} /\ jpc' = "releasing"
  /\ CloseSource(Owner)
  /\ UNCHANGED wstate

\* The join returns when the worker has exited; source.close() follows.
Joined ==
  /\ jpc \in {"joining", "closing"} /\ wstate = "exited"
  /\ jpc' = "releasing"
  /\ CloseSource(Owner)
  /\ UNCHANGED wstate

OwnerStep ==
  /\ jpc = "releasing"
  /\ Step(Owner)
  /\ UNCHANGED <<jpc, wstate>>

OwnerReturns ==
  /\ jpc = "releasing" /\ pc[Owner] = "idle"
  /\ jpc' = "done"
  /\ UNCHANGED <<vars, wstate>>

\* The worker sees the request, or its work is done: it closes the token.
WorkerEnds(because) ==
  /\ wstate = "running" /\ wstate' = "closing"
  /\ because
  /\ CloseToken(Worker)
  /\ UNCHANGED jpc

WorkerStep ==
  /\ wstate = "closing"
  /\ Step(Worker)
  /\ UNCHANGED <<jpc, wstate>>

WorkerExits ==
  /\ wstate = "closing" /\ pc[Worker] = "idle"
  /\ wstate' = "exited"
  /\ UNCHANGED <<vars, jpc>>

\* The owner, outside of join() and close(), and other observers use their
\* handles as they like, token() and request_stop() of the jthread included.
\* The owner leaves the jthread its source.
Observe ==
  \E t \in Threads \ {Worker} :
    /\ t = Owner => jpc \in {"setup", "owning", "done"}
    /\ Use(t) \/ \E u \in Threads \ {Worker} : TransferToken(t, u) \/ TransferSource(t, u)
    /\ jpc = "owning" => src'[Owner] > 0
    /\ UNCHANGED <<jpc, wstate>>

JNext ==
  \/ Spawn \/ Close \/ Join \/ Joined \/ OwnerStep \/ OwnerReturns
  \/ WorkerEnds(requested) \/ WorkerEnds(TRUE) \/ WorkerStep \/ WorkerExits
  \/ Observe

JSpec == JInit /\ [][JNext]_jvars

\* The worker polls its token; it need not end on its own.  A
\* compare-exchange loop is not overtaken for ever, since observers clone and
\* close handles only now and then: a step that gets on is strongly fair.
OwnerProgress == Joined \/ OwnerReturns \/ OwnerStep
WorkerProgress == WorkerEnds(requested) \/ WorkerExits \/ WorkerStep
OwnerAdvances == OwnerStep /\ pc'[Owner] # pc[Owner]
WorkerAdvances == WorkerStep /\ pc'[Worker] # pc[Worker]
JFairSpec ==
  /\ JSpec
  /\ WF_jvars(OwnerProgress) /\ SF_jvars(OwnerAdvances)
  /\ WF_jvars(WorkerProgress) /\ SF_jvars(WorkerAdvances)

-----------------------------------------------------------------------------
\* When close() or join() has returned the worker has exited, and the stop
\* state lives on exactly as long as some observer still owns a token.
ReturnsCleanly ==
  jpc = "done" =>
    /\ wstate = "exited"
    /\ (frees = 0) = (\E t \in Threads : Owned(t) > 0 \/ pc[t] # "idle")

\* close() terminates: the request reaches the worker and the join returns.
CloseReturns == (jpc = "closing") ~> (jpc = "done")
=============================================================================
