----------------------------- MODULE AudioPool -----------------------------
(* The worker pool that runs a controller's plugins: each block is rendered *)
(* in stages, a stage is a batch of jobs that the render thread and the     *)
(* woken workers claim from one packed cursor.  The control thread creates  *)
(* the workers before and shuts them down after rendering.                  *)
(* std_audio_controller.inc, lines 103-246 and 866-885.                     *)
EXTENDS Naturals, Sequences, FiniteSets

CONSTANTS
    Workers,     \* the threads ac_pool_ensure has created
    Render,      \* the render thread
    Routings,    \* stages: for each source in slot order, the inserts it uses
    MaxSources,  \* bound: sources of one stage
    MaxStages,   \* bound: stages rendered
    GenMod,      \* 2^32 in the code: values of the generation counter
    Limits       \* values ac_thread_limit takes, 0 meaning every core

VARIABLES
    cursor,      \* pool->cursor, its three packed fields
    finished,    \* pool->finished
    generation,  \* pool->generation
    stop,        \* pool->stop
    wake,        \* value of the semaphore pool->wake
    jobSlot,     \* c->job_slot, the source each job number stands for
    routes,      \* c->job_routes, the inserts of each source of the stage
    alone,       \* sources the render thread still runs by itself
    posts,       \* helpers the render thread still wakes
    at,          \* where each thread is
    seen,        \* the cursor each thread is about to exchange
    mine,        \* the generation each thread drains
    job,         \* the source each thread is processing, 0 for none
    stage,       \* stages begun so far
    began        \* history: sources whose job began in this stage, in order

shared == <<cursor, finished, generation, stop, wake>>
batch == <<jobSlot, routes, alone, posts, stage>>
vars == <<shared, batch, at, seen, mine, job, began>>

Threads == Workers \cup {Render}
NoCursor == [gen |-> 0, count |-> 0, next |-> 0]

AudioPoolAssumption ==
    /\ IsFiniteSet(Workers) /\ Render \notin Workers
    /\ MaxSources \in Nat /\ MaxStages \in Nat
    /\ \A r \in Routings : Len(r) \in 1..MaxSources /\ DOMAIN r = 1..Len(r)
    /\ GenMod \in Nat \ {0, 1} /\ Limits \subseteq Nat

Init ==
    /\ cursor = NoCursor /\ finished = 0 /\ generation = 0
    /\ stop = FALSE /\ wake = 0
    /\ jobSlot = <<>> /\ routes = <<>> /\ alone = <<>> /\ posts = 0
    /\ at = [t \in Threads |-> IF t = Render THEN "idle" ELSE "asleep"]
    /\ seen = [t \in Threads |-> NoCursor]
    /\ mine = [t \in Threads |-> 0]
    /\ job = [t \in Threads |-> 0]
    /\ stage = 0 /\ began = <<>>

Go(t, place) == at' = [at EXCEPT ![t] = place]

(***************************************************************************)
(* ac_run_stage: a source that shares an insert with an earlier source,    *)
(* itself deferred or not, runs after the batch.                            *)
(***************************************************************************)
Shared(r, k) == \E j \in 1..(k - 1) : r[j] \cap r[k] # {}
Parallel(r) == {k \in 1..Len(r) : ~Shared(r, k)}
Deferred(r) == {k \in 1..Len(r) : Shared(r, k)}
(* The one list of the slots in S that the loop over the sources makes. *)
InSlotOrder(S) ==
    {p \in [1..Cardinality(S) -> S] : \A i, j \in DOMAIN p : i < j => p[i] < p[j]}

(* ac_pool_threads: the render thread and the workers, under the limit. *)
PoolThreads(limit) ==
    LET available == Cardinality(Workers) + 1
    IN  IF limit > 0 /\ limit < available THEN limit ELSE available

(* 0 is the idle cursor's generation and is skipped. *)
NextGeneration ==
    IF (generation + 1) % GenMod = 0 THEN 1 ELSE (generation + 1) % GenMod
MinOf(m, n) == IF m < n THEN m ELSE n

(***************************************************************************)
(* Render thread: ac_run_stage and ac_pool_run.                            *)
(***************************************************************************)
RunStage(r, limit, parallel, deferred) ==
    LET threads == PoolThreads(limit)
        inline == threads <= 1 \/ Len(parallel) = 1
    IN  /\ at[Render] = "idle" /\ stage < MaxStages
        /\ stage' = stage + 1 /\ began' = <<>>
        /\ routes' = r /\ jobSlot' = parallel
        /\ alone' = IF inline THEN parallel \o deferred ELSE deferred
        /\ posts' = IF inline THEN 0 ELSE MinOf(threads, Len(parallel)) - 1
        /\ generation' = IF inline THEN generation ELSE NextGeneration
        /\ Go(Render, IF inline THEN "alone" ELSE "reset")
        /\ UNCHANGED <<cursor, finished, stop, wake, seen, mine, job>>

ResetFinished ==
    /\ at[Render] = "reset"
    /\ finished' = 0
    /\ Go(Render, "publish")
    /\ UNCHANGED <<cursor, generation, stop, wake, batch, seen, mine, job, began>>

Publish ==
    /\ at[Render] = "publish"
    /\ cursor' = [gen |-> generation, count |-> Len(jobSlot), next |-> 0]
    /\ mine' = [mine EXCEPT ![Render] = generation]
    /\ Go(Render, "post")
    /\ UNCHANGED <<finished, generation, stop, wake, batch, seen, job, began>>

PostHelper ==
    /\ at[Render] = "post" /\ posts > 0
    /\ posts' = posts - 1 /\ wake' = wake + 1
    /\ Go(Render, IF posts = 1 THEN "load" ELSE "post")
    /\ UNCHANGED <<cursor, finished, generation, stop, jobSlot, routes, alone, stage,
                   seen, mine, job, began>>

\* Mutant: it is enough that every job has been claimed.
SpinUntilClaimed ==
    /\ at[Render] = "spin"
    /\ cursor.next >= Len(jobSlot)
    /\ Go(Render, "alone")
    /\ UNCHANGED <<shared, batch, seen, mine, job, began>>

(* The render thread spins until every job of its batch has finished. *)
SpinUntilFinished ==
    /\ at[Render] = "spin"
    /\ finished >= Len(jobSlot)
    /\ Go(Render, "alone")
    /\ UNCHANGED <<shared, batch, seen, mine, job, began>>

(* An inline batch, and the deferred sources of any batch, one by one. *)
AloneBegin ==
    /\ at[Render] = "alone" /\ job[Render] = 0 /\ alone # <<>>
    /\ job' = [job EXCEPT ![Render] = Head(alone)]
    /\ alone' = Tail(alone)
    /\ began' = Append(began, Head(alone))
    /\ UNCHANGED <<shared, jobSlot, routes, posts, stage, at, seen, mine>>

AloneEnd ==
    /\ at[Render] = "alone" /\ job[Render] # 0
    /\ job' = [job EXCEPT ![Render] = 0]
    /\ UNCHANGED <<shared, batch, at, seen, mine, began>>

StageReturn ==
    /\ at[Render] = "alone" /\ job[Render] = 0 /\ alone = <<>>
    /\ Go(Render, "idle")
    /\ UNCHANGED <<shared, batch, seen, mine, job, began>>

(***************************************************************************)
(* ac_pool_drain, run by the render thread and by every worker.            *)
(***************************************************************************)
Drained(t) == IF t = Render THEN "spin" ELSE "asleep"

DrainLoad(t) ==
    LET exhausted == cursor.gen # mine[t] \/ cursor.next >= cursor.count
    IN  /\ at[t] = "load"
        /\ IF exhausted
           THEN Go(t, Drained(t)) /\ mine' = [mine EXCEPT ![t] = 0] /\ UNCHANGED seen
           ELSE Go(t, "claim") /\ seen' = [seen EXCEPT ![t] = cursor] /\ UNCHANGED mine
        /\ UNCHANGED <<shared, batch, job, began>>

(* A claimed job's source is read from job_slot, which stays as it is while *)
(* a claimed job has not finished; so claim and start are one step.          *)
RunClaimed(t) ==
    LET source == jobSlot[seen[t].next + 1]
    IN  /\ job' = [job EXCEPT ![t] = source]
        /\ began' = Append(began, source)
        /\ seen' = [seen EXCEPT ![t] = NoCursor]
        /\ Go(t, "job")
        /\ UNCHANGED <<finished, generation, stop, wake, batch, mine>>

DrainClaim(t) ==
    /\ at[t] = "claim" /\ cursor = seen[t]
    /\ cursor' = [cursor EXCEPT !.next = @ + 1]
    /\ RunClaimed(t)

(* The exchange fails when the cursor moved, and may fail spuriously. *)
DrainRetry(t) ==
    /\ at[t] = "claim"
    /\ seen' = [seen EXCEPT ![t] = NoCursor]
    /\ Go(t, "load")
    /\ UNCHANGED <<shared, batch, mine, job, began>>

\* Mutant: only the render thread's own jobs are counted.
DrainFinishUncounted(t) ==
    /\ at[t] = "job"
    /\ job' = [job EXCEPT ![t] = 0]
    /\ finished' = IF t = Render THEN finished + 1 ELSE finished
    /\ Go(t, "load")
    /\ UNCHANGED <<cursor, generation, stop, wake, batch, seen, mine, began>>

DrainFinish(t) ==
    /\ at[t] = "job"
    /\ job' = [job EXCEPT ![t] = 0]
    /\ finished' = finished + 1
    /\ Go(t, "load")
    /\ UNCHANGED <<cursor, generation, stop, wake, batch, seen, mine, began>>

(***************************************************************************)
(* ac_worker_main.                                                          *)
(***************************************************************************)
WorkerWake(w) ==
    /\ at[w] = "asleep" /\ wake > 0
    /\ wake' = wake - 1
    /\ Go(w, "woken")
    /\ UNCHANGED <<cursor, finished, generation, stop, batch, seen, mine, job, began>>

WorkerTestStop(w) ==
    /\ at[w] = "woken"
    /\ Go(w, IF stop THEN "exited" ELSE "adopt")
    /\ UNCHANGED <<shared, batch, seen, mine, job, began>>

WorkerAdopt(w) ==
    /\ at[w] = "adopt"
    /\ mine' = [mine EXCEPT ![w] = cursor.gen]
    /\ Go(w, "load")
    /\ UNCHANGED <<shared, batch, seen, job, began>>

(***************************************************************************)
(* ac_pool_shutdown, called by close once no block is being rendered.       *)
(***************************************************************************)
Shutdown ==
    /\ at[Render] = "idle"
    /\ stop' = TRUE
    /\ wake' = wake + Cardinality(Workers)
    /\ Go(Render, "joining")
    /\ UNCHANGED <<cursor, finished, generation, batch, seen, mine, job, began>>

Joined ==
    /\ at[Render] = "joining"
    /\ \A w \in Workers : at[w] = "exited"
    /\ Go(Render, "closed")
    /\ UNCHANGED <<shared, batch, seen, mine, job, began>>

RenderStep ==
    \/ ResetFinished \/ Publish \/ PostHelper \/ SpinUntilFinished
    \/ AloneBegin \/ AloneEnd \/ StageReturn \/ Joined
DrainStep(t) == DrainLoad(t) \/ DrainFinish(t)
WorkerStep(w) == WorkerWake(w) \/ WorkerTestStop(w) \/ WorkerAdopt(w)

Next ==
    \/ \E r \in Routings, limit \in Limits :
         \E p \in InSlotOrder(Parallel(r)), d \in InSlotOrder(Deferred(r)) :
           RunStage(r, limit, p, d)
    \/ Shutdown
    \/ RenderStep
    \/ \E t \in Threads : DrainStep(t) \/ DrainClaim(t) \/ DrainRetry(t)
    \/ \E w \in Workers : WorkerStep(w)

Spec == Init /\ [][Next]_vars

(* The steps the scheduler owes every thread.  An exchange on a cursor that *)
(* moved fails at once; one that could succeed may fail spuriously, but not *)
(* for ever, hence strong fairness for DrainClaim.                           *)
Owed(t) ==
    \/ t = Render /\ RenderStep
    \/ DrainStep(t)
    \/ cursor # seen[t] /\ DrainRetry(t)
    \/ t \in Workers /\ WorkerStep(t)
Fairness == \A t \in Threads : WF_vars(Owed(t)) /\ SF_vars(DrainClaim(t))
FairSpec == Spec /\ Fairness

(***************************************************************************)
(* Properties.                                                              *)
(***************************************************************************)
InStage == at[Render] \notin {"idle", "joining", "closed"}

(* ac_pool_run returns "when every job has finished": between stages no     *)
(* thread is inside a job, and each source of the stage was processed       *)
(* exactly once, also by workers that woke late or adopted an older         *)
(* generation that the counter has since reached again.                      *)
StageIsWhole ==
    /\ \A i, j \in DOMAIN began : began[i] = began[j] => i = j
    /\ ~InStage => /\ \A t \in Threads : job[t] = 0
                   /\ {began[i] : i \in DOMAIN began} = DOMAIN routes

(* No insert instance is processed on two threads at once, and sources that *)
(* share one are processed in slot order, as a single thread would.          *)
InsertsInOrder ==
    /\ \A t, u \in Threads :
          (t # u /\ job[t] # 0 /\ job[u] # 0) => routes[job[t]] \cap routes[job[u]] = {}
    /\ \A i, j \in DOMAIN began :
          (i < j /\ routes[began[i]] \cap routes[began[j]] # {}) => began[i] < began[j]

(* Both parts of what a stage promises.                                      *)
StagesExact == StageIsWhole /\ InsertsInOrder

(* A stage returns and a shutdown joins every worker: no wake is lost,       *)
(* however many posts of earlier batches are still in the semaphore.         *)
PoolReturns ==
    /\ (at[Render] = "reset") ~> (at[Render] = "idle")
    /\ (at[Render] = "joining") ~> (at[Render] = "closed")

=============================================================================
