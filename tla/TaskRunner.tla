----------------------------- MODULE TaskRunner -----------------------------
(***************************************************************************)
(* The task graph of `mlang pkg run' and `mlang pkg test'                  *)
(* (src/package_manager.cpp).  run_task_for_manifest_impl runs a task: its *)
(* prerequisites first, then its commands, then the tasks it launches,     *)
(* each of them by a call of itself, in the same thread or, when the task  *)
(* is parallel, in one std::async thread each.  The calls share a table of *)
(* task states behind one mutex and one condition variable, so that every  *)
(* task runs once however many calls ask for it.                           *)
(*                                                                         *)
(* A call is named by its path: the task stack it was called with, and its *)
(* own task.  The table lookup and each status change are critical         *)
(* sections, one action each; notify_all happens after the unlock.         *)
(***************************************************************************)
EXTENDS Integers, SequencesExt

CONSTANTS Tasks,       \* task names
          Manifests    \* the [[task]] tables considered, for one host, each with
                       \* the tasks asked for

VARIABLES
  manifest,   \* the manifest that is run
  status,     \* taskStates
  frames,     \* the active calls, by path
  root,       \* index of the root being run
  exit,       \* "none", then how the whole run ended
  log,        \* ghost: tasks whose commands were started, in order
  broken      \* ghost: tasks whose commands failed

vars == <<manifest, status, frames, root, exit, log, broken>>

-----------------------------------------------------------------------------
\* append_unique_strings.
AppendUnique(dst, src) ==
  FoldLeft(LAMBDA acc, x : IF Contains(acc, x) THEN acc ELSE Append(acc, x), dst, src)

\* task_names_for_phases: the tasks of the given phases, in manifest order.
NamesForPhases(m, phases) ==
  SelectSeq(m.order, LAMBDA t : Contains(phases, m.phase[t]))

\* resolve_effective_task_edges, for the one host of the manifest.
DependsOn(m, t) ==
  AppendUnique(
    AppendUnique(m.dependsOn[t], NamesForPhases(m, m.phaseDependsOn[t])),
    AppendUnique(m.joinOn[t], NamesForPhases(m, m.phaseJoinOn[t])))

NextTasks(m, t) == AppendUnique(m.next[t], NamesForPhases(m, m.nextPhases[t]))

\* Tasks has every name the tables mention, declared (runnable) or not.
ASSUME TaskAssumption ==
  \A m \in Manifests :
    /\ m.roots \in Seq(Tasks) /\ m.roots # << >>
    /\ \A t \in Tasks : DependsOn(m, t) \in Seq(Tasks) /\ NextTasks(m, t) \in Seq(Tasks)

Roots   == manifest.roots
Task(p) == Last(p)
Edges(p) ==
  IF frames[p].list = "deps" THEN DependsOn(manifest, Task(p))
                             ELSE NextTasks(manifest, Task(p))

Children(p) == {q \in DOMAIN frames : Len(q) = Len(p) + 1 /\ IsPrefix(p, q)}

Fresh == [pc |-> "called", list |-> "deps", i |-> 1, launched |-> FALSE, ok |-> FALSE]

With(f, paths, r) ==
  [q \in DOMAIN f \cup paths |-> IF q \in paths THEN r ELSE f[q]]
Without(f, paths) == [q \in DOMAIN f \ paths |-> f[q]]

\* run_task_for_manifest and its callers: an empty table, the first root.
Init ==
  /\ manifest \in Manifests
  /\ status = [t \in Tasks |-> "not_started"]
  /\ frames = With(<< >>, {<<Roots[1]>>}, Fresh)
  /\ root = 1 /\ exit = "none"
  /\ log = << >> /\ broken = {}

-----------------------------------------------------------------------------
Return(p, ok) ==
  frames' = [frames EXCEPT ![p].pc = "returned", ![p].ok = ok]

\* The task is on the stack of the calls that led here.
IsCyclic(p) == Contains(Front(p), Task(p))

CycleFound(p) ==
  /\ frames[p].pc = "called" /\ IsCyclic(p)
  /\ Return(p, FALSE)
  /\ UNCHANGED <<manifest, status, root, exit, log, broken>>

AtTable(p) ==
  \/ frames[p].pc = "called" /\ ~IsCyclic(p)
  \/ frames[p].pc = "woken"

\* Another call runs the task: wait on taskCv.
Wait(p) ==
  /\ AtTable(p)
  /\ status[Task(p)] = "running"
  /\ frames' = [frames EXCEPT ![p].pc = "waiting"]
  /\ UNCHANGED <<manifest, status, root, exit, log, broken>>

\* The task has been run already.
AlreadyRun(p) ==
  /\ AtTable(p)
  /\ status[Task(p)] \in {"succeeded", "failed"}
  /\ Return(p, status[Task(p)] = "succeeded")
  /\ UNCHANGED <<manifest, status, root, exit, log, broken>>

\* Mutant: a task that failed is tried again.
ClaimRetries(p) ==
  /\ AtTable(p)
  /\ status[Task(p)] \in {"not_started", "failed"}
  /\ status' = [status EXCEPT ![Task(p)] = "running"]
  /\ frames' = [frames EXCEPT ![p].pc =
                  IF Task(p) \in manifest.runnable THEN "edges" ELSE "failing"]
  /\ UNCHANGED <<manifest, root, exit, log, broken>>

\* This call runs it.  A task that is not in the manifest or not for this
\* host fails at once.
Claim(p) ==
  /\ AtTable(p)
  /\ status[Task(p)] = "not_started"
  /\ status' = [status EXCEPT ![Task(p)] = "running"]
  /\ frames' = [frames EXCEPT ![p].pc =
                  IF Task(p) \in manifest.runnable THEN "edges" ELSE "failing"]
  /\ UNCHANGED <<manifest, root, exit, log, broken>>

IsParallel(p) == manifest.parallel[Task(p)] /\ Len(Edges(p)) > 1

\* The calls for the prerequisites, or for the launched tasks: all at once,
\* or one after the other.
Launch(p) ==
  /\ frames[p].pc = "edges" /\ ~frames[p].launched
  /\ frames[p].i <= Len(Edges(p))
  /\ LET now == IF IsParallel(p) THEN ToSet(Edges(p)) ELSE {Edges(p)[frames[p].i]}
     IN  frames' = With([frames EXCEPT ![p].launched = TRUE],
                        {Append(p, t) : t \in now}, Fresh)
  /\ UNCHANGED <<manifest, status, root, exit, log, broken>>

\* Mutant: the result of the call is not looked at.
CollectAny(p) ==
  /\ frames[p].pc = "edges" /\ frames[p].launched
  /\ LET q == Append(p, Edges(p)[frames[p].i])
     IN  /\ q \in DOMAIN frames => frames[q].pc = "returned"
         /\ frames' = [Without(frames, {q}) EXCEPT
              ![p].i = @ + 1,
              ![p].launched = IsParallel(p) /\ frames[p].i < Len(Edges(p))]
  /\ UNCHANGED <<manifest, status, root, exit, log, broken>>

\* The result of the next call in order: go on, or fail.  A prerequisite
\* that fails leaves the status to the guard, a launched task that fails
\* sets it at once.  A parallel task that lists a name twice has two calls
\* for it, and one stands for both: the second finds what the first has left
\* in the table.
Collect(p) ==
  /\ frames[p].pc = "edges" /\ frames[p].launched
  /\ LET q     == Append(p, Edges(p)[frames[p].i])
         again == q \notin DOMAIN frames
     IN  /\ ~again => frames[q].pc = "returned"
         /\ frames' =
              IF again \/ frames[q].ok
              THEN [Without(frames, {q}) EXCEPT
                      ![p].i = @ + 1,
                      ![p].launched = IsParallel(p) /\ frames[p].i < Len(Edges(p))]
              ELSE [Without(frames, {q}) EXCEPT
                      ![p].pc = IF frames[p].list = "deps" THEN "joining" ELSE "failing"]
  /\ UNCHANGED <<manifest, status, root, exit, log, broken>>

Finished(p, list) ==
  /\ frames[p].pc = "edges" /\ frames[p].list = list /\ ~frames[p].launched
  /\ frames[p].i > Len(Edges(p))

\* All prerequisites succeeded: the commands start, if there are any.
StartCommands(p) ==
  /\ Finished(p, "deps")
  /\ \/ /\ Task(p) \in manifest.hasWork
        /\ frames' = [frames EXCEPT ![p].pc = "commands"]
        /\ log' = Append(log, Task(p))
     \/ /\ Task(p) \notin manifest.hasWork
        /\ frames' = [frames EXCEPT ![p].pc = "failing"]
        /\ UNCHANGED log
  /\ UNCHANGED <<manifest, status, root, exit, broken>>

\* The commands, and the permission fixup after them, succeed or fail.
EndCommands(p, ok) ==
  /\ frames[p].pc = "commands"
  /\ frames' = IF ok THEN [frames EXCEPT ![p].pc = "edges", ![p].list = "next", ![p].i = 1]
                     ELSE [frames EXCEPT ![p].pc = "failing"]
  /\ broken' = IF ok THEN broken ELSE broken \cup {Task(p)}
  /\ UNCHANGED <<manifest, status, root, exit, log>>

\* codesign of the outputs, after the launched tasks, fails.
SignFails(p) ==
  /\ Finished(p, "next") /\ Task(p) \in manifest.signed
  /\ frames' = [frames EXCEPT ![p].pc = "failing"]
  /\ broken' = broken \cup {Task(p)}
  /\ UNCHANGED <<manifest, status, root, exit, log>>

\* Mutant: the remaining threads are detached.
JoinFuturesDetached(p, before, after) ==
  /\ frames[p].pc = before
  /\ frames' = [frames EXCEPT ![p].pc = after]
  /\ UNCHANGED <<manifest, status, root, exit, log, broken>>

\* The futures that were not collected are joined when the vector goes out of
\* scope: before the guard sets the status when a prerequisite failed, and
\* before the return in any case.
JoinFutures(p, before, after) ==
  /\ frames[p].pc = before
  /\ \A q \in Children(p) : frames[q].pc = "returned"
  /\ frames' = [Without(frames, Children(p)) EXCEPT ![p].pc = after]
  /\ UNCHANGED <<manifest, status, root, exit, log, broken>>

\* The final status is stored under the mutex.
Settle(p, ok) ==
  /\ IF ok THEN Finished(p, "next") ELSE frames[p].pc = "failing"
  /\ status' = [status EXCEPT ![Task(p)] = IF ok THEN "succeeded" ELSE "failed"]
  /\ frames' = [frames EXCEPT ![p].pc = "notify", ![p].ok = ok]
  /\ UNCHANGED <<manifest, root, exit, log, broken>>

\* Mutant: a task that failed does not wake the calls that wait for it.
NotifySuccessOnly(p) ==
  /\ frames[p].pc = "notify"
  /\ frames' = [q \in DOMAIN frames |->
       IF q = p THEN [frames[q] EXCEPT !.pc = "leaving"]
       ELSE IF frames[q].pc = "waiting" /\ frames[p].ok
            THEN [frames[q] EXCEPT !.pc = "woken"] ELSE frames[q]]
  /\ UNCHANGED <<manifest, status, root, exit, log, broken>>

\* taskCv.notify_all(): every waiting call looks at the table again.
Notify(p) ==
  /\ frames[p].pc = "notify"
  /\ frames' = [q \in DOMAIN frames |->
       IF q = p THEN [frames[q] EXCEPT !.pc = "leaving"]
       ELSE IF frames[q].pc = "waiting"
            THEN [frames[q] EXCEPT !.pc = "woken"] ELSE frames[q]]
  /\ UNCHANGED <<manifest, status, root, exit, log, broken>>

\* The root call has returned: the next root, or the end.
RootReturned ==
  LET p == <<Roots[root]>>
  IN  /\ p \in DOMAIN frames /\ frames[p].pc = "returned"
      /\ IF frames[p].ok /\ root < Len(Roots)
         THEN /\ root' = root + 1
              /\ frames' = With(<< >>, {<<Roots[root + 1]>>}, Fresh)
              /\ UNCHANGED exit
         ELSE /\ exit' = IF frames[p].ok THEN "ok" ELSE "failed"
              /\ frames' = Without(frames, {p}) /\ UNCHANGED root
      /\ UNCHANGED <<manifest, status, log, broken>>

Step(p) ==
  \/ CycleFound(p) \/ Wait(p) \/ AlreadyRun(p) \/ Claim(p)
  \/ Launch(p) \/ Collect(p) \/ StartCommands(p)
  \/ (\E ok \in BOOLEAN : EndCommands(p, ok) \/ Settle(p, ok))
  \/ SignFails(p) \/ Notify(p)
  \/ JoinFutures(p, "joining", "failing") \/ JoinFutures(p, "leaving", "returned")

Next == RootReturned \/ \E p \in DOMAIN frames : Step(p)

Spec == Init /\ [][Next]_vars

\* The process as a whole goes on as long as one of its threads can: every
\* command ends and every thread is scheduled.
FairSpec == Spec /\ WF_vars(Next)

-----------------------------------------------------------------------------
\* Each task's commands run at most once, whichever calls race for it.
RunsOnce == \A i, j \in 1 .. Len(log) : log[i] = log[j] => i = j

\* While a task's commands run all its prerequisites have succeeded, the
\* tasks of the phases it depends on and joins included.
PrerequisitesFirst ==
  \A p \in DOMAIN frames :
    frames[p].pc = "commands" =>
      \A d \in ToSet(DependsOn(manifest, Task(p))) : status[d] = "succeeded"

\* Both: a task's commands run once, and not before its prerequisites.
OnceAfterPrerequisites == RunsOnce /\ PrerequisitesFirst

\* A task that has been settled stays as it is: no call changes a final
\* status, neither the guard of the call that ran it nor another one.
FinalStatus ==
  [][\A t \in Tasks : status[t] \in {"succeeded", "failed"} => status'[t] = status[t]]_vars

\* What a task depends on or launches, and what is reached from a set of
\* tasks: the least set that has them and all that its members ask for.
Asked(t) == ToSet(DependsOn(manifest, t) \o NextTasks(manifest, t))
ReachedFrom(ts) ==
  {t \in Tasks : \A R \in SUBSET Tasks :
     ts \subseteq R /\ (\A u \in R : Asked(u) \subseteq R) => t \in R}

\* The roots reach a task that is not there, or one that asks for itself.
Faulty ==
  \E t \in ReachedFrom(ToSet(Roots)) :
    t \notin manifest.runnable \/ t \in ReachedFrom(Asked(t))

\* When the run has ended no call is left and no task is running, although a
\* failure ends a parallel task before its other branches are collected; and
\* the run succeeds only if everything a task that ran asks for succeeded.
ExitIsHonest ==
  exit # "none" =>
    /\ DOMAIN frames = {}
    /\ \A t \in Tasks : status[t] # "running"
    /\ exit = "ok" =>
         /\ \A r \in 1 .. Len(Roots) : status[Roots[r]] = "succeeded"
         /\ \A t \in Tasks : status[t] = "succeeded" =>
              \A u \in Asked(t) : status[u] = "succeeded"

\* A run fails only when a command failed, a task has no commands, or there is
\* a cycle or a missing task to report: threads that wait for each other's
\* tasks never turn into a failure of their own.
FailsOnlyForCause ==
  exit = "failed" => broken # {} \/ manifest.hasWork # Tasks \/ Faulty

\* Both: the exit status says what happened, in success and in failure.
ExitIsExact == ExitIsHonest /\ FailsOnlyForCause

\* The run ends.
Terminates == <>(exit # "none")
=============================================================================
