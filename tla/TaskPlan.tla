------------------------------ MODULE TaskPlan ------------------------------
(***************************************************************************)
(* The order `mlang pkg run --print-tasks' prints                          *)
(* (append_task_execution_order of src/package_manager.cpp), a recursive   *)
(* expansion of the task graph of its own, to compare the runs with.       *)
(***************************************************************************)
EXTENDS TaskRunner

RECURSIVE ExecutionOrder(_, _, _, _)

\* Mutant: the lists are expanded from the end.
ExpandAllReversed(m, ts, stack, r) ==
  FoldLeft(LAMBDA acc, t : IF ~acc.ok THEN acc ELSE ExecutionOrder(m, t, stack, acc),
           r, Reverse(ts))

\* The calls for a list of tasks, up to the first that fails.
ExpandAll(m, ts, stack, r) ==
  FoldLeft(LAMBDA acc, t : IF ~acc.ok THEN acc ELSE ExecutionOrder(m, t, stack, acc),
           r, ts)

\* append_task_execution_order: r.order so far extended by the task and what
\* it needs, or r.ok = FALSE for a cycle or a task that is not there.
ExecutionOrder(m, t, stack, r) ==
  IF Contains(stack, t) \/ t \notin m.runnable
  THEN [r EXCEPT !.ok = FALSE]
  ELSE LET before == ExpandAll(m, DependsOn(m, t), Append(stack, t), r)
           self   == IF before.ok /\ ~Contains(before.order, t)
                     THEN [before EXCEPT !.order = Append(@, t)] ELSE before
       IN  ExpandAll(m, NextTasks(m, t), Append(stack, t), self)

PlanOf(root1) == ExecutionOrder(manifest, root1, << >>, [ok |-> TRUE, order |-> << >>])

\* The printed plan is what happens: a sequential run of one task starts the
\* commands in the order of the plan, and all of them when it succeeds; and
\* the plan reports a cycle or a missing task exactly if there is one.
PlanIsFollowed ==
  Len(Roots) = 1 /\ ~(\E t \in Tasks : manifest.parallel[t]) =>
    LET plan == PlanOf(Roots[1])
    IN  /\ plan.ok => IsPrefix(log, plan.order)
        /\ exit = "ok" => plan.ok /\ plan.order = log
        /\ plan.ok <=> ~Faulty
=============================================================================
