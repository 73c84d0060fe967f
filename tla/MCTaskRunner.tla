---------------------------- MODULE MCTaskRunner ----------------------------
(***************************************************************************)
(* TaskRunner and TaskPlan on sets of small manifests.                     *)
(***************************************************************************)
EXTENDS TaskPlan, FiniteSets

CONSTANTS a, b, c, NoPhase, compile

Three == {a, b, c}

\* A manifest from its edges; the tasks are in the order a, b, c.
Ordered(S) == SelectSeq(<<a, b, c>>, LAMBDA t : t \in S)
Plain(deps, next, parallel, roots) ==
  [roots |-> roots, order |-> <<a, b, c>>, phase |-> [t \in Three |-> NoPhase],
   dependsOn |-> [t \in Three |-> Ordered({u \in Three : <<t, u>> \in deps})],
   next |-> [t \in Three |-> Ordered({u \in Three : <<t, u>> \in next})],
   joinOn |-> [t \in Three |-> << >>], phaseDependsOn |-> [t \in Three |-> << >>],
   phaseJoinOn |-> [t \in Three |-> << >>], nextPhases |-> [t \in Three |-> << >>],
   parallel |-> [t \in Three |-> parallel],
   runnable |-> Three, hasWork |-> Three, signed |-> {b}]

\* Every acyclic graph of prerequisites and launched tasks (up to renaming),
\* sequential and parallel.
Forward == {<<a, b>>, <<a, c>>, <<b, c>>}
Acyclic ==
  {Plain(deps, next, par, <<a, b>>) :
     deps \in SUBSET Forward, next \in SUBSET Forward, par \in BOOLEAN}

\* Every sequential graph with at most four edges, cycles included, with a
\* task that may be missing.
AllPairs == Three \X Three
Sequential ==
  {[Plain(deps, next, FALSE, <<a>>) EXCEPT !.runnable = run, !.signed = {}] :
     deps \in {S \in SUBSET AllPairs : Cardinality(S) <= 2},
     next \in {S \in SUBSET AllPairs : Cardinality(S) <= 2}, run \in {Three, {a, b}}}

\* A parallel task whose two prerequisites need each other.
ParallelCycle ==
  {Plain({<<a, b>>, <<a, c>>, <<b, c>>, <<c, b>>}, {}, TRUE, <<a>>)}

\* Phases, as in examples/package_manager_task_graph: a task launches the
\* tasks of a phase (b) and one that joins the phase (c), or has the tasks of
\* a phase as prerequisites.
Phases ==
  {[Plain({}, {<<a, c>>}, TRUE, <<a>>) EXCEPT
      !.phase[b] = compile, !.nextPhases[a] = <<compile>>,
      !.phaseJoinOn[c] = <<compile>>, !.signed = {}],
   [Plain({<<a, c>>}, {}, TRUE, <<a>>) EXCEPT
      !.phase[b] = compile, !.phaseDependsOn[a] = <<compile>>, !.signed = {},
      !.joinOn[a] = <<b, c>>]}

\* A task that launches others and has no commands of its own.
NoCommands == {[m EXCEPT !.hasWork = {a, c}] : m \in {Plain({<<a, b>>}, {<<b, c>>}, FALSE, <<a>>)}}

\* A parallel task that lists a prerequisite, or a task to launch, twice.
Repeated ==
  {[Plain({}, {<<c, b>>}, TRUE, <<a>>) EXCEPT !.dependsOn[a] = <<b, c, b>>],
   [Plain({}, {<<c, b>>}, TRUE, <<a>>) EXCEPT !.next[a] = <<b, b, c>>]}

GraphsChecked == Acyclic \cup Sequential \cup Phases \cup NoCommands \cup Repeated
=============================================================================
