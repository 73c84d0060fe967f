-------------------------- MODULE TaskRunnerProofs --------------------------
(***************************************************************************)
(* Proofs about TaskRunner for every set of tasks and every manifest,      *)
(* cyclic ones included, and any number of branches.                       *)
(*                                                                         *)
(* A task starts its commands after what it depends on because a call      *)
(* knows how far it has come in its list (Informed), and a status that     *)
(* says succeeded stays; it starts them once because the running tasks     *)
(* belong to exactly one call each (OneOwner) and every task in the log    *)
(* has left not_started (Logged).  That a call which collects its branches *)
(* finds all of them needs the shape of the tree of calls: a call has below*)
(* it just the entries it launched and has not collected (AllServed), and  *)
(* above it only calls that have not returned (Stacked).  Complete and     *)
(* Ended carry what has been achieved to the exit status.  For a failure   *)
(* they are joined by Routed, the path of each call leads from a root along*)
(* what the tasks ask for, and Blamed, a call that fails has a cause.      *)
(***************************************************************************)
EXTENDS TaskRunner, TLAPS

Before == {"called", "waiting", "woken"}
Owning == {"edges", "commands", "joining", "failing"}
After  == {"notify", "leaving", "returned"}

Frame ==
  [pc : Before \cup Owning \cup After, list : {"deps", "next"}, i : Nat \ {0},
   launched : BOOLEAN, ok : BOOLEAN]

Typed ==
  /\ manifest \in Manifests /\ root \in 1 .. Len(Roots)
  /\ status \in [Tasks -> {"not_started", "running", "succeeded", "failed"}]
  /\ \A p \in DOMAIN frames : p \in Seq(Tasks) /\ p # << >> /\ frames[p] \in Frame
  /\ log \in Seq(Tasks)

InLog(t) == \E k \in 1 .. Len(log) : log[k] = t
Succeeded(seq) == \A k \in 1 .. Len(seq) : status[seq[k]] = "succeeded"

\* What a call at path p with the locals r knows.
Knows(p, r) ==
  /\ r.pc \in Before => r.list = "deps" /\ r.i = 1 /\ r.launched = FALSE
  /\ r.pc \in Owning => status[Task(p)] = "running"
  /\ r.pc = "edges" /\ r.list = "deps" =>
       /\ ~InLog(Task(p))
       /\ \A k \in 1 .. Len(DependsOn(manifest, Task(p))) :
            k < r.i => status[DependsOn(manifest, Task(p))[k]] = "succeeded"
  /\ r.pc = "edges" /\ r.list = "next" =>
       /\ Succeeded(DependsOn(manifest, Task(p)))
       /\ \A k \in 1 .. Len(NextTasks(manifest, Task(p))) :
            k < r.i => status[NextTasks(manifest, Task(p))[k]] = "succeeded"
  /\ r.pc = "commands" => r.launched = FALSE /\ Succeeded(DependsOn(manifest, Task(p)))
  /\ r.pc \in After /\ r.ok = TRUE => status[Task(p)] = "succeeded"

Informed == \A p \in DOMAIN frames : Knows(p, frames[p])

\* The running tasks are those of the calls between claim and settle, one each.
OneOwner ==
  /\ \A p, q \in DOMAIN frames :
       frames[p].pc \in Owning /\ frames[q].pc \in Owning /\ Task(p) = Task(q) => p = q
  /\ \A t \in Tasks : status[t] = "running" =>
       \E p \in DOMAIN frames : frames[p].pc \in Owning /\ Task(p) = t

Logged == (\A k \in 1 .. Len(log) : status[log[k]] # "not_started") /\ RunsOnce

\* The calls below p are those it has launched and not collected yet: a
\* parallel call launches its whole list at once, from the first entry.  An
\* entry for which there is no call was listed before, and has succeeded.
ListOf(p, r) ==
  IF r.list = "deps" THEN DependsOn(manifest, Task(p)) ELSE NextTasks(manifest, Task(p))
AtOnce(p, r) == manifest.parallel[Task(p)] /\ Len(ListOf(p, r)) > 1
Nobody(p) == \A t \in Tasks : Append(p, t) \notin DOMAIN frames
Launched(p, r) ==
  /\ r.i <= Len(ListOf(p, r))
  /\ \A t \in Tasks : Append(p, t) \in DOMAIN frames =>
       \E k \in r.i .. Len(ListOf(p, r)) : t = ListOf(p, r)[k] /\ (k = r.i \/ AtOnce(p, r))
  /\ \A k \in r.i .. Len(ListOf(p, r)) : k = r.i \/ AtOnce(p, r) =>
       Append(p, ListOf(p, r)[k]) \in DOMAIN frames \/ status[ListOf(p, r)[k]] = "succeeded"
Served(p, r) ==
  /\ r.pc = "commands" \/ (r.pc = "edges" /\ r.launched = FALSE) => Nobody(p)
  /\ r.pc = "edges" /\ r.launched = FALSE /\ AtOnce(p, r) =>
       r.i = 1 \/ r.i > Len(ListOf(p, r))
  /\ r.pc = "edges" /\ r.launched = TRUE => Launched(p, r)
AllServed == \A p \in DOMAIN frames : Served(p, frames[p])

\* A task that has succeeded has nothing left that it asked for.
Complete ==
  \A t \in Tasks : status[t] = "succeeded" =>
    Succeeded(DependsOn(manifest, t)) /\ Succeeded(NextTasks(manifest, t))

\* The calls that led to a call are there and have not returned.
Stacked ==
  /\ \A q \in DOMAIN frames : \A n \in 1 .. Len(q) - 1 :
       /\ SubSeq(q, 1, n) \in DOMAIN frames
       /\ frames[SubSeq(q, 1, n)].pc \notin Before \cup {"returned"}
  /\ \A q \in DOMAIN frames : Len(q) = 1 => q = <<Roots[root]>>

Ended ==
  /\ exit # "none" => DOMAIN frames = {}
  /\ \A k \in 1 .. root - 1 : status[Roots[k]] = "succeeded"
  /\ exit = "ok" => root = Len(Roots) /\ status[Roots[root]] = "succeeded"

RunnerInv ==
  Typed /\ Informed /\ OneOwner /\ Logged /\ Complete /\ Stacked /\ AllServed /\ Ended

-----------------------------------------------------------------------------
LEMMA LastOrBefore ==
  ASSUME NEW m \in Nat, NEW n \in 1 .. m
  PROVE  n = m \/ n \in 1 .. m - 1
  OBVIOUS

LEMMA Paths ==
  ASSUME NEW p \in Seq(Tasks), p # << >>
  PROVE  /\ Task(p) \in Tasks /\ Len(p) \in Nat \ {0} /\ SubSeq(p, 1, Len(p)) = p
         /\ \A t \in Tasks : /\ Append(p, t) \in Seq(Tasks) /\ Append(p, t) # << >>
                             /\ Task(Append(p, t)) = t /\ Len(Append(p, t)) = Len(p) + 1
                             /\ \A n \in 1 .. Len(p) :
                                  SubSeq(Append(p, t), 1, n) = SubSeq(p, 1, n)
<1>1. Len(p) \in Nat \ {0}
  OBVIOUS
<1>2. Task(p) \in Tasks /\ SubSeq(p, 1, Len(p)) = p
  BY <1>1 DEF Task, Last
<1>3. ASSUME NEW t \in Tasks
      PROVE  /\ Append(p, t) \in Seq(Tasks) /\ Append(p, t) # << >>
             /\ Task(Append(p, t)) = t /\ Len(Append(p, t)) = Len(p) + 1
  BY <1>1 DEF Task, Last
<1>4. ASSUME NEW t \in Tasks, NEW n \in 1 .. Len(p)
      PROVE  SubSeq(Append(p, t), 1, n) = SubSeq(p, 1, n)
  BY <1>1
<1> QED
  BY <1>1, <1>2, <1>3, <1>4

LEMMA Siblings ==
  ASSUME NEW p \in Seq(Tasks), p # << >>, NEW q \in Seq(Tasks), q # << >>,
         NEW t \in Tasks, NEW u \in Tasks, Append(q, t) = Append(p, u)
  PROVE  q = p
<1>1. ASSUME NEW s \in Seq(Tasks), s # << >>, NEW v \in Tasks
      PROVE  /\ Len(s) \in Nat /\ Len(Append(s, v)) = Len(s) + 1
             /\ SubSeq(Append(s, v), 1, Len(s)) = s
  BY <1>1, Paths
<1>2. \A m, n \in Nat : m + 1 = n + 1 => m = n
  OBVIOUS
<1>3. Len(p) + 1 = Len(q) + 1
  BY <1>1
<1>4. Len(p) = Len(q)
  BY <1>1, <1>2, <1>3
<1> QED
  BY <1>1, <1>4

LEMMA Edged ==
  ASSUME Typed, NEW t \in Tasks
  PROVE  /\ DependsOn(manifest, t) \in Seq(Tasks) /\ NextTasks(manifest, t) \in Seq(Tasks)
         /\ Len(DependsOn(manifest, t)) \in Nat /\ Len(NextTasks(manifest, t)) \in Nat
         /\ \A k \in 1 .. Len(DependsOn(manifest, t)) : DependsOn(manifest, t)[k] \in Tasks
         /\ \A k \in 1 .. Len(NextTasks(manifest, t)) : NextTasks(manifest, t)[k] \in Tasks
<1>1. DependsOn(manifest, t) \in Seq(Tasks) /\ NextTasks(manifest, t) \in Seq(Tasks)
  BY TaskAssumption DEF Typed
<1> QED
  BY <1>1

\* What a call knows stays true while others act: nothing that succeeded is
\* undone, its task stays running and is not started by another call.
LEMMA KnowsKept ==
  ASSUME Typed, NEW p \in DOMAIN frames, NEW r, Knows(p, r), manifest' = manifest,
         \A t \in Tasks : status[t] = "succeeded" => status'[t] = "succeeded",
         r.pc \in Owning => status'[Task(p)] = status[Task(p)],
         (r.pc = "edges" /\ r.list = "deps" /\ InLog(Task(p))') => InLog(Task(p))
  PROVE  Knows(p, r)'
<1>1. Task(p) \in Tasks
  BY Paths DEF Typed
<1>2. Task(p)' = Task(p)
  BY DEF Task
<1>3. DependsOn(manifest, Task(p))' = DependsOn(manifest, Task(p))
      /\ NextTasks(manifest, Task(p))' = NextTasks(manifest, Task(p))
  BY <1>2
<1> QED
  BY <1>1, <1>2, <1>3, Edged DEF Knows, Succeeded

-----------------------------------------------------------------------------
\* A step of the call p: its locals become r, calls that have returned to it
\* are gone, and no other call changes.
CallStep(p, r, gone) ==
  /\ r \in Frame
  /\ \A q \in gone : /\ q \in DOMAIN frames /\ frames[q].pc = "returned"
                     /\ Len(q) = Len(p) + 1 /\ SubSeq(q, 1, Len(p)) = p
  /\ DOMAIN frames' = DOMAIN frames \ gone /\ frames'[p] = r
  /\ \A q \in DOMAIN frames \ gone : q # p => frames'[q] = frames[q]
  /\ UNCHANGED <<manifest, root, exit>>

\* Only the entry of the call's own task changes, and a success is kept.
TableStep(p) ==
  /\ status' \in [Tasks -> {"not_started", "running", "succeeded", "failed"}]
  /\ \A t \in Tasks : t # Task(p) => status'[t] = status[t]
  /\ status[Task(p)] = "succeeded" => status'[Task(p)] = "succeeded"
  /\ status'[Task(p)] = "not_started" => status[Task(p)] = "not_started"

\* The call owns its task, or the task is free, or the table is not touched.
Entitled(p, r) ==
  /\ status' = status \/ frames[p].pc \in Owning \/ status[Task(p)] # "running"
  /\ r.pc \in Owning => frames[p].pc \in Owning \/ status[Task(p)] # "running"
  /\ status'[Task(p)] = "running" /\ r.pc \notin Owning =>
       status[Task(p)] = "running" /\ frames[p].pc \notin Owning
  /\ status'[Task(p)] = "succeeded" /\ status[Task(p)] # "succeeded" =>
       Succeeded(DependsOn(manifest, Task(p))) /\ Succeeded(NextTasks(manifest, Task(p)))

\* The log grows only when the call starts the commands of its task.
LogStep(p) ==
  \/ log' = log
  \/ /\ log' = Append(log, Task(p))
     /\ frames[p].pc = "edges" /\ ~InLog(Task(p)) /\ status' = status

LEMMA LogGrows ==
  ASSUME Typed, NEW p \in DOMAIN frames, LogStep(p), NEW t
  PROVE  InLog(t)' => InLog(t) \/ (t = Task(p) /\ frames[p].pc = "edges" /\ log' # log)
<1>1. log \in Seq(Tasks) /\ Task(p) \in Tasks /\ Len(log) \in Nat
  BY Paths DEF Typed
<1>2. CASE log' = log
  BY <1>2 DEF InLog
<1>3. CASE log' = Append(log, Task(p)) /\ frames[p].pc = "edges"
  <2>1. Len(log') = Len(log) + 1 /\ log'[Len(log) + 1] = Task(p)
        /\ \A k \in 1 .. Len(log) : log'[k] = log[k]
    BY <1>1, <1>3
  <2> QED
    BY <1>1, <1>3, <2>1 DEF InLog
<1> QED
  BY <1>2, <1>3 DEF LogStep

LEMMA ServedKept ==
  ASSUME Typed, NEW q \in DOMAIN frames, NEW r \in Frame, Served(q, r), manifest' = manifest,
         \A t \in Tasks : status[t] = "succeeded" => status'[t] = "succeeded",
         \A t \in Tasks : Append(q, t) \in DOMAIN frames' <=> Append(q, t) \in DOMAIN frames
  PROVE  Served(q, r)'
<1>1. ListOf(q, r)' = ListOf(q, r) /\ AtOnce(q, r)' = AtOnce(q, r)
  BY DEF ListOf, AtOnce, Task
<1>2. Task(q) \in Tasks
  BY Paths DEF Typed
<1>3. ListOf(q, r) \in Seq(Tasks) /\ r.i \in Nat \ {0}
  BY <1>2, Edged DEF ListOf, Frame
<1>4. \A k \in r.i .. Len(ListOf(q, r)) : ListOf(q, r)[k] \in Tasks
  BY <1>3
<1>5. Nobody(q) => Nobody(q)'
  BY DEF Nobody
<1>6. Launched(q, r) => Launched(q, r)'
  BY <1>1, <1>4 DEF Launched
<1> QED
  BY <1>1, <1>5, <1>6 DEF Served

LEMMA CallInv ==
  ASSUME RunnerInv, NEW p \in DOMAIN frames, NEW r, NEW gone,
         CallStep(p, r, gone), TableStep(p), Entitled(p, r), LogStep(p), Knows(p, r)', Served(p, r)',
         r.pc \in Before \cup {"returned"} =>
           \A q \in DOMAIN frames \ gone : \A n \in 1 .. Len(q) - 1 : SubSeq(q, 1, n) # p
  PROVE  RunnerInv'
<1> USE DEF RunnerInv
<1>0. /\ Task(p) \in Tasks /\ p \in DOMAIN frames' /\ manifest' = manifest
      /\ \A q \in DOMAIN frames : q \in Seq(Tasks) /\ q # << >> /\ Task(q) \in Tasks
      /\ \A q \in DOMAIN frames' : q \in DOMAIN frames /\ (q # p => frames'[q] = frames[q])
      /\ frames'[p] = r /\ exit = "none" /\ UNCHANGED <<root, exit>> /\ p \notin gone
  <2>1. Len(p) \in Nat
    BY DEF Typed
  <2>2. p \notin gone
    BY <2>1 DEF CallStep
  <2> QED
    BY <2>2, Paths DEF Typed, CallStep, Ended
<1>1. \A t \in Tasks : status[t] = "succeeded" => status'[t] = "succeeded"
  BY DEF TableStep
<1>2. \A q \in DOMAIN frames : q # p /\ frames[q].pc \in Owning =>
         status'[Task(q)] = status[Task(q)] /\ status[Task(q)] = "running"
  BY <1>0 DEF OneOwner, Informed, Knows, TableStep, Entitled
<1>3. log' # log => frames[p].pc \in Owning
  BY DEF LogStep, Owning
<1>4. Typed'
  <2>1. log' \in Seq(Tasks)
    BY <1>0 DEF LogStep, Typed
  <2>2. \A q \in DOMAIN frames' : q \in Seq(Tasks) /\ q # << >> /\ frames'[q] \in Frame
    BY <1>0 DEF Typed, CallStep
  <2> QED
    BY <1>0, <2>1, <2>2 DEF Typed, TableStep, Roots
<1>5. Informed'
  <2> SUFFICES ASSUME NEW q \in DOMAIN frames', q # p
               PROVE  Knows(q, frames[q])'
    BY <1>0 DEF Informed
  <2>1. q \in DOMAIN frames /\ Knows(q, frames[q])
    BY <1>0 DEF Informed
  <2>2. frames[q].pc = "edges" /\ InLog(Task(q))' => InLog(Task(q))
    <3>1. frames[q].pc = "edges" /\ log' # log => Task(q) # Task(p)
      BY <1>0, <1>3, <2>1 DEF OneOwner, Owning
    <3> QED
      BY <3>1, LogGrows
  <2> QED
    BY <1>0, <1>1, <1>2, <2>1, <2>2, KnowsKept
<1>6. OneOwner'
  <2>1. ASSUME NEW a \in DOMAIN frames', NEW b \in DOMAIN frames', frames'[a].pc \in Owning,
               frames'[b].pc \in Owning, Task(a) = Task(b)
        PROVE  a = b
    <3>1. CASE a # p /\ b # p
      BY <1>0, <2>1, <3>1 DEF OneOwner
    <3>2. ASSUME NEW q \in DOMAIN frames, q # p, frames[q].pc \in Owning, Task(q) = Task(p),
                 r.pc \in Owning
          PROVE  FALSE
      <4>1. status[Task(p)] = "running"
        BY <1>2, <3>2
      <4>2. frames[p].pc \in Owning
        BY <3>2, <4>1 DEF Entitled
      <4> QED
        BY <3>2, <4>2 DEF OneOwner
    <3> QED
      BY <1>0, <2>1, <3>1, <3>2
  <2>2. ASSUME NEW t \in Tasks, status'[t] = "running"
        PROVE  \E q \in DOMAIN frames' : frames'[q].pc \in Owning /\ Task(q) = t
    <3>1. CASE r.pc \in Owning /\ t = Task(p)
      BY <1>0, <3>1
    <3>2. CASE ~(r.pc \in Owning /\ t = Task(p))
      <4>1. status[t] = "running" /\ (t = Task(p) => frames[p].pc \notin Owning)
        BY <1>0, <2>2, <3>2 DEF TableStep, Entitled
      <4>2. PICK q \in DOMAIN frames : frames[q].pc \in Owning /\ Task(q) = t
        BY <4>1 DEF OneOwner
      <4>3. q # p /\ q \notin gone
        BY <4>1, <4>2 DEF CallStep, Owning
      <4> QED
        BY <4>2, <4>3 DEF CallStep
    <3> QED
      BY <3>1, <3>2
  <2> QED
    BY <2>1, <2>2 DEF OneOwner, Task
<1>7. Logged'
  <2>0. log \in Seq(Tasks) /\ Len(log) \in Nat
    BY DEF Typed
  <2>1. CASE log' = log
    BY <1>0, <2>0, <2>1 DEF Logged, RunsOnce, TableStep
  <2>2. CASE log' = Append(log, Task(p)) /\ frames[p].pc = "edges" /\ ~InLog(Task(p))
             /\ status' = status
    <3>1. Len(log') = Len(log) + 1 /\ log'[Len(log) + 1] = Task(p)
          /\ \A k \in 1 .. Len(log) : log'[k] = log[k]
      BY <1>0, <2>0, <2>2
    <3>2. status[Task(p)] = "running"
      BY <2>2 DEF Informed, Knows, Owning
    <3>3. \A k \in 1 .. Len(log) : log[k] # Task(p)
      BY <2>2 DEF InLog
    <3> QED
      BY <2>0, <2>2, <3>1, <3>2, <3>3 DEF Logged, RunsOnce
  <2> QED
    BY <2>1, <2>2 DEF LogStep
<1>8. Complete'
  <2> SUFFICES ASSUME NEW t \in Tasks, status'[t] = "succeeded"
               PROVE  Succeeded(DependsOn(manifest, t))' /\ Succeeded(NextTasks(manifest, t))'
    BY DEF Complete
  <2>1. Succeeded(DependsOn(manifest, t)) /\ Succeeded(NextTasks(manifest, t))
    BY <1>0 DEF Complete, Entitled, TableStep
  <2>2. DependsOn(manifest, t)' = DependsOn(manifest, t)
        /\ NextTasks(manifest, t)' = NextTasks(manifest, t)
    BY <1>0
  <2> QED
    BY <1>1, <2>1, <2>2, Edged DEF Succeeded
<1>9. Stacked'
  <2>1. ASSUME NEW q \in DOMAIN frames', NEW n \in 1 .. Len(q) - 1
        PROVE  /\ SubSeq(q, 1, n) \in DOMAIN frames'
               /\ frames'[SubSeq(q, 1, n)].pc \notin Before \cup {"returned"}
    <3>1. /\ SubSeq(q, 1, n) \in DOMAIN frames
          /\ frames[SubSeq(q, 1, n)].pc \notin Before \cup {"returned"}
          /\ q \in DOMAIN frames \ gone
      BY <1>0 DEF Stacked, CallStep
    <3>2. SubSeq(q, 1, n) \notin gone
      BY <3>1 DEF CallStep
    <3>3. SubSeq(q, 1, n) \in DOMAIN frames'
      BY <3>1, <3>2 DEF CallStep
    <3>4. SubSeq(q, 1, n) = p => r.pc \notin Before \cup {"returned"}
      BY <3>1
    <3> QED
      BY <1>0, <3>1, <3>3, <3>4
  <2>2. \A q \in DOMAIN frames' : Len(q) = 1 => q = <<Roots'[root']>>
    BY <1>0 DEF Stacked, Roots
  <2> QED
    BY <2>1, <2>2 DEF Stacked
<1>10. Ended'
  <2>1. Roots \in Seq(Tasks) /\ Roots' = Roots /\ root \in 1 .. Len(Roots)
    BY <1>0, TaskAssumption DEF Roots, Typed
  <2>2. \A k \in 1 .. root - 1 : Roots[k] \in Tasks
    BY <2>1
  <2> QED
    BY <1>0, <1>1, <2>1, <2>2 DEF Ended
<1>11. AllServed'
  <2> SUFFICES ASSUME NEW q \in DOMAIN frames', q # p
               PROVE  Served(q, frames[q])'
    BY <1>0 DEF AllServed
  <2>1. q \in DOMAIN frames /\ Served(q, frames[q]) /\ frames'[q] = frames[q]
    BY <1>0 DEF AllServed
  <2>2. \A t \in Tasks : Append(q, t) \notin gone
    <3> SUFFICES ASSUME NEW t \in Tasks, Append(q, t) \in gone
                 PROVE  FALSE
      OBVIOUS
    <3>1. q \in Seq(Tasks) /\ q # << >> /\ p \in Seq(Tasks) /\ Len(p) \in Nat
      BY <1>0, <2>1
    <3>2. /\ Len(Append(q, t)) = Len(q) + 1 /\ Len(q) \in Nat \ {0} /\ SubSeq(q, 1, Len(q)) = q
          /\ SubSeq(Append(q, t), 1, Len(q)) = SubSeq(q, 1, Len(q))
      BY <3>1, Paths
    <3>3. Len(Append(q, t)) = Len(p) + 1 /\ SubSeq(Append(q, t), 1, Len(p)) = p
      BY DEF CallStep
    <3>4. \A m, n \in Nat : m + 1 = n + 1 => m = n
      OBVIOUS
    <3>5. Len(q) = Len(p)
      BY <3>1, <3>2, <3>3, <3>4
    <3> QED
      BY <3>2, <3>3, <3>5
  <2>3. frames[q] \in Frame
    BY <2>1 DEF Typed
  <2>4. \A t \in Tasks : Append(q, t) \in DOMAIN frames' <=> Append(q, t) \in DOMAIN frames
    BY <2>2 DEF CallStep
  <2> QED
    BY <1>0, <1>1, <2>1, <2>3, <2>4, ServedKept
<1> QED
  BY <1>4, <1>5, <1>6, <1>7, <1>8, <1>9, <1>10, <1>11

-----------------------------------------------------------------------------
\* A call that is not inside its task has called nobody.
LEMMA Leaf ==
  ASSUME RunnerInv, NEW p \in DOMAIN frames, frames[p].pc \in Before \cup {"returned"},
         NEW q \in DOMAIN frames, NEW n \in 1 .. Len(q) - 1
  PROVE  SubSeq(q, 1, n) # p
  BY DEF RunnerInv, Stacked

\* Steps that leave the table alone: the call goes on from its locals to r.
LEMMA LocalInv ==
  ASSUME RunnerInv, NEW p \in DOMAIN frames, NEW r \in Frame,
         frames' = [frames EXCEPT ![p] = r], UNCHANGED <<manifest, status, root, exit, log>>,
         Knows(p, r), Served(p, r), r.pc \in Owning <=> frames[p].pc \in Owning,
         r.pc \in Before \cup {"returned"} => frames[p].pc \in Before \cup {"returned"}
  PROVE  RunnerInv'
<1>1. CallStep(p, r, {})
  BY DEF CallStep
<1>2. TableStep(p) /\ Entitled(p, r) /\ LogStep(p)
  BY DEF TableStep, Entitled, LogStep, RunnerInv, Typed
<1>3. Knows(p, r)' /\ Served(p, r)'
  BY KnowsKept, ServedKept DEF RunnerInv, InLog
<1>4. r.pc \in Before \cup {"returned"} =>
        \A q \in DOMAIN frames \ {} : \A n \in 1 .. Len(q) - 1 : SubSeq(q, 1, n) # p
  BY Leaf
<1> QED
  BY <1>1, <1>2, <1>3, <1>4, CallInv

LEMMA CycleFoundInv ==
  ASSUME RunnerInv, NEW p \in DOMAIN frames, CycleFound(p)
  PROVE  RunnerInv'
<1> DEFINE r == [frames[p] EXCEPT !.pc = "returned", !.ok = FALSE]
<1>1. frames[p] \in Frame /\ frames[p].pc = "called"
  BY DEF RunnerInv, Typed, CycleFound
<1>2. r \in Frame /\ frames' = [frames EXCEPT ![p] = r]
  BY <1>1 DEF Frame, After, CycleFound, Return
<1>3. Knows(p, r) /\ Served(p, r)
  BY <1>1 DEF Knows, Served, Before, Owning, After, Frame
<1>4. /\ r.pc \in Owning <=> frames[p].pc \in Owning
      /\ frames[p].pc \in Before \cup {"returned"}
  BY <1>1 DEF Frame, Before, Owning
<1> QED
  BY <1>2, <1>3, <1>4, LocalInv DEF CycleFound

LEMMA WaitInv ==
  ASSUME RunnerInv, NEW p \in DOMAIN frames, Wait(p)
  PROVE  RunnerInv'
<1> DEFINE r == [frames[p] EXCEPT !.pc = "waiting"]
<1>1. frames[p] \in Frame /\ frames[p].pc \in Before /\ Knows(p, frames[p])
  BY DEF RunnerInv, Typed, Informed, Wait, AtTable, Before
<1>2. r \in Frame /\ frames' = [frames EXCEPT ![p] = r]
  BY <1>1 DEF Frame, Before, Wait
<1>3. Knows(p, r) /\ Served(p, r)
  BY <1>1 DEF Knows, Served, Before, Owning, After, Frame
<1>4. /\ r.pc \in Owning <=> frames[p].pc \in Owning
      /\ frames[p].pc \in Before \cup {"returned"}
  BY <1>1 DEF Frame, Before, Owning
<1> QED
  BY <1>2, <1>3, <1>4, LocalInv DEF Wait

LEMMA AlreadyRunInv ==
  ASSUME RunnerInv, NEW p \in DOMAIN frames, AlreadyRun(p)
  PROVE  RunnerInv'
<1> DEFINE ok == status[Task(p)] = "succeeded"
           r == [frames[p] EXCEPT !.pc = "returned", !.ok = ok]
<1>1. frames[p] \in Frame /\ frames[p].pc \in Before /\ ok \in BOOLEAN
  BY DEF RunnerInv, Typed, AlreadyRun, AtTable, Before
<1>2. frames' = [frames EXCEPT ![p] = r]
  BY <1>1 DEF AlreadyRun, Return
<1>3. ok = TRUE => status[Task(p)] = "succeeded"
  OBVIOUS
<1> HIDE DEF ok
<1>4. r \in Frame /\ r.pc = "returned" /\ r.ok = ok
  BY <1>1 DEF Frame, After
<1>5. Knows(p, r) /\ Served(p, r)
  BY <1>3, <1>4 DEF Knows, Served, Before, Owning, After
<1>6. /\ r.pc \in Owning <=> frames[p].pc \in Owning
      /\ frames[p].pc \in Before \cup {"returned"}
  BY <1>1, <1>4 DEF Before, Owning
<1> QED
  BY <1>2, <1>4, <1>5, <1>6, LocalInv DEF AlreadyRun

LEMMA EndCommandsInv ==
  ASSUME RunnerInv, NEW p \in DOMAIN frames, NEW ok \in BOOLEAN, EndCommands(p, ok)
  PROVE  RunnerInv'
<1> DEFINE r == IF ok THEN [frames[p] EXCEPT !.pc = "edges", !.list = "next", !.i = 1]
                      ELSE [frames[p] EXCEPT !.pc = "failing"]
<1>1. /\ frames[p] \in Frame /\ frames[p].pc = "commands" /\ Knows(p, frames[p])
      /\ \A t \in Tasks : Append(p, t) \notin DOMAIN frames
  BY DEF RunnerInv, Typed, Informed, AllServed, Served, Nobody, EndCommands
<1>2. r \in Frame /\ frames' = [frames EXCEPT ![p] = r]
  <2>1. CASE ok = TRUE
    <3>1. frames' = [frames EXCEPT ![p].pc = "edges", ![p].list = "next", ![p].i = 1]
      BY <2>1 DEF EndCommands
    <3>2. frames' = [frames EXCEPT ![p] =
                       [frames[p] EXCEPT !.pc = "edges", !.list = "next", !.i = 1]]
      BY <3>1, Zenon
    <3>3. r \in Frame
      <4>1. "edges" \in Before \cup Owning \cup After /\ 1 \in Nat \ {0}
        BY DEF Owning
      <4>2. [frames[p] EXCEPT !.pc = "edges", !.list = "next", !.i = 1] \in Frame
        BY <1>1, <4>1 DEF Frame
      <4> QED
        BY <2>1, <4>2
    <3> QED
      BY <2>1, <3>2, <3>3
  <2>2. CASE ok = FALSE
    BY <1>1, <2>2 DEF Frame, Owning, EndCommands
  <2> QED
    BY <2>1, <2>2
<1>l. frames[p].launched = FALSE
  BY DEF RunnerInv, Informed, Knows, EndCommands
<1>3. Knows(p, r)
  BY <1>1 DEF Knows, Before, Owning, After, Frame
<1>s. Served(p, r)
  <2>1. r.launched = FALSE /\ (r.pc = "edges" => r.i = 1)
    BY <1>1, <1>l DEF Frame
  <2> QED
    BY <1>1, <2>1 DEF Served, Nobody
<1>4. r.pc \in Owning /\ frames[p].pc \in Owning /\ r.pc \notin Before \cup {"returned"}
  BY <1>1 DEF Frame, Before, Owning
<1> QED
  BY <1>2, <1>3, <1>s, <1>4, LocalInv DEF EndCommands

LEMMA SignFailsInv ==
  ASSUME RunnerInv, NEW p \in DOMAIN frames, SignFails(p)
  PROVE  RunnerInv'
<1> DEFINE r == [frames[p] EXCEPT !.pc = "failing"]
<1>1. frames[p] \in Frame /\ frames[p].pc = "edges" /\ Knows(p, frames[p])
  BY DEF RunnerInv, Typed, Informed, SignFails, Finished
<1>2. r \in Frame /\ frames' = [frames EXCEPT ![p] = r]
  BY <1>1 DEF Frame, Owning, SignFails
<1>3. Knows(p, r) /\ Served(p, r)
  BY <1>1 DEF Knows, Served, Before, Owning, After, Frame
<1>4. r.pc \in Owning /\ frames[p].pc \in Owning /\ r.pc \notin Before \cup {"returned"}
  BY <1>1 DEF Frame, Before, Owning
<1> QED
  BY <1>2, <1>3, <1>4, LocalInv DEF SignFails

-----------------------------------------------------------------------------
LEMMA ClaimInv ==
  ASSUME RunnerInv, NEW p \in DOMAIN frames, Claim(p)
  PROVE  RunnerInv'
<1> DEFINE to == IF Task(p) \in manifest.runnable THEN "edges" ELSE "failing"
<1>r. PICK r : r = [frames[p] EXCEPT !.pc = to]
  OBVIOUS
<1>1. /\ frames[p] \in Frame /\ frames[p].pc \in Before /\ Knows(p, frames[p])
      /\ status[Task(p)] = "not_started" /\ p \in Seq(Tasks) /\ p # << >>
      /\ status' = [status EXCEPT ![Task(p)] = "running"]
      /\ UNCHANGED <<manifest, root, exit, log>>
  BY DEF RunnerInv, Typed, Informed, Claim, AtTable, Before
<1>2. Task(p) \in Tasks
  BY <1>1, Paths
<1>3. to \in Owning /\ to \in {"edges", "failing"} /\ frames' = [frames EXCEPT ![p] = r]
  BY <1>r, <1>1 DEF Claim, Owning
<1> HIDE DEF to
<1>4. /\ r \in Frame /\ r.pc = to /\ r.list = "deps" /\ r.i = 1 /\ r.launched = FALSE
  BY <1>r, <1>1, <1>3 DEF Frame, Knows
<1>5. CallStep(p, r, {})
  BY <1>1, <1>3, <1>4 DEF CallStep
<1>6. TableStep(p) /\ Entitled(p, r) /\ LogStep(p)
  BY <1>1, <1>2, <1>3, <1>4 DEF TableStep, Entitled, LogStep, RunnerInv, Typed
<1>7. ~InLog(Task(p))
  BY <1>1 DEF RunnerInv, Logged, InLog
<1>8. Knows(p, r)'
  <2>1. Task(p)' = Task(p) /\ ~InLog(Task(p))'
    BY <1>1, <1>7 DEF Task, InLog
  <2>2. status'[Task(p)] = "running" /\ \A k \in Nat : k >= 1 => ~(k < r.i)
    BY <1>1, <1>2, <1>4 DEF RunnerInv, Typed
  <2> QED
    BY <1>3, <1>4, <2>1, <2>2 DEF Knows, Before, Owning, After
<1>9. \A t \in Tasks : Append(p, t) \notin DOMAIN frames
  <2> SUFFICES ASSUME NEW t \in Tasks, Append(p, t) \in DOMAIN frames
               PROVE  FALSE
    OBVIOUS
  <2>1. Len(p) \in 1 .. Len(Append(p, t)) - 1 /\ SubSeq(Append(p, t), 1, Len(p)) = p
    BY <1>1, Paths
  <2> QED
    BY <1>1, <2>1, Leaf
<1>10. Served(p, r)'
  BY <1>3, <1>4, <1>9 DEF Served, Nobody
<1>11. r.pc \in Before \cup {"returned"} =>
         \A q \in DOMAIN frames \ {} : \A n \in 1 .. Len(q) - 1 : SubSeq(q, 1, n) # p
  BY <1>3, <1>4 DEF Before
<1> QED
  BY <1>5, <1>6, <1>8, <1>10, <1>11, CallInv

LEMMA StartCommandsInv ==
  ASSUME RunnerInv, NEW p \in DOMAIN frames, StartCommands(p)
  PROVE  RunnerInv'
<1> DEFINE to == IF Task(p) \in manifest.hasWork THEN "commands" ELSE "failing"
<1>r. PICK r : r = [frames[p] EXCEPT !.pc = to]
  OBVIOUS
<1>1. /\ frames[p] \in Frame /\ frames[p].pc = "edges" /\ frames[p].list = "deps"
      /\ frames[p].launched = FALSE /\ frames[p].i > Len(Edges(p))
      /\ Knows(p, frames[p]) /\ Served(p, frames[p]) /\ p \in Seq(Tasks) /\ p # << >>
      /\ UNCHANGED <<manifest, status, root, exit>>
  BY DEF RunnerInv, Typed, Informed, AllServed, StartCommands, Finished, Frame
<1>2. Task(p) \in Tasks /\ Typed
  BY <1>1, Paths DEF RunnerInv
<1>3. /\ to \in {"commands", "failing"} /\ frames' = [frames EXCEPT ![p] = r]
      /\ log' = Append(log, Task(p)) \/ log' = log
  BY <1>r, <1>1 DEF StartCommands
<1> HIDE DEF to
<1>4. r \in Frame /\ r.pc = to /\ to \in Owning /\ r.launched = FALSE
  BY <1>r, <1>1, <1>3 DEF Frame, Owning
<1>5. CallStep(p, r, {})
  BY <1>1, <1>3, <1>4 DEF CallStep
<1>6. ~InLog(Task(p)) /\ status[Task(p)] = "running"
  BY <1>1 DEF Knows, Owning
<1>7. TableStep(p) /\ Entitled(p, r) /\ LogStep(p)
  BY <1>1, <1>3, <1>4, <1>6 DEF TableStep, Entitled, LogStep, RunnerInv, Typed, Owning
<1>8. Succeeded(DependsOn(manifest, Task(p)))
  <2>1. Edges(p) = DependsOn(manifest, Task(p)) /\ Len(DependsOn(manifest, Task(p))) \in Nat
        /\ frames[p].i \in Nat
    BY <1>1, <1>2, Edged DEF Edges, Frame
  <2> QED
    BY <1>1, <2>1 DEF Knows, Succeeded
<1>9. Knows(p, r)'
  <2>1. Task(p)' = Task(p)
    BY DEF Task
  <2>2. DependsOn(manifest, Task(p))' = DependsOn(manifest, Task(p))
    BY <1>1, <2>1
  <2>3. Succeeded(DependsOn(manifest, Task(p)))' /\ status'[Task(p)] = "running"
    BY <1>1, <1>6, <1>8, <2>2 DEF Succeeded
  <2> QED
    BY <1>3, <1>4, <2>1, <2>3 DEF Knows, Before, Owning, After
<1>10. Served(p, r)'
  <2>1. DOMAIN frames' = DOMAIN frames /\ r.pc # "edges"
    BY <1>3, <1>4
  <2> QED
    BY <1>1, <2>1 DEF Served, Nobody
<1>11. r.pc \in Before \cup {"returned"} =>
         \A q \in DOMAIN frames \ {} : \A n \in 1 .. Len(q) - 1 : SubSeq(q, 1, n) # p
  BY <1>3, <1>4 DEF Before
<1> QED
  BY <1>5, <1>7, <1>9, <1>10, <1>11, CallInv

LEMMA SettleInv ==
  ASSUME RunnerInv, NEW p \in DOMAIN frames, NEW ok \in BOOLEAN, Settle(p, ok)
  PROVE  RunnerInv' /\ status[Task(p)] = "running"
<1> DEFINE s == IF ok THEN "succeeded" ELSE "failed"
<1>r. PICK r : r = [frames[p] EXCEPT !.pc = "notify", !.ok = ok]
  OBVIOUS
<1>1. /\ frames[p] \in Frame /\ frames[p].pc \in {"edges", "failing"}
      /\ Knows(p, frames[p]) /\ p \in Seq(Tasks) /\ p # << >>
      /\ status' = [status EXCEPT ![Task(p)] = s]
      /\ UNCHANGED <<manifest, root, exit, log>>
  BY DEF RunnerInv, Typed, Informed, Settle, Finished
<1>2. Task(p) \in Tasks /\ Typed /\ status[Task(p)] = "running"
  BY <1>1, Paths DEF RunnerInv, Knows, Owning
<1>3. frames' = [frames EXCEPT ![p] = r]
  BY <1>r, <1>1 DEF Settle
<1>4. r \in Frame /\ r.pc = "notify" /\ r.ok = ok
  BY <1>r, <1>1 DEF Frame, After
<1>5. s \in {"succeeded", "failed"} /\ (s = "succeeded" => ok)
  OBVIOUS
<1>6. ok => /\ Succeeded(DependsOn(manifest, Task(p)))
            /\ Succeeded(NextTasks(manifest, Task(p)))
  <2> SUFFICES ASSUME ok PROVE Succeeded(DependsOn(manifest, Task(p)))
                               /\ Succeeded(NextTasks(manifest, Task(p)))
    OBVIOUS
  <2>1. frames[p].pc = "edges" /\ frames[p].list = "next" /\ frames[p].i > Len(Edges(p))
    BY DEF Settle, Finished
  <2>2. Edges(p) = NextTasks(manifest, Task(p)) /\ Len(NextTasks(manifest, Task(p))) \in Nat
        /\ frames[p].i \in Nat
    BY <1>1, <1>2, <2>1, Edged DEF Edges, Frame
  <2> QED
    BY <1>1, <2>1, <2>2 DEF Knows, Succeeded
<1>7. ok = TRUE => s = "succeeded"
  OBVIOUS
<1> HIDE DEF s
<1>8. CallStep(p, r, {})
  BY <1>1, <1>3, <1>4 DEF CallStep
<1>9. TableStep(p) /\ LogStep(p)
  BY <1>1, <1>2, <1>5 DEF TableStep, LogStep, RunnerInv, Typed
<1>10. Entitled(p, r)
  BY <1>1, <1>2, <1>4, <1>5, <1>6 DEF Entitled, RunnerInv, Typed, Owning
<1>11. Knows(p, r)' /\ Served(p, r)'
  <2>1. Task(p)' = Task(p) /\ status'[Task(p)] = s
    BY <1>1, <1>2 DEF Task, Typed
  <2> QED
    BY <1>4, <1>7, <2>1 DEF Knows, Served, Before, Owning, After
<1>12. r.pc \in Before \cup {"returned"} =>
         \A q \in DOMAIN frames \ {} : \A n \in 1 .. Len(q) - 1 : SubSeq(q, 1, n) # p
  BY <1>4 DEF Before
<1> QED
  BY <1>2, <1>8, <1>9, <1>10, <1>11, <1>12, CallInv

-----------------------------------------------------------------------------
LEMMA CollectInv ==
  ASSUME RunnerInv, NEW p \in DOMAIN frames, Collect(p)
  PROVE  RunnerInv'
<1>e. PICK e : e = Edges(p)[frames[p].i]
  OBVIOUS
<1>q. PICK q : q = Append(p, e)
  OBVIOUS
<1>f. PICK gone : gone = {q} \cap DOMAIN frames
  OBVIOUS
<1>1. /\ frames[p] \in Frame /\ frames[p].pc = "edges" /\ frames[p].launched = TRUE
      /\ Knows(p, frames[p]) /\ Launched(p, frames[p]) /\ p \in Seq(Tasks) /\ p # << >>
      /\ q \in DOMAIN frames =>
           frames[q].pc = "returned" /\ frames[q].ok \in BOOLEAN /\ Knows(q, frames[q])
      /\ UNCHANGED <<manifest, status, root, exit, log>>
  BY <1>e, <1>q DEF RunnerInv, Typed, Informed, AllServed, Served, Collect, Frame
<1>t. Task(p) \in Tasks /\ Typed
  BY <1>1, Paths DEF RunnerInv
<1>l. /\ ListOf(p, frames[p]) = Edges(p) /\ Edges(p) \in Seq(Tasks) /\ Len(Edges(p)) \in Nat
      /\ frames[p].i \in Nat \ {0} /\ frames[p].list \in {"deps", "next"}
      /\ frames[p].i \in 1 .. Len(Edges(p)) /\ AtOnce(p, frames[p]) = IsParallel(p)
  BY <1>1, <1>t, Edged DEF ListOf, Edges, Frame, Launched, AtOnce, IsParallel
<1>2. /\ e \in Tasks /\ Task(q) = e /\ q # p /\ Len(p) \in Nat \ {0}
      /\ Len(q) = Len(p) + 1 /\ SubSeq(q, 1, Len(p)) = p
  <2>1. e \in Tasks
    BY <1>e, <1>l
  <2>2. /\ Len(p) \in Nat \ {0} /\ Len(q) = Len(p) + 1 /\ Task(q) = e
        /\ SubSeq(q, 1, Len(p)) = p
    BY <1>1, <1>q, <2>1, Paths
  <2>3. q # p
    BY <2>2
  <2> QED
    BY <2>1, <2>2, <2>3
<1>3. PICK r :
        r = IF q \notin DOMAIN frames \/ frames[q].ok
            THEN [frames[p] EXCEPT !.i = @ + 1,
                    !.launched = IsParallel(p) /\ frames[p].i < Len(Edges(p))]
            ELSE [frames[p] EXCEPT !.pc = IF frames[p].list = "deps" THEN "joining" ELSE "failing"]
  OBVIOUS
<1>4. frames' = [Without(frames, {q}) EXCEPT ![p] = r]
  <2>1. Without(frames, {q})[p] = frames[p]
    BY <1>2 DEF Without
  <2>2. CASE q \notin DOMAIN frames \/ frames[q].ok
    <3>1. frames' = [Without(frames, {q}) EXCEPT ![p].i = @ + 1,
                      ![p].launched = IsParallel(p) /\ frames[p].i < Len(Edges(p))]
      BY <1>e, <1>q, <2>2 DEF Collect
    <3>2. frames' = [Without(frames, {q}) EXCEPT ![p] =
                      [Without(frames, {q})[p] EXCEPT !.i = @ + 1,
                         !.launched = IsParallel(p) /\ frames[p].i < Len(Edges(p))]]
      BY <3>1, Zenon
    <3> QED
      BY <1>3, <2>1, <2>2, <3>2
  <2>3. CASE ~(q \notin DOMAIN frames \/ frames[q].ok)
    BY <1>e, <1>q, <1>3, <2>1, <2>3 DEF Collect
  <2> QED
    BY <2>2, <2>3
<1>g. /\ DOMAIN frames' = DOMAIN frames \ gone /\ frames'[p] = r
      /\ \A x \in DOMAIN frames \ gone : x # p => frames'[x] = frames[x]
  BY <1>f, <1>2, <1>4 DEF Without
<1>c. r \in Frame => CallStep(p, r, gone)
  BY <1>1, <1>2, <1>f, <1>g DEF CallStep
<1>5. CASE ~(q \notin DOMAIN frames \/ frames[q].ok)
  <2>1. r \in Frame /\ r.pc \in {"joining", "failing"}
    BY <1>1, <1>3, <1>5 DEF Frame, Owning
  <2>3. TableStep(p) /\ Entitled(p, r) /\ LogStep(p)
    BY <1>1, <1>t, <2>1 DEF TableStep, Entitled, LogStep, Typed, Owning
  <2>4. Knows(p, r)' /\ Served(p, r)'
    <3>1. Task(p)' = Task(p) /\ status'[Task(p)] = "running"
      BY <1>1 DEF Task, Knows, Owning
    <3> QED
      BY <2>1, <3>1 DEF Knows, Served, Before, Owning, After
  <2>5. r.pc \in Before \cup {"returned"} =>
          \A x \in DOMAIN frames \ gone : \A n \in 1 .. Len(x) - 1 : SubSeq(x, 1, n) # p
    BY <2>1 DEF Before
  <2> QED
    BY <1>c, <2>1, <2>3, <2>4, <2>5, CallInv
<1>6. CASE q \notin DOMAIN frames \/ frames[q].ok
  <2>1. /\ r.pc = "edges" /\ r.list = frames[p].list /\ r.i = frames[p].i + 1
        /\ r.launched = (IsParallel(p) /\ frames[p].i < Len(Edges(p)))
    BY <1>1, <1>3, <1>6 DEF Frame
  <2>2. r \in Frame
    <3>1. (IsParallel(p) /\ frames[p].i < Len(Edges(p))) \in BOOLEAN
          /\ frames[p].i + 1 \in Nat \ {0}
      BY <1>l
    <3> QED
      BY <1>1, <1>3, <1>6, <3>1 DEF Frame
  <2>4. TableStep(p) /\ Entitled(p, r) /\ LogStep(p)
    BY <1>1, <1>t, <2>1 DEF TableStep, Entitled, LogStep, Typed, Owning
  <2>5. status[e] = "succeeded"
    <3>1. CASE q \in DOMAIN frames
      BY <1>1, <1>2, <1>6, <3>1 DEF Knows, After
    <3>2. CASE q \notin DOMAIN frames
      <4>1. frames[p].i \in frames[p].i .. Len(ListOf(p, frames[p]))
        BY <1>l
      <4> QED
        BY <1>1, <1>e, <1>q, <1>l, <3>2, <4>1 DEF Launched
    <3> QED
      BY <3>1, <3>2
  <2>6. Knows(p, r)
    <3>1. r.list = "deps" => Edges(p) = DependsOn(manifest, Task(p))
      BY <2>1 DEF Edges
    <3>2. r.list = "next" => Edges(p) = NextTasks(manifest, Task(p))
      BY <2>1, <1>l DEF Edges
    <3>3. Len(DependsOn(manifest, Task(p))) \in Nat /\ Len(NextTasks(manifest, Task(p))) \in Nat
      BY <1>t, Edged
    <3>4. \A k \in Nat : k < r.i => k < frames[p].i \/ k = frames[p].i
      BY <1>l, <2>1
    <3> QED
      BY <1>1, <1>e, <1>l, <2>1, <2>5, <3>1, <3>2, <3>3, <3>4 DEF Knows, Before, Owning, After
  <2>7. Knows(p, r)'
    BY <1>1, <2>6, <1>t, KnowsKept DEF InLog
  <2>8. Served(p, r)'
    <3>1. /\ ListOf(p, r)' = Edges(p) /\ AtOnce(p, r)' = IsParallel(p)
      BY <1>1, <1>l, <2>1 DEF ListOf, Edges, Task, AtOnce, IsParallel
    <3>3. ASSUME NEW t \in Tasks, Append(p, t) \in DOMAIN frames'
          PROVE  \E k \in frames[p].i + 1 .. Len(Edges(p)) : t = Edges(p)[k] /\ IsParallel(p)
      <4>1. Append(p, t) \in DOMAIN frames /\ Append(p, t) # q
        BY <1>f, <1>g, <3>3
      <4>2. t # e
        BY <1>q, <4>1
      <4>3. PICK k \in frames[p].i .. Len(Edges(p)) :
               t = Edges(p)[k] /\ (k = frames[p].i \/ IsParallel(p))
        BY <1>1, <1>l, <4>1 DEF Launched
      <4>4. k # frames[p].i
        BY <1>e, <4>2, <4>3
      <4>5. k \in frames[p].i + 1 .. Len(Edges(p))
        BY <1>l, <4>3, <4>4
      <4> QED
        BY <4>3, <4>4, <4>5
    <3>4. CASE IsParallel(p) /\ frames[p].i < Len(Edges(p))
      <4>1. frames[p].i + 1 <= Len(Edges(p))
        BY <1>l, <3>4
      <4>2. ASSUME NEW k \in frames[p].i + 1 .. Len(Edges(p))
            PROVE  Append(p, Edges(p)[k]) \in DOMAIN frames' \/ status'[Edges(p)[k]] = "succeeded"
        <5>1. k \in frames[p].i .. Len(Edges(p))
          BY <1>l
        <5>2. Append(p, Edges(p)[k]) \in DOMAIN frames \/ status[Edges(p)[k]] = "succeeded"
          BY <1>1, <1>l, <3>4, <5>1 DEF Launched
        <5>3. Append(p, Edges(p)[k]) = q => Edges(p)[k] = e
          <6>1. Edges(p)[k] \in Tasks
            BY <1>l, <5>1
          <6>2. Task(Append(p, Edges(p)[k])) = Edges(p)[k]
            BY <1>1, <6>1, Paths
          <6> QED
            BY <1>2, <6>2
        <5> QED
          BY <1>1, <1>f, <1>g, <2>5, <5>2, <5>3
      <4>3. Launched(p, r)'
        BY <2>1, <3>1, <3>3, <4>1, <4>2 DEF Launched
      <4> QED
        BY <2>1, <3>4, <4>3 DEF Served
    <3>5. CASE ~(IsParallel(p) /\ frames[p].i < Len(Edges(p)))
      <4>1. Nobody(p)'
        BY <1>l, <3>3, <3>5 DEF Nobody
      <4>2. IsParallel(p) => r.i > Len(Edges(p))
        BY <1>l, <2>1, <3>5
      <4> QED
        BY <2>1, <3>1, <3>5, <4>1, <4>2 DEF Served
    <3> QED
      BY <3>4, <3>5
  <2>9. r.pc \in Before \cup {"returned"} =>
          \A x \in DOMAIN frames \ gone : \A n \in 1 .. Len(x) - 1 : SubSeq(x, 1, n) # p
    BY <2>1 DEF Before
  <2> QED
    BY <1>c, <2>2, <2>4, <2>7, <2>8, <2>9, CallInv
<1> QED
  BY <1>5, <1>6

LEMMA JoinFuturesInv ==
  ASSUME RunnerInv, NEW p \in DOMAIN frames, NEW before, NEW after, JoinFutures(p, before, after),
         <<before, after>> \in {<<"joining", "failing">>, <<"leaving", "returned">>}
  PROVE  RunnerInv'
<1>r. PICK r : r = [frames[p] EXCEPT !.pc = after]
  OBVIOUS
<1>c. PICK gone : gone = Children(p)
  OBVIOUS
<1>1. /\ frames[p] \in Frame /\ frames[p].pc = before /\ Knows(p, frames[p])
      /\ p \in Seq(Tasks) /\ p # << >> /\ Len(p) \in Nat \ {0}
      /\ UNCHANGED <<manifest, status, root, exit, log>>
      /\ (before = "joining" /\ after = "failing") \/ (before = "leaving" /\ after = "returned")
  BY DEF RunnerInv, Typed, Informed, JoinFutures
<1>2. /\ \A q \in gone : /\ q \in DOMAIN frames /\ frames[q].pc = "returned"
                         /\ Len(q) = Len(p) + 1 /\ SubSeq(q, 1, Len(p)) = p
      /\ p \notin gone
  BY <1>1, <1>c DEF Children, JoinFutures, IsPrefix
<1>3. Task(p) \in Tasks /\ Typed
  BY <1>1, Paths DEF RunnerInv
<1>4. /\ DOMAIN frames' = DOMAIN frames \ gone /\ frames'[p] = r
      /\ \A q \in DOMAIN frames \ gone : q # p => frames'[q] = frames[q]
  BY <1>r, <1>c, <1>2 DEF Without, JoinFutures
<1>5. r \in Frame /\ r.pc = after /\ r.ok = frames[p].ok
  BY <1>r, <1>1 DEF Frame, Owning, After
<1>6. CallStep(p, r, gone)
  BY <1>1, <1>2, <1>4, <1>5 DEF CallStep
<1>7. TableStep(p) /\ Entitled(p, r) /\ LogStep(p)
  BY <1>1, <1>3, <1>5 DEF TableStep, Entitled, LogStep, Typed, Owning, Knows
<1>8. Knows(p, r)' /\ Served(p, r)'
  <2>1. Task(p)' = Task(p) /\ status' = status
    BY <1>1 DEF Task
  <2> QED
    BY <1>1, <1>5, <2>1 DEF Knows, Served, Before, Owning, After
<1>9. ASSUME r.pc \in Before \cup {"returned"}, NEW q \in DOMAIN frames \ gone,
             NEW n \in 1 .. Len(q) - 1, SubSeq(q, 1, n) = p
      PROVE  FALSE
  <2>1. q \in Seq(Tasks) /\ Len(q) \in Nat
    BY DEF RunnerInv, Typed
  <2>2. n = Len(p) /\ n + 1 \in 1 .. Len(q)
    BY <1>9, <2>1
  <2>3. SubSeq(q, 1, n + 1) \in DOMAIN frames
    <3>1. CASE n + 1 = Len(q)
      <4>1. q # << >>
        BY DEF RunnerInv, Typed
      <4> QED
        BY <2>1, <3>1, <4>1, Paths
    <3>2. CASE n + 1 \in 1 .. Len(q) - 1
      BY <3>2 DEF RunnerInv, Stacked
    <3> QED
      BY <2>1, <2>2, <3>1, <3>2
  <2>4. Len(SubSeq(q, 1, n + 1)) = n + 1 /\ SubSeq(SubSeq(q, 1, n + 1), 1, n) = SubSeq(q, 1, n)
    BY <2>1, <2>2
  <2>5. IsPrefix(p, SubSeq(q, 1, n + 1))
    <3>1. SubSeq(p, 1, Len(p)) = p
      BY <1>1, Paths
    <3> QED
      BY <1>1, <1>9, <2>2, <2>4, <3>1 DEF IsPrefix
  <2>6. SubSeq(q, 1, n + 1) \in gone
    BY <1>c, <2>2, <2>3, <2>4, <2>5 DEF Children
  <2>7. CASE n + 1 = Len(q)
    <3>1. q # << >>
      BY DEF RunnerInv, Typed
    <3>2. SubSeq(q, 1, n + 1) = q
      BY <2>1, <2>7, <3>1, Paths
    <3> QED
      BY <2>6, <3>2
  <2>8. CASE n + 1 \in 1 .. Len(q) - 1
    BY <1>2, <2>6, <2>8 DEF RunnerInv, Stacked
  <2> QED
    BY <2>1, <2>2, <2>7, <2>8
<1> QED
  BY <1>6, <1>7, <1>8, <1>9, CallInv

LEMMA NotifyInv ==
  ASSUME RunnerInv, NEW p \in DOMAIN frames, Notify(p)
  PROVE  RunnerInv'
<1> USE DEF RunnerInv
<1>0. /\ UNCHANGED <<manifest, status, root, exit, log>> /\ DOMAIN frames' = DOMAIN frames
      /\ frames[p].pc = "notify"
  BY DEF Notify
<1>1. ASSUME NEW q \in DOMAIN frames
      PROVE  \/ frames'[q] = frames[q]
             \/ /\ frames[q].pc = "notify" \/ frames[q].pc = "waiting"
                /\ frames'[q] = [frames[q] EXCEPT
                     !.pc = IF frames[q].pc = "notify" THEN "leaving" ELSE "woken"]
  BY <1>0 DEF Notify
<1>2. ASSUME NEW q \in DOMAIN frames
      PROVE  /\ q \in Seq(Tasks) /\ frames'[q] \in Frame
             /\ frames'[q].pc = frames[q].pc
                \/ (frames[q].pc = "notify" /\ frames'[q].pc = "leaving")
                \/ (frames[q].pc = "waiting" /\ frames'[q].pc = "woken")
             /\ frames'[q].list = frames[q].list /\ frames'[q].i = frames[q].i
             /\ frames'[q].launched = frames[q].launched /\ frames'[q].ok = frames[q].ok
  <2>1. q \in Seq(Tasks) /\ frames[q] \in Frame
    BY DEF Typed
  <2>2. CASE frames'[q] = frames[q]
    BY <2>1, <2>2
  <2>3. CASE frames[q].pc = "notify" /\ frames'[q] = [frames[q] EXCEPT !.pc = "leaving"]
    BY <2>1, <2>3 DEF Frame, After
  <2>4. CASE frames[q].pc = "waiting" /\ frames'[q] = [frames[q] EXCEPT !.pc = "woken"]
    BY <2>1, <2>4 DEF Frame, Before
  <2> QED
    BY <1>1, <2>2, <2>3, <2>4
<1>3. \A q \in DOMAIN frames : /\ frames'[q].pc \in Owning <=> frames[q].pc \in Owning
                               /\ frames[q].pc \in Owning => frames'[q].pc = frames[q].pc
                               /\ frames'[q].pc \in Before \cup {"returned"} <=>
                                    frames[q].pc \in Before \cup {"returned"}
  BY <1>2 DEF Before, Owning
<1>4. Typed'
  BY <1>0, <1>2 DEF Typed, Roots
<1>5. Informed'
  <2> SUFFICES ASSUME NEW q \in DOMAIN frames
               PROVE  Knows(q, frames[q])'
    BY <1>0 DEF Informed
  <2>1. Knows(q, frames[q])
    BY DEF Informed
  <2>2. Task(q)' = Task(q) /\ InLog(Task(q))' = InLog(Task(q))
    BY <1>0 DEF Task, InLog
  <2>3. /\ DependsOn(manifest, Task(q))' = DependsOn(manifest, Task(q))
        /\ NextTasks(manifest, Task(q))' = NextTasks(manifest, Task(q))
    BY <1>0, <2>2
  <2>4. Succeeded(DependsOn(manifest, Task(q)))' = Succeeded(DependsOn(manifest, Task(q)))
    BY <1>0, <2>3 DEF Succeeded
  <2> QED
    BY <1>0, <1>2, <2>1, <2>2, <2>3, <2>4 DEF Knows, Before, Owning, After
<1>6. OneOwner'
  BY <1>0, <1>3 DEF OneOwner, Task
<1>7. Logged' /\ Ended'
  BY <1>0 DEF Logged, RunsOnce, Ended, Roots
<1>8. Complete'
  BY <1>0 DEF Complete, Succeeded
<1>9. Stacked'
  BY <1>0, <1>3 DEF Stacked, Roots
<1>10. AllServed'
  <2> SUFFICES ASSUME NEW q \in DOMAIN frames
               PROVE  Served(q, frames[q])'
    BY <1>0 DEF AllServed
  <2>1. Served(q, frames[q])
    BY DEF AllServed
  <2>2. Nobody(q)' = Nobody(q)
    BY <1>0 DEF Nobody
  <2>3. CASE frames[q].pc = "edges"
    <3>1. frames'[q] = frames[q]
      BY <1>1, <2>3
    <3>2. Served(q, frames[q])'
      BY <1>0, <2>1, <3>1, ServedKept DEF Typed
    <3> QED
      BY <3>2
  <2>4. CASE frames[q].pc # "edges"
    <3>1. frames'[q].pc # "edges" /\ (frames'[q].pc = "commands" => frames[q].pc = "commands")
      BY <1>2, <2>4
    <3> QED
      BY <2>1, <2>2, <3>1 DEF Served
  <2> QED
    BY <2>3, <2>4
<1> QED
  BY <1>4, <1>5, <1>6, <1>7, <1>8, <1>9, <1>10

LEMMA LaunchInv ==
  ASSUME RunnerInv, NEW p \in DOMAIN frames, Launch(p)
  PROVE  RunnerInv'
<1> USE DEF RunnerInv
<1>r. PICK r : r = [frames[p] EXCEPT !.launched = TRUE]
  OBVIOUS
<1>s. PICK now : now = IF IsParallel(p) THEN ToSet(Edges(p)) ELSE {Edges(p)[frames[p].i]}
  OBVIOUS
<1>f. PICK new : new = {Append(p, t) : t \in now}
  OBVIOUS
<1>1. /\ frames[p] \in Frame /\ frames[p].pc = "edges" /\ frames[p].launched = FALSE
      /\ frames[p].i \in Nat \ {0} /\ frames[p].i <= Len(Edges(p))
      /\ Knows(p, frames[p]) /\ p \in Seq(Tasks) /\ p # << >> /\ Len(p) \in Nat \ {0}
      /\ \A t \in Tasks : Append(p, t) \notin DOMAIN frames
      /\ AtOnce(p, frames[p]) => frames[p].i = 1 \/ frames[p].i > Len(ListOf(p, frames[p]))
      /\ UNCHANGED <<manifest, status, root, exit, log>>
  BY DEF Typed, Informed, AllServed, Served, Nobody, Launch, Frame
<1>2. Task(p) \in Tasks /\ exit = "none"
  BY <1>1, Paths DEF Ended
<1>3. Edges(p) \in Seq(Tasks) /\ Len(Edges(p)) \in Nat
  BY <1>2, Edged DEF Edges
<1>l. /\ ListOf(p, frames[p]) = Edges(p) /\ ListOf(p, r) = Edges(p) /\ ListOf(p, r)' = Edges(p)
      /\ AtOnce(p, frames[p]) = IsParallel(p) /\ AtOnce(p, r)' = IsParallel(p)
      /\ r \in Frame /\ r.pc = "edges" /\ r.launched = TRUE /\ r.i = frames[p].i
      /\ r.list = frames[p].list /\ (IsParallel(p) => frames[p].i = 1)
  <2>1. /\ r \in Frame /\ r.pc = "edges" /\ r.launched = TRUE /\ r.i = frames[p].i
        /\ r.list = frames[p].list
    BY <1>r, <1>1 DEF Frame
  <2>2. ListOf(p, frames[p]) = Edges(p) /\ ListOf(p, r) = Edges(p) /\ ListOf(p, r)' = Edges(p)
    BY <1>1, <2>1 DEF ListOf, Edges, Task
  <2>3. AtOnce(p, frames[p]) = IsParallel(p) /\ AtOnce(p, r)' = IsParallel(p)
    BY <1>1, <2>2 DEF AtOnce, IsParallel, Task
  <2> QED
    BY <1>1, <1>3, <2>1, <2>2, <2>3
<1>4. ASSUME NEW t \in now
      PROVE  \E k \in frames[p].i .. Len(Edges(p)) :
                t = Edges(p)[k] /\ (k = frames[p].i \/ IsParallel(p))
  <2>1. CASE IsParallel(p)
    <3>1. PICK k \in DOMAIN Edges(p) : t = Edges(p)[k]
      <4>1. t \in ToSet(Edges(p))
        BY <1>s, <1>4, <2>1
      <4> QED
        BY <4>1 DEF ToSet
    <3>2. k \in frames[p].i .. Len(Edges(p))
      <4>1. frames[p].i = 1 /\ k \in 1 .. Len(Edges(p))
        BY <1>3, <1>l, <2>1
      <4> QED
        BY <1>3, <4>1
    <3> QED
      BY <2>1, <3>1, <3>2
  <2>2. CASE ~IsParallel(p)
    BY <1>1, <1>3, <1>s, <1>4, <2>2
  <2> QED
    BY <2>1, <2>2
<1>5. ASSUME NEW k \in frames[p].i .. Len(Edges(p)), k = frames[p].i \/ IsParallel(p)
      PROVE  Edges(p)[k] \in now
  <2>1. k \in DOMAIN Edges(p)
    BY <1>1, <1>3
  <2> QED
    BY <1>s, <1>5, <2>1 DEF ToSet
<1>6. \A t \in now : t \in Tasks
  <2> SUFFICES ASSUME NEW t \in now PROVE t \in Tasks
    OBVIOUS
  <2>1. PICK k \in frames[p].i .. Len(Edges(p)) : t = Edges(p)[k]
    BY <1>4
  <2> QED
    BY <1>1, <1>3, <2>1
<1>7. /\ \A x \in new : \E t \in now : x = Append(p, t) /\ t \in Tasks
      /\ \A t \in Tasks : Append(p, t) \in new => t \in now
      /\ p \notin new
  <2>1. \A t \in Tasks : Task(Append(p, t)) = t /\ Append(p, t) # p
    BY <1>1, Paths
  <2>2. \A x \in new : \E t \in now : x = Append(p, t) /\ t \in Tasks
    BY <1>f, <1>6
  <2> QED
    BY <1>6, <1>f, <2>1, <2>2
<1>8. /\ DOMAIN frames' = DOMAIN frames \cup new /\ frames'[p] = r
      /\ \A x \in new : frames'[x] = Fresh
      /\ \A q \in DOMAIN frames : q # p => frames'[q] = frames[q]
      /\ \A x \in new : x \notin DOMAIN frames
  <2>1. frames' = With([frames EXCEPT ![p].launched = TRUE], new, Fresh)
    BY <1>s, <1>f DEF Launch
  <2>2. \A x \in new : x \notin DOMAIN frames
    BY <1>1, <1>7
  <2> QED
    BY <1>r, <1>7, <2>1, <2>2 DEF With
<1>n. p \in Seq(Tasks) /\ p # << >> /\ Len(p) \in Nat \ {0} /\ SubSeq(p, 1, Len(p)) = p
  BY <1>1, Paths
<1>9. ASSUME NEW x \in new
      PROVE  /\ x \in Seq(Tasks) /\ x # << >> /\ Len(x) = Len(p) + 1
             /\ \A n \in 1 .. Len(p) : SubSeq(x, 1, n) = SubSeq(p, 1, n)
  <2>1. PICK t \in Tasks : x = Append(p, t)
    BY <1>7
  <2> QED
    BY <1>n, <2>1, Paths
<1>10. Fresh \in Frame /\ Fresh.pc = "called" /\ Fresh.launched = FALSE /\ Fresh.list = "deps"
       /\ Fresh.i = 1 /\ Fresh.ok = FALSE
  BY DEF Fresh, Frame, Before
<1>11. Typed'
  <2>1. \A q \in DOMAIN frames' : q \in Seq(Tasks) /\ q # << >> /\ frames'[q] \in Frame
    BY <1>8, <1>9, <1>10, <1>l DEF Typed
  <2> QED
    BY <1>1, <2>1 DEF Typed, Roots
<1>12. Informed'
  <2>1. ASSUME NEW q \in DOMAIN frames, q # p
        PROVE  Knows(q, frames[q])'
    BY <1>1, <2>1, <1>8, KnowsKept DEF Informed, InLog
  <2>2. Knows(p, r)'
    <3>1. Knows(p, r)
      BY <1>1, <1>l DEF Knows, Before, Owning, After
    <3> QED
      BY <1>1, <3>1, KnowsKept DEF InLog
  <2>3. ASSUME NEW x \in new
        PROVE  Knows(x, Fresh)'
    BY <1>10 DEF Knows, Before, Owning, After, Fresh
  <2>4. \A q \in DOMAIN frames : q # p => frames'[q] = frames[q] /\ Knows(q, frames[q])'
    BY <1>8, <2>1
  <2> QED
    BY <1>8, <2>2, <2>3, <2>4 DEF Informed, Fresh
<1>13. OneOwner'
  <2>1. \A q \in DOMAIN frames : frames'[q].pc = frames[q].pc /\ q \in DOMAIN frames'
    BY <1>1, <1>8, <1>l
  <2>2. \A q \in DOMAIN frames' : frames'[q].pc \in Owning => q \in DOMAIN frames
    BY <1>8, <1>10 DEF Owning
  <2> QED
    BY <1>1, <2>1, <2>2 DEF OneOwner, Task
<1>14. Logged' /\ Complete'
  BY <1>1 DEF Logged, RunsOnce, Complete, Succeeded
<1>15. Ended'
  BY <1>1, <1>2 DEF Ended, Roots
<1>16. Stacked'
  <2>1. ASSUME NEW q \in DOMAIN frames, NEW n \in 1 .. Len(q) - 1
        PROVE  /\ SubSeq(q, 1, n) \in DOMAIN frames'
               /\ frames'[SubSeq(q, 1, n)].pc \notin Before \cup {"returned"}
    <3>1. /\ SubSeq(q, 1, n) \in DOMAIN frames
          /\ frames[SubSeq(q, 1, n)].pc \notin Before \cup {"returned"}
      BY DEF Stacked
    <3> QED
      BY <1>1, <1>8, <1>l, <3>1
  <2>2. ASSUME NEW x \in new, NEW n \in 1 .. Len(x) - 1
        PROVE  /\ SubSeq(x, 1, n) \in DOMAIN frames'
               /\ frames'[SubSeq(x, 1, n)].pc \notin Before \cup {"returned"}
    <3>1. n \in 1 .. Len(p) /\ SubSeq(x, 1, n) = SubSeq(p, 1, n)
      <4>1. Len(x) - 1 = Len(p)
        BY <1>n, <1>9
      <4> QED
        BY <1>9, <4>1
    <3>2. CASE n = Len(p)
      BY <1>8, <1>l, <1>n, <3>1, <3>2 DEF Before
    <3>3. CASE n \in 1 .. Len(p) - 1
      BY <2>1, <3>1, <3>3
    <3>4. n = Len(p) \/ n \in 1 .. Len(p) - 1
      <4>1. Len(p) \in Nat
        BY <1>n
      <4> QED
        BY <3>1, <4>1, LastOrBefore, Zenon
    <3> QED
      BY <3>2, <3>3, <3>4
  <2>3. ASSUME NEW q \in DOMAIN frames', Len(q) = 1
        PROVE  q = <<Roots'[root']>>
    <3>1. q \in DOMAIN frames
      BY <1>1, <1>8, <1>9, <2>3
    <3> QED
      BY <1>1, <2>3, <3>1 DEF Stacked, Roots
  <2> QED
    BY <1>8, <2>1, <2>2, <2>3 DEF Stacked
<1>17. AllServed'
  <2>1. ASSUME NEW q \in DOMAIN frames, q # p
        PROVE  Served(q, frames[q])'
    <3>1. \A t \in Tasks : Append(q, t) \notin new
      <4> SUFFICES ASSUME NEW t \in Tasks, Append(q, t) \in new
                   PROVE  FALSE
        OBVIOUS
      <4>1. q \in Seq(Tasks) /\ q # << >>
        BY DEF Typed
      <4>2. PICK u \in Tasks : Append(q, t) = Append(p, u)
        BY <1>7
      <4> QED
        BY <1>n, <2>1, <4>1, <4>2, Siblings
    <3>2. \A t \in Tasks : Append(q, t) \in DOMAIN frames' <=> Append(q, t) \in DOMAIN frames
      BY <1>8, <3>1
    <3>3. Served(q, frames[q]) /\ frames[q] \in Frame
      BY DEF AllServed, Typed
    <3>4. /\ \A t \in Tasks : status[t] = "succeeded" => status'[t] = "succeeded"
          /\ manifest' = manifest /\ Typed /\ frames'[q] = frames[q]
      BY <1>1, <1>8, <2>1
    <3> QED
      BY <3>2, <3>3, <3>4, ServedKept
  <2>2. Served(p, r)'
    <3>1. ASSUME NEW t \in Tasks, Append(p, t) \in DOMAIN frames'
          PROVE  \E k \in frames[p].i .. Len(Edges(p)) :
                   t = Edges(p)[k] /\ (k = frames[p].i \/ IsParallel(p))
      <4>1. t \in now
        BY <1>1, <1>7, <1>8, <3>1
      <4> QED
        BY <1>4, <4>1
    <3>2. ASSUME NEW k \in frames[p].i .. Len(Edges(p)), k = frames[p].i \/ IsParallel(p)
          PROVE  Append(p, Edges(p)[k]) \in DOMAIN frames'
      BY <1>5, <1>8, <1>f, <3>2
    <3>3. Launched(p, r)'
      BY <1>1, <1>l, <3>1, <3>2 DEF Launched
    <3> QED
      BY <1>l, <3>3 DEF Served
  <2>3. ASSUME NEW x \in new
        PROVE  Served(x, Fresh)'
    BY <1>10 DEF Served, Fresh
  <2>4. \A q \in DOMAIN frames : q # p => frames'[q] = frames[q] /\ Served(q, frames[q])'
    BY <1>8, <2>1
  <2> QED
    BY <1>8, <2>2, <2>3, <2>4 DEF AllServed, Fresh
<1> QED
  BY <1>11, <1>12, <1>13, <1>14, <1>15, <1>16, <1>17

-----------------------------------------------------------------------------
LEMMA RootPath ==
  ASSUME NEW t \in Tasks
  PROVE  /\ <<t>> \in Seq(Tasks) /\ <<t>> # << >> /\ Len(<<t>>) = 1 /\ Task(<<t>>) = t
  BY DEF Task, Last

LEMMA FreshFrame ==
  /\ Fresh \in Frame /\ Fresh.pc = "called" /\ Fresh.launched = FALSE /\ Fresh.list = "deps"
  /\ Fresh.i = 1
  BY DEF Fresh, Frame, Before

\* A run of a root starts: its call alone, and no task running.
LEMMA RootCallInv ==
  ASSUME Typed', Complete', Logged', Ended', \A t \in Tasks : status'[t] # "running",
         DOMAIN frames' = {<<Roots'[root']>>}, frames'[<<Roots'[root']>>] = Fresh
  PROVE  RunnerInv'
<1>1. PICK p : p = <<Roots'[root']>>
  OBVIOUS
<1>2. DOMAIN frames' = {p} /\ frames'[p] = Fresh /\ Len(p) = 1
  <2>1. Roots'[root'] \in Tasks
    BY TaskAssumption DEF Typed, Roots
  <2> QED
    BY <1>1, <2>1, RootPath
<1>3. Informed'
  BY <1>2, FreshFrame DEF Informed, Knows, Before, Owning, After
<1>4. OneOwner'
  BY <1>2, FreshFrame DEF OneOwner, Owning
<1>5. Stacked'
  BY <1>1, <1>2 DEF Stacked
<1>6. AllServed'
  BY <1>2, FreshFrame DEF AllServed, Served
<1> QED
  BY <1>3, <1>4, <1>5, <1>6 DEF RunnerInv

LEMMA RootReturnedInv ==
  ASSUME RunnerInv, RootReturned
  PROVE  RunnerInv'
<1> USE DEF RunnerInv
<1>p. PICK p : p = <<Roots[root]>>
  OBVIOUS
<1>1. /\ p \in DOMAIN frames /\ frames[p].pc = "returned" /\ Knows(p, frames[p])
      /\ UNCHANGED <<manifest, status, log>> /\ frames[p].ok \in BOOLEAN
      /\ Roots' = Roots
  BY <1>p DEF RootReturned, Informed, Typed, Frame, Roots
<1>2. Roots \in Seq(Tasks) /\ root \in 1 .. Len(Roots) /\ Len(Roots) \in Nat
  BY TaskAssumption DEF Typed, Roots
<1>3. Roots[root] \in Tasks /\ Task(p) = Roots[root] /\ Len(p) = 1
  BY <1>p, <1>2, RootPath
<1>4. DOMAIN frames = {p}
  <2> SUFFICES ASSUME NEW q \in DOMAIN frames
               PROVE  q = p
    BY <1>1
  <2>1. q \in Seq(Tasks) /\ Len(q) \in Nat \ {0}
    BY DEF Typed
  <2>2. CASE Len(q) = 1
    BY <1>p, <2>2 DEF Stacked
  <2>3. CASE Len(q) # 1
    <3>0. 1 \in 1 .. Len(q) - 1 /\ 1 \in 1 .. Len(q)
      <4>1. \A n \in Nat \ {0, 1} : 1 \in 1 .. n - 1 /\ 1 \in 1 .. n
        OBVIOUS
      <4> QED
        BY <2>1, <2>3, <4>1
    <3>1. 1 \in 1 .. Len(q) - 1 /\ Len(SubSeq(q, 1, 1)) = 1
      BY <2>1, <3>0
    <3>2. SubSeq(q, 1, 1) \in DOMAIN frames /\ frames[SubSeq(q, 1, 1)].pc # "returned"
      BY <3>1 DEF Stacked
    <3>3. \A x \in DOMAIN frames : Len(x) = 1 => x = p
      BY <1>p DEF Stacked
    <3>4. SubSeq(q, 1, 1) = p
      BY <3>1, <3>2, <3>3
    <3> QED
      BY <1>1, <3>2, <3>4
  <2> QED
    BY <2>2, <2>3
<1>5. \A t \in Tasks : status'[t] # "running"
  BY <1>1, <1>4 DEF OneOwner, Owning
<1>6. frames[p].ok = TRUE => status[Roots[root]] = "succeeded"
  BY <1>1, <1>3 DEF Knows, After
<1>7. Logged' /\ Complete'
  BY <1>1 DEF Logged, RunsOnce, Complete, Succeeded
<1>8. exit = "none"
  BY <1>1 DEF Ended
<1>9. CASE frames[p].ok /\ root < Len(Roots)
  <2>1. root' = root + 1 /\ exit' = exit /\ frames' = With(<< >>, {<<Roots[root + 1]>>}, Fresh)
    BY <1>p, <1>9 DEF RootReturned
  <2>2. DOMAIN frames' = {<<Roots'[root']>>} /\ frames'[<<Roots'[root']>>] = Fresh
    BY <1>1, <2>1 DEF With
  <2>3. root' \in 1 .. Len(Roots) /\ Roots[root'] \in Tasks
    BY <1>2, <1>9, <2>1
  <2>4. Typed'
    <3>1. \A q \in DOMAIN frames' : q \in Seq(Tasks) /\ q # << >> /\ frames'[q] \in Frame
      BY <1>1, <2>2, <2>3, RootPath, FreshFrame
    <3> QED
      BY <1>1, <2>3, <3>1 DEF Typed
  <2>5. Ended'
    <3>1. \A k \in 1 .. root' - 1 : k = root \/ k \in 1 .. root - 1
      BY <1>2, <2>1
    <3>2. \A k \in 1 .. root' - 1 : status[Roots[k]] = "succeeded"
      BY <1>6, <1>9, <3>1 DEF Ended
    <3> QED
      BY <1>1, <1>8, <2>1, <3>2 DEF Ended
  <2> QED
    BY <1>5, <1>7, <2>2, <2>4, <2>5, RootCallInv
<1>10. CASE ~(frames[p].ok /\ root < Len(Roots))
  <2>1. /\ root' = root /\ frames' = Without(frames, {p})
        /\ exit' = IF frames[p].ok THEN "ok" ELSE "failed"
    BY <1>p, <1>10 DEF RootReturned
  <2>2. DOMAIN frames' = {}
    BY <1>4, <2>1 DEF Without
  <2>3. Typed' /\ Informed' /\ Stacked' /\ AllServed'
    BY <1>1, <2>1, <2>2 DEF Typed, Informed, Stacked, AllServed
  <2>4. OneOwner'
    BY <1>5, <2>2 DEF OneOwner
  <2>5. Ended'
    <3>1. exit' = "ok" => root = Len(Roots) /\ status[Roots[root]] = "succeeded"
      BY <1>1, <1>2, <1>6, <1>10, <2>1
    <3> QED
      BY <1>1, <2>1, <2>2, <3>1 DEF Ended
  <2> QED
    BY <1>7, <2>3, <2>4, <2>5
<1> QED
  BY <1>9, <1>10

LEMMA RunnerInit ==
  ASSUME Init
  PROVE  RunnerInv
<1>1. /\ manifest \in Manifests /\ root = 1 /\ exit = "none" /\ log = << >>
      /\ status = [t \in Tasks |-> "not_started"]
      /\ Roots \in Seq(Tasks) /\ Roots # << >>
  BY TaskAssumption DEF Init, Roots
<1>2. root \in 1 .. Len(Roots) /\ Roots[root] \in Tasks
  BY <1>1
<1>3. PICK p : p = <<Roots[root]>>
  OBVIOUS
<1>4. DOMAIN frames = {p} /\ frames[p] = Fresh
  BY <1>1, <1>3 DEF Init, With
<1>5. p \in Seq(Tasks) /\ p # << >> /\ Len(p) = 1
  BY <1>2, <1>3, RootPath
<1>6. Typed
  BY <1>1, <1>2, <1>4, <1>5, FreshFrame DEF Typed
<1>7. Informed /\ AllServed
  BY <1>4, FreshFrame DEF Informed, AllServed, Knows, Served, Before, Owning, After
<1>8. OneOwner
  BY <1>1, <1>4, FreshFrame DEF OneOwner, Owning
<1>9. Logged /\ Complete /\ Ended
  BY <1>1 DEF Logged, RunsOnce, Complete, Ended
<1>10. Stacked
  BY <1>3, <1>4, <1>5 DEF Stacked
<1> QED
  BY <1>6, <1>7, <1>8, <1>9, <1>10 DEF RunnerInv

LEMMA RunnerStay ==
  ASSUME RunnerInv, UNCHANGED vars
  PROVE  RunnerInv'
  BY DEF RunnerInv, vars, Typed, Informed, OneOwner, Logged, Complete, Stacked, AllServed, Ended,
         Knows, InLog, Succeeded, RunsOnce, Served, Nobody, Launched, AtOnce, ListOf, Roots, Task

LEMMA RunnerStep ==
  ASSUME RunnerInv, [Next]_vars
  PROVE  RunnerInv'
<1>1. CASE UNCHANGED vars
  BY <1>1, RunnerStay
<1>2. CASE RootReturned
  BY <1>2, RootReturnedInv
<1>3. ASSUME NEW p \in DOMAIN frames, Step(p)
      PROVE  RunnerInv'
  <2>1. CASE \E ok \in BOOLEAN : EndCommands(p, ok) \/ Settle(p, ok)
    BY <2>1, EndCommandsInv, SettleInv
  <2>2. CASE JoinFutures(p, "joining", "failing")
    BY <2>2, JoinFuturesInv
  <2>3. CASE JoinFutures(p, "leaving", "returned")
    BY <2>3, JoinFuturesInv
  <2>4. CASE CycleFound(p) \/ Wait(p) \/ AlreadyRun(p) \/ Claim(p)
    BY <2>4, CycleFoundInv, WaitInv, AlreadyRunInv, ClaimInv
  <2>5. CASE Launch(p) \/ Collect(p) \/ StartCommands(p) \/ SignFails(p) \/ Notify(p)
    BY <2>5, LaunchInv, CollectInv, StartCommandsInv, SignFailsInv, NotifyInv
  <2> QED
    BY <1>3, <2>1, <2>2, <2>3, <2>4, <2>5 DEF Step
<1> QED
  BY <1>1, <1>2, <1>3 DEF Next

\* Every reachable state of a run, for any manifest, satisfies the invariant.
THEOREM RunnerInvariant == Spec => []RunnerInv
<1>1. Init => RunnerInv
  BY RunnerInit
<1>2. RunnerInv /\ [Next]_vars => RunnerInv'
  BY RunnerStep
<1> QED
  BY <1>1, <1>2, PTL DEF Spec

-----------------------------------------------------------------------------
\* However the calls race for the table, each task's commands are started at
\* most once, and they run only while everything the task depends on or joins
\* has succeeded: the status table of run_task_for_manifest_impl.
THEOREM TaskOnceAfterPrerequisites == Spec => []OnceAfterPrerequisites
<1>1. ASSUME RunnerInv PROVE OnceAfterPrerequisites
  <2>1. RunsOnce
    BY <1>1 DEF RunnerInv, Logged
  <2>2. ASSUME NEW p \in DOMAIN frames, frames[p].pc = "commands",
               NEW d \in ToSet(DependsOn(manifest, Task(p)))
        PROVE  status[d] = "succeeded"
    <3>1. Task(p) \in Tasks /\ Typed /\ Knows(p, frames[p])
      BY <1>1, Paths DEF RunnerInv, Typed, Informed
    <3>2. DependsOn(manifest, Task(p)) \in Seq(Tasks)
      BY <3>1, Edged
    <3>3. PICK k \in DOMAIN DependsOn(manifest, Task(p)) : d = DependsOn(manifest, Task(p))[k]
      BY <2>2 DEF ToSet
    <3>4. k \in 1 .. Len(DependsOn(manifest, Task(p)))
      BY <3>2
    <3> QED
      BY <2>2, <3>1, <3>3, <3>4 DEF Knows, Succeeded
  <2> QED
    BY <2>1, <2>2 DEF OnceAfterPrerequisites, PrerequisitesFirst
<1> QED
  BY <1>1, RunnerInvariant, PTL

\* A settled task keeps its status: only Claim and Settle write the table, the
\* first for a task nobody has run, the second for the task its call owns.
THEOREM TaskFinalStatus == Spec => FinalStatus
<1>1. ASSUME RunnerInv, [Next]_vars
      PROVE  [\A t \in Tasks : status[t] \in {"succeeded", "failed"} => status'[t] = status[t]]_vars
  <2>1. CASE status' = status
    BY <2>1
  <2>2. CASE \E p \in DOMAIN frames : Claim(p)
    BY <1>1, <2>2 DEF Claim, RunnerInv, Typed
  <2>3. ASSUME NEW p \in DOMAIN frames, NEW ok \in BOOLEAN, Settle(p, ok)
        PROVE  \A t \in Tasks : status[t] \in {"succeeded", "failed"} => status'[t] = status[t]
    <3>1. status[Task(p)] = "running"
      BY <1>1, <2>3, SettleInv
    <3> QED
      BY <1>1, <2>3, <3>1 DEF Settle, RunnerInv, Typed
  <2>4. \/ status' = status \/ (\E p \in DOMAIN frames : Claim(p))
        \/ \E p \in DOMAIN frames, ok \in BOOLEAN : Settle(p, ok)
    BY <1>1 DEF Next, vars, RootReturned, Step, CycleFound, Wait, AlreadyRun, Launch, Collect,
                StartCommands, EndCommands, SignFails, Notify, JoinFutures
  <2> QED
    BY <2>1, <2>2, <2>3, <2>4
<1> QED
  BY <1>1, RunnerInvariant, PTL DEF Spec, FinalStatus

\* What the exit code says is true: the run has ended with no call left, no
\* future unjoined and no task running, and reports success only if every
\* root, and everything a task that succeeded depends on or launches, has
\* succeeded.
THEOREM TaskExitIsHonest == Spec => []ExitIsHonest
<1>1. ASSUME RunnerInv, exit # "none"
      PROVE  /\ DOMAIN frames = {}
             /\ \A t \in Tasks : status[t] # "running"
  BY <1>1 DEF RunnerInv, Ended, OneOwner
<1>2. ASSUME RunnerInv, exit = "ok", NEW k \in 1 .. Len(Roots)
      PROVE  status[Roots[k]] = "succeeded"
  <2>1. root \in 1 .. Len(Roots) /\ Len(Roots) \in Nat
    BY <1>2, TaskAssumption DEF RunnerInv, Typed, Roots
  <2>2. k = root \/ k \in 1 .. root - 1
    BY <1>2, <2>1 DEF RunnerInv, Ended
  <2> QED
    BY <1>2, <2>2 DEF RunnerInv, Ended
<1>3. ASSUME RunnerInv, NEW t \in Tasks, status[t] = "succeeded",
             NEW u \in Asked(t)
      PROVE  status[u] = "succeeded"
  <2>1. PICK d, n : d = DependsOn(manifest, t) /\ n = NextTasks(manifest, t)
    OBVIOUS
  <2>2. d \in Seq(Tasks) /\ n \in Seq(Tasks) /\ Succeeded(d) /\ Succeeded(n)
    BY <1>3, <2>1, Edged DEF RunnerInv, Complete
  <2>3. PICK k \in DOMAIN (d \o n) : u = (d \o n)[k]
    BY <1>3, <2>1 DEF ToSet, Asked
  <2>4. k \in 1 .. Len(d) + Len(n) /\ Len(d) \in Nat /\ Len(n) \in Nat
    BY <2>2, <2>3
  <2>5. CASE k <= Len(d)
    BY <2>2, <2>3, <2>4, <2>5 DEF Succeeded
  <2>6. CASE k > Len(d)
    <3>1. (d \o n)[k] = n[k - Len(d)] /\ k - Len(d) \in 1 .. Len(n)
      BY <2>2, <2>4, <2>6
    <3> QED
      BY <2>2, <2>3, <3>1 DEF Succeeded
  <2> QED
    BY <2>4, <2>5, <2>6
<1>4. RunnerInv => ExitIsHonest
  BY <1>1, <1>2, <1>3 DEF ExitIsHonest
<1> QED
  BY <1>4, RunnerInvariant, PTL

-----------------------------------------------------------------------------
(* Why a run fails.  The path of a call leads from a root along what the   *)
(* tasks ask for, so that what a call finds on its path is what the roots  *)
(* reach; and what a run has found stays a cause.                          *)

Closed(R) == R \subseteq Tasks /\ \A u \in R : Asked(u) \subseteq R
Follows(p) ==
  /\ p[1] \in ToSet(Roots)
  /\ \A R : Closed(R) => \A j \in 1 .. Len(p) :
       p[j] \in R \/ (j < Len(p) /\ Asked(p[j]) \subseteq R) => Task(p) \in R
Routed == \A p \in DOMAIN frames : Follows(p)

Cause == broken # {} \/ manifest.hasWork # Tasks \/ Faulty
Failing(r) == r.pc \in {"joining", "failing"} \/ (r.pc \in After /\ r.ok = FALSE)
Blamed ==
  /\ \A t \in Tasks : status[t] = "failed" => Cause
  /\ \A p \in DOMAIN frames : Failing(frames[p]) => Cause
  /\ exit = "failed" => Cause

BlameInv == RunnerInv /\ Routed /\ Blamed

\* What a task asks for are the entries of its two lists.
LEMMA AskedEntries ==
  ASSUME Typed, NEW t \in Tasks
  PROVE  /\ \A k \in 1 .. Len(DependsOn(manifest, t)) : DependsOn(manifest, t)[k] \in Asked(t)
         /\ \A k \in 1 .. Len(NextTasks(manifest, t)) : NextTasks(manifest, t)[k] \in Asked(t)
<1>1. PICK d, n : d = DependsOn(manifest, t) /\ n = NextTasks(manifest, t)
  OBVIOUS
<1>2. d \in Seq(Tasks) /\ n \in Seq(Tasks) /\ Len(d) \in Nat /\ Len(n) \in Nat
  BY <1>1, Edged
<1>3. Asked(t) = {(d \o n)[k] : k \in DOMAIN (d \o n)}
  BY <1>1 DEF Asked, ToSet
<1>4. ASSUME NEW k \in 1 .. Len(d) PROVE d[k] \in Asked(t)
  <2>1. k \in DOMAIN (d \o n) /\ (d \o n)[k] = d[k]
    BY <1>2
  <2> QED
    BY <1>3, <2>1
<1>5. ASSUME NEW k \in 1 .. Len(n) PROVE n[k] \in Asked(t)
  <2>1. Len(d) + k \in DOMAIN (d \o n) /\ (d \o n)[Len(d) + k] = n[k]
    BY <1>2
  <2> QED
    BY <1>3, <2>1
<1> QED
  BY <1>1, <1>4, <1>5

\* A call's task is reached from the roots.
LEMMA TaskReached ==
  ASSUME Typed, NEW p \in DOMAIN frames, Follows(p)
  PROVE  Task(p) \in ReachedFrom(ToSet(Roots))
<1>1. p \in Seq(Tasks) /\ p # << >> /\ 1 \in 1 .. Len(p) /\ Task(p) \in Tasks
  BY Paths DEF Typed
<1>2. ASSUME NEW R \in SUBSET Tasks, ToSet(Roots) \subseteq R, \A u \in R : Asked(u) \subseteq R
      PROVE  Task(p) \in R
  <2>1. Closed(R) /\ p[1] \in R
    BY <1>2 DEF Closed, Follows
  <2> QED
    BY <1>1, <2>1 DEF Follows
<1> QED
  BY <1>1, <1>2 DEF ReachedFrom

\* A task found on the stack that led to it asks for itself, over others.
LEMMA CycleIsFault ==
  ASSUME Typed, NEW p \in DOMAIN frames, Follows(p), IsCyclic(p)
  PROVE  Faulty
<1>1. p \in Seq(Tasks) /\ p # << >> /\ Task(p) \in Tasks /\ Len(p) \in Nat \ {0}
  BY Paths DEF Typed
<1>2. PICK j \in 1 .. Len(Front(p)) : Front(p)[j] = Task(p)
  BY DEF IsCyclic, Contains
<1>3. j \in 1 .. Len(p) /\ j < Len(p) /\ p[j] = Task(p)
  <2>1. Len(Front(p)) = Len(p) - 1 /\ \A k \in 1 .. Len(p) - 1 : Front(p)[k] = p[k]
    BY <1>1 DEF Front
  <2> QED
    BY <1>1, <1>2, <2>1
<1>4. ASSUME NEW R \in SUBSET Tasks, Asked(Task(p)) \subseteq R, \A u \in R : Asked(u) \subseteq R
      PROVE  Task(p) \in R
  <2>1. Closed(R)
    BY <1>4 DEF Closed
  <2>2. j < Len(p) /\ Asked(p[j]) \subseteq R
    BY <1>3, <1>4
  <2> QED
    BY <1>3, <2>1, <2>2 DEF Follows
<1>5. Task(p) \in ReachedFrom(Asked(Task(p)))
  BY <1>1, <1>4 DEF ReachedFrom
<1> QED
  BY <1>5, TaskReached DEF Faulty

\* A cause stays one.
LEMMA CauseKept ==
  ASSUME manifest' = manifest, broken \subseteq broken', Cause
  PROVE  Cause'
<1>1. Faulty => Faulty'
  BY DEF Faulty, ReachedFrom, Asked, Roots
<1> QED
  BY <1>1 DEF Cause

\* The calls a task launches go on along its path.
LEMMA LaunchFollows ==
  ASSUME Typed, NEW p \in DOMAIN frames, Follows(p), NEW t \in Tasks, t \in Asked(Task(p))
  PROVE  Follows(Append(p, t))
<1>1. p \in Seq(Tasks) /\ p # << >> /\ Len(p) \in Nat \ {0}
  BY Paths DEF Typed
<1>2. PICK q : q = Append(p, t)
  OBVIOUS
<1>3. /\ Len(q) = Len(p) + 1 /\ Task(q) = t /\ q[1] = p[1]
      /\ \A j \in 1 .. Len(p) : q[j] = p[j]
      /\ p[Len(p)] = Task(p)
  <2>1. Len(q) = Len(p) + 1 /\ Task(q) = t
    BY <1>1, <1>2, Paths
  <2>2. \A j \in 1 .. Len(p) : q[j] = p[j]
    BY <1>1, <1>2
  <2> QED
    BY <1>1, <2>1, <2>2 DEF Task, Last
<1>4. ASSUME NEW R, Closed(R), NEW j \in 1 .. Len(q),
             q[j] \in R \/ (j < Len(q) /\ Asked(q[j]) \subseteq R)
      PROVE  t \in R
  <2>1. CASE j = Len(q)
    <3>1. q[j] = t
      BY <1>1, <1>2, <1>3, <2>1
    <3> QED
      BY <1>1, <1>3, <1>4, <2>1, <3>1
  <2>2. CASE j = Len(p) /\ Asked(q[j]) \subseteq R
    BY <1>1, <1>3, <2>2
  <2>3. CASE j \in 1 .. Len(p) /\ (q[j] \in R \/ (j < Len(p) /\ Asked(q[j]) \subseteq R))
    <3>1. Task(p) \in R
      BY <1>3, <1>4, <2>3 DEF Follows
    <3> QED
      BY <1>4, <3>1 DEF Closed
  <2> QED
    BY <1>1, <1>3, <1>4, <2>1, <2>2, <2>3
<1> QED
  BY <1>2, <1>3, <1>4 DEF Follows

\* Every call is one of those there were, or one just launched.
LEMMA RoutedStep ==
  ASSUME RunnerInv, Routed, [Next]_vars
  PROVE  Routed'
<1> USE DEF RunnerInv
<1>1. manifest' = manifest
  BY DEF Next, vars, RootReturned, Step, CycleFound, Wait, AlreadyRun, Claim, Launch, Collect,
         StartCommands, EndCommands, SignFails, Settle, Notify, JoinFutures
<1>2. ASSUME NEW q, Follows(q) PROVE Follows(q)'
  BY <1>1, <1>2 DEF Follows, Closed, Asked, Roots, Task
<1>3. CASE DOMAIN frames' \subseteq DOMAIN frames
  BY <1>2, <1>3 DEF Routed
<1>4. ASSUME NEW p \in DOMAIN frames, Launch(p)
      PROVE  Routed'
  <2>1. Task(p) \in Tasks /\ frames[p] \in Frame
    BY Paths DEF Typed
  <2>2. PICK ts : /\ ts = IF IsParallel(p) THEN ToSet(Edges(p)) ELSE {Edges(p)[frames[p].i]}
                  /\ frames' = With([frames EXCEPT ![p].launched = TRUE],
                                    {Append(p, t) : t \in ts}, Fresh)
    BY <1>4 DEF Launch
  <2>3. DOMAIN frames' = DOMAIN frames \cup {Append(p, t) : t \in ts}
    BY <2>2 DEF With
  <2>4. ASSUME NEW t \in ts PROVE t \in Tasks /\ t \in Asked(Task(p))
    <3>1. Edges(p) \in Seq(Tasks) /\ Len(Edges(p)) \in Nat
      BY <2>1, Edged DEF Edges
    <3>2. \A k \in 1 .. Len(Edges(p)) : Edges(p)[k] \in Tasks /\ Edges(p)[k] \in Asked(Task(p))
      BY <2>1, Edged, AskedEntries DEF Edges
    <3>3. \E k \in 1 .. Len(Edges(p)) : t = Edges(p)[k]
      BY <1>4, <2>1, <2>2, <2>4, <3>1 DEF ToSet, Launch, Frame
    <3> QED
      BY <3>2, <3>3
  <2>5. ASSUME NEW t \in ts PROVE Follows(Append(p, t))
    BY <2>4, <2>5, LaunchFollows DEF Routed
  <2> QED
    BY <1>2, <2>3, <2>5 DEF Routed
<1>5. ASSUME RootReturned, DOMAIN frames' = {<<Roots[root + 1]>>}, root + 1 \in 1 .. Len(Roots)
      PROVE  Routed'
  <2>1. Roots \in Seq(Tasks)
    BY TaskAssumption DEF Typed, Roots
  <2>2. PICK t : t = Roots[root + 1]
    OBVIOUS
  <2>3. t \in Tasks /\ t \in ToSet(Roots)
    BY <1>5, <2>1, <2>2 DEF ToSet
  <2>4. Len(<<t>>) = 1 /\ <<t>>[1] = t /\ Task(<<t>>) = t
    BY <2>3, RootPath
  <2>5. Follows(<<t>>)
    BY <2>3, <2>4 DEF Follows
  <2> QED
    BY <1>2, <1>5, <2>2, <2>5 DEF Routed
<1>6. \/ DOMAIN frames' \subseteq DOMAIN frames
      \/ \E p \in DOMAIN frames : Launch(p)
      \/ RootReturned /\ DOMAIN frames' = {<<Roots[root + 1]>>} /\ root + 1 \in 1 .. Len(Roots)
  <2>1. CASE RootReturned
    <3>1. root \in 1 .. Len(Roots) /\ Len(Roots) \in Nat
      BY TaskAssumption DEF Typed, Roots
    <3> QED
      BY <2>1, <3>1 DEF RootReturned, With, Without
  <2>2. CASE UNCHANGED vars
    BY <2>2 DEF vars
  <2>3. ASSUME NEW p \in DOMAIN frames, Step(p), ~Launch(p)
        PROVE  DOMAIN frames' \subseteq DOMAIN frames
    BY <2>3 DEF Step, CycleFound, Wait, AlreadyRun, Claim, Collect, Return, Without,
                StartCommands, EndCommands, SignFails, Settle, Notify, JoinFutures
  <2> QED
    BY <2>1, <2>2, <2>3 DEF Next
<1> QED
  BY <1>3, <1>4, <1>5, <1>6

\* What one step of a call adds to the failures, it has a cause for.
LEMMA BlamedStep ==
  ASSUME RunnerInv, Routed, Blamed, [Next]_vars
  PROVE  Blamed'
<1> USE DEF RunnerInv
<1>1. manifest' = manifest /\ broken \subseteq broken'
  BY DEF Next, vars, RootReturned, Step, CycleFound, Wait, AlreadyRun, Claim, Launch, Collect,
         StartCommands, EndCommands, SignFails, Settle, Notify, JoinFutures
<1>2. Cause => Cause'
  BY <1>1, CauseKept
<1> SUFFICES ASSUME ~Cause
             PROVE  Blamed'
  BY <1>2 DEF Blamed
<1>3. /\ \A t \in Tasks : status[t] # "failed"
      /\ \A p \in DOMAIN frames : ~Failing(frames[p])
      /\ exit # "failed" /\ broken = {} /\ manifest.hasWork = Tasks /\ ~Faulty
  BY DEF Blamed, Cause
<1>4. CASE UNCHANGED vars
  BY <1>3, <1>4 DEF vars, Blamed
<1>5. CASE RootReturned
  <2>1. PICK p : p = <<Roots[root]>>
    OBVIOUS
  <2>2. p \in DOMAIN frames /\ frames[p].pc = "returned" /\ frames[p].ok \in BOOLEAN
    BY <1>5, <2>1 DEF RootReturned, Typed, Frame
  <2>3. frames[p].ok = TRUE
    BY <1>3, <2>2 DEF Failing, After
  <2>4. exit' # "failed" /\ status' = status
    BY <1>3, <1>5, <2>1, <2>3 DEF RootReturned
  <2>5. \A q \in DOMAIN frames' : ~Failing(frames'[q])
    BY <1>3, <1>5, <2>1, FreshFrame DEF RootReturned, With, Without, Failing, After
  <2> QED
    BY <1>3, <2>4, <2>5 DEF Blamed
<1>6. ASSUME NEW p \in DOMAIN frames, Step(p)
      PROVE  Blamed'
  <2>1. Task(p) \in Tasks /\ frames[p] \in Frame /\ Follows(p) /\ ~Failing(frames[p])
        /\ status[Task(p)] # "failed"
    BY <1>3, Paths DEF Typed, Routed
  <2>2. CASE CycleFound(p)
    BY <1>3, <2>1, <2>2, CycleIsFault DEF CycleFound
  <2>3. CASE Claim(p) /\ Task(p) \notin manifest.runnable
    <3>1. Faulty
      BY <2>1, <2>3, TaskReached DEF Faulty
    <3> QED
      BY <1>3, <3>1
  <2>4. CASE StartCommands(p) /\ Task(p) \notin manifest.hasWork
    BY <1>3, <2>1, <2>4
  <2>5. CASE broken' # {}
    <3>1. Cause'
      BY <2>5 DEF Cause
    <3> QED
      BY <3>1 DEF Blamed
  <2>6. CASE Settle(p, FALSE)
    BY <2>1, <2>6 DEF Settle, Failing
  <2>7. CASE JoinFutures(p, "joining", "failing")
    BY <2>1, <2>7 DEF JoinFutures, Failing
  <2>8. CASE /\ ~CycleFound(p) /\ ~(Claim(p) /\ Task(p) \notin manifest.runnable)
             /\ ~(StartCommands(p) /\ Task(p) \notin manifest.hasWork)
             /\ broken' = {} /\ ~Settle(p, FALSE) /\ ~JoinFutures(p, "joining", "failing")
    <3>1. exit' = exit
      BY <1>6 DEF Step, CycleFound, Wait, AlreadyRun, Claim, Launch, Collect,
                  StartCommands, EndCommands, SignFails, Settle, Notify, JoinFutures
    <3>2. \A t \in Tasks : status'[t] # "failed"
      <4>1. CASE status' = status
        BY <1>3, <4>1
      <4>2. CASE Claim(p) \/ Settle(p, TRUE)
        BY <1>3, <2>1, <4>2 DEF Claim, Settle, Typed
      <4> QED
        BY <1>6, <2>8, <4>1, <4>2 DEF Step, CycleFound, Wait, AlreadyRun, Launch, Collect,
                  StartCommands, EndCommands, SignFails, Settle, Notify, JoinFutures
    <3>3. ASSUME NEW q \in DOMAIN frames' PROVE ~Failing(frames'[q])
      <4>0. \A x \in DOMAIN frames : frames[x] \in Frame
        BY DEF Typed
      <4>1. CASE Wait(p) \/ Claim(p) \/ StartCommands(p)
        BY <1>3, <2>1, <2>8, <4>0, <4>1 DEF Wait, Claim, StartCommands, Failing, After, Frame
      <4>2. CASE AlreadyRun(p)
        BY <1>3, <2>1, <4>0, <4>2 DEF AlreadyRun, Return, Failing, After, Frame
      <4>3. CASE Launch(p)
        BY <1>3, <2>1, <4>0, <4>3, FreshFrame DEF Launch, With, Failing, After, Frame
      <4>4. CASE Collect(p)
        <5>1. PICK c : c = Append(p, Edges(p)[frames[p].i])
          OBVIOUS
        <5>2. c \in DOMAIN frames => frames[c].pc = "returned" /\ frames[c].ok = TRUE
          BY <1>3, <4>0, <4>4, <5>1 DEF Collect, Failing, After, Frame
        <5>3. frames' = [Without(frames, {c}) EXCEPT
                ![p].i = @ + 1,
                ![p].launched = IsParallel(p) /\ frames[p].i < Len(Edges(p))]
          BY <4>4, <5>1, <5>2 DEF Collect
        <5>4. frames'[q].pc = frames[q].pc /\ frames'[q].ok = frames[q].ok /\ q \in DOMAIN frames
          BY <2>1, <4>0, <5>3 DEF Without, Frame
        <5> QED
          BY <1>3, <5>4 DEF Failing
      <4>5. CASE EndCommands(p, TRUE) \/ Settle(p, TRUE)
        <5>1. q \in DOMAIN frames /\ (q # p => frames'[q] = frames[q])
          BY <4>5 DEF EndCommands, Settle
        <5>2. CASE EndCommands(p, TRUE)
          <6>1. frames'[p].pc = "edges"
            BY <2>1, <5>2 DEF EndCommands, Frame
          <6> QED
            BY <1>3, <5>1, <6>1 DEF Failing, After
        <5>3. CASE Settle(p, TRUE)
          <6>1. frames'[p].pc = "notify" /\ frames'[p].ok = TRUE
            BY <2>1, <5>3 DEF Settle, Frame
          <6> QED
            BY <1>3, <5>1, <6>1 DEF Failing, After
        <5> QED
          BY <4>5, <5>2, <5>3
      <4>6. CASE EndCommands(p, FALSE) \/ SignFails(p)
        BY <2>8, <4>6 DEF EndCommands, SignFails
      <4>7. CASE Notify(p)
        <5>1. q \in DOMAIN frames /\ frames'[q].ok = frames[q].ok
          BY <4>0, <4>7 DEF Notify, Frame
        <5>2. \/ q = p /\ frames[q].pc = "notify"
              \/ frames'[q].pc = "woken" \/ frames'[q].pc = frames[q].pc
          BY <4>0, <4>7 DEF Notify, Frame
        <5>3. ~Failing(frames[q])
          BY <1>3, <5>1
        <5>4. CASE q = p
          <6>1. frames'[q].pc = "leaving" /\ frames[q].pc = "notify"
            BY <4>0, <4>7, <5>1, <5>4 DEF Notify, Frame
          <6> QED
            BY <5>1, <5>3, <6>1 DEF Failing, After
        <5> QED
          BY <5>1, <5>2, <5>3, <5>4 DEF Failing, After
      <4>8. CASE JoinFutures(p, "leaving", "returned")
        BY <1>3, <2>1, <4>0, <4>8 DEF JoinFutures, Without, Failing, After, Frame
      <4> QED
        BY <1>6, <2>8, <4>1, <4>2, <4>3, <4>4, <4>5, <4>6, <4>7, <4>8 DEF Step
    <3> QED
      BY <1>3, <3>1, <3>2, <3>3 DEF Blamed
  <2> QED
    BY <1>6, <2>2, <2>3, <2>4, <2>5, <2>6, <2>7, <2>8
<1> QED
  BY <1>4, <1>5, <1>6 DEF Next

LEMMA BlameInit ==
  ASSUME Init
  PROVE  BlameInv
<1>1. RunnerInv
  BY RunnerInit
<1>2. Roots \in Seq(Tasks) /\ Roots # << >>
  BY TaskAssumption DEF Init, Roots
<1>3. PICK t : t = Roots[1]
  OBVIOUS
<1>4. t \in Tasks /\ t \in ToSet(Roots)
  BY <1>2, <1>3 DEF ToSet
<1>5. DOMAIN frames = {<<t>>} /\ frames[<<t>>] = Fresh
  BY <1>3 DEF Init, With
<1>6. Follows(<<t>>)
  BY <1>4, RootPath DEF Follows
<1>7. Routed
  BY <1>5, <1>6 DEF Routed
<1>8. Blamed
  BY <1>5, FreshFrame DEF Init, Blamed, Failing, After
<1> QED
  BY <1>1, <1>7, <1>8 DEF BlameInv

\* The exit code is exact: success means what TaskExitIsHonest says, and a run
\* that fails has met a command that failed, a task without commands, or a
\* cycle or missing task among what its roots reach.  Waiting for a task that
\* another branch runs is never taken for a failure, for any manifest.
THEOREM TaskExitIsExact == Spec => []ExitIsExact
<1>1. Init => BlameInv
  BY BlameInit
<1>2. BlameInv /\ [Next]_vars => BlameInv'
  BY RunnerStep, RoutedStep, BlamedStep DEF BlameInv
<1>3. BlameInv => FailsOnlyForCause
  BY DEF BlameInv, Blamed, Cause, FailsOnlyForCause
<1>4. Spec => []FailsOnlyForCause
  BY <1>1, <1>2, <1>3, PTL DEF Spec
<1> QED
  BY <1>4, TaskExitIsHonest, PTL DEF ExitIsExact
=============================================================================
