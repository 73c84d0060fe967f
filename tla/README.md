# Verification of mlang

mlang is a compiled language with its compiler, a standard library with a C
runtime, a package manager and editor tools. This directory holds a TLA+ model of
the parts in which several threads, processes or messages interact, or in which
several steps can fail or be cut short. TLC checks the modules on small instances;
what matters most of the queues, the blocking objects, the task runner, the package
lock, the audio and MIDI threads, the language server and the generated cleanups is
proved with TLAPS for every instance.

## 1. The system and its components

| component | state | operations | interacts with |
|---|---|---|---|
| `SpscQueue<T>` (`std_sync.c` 276-344) | ring, two atomic indices, one sentinel slot | try_push, try_pop_into, release | one producer, one consumer thread |
| `LockFreeQueue` (1856-1987) | ring of owned strings, free-running counters, closed flag | try_send, try_recv, close, free | one producer, one consumer; tickers send into it |
| `Channel` (1637-1854) | ring, count, closed, mutex, two condition variables | send, recv, try_recv, close, free | any number of threads |
| mutex, `Condvar` (1402-1635) | pthread objects | lock, wait, notify | `std::concurrent` and user code |
| `Latch` (887-1048), `Barrier` (1050-1262), `CountingSemaphore` (1264-1400) | counts and phases behind a mutex | count_down, arrive, arrive_and_drop, acquire, release, wait | threads |
| atomics (346-885; `sync.mla`) | a word, a mutex and condition variable | load, store, exchange, compare-exchange, fetch ops, wait, notify | threads; narrow types are loops over the wide one |
| stop state (122-274; `stop_token.mla`), `jthread` | references, sources, requested; a thread | clone, token, request_stop, join, close | workers, observers |
| `WaitGroup`, `OrderedGate` (`concurrent.mla`) | a counter behind a mutex | add, done, wait; wait_for, advance, set | Condvar |
| `AsyncTicker`, event loop (`std_time.c` 219-298) | running flag, thread, a `LockFreeQueue` | new, stop, free; the thread sends an event per tick | the queue it feeds, whose owner polls and frees it |
| audio controller (`std_audio_controller.inc`) | worker pool with a packed cursor; audition clip and its acknowledgement; live notes, event queue, panic count | run a stage, shut down; preview, start, stop; live_note, midi_target, panic, render | control, MIDI, render and worker threads |
| MIDI patchbay (`std_midi.c`) | route table, a message queue per port, started flag | connect, disconnect, start, stop, send, poll; the driver's process callback | JACK's thread |
| task graph runner (`package_manager.cpp` 8127-8539, 9075-9656) | table of task states, one call stack per thread | run a task, its prerequisites and the tasks it launches; print the plan | std::async threads, one mutex, one condition variable |
| package lock and sources (`package_manager.cpp` 4031-4776, 5634-6400) | `mlang.lock`, checkouts, archives, markers, the lock context of a command | fetch, lock, verify; normal, locked, offline | git, curl, tar; other commands before and after, killed ones too |
| moves and cleanups (`src/ir/moves, ownership, lifecycle, lvalues, control_flow`) | moved names, cleanup scopes, drop flags | let, assignment, use, move, block, if, while, return, break | the program that is generated |
| mlangd (`tools/mlang_lsp_cpp/main.cpp`), incremental compiler, workspace graph, compiler session (`compiler_api.cpp`) | documents with last good ASTs, index, module graph, session documents and versions, snapshot caches, cache of module files | didOpen, didChange, didSave, didClose, diagnostics, semantic queries | the editor, the file system |
| rest of the package manager, compiler, tools, containers, numerics | text, trees, numbers | sequential translation and computation | |

What is hard: copies outside locks and stale indices (the queues); single signals
with newcomers barging in (channel); reuse of an object for the next round while
threads are still leaving the last one (barrier, worker pool); two-step updates
(store then notify, count then broadcast, retain then count a source); freeing what
others may be about to use (stop state, ticker, audition clip); a task reached
along several paths at once, failures in one branch while others run, cycles split
over threads (task runner); a kill between any two effects on the disk (package
lock); code that must be right on every path of a program not yet known (moves and
cleanups); five tables that describe the same files, updated by messages that
arrive late (mlangd). `PROJECT.json` lists each hazard at its line.

## 2. Modules

| module | models | notes |
|---|---|---|
| `BoundedFifo` | abstract specification: a bounded, closable first-in first-out queue | what the three queues promise |
| `SpscQueue` | the typed ring | implements `BoundedFifo` |
| `LockFreeQueue` | the closable string queue | implements `BoundedFifo` |
| `AsyncTicker` | a ticker and its owner around the queue | extends `LockFreeQueue` |
| `CondVar` | signal and broadcast on a map of thread states | used by every monitor |
| `Channel` | the blocking channel | implements `BoundedFifo` |
| `Queues`, `MCQueues` | the three queues side by side, and their instance | |
| `QueueProofs`, `AsyncTickerProofs`, `ChannelProofs` | theorems about the queues and the ticker | section 5 |
| `Tally` | the sum of a function's values, as a cardinality | so that sums over threads can be proved about |
| `Latch`, `Barrier`, `Semaphore`, `AtomicWait`, `Concurrent` | the blocking objects | |
| `StopState` | reference-counted cancellation state | each compare-exchange is a step |
| `JThread` | `jthread` composed with `StopState` | extends it |
| `Monitors`, `MCSync` | the blocking objects side by side, and their instance | |
| `MonitorProofs` | theorems about the stop state and `jthread`, and about the other blocking objects | |
| `TaskRunner`, `TaskPlan` | the runner; the order the plan prints, compared with the run | `TaskPlan` has the only recursive operator |
| `MCTaskRunner` | the manifests, each with the roots that are run | |
| `TaskRunnerProofs` | theorems about the runner | |
| `AudioPool`, `AudioPreview`, `LiveNotes` | worker pool, audition clip, live notes | |
| `MidiPatchbay` | routes and message queues of the MIDI patchbay, with the JACK callback | |
| `Audio`, `MCAudio` | the four side by side, and their instance | |
| `AudioProofs` | theorems about pool, clip, notes and patchbay | |
| `PackageLock`, `MCPackageLock` | lockfile and dependency sources; the manifests | |
| `PackageLockProofs` | theorems about them | |
| `Ownership` | the generator's moves and cleanups together with a run of the generated code | |
| `LanguageServer` | mlangd with the incremental compiler, the workspace graph and the compiler session, composed with an editor and a disk | |
| `Compiler`, `MCCompiler` | `Ownership` and `LanguageServer` side by side, and their instance | |
| `CompilerProofs` | theorems about the language server and the code generator | |

`Queues`, `Monitors`, `Audio` and `Compiler` put components that do not
interact side by side: a variable, chosen at the start, says which of them a
behaviour uses, and the others stay in their initial state. The reachable states
are the union of those of the components, not their product, and every property of
a component holds of the sum exactly if it holds of the component alone.

How code becomes actions:

* The body of a critical section is one action. A wait on a condition variable
  splits a call: it ends in a state `...Wait` and goes on from `...Woken`, where the
  `while` test is made again. Every wait may wake spuriously, unless a loop test
  makes that the same as staying asleep.
* Lock-free code is split at every atomic access and at every copy of plain memory.
  An acquire load may return an old value: each side has a *view* of the other
  side's index, and a `Propagate...` action brings it up to date. A side's own
  index is always current.
* In `AtomicWait` the value that `wait` tests may be stale as long as the writer has
  not been through the mutex, which it takes to notify.
* In `TaskRunner` an active call of `run_task_for_manifest_impl` is named by its
  path, the stack it was called with and its own task. The look-up in the table,
  each store of a status, and each `notify_all`, which happens after the unlock,
  are separate actions. Host overrides are merged: a manifest is that of one host.
* In `AudioPool` the cursor is one word with three fields, claimed by
  compare-exchange; the semaphore keeps the posts that nobody needed, so a worker
  may wake in any later batch. In `AudioPreview` and `LiveNotes` the control or MIDI
  thread and the render thread interleave at every access of a shared variable.
* `MidiPatchbay` splits a push and a pop between the packet and the index; the
  queues start empty with counters about to wrap. JACK's deactivation waits for the
  callback (`Waits`); CoreMIDI's `stop` does not, and with `Waits = FALSE`
  `PatchbayExact` fails. What the callback writes beyond the room of JACK's buffer is
  lost without being counted; the model has room.
* In `PackageLock` every effect on the disk (directory made, clone complete, checkout,
  archive begun and complete, tree removed, renamed, marked, lock renamed) is an
  action that may fail, and `Killed` may come between any two. What is on the disk has
  a name that the code compares (HEAD, marker) and, apart from it, `whole`. `git
  clone` sets HEAD before it writes the files and keeps the repository when it is
  stopped then; `git checkout` sets HEAD after them. `Unfinished` says what each may
  leave, and `CutShort` which work on files may end half way.
* `Ownership` generates every program in one pass, as the code does, and executes
  each accepted statement on the path that the run takes; a branch condition is a
  free choice. The body of a loop is straight-line code: the first iteration goes along
  with its generation, the others run its instructions one by one once the body has
  ended, up to `MaxRounds`. The cleanup of a scope is the set of its slots: each is
  dropped if its flag is set, two flags on one value are a misuse, and the order in
  which the code calls the cleanup methods makes no difference to the properties.
* A handler of `LanguageServer` is a function on the record of the server's tables,
  put together from one operator per function of the code. Three of them take several
  actions, since other programs may write the files meanwhile: the scan at the start,
  which has read the files and indexes them one by one, the diagnostics, which index
  the imported modules one by one, and the loading of modules from disk. A text is a record of what the parsers get out of it.

Abstractions that hold throughout: messages, values, texts and tasks are model
values or small records; wording, logging and progress display are left out;
pthread calls return 0, and an allocation fails only where `AllocFails` says so
(`Channel`); invalid handles are refused before any state is read. Objects are freed
when no thread uses them, as their documentation demands, except where that is the
point (stop state, ticker, audition clip). Definitions whose comment starts with
`Mutant:` are plausible faults, used to check that each property can fail; no
specification uses them.

## 3. Runs

| run | instance | what it shows |
|---|---|---|
| `queues` | ring of capacity 2 (3 slots), 4 pushes; lock-free queue of capacity 2, counters modulo 4, 5 messages, closed by the producer or by anybody, alone or fed by a ticker; channel of capacity 2, 2 senders, 2 receivers, 4 messages (112,619 states) | no data race, one owner per slot across the wrap, exact refusals, three refinements of `BoundedFifo`, a second 0 is final, closed means drained, no lost wakeup, delivery, nobody blocked for ever, no event after `stop` |
| `sync` | latch: 4 threads, count 3, steps 1 and 2; barrier: 3 threads, one of weight two, phases up to 3; semaphore: 3 threads, maximum 2; atomics: 2 writers, up to 2 waiters, narrow range 2 in a word of 4; wait group and gate: 4 workers, one added late, 2 coordinators; `jthread`: owner, worker, observer, counts up to 4 | counts exact, nobody ahead or let through twice, permits conserved, no lost update or wakeup, one free and no use after it, `stop_possible` final once false, turns in order, sleepers return |
| `task_graphs` | all acyclic graphs of 3 tasks by two kinds of edge, sequential and parallel, 2 roots; phases and joins; a prerequisite that a parallel task lists twice; sequential graphs with cycles and a missing task | once each and after prerequisites, final statuses, exit 0 exactly if all is well, termination, the plan is followed |
| `audio` | pool: 2 workers, 3 stages of up to 3 sources in four routings, generation modulo 3, thread limits 0 to 2; clip: 3 addresses, 4 previews, patience 2; notes: 2 destinations, queue of 2, 4 key events, 2 panics; patchbay: 2 inputs, 2 outputs, 2 slots for routes, queues of 1 with counters modulo 2, 2 events, 1 message sent, 3 changes of routes (404,383 states) | each source once per stage and on one thread with those it shares an insert with, stages and shutdown return, no mixing of freed memory and no lost clip, no hanging note, each MIDI event forwarded once along each route, queues in order |
| `compiler` | all function bodies of up to 6 statements over 2 names, loops of up to 2 iterations; the server with 3 files (one outside the root), 3 notifications, 2 under way, a write per file (1.89 million states) | accepted code uses live values only and cleans up once; the server follows the editor, its tables agree, its caches are exact |
| `package` | a Git, an archive and a path dependency with 2 versions each, all modes and selections, failures and kills between any two steps, no removal and no writing of a work tree that ends half way (`CutShort = {}`; 3.26 million states) | success means the locked sources are on disk, whole, the lock changes only for cause, strict modes write nothing |

Runs that show a disagreement (expected violations; details under `findings`):

| run | what happens |
|---|---|
| `lfq_zero` | `try_recv` returns 0 with a message still queued: tail is loaded before closed |
| `task_cycle` | two prerequisites of a parallel task that need each other hang instead of being reported |
| `ownership_loop` | a loop body that moves a variable of the enclosing scope is accepted |
| `package_killed` | a command killed while it removes an old archive checkout leaves the marker on a partial tree, which a later command takes for whole |
| `hanging_note` | a panic handled between two steps of `live_note` leaves the note sounding after its release |
| `outside_edit` | a workspace file that another program rewrites is never read again |

More facts that came up while modelling and have no run of their own:

* `Channel` with `AllocFails = TRUE` violates `NoLostWakeup`: a sender woken for a
  free slot that cannot copy its message returns -1 (`std_sync.c` 1700) without
  passing the wakeup on, and another sender stays blocked beside the free slot.
* `Channel` with `Empty` among the `Values` violates `ClosedMeansDrained`: `recv`
  returns 0, the length of an empty message, on an open channel, while
  `sync.mla` 2229 reserves 0 for closed and drained.
* The phase-workflow example of `docs/package_manager.md` (1322) has a root task
  without commands; such a task fails (`package_manager.cpp` 9391) before it
  launches anything, as the manifest `NoCommands` shows.
* `Ownership` with the form `leaveLocals` violates `CleanedUpOnce`: break and
  continue leave scopes without their cleanups. The run `compiler` and the theorems
  about the generator leave the form out, and with it `loopMove`, that of `ownership_loop`.
* `PackageLock` with `CutShort = {"checkout"}` violates `SourcesMatchLock`, as
  `package_killed` does for archives. A clone stopped while git writes the work tree
  has its HEAD, and a checkout stopped there keeps the old HEAD over files of two
  commits. `fetch_git_dep` (`package_manager.cpp` 5822-5840) and `verify_dependency`
  (6269-6279) compare `git rev-parse HEAD` and look at no file, so once the lock asks
  for that commit they report success over a partial tree (ten states: clone, killed,
  a lock pulled, verify). With both faults `VersionsMatchLock`, the half of the
  property about lock, HEAD and marker, still holds (9.7 million states), and
  `PackageVersionsMatchLock` proves it.
* A document closed without saving leaves its discarded text in mlangd's index when
  the file belongs to the workspace (`main.cpp` 673); `TablesAgree` says no more of
  a closed file than that the graph agrees with the index.

Bounds. Three slots and four values make every index pass the wrap-around. Two
senders and two receivers are the smallest instance in which a signal can reach the
wrong one of two equal threads. Three participants let one be a phase late while
another is a phase early; three owners of a stop state let two close while the
third clones. Three tasks are enough for a shared corner (two paths to one task),
for a chain, and for a cycle away from the root. Two workers and three stages let
one worker sleep through a whole stage while a generation modulo 3 comes round.
Six statements are enough to declare, branch, move on one side, assign again and
leave. Two versions tell a moved upstream from a pinned one. Three files let one be
open, one be a workspace file that is not open and one be loaded from outside;
three notifications let a change follow a save and a reopening follow a close.
Two bounds are below what their hazard asks for, as larger instances take too long: the
patchbay's queues hold one packet, so that the order inside a queue rests on
`PortsPatchbayExact`; and each file is written once, so that a `didSave` which reads a
newer text than that of its message rests on `ServerFollowsEditor`. `MaxPush`,
`MaxSend`, `MaxOps`, `MaxAcquire`, `MaxStages`, `MaxPreviews`, `MaxCalls`, `MaxPanics`,
`MaxSize`, `MaxRounds`, `MaxVersion`, `MaxSends`, `MaxWrites` and `MaxInbox` bound the runs; `IndexMod`,
`GenMod`, `NarrowMod` and `WordMod` stand for integer widths; `MaxRefs` and `PhaseMax` are
the code's own limits (`UINT32_MAX`, `INT64_MAX`), which the runs reach. Where a run
switches the deadlock check off, the threads may simply have nothing more to do.

Only `compiler` uses symmetry, of the variables' names; it checks invariants only.

## 4. Fairness and faults

Fairness is stated next to each specification; the safety properties do not depend
on it. The liveness properties assume only:

* a thread that has begun a call and is not blocked goes on (weak fairness of the
  inner steps): the system scheduler runs every ready thread;
* a woken thread gets the mutex: its test of the loop condition is weakly fair;
* a release store becomes visible in finite time (C11 7.17.3);
* a compare-exchange loop of `jthread`'s owner or worker, or of a thread that claims
  jobs, is not overtaken for ever: strong fairness of the exchange that succeeds, as
  the others use the word only a bounded number of times;
* what the use of the object implies: a consumer polls, receivers call `recv` again,
  barrier participants go on arriving or leave, commands end, a worker looks at its
  stop token.

Starting an operation is never fair: senders need not send, nobody need close.

Faults that are modelled: spurious wakeups, failing commands and signatures (task
runner), failing networks, tools and writes, kills, and removals, clones and checkouts
that end half way (package lock), a device that stalls or stops (audition clip), full
event queues and panics (live notes), writes by other programs at any time and texts
that do not parse (language server).

## 5. Proofs

Every theorem holds for all values of the constants that satisfy the assumption of
its module: any number of threads, any capacity, any manifest. The assumptions are
the `...Assumption` definitions, which the runs evaluate on their instances. A few
theorems have one more hypothesis, given below; each rules out a fault that breaks the
property, as a run or a note in section 3 shows. None of the properties is inductive
alone; what the invariant adds is the argument.

| module | theorems | invariant and argument |
|---|---|---|
| `QueueProofs` | `SpscTypeOK`, `SpscFifo`, `SpscNoDataRace`, `SpscRefusalsExact`, `SpscImplementsFifo` | `IInv` counts elements where the code has slots: `seenPop <= Len(got) <= seenPush <= Len(sent) <= seenPop + Capacity`. A stale view of head underestimates the room and one of tail the contents, so both err on the safe side; fewer than `Capacity + 1` counts are in play, so two of them never wrap to one slot |
| `AsyncTickerProofs` | `QueueSlotOwnership`, `QueueSecondZeroIsFinal`, `QueueImplementsFifo`, `TickerStopIsFinal` | `QueueInv`: the same chain, with indices that are counts modulo the word. A slot is an index modulo the capacity; that it is also the count modulo the capacity needs the capacity to divide the number of index values (`SlotOfCount`). `Caught`: an owner that has joined the ticker's thread has seen its last store, so an empty answer is the last |
| `ChannelProofs` | `ChannelZeroMeansDrained`, `ChannelNoLostWakeup`, `ChannelImplementsFifo` | `ChannelInv`: head and tail are `count` slots apart and the slots between hold what was sent and not taken, in order. `NoLostWakeup` is inductive once it is known which threads wait on which condition: a step that adds a message or a free slot signals one more thread, and a woken thread that waits again has found none. The hypotheses are `Empty \notin Values` for the first theorem and `AllocFails = FALSE` for the second |
| `MonitorProofs` (stop state) | `JThreadHandlesExact`, `JThreadReturnsCleanly`, `JThreadImpossibleIsFinal` | `StopInv`: the two counts are the sums, over the threads, of the handles they own and the steps they are in the middle of; hence a count of 0 means that nobody is left, and only the last one out frees. `Joins` relates owner and worker |
| `MonitorProofs` (the others) | `LatchOpensExactly`, `SemaphorePermitsExact`, `BarrierPhasesInStep`, `ConcurrentGateAndGroup`, `AtomicWordExact` | conservation: what is left and what was taken make up what there was. For the barrier, `expected` and `remaining` are the summed weights of those who have not left and of those who have yet to arrive in this phase, and nobody is more than one phase ahead; for the atomics, the low part of the word is always the exact narrow value, since the narrow range divides the word's |
| `TaskRunnerProofs` | `TaskOnceAfterPrerequisites`, `TaskFinalStatus`, `TaskExitIsExact` | `RunnerInv`: each running task belongs to one active call (`OneOwner`), the calls form a tree in which a call has below it just the branches it launched and has not collected (`AllServed`, `Stacked`), and a call knows that what it has been through succeeded (`Informed`). For failures: the path of a call leads from a root along what the tasks ask for (`Routed`), so a task that stands on its own stack is reached from itself, and a call that fails or a task marked failed has a cause (`Blamed`). Cyclic manifests are included |
| `AudioProofs` | `PreviewClipsAccounted`, `NotesNoHangingNote`, `PoolStagesExact`, `PortsPatchbayExact` | clip: while the render thread mixes the clip that is waiting to be freed, its acknowledgement is behind the serial number (`Protected`). Notes: the invariant looks ahead through the event queue and says which notes will sound when it has been emptied (`WillSound`); hypothesis `PanicMidNote = FALSE`, the fault shown by `hanging_note`. Pool: what has begun is a prefix of the plan, as long as the cursor says; those begun and not finished are the jobs of different threads (`Planned`, `Claimed`, `Working`); a worker that comes late compares with the cursor of a later stage and claims from that. Patchbay: `PortInv`. While the callback runs, the route table is the one of the block's beginning (`PortStable`, which needs that stop waits for the callback: hypothesis `Waits`); the slots in use are the routes, each once (`RouteTable`); what has been written is, in order, what the events and slots already passed give (`Forwarded`); each queue's counters modulo the word are apart by the number of packets in it (`Outgoing`, `Incoming`) |
| `CompilerProofs` (language server) | `ServerFollowsEditor`, `ServerTablesAgree`, `ServerCachesExact` | `Invariant` has two halves. `Served`: the last notification under way about a file brings the text of the editor's buffer, and without one the tables have it (`Followed`; a `didSave` brings what the file holds when it is handled, and only the editor writes a file it has open); versions recorded are those of the session, so the one passed on is never refused (`Numbered`); the nodes of the graph are those of the indexed files (`Fits`). `CachesHold`: a search in progress has found only modules that the document reaches (`Sound`), and all it reaches are found or reached from what is still queued (`Complete`), unless a file has changed since the last mutation, which the ghost `since` tells; between taking a time of change and caching the text under it, the file has been written or the text is that of the time (`Stamped`, `ReadOK`) |
| `CompilerProofs` (code generator) | `CodeAcceptedIsLive`, `CodeCleanedUpOnce` | `OwnInv`: the flags of the run stand for the live values, one each, of variables in scope (`Exact`), and a variable that is not among the moved names is flagged (`Certain`), those that a scope shadows included, unless they had been moved by then. While the generator is in a branch that the run does not take, the two hold at the end of the other one, for the moves recorded there (`Skipped`, `View`), so they hold again after the merge. A loop body that moves only its own variables takes what it has stored itself: `Legal` says so of each instruction, and from it a further iteration, which starts with those slots empty, finds what it takes (`Held`, `Replays`), whatever the iterations before did to the variables outside, which they may assign and use. Hypotheses: `"loopMove" \notin Forms`, the fault shown by `ownership_loop`, and `"leaveLocals" \notin Forms`, that of the note in section 3 |
| `PackageLockProofs` | `PackageVersionsMatchLock`, `PackageSourcesMatchLock`, `PackageLockReplacedForCause`, `PackageStrictIsReadOnly` | `PackageInv` follows a command under way: `Context` relates its copy of the lock to the file and the manifest, `Obtained` says that the sources it has been through are what its copy says, `Intact` is what survives kills: what is under a marker is of that version, and whole if nothing ends half way. `PackageSourcesMatchLock` has the hypothesis `CutShort = {}`, which rules out the faults of `package_killed` and of the note in section 3; the others need none |

`AsyncTickerProofs` and `ChannelProofs` are about a queue by itself; `QueueProofs` takes
their theorems over to the queues of `Queues`, under the same names, by instances of
both modules. The theorems of `MonitorProofs`, `AudioProofs` and `CompilerProofs` are about the
objects of `Monitors`, `Audio` and `Compiler`. So each theorem states the very formula that a run checks.

`SpscInvariant`, `QueueInvariant`, `ChannelInvariant`, `JThreadInvariant`,
`RunnerInvariant` and `PackageInvariant` state the inductive invariants themselves.
`TaskExitIsExact` does not mention the plan: a faulty manifest is one whose roots reach,
in the least closed set of tasks, a task that is not there or that is reached from what
it asks for itself. That the recursive expansion of the plan reports just these
manifests is a part of `PlanIsFollowed`, on the manifests of the run. The theorem about the worker pool does not
need the generation, only the cursor.

Four things the proofs changed in the models. A parallel task that lists a
prerequisite twice makes two calls with the same path; one frame stands for both, and
`Collect` could not pass the second entry. It now does what the code does, where the
second call finds the result of the first in the table, and a manifest of the run has
the case. In `AudioPool` the sources of a stage are sets together with their
increasing list, since the code visits the slots in order. In `LanguageServer` the
scan and the diagnostics were folds over a list of files inside one action; each file
is now a step, as in the code's loops, and writes by other programs come in between.
In `Ownership` cleanups were lists of instructions, flattened out of the scopes and folded
over the run, and a loop ran all its further iterations in one step; cleanups are now
given by their effect, and each instruction of an iteration is a step.

The prover cannot use the library's induction theorems, whose induction hypothesis is
an operator. Where an argument is an induction, it is one over the steps of a
behaviour, or it takes the least element of a set of numbers (`Least`, from the
well-foundedness of `<` on the naturals).

Only model-checked:

* liveness (`Delivered`, `BlockedReturn`, `SleepersReturn`, `PoolReturns`,
  `Terminates` and the like): the prover has no fairness;
* `PlanIsFollowed`: `TaskPlan` computes the plan with a recursive operator, and tlapm
  has no SMT backend where it sees one; what the plan is for every manifest would be an
  induction over the depth of the expansion.

## 6. Not modelled

In the modelled components: close and free of latch, barrier, semaphore, wait group
and gate (destroying an object nobody uses); `OrderedGate::set` to an arbitrary turn;
timed waits; the floating-point atomics; error codes of pthread calls; the command
text, permission fixup and signing inside a task beyond success and failure; fields,
elements, closures, match, for loops, exceptions and borrows in the ownership
analysis; dependencies of dependencies, optional ones, submodules, the global cache
and the vendor directory in the package lock; two commands at a time on one package
(nothing in the code or the docs provides for it); range edits, completion cache and
the texts of answers in the language server; plugins, routing tables, signal
processing and recording in the audio controller; devices, single ports and the CoreMIDI
backend of `std::midi`.

Components without a module are in `PROJECT.json` with the reason. Most of the
repository is of that kind: translation to LLVM IR, the grammar, command lines for
compilers and linkers, numeric, text and signal-processing routines, renderers, and
wrappers over system calls. They keep no state between calls, or only tables with
one user; a model of them would repeat the code.

## 7. Plan

Done: the queues and their abstract specification, the monitors, the atomics, the
stop state and `jthread`, `std::concurrent`, tickers, the task runner and plan, the
lockfile with its sources, the audio controller's threads, the MIDI patchbay, moves
and cleanups, the language server; the theorems of section 5, one for each safety
property of the passing runs but `PlanIsFollowed`.

What is left: the plan of the task runner as a function of the manifest in place of a
recursive operator, for `PlanIsFollowed`; in `Ownership`, branches inside loops, and
fields, whose flags and moved paths nest.
