------------------------------ MODULE LiveNotes ------------------------------
(***************************************************************************)
(* Live MIDI notes of an audio controller (std_audio_controller.inc): one  *)
(* MIDI thread turns a key into events for the destination selected in the *)
(* user interface, the render thread plays them, and any thread may ask    *)
(* for a panic, as may a full queue.  Notes of one key are modelled: the   *)
(* keys share nothing but the queue and the panic count.                   *)
(***************************************************************************)
EXTENDS Integers, Sequences

CONSTANTS Targets,        \* destinations; NoTarget silences new notes
          NoTarget,
          QueueSize,      \* AC_QUEUE
          MaxCalls,       \* bound on the calls of live_note
          MaxPanics,      \* bound on the panics of other threads
          PanicMidNote    \* a panic may fall between the steps of live_note

NotesAssumption ==
  /\ NoTarget \notin Targets /\ QueueSize \in Nat \ {0}
  /\ MaxCalls \in Nat /\ MaxPanics \in Nat /\ PanicMidNote \in BOOLEAN

VARIABLES
  target,      \* live_target
  panic,       \* c->panic
  livePanic,   \* live_panic: the count the MIDI thread has seen
  seenPanic,   \* seen_panic: the count the render thread has seen
  held,        \* live_notes[key]
  queue,       \* events of lane 1, oldest first: [on, to]
  midi,        \* the MIDI thread: [pc, on, previous]
  block,       \* the render thread is inside a block
  sounding,    \* destinations where the note sounds
  down,        \* the key is down
  calls, panics   \* bounds

vars == <<target, panic, livePanic, seenPanic, held, queue, midi, block, sounding, down,
          calls, panics>>

Idle == [pc |-> "idle", on |-> FALSE, previous |-> NoTarget]

Init ==
  /\ target = NoTarget /\ panic = 0 /\ livePanic = 0 /\ seenPanic = 0
  /\ held = NoTarget /\ queue = << >> /\ midi = Idle /\ block = FALSE
  /\ sounding = {} /\ down = FALSE /\ calls = 0 /\ panics = 0

\* midi_target
Select(t) ==
  /\ target' = t
  /\ UNCHANGED <<panic, livePanic, seenPanic, held, queue, midi, block, sounding, down, calls, panics>>

\* panic, or an event of another lane finds its queue full.
Panic ==
  /\ panics < MaxPanics /\ (PanicMidNote \/ midi.pc = "idle")
  /\ panic' = panic + 1 /\ panics' = panics + 1
  /\ UNCHANGED <<target, livePanic, seenPanic, held, queue, midi, block, sounding, down, calls>>

-----------------------------------------------------------------------------
\* post: 0, or 1 for a full queue, which asks for a panic.
Full == Len(queue) >= QueueSize
Post(on, to) ==
  IF Full THEN panic' = panic + 1 /\ UNCHANGED queue
  ELSE queue' = Append(queue, [on |-> on, to |-> to]) /\ UNCHANGED panic

\* live_note: after a panic nothing is held any more.
LiveNote(on) ==
  /\ midi.pc = "idle" /\ calls < MaxCalls
  /\ calls' = calls + 1
  /\ livePanic' = panic
  /\ midi' = [pc |-> "off", on |-> on,
              previous |-> IF panic # livePanic THEN NoTarget ELSE held]
  /\ held' = NoTarget /\ down' = on
  /\ UNCHANGED <<target, panic, seenPanic, queue, block, sounding, panics>>

\* Mutant: the note-off goes to the destination selected now.
OffTargetCurrent == target
\* The destination the note was started at.
OffTarget == midi.previous

\* The note that was held is ended where it was started.
EndHeld ==
  LET to == OffTarget
      ends == midi.previous # NoTarget /\ to # NoTarget
  IN  /\ midi.pc = "off"
      /\ IF ends THEN Post(FALSE, to) ELSE UNCHANGED <<queue, panic>>
      /\ midi' = IF (ends /\ Full) \/ ~midi.on THEN Idle ELSE [midi EXCEPT !.pc = "on"]
      /\ UNCHANGED <<target, livePanic, seenPanic, held, block, sounding, down, calls, panics>>

\* A new note starts at the destination selected now.
StartNew ==
  /\ midi.pc = "on"
  /\ IF target # NoTarget THEN Post(TRUE, target) ELSE UNCHANGED <<queue, panic>>
  /\ held' = IF target # NoTarget /\ Full THEN held ELSE target
  /\ midi' = Idle
  /\ UNCHANGED <<target, livePanic, seenPanic, block, sounding, down, calls, panics>>

-----------------------------------------------------------------------------
\* ac_render: a panic silences everything and empties the queues.
BeginBlock ==
  /\ ~block /\ block' = TRUE
  /\ IF panic # seenPanic
     THEN seenPanic' = panic /\ sounding' = {} /\ queue' = << >>
     ELSE UNCHANGED <<seenPanic, sounding, queue>>
  /\ UNCHANGED <<target, panic, livePanic, held, midi, down, calls, panics>>

\* ac_dispatch of the events due; one that is not keeps back those behind it.
Dispatch ==
  LET e == Head(queue)
  IN  /\ block /\ queue # << >>
      /\ sounding' = IF e.on THEN sounding \cup {e.to} ELSE sounding \ {e.to}
      /\ queue' = Tail(queue)
      /\ UNCHANGED <<target, panic, livePanic, seenPanic, held, midi, block, down, calls, panics>>

EndBlock ==
  /\ block /\ block' = FALSE
  /\ UNCHANGED <<target, panic, livePanic, seenPanic, held, queue, midi, sounding, down, calls, panics>>

\* stop, between blocks.
Stop ==
  /\ ~block
  /\ sounding' = {} /\ queue' = << >>
  /\ UNCHANGED <<target, panic, livePanic, seenPanic, held, midi, block, down, calls, panics>>

Next ==
  \/ \E t \in Targets \cup {NoTarget} : Select(t)
  \/ Panic
  \/ \E on \in BOOLEAN : LiveNote(on)
  \/ EndHeld \/ StartNew
  \/ BeginBlock \/ Dispatch \/ EndBlock \/ Stop

Spec == Init /\ [][Next]_vars

-----------------------------------------------------------------------------
\* No note hangs: when the key is up, its events have been played and the last
\* panic has been seen, it sounds nowhere, although the selection changed while
\* it was held, queues overflowed or others asked for a panic.
NoHangingNote ==
  (~down /\ midi.pc = "idle" /\ queue = << >> /\ panic = seenPanic) => sounding = {}
=============================================================================
