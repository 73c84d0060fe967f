---------------------------- MODULE AudioPreview ----------------------------
(***************************************************************************)
(* The audition clip of an audio controller (std_audio_controller.inc):    *)
(* the control thread replaces the clip the render thread is playing and   *)
(* frees the old one once the render thread has acknowledged the exchange, *)
(* or gives it up when the device stalls.                                  *)
(***************************************************************************)
EXTENDS Integers

CONSTANTS Addresses,     \* where malloc puts a clip
          MaxPreviews,   \* bound on the calls of preview
          Patience       \* how often preview tests the acknowledgement (250)

Null == 0                \* no clip
PreviewAssumption ==
  /\ Null \notin Addresses /\ MaxPreviews \in Nat /\ Patience \in Nat

VARIABLES
  preview,    \* c->preview
  serial,     \* c->preview_serial
  ack,        \* c->preview_ack
  running,    \* c->running: a device renders
  heap,       \* history: the call of preview whose clip is at an address, 0 for none
  control,    \* the control thread: [pc, old, ticks, call]
  render,     \* the render thread: [pc, serial, clip, call]
  leaked      \* history: clips given up because the device stalled

vars == <<preview, serial, ack, running, heap, control, render, leaked>>

ControlIdle == [pc |-> "idle", old |-> Null, ticks |-> 0]
RenderIdle == [pc |-> "idle", serial |-> 0, clip |-> Null, call |-> 0]

Init ==
  /\ preview = Null /\ serial = 0 /\ ack = 0 /\ running = FALSE
  /\ heap = [a \in Addresses |-> 0]
  /\ control = ControlIdle /\ render = RenderIdle /\ leaked = {}

-----------------------------------------------------------------------------
\* preview: the clip, or none, is exchanged for the one playing ...
Exchange(clip) ==
  /\ control.pc = "idle" /\ serial < MaxPreviews
  /\ clip = Null \/ (clip \in Addresses /\ heap[clip] = 0)
  /\ heap' = IF clip = Null THEN heap ELSE [heap EXCEPT ![clip] = serial + 1]
  /\ preview' = clip
  /\ control' = [pc |-> "exchanged", old |-> preview, ticks |-> Patience]
  /\ UNCHANGED <<serial, ack, running, render, leaked>>

\* ... and the serial number raised.
Raise ==
  /\ control.pc = "exchanged"
  /\ serial' = serial + 1
  /\ control' = IF control.old = Null THEN ControlIdle ELSE [control EXCEPT !.pc = "waiting"]
  /\ UNCHANGED <<preview, ack, running, heap, render, leaked>>

Tick ==
  /\ control.pc = "waiting"
  /\ running /\ control.ticks > 0 /\ ack < serial
  /\ control' = [control EXCEPT !.ticks = @ - 1]
  /\ UNCHANGED <<preview, serial, ack, running, heap, render, leaked>>

Freed(a) == heap' = [heap EXCEPT ![a] = 0]

\* Mutant: the clip is freed when the time is up.
WaitOverImpatient ==
  /\ control.pc = "waiting"
  /\ ~running \/ control.ticks = 0 \/ ack >= serial
  /\ Freed(control.old)
  /\ control' = ControlIdle
  /\ UNCHANGED <<preview, serial, ack, running, render, leaked>>

\* The loop has ended: what it has not seen it tests once more.
WaitOver ==
  LET a == control.old
  IN  /\ control.pc = "waiting"
      /\ ~running \/ control.ticks = 0 \/ ack >= serial
      /\ IF ~running \/ ack >= serial
         THEN Freed(a) /\ UNCHANGED leaked
         ELSE leaked' = leaked \cup {heap[a]} /\ UNCHANGED heap
      /\ control' = ControlIdle
      /\ UNCHANGED <<preview, serial, ack, running, render>>

-----------------------------------------------------------------------------
\* start and stop of the device; stop returns when no block is being rendered.
Start ==
  /\ control.pc = "idle" /\ ~running
  /\ running' = TRUE
  /\ UNCHANGED <<preview, serial, ack, heap, control, render, leaked>>
Stop ==
  /\ control.pc = "idle" /\ running /\ render.pc = "idle"
  /\ running' = FALSE
  /\ UNCHANGED <<preview, serial, ack, heap, control, render, leaked>>

\* process: without a device the control thread renders a block itself.
Process ==
  /\ control.pc = "idle" /\ ~running
  /\ control' = [control EXCEPT !.pc = "process"]
  /\ UNCHANGED <<preview, serial, ack, running, heap, render, leaked>>

\* close stops the device and frees the clip.
Close ==
  /\ control.pc = "idle" /\ render.pc = "idle"
  /\ running' = FALSE
  /\ control' = [control EXCEPT !.pc = "closed"]
  /\ IF preview = Null THEN UNCHANGED heap ELSE Freed(preview)
  /\ preview' = Null
  /\ UNCHANGED <<serial, ack, render, leaked>>

-----------------------------------------------------------------------------
\* ac_render: the serial number is loaded before the clip.
LoadSerial ==
  /\ render.pc = "idle" /\ (running \/ control.pc = "process")
  /\ render' = [render EXCEPT !.pc = "serial", !.serial = serial]
  /\ UNCHANGED <<preview, serial, ack, running, heap, control, leaked>>
LoadClip ==
  /\ render.pc = "serial"
  /\ render' = [render EXCEPT !.pc = "mixing", !.clip = preview,
                  !.call = IF preview = Null THEN 0 ELSE heap[preview]]
  /\ UNCHANGED <<preview, serial, ack, running, heap, control, leaked>>
\* The block has been mixed.
Acknowledge ==
  /\ render.pc = "mixing"
  /\ ack' = render.serial
  /\ render' = RenderIdle
  /\ control' = IF control.pc = "process" THEN ControlIdle ELSE control
  /\ UNCHANGED <<preview, serial, running, heap, leaked>>

Next ==
  \/ \E clip \in Addresses \cup {Null} : Exchange(clip)
  \/ Raise \/ Tick \/ WaitOver
  \/ Start \/ Stop \/ Process \/ Close
  \/ LoadSerial \/ LoadClip \/ Acknowledge

Spec == Init /\ [][Next]_vars

-----------------------------------------------------------------------------
\* A block is mixed from memory that still holds the clip it began with, also
\* when malloc reuses addresses; and every clip is loaded, about to be freed,
\* or was given up while the device stalled: none is lost otherwise.
ClipsAccounted ==
  /\ render.pc = "mixing" /\ render.clip # Null => heap[render.clip] = render.call
  /\ \A a \in Addresses : heap[a] # 0 => a \in {preview, control.old} \/ heap[a] \in leaked
=============================================================================
