------------------------- MODULE AudioProofs -----------------------------
(***************************************************************************)
(* Proofs about the mechanisms of the audio controller: the audition clip  *)
(* (AudioPreview), the live notes (LiveNotes) and the worker pool          *)
(* (AudioPool), for every number of workers, sources, stages, clips, key   *)
(* events and panics and for every size of the queues; and about the MIDI  *)
(* patchbay (MidiPatchbay), for every number of ports, routes and events.  *)
(* They share no state; Audio puts them side by side.                      *)
(***************************************************************************)
EXTENDS Audio, Sequences, FiniteSetTheorems, WellFoundedInduction, TLAPS

-----------------------------------------------------------------------------
(***************************************************************************)
(* AudioPreview.  ClipsAccounted is not inductive: that the clip being     *)
(* mixed survives the free in WaitOver depends on what the acknowledgement *)
(* means.  The inductive invariant says it (Protected): while the render   *)
(* thread still mixes the clip that preview is waiting to free, the        *)
(* acknowledgement is behind the serial number; and without a device       *)
(* nobody mixes at all.                                                    *)
(***************************************************************************)
Clips == Addresses \cup {Null}

PreviewTypeOK ==
  /\ preview \in Clips /\ serial \in Nat /\ ack \in Nat /\ running \in BOOLEAN
  /\ heap \in [Addresses -> Nat] /\ leaked \subseteq Nat
  /\ control \in [pc : {"idle", "exchanged", "waiting", "process", "closed"},
                  old : Clips, ticks : Nat]
  /\ render \in [pc : {"idle", "serial", "mixing"}, serial : Nat, clip : Clips, call : Nat]

\* The clip on offer and the clip about to be freed are two allocated clips,
\* and preview keeps an old clip only while it runs.
Offered ==
  /\ preview # Null => heap[preview] # 0
  /\ control.old # Null => heap[control.old] # 0 /\ control.old # preview
  /\ control.pc \in {"idle", "process", "closed"} => control.old = Null
  /\ control.pc = "waiting" => control.old # Null

\* What the render thread has read is no newer than what was published; it
\* renders only for a device or for the control thread in process.
Rendering ==
  /\ ack <= serial /\ render.serial <= serial
  /\ ~running => render.pc = "idle" \/ control.pc = "process"
  /\ control.pc = "process" => ~running

\* The clip being mixed, and the acknowledgement that still protects it.
Protected ==
  render.pc = "mixing" /\ render.clip # Null =>
     /\ render.call # 0 /\ heap[render.clip] = render.call
     /\ control.pc = "waiting" /\ control.old = render.clip => ack < serial

Kept == \A a \in Addresses :
          heap[a] # 0 => a \in {preview, control.old} \/ heap[a] \in leaked

PreviewInv == PreviewTypeOK /\ Offered /\ Rendering /\ Protected /\ Kept

-----------------------------------------------------------------------------
LEMMA PreviewInitInv == ASSUME PreviewAssumption, Init PROVE PreviewInv
<1> USE DEF PreviewAssumption, Init, Clips, ControlIdle, RenderIdle, Null
<1>1. running \in BOOLEAN
  OBVIOUS
<1>2. PreviewTypeOK
  BY <1>1 DEF PreviewTypeOK
<1>3. Offered /\ Rendering /\ Protected /\ Kept
  BY DEF Offered, Rendering, Protected, Kept
<1> QED
  BY <1>2, <1>3 DEF PreviewInv

LEMMA ExchangeInv ==
  ASSUME PreviewAssumption, PreviewInv, NEW clip \in Clips, Exchange(clip)
  PROVE  PreviewInv'
<1> USE DEF PreviewAssumption, PreviewInv, PreviewTypeOK, Clips, Exchange, Null
<1>1. PreviewTypeOK'
  OBVIOUS
<1>2. Offered'
  BY DEF Offered
<1>3. Rendering'
  BY DEF Rendering
<1>4. Protected'
  BY DEF Protected
<1>5. Kept'
  BY DEF Kept, Offered
<1> QED
  BY <1>1, <1>2, <1>3, <1>4, <1>5

LEMMA RaiseInv ==
  ASSUME PreviewAssumption, PreviewInv, Raise
  PROVE  PreviewInv'
<1> USE DEF PreviewAssumption, PreviewInv, PreviewTypeOK, Clips, Raise, ControlIdle, Null
<1>1. PreviewTypeOK'
  OBVIOUS
<1>2. Offered' /\ Kept'
  BY DEF Offered, Kept
<1>3. Rendering'
  BY DEF Rendering
<1>4. Protected'
  BY DEF Protected, Rendering
<1> QED
  BY <1>1, <1>2, <1>3, <1>4

LEMMA TickInv ==
  ASSUME PreviewAssumption, PreviewInv, Tick
  PROVE  PreviewInv'
  BY DEF PreviewInv, PreviewTypeOK, Clips, Tick, Offered, Rendering, Protected, Kept

\* The free: either nobody mixes, or the acknowledgement has caught up and
\* so the clip being mixed is another one.
LEMMA WaitOverInv ==
  ASSUME PreviewAssumption, PreviewInv, WaitOver
  PROVE  PreviewInv'
<1> USE DEF PreviewAssumption, PreviewInv, PreviewTypeOK, Clips, WaitOver, ControlIdle, Null
<1>0. control.old \in Addresses
  BY DEF Offered
<1>1. PreviewTypeOK'
  <2>1. heap' \in [Addresses -> Nat]
    BY <1>0 DEF Freed
  <2>2. heap[control.old] \in Nat
    BY <1>0
  <2>3. leaked' \subseteq Nat
    BY <2>2
  <2> QED
    BY <2>1, <2>3
<1>2. Offered'
  BY <1>0 DEF Offered, Freed
<1>3. Rendering'
  BY DEF Rendering
<1>4. Protected'
  <2> SUFFICES ASSUME render.pc = "mixing", render.clip # Null
               PROVE  render.call # 0 /\ heap'[render.clip] = render.call
    BY DEF Protected
  <2>1. running
    BY DEF Rendering
  <2>2. ack >= serial => render.clip # control.old
    BY DEF Protected, Rendering
  <2> QED
    BY <1>0, <2>1, <2>2 DEF Protected, Freed
<1>5. Kept'
  BY <1>0 DEF Kept, Freed
<1> QED
  BY <1>1, <1>2, <1>3, <1>4, <1>5

LEMMA DeviceInv ==
  ASSUME PreviewAssumption, PreviewInv, Start \/ Stop \/ Process
  PROVE  PreviewInv'
<1>1. PreviewTypeOK'
  <2>1. running' \in BOOLEAN
    BY DEF PreviewInv, PreviewTypeOK, Start, Stop, Process
  <2> QED
    BY <2>1 DEF PreviewInv, PreviewTypeOK, Start, Stop, Process
<1>2. Offered' /\ Rendering' /\ Protected' /\ Kept'
  BY DEF PreviewInv, PreviewTypeOK, Start, Stop, Process,
         Offered, Rendering, Protected, Kept
<1> QED
  BY <1>1, <1>2 DEF PreviewInv

LEMMA CloseInv ==
  ASSUME PreviewAssumption, PreviewInv, Close
  PROVE  PreviewInv'
<1> USE DEF PreviewAssumption, PreviewInv, PreviewTypeOK, Clips, Close, Freed, Null
<1>1. PreviewTypeOK'
  <2>1. running' \in BOOLEAN
    OBVIOUS
  <2>2. heap' \in [Addresses -> Nat]
    OBVIOUS
  <2> QED
    BY <2>1, <2>2
<1>2. Offered' /\ Rendering' /\ Protected'
  BY DEF Offered, Rendering, Protected
<1>3. Kept'
  BY DEF Kept, Offered
<1> QED
  BY <1>1, <1>2, <1>3

LEMMA RenderInv ==
  ASSUME PreviewAssumption, PreviewInv, LoadSerial \/ LoadClip \/ Acknowledge
  PROVE  PreviewInv'
<1> USE DEF PreviewAssumption, PreviewInv, PreviewTypeOK, Clips, Null
<1>1. CASE LoadSerial
  <2>1. PreviewTypeOK'
    BY <1>1 DEF LoadSerial
  <2>2. Offered' /\ Rendering' /\ Protected' /\ Kept'
    BY <1>1 DEF LoadSerial, Offered, Rendering, Protected, Kept
  <2> QED
    BY <2>1, <2>2
<1>2. CASE LoadClip
  BY <1>2 DEF LoadClip, Offered, Rendering, Protected, Kept
<1>3. CASE Acknowledge
  BY <1>3 DEF Acknowledge, RenderIdle, ControlIdle, Offered, Rendering, Protected, Kept
<1> QED
  BY <1>1, <1>2, <1>3

LEMMA PreviewNextInv ==
  ASSUME PreviewAssumption, PreviewInv, [Next]_vars
  PROVE  PreviewInv'
<1>1. CASE UNCHANGED vars
  BY <1>1 DEF vars, PreviewInv, PreviewTypeOK, Offered, Rendering, Protected, Kept
<1> QED
  BY <1>1, ExchangeInv, RaiseInv, TickInv, WaitOverInv, DeviceInv, CloseInv, RenderInv
     DEF Next, Clips

\* The render thread mixes only memory that still holds the clip it began
\* with, also when malloc reuses the address of a freed one, and preview
\* loses no clip but those it gives up while the device stalls.
THEOREM PreviewClipsAccounted ==
  ASSUME PreviewAssumption
  PROVE  Spec => []ClipsAccounted
<1>1. Init => PreviewInv
  BY PreviewInitInv
<1>2. PreviewInv /\ [Next]_vars => PreviewInv'
  BY PreviewNextInv
<1>3. PreviewInv => ClipsAccounted
  BY DEF PreviewInv, Protected, Kept, ClipsAccounted
<1> QED
  BY <1>1, <1>2, <1>3, PTL DEF Spec

-----------------------------------------------------------------------------
(***************************************************************************)
(* LiveNotes, when panics do not fall between the steps of live_note.  The *)
(* invariant looks ahead: unless a reset is due, a destination where the   *)
(* note will sound once the queue has been played is the one that is held  *)
(* or that the MIDI thread is about to end, and no panic has come since    *)
(* the MIDI thread last looked.                                            *)
(***************************************************************************)
Events == [on : BOOLEAN, to : Targets]

NotesTypeOK ==
  /\ nTarget \in Targets \cup {NoTarget} /\ nHeld \in Targets \cup {NoTarget}
  /\ nPanic \in Nat /\ nSeenPanic \in Nat /\ nSeenPanic <= nPanic
  /\ nQueue \in Seq(Events) /\ nSounding \subseteq Targets
  /\ nMidi \in [pc : {"idle", "off", "on"}, on : BOOLEAN, previous : Targets \cup {NoTarget}]

\* Where the note sounds after the events of queue q.
Last(q, x, k) == q[k].to = x /\ \A j \in 1 .. Len(q) : j > k => q[j].to # x
WillSound(q, s, x) ==
  \/ \E k \in 1 .. Len(q) : Last(q, x, k) /\ q[k].on = TRUE
  \/ x \in s /\ \A k \in 1 .. Len(q) : q[k].to # x

MidiKnows ==
  /\ nMidi.pc # "idle" => nLivePanic = nPanic /\ nHeld = NoTarget
  /\ ~nDown => nHeld = NoTarget
  /\ nMidi.pc = "on" \/ (nMidi.pc = "off" /\ nMidi.on = TRUE) => nDown

NoteIsHeld ==
  nPanic = nSeenPanic => \A x \in Targets : WillSound(nQueue, nSounding, x) =>
    /\ nLivePanic = nPanic
    /\ x = nHeld \/ (nMidi.pc = "off" /\ x = nMidi.previous)

NotesInv == NotesTypeOK /\ MidiKnows /\ NoteIsHeld

\* What the queue's operations do to the future sound.
LEMMA SoundAfterPost ==
  ASSUME NEW q \in Seq(Events), NEW s, NEW x, NEW e \in Events
  PROVE  /\ Append(q, e) \in Seq(Events)
         /\ WillSound(Append(q, e), s, x) =>
              IF e.to = x THEN e.on = TRUE ELSE WillSound(q, s, x)
<1> DEFINE r == Append(q, e)
<1>1. /\ r \in Seq(Events) /\ Len(r) = Len(q) + 1 /\ Len(q) \in Nat /\ r[Len(q) + 1] = e
      /\ \A k \in 1 .. Len(q) : r[k] = q[k]
  OBVIOUS
<1> HIDE DEF r
<1>2. ASSUME WillSound(r, s, x), e.to = x PROVE e.on = TRUE
  <2>1. Len(q) + 1 \in 1 .. Len(r) /\ r[Len(q) + 1].to = x
    BY <1>1, <1>2
  <2>2. PICK k \in 1 .. Len(r) : Last(r, x, k) /\ r[k].on = TRUE
    BY <1>2, <2>1 DEF WillSound
  <2>3. k = Len(q) + 1
    BY <1>1, <2>1, <2>2 DEF Last
  <2> QED
    BY <1>1, <2>2, <2>3
<1>3. ASSUME WillSound(r, s, x), e.to # x PROVE WillSound(q, s, x)
  <2>1. CASE \E k \in 1 .. Len(r) : Last(r, x, k) /\ r[k].on = TRUE
    <3>1. PICK k \in 1 .. Len(r) : Last(r, x, k) /\ r[k].on = TRUE
      BY <2>1
    <3>2. k \in 1 .. Len(q)
      BY <1>1, <1>3, <3>1 DEF Last
    <3>3. Last(q, x, k) /\ q[k].on = TRUE
      BY <1>1, <3>1, <3>2 DEF Last
    <3> QED
      BY <3>2, <3>3 DEF WillSound
  <2>2. CASE x \in s /\ \A k \in 1 .. Len(r) : r[k].to # x
    BY <1>1, <2>2 DEF WillSound
  <2> QED
    BY <1>3, <2>1, <2>2 DEF WillSound
<1> QED
  BY <1>1, <1>2, <1>3 DEF r

LEMMA SoundAfterDispatch ==
  ASSUME NEW q \in Seq(Events), q # << >>, NEW s, NEW x,
         WillSound(Tail(q), IF Head(q).on THEN s \cup {Head(q).to} ELSE s \ {Head(q).to}, x)
  PROVE  WillSound(q, s, x)
<1> DEFINE r == Tail(q)
           e == q[1]
<1>1. /\ Len(q) \in Nat \ {0} /\ Len(r) = Len(q) - 1 /\ Head(q) = e /\ e \in Events
      /\ \A k \in 1 .. Len(r) : r[k] = q[k + 1]
  OBVIOUS
<1>2. e.on \in BOOLEAN
  BY <1>1 DEF Events
<1> HIDE DEF r, e
<1>3. CASE \E k \in 1 .. Len(r) : Last(r, x, k) /\ r[k].on = TRUE
  <2>1. PICK k \in 1 .. Len(r) : Last(r, x, k) /\ r[k].on = TRUE
    BY <1>3
  <2>2. k + 1 \in 1 .. Len(q) /\ q[k + 1].to = x /\ q[k + 1].on = TRUE
    BY <1>1, <2>1 DEF Last
  <2>3. ASSUME NEW j \in 1 .. Len(q), j > k + 1 PROVE q[j].to # x
    <3>1. j - 1 \in 1 .. Len(r) /\ j - 1 > k /\ r[j - 1] = q[(j - 1) + 1] /\ (j - 1) + 1 = j
      BY <1>1, <2>1, <2>3
    <3> QED
      BY <2>1, <3>1 DEF Last
  <2> QED
    BY <2>2, <2>3 DEF WillSound, Last
<1>4. CASE /\ x \in (IF e.on THEN s \cup {e.to} ELSE s \ {e.to})
           /\ \A k \in 1 .. Len(r) : r[k].to # x
  <2>1. \A j \in 1 .. Len(q) : j > 1 => q[j].to # x
    <3> SUFFICES ASSUME NEW j \in 1 .. Len(q), j > 1 PROVE q[j].to # x
      OBVIOUS
    <3>1. j - 1 \in 1 .. Len(r) /\ r[j - 1] = q[(j - 1) + 1] /\ (j - 1) + 1 = j
      BY <1>1
    <3> QED
      BY <1>4, <3>1
  <2>2. CASE e.to = x
    <3>1. e.on = TRUE
      BY <1>2, <1>4, <2>2
    <3> QED
      BY <1>1, <2>1, <2>2, <3>1 DEF WillSound, Last, e
  <2>3. CASE e.to # x
    <3>1. x \in s
      BY <1>2, <1>4, <2>3
    <3>2. \A j \in 1 .. Len(q) : q[j].to # x
      BY <1>1, <2>1, <2>3 DEF e
    <3> QED
      BY <3>1, <3>2 DEF WillSound
  <2> QED
    BY <2>2, <2>3
<1> QED
  BY <1>1, <1>3, <1>4 DEF WillSound, r, e

LEMMA NothingQueued ==
  /\ << >> \in Seq(Events)
  /\ \A x : ~WillSound(<< >>, {}, x)
  BY DEF WillSound

LEMMA NotesNextInv ==
  ASSUME N!NotesAssumption, PanicMidNote = FALSE, NotesInv, [N!Next]_N!vars
  PROVE  NotesInv'
<1>1. nPanic \in Nat /\ nSeenPanic \in Nat /\ nSeenPanic <= nPanic /\ nQueue \in Seq(Events)
  BY DEF NotesInv, NotesTypeOK
<1>2. ASSUME NEW t \in Targets \cup {NoTarget}, N!Select(t) PROVE NotesInv'
  BY <1>2 DEF N!Select, NotesInv, NotesTypeOK, MidiKnows, NoteIsHeld
<1>3. ASSUME N!Panic PROVE NotesInv'
  <2>1. nPanic' # nSeenPanic' /\ nPanic' \in Nat /\ nSeenPanic' <= nPanic' /\ nMidi.pc = "idle"
    BY <1>1, <1>3 DEF N!Panic
  <2> QED
    BY <1>3, <2>1 DEF N!Panic, NotesInv, NotesTypeOK, MidiKnows, NoteIsHeld
<1>4. ASSUME NEW on \in BOOLEAN, N!LiveNote(on) PROVE NotesInv'
  <2>1. PICK prev : prev = IF nPanic # nLivePanic THEN NoTarget ELSE nHeld
    OBVIOUS
  <2>2. /\ nMidi.pc = "idle" /\ nMidi' = [pc |-> "off", on |-> on, previous |-> prev]
        /\ nHeld' = NoTarget /\ nDown' = on /\ nLivePanic' = nPanic
        /\ UNCHANGED <<nTarget, nPanic, nSeenPanic, nQueue, nSounding>>
    BY <1>4, <2>1 DEF N!LiveNote
  <2>3. prev \in Targets \cup {NoTarget}
    BY <2>1 DEF NotesInv, NotesTypeOK
  <2>4. NotesTypeOK'
    BY <2>2, <2>3 DEF NotesInv, NotesTypeOK
  <2>5. MidiKnows'
    BY <2>2 DEF MidiKnows
  <2>6. NoteIsHeld'
    BY <2>1, <2>2 DEF NotesInv, NoteIsHeld
  <2> QED
    BY <2>4, <2>5, <2>6 DEF NotesInv
<1>5. ASSUME NEW e \in Events, N!Post(e.on, e.to), ~N!Full
      PROVE  nQueue' = Append(nQueue, e) /\ nQueue' \in Seq(Events) /\ nPanic' = nPanic
  <2>1. e = [on |-> e.on, to |-> e.to]
    BY DEF Events
  <2>2. nQueue' = Append(nQueue, e) /\ nPanic' = nPanic
    BY <1>5, <2>1, Zenon DEF N!Post
  <2> QED
    BY <1>1, <2>2
<1>6. ASSUME NEW on, NEW to, N!Post(on, to), N!Full, nSeenPanic' = nSeenPanic
      PROVE  /\ nQueue' = nQueue /\ nPanic' = nPanic + 1 /\ nPanic' \in Nat
             /\ nPanic' # nSeenPanic' /\ nSeenPanic' <= nPanic'
  <2>1. nQueue' = nQueue /\ nPanic' = nPanic + 1
    BY <1>6 DEF N!Post
  <2> QED
    BY <1>1, <1>6, <2>1
<1>7. N!Idle = [pc |-> "idle", on |-> FALSE, previous |-> NoTarget]
  BY DEF N!Idle
<1>8. ASSUME N!EndHeld PROVE NotesInv'
  <2>1. PICK p : p = nMidi.previous
    OBVIOUS
  <2>2. /\ nMidi.pc = "off" /\ nLivePanic = nPanic /\ nHeld = NoTarget
        /\ UNCHANGED <<nTarget, nLivePanic, nSeenPanic, nHeld, nSounding, nDown>>
        /\ p \in Targets \cup {NoTarget} /\ nMidi.on \in BOOLEAN
    BY <1>8, <2>1 DEF N!EndHeld, NotesInv, NotesTypeOK, MidiKnows
  <2>3. nMidi' \in {N!Idle, [nMidi EXCEPT !.pc = "on"]} /\ (~nMidi.on => nMidi' = N!Idle)
    BY <1>8 DEF N!EndHeld
  <2>4. /\ nMidi' \in [pc : {"idle", "on"}, on : BOOLEAN, previous : Targets \cup {NoTarget}]
        /\ nMidi'.pc # "idle" => nMidi.on = TRUE
    <3>1. CASE nMidi' = N!Idle
      BY <1>7, <3>1
    <3>2. CASE nMidi' # N!Idle
      <4>1. nMidi.on = TRUE /\ nMidi' = [nMidi EXCEPT !.pc = "on"]
        BY <2>2, <2>3, <3>2
      <4> QED
        BY <4>1 DEF NotesInv, NotesTypeOK
    <3> QED
      BY <3>1, <3>2
  <2>5. CASE p = NoTarget
    <3>1. nQueue' = nQueue /\ nPanic' = nPanic
      BY <1>8, <2>1, <2>5 DEF N!EndHeld, N!OffTarget
    <3>2. NotesTypeOK'
      BY <2>2, <2>4, <3>1 DEF NotesInv, NotesTypeOK
    <3>3. MidiKnows'
      BY <2>2, <2>4, <3>1 DEF NotesInv, MidiKnows
    <3>4. NoteIsHeld'
      BY <2>1, <2>2, <2>5, <3>1 DEF NotesInv, NoteIsHeld, N!NotesAssumption
    <3> QED
      BY <3>2, <3>3, <3>4 DEF NotesInv
  <2>6. CASE p # NoTarget
    <3>1. N!Post(FALSE, p) /\ p \in Targets /\ (N!Full => nMidi' = N!Idle)
      BY <1>8, <2>1, <2>2, <2>6 DEF N!EndHeld, N!OffTarget
    <3>2. CASE N!Full
      <4>1. nMidi'.pc = "idle"
        BY <1>7, <3>1, <3>2
      <4> QED
        BY <1>6, <2>2, <2>4, <3>1, <3>2, <4>1 DEF NotesInv, NotesTypeOK, MidiKnows, NoteIsHeld
    <3>3. CASE ~N!Full
      <4>1. PICK e : e = [on |-> FALSE, to |-> p]
        OBVIOUS
      <4>2. e \in Events /\ e.on = FALSE /\ e.to = p
        BY <3>1, <4>1 DEF Events
      <4>3. nQueue' = Append(nQueue, e) /\ nQueue' \in Seq(Events) /\ nPanic' = nPanic
        BY <1>5, <3>1, <3>3, <4>2
      <4>4. NotesTypeOK'
        BY <2>2, <2>4, <4>3 DEF NotesInv, NotesTypeOK
      <4>5. MidiKnows'
        BY <2>2, <2>4, <4>3 DEF NotesInv, MidiKnows
      <4>6. ASSUME nPanic = nSeenPanic, NEW x \in Targets,
                   WillSound(nQueue', nSounding', x)
            PROVE  FALSE
        <5>1. x # p /\ WillSound(nQueue, nSounding, x)
          BY <1>1, <2>2, <4>2, <4>3, <4>6, SoundAfterPost
        <5>2. x = nHeld
          BY <2>1, <4>6, <5>1 DEF NotesInv, NoteIsHeld
        <5> QED
          BY <2>2, <5>2 DEF N!NotesAssumption
      <4> QED
        BY <2>2, <4>3, <4>4, <4>5, <4>6 DEF NotesInv, NoteIsHeld
    <3> QED
      BY <3>2, <3>3
  <2> QED
    BY <2>5, <2>6
<1>9. ASSUME N!StartNew PROVE NotesInv'
  <2>1. PICK t : t = nTarget
    OBVIOUS
  <2>2. /\ nMidi.pc = "on" /\ nLivePanic = nPanic /\ nHeld = NoTarget /\ nDown
        /\ UNCHANGED <<nTarget, nLivePanic, nSeenPanic, nSounding, nDown>>
        /\ nMidi' = N!Idle /\ t \in Targets \cup {NoTarget}
        /\ nHeld' = IF t # NoTarget /\ N!Full THEN NoTarget ELSE t
    BY <1>9, <2>1 DEF N!StartNew, NotesInv, NotesTypeOK, MidiKnows
  <2>3. /\ nMidi' \in [pc : {"idle", "off", "on"}, on : BOOLEAN, previous : Targets \cup {NoTarget}]
        /\ nMidi'.pc = "idle" /\ nHeld' \in Targets \cup {NoTarget}
    BY <1>7, <2>2
  <2>4. MidiKnows'
    BY <2>2, <2>3 DEF MidiKnows
  <2>5. ASSUME nPanic = nSeenPanic, NEW x \in Targets PROVE ~WillSound(nQueue, nSounding, x)
    BY <2>2, <2>5 DEF NotesInv, NoteIsHeld, N!NotesAssumption
  <2>6. CASE t = NoTarget
    <3>1. nQueue' = nQueue /\ nPanic' = nPanic
      BY <1>9, <2>1, <2>6 DEF N!StartNew
    <3> QED
      BY <2>2, <2>3, <2>4, <2>5, <3>1 DEF NotesInv, NotesTypeOK, NoteIsHeld
  <2>7. CASE t # NoTarget
    <3>1. N!Post(TRUE, t) /\ t \in Targets
      BY <1>9, <2>1, <2>2, <2>7 DEF N!StartNew
    <3>2. CASE N!Full
      BY <1>6, <2>2, <2>3, <2>4, <3>1, <3>2 DEF NotesInv, NotesTypeOK, NoteIsHeld
    <3>3. CASE ~N!Full
      <4>1. PICK e : e = [on |-> TRUE, to |-> t]
        OBVIOUS
      <4>2. e \in Events /\ e.on = TRUE /\ e.to = t
        BY <3>1, <4>1 DEF Events
      <4>3. nQueue' = Append(nQueue, e) /\ nQueue' \in Seq(Events) /\ nPanic' = nPanic
        BY <1>5, <3>1, <3>3, <4>2
      <4>4. NotesTypeOK'
        BY <2>2, <2>3, <4>3 DEF NotesInv, NotesTypeOK
      <4>5. ASSUME nPanic = nSeenPanic, NEW x \in Targets,
                   WillSound(nQueue', nSounding', x)
            PROVE  x = t
        BY <1>1, <2>2, <2>5, <4>2, <4>3, <4>5, SoundAfterPost
      <4>6. NoteIsHeld'
        BY <2>2, <2>7, <3>3, <4>3, <4>5 DEF NoteIsHeld
      <4> QED
        BY <2>4, <4>4, <4>6 DEF NotesInv
    <3> QED
      BY <3>2, <3>3
  <2> QED
    BY <2>6, <2>7
<1>10. ASSUME nQueue' = << >>, nSounding' = {}, nPanic' = nPanic, nSeenPanic' \in {nPanic, nSeenPanic},
              UNCHANGED <<nTarget, nLivePanic, nHeld, nMidi, nDown>>
       PROVE  NotesInv'
  BY <1>1, <1>10, NothingQueued DEF NotesInv, NotesTypeOK, MidiKnows, NoteIsHeld
<1>11. ASSUME UNCHANGED <<nTarget, nPanic, nLivePanic, nSeenPanic, nHeld, nQueue, nMidi, nSounding, nDown>>
       PROVE  NotesInv'
  BY <1>11 DEF NotesInv, NotesTypeOK, MidiKnows, NoteIsHeld
<1>12. ASSUME N!BeginBlock PROVE NotesInv'
  BY <1>10, <1>11, <1>12 DEF N!BeginBlock
<1>13. ASSUME N!Dispatch PROVE NotesInv'
  <2>1. /\ nQueue # << >> /\ nQueue' = Tail(nQueue)
        /\ nSounding' = IF Head(nQueue).on THEN nSounding \cup {Head(nQueue).to}
                        ELSE nSounding \ {Head(nQueue).to}
        /\ UNCHANGED <<nTarget, nPanic, nLivePanic, nSeenPanic, nHeld, nMidi, nDown>>
    BY <1>13 DEF N!Dispatch
  <2>2. nQueue' \in Seq(Events) /\ Head(nQueue) \in Events
    BY <1>1, <2>1
  <2>3. nSounding' \subseteq Targets
    BY <2>1, <2>2 DEF NotesInv, NotesTypeOK, Events
  <2>4. \A x : WillSound(nQueue', nSounding', x) => WillSound(nQueue, nSounding, x)
    BY <1>1, <2>1, SoundAfterDispatch
  <2> QED
    BY <2>1, <2>2, <2>3, <2>4 DEF NotesInv, NotesTypeOK, MidiKnows, NoteIsHeld
<1>14. ASSUME N!EndBlock \/ UNCHANGED N!vars PROVE NotesInv'
  BY <1>11, <1>14 DEF N!EndBlock, N!vars
<1>15. ASSUME N!Stop PROVE NotesInv'
  BY <1>10, <1>15 DEF N!Stop
<1> QED
  BY <1>2, <1>3, <1>4, <1>8, <1>9, <1>12, <1>13, <1>14, <1>15 DEF N!Next

\* No note hangs, for every number of destinations and every size of the
\* queue: once a key is up, its events are played and the last panic is seen,
\* it sounds nowhere.  Panics come between calls of live_note; the run
\* hanging_note shows that the code needs this.
THEOREM NotesNoHangingNote ==
  ASSUME N!NotesAssumption, PanicMidNote = FALSE
  PROVE  N!Spec => []NoHangingNote
<1>1. N!Init => NotesInv
  <2> SUFFICES ASSUME N!Init PROVE NotesInv
    OBVIOUS
  <2>1. NotesTypeOK
    BY NothingQueued DEF N!Init, N!Idle, NotesTypeOK
  <2>2. MidiKnows
    BY DEF N!Init, N!Idle, MidiKnows
  <2>3. NoteIsHeld
    BY NothingQueued DEF N!Init, NoteIsHeld
  <2> QED
    BY <2>1, <2>2, <2>3 DEF NotesInv
<1>2. NotesInv /\ [N!Next]_N!vars => NotesInv'
  BY NotesNextInv
<1>3. ASSUME NotesInv PROVE NoHangingNote
  <2> SUFFICES ASSUME ~nDown, nMidi.pc = "idle", nQueue = << >>, nPanic = nSeenPanic,
                      NEW x \in nSounding
               PROVE  FALSE
    BY DEF NoHangingNote, N!NoHangingNote
  <2>1. x \in Targets /\ WillSound(nQueue, nSounding, x)
    BY <1>3 DEF NotesInv, NotesTypeOK, WillSound
  <2> QED
    BY <1>3, <2>1 DEF NotesInv, NoteIsHeld, MidiKnows, N!NotesAssumption
<1> QED
  BY <1>1, <1>2, <1>3, PTL DEF N!Spec

-----------------------------------------------------------------------------
(***************************************************************************)
(* AudioPool.  A stage has a plan: the batch and then the sources left to  *)
(* the render thread, a list of all sources that keeps those that share an *)
(* insert in slot order.  What has begun is always a beginning of the plan *)
(* (Planned).  During a batch the cursor counts the jobs claimed, which    *)
(* are those finished and those threads are busy with (Claimed); at all    *)
(* other times it is used up, so that a worker which comes late finds      *)
(* nothing to claim, whatever generation it has adopted.                   *)
(***************************************************************************)
Cursors == [gen : Nat, count : Nat, next : Nat]
Batch   == {"post", "load", "claim", "job", "spin"}
Before  == {"reset", "publish"}
Resting == {"idle", "joining", "closed"}
Places  == {"asleep", "woken", "adopt", "exited", "alone"} \cup Batch \cup Before \cup Resting

PoolTypeOK ==
  /\ aCursor \in Cursors /\ aCursor.next <= aCursor.count
  /\ aFinished \in Nat /\ aGeneration \in Nat
  /\ aAt \in [A!Threads -> Places]
  /\ \A w \in Workers : aAt[w] \in {"asleep", "woken", "adopt", "load", "claim", "job", "exited"}
  /\ aAt[Render] \in {"alone"} \cup Batch \cup Before \cup Resting
  /\ aSeen \in [A!Threads -> Cursors] /\ aJob \in [A!Threads -> Nat]
  /\ aJobSlot \in Seq(Nat) /\ aAlone \in Seq(Nat) /\ aBegan \in Seq(Nat)

\* A list of all sources of the routing r, those that share in slot order.
Whole(r, q) ==
  /\ \A i, j \in 1 .. Len(q) : q[i] = q[j] => i = j
  /\ \A i \in 1 .. Len(q) : q[i] \in DOMAIN r
  /\ \A k \in DOMAIN r : \E i \in 1 .. Len(q) : q[i] = k
  /\ \A i, j \in 1 .. Len(q) : i < j /\ r[q[i]] \cap r[q[j]] # {} => q[i] < q[j]

\* A list of sources of which no two share.
Apart(r, q) ==
  \A i, j \in 1 .. Len(q) : i # j => r[q[i]] \cap r[q[j]] = {}

Plan == IF aAt[Render] \in Batch \cup Before THEN aJobSlot \o aAlone ELSE aBegan \o aAlone

Planned ==
  /\ Whole(aRoutes, Plan) /\ Len(aBegan) <= Len(Plan)
  /\ \A k \in 1 .. Len(aBegan) : aBegan[k] = Plan[k]
  /\ aAt[Render] \in Before => aBegan = << >>
  /\ aAt[Render] \in Resting => aAlone = << >>
  /\ aAt[Render] \in Batch \cup Before => Apart(aRoutes, aJobSlot)

Busy == {t \in A!Threads : aAt[t] = "job"}

Claimed ==
  IF aAt[Render] \in Batch
  THEN /\ aCursor.count = Len(aJobSlot) /\ aCursor.next = Len(aBegan)
       /\ aFinished + Cardinality(Busy) = aCursor.next
  ELSE /\ aCursor.next = aCursor.count /\ Busy = {}
       /\ aAt[Render] = "publish" => aFinished = 0

Working ==
  /\ \A t \in A!Threads : aAt[t] = "claim" => aSeen[t].next < aSeen[t].count
  /\ \A t \in A!Threads : aAt[t] = "job" => \E k \in 1 .. aCursor.next : aJob[t] = aJobSlot[k]
  /\ \A t \in A!Threads : aJob[t] # 0 => aAt[t] = "job" \/ (t = Render /\ aAt[t] = "alone")
  /\ \A t, u \in A!Threads :
       aAt[t] = "job" /\ aAt[u] = "job" /\ aJob[t] = aJob[u] => t = u

PoolInv == PoolTypeOK /\ Planned /\ Claimed /\ Working

-----------------------------------------------------------------------------
LEMMA SameCardinality == \A x : A!Cardinality(x) = Cardinality(x)
  BY DEF A!Cardinality, Cardinality, A!IsFiniteSet, IsFiniteSet

LEMMA InSlotOrderIsAll ==
  ASSUME NEW n \in Nat, NEW S \in SUBSET (1 .. n), NEW p \in A!InSlotOrder(S)
  PROVE  /\ p \in Seq(Nat)
         /\ \A i \in 1 .. Len(p) : p[i] \in S
         /\ \A k \in S : \E i \in 1 .. Len(p) : p[i] = k
         /\ \A i, j \in 1 .. Len(p) : (i < j => p[i] < p[j]) /\ (p[i] = p[j] => i = j)
<1>1. IsFiniteSet(S) /\ S \subseteq Nat
  <2>1. IsFiniteSet(1 .. n)
    BY FS_Interval
  <2>2. S \subseteq Nat
    OBVIOUS
  <2> QED
    BY <2>1, <2>2, FS_Subset
<1>2. PICK c : c = Cardinality(S)
  OBVIOUS
<1>3. c \in Nat
  BY <1>1, <1>2, FS_CardinalityType
<1>4. /\ p \in [1 .. c -> S] /\ DOMAIN p = 1 .. c
      /\ \A i, j \in 1 .. c : i < j => p[i] < p[j]
  BY <1>2, SameCardinality DEF A!InSlotOrder
<1>5. p \in Seq(Nat) /\ Len(p) = c
  <2>1. p \in [1 .. c -> Nat]
    BY <1>1, <1>4
  <2> QED
    BY <1>3, <2>1
<1>6. \A i \in 1 .. c : p[i] \in Nat
  BY <1>1, <1>4
<1>7. \A i, j \in 1 .. c : p[i] = p[j] => i = j
  BY <1>3, <1>4, <1>6
<1>8. p \in Injection(1 .. c, S)
  BY <1>4, <1>7 DEF Injection, IsInjective
<1>9. Cardinality(1 .. c) = Cardinality(S)
  BY <1>2, <1>3, FS_Interval
<1>10. p \in Surjection(1 .. c, S)
  BY <1>1, <1>8, <1>9, FS_Injection
<1>11. \A k \in S : \E i \in 1 .. c : p[i] = k
  BY <1>10 DEF Surjection
<1> QED
  BY <1>4, <1>5, <1>7, <1>11

\* The batch and the deferred sources make up a stage.
LEMMA StageIsPlanned ==
  ASSUME A!AudioPoolAssumption, NEW r \in Routings,
         NEW p \in A!InSlotOrder(A!Parallel(r)), NEW d \in A!InSlotOrder(A!Deferred(r))
  PROVE  p \in Seq(Nat) /\ d \in Seq(Nat) /\ Whole(r, p \o d) /\ Apart(r, p)
<1>1. PICK n \in Nat : n = Len(r) /\ DOMAIN r = 1 .. n
  BY DEF A!AudioPoolAssumption
<1>2. /\ A!Parallel(r) \in SUBSET (1 .. n) /\ A!Deferred(r) \in SUBSET (1 .. n)
      /\ \A k \in 1 .. n : k \in A!Parallel(r) \/ k \in A!Deferred(r)
      /\ \A k \in A!Parallel(r) : k \notin A!Deferred(r)
  BY <1>1 DEF A!Parallel, A!Deferred
<1>3. \A k \in A!Parallel(r), j \in 1 .. n : j < k => r[j] \cap r[k] = {}
  BY <1>1 DEF A!Parallel, A!Shared
<1>4. /\ p \in Seq(Nat) /\ Len(p) \in Nat
      /\ \A i \in 1 .. Len(p) : p[i] \in A!Parallel(r)
      /\ \A k \in A!Parallel(r) : \E i \in 1 .. Len(p) : p[i] = k
      /\ \A i, j \in 1 .. Len(p) : (i < j => p[i] < p[j]) /\ (p[i] = p[j] => i = j)
  <2>1. PICK S : S = A!Parallel(r)
    OBVIOUS
  <2>2. S \in SUBSET (1 .. n) /\ p \in A!InSlotOrder(S)
    BY <1>2, <2>1
  <2>3. /\ p \in Seq(Nat)
        /\ \A i \in 1 .. Len(p) : p[i] \in S
        /\ \A k \in S : \E i \in 1 .. Len(p) : p[i] = k
        /\ \A i, j \in 1 .. Len(p) : (i < j => p[i] < p[j]) /\ (p[i] = p[j] => i = j)
    BY <2>2, InSlotOrderIsAll, Zenon
  <2>4. Len(p) \in Nat
    BY <2>3
  <2> QED
    BY <2>1, <2>3, <2>4, Zenon
<1>5. /\ d \in Seq(Nat) /\ Len(d) \in Nat
      /\ \A i \in 1 .. Len(d) : d[i] \in A!Deferred(r)
      /\ \A k \in A!Deferred(r) : \E i \in 1 .. Len(d) : d[i] = k
      /\ \A i, j \in 1 .. Len(d) : (i < j => d[i] < d[j]) /\ (d[i] = d[j] => i = j)
  <2>1. PICK S : S = A!Deferred(r)
    OBVIOUS
  <2>2. S \in SUBSET (1 .. n) /\ d \in A!InSlotOrder(S)
    BY <1>2, <2>1
  <2>3. /\ d \in Seq(Nat)
        /\ \A i \in 1 .. Len(d) : d[i] \in S
        /\ \A k \in S : \E i \in 1 .. Len(d) : d[i] = k
        /\ \A i, j \in 1 .. Len(d) : (i < j => d[i] < d[j]) /\ (d[i] = d[j] => i = j)
    BY <2>2, InSlotOrderIsAll, Zenon
  <2>4. Len(d) \in Nat
    BY <2>3
  <2> QED
    BY <2>1, <2>3, <2>4, Zenon
<1>6. Apart(r, p)
  <2> SUFFICES ASSUME NEW i \in 1 .. Len(p), NEW j \in 1 .. Len(p), i # j
               PROVE  r[p[i]] \cap r[p[j]] = {}
    BY DEF Apart
  <2>1. p[i] \in 1 .. n /\ p[j] \in 1 .. n /\ (p[i] < p[j] \/ p[j] < p[i])
    BY <1>2, <1>4
  <2> QED
    BY <1>3, <1>4, <2>1
<1>7. PICK q : q = p \o d
  OBVIOUS
<1>8. /\ q \in Seq(Nat) /\ Len(q) = Len(p) + Len(d)
      /\ \A i \in 1 .. Len(q) : i <= Len(p) => q[i] = p[i] /\ i \in 1 .. Len(p)
      /\ \A i \in 1 .. Len(q) : i > Len(p) =>
           \E m \in 1 .. Len(d) : m = i - Len(p) /\ q[i] = d[m]
      /\ \A i \in 1 .. Len(p) : i \in 1 .. Len(q) /\ q[i] = p[i]
      /\ \A i \in 1 .. Len(d) : i + Len(p) \in 1 .. Len(q) /\ q[i + Len(p)] = d[i]
  <2>1. q \in Seq(Nat) /\ Len(q) = Len(p) + Len(d)
    BY <1>4, <1>5, <1>7
  <2>2. \A i \in 1 .. Len(q) : i <= Len(p) => q[i] = p[i] /\ i \in 1 .. Len(p)
    BY <1>4, <1>5, <1>7
  <2>3. \A i \in 1 .. Len(q) : i > Len(p) => q[i] = d[i - Len(p)] /\ i - Len(p) \in 1 .. Len(d)
    BY <1>4, <1>5, <1>7
  <2>4. \A i \in 1 .. Len(p) : i \in 1 .. Len(q) /\ q[i] = p[i]
    BY <1>4, <1>5, <1>7
  <2>5. ASSUME NEW i \in 1 .. Len(d) PROVE i + Len(p) \in 1 .. Len(q) /\ q[i + Len(p)] = d[i]
    <3>1. i + Len(p) \in 1 .. Len(q) /\ i + Len(p) > Len(p) /\ (i + Len(p)) - Len(p) = i
      BY <1>4, <1>5, <2>1
    <3> QED
      BY <2>3, <3>1
  <2>6. \A i \in 1 .. Len(q) : i > Len(p) => \E m \in 1 .. Len(d) : m = i - Len(p) /\ q[i] = d[m]
    BY <2>3, Zenon
  <2> QED
    BY <2>1, <2>2, <2>4, <2>5, <2>6, Zenon
<1>14. ASSUME NEW i \in 1 .. Len(q)
       PROVE  /\ i <= Len(p) => q[i] \in A!Parallel(r)
              /\ i > Len(p) => q[i] \in A!Deferred(r)
              /\ i \in Int /\ (i <= Len(p) \/ i > Len(p))
  <2>1. i \in Int /\ (i <= Len(p) \/ i > Len(p))
    BY <1>4
  <2>2. i <= Len(p) => q[i] \in A!Parallel(r)
    BY <1>4, <1>8, Zenon
  <2>3. i > Len(p) => q[i] \in A!Deferred(r)
    BY <1>5, <1>8, Zenon
  <2> QED
    BY <2>1, <2>2, <2>3
<1>9. \A i \in 1 .. Len(q) : q[i] \in 1 .. n
  BY <1>2, <1>14
<1>10. ASSUME NEW k \in 1 .. n PROVE \E i \in 1 .. Len(q) : q[i] = k
  <2>1. CASE k \in A!Parallel(r)
    BY <1>4, <1>8, <2>1
  <2>2. CASE k \in A!Deferred(r)
    <3>1. PICK m \in 1 .. Len(d) : d[m] = k
      BY <1>5, <2>2, Zenon
    <3>2. m + Len(p) \in 1 .. Len(q) /\ q[m + Len(p)] = d[m]
      BY <1>8, Zenon
    <3> QED
      BY <3>1, <3>2
  <2> QED
    BY <1>2, <2>1, <2>2
<1>11. ASSUME NEW i \in 1 .. Len(q), NEW j \in 1 .. Len(q), q[i] = q[j] PROVE i = j
  <2>1. CASE i <= Len(p) /\ j <= Len(p)
    BY <1>4, <1>8, <1>11, <2>1
  <2>2. CASE i > Len(p) /\ j > Len(p)
    <3>1. PICK m \in 1 .. Len(d) : m = i - Len(p) /\ q[i] = d[m]
      BY <1>8, <2>2, Zenon
    <3>2. PICK l \in 1 .. Len(d) : l = j - Len(p) /\ q[j] = d[l]
      BY <1>8, <2>2, Zenon
    <3>3. m = l
      <4>1. d[m] = d[l]
        BY <1>11, <3>1, <3>2
      <4>2. \A x, y \in 1 .. Len(d) : d[x] = d[y] => x = y
        BY <1>5, Zenon
      <4> QED
        BY <4>1, <4>2
    <3> QED
      BY <1>4, <3>1, <3>2, <3>3
  <2>3. CASE (i <= Len(p) /\ j > Len(p)) \/ (j <= Len(p) /\ i > Len(p))
    BY <1>2, <1>11, <1>14, <2>3
  <2> QED
    BY <1>4, <2>1, <2>2, <2>3
<1>12. ASSUME NEW i \in 1 .. Len(q), NEW j \in 1 .. Len(q), i < j, r[q[i]] \cap r[q[j]] # {}
       PROVE  q[i] < q[j]
  <2>1. CASE j <= Len(p)
    <3>1. i <= Len(p) /\ i \in 1 .. Len(p) /\ j \in 1 .. Len(p)
      BY <1>4, <1>12, <2>1
    <3>2. q[i] = p[i] /\ q[j] = p[j]
      BY <1>8, <3>1, Zenon
    <3> QED
      BY <1>4, <1>12, <3>1, <3>2, Zenon
  <2>2. CASE i > Len(p)
    <3>1. j > Len(p)
      BY <1>4, <1>12, <2>2
    <3>2. PICK m \in 1 .. Len(d) : m = i - Len(p) /\ q[i] = d[m]
      BY <1>8, <2>2, Zenon
    <3>3. PICK l \in 1 .. Len(d) : l = j - Len(p) /\ q[j] = d[l]
      BY <1>8, <3>1, Zenon
    <3>4. m < l
      BY <1>4, <1>12, <3>2, <3>3
    <3> QED
      BY <1>5, <3>2, <3>3, <3>4
  <2>3. CASE i <= Len(p) /\ j > Len(p)
    <3>1. q[i] \in A!Parallel(r) /\ q[j] \in A!Deferred(r) /\ q[i] # q[j]
      BY <1>2, <1>14, <2>3
    <3>2. ~(q[j] < q[i])
      BY <1>3, <1>9, <1>12, <3>1
    <3> QED
      BY <1>9, <3>1, <3>2
  <2> QED
    BY <1>4, <2>1, <2>2, <2>3
<1>13. Whole(r, q)
  BY <1>1, <1>9, <1>10, <1>11, <1>12 DEF Whole
<1> QED
  BY <1>4, <1>5, <1>6, <1>7, <1>13

-----------------------------------------------------------------------------
LEMMA ThreadsFinite ==
  ASSUME A!AudioPoolAssumption
  PROVE  /\ Render \notin Workers /\ Render \in A!Threads /\ Workers \subseteq A!Threads
         /\ \A t \in A!Threads : t # Render => t \in Workers
         /\ \A S \in SUBSET A!Threads : IsFiniteSet(S) /\ Cardinality(S) \in Nat
<1>1. IsFiniteSet(Workers) /\ Render \notin Workers
  BY DEF A!AudioPoolAssumption, A!IsFiniteSet, IsFiniteSet
<1>2. IsFiniteSet(A!Threads)
  BY <1>1, FS_AddElement DEF A!Threads
<1>3. \A S \in SUBSET A!Threads : IsFiniteSet(S) /\ Cardinality(S) \in Nat
  BY <1>2, FS_Subset, FS_CardinalityType
<1> QED
  BY <1>1, <1>3 DEF A!Threads

LEMMA Moves ==
  ASSUME PoolTypeOK, NEW t \in A!Threads, NEW place \in Places, A!Go(t, place)
  PROVE  /\ aAt' \in [A!Threads -> Places] /\ aAt'[t] = place
         /\ \A u \in A!Threads : u # t => aAt'[u] = aAt[u]
  BY DEF PoolTypeOK, A!Go

\* The steps that neither plan, claim nor work.
LEMMA QuietStep ==
  ASSUME A!AudioPoolAssumption, PoolInv, NEW t \in A!Threads, NEW place \in Places, A!Go(t, place),
         t # Render => place \in {"asleep", "woken", "adopt", "load", "claim", "exited"},
         t = Render =>
           /\ place \in {"alone"} \cup Batch \cup Before \cup Resting
           /\ aAt[t] \in Batch <=> place \in Batch
           /\ aAt[t] \in Before <=> place \in Before
           /\ place \in Resting => aAlone = << >>
           /\ place = "publish" => aFinished' = 0
           /\ aAt[t] = "alone" => aJob[t] = 0,
         aAt[t] # "job", place # "job",
         aFinished' = aFinished \/ (t = Render /\ place = "publish"),
         aSeen' \in [A!Threads -> Cursors],
         \A u \in A!Threads : u # t => aSeen'[u] = aSeen[u],
         place = "claim" => aSeen'[t].next < aSeen'[t].count,
         UNCHANGED <<aCursor, aGeneration, aJobSlot, aRoutes, aAlone, aBegan, aJob>>
  PROVE  PoolInv'
<1>1. /\ aAt' \in [A!Threads -> Places] /\ aAt'[t] = place
      /\ \A u \in A!Threads : u # t => aAt'[u] = aAt[u]
  BY Moves DEF PoolInv
<1>2. Render \in A!Threads /\ Workers \subseteq A!Threads /\ Render \notin Workers
  BY ThreadsFinite
<1>3. /\ aAt'[Render] \in Batch <=> aAt[Render] \in Batch
      /\ aAt'[Render] \in Before <=> aAt[Render] \in Before
      /\ aAt'[Render] \in Resting => aAlone = << >>
      /\ aAt'[Render] \in {"alone"} \cup Batch \cup Before \cup Resting
  BY <1>1, <1>2 DEF PoolInv, PoolTypeOK, Planned
<1>4. Busy' = Busy
  BY <1>1 DEF Busy
<1>5. Plan' = Plan
  BY <1>3 DEF Plan
<1>6. ASSUME NEW w \in Workers
      PROVE  aAt'[w] \in {"asleep", "woken", "adopt", "load", "claim", "job", "exited"}
  BY <1>1, <1>2 DEF PoolInv, PoolTypeOK
<1>7. PoolTypeOK'
  <2>1. aFinished' \in Nat
    BY DEF PoolInv, PoolTypeOK
  <2> QED
    BY <1>1, <1>3, <1>6, <2>1 DEF PoolInv, PoolTypeOK
<1>8. Planned'
  BY <1>3, <1>5 DEF PoolInv, Planned
<1>9. Claimed'
  <2>1. CASE aAt[Render] \in Batch
    <3>1. ~(t = Render /\ place = "publish")
      BY <2>1 DEF Batch, Before
    <3> QED
      BY <1>3, <1>4, <2>1, <3>1 DEF PoolInv, Claimed
  <2>2. CASE aAt[Render] \notin Batch
    <3>1. aAt'[Render] = "publish" => aFinished' = 0
      BY <1>1, <1>2, <2>2 DEF PoolInv, Claimed
    <3> QED
      BY <1>3, <1>4, <2>2, <3>1 DEF PoolInv, Claimed
  <2> QED
    BY <2>1, <2>2
<1>10. Working'
  <2>1. \A u \in A!Threads : aAt'[u] = "job" <=> aAt[u] = "job"
    BY <1>1
  <2>2. ASSUME NEW u \in A!Threads, aAt'[u] = "claim" PROVE aSeen'[u].next < aSeen'[u].count
    BY <1>1, <2>2 DEF PoolInv, Working
  <2>3. ASSUME NEW u \in A!Threads, aJob[u] # 0
        PROVE  aAt'[u] = "job" \/ (u = Render /\ aAt'[u] = "alone")
    BY <1>1, <2>1, <2>3 DEF PoolInv, Working
  <2> QED
    BY <2>1, <2>2, <2>3 DEF PoolInv, Working
<1> QED
  BY <1>7, <1>8, <1>9, <1>10 DEF PoolInv

LEMMA QuietActions ==
  ASSUME A!AudioPoolAssumption, PoolInv
  PROVE  /\ A!ResetFinished \/ A!PostHelper \/ A!StageReturn \/ A!Shutdown \/ A!Joined => PoolInv'
         /\ \A t \in A!Threads : A!DrainLoad(t) \/ A!DrainRetry(t) => PoolInv'
         /\ \A w \in Workers : A!WorkerStep(w) => PoolInv'
<1>1. Render \in A!Threads /\ Workers \subseteq A!Threads /\ Render \notin Workers
  BY ThreadsFinite
<1>2. aSeen \in [A!Threads -> Cursors] /\ aCursor \in Cursors /\ A!NoCursor \in Cursors
  BY DEF PoolInv, PoolTypeOK, Cursors, A!NoCursor
<1> DEFINE Rest == UNCHANGED <<aCursor, aGeneration, aJobSlot, aRoutes, aAlone, aBegan, aJob>>
<1>3. ASSUME A!ResetFinished PROVE PoolInv'
  <2>1. /\ aAt[Render] = "reset" /\ A!Go(Render, "publish") /\ aFinished' = 0 /\ Rest
        /\ aSeen' = aSeen
    BY <1>3 DEF A!ResetFinished, A!batch
  <2> QED
    BY <1>1, <1>2, <2>1, QuietStep DEF Batch, Before, Resting, Places
<1>4. ASSUME A!PostHelper PROVE PoolInv'
  <2>1. PICK place \in {"load", "post"} : A!Go(Render, place)
    BY <1>4 DEF A!PostHelper
  <2>2. aAt[Render] = "post" /\ aFinished' = aFinished /\ Rest /\ aSeen' = aSeen
    BY <1>4 DEF A!PostHelper
  <2> QED
    BY <1>1, <1>2, <2>1, <2>2, QuietStep DEF Batch, Before, Resting, Places
<1>5. ASSUME A!StageReturn PROVE PoolInv'
  <2>1. /\ aAt[Render] = "alone" /\ aJob[Render] = 0 /\ aAlone = << >> /\ A!Go(Render, "idle")
        /\ aFinished' = aFinished /\ Rest /\ aSeen' = aSeen
    BY <1>5 DEF A!StageReturn, A!shared, A!batch
  <2> QED
    BY <1>1, <1>2, <2>1, QuietStep DEF Batch, Before, Resting, Places
<1>6. ASSUME A!Shutdown \/ A!Joined PROVE PoolInv'
  <2>1. PICK place \in {"joining", "closed"} : A!Go(Render, place)
    BY <1>6 DEF A!Shutdown, A!Joined
  <2>2. /\ aAt[Render] \in {"idle", "joining"}
        /\ aFinished' = aFinished /\ Rest /\ aSeen' = aSeen
    BY <1>6 DEF A!Shutdown, A!Joined, A!shared, A!batch
  <2>3. aAlone = << >>
    BY <2>2 DEF PoolInv, Planned, Resting
  <2> QED
    BY <1>1, <1>2, <2>1, <2>2, <2>3, QuietStep DEF Batch, Before, Resting, Places
<1>7. ASSUME NEW t \in A!Threads, A!DrainLoad(t) PROVE PoolInv'
  <2>1. aAt[t] = "load" /\ aFinished' = aFinished /\ Rest
    BY <1>7 DEF A!DrainLoad, A!shared, A!batch
  <2>2. CASE aCursor.gen # aMine[t] \/ aCursor.next >= aCursor.count
    <3>1. A!Go(t, A!Drained(t)) /\ aSeen' = aSeen
      BY <1>7, <2>2 DEF A!DrainLoad
    <3>2. CASE t = Render
      <4>1. A!Go(t, "spin")
        BY <3>1, <3>2 DEF A!Drained
      <4> QED
        BY <1>2, <2>1, <3>1, <3>2, <4>1, QuietStep DEF Batch, Before, Resting, Places
    <3>3. CASE t # Render
      <4>1. A!Go(t, "asleep")
        BY <3>1, <3>3 DEF A!Drained
      <4> QED
        BY <1>2, <2>1, <3>1, <3>3, <4>1, QuietStep DEF Places, Batch
    <3> QED
      BY <3>2, <3>3
  <2>3. CASE ~(aCursor.gen # aMine[t] \/ aCursor.next >= aCursor.count)
    <3>1. A!Go(t, "claim") /\ aSeen' = [aSeen EXCEPT ![t] = aCursor]
      BY <1>7, <2>3 DEF A!DrainLoad
    <3>2. /\ aSeen' \in [A!Threads -> Cursors] /\ aSeen'[t] = aCursor
          /\ \A u \in A!Threads : u # t => aSeen'[u] = aSeen[u]
      BY <1>2, <3>1
    <3>3. aSeen'[t].next < aSeen'[t].count
      BY <1>2, <2>3, <3>2 DEF Cursors
    <3> QED
      BY <2>1, <3>1, <3>2, <3>3, QuietStep DEF Batch, Before, Resting, Places
  <2> QED
    BY <2>2, <2>3
<1>8. ASSUME NEW t \in A!Threads, A!DrainRetry(t) PROVE PoolInv'
  <2>1. /\ aAt[t] = "claim" /\ A!Go(t, "load") /\ aFinished' = aFinished /\ Rest
        /\ aSeen' = [aSeen EXCEPT ![t] = A!NoCursor]
    BY <1>8 DEF A!DrainRetry, A!shared, A!batch
  <2>2. /\ aSeen' \in [A!Threads -> Cursors]
        /\ \A u \in A!Threads : u # t => aSeen'[u] = aSeen[u]
    BY <1>2, <2>1
  <2> QED
    BY <2>1, <2>2, QuietStep DEF Batch, Before, Resting, Places
<1>9. ASSUME NEW w \in Workers, A!WorkerStep(w) PROVE PoolInv'
  <2>1. PICK place \in {"woken", "exited", "adopt", "load"} : A!Go(w, place)
    BY <1>9 DEF A!WorkerStep, A!WorkerWake, A!WorkerTestStop, A!WorkerAdopt
  <2>2. /\ aAt[w] \in {"asleep", "woken", "adopt"} /\ aFinished' = aFinished /\ Rest
        /\ aSeen' = aSeen
    BY <1>9 DEF A!WorkerStep, A!WorkerWake, A!WorkerTestStop, A!WorkerAdopt, A!shared, A!batch
  <2> QED
    BY <1>1, <1>2, <2>1, <2>2, QuietStep DEF Places, Batch
<1> QED
  BY <1>3, <1>4, <1>5, <1>6, <1>7, <1>8, <1>9

LEMMA PublishInv ==
  ASSUME A!AudioPoolAssumption, PoolInv, A!Publish
  PROVE  PoolInv'
<1>1. Render \in A!Threads /\ Render \notin Workers /\ Workers \subseteq A!Threads
  BY ThreadsFinite
<1>2. /\ aAt[Render] = "publish" /\ A!Go(Render, "post")
      /\ aCursor' = [gen |-> aGeneration, count |-> Len(aJobSlot), next |-> 0]
      /\ UNCHANGED <<aFinished, aGeneration, aJobSlot, aRoutes, aAlone, aSeen, aJob, aBegan>>
  BY DEF A!Publish, A!batch
<1>3. /\ aAt' \in [A!Threads -> Places] /\ aAt'[Render] = "post"
      /\ \A u \in A!Threads : u # Render => aAt'[u] = aAt[u]
  BY <1>1, <1>2, Moves DEF PoolInv, Places, Batch
<1>4. Len(aJobSlot) \in Nat
  BY DEF PoolInv, PoolTypeOK
<1>5. /\ aCursor' \in Cursors /\ aCursor'.next = 0 /\ aCursor'.count = Len(aJobSlot)
      /\ aCursor'.next <= aCursor'.count
  BY <1>2, <1>4 DEF PoolInv, PoolTypeOK, Cursors
<1>6. Busy' = {} /\ aFinished = 0 /\ aBegan = << >>
  BY <1>2, <1>3 DEF PoolInv, Claimed, Planned, Busy, Batch, Before
<1>7. Plan' = Plan
  BY <1>2, <1>3 DEF Plan, Batch, Before
<1>8. PoolTypeOK'
  BY <1>1, <1>2, <1>3, <1>5 DEF PoolInv, PoolTypeOK, Batch
<1>9. Planned'
  BY <1>2, <1>3, <1>7 DEF PoolInv, Planned, Batch, Before, Resting
<1>10. Claimed'
  <2>1. Cardinality(Busy') = 0 /\ Len(aBegan') = 0
    BY <1>2, <1>6, FS_EmptySet
  <2> QED
    BY <1>2, <1>3, <1>5, <1>6, <2>1 DEF Claimed, Batch
<1>11. Working'
  <2>1. \A u \in A!Threads : aAt'[u] # "job" /\ (aAt'[u] = "claim" => aAt[u] = "claim")
    BY <1>3, <1>6 DEF Busy
  <2>2. \A u \in A!Threads : aAt[u] # "job"
    BY <1>2, <1>3, <2>1
  <2>3. \A u \in A!Threads : aJob[u] = 0
    BY <1>2, <2>2 DEF PoolInv, Working
  <2> QED
    BY <1>2, <2>1, <2>3 DEF PoolInv, Working
<1> QED
  BY <1>8, <1>9, <1>10, <1>11 DEF PoolInv

LEMMA AfterBatch ==
  ASSUME A!AudioPoolAssumption, PoolInv, A!SpinUntilFinished
  PROVE  PoolInv'
<1>1. /\ Render \in A!Threads /\ Render \notin Workers /\ Workers \subseteq A!Threads
      /\ Busy \in SUBSET A!Threads /\ IsFiniteSet(Busy) /\ Cardinality(Busy) \in Nat
  BY ThreadsFinite DEF Busy
<1>2. /\ aAt[Render] = "spin" /\ aFinished >= Len(aJobSlot) /\ A!Go(Render, "alone")
      /\ UNCHANGED <<aCursor, aFinished, aGeneration, aJobSlot, aRoutes, aAlone, aSeen, aJob, aBegan>>
  BY DEF A!SpinUntilFinished, A!shared, A!batch
<1>3. /\ aAt' \in [A!Threads -> Places] /\ aAt'[Render] = "alone"
      /\ \A u \in A!Threads : u # Render => aAt'[u] = aAt[u]
  BY <1>1, <1>2, Moves DEF PoolInv, Places
<1>4. /\ aFinished \in Nat /\ aCursor.next \in Nat /\ aCursor.count \in Nat
      /\ aCursor.next <= aCursor.count
      /\ aJobSlot \in Seq(Nat) /\ aAlone \in Seq(Nat) /\ aBegan \in Seq(Nat)
  BY DEF PoolInv, PoolTypeOK, Cursors
<1>5. /\ aCursor.count = Len(aJobSlot) /\ aCursor.next = Len(aBegan)
      /\ aFinished + Cardinality(Busy) = aCursor.next
  BY <1>2 DEF PoolInv, Claimed, Batch
<1>6. Cardinality(Busy) = 0 /\ aCursor.next = aCursor.count
  BY <1>1, <1>2, <1>4, <1>5
<1>7. Busy = {} /\ Busy' = {}
  <2>1. Busy = {}
    BY <1>1, <1>6, FS_EmptySet
  <2> QED
    BY <1>3, <2>1 DEF Busy
<1>8. aBegan = aJobSlot
  <2>1. Plan = aJobSlot \o aAlone /\ \A k \in 1 .. Len(aBegan) : aBegan[k] = Plan[k]
    BY <1>2 DEF PoolInv, Planned, Plan, Batch
  <2>2. \A k \in 1 .. Len(aJobSlot) : (aJobSlot \o aAlone)[k] = aJobSlot[k]
    BY <1>4
  <2>3. Len(aBegan) = Len(aJobSlot)
    BY <1>5, <1>6
  <2>4. \A k \in 1 .. Len(aBegan) : aBegan[k] = aJobSlot[k]
    BY <2>1, <2>2, <2>3, Zenon
  <2>5. aBegan \in [1 .. Len(aBegan) -> Nat] /\ aJobSlot \in [1 .. Len(aBegan) -> Nat]
    BY <1>4, <2>3
  <2> QED
    BY <2>4, <2>5
<1>9. Plan' = Plan
  BY <1>2, <1>3, <1>8 DEF Plan, Batch, Before
<1>10. PoolTypeOK'
  BY <1>1, <1>2, <1>3 DEF PoolInv, PoolTypeOK
<1>11. Planned'
  BY <1>2, <1>3, <1>9 DEF PoolInv, Planned, Batch, Before, Resting
<1>12. Claimed'
  BY <1>2, <1>3, <1>6, <1>7 DEF Claimed, Batch
<1>13. Working'
  <2>1. \A u \in A!Threads : aAt[u] # "job" /\ aAt'[u] # "job" /\ (aAt'[u] = "claim" => aAt[u] = "claim")
    BY <1>3, <1>7 DEF Busy
  <2>2. \A u \in A!Threads : aJob[u] = 0
    BY <1>2, <2>1 DEF PoolInv, Working
  <2> QED
    BY <1>2, <2>1, <2>2 DEF PoolInv, Working
<1> QED
  BY <1>10, <1>11, <1>12, <1>13 DEF PoolInv

LEMMA MoveHead ==
  ASSUME NEW a \in Seq(Nat), NEW b \in Seq(Nat), a # << >>
  PROVE  /\ Tail(a) \in Seq(Nat) /\ Append(b, Head(a)) \in Seq(Nat)
         /\ Append(b, Head(a)) \o Tail(a) = b \o a
<1>1. /\ Tail(a) \in Seq(Nat) /\ Len(a) \in Nat /\ Len(a) > 0 /\ Len(Tail(a)) = Len(a) - 1
      /\ Head(a) = a[1] /\ Head(a) \in Nat
      /\ \A k \in 1 .. Len(Tail(a)) : Tail(a)[k] = a[k + 1]
  OBVIOUS
<1>2. /\ Append(b, Head(a)) \in Seq(Nat) /\ Len(b) \in Nat
      /\ Len(Append(b, Head(a))) = Len(b) + 1 /\ Append(b, Head(a))[Len(b) + 1] = a[1]
      /\ \A k \in 1 .. Len(b) : Append(b, Head(a))[k] = b[k]
  BY <1>1
<1>3. PICK h, z : h = Append(b, Head(a)) /\ z = Tail(a)
  OBVIOUS
<1>4. Len(h \o z) = Len(b \o a) /\ h \o z \in Seq(Nat) /\ b \o a \in Seq(Nat)
  BY <1>1, <1>2, <1>3
<1>5. ASSUME NEW k \in 1 .. Len(b \o a) PROVE (h \o z)[k] = (b \o a)[k]
  <2>1. CASE k <= Len(b)
    BY <1>1, <1>2, <1>3, <2>1
  <2>2. CASE k = Len(b) + 1
    BY <1>1, <1>2, <1>3, <2>2
  <2>3. CASE k > Len(b) + 1
    <3>1. (h \o z)[k] = z[k - (Len(b) + 1)] /\ (b \o a)[k] = a[k - Len(b)]
      BY <1>1, <1>2, <1>3, <2>3
    <3>2. /\ k - (Len(b) + 1) \in 1 .. Len(Tail(a))
          /\ (k - (Len(b) + 1)) + 1 = k - Len(b)
      BY <1>1, <1>2, <2>3
    <3> QED
      BY <1>1, <1>3, <3>1, <3>2
  <2>4. k <= Len(b) \/ k = Len(b) + 1 \/ k > Len(b) + 1
    BY <1>2
  <2> QED
    BY <2>1, <2>2, <2>3, <2>4, Zenon
<1>6. h \o z = b \o a
  <2>1. PICK x, y : x = h \o z /\ y = b \o a
    OBVIOUS
  <2>2. x \in Seq(Nat) /\ y \in Seq(Nat) /\ Len(x) = Len(y) /\ \A k \in 1 .. Len(y) : x[k] = y[k]
    BY <1>4, <1>5, <2>1
  <2>3. x \in [1 .. Len(y) -> Nat] /\ y \in [1 .. Len(y) -> Nat]
    BY <2>2
  <2>4. \A D : \A f, g \in [D -> Nat] : (\A k \in D : f[k] = g[k]) => f = g
    OBVIOUS
  <2>5. x = y
    <3>1. PICK D : D = 1 .. Len(y)
      OBVIOUS
    <3>2. x \in [D -> Nat] /\ y \in [D -> Nat]
      BY <2>3, <3>1
    <3>3. \A k \in D : x[k] = y[k]
      BY <2>2, <3>1
    <3> QED
      BY <2>4, <3>2, <3>3
  <2> QED
    BY <2>1, <2>5
<1> QED
  BY <1>1, <1>2, <1>3, <1>6

LEMMA AloneInv ==
  ASSUME A!AudioPoolAssumption, PoolInv, A!AloneBegin \/ A!AloneEnd
  PROVE  PoolInv'
<1>1. Render \in A!Threads /\ Render \notin Workers /\ Workers \subseteq A!Threads
  BY ThreadsFinite
<1>2. /\ aAt[Render] = "alone"
      /\ UNCHANGED <<aCursor, aFinished, aGeneration, aJobSlot, aRoutes, aSeen, aAt>>
  BY DEF A!AloneBegin, A!AloneEnd, A!shared, A!batch
<1>3. aAlone \in Seq(Nat) /\ aBegan \in Seq(Nat) /\ aJob \in [A!Threads -> Nat]
  BY DEF PoolInv, PoolTypeOK
<1>4. Plan = aBegan \o aAlone
  BY <1>2 DEF Plan, Batch, Before
<1>5. PICK n \in Nat : aJob' = [aJob EXCEPT ![Render] = n]
  BY <1>3 DEF A!AloneBegin, A!AloneEnd
<1>6. aJob' \in [A!Threads -> Nat] /\ \A u \in A!Threads : u # Render => aJob'[u] = aJob[u]
  BY <1>1, <1>3, <1>5
<1>7. /\ aAlone' \in Seq(Nat) /\ aBegan' \in Seq(Nat) /\ aBegan' \o aAlone' = aBegan \o aAlone
      /\ Len(aBegan') <= Len(aBegan' \o aAlone')
      /\ \A k \in 1 .. Len(aBegan') : aBegan'[k] = (aBegan' \o aAlone')[k]
  <2>1. aAlone' \in Seq(Nat) /\ aBegan' \in Seq(Nat) /\ aBegan' \o aAlone' = aBegan \o aAlone
    <3>1. CASE A!AloneBegin
      <4>1. aAlone # << >> /\ aAlone' = Tail(aAlone) /\ aBegan' = Append(aBegan, Head(aAlone))
        BY <3>1 DEF A!AloneBegin
      <4> QED
        BY <1>3, <4>1, MoveHead, Zenon
    <3>2. CASE A!AloneEnd
      BY <1>3, <3>2 DEF A!AloneEnd, A!batch
    <3> QED
      BY <3>1, <3>2
  <2> QED
    BY <2>1
<1>8. Plan' = Plan /\ Plan' = aBegan' \o aAlone'
  BY <1>2, <1>4, <1>7 DEF Plan, Batch, Before
<1>9. PoolTypeOK'
  BY <1>2, <1>6, <1>7 DEF PoolInv, PoolTypeOK
<1>10. Planned'
  BY <1>2, <1>7, <1>8 DEF PoolInv, Planned, Batch, Before, Resting
<1>11. Claimed' /\ Busy = {}
  BY <1>2 DEF PoolInv, Claimed, Busy, Batch
<1>12. Working'
  <2>1. \A u \in A!Threads : aAt[u] # "job" /\ aAt'[u] = aAt[u]
    BY <1>2, <1>11 DEF Busy
  <2>2. \A u \in A!Threads : aJob'[u] # 0 => u = Render
    BY <1>6, <2>1 DEF PoolInv, Working
  <2> QED
    BY <1>2, <2>1, <2>2 DEF PoolInv, Working
<1> QED
  BY <1>9, <1>10, <1>11, <1>12 DEF PoolInv

\* A claim succeeds only during a batch, and takes the next job of it.
LEMMA ClaimInv ==
  ASSUME A!AudioPoolAssumption, PoolInv, NEW t \in A!Threads, A!DrainClaim(t)
  PROVE  PoolInv'
<1>1. /\ Render \in A!Threads /\ Render \notin Workers /\ Workers \subseteq A!Threads
      /\ Busy \in SUBSET A!Threads /\ IsFiniteSet(Busy) /\ Cardinality(Busy) \in Nat
  BY ThreadsFinite DEF Busy
<1>2. PICK n, source : n = aCursor.next /\ source = aJobSlot[n + 1]
  OBVIOUS
<1>3. /\ aAt[t] = "claim" /\ aCursor = aSeen[t] /\ aCursor' = [aCursor EXCEPT !.next = @ + 1]
      /\ aJob' = [aJob EXCEPT ![t] = source] /\ aBegan' = Append(aBegan, source)
      /\ aSeen' = [aSeen EXCEPT ![t] = A!NoCursor] /\ A!Go(t, "job")
      /\ UNCHANGED <<aFinished, aGeneration, aJobSlot, aRoutes, aAlone>>
  BY <1>2 DEF A!DrainClaim, A!RunClaimed, A!batch
<1>4. /\ aFinished \in Nat /\ aCursor \in Cursors /\ n \in Nat /\ aCursor.count \in Nat
      /\ aJobSlot \in Seq(Nat) /\ aAlone \in Seq(Nat) /\ aBegan \in Seq(Nat)
      /\ aJob \in [A!Threads -> Nat] /\ aSeen \in [A!Threads -> Cursors]
  BY <1>2 DEF PoolInv, PoolTypeOK, Cursors
<1>5. n < aCursor.count
  BY <1>2, <1>3 DEF PoolInv, Working
<1>6. aAt[Render] \in Batch
  BY <1>2, <1>4, <1>5 DEF PoolInv, Claimed
<1>7. /\ aCursor.count = Len(aJobSlot) /\ n = Len(aBegan) /\ aFinished + Cardinality(Busy) = n
  BY <1>2, <1>6 DEF PoolInv, Claimed
<1>8. n + 1 \in 1 .. Len(aJobSlot) /\ source \in Nat
  BY <1>2, <1>4, <1>5, <1>7
<1>9. /\ aAt' \in [A!Threads -> Places] /\ aAt'[t] = "job"
      /\ \A u \in A!Threads : u # t => aAt'[u] = aAt[u]
  BY <1>3, Moves DEF PoolInv, Places, Batch
<1>10. aAt'[Render] \in Batch
  BY <1>6, <1>9, <1>1 DEF Batch
<1>11. /\ aCursor' \in Cursors /\ aCursor'.next = n + 1 /\ aCursor'.count = aCursor.count
       /\ aCursor'.next <= aCursor'.count
  <2>1. n + 1 \in Nat /\ n + 1 <= aCursor.count
    BY <1>4, <1>5
  <2>2. aCursor' = [aCursor EXCEPT !.next = n + 1]
    BY <1>2, <1>3
  <2>3. aCursor' \in Cursors /\ aCursor'.next = n + 1 /\ aCursor'.count = aCursor.count
    BY <1>4, <2>1, <2>2 DEF Cursors
  <2> QED
    BY <2>1, <2>3
<1>12. /\ aJob' \in [A!Threads -> Nat] /\ aJob'[t] = source
       /\ \A u \in A!Threads : u # t => aJob'[u] = aJob[u]
  BY <1>3, <1>4, <1>8
<1>13. A!NoCursor \in Cursors
  BY DEF A!NoCursor, Cursors
<1>14. /\ aSeen' \in [A!Threads -> Cursors]
       /\ \A u \in A!Threads : u # t => aSeen'[u] = aSeen[u]
  BY <1>3, <1>4, <1>13
<1>15. /\ aBegan' \in Seq(Nat) /\ Len(aBegan') = n + 1 /\ aBegan'[n + 1] = source
       /\ \A k \in 1 .. n : aBegan'[k] = aBegan[k]
  BY <1>3, <1>4, <1>7, <1>8
<1>16. /\ Plan = aJobSlot \o aAlone /\ Plan' = Plan /\ Plan \in Seq(Nat)
       /\ Len(aJobSlot) <= Len(Plan)
  BY <1>3, <1>4, <1>6, <1>10 DEF Plan
<1>17. \A k \in 1 .. Len(aJobSlot) : Plan[k] = aJobSlot[k]
  BY <1>4, <1>16
<1>18. PoolTypeOK'
  <2>1. ASSUME NEW w \in Workers
        PROVE  aAt'[w] \in {"asleep", "woken", "adopt", "load", "claim", "job", "exited"}
    BY <1>1, <1>9 DEF PoolInv, PoolTypeOK
  <2>2. aAt'[Render] \in {"alone"} \cup Batch \cup Before \cup Resting
    BY <1>10
  <2> QED
    BY <1>3, <1>9, <1>11, <1>12, <1>14, <1>15, <2>1, <2>2 DEF PoolInv, PoolTypeOK
<1>19. Planned'
  <2>1. ASSUME NEW k \in 1 .. Len(aBegan') PROVE aBegan'[k] = Plan'[k]
    <3>1. CASE k = n + 1
      BY <1>2, <1>8, <1>15, <1>16, <1>17, <3>1
    <3>2. CASE k # n + 1
      <4>1. k \in 1 .. n /\ k \in 1 .. Len(aBegan)
        BY <1>4, <1>7, <1>15, <3>2
      <4> QED
        BY <1>15, <1>16, <4>1 DEF PoolInv, Planned
    <3> QED
      BY <3>1, <3>2
  <2>2. Len(aBegan') <= Len(Plan')
    BY <1>8, <1>15, <1>16, <1>4
  <2>3. Whole(aRoutes', Plan') /\ Apart(aRoutes', aJobSlot')
    <3>1. Whole(aRoutes, Plan) /\ Apart(aRoutes, aJobSlot)
      BY <1>6 DEF PoolInv, Planned
    <3> QED
      BY <1>3, <1>16, <3>1, Zenon
  <2>4. aAt'[Render] \notin Before /\ aAt'[Render] \notin Resting
    BY <1>10 DEF Batch, Before, Resting
  <2> QED
    BY <2>1, <2>2, <2>3, <2>4 DEF Planned
<1>20. Claimed'
  <2>1. Busy' = Busy \cup {t} /\ t \notin Busy
    BY <1>3, <1>9 DEF Busy
  <2>2. Cardinality(Busy') = Cardinality(Busy) + 1
    BY <1>1, <2>1, FS_AddElement
  <2>3. aFinished' + Cardinality(Busy') = n + 1
    <3>1. PICK c \in Nat : c = Cardinality(Busy)
      BY <1>1
    <3>2. aFinished + c = n /\ Cardinality(Busy') = c + 1 /\ aFinished' = aFinished
      BY <1>3, <1>7, <2>2, <3>1
    <3> QED
      BY <1>4, <3>2
  <2> QED
    BY <1>3, <1>7, <1>10, <1>11, <1>15, <2>3 DEF Claimed
<1>21. Working'
  <2>1. ASSUME NEW u \in A!Threads, u # t, aAt[u] = "job"
        PROVE  \E k \in 1 .. n : aJob[u] = aJobSlot[k]
    BY <1>2, <2>1 DEF PoolInv, Working
  <2>2. ASSUME NEW u \in A!Threads, u # t, aAt[u] = "job" PROVE aJob[u] # source
    <3>1. PICK k \in 1 .. n : aJob[u] = aJobSlot[k]
      BY <2>1, <2>2
    <3>2. k \in 1 .. Len(aJobSlot) /\ k # n + 1 /\ k \in 1 .. Len(Plan) /\ n + 1 \in 1 .. Len(Plan)
      BY <1>4, <1>8, <1>16
    <3>3. Plan[k] # Plan[n + 1]
      BY <3>2 DEF PoolInv, Planned, Whole
    <3> QED
      BY <1>2, <1>8, <1>17, <3>1, <3>2, <3>3
  <2>3. ASSUME NEW u \in A!Threads, aAt'[u] = "claim" PROVE aSeen'[u].next < aSeen'[u].count
    BY <1>9, <1>14, <2>3 DEF PoolInv, Working
  <2>4. ASSUME NEW u \in A!Threads, aAt'[u] = "job"
        PROVE  \E k \in 1 .. aCursor'.next : aJob'[u] = aJobSlot'[k]
    <3>1. CASE u = t
      <4>1. n + 1 \in 1 .. aCursor'.next
        BY <1>4, <1>11
      <4> QED
        BY <1>2, <1>3, <1>12, <3>1, <4>1
    <3>2. CASE u # t
      <4>1. PICK k \in 1 .. n : aJob[u] = aJobSlot[k]
        BY <1>9, <2>1, <2>4, <3>2
      <4>2. k \in 1 .. aCursor'.next
        BY <1>4, <1>11
      <4> QED
        BY <1>3, <1>12, <3>2, <4>1, <4>2
    <3> QED
      BY <3>1, <3>2
  <2>5. ASSUME NEW u \in A!Threads, aJob'[u] # 0
        PROVE  aAt'[u] = "job" \/ (u = Render /\ aAt'[u] = "alone")
    BY <1>9, <1>12, <2>5 DEF PoolInv, Working
  <2>6. ASSUME NEW u \in A!Threads, NEW v \in A!Threads,
               aAt'[u] = "job", aAt'[v] = "job", aJob'[u] = aJob'[v]
        PROVE  u = v
    BY <1>9, <1>12, <2>2, <2>6 DEF PoolInv, Working
  <2> QED
    BY <2>3, <2>4, <2>5, <2>6 DEF Working
<1> QED
  BY <1>18, <1>19, <1>20, <1>21 DEF PoolInv

LEMMA FinishInv ==
  ASSUME A!AudioPoolAssumption, PoolInv, NEW t \in A!Threads, A!DrainFinish(t)
  PROVE  PoolInv'
<1>1. /\ Render \in A!Threads /\ Render \notin Workers /\ Workers \subseteq A!Threads
      /\ Busy \in SUBSET A!Threads /\ IsFiniteSet(Busy) /\ Cardinality(Busy) \in Nat
  BY ThreadsFinite DEF Busy
<1>2. /\ aAt[t] = "job" /\ aJob' = [aJob EXCEPT ![t] = 0] /\ aFinished' = aFinished + 1
      /\ A!Go(t, "load")
      /\ UNCHANGED <<aCursor, aGeneration, aJobSlot, aRoutes, aAlone, aSeen, aBegan>>
  BY DEF A!DrainFinish, A!batch
<1>3. /\ aAt' \in [A!Threads -> Places] /\ aAt'[t] = "load"
      /\ \A u \in A!Threads : u # t => aAt'[u] = aAt[u]
  BY <1>2, Moves DEF PoolInv, Places, Batch
<1>4. t \in Busy /\ Busy' = Busy \ {t}
  BY <1>2, <1>3 DEF Busy
<1>5. aAt[Render] \in Batch
  BY <1>4 DEF PoolInv, Claimed
<1>6. aAt'[Render] \in Batch
  BY <1>1, <1>3, <1>5 DEF Batch
<1>7. aFinished \in Nat /\ aJob \in [A!Threads -> Nat]
  BY DEF PoolInv, PoolTypeOK
<1>8. /\ aJob' \in [A!Threads -> Nat] /\ aJob'[t] = 0
      /\ \A u \in A!Threads : u # t => aJob'[u] = aJob[u]
  BY <1>2, <1>7
<1>9. Plan' = Plan
  BY <1>2, <1>5, <1>6 DEF Plan
<1>10. PoolTypeOK'
  <2>1. ASSUME NEW w \in Workers
        PROVE  aAt'[w] \in {"asleep", "woken", "adopt", "load", "claim", "job", "exited"}
    BY <1>1, <1>3 DEF PoolInv, PoolTypeOK
  <2>2. aFinished' \in Nat
    BY <1>2, <1>7
  <2> QED
    BY <1>2, <1>3, <1>6, <1>8, <2>1, <2>2 DEF PoolInv, PoolTypeOK
<1>11. Planned'
  <2>1. aAt'[Render] \notin Before /\ aAt'[Render] \notin Resting
    BY <1>6 DEF Batch, Before, Resting
  <2> QED
    BY <1>2, <1>5, <1>9, <2>1 DEF PoolInv, Planned
<1>12. Claimed'
  <2>1. PICK c \in Nat : c = Cardinality(Busy)
    BY <1>1
  <2>2. Cardinality(Busy') = c - 1
    BY <1>1, <1>4, <2>1, FS_RemoveElement
  <2>3. aFinished + c = aCursor.next
    BY <1>5, <2>1 DEF PoolInv, Claimed
  <2>4. aFinished' + Cardinality(Busy') = aCursor.next
    BY <1>2, <1>7, <2>2, <2>3
  <2> QED
    BY <1>2, <1>5, <1>6, <2>4 DEF PoolInv, Claimed
<1>13. Working'
  <2>1. ASSUME NEW u \in A!Threads, aAt'[u] = "claim" PROVE aSeen'[u].next < aSeen'[u].count
    BY <1>2, <1>3, <2>1 DEF PoolInv, Working
  <2>2. ASSUME NEW u \in A!Threads, aAt'[u] = "job"
        PROVE  aAt[u] = "job" /\ aJob'[u] = aJob[u]
               /\ \E k \in 1 .. aCursor'.next : aJob'[u] = aJobSlot'[k]
    BY <1>2, <1>3, <1>8, <2>2 DEF PoolInv, Working
  <2>3. ASSUME NEW u \in A!Threads, aJob'[u] # 0
        PROVE  aAt'[u] = "job" \/ (u = Render /\ aAt'[u] = "alone")
    BY <1>3, <1>8, <2>3 DEF PoolInv, Working
  <2>4. ASSUME NEW u \in A!Threads, NEW v \in A!Threads,
               aAt'[u] = "job", aAt'[v] = "job", aJob'[u] = aJob'[v]
        PROVE  u = v
    BY <2>2, <2>4 DEF PoolInv, Working
  <2> QED
    BY <2>1, <2>2, <2>3, <2>4 DEF Working
<1> QED
  BY <1>10, <1>11, <1>12, <1>13 DEF PoolInv

LEMMA RunStageInv ==
  ASSUME A!AudioPoolAssumption, PoolInv, NEW r \in Routings, NEW limit,
         NEW p \in A!InSlotOrder(A!Parallel(r)), NEW d \in A!InSlotOrder(A!Deferred(r)),
         A!RunStage(r, limit, p, d)
  PROVE  PoolInv'
<1>1. /\ Render \in A!Threads /\ Render \notin Workers /\ Workers \subseteq A!Threads
  BY ThreadsFinite
<1>2. p \in Seq(Nat) /\ d \in Seq(Nat) /\ Whole(r, p \o d) /\ Apart(r, p)
  BY StageIsPlanned
<1>3. PICK inline \in BOOLEAN :
        /\ aAt[Render] = "idle" /\ aBegan' = << >> /\ aRoutes' = r /\ aJobSlot' = p
        /\ aAlone' = IF inline THEN p \o d ELSE d
        /\ aGeneration' \in {aGeneration, A!NextGeneration}
        /\ A!Go(Render, IF inline THEN "alone" ELSE "reset")
        /\ UNCHANGED <<aCursor, aFinished, aSeen, aJob>>
  <2>1. PICK b : b = (A!PoolThreads(limit) <= 1 \/ Len(p) = 1)
    OBVIOUS
  <2>2. b \in BOOLEAN
    BY <2>1
  <2> QED
    BY <2>1, <2>2 DEF A!RunStage
<1>4. PICK place \in {"alone", "reset"} : A!Go(Render, place) /\ (place = "alone" <=> inline = TRUE)
  BY <1>3
<1>5. /\ aAt' \in [A!Threads -> Places] /\ aAt'[Render] = place
      /\ \A u \in A!Threads : u # Render => aAt'[u] = aAt[u]
  BY <1>1, <1>4, Moves DEF PoolInv, Places, Before
<1>6. aGeneration' \in Nat
  <2>1. aGeneration \in Nat /\ GenMod \in Nat \ {0}
    BY DEF PoolInv, PoolTypeOK, A!AudioPoolAssumption
  <2>2. (aGeneration + 1) % GenMod \in Nat
    BY <2>1
  <2> QED
    BY <1>3, <2>1, <2>2 DEF A!NextGeneration
<1>7. Plan' = p \o d /\ aAlone' \in Seq(Nat) /\ aBegan' \in Seq(Nat) /\ Len(aBegan') = 0
  <2>1. << >> \o (p \o d) = p \o d /\ p \o d \in Seq(Nat)
    BY <1>2
  <2>2. CASE inline = TRUE
    BY <1>2, <1>3, <1>4, <1>5, <2>1, <2>2 DEF Plan, Batch, Before
  <2>3. CASE inline = FALSE
    BY <1>2, <1>3, <1>4, <1>5, <2>3 DEF Plan, Batch, Before
  <2> QED
    BY <2>2, <2>3
<1>8. PoolTypeOK'
  BY <1>1, <1>2, <1>3, <1>5, <1>6, <1>7 DEF PoolInv, PoolTypeOK, Before
<1>9. Planned'
  <2>1. Whole(aRoutes', Plan') /\ Apart(aRoutes', aJobSlot')
    BY <1>2, <1>3, <1>7
  <2>2. Len(Plan') \in Nat
    BY <1>2, <1>7
  <2>3. aAt'[Render] \notin Resting
    BY <1>5 DEF Resting
  <2> QED
    BY <1>3, <1>7, <2>1, <2>2, <2>3 DEF Planned
<1>10. Busy = {} /\ Busy' = {} /\ aCursor.next = aCursor.count
  <2>1. Busy = {} /\ aCursor.next = aCursor.count
    BY <1>3 DEF PoolInv, Claimed, Batch
  <2> QED
    BY <1>5, <2>1 DEF Busy
<1>11. Claimed'
  BY <1>3, <1>5, <1>10 DEF Claimed, Batch
<1>12. Working'
  <2>1. \A u \in A!Threads : aAt[u] # "job" /\ aAt'[u] # "job" /\ (aAt'[u] = "claim" => aAt[u] = "claim")
    BY <1>5, <1>10 DEF Busy
  <2>2. \A u \in A!Threads : aJob[u] = 0
    BY <1>3, <2>1 DEF PoolInv, Working
  <2> QED
    BY <1>3, <2>1, <2>2 DEF PoolInv, Working
<1> QED
  BY <1>8, <1>9, <1>11, <1>12 DEF PoolInv

LEMMA PoolNextInv ==
  ASSUME A!AudioPoolAssumption, PoolInv, [A!Next]_A!vars
  PROVE  PoolInv'
<1>1. CASE UNCHANGED A!vars
  BY <1>1 DEF A!vars, A!shared, A!batch, PoolInv, PoolTypeOK, Planned, Plan, Claimed, Busy, Working
<1>2. CASE A!Shutdown \/ A!RenderStep
  BY <1>2, QuietActions, PublishInv, AfterBatch, AloneInv DEF A!RenderStep
<1>3. ASSUME NEW t \in A!Threads, A!DrainStep(t) \/ A!DrainClaim(t) \/ A!DrainRetry(t)
      PROVE  PoolInv'
  BY <1>3, QuietActions, ClaimInv, FinishInv DEF A!DrainStep
<1>4. ASSUME NEW w \in Workers, A!WorkerStep(w) PROVE PoolInv'
  BY <1>4, QuietActions
<1> QED
  BY <1>1, <1>2, <1>3, <1>4, RunStageInv DEF A!Next

LEMMA PoolInitInv ==
  ASSUME A!AudioPoolAssumption, A!Init
  PROVE  PoolInv
<1>1. Render \in A!Threads /\ Render \notin Workers /\ Workers \subseteq A!Threads
  BY ThreadsFinite
<1>2. /\ aCursor = A!NoCursor /\ aFinished = 0 /\ aGeneration = 0 /\ aJobSlot = << >>
      /\ aRoutes = << >> /\ aAlone = << >> /\ aBegan = << >>
      /\ aAt = [t \in A!Threads |-> IF t = Render THEN "idle" ELSE "asleep"]
      /\ aSeen = [t \in A!Threads |-> A!NoCursor] /\ aJob = [t \in A!Threads |-> 0]
  BY DEF A!Init
<1>3. A!NoCursor \in Cursors /\ A!NoCursor.next = 0 /\ A!NoCursor.count = 0
  BY DEF A!NoCursor, Cursors
<1>4. /\ aAt \in [A!Threads -> Places] /\ aAt[Render] = "idle"
      /\ \A t \in A!Threads : aAt[t] \in {"idle", "asleep"} /\ (t \in Workers => aAt[t] = "asleep")
  BY <1>1, <1>2 DEF Places, Resting
<1>5. PoolTypeOK
  <2>1. << >> \in Seq(Nat)
    OBVIOUS
  <2> QED
    BY <1>1, <1>2, <1>3, <1>4, <2>1 DEF PoolTypeOK, Resting
<1>6. Plan = << >>
  <2>1. Plan = << >> \o << >>
    BY <1>2, <1>4 DEF Plan, Batch, Before
  <2> QED
    BY <2>1
<1>7. Planned
  BY <1>2, <1>4, <1>6 DEF Planned, Whole, Batch, Before
<1>8. Claimed
  BY <1>2, <1>3, <1>4 DEF Claimed, Busy, Batch
<1>9. Working
  BY <1>2, <1>4 DEF Working
<1> QED
  BY <1>5, <1>7, <1>8, <1>9 DEF PoolInv

\* For every number of workers and sources, every thread limit and every width
\* of the generation counter: a stage processes each of its sources exactly
\* once before it returns, no two threads are ever inside one insert, and
\* sources that share an insert are processed in slot order.
THEOREM PoolStagesExact ==
  ASSUME A!AudioPoolAssumption
  PROVE  A!Spec => []StagesExact
<1>1. A!Init => PoolInv
  BY PoolInitInv
<1>2. PoolInv /\ [A!Next]_A!vars => PoolInv'
  BY PoolNextInv
<1>3. ASSUME PoolInv PROVE StagesExact
  <2>1. aBegan \in Seq(Nat) /\ DOMAIN aBegan = 1 .. Len(aBegan) /\ Len(aBegan) \in Nat
    BY <1>3 DEF PoolInv, PoolTypeOK
  <2>2. Plan \in Seq(Nat)
    BY <1>3 DEF PoolInv, PoolTypeOK, Plan
  <2>3. \A k \in DOMAIN aBegan : k \in 1 .. Len(Plan) /\ aBegan[k] = Plan[k]
    <3>1. Len(Plan) \in Nat /\ Len(aBegan) <= Len(Plan)
      BY <1>3, <2>2 DEF PoolInv, Planned
    <3>2. \A k \in DOMAIN aBegan : k \in 1 .. Len(Plan)
      BY <2>1, <3>1
    <3> QED
      BY <1>3, <2>1, <3>2 DEF PoolInv, Planned
  <2>4. /\ \A i, j \in 1 .. Len(Plan) : Plan[i] = Plan[j] => i = j
        /\ \A i \in 1 .. Len(Plan) : Plan[i] \in DOMAIN aRoutes
        /\ \A k \in DOMAIN aRoutes : \E i \in 1 .. Len(Plan) : Plan[i] = k
        /\ \A i, j \in 1 .. Len(Plan) :
             i < j /\ aRoutes[Plan[i]] \cap aRoutes[Plan[j]] # {} => Plan[i] < Plan[j]
    BY <1>3 DEF PoolInv, Planned, Whole
  <2>5. \A t \in A!Threads : aJob[t] # 0 => aAt[t] = "job" \/ (t = Render /\ aAt[t] = "alone")
    BY <1>3 DEF PoolInv, Working
  <2>6. aAt[Render] \notin Batch => \A t \in A!Threads : aAt[t] # "job"
    BY <1>3 DEF PoolInv, Claimed, Busy
  <2>7. ASSUME ~A!InStage
        PROVE  /\ \A t \in A!Threads : aJob[t] = 0
               /\ {aBegan[i] : i \in DOMAIN aBegan} = DOMAIN aRoutes
    <3>1. aAt[Render] \in Resting
      BY <2>7 DEF A!InStage, Resting
    <3>2. aAlone = << >> /\ aAt[Render] \notin Batch \cup Before /\ aAt[Render] # "alone"
      BY <1>3, <3>1 DEF PoolInv, Planned, Resting, Batch, Before
    <3>3. Plan = aBegan
      BY <2>1, <3>2 DEF Plan
    <3>4. \A t \in A!Threads : aJob[t] = 0
      BY <2>5, <2>6, <3>2
    <3>5. \A x : x \in {aBegan[i] : i \in DOMAIN aBegan} <=> x \in DOMAIN aRoutes
      BY <2>1, <2>4, <3>3
    <3> QED
      BY <3>4, <3>5
  <2>8. ASSUME NEW t \in A!Threads, NEW u \in A!Threads, t # u, aJob[t] # 0, aJob[u] # 0
        PROVE  aRoutes[aJob[t]] \cap aRoutes[aJob[u]] = {}
    <3>1. aAt[Render] \in Batch
      BY <2>5, <2>6, <2>8
    <3>2. aAt[t] = "job" /\ aAt[u] = "job"
      BY <2>5, <2>8, <3>1 DEF Batch
    <3>3. aJob[t] # aJob[u]
      BY <1>3, <2>8, <3>2 DEF PoolInv, Working
    <3>4. PICK k \in 1 .. aCursor.next : aJob[t] = aJobSlot[k]
      BY <1>3, <3>2 DEF PoolInv, Working
    <3>5. PICK l \in 1 .. aCursor.next : aJob[u] = aJobSlot[l]
      BY <1>3, <3>2 DEF PoolInv, Working
    <3>6. /\ aCursor.next \in Nat /\ aCursor.next <= Len(aJobSlot) /\ Len(aJobSlot) \in Nat
          /\ Apart(aRoutes, aJobSlot)
      BY <1>3, <3>1 DEF PoolInv, PoolTypeOK, Cursors, Claimed, Planned
    <3>7. k \in 1 .. Len(aJobSlot) /\ l \in 1 .. Len(aJobSlot) /\ k # l
      BY <3>3, <3>4, <3>5, <3>6
    <3> QED
      BY <3>4, <3>5, <3>6, <3>7 DEF Apart
  <2>9. A!StageIsWhole
    BY <2>3, <2>4, <2>7 DEF A!StageIsWhole
  <2>10. A!InsertsInOrder
    BY <2>3, <2>4, <2>8 DEF A!InsertsInOrder
  <2> QED
    BY <2>9, <2>10 DEF StagesExact, A!StagesExact
<1> QED
  BY <1>1, <1>2, <1>3, PTL DEF A!Spec

-----------------------------------------------------------------------------
(***************************************************************************)
(* MidiPatchbay.  PatchbayExact speaks of the moments with nothing under   *)
(* way.  The inductive invariant says what holds in between.  For a queue: *)
(* its two counters are the numbers of messages given up and published,    *)
(* modulo the width of the counters, which may be one behind those         *)
(* delivered and accepted, and its slots hold what lies between (InStep).  *)
(* For the callback: what it has written is, without repetition, what is   *)
(* due for the events and the slots it has passed (Forwarded); the routes  *)
(* do not change meanwhile (PortStable, which needs that stop waits), and  *)
(* no two slots have the same route (RouteTable).                          *)
(***************************************************************************)
\* Division with remainder.

LEMMA ModBasics ==
  ASSUME NEW n \in Nat, NEW width \in Nat \ {0}
  PROVE  /\ n \div width \in Int /\ n % width \in 0 .. width - 1
         /\ n = width * (n \div width) + (n % width)
  BY Z3

LEMMA ModUnique ==
  ASSUME NEW width \in Nat \ {0}, NEW q \in Int, NEW r \in 0 .. width - 1
  PROVE  (width * q + r) % width = r
  BY Z3

LEMMA Distribute ==
  ASSUME NEW width \in Int, NEW x \in Int, NEW y \in Int
  PROVE  width * (x - y) = width * x - width * y
  BY Z3

\* Counts less than width apart that fall on the same position are the same.
LEMMA ModInjective ==
  ASSUME NEW width \in Nat \ {0}, NEW a \in Nat, NEW b \in Nat,
         a <= b, b - a < width, a % width = b % width
  PROVE  a = b
<1>1. a = width * (a \div width) + (a % width) /\ b = width * (b \div width) + (b % width)
      /\ a \div width \in Int /\ b \div width \in Int
  BY ModBasics
<1> DEFINE d == (b \div width) - (a \div width)
<1>2. d \in Int /\ b - a = width * d
  <2>1. width * d = width * (b \div width) - width * (a \div width) /\ d \in Int
    BY <1>1, Distribute
  <2> QED
    BY <1>1, <2>1
<1> HIDE DEF d
<1>3. d = 0
  BY <1>2, Z3
<1> QED
  BY <1>2, <1>3

\* An increment that wraps.
LEMMA ModSucc ==
  ASSUME NEW width \in Nat \ {0}, NEW a \in Nat
  PROVE  ((a % width) + 1) % width = (a + 1) % width
<1> DEFINE q == a \div width
           r == a % width
<1>1. q \in Int /\ r \in 0 .. width - 1 /\ a = width * q + r
  BY ModBasics
<1> HIDE DEF q, r
<1>2. CASE r + 1 < width
  <2>1. r + 1 \in 0 .. width - 1 /\ a + 1 = width * q + (r + 1)
    BY <1>1, <1>2
  <2>2. (width * q + (r + 1)) % width = r + 1
    BY <1>1, <2>1, ModUnique
  <2>3. (r + 1) % width = r + 1
    BY <2>1
  <2> QED
    BY <2>1, <2>2, <2>3 DEF r
<1>3. CASE r + 1 = width
  <2>1. a + 1 = width * (q + 1) + 0 /\ q + 1 \in Int /\ 0 \in 0 .. width - 1
    BY <1>1, <1>3
  <2>2. (width * (q + 1) + 0) % width = 0
    BY <2>1, ModUnique
  <2>3. width % width = 0
    BY Z3
  <2> QED
    BY <1>3, <2>1, <2>2, <2>3 DEF r
<1> QED
  BY <1>1, <1>2, <1>3

LEMMA ModDifference ==
  ASSUME NEW width \in Nat \ {0}, NEW a \in Nat, NEW b \in Nat, a <= b, b - a < width
  PROVE  ((b % width) - (a % width)) % width = b - a
<1> DEFINE q == a \div width
           r == a % width
           p == b \div width
           s == b % width
<1>1. /\ q \in Int /\ r \in 0 .. width - 1 /\ a = width * q + r
      /\ p \in Int /\ s \in 0 .. width - 1 /\ b = width * p + s
  BY ModBasics
<1> HIDE DEF p, q, r, s
<1>2. s - r = width * (q - p) + (b - a) /\ q - p \in Int /\ b - a \in 0 .. width - 1
  <2>1. width * (q - p) = width * q - width * p
    BY <1>1, Distribute
  <2> QED
    BY <1>1, <2>1
<1>3. (width * (q - p) + (b - a)) % width = b - a
  BY <1>2, ModUnique
<1> QED
  BY <1>2, <1>3 DEF r, s

\* Reducing a wrapped counter once more is sound when the widths divide.
LEMMA ModOfMod ==
  ASSUME NEW width \in Nat \ {0}, NEW C \in Nat \ {0}, width % C = 0, NEW a \in Nat
  PROVE  (a % width) % C = a % C
<1> DEFINE q == a \div width
           r == a % width
           k == width \div C
           u == r \div C
           w == r % C
<1>1. q \in Int /\ r \in 0 .. width - 1 /\ a = width * q + r /\ k \in Int /\ width = C * k + (width % C)
  BY ModBasics
<1>2. u \in Int /\ w \in 0 .. C - 1 /\ r = C * u + w
  BY <1>1, ModBasics
<1> HIDE DEF q, r, k, u, w
<1>3. a = C * (k * q + u) + w /\ k * q + u \in Int
  BY <1>1, <1>2, Z3
<1>4. (C * (k * q + u) + w) % C = w
  BY <1>2, <1>3, ModUnique
<1> QED
  BY <1>3, <1>4 DEF r, w

LEMMA ModShift ==
  ASSUME NEW width \in Nat \ {0}, NEW a \in Nat, NEW b \in Nat, NEW j \in Nat, a % width = b % width
  PROVE  (a + j) % width = (b + j) % width
<1>1. /\ a = width * (a \div width) + (a % width) /\ b = width * (b \div width) + (b % width)
      /\ a \div width \in Int /\ b \div width \in Int
  BY ModBasics
<1>2. /\ (b + j) \div width \in Int /\ (b + j) % width \in 0 .. width - 1
      /\ b + j = width * ((b + j) \div width) + ((b + j) % width)
  BY ModBasics
<1>3. PICK x \in Int, y \in Int, z \in Int, u \in Int :
        x = a \div width /\ y = b \div width /\ z = (b + j) \div width /\ u = (b + j) % width
  BY <1>1, <1>2
<1>4. width * ((x - y) + z) = (width * x - width * y) + width * z /\ (x - y) + z \in Int
  BY Z3
<1>5. PICK s \in Int, t \in Int, v \in Int : s = width * x /\ t = width * y /\ v = width * z
  OBVIOUS
<1>6. a + j = width * ((x - y) + z) + u
  BY <1>1, <1>2, <1>3, <1>4, <1>5
<1>7. (width * ((x - y) + z) + u) % width = u
  BY <1>2, <1>3, <1>4, ModUnique
<1> QED
  BY <1>3, <1>6, <1>7

LEMMA Less == \A x, y \in Nat : <<x, y>> \in OpToRel(<, Nat) <=> x < y
  BY DEF OpToRel

\* Every set of naturals has a least element.
LEMMA Least ==
  ASSUME NEW S, S \subseteq Nat, S # {}
  PROVE  \E x \in S : \A y \in S : x <= y
<1>1. PICK x \in S : \A y \in S : ~(<<y, x>> \in OpToRel(<, Nat))
  BY NatLessThanWellFounded, WFMin
<1>2. \A y \in S : ~(y < x)
  BY <1>1, Less, Zenon
<1>3. \A y \in S : x <= y
  BY <1>2
<1> QED
  BY <1>3

-----------------------------------------------------------------------------
Queues == [read : 0 .. IndexMod - 1, write : 0 .. IndexMod - 1,
           packets : [0 .. PortQueue - 1 -> Nat]]

\* Of what was accepted (in) and delivered (out), r are given up and w are
\* published: the counters of q are r and w, and its slots hold the rest.
InStep(q, in, out, r, w) ==
  /\ q \in Queues /\ in \in Seq(Nat) /\ out \in Seq(Nat) /\ r \in Nat /\ w \in Nat
  /\ q.read = (FirstIndex + r) % IndexMod /\ q.write = (FirstIndex + w) % IndexMod
  /\ r <= Len(out) /\ Len(out) <= w /\ w <= Len(in) /\ Len(in) <= r + PortQueue
  /\ \A k \in 1 .. Len(in) : k > r => q.packets[(FirstIndex + (k - 1)) % PortQueue] = in[k]
  /\ \A k \in 1 .. Len(out) : out[k] = in[k]

LEMMA PortSizes ==
  ASSUME M!PatchbayAssumption
  PROVE  /\ PortQueue \in Nat \ {0} /\ IndexMod \in Nat \ {0} /\ IndexMod > PortQueue
         /\ IndexMod % PortQueue = 0 /\ FirstIndex \in Nat /\ FirstIndex < IndexMod
  BY DEF M!PatchbayAssumption

\* How many messages the counters say there are, and the slots they name.
LEMMA PortNumbers ==
  ASSUME M!PatchbayAssumption, NEW q, NEW in, NEW out, NEW r, NEW w, InStep(q, in, out, r, w)
  PROVE  /\ (q.write - q.read) % IndexMod = w - r
         /\ q.read = q.write => r = w
         /\ q.write % PortQueue = (FirstIndex + w) % PortQueue
         /\ q.read % PortQueue = (FirstIndex + r) % PortQueue
<1>1. /\ PortQueue \in Nat \ {0} /\ IndexMod \in Nat \ {0} /\ IndexMod > PortQueue
      /\ IndexMod % PortQueue = 0 /\ FirstIndex \in Nat
  BY PortSizes
<1>2. /\ r \in Nat /\ w \in Nat /\ r <= w /\ w - r <= PortQueue
      /\ q.read = (FirstIndex + r) % IndexMod /\ q.write = (FirstIndex + w) % IndexMod
  BY <1>1 DEF InStep
<1>3. PICK a \in Nat, b \in Nat : a = FirstIndex + r /\ b = FirstIndex + w
  BY <1>1, <1>2
<1>4. (q.write - q.read) % IndexMod = w - r
  <2>1. a <= b /\ b - a < IndexMod /\ b - a = w - r
    BY <1>1, <1>2, <1>3
  <2>2. ((b % IndexMod) - (a % IndexMod)) % IndexMod = b - a
    BY <1>1, <2>1, ModDifference
  <2> QED
    BY <1>2, <1>3, <2>1, <2>2
<1>5. ASSUME q.read = q.write PROVE r = w
  <2>1. a <= b /\ b - a < IndexMod /\ a % IndexMod = b % IndexMod
    BY <1>1, <1>2, <1>3, <1>5
  <2>2. a = b
    BY <1>1, <2>1, ModInjective
  <2> QED
    BY <1>1, <1>2, <1>3, <2>2
<1>6. /\ (a % IndexMod) % PortQueue = a % PortQueue
      /\ (b % IndexMod) % PortQueue = b % PortQueue
  BY <1>1, ModOfMod
<1> QED
  BY <1>2, <1>3, <1>4, <1>5, <1>6

LEMMA StoreInStep ==
  ASSUME M!PatchbayAssumption, NEW q, NEW in, NEW out, NEW r, NEW m \in Nat,
         InStep(q, in, out, r, Len(in)), ~M!Full(q)
  PROVE  InStep(M!Stored(q, m), Append(in, m), out, r, Len(in))
<1>1. /\ PortQueue \in Nat \ {0} /\ IndexMod \in Nat \ {0} /\ IndexMod > PortQueue
      /\ FirstIndex \in Nat
  BY PortSizes
<1>2. /\ q \in Queues /\ in \in Seq(Nat) /\ r \in Nat /\ Len(in) \in Nat /\ r <= Len(in)
      /\ \A k \in 1 .. Len(in) : k > r => q.packets[(FirstIndex + (k - 1)) % PortQueue] = in[k]
  BY <1>1 DEF InStep
<1>3. Len(in) - r < PortQueue /\ q.write % PortQueue = (FirstIndex + Len(in)) % PortQueue
  BY <1>1, <1>2, PortNumbers DEF M!Full
<1>4. PICK i : i = (FirstIndex + Len(in)) % PortQueue
  OBVIOUS
<1>5. i \in 0 .. PortQueue - 1
  <2>1. PICK a \in Nat : a = FirstIndex + Len(in)
    BY <1>1, <1>2
  <2>2. a % PortQueue \in 0 .. PortQueue - 1
    BY <1>1, ModBasics
  <2> QED
    BY <1>4, <2>1, <2>2
<1>6. PICK s : s = M!Stored(q, m)
  OBVIOUS
<1>7. /\ s \in Queues /\ s.read = q.read /\ s.write = q.write
      /\ s.packets = [q.packets EXCEPT ![i] = m]
  BY <1>2, <1>3, <1>4, <1>5, <1>6 DEF M!Stored, Queues
<1>8. PICK n : n = Append(in, m)
  OBVIOUS
<1>9. /\ n \in Seq(Nat) /\ Len(n) = Len(in) + 1 /\ n[Len(in) + 1] = m
      /\ \A k \in 1 .. Len(in) : n[k] = in[k]
  BY <1>2, <1>8
<1>10. ASSUME NEW k \in 1 .. Len(n), k > r
       PROVE  s.packets[(FirstIndex + (k - 1)) % PortQueue] = n[k]
  <2>1. CASE k = Len(in) + 1
    <3>1. k - 1 = Len(in)
      BY <1>2, <2>1
    <3>2. s.packets[i] = m
      BY <1>2, <1>5, <1>7 DEF Queues
    <3> QED
      BY <1>4, <1>9, <2>1, <3>1, <3>2
  <2>2. CASE k # Len(in) + 1
    <3>1. k \in 1 .. Len(in) /\ q.packets[(FirstIndex + (k - 1)) % PortQueue] = in[k]
      BY <1>2, <1>9, <1>10, <2>2
    <3>2. PICK a \in Nat, b \in Nat : a = FirstIndex + (k - 1) /\ b = FirstIndex + Len(in)
      BY <1>1, <1>2, <3>1
    <3>3. a # b /\ a <= b /\ b - a < PortQueue
      <4>1. Len(in) \in Nat /\ r \in Nat /\ k \in Nat /\ k <= Len(in) /\ k > r
        BY <1>2, <1>10, <3>1
      <4>2. PICK l \in Nat : l = Len(in)
        BY <4>1
      <4>3. b - a = l - (k - 1) /\ l - r < PortQueue /\ k <= l
        BY <1>1, <1>3, <3>2, <4>1, <4>2
      <4> QED
        BY <1>1, <4>1, <4>3
    <3>4. a % PortQueue # b % PortQueue
      BY <1>1, <3>3, ModInjective
    <3>5. a % PortQueue \in 0 .. PortQueue - 1
      BY <1>1, ModBasics
    <3>6. s.packets[a % PortQueue] = q.packets[a % PortQueue]
      BY <1>2, <1>4, <1>7, <3>2, <3>4, <3>5 DEF Queues
    <3> QED
      BY <1>9, <3>1, <3>2, <3>6
  <2> QED
    BY <2>1, <2>2
<1>11. out \in Seq(Nat) /\ Len(out) \in Nat /\ Len(out) <= Len(in) /\ r <= Len(out)
       /\ \A k \in 1 .. Len(out) : out[k] = in[k]
  BY DEF InStep
<1>12. \A k \in 1 .. Len(out) : out[k] = n[k]
  BY <1>2, <1>9, <1>11
<1>13. /\ s.read = (FirstIndex + r) % IndexMod /\ s.write = (FirstIndex + Len(in)) % IndexMod
  BY <1>7 DEF InStep
<1>14. Len(in) <= Len(n) /\ Len(n) <= r + PortQueue
  BY <1>1, <1>2, <1>3, <1>9
<1>15. InStep(s, n, out, r, Len(in))
  BY <1>2, <1>7, <1>9, <1>10, <1>11, <1>12, <1>13, <1>14 DEF InStep
<1> QED
  BY <1>6, <1>8, <1>15

LEMMA PushInStep ==
  ASSUME M!PatchbayAssumption, NEW q, NEW in, NEW out, NEW r, NEW w,
         InStep(q, in, out, r, w), w = Len(in) - 1
  PROVE  InStep(M!Pushed(q), in, out, r, Len(in))
<1>1. IndexMod \in Nat \ {0} /\ FirstIndex \in Nat
  BY PortSizes
<1>2. q \in Queues /\ w \in Nat /\ Len(in) = w + 1 /\ q.write = (FirstIndex + w) % IndexMod
  BY DEF InStep
<1>3. PICK a \in Nat : a = FirstIndex + w
  BY <1>1, <1>2
<1>4. ((a % IndexMod) + 1) % IndexMod = (a + 1) % IndexMod /\ (a + 1) % IndexMod \in 0 .. IndexMod - 1
  <2>1. ((a % IndexMod) + 1) % IndexMod = (a + 1) % IndexMod
    BY <1>1, ModSucc
  <2>2. PICK b \in Nat : b = a + 1
    OBVIOUS
  <2>3. b % IndexMod \in 0 .. IndexMod - 1
    BY <1>1, ModBasics
  <2> QED
    BY <2>1, <2>2, <2>3
<1>5. a + 1 = FirstIndex + Len(in)
  BY <1>1, <1>2, <1>3
<1>6. PICK s : s = M!Pushed(q)
  OBVIOUS
<1>7. /\ s \in Queues /\ s.read = q.read /\ s.write = (FirstIndex + Len(in)) % IndexMod
      /\ s.packets = q.packets
  BY <1>2, <1>3, <1>4, <1>5, <1>6 DEF M!Pushed, Queues
<1>8. InStep(s, in, out, r, Len(in))
  BY <1>2, <1>7 DEF InStep
<1> QED
  BY <1>6, <1>8

LEMMA TakeInStep ==
  ASSUME M!PatchbayAssumption, NEW q, NEW in, NEW out, NEW w,
         InStep(q, in, out, Len(out), w), ~M!IsEmpty(q)
  PROVE  InStep(q, in, Append(out, M!Front(q)), Len(out), w)
<1>1. PortQueue \in Nat \ {0} /\ FirstIndex \in Nat
  BY PortSizes
<1>2. /\ in \in Seq(Nat) /\ out \in Seq(Nat) /\ Len(out) \in Nat /\ Len(in) \in Nat /\ w \in Nat
      /\ Len(out) <= w /\ w <= Len(in)
  BY DEF InStep
<1>3. Len(out) < w
  <2>1. Len(out) = w => q.read = q.write
    BY DEF InStep
  <2> QED
    BY <1>2, <2>1 DEF M!IsEmpty
<1>4. PICK k : k = Len(out) + 1
  OBVIOUS
<1>5. k \in 1 .. Len(in) /\ k > Len(out) /\ k - 1 = Len(out)
  BY <1>2, <1>3, <1>4
<1>6. M!Front(q) = in[k]
  <2>1. q.packets[(FirstIndex + (k - 1)) % PortQueue] = in[k]
    BY <1>5 DEF InStep
  <2>2. q.read % PortQueue = (FirstIndex + Len(out)) % PortQueue
    BY PortNumbers
  <2> QED
    BY <1>5, <2>1, <2>2 DEF M!Front
<1>7. PICK n : n = Append(out, M!Front(q))
  OBVIOUS
<1>8. in[k] \in Nat
  BY <1>2, <1>5
<1>9. n \in Seq(Nat) /\ Len(n) = Len(out) + 1 /\ n[k] = in[k] /\ \A j \in 1 .. Len(out) : n[j] = out[j]
  BY <1>2, <1>4, <1>6, <1>7, <1>8
<1>10. \A j \in 1 .. Len(out) : out[j] = in[j]
  BY DEF InStep
<1>11. ASSUME NEW j \in 1 .. Len(n) PROVE n[j] = in[j]
  <2>1. j = k \/ j \in 1 .. Len(out)
    BY <1>2, <1>4, <1>9
  <2> QED
    BY <1>9, <1>10, <2>1, Zenon
<1>12. InStep(q, in, n, Len(out), w)
  BY <1>2, <1>3, <1>9, <1>11 DEF InStep
<1> QED
  BY <1>7, <1>12

LEMMA PopInStep ==
  ASSUME M!PatchbayAssumption, NEW q, NEW in, NEW out, NEW r, NEW w,
         InStep(q, in, out, r, w), r = Len(out) - 1
  PROVE  InStep(M!Popped(q), in, out, Len(out), w)
<1>1. IndexMod \in Nat \ {0} /\ PortQueue \in Nat /\ FirstIndex \in Nat
  BY PortSizes
<1>2. q \in Queues /\ r \in Nat /\ Len(out) = r + 1 /\ q.read = (FirstIndex + r) % IndexMod
  BY DEF InStep
<1>3. PICK a \in Nat : a = FirstIndex + r
  BY <1>1, <1>2
<1>4. ((a % IndexMod) + 1) % IndexMod = (a + 1) % IndexMod /\ (a + 1) % IndexMod \in 0 .. IndexMod - 1
  <2>1. ((a % IndexMod) + 1) % IndexMod = (a + 1) % IndexMod
    BY <1>1, ModSucc
  <2>2. PICK b \in Nat : b = a + 1
    OBVIOUS
  <2>3. b % IndexMod \in 0 .. IndexMod - 1
    BY <1>1, ModBasics
  <2> QED
    BY <2>1, <2>2, <2>3
<1>5. a + 1 = FirstIndex + Len(out)
  BY <1>1, <1>2, <1>3
<1>6. PICK s : s = M!Popped(q)
  OBVIOUS
<1>7. /\ s \in Queues /\ s.write = q.write /\ s.read = (FirstIndex + Len(out)) % IndexMod
      /\ s.packets = q.packets
  BY <1>2, <1>3, <1>4, <1>5, <1>6 DEF M!Popped, Queues
<1>8. \A k \in 1 .. Len(in) : k > Len(out) => s.packets[(FirstIndex + (k - 1)) % PortQueue] = in[k]
  BY <1>2, <1>7 DEF InStep
<1>9. Len(in) \in Nat /\ Len(in) <= Len(out) + PortQueue /\ Len(out) <= w
  <2>1. Len(in) \in Nat /\ Len(in) <= r + PortQueue /\ Len(out) <= w
    BY DEF InStep
  <2> QED
    BY <1>1, <1>2, <2>1
<1>10. InStep(s, in, out, Len(out), w)
  BY <1>2, <1>7, <1>8, <1>9 DEF InStep
<1> QED
  BY <1>6, <1>10

\* With nothing under way the queue holds what is accepted and not delivered.
LEMMA NothingMissing ==
  ASSUME M!PatchbayAssumption, NEW q, NEW in, NEW out, InStep(q, in, out, Len(out), Len(in))
  PROVE  out \o M!Queued(q) = in
<1>1. PortQueue \in Nat \ {0} /\ IndexMod \in Nat \ {0} /\ FirstIndex \in Nat
  BY PortSizes
<1>2. /\ q \in Queues /\ in \in Seq(Nat) /\ out \in Seq(Nat) /\ Len(out) \in Nat /\ Len(in) \in Nat
      /\ Len(out) <= Len(in)
  BY DEF InStep
<1>13. /\ \A k \in 1 .. Len(in) :
            k > Len(out) => q.packets[(FirstIndex + (k - 1)) % PortQueue] = in[k]
       /\ \A k \in 1 .. Len(out) : out[k] = in[k]
  BY DEF InStep
<1>3. (q.write - q.read) % IndexMod = Len(in) - Len(out)
  BY PortNumbers
<1>4. PICK z : z = M!Queued(q)
  OBVIOUS
<1>5. PICK l \in Nat : l = Len(in) - Len(out)
  <2>1. Len(in) - Len(out) \in Nat
    BY <1>2
  <2> QED
    BY <2>1, Zenon
<1>6. z = [k \in 1 .. l |-> q.packets[(q.read + k - 1) % PortQueue]]
  BY <1>3, <1>4, <1>5 DEF M!Queued
<1>7. ASSUME NEW k \in 1 .. l PROVE z[k] = in[Len(out) + k] /\ z[k] \in Nat
  <2>1. /\ Len(out) + k \in 1 .. Len(in) /\ Len(out) + k > Len(out)
        /\ (Len(out) + k) - 1 = Len(out) + (k - 1) /\ k - 1 \in Nat
    BY <1>2, <1>5
  <2>2. q.packets[(FirstIndex + (Len(out) + (k - 1))) % PortQueue] = in[Len(out) + k]
    BY <1>13, <2>1
  <2>3. (q.read + k - 1) % PortQueue = (FirstIndex + (Len(out) + (k - 1))) % PortQueue
    <3>1. PICK a \in Nat, j \in Nat : a = FirstIndex + Len(out) /\ j = k - 1
      BY <1>1, <1>2, <2>1
    <3>2. q.read = a % IndexMod
      BY <3>1 DEF InStep
    <3>3. PICK b \in Nat : b = a % IndexMod
      <4>1. a % IndexMod \in 0 .. IndexMod - 1
        BY <1>1, ModBasics
      <4> QED
        BY <1>1, <4>1
    <3>4. b % PortQueue = a % PortQueue
      BY <1>1, <3>3, PortSizes, ModOfMod
    <3>5. (b + j) % PortQueue = (a + j) % PortQueue
      <4>1. \A c \in Nat \ {0} : \A x, y, i \in Nat : x % c = y % c => (x + i) % c = (y + i) % c
        BY ModShift
      <4>2. PortQueue \in Nat \ {0}
        BY <1>1
      <4>3. \A x, y, i \in Nat :
              x % PortQueue = y % PortQueue => (x + i) % PortQueue = (y + i) % PortQueue
        BY <4>1, <4>2, Zenon
      <4>4. a \in Nat /\ b \in Nat /\ j \in Nat
        OBVIOUS
      <4> QED
        BY <3>4, <4>3, <4>4, Zenon
    <3>6. q.read + k - 1 = b + j /\ FirstIndex + (Len(out) + (k - 1)) = a + j
      BY <1>1, <1>2, <3>1, <3>2, <3>3
    <3> QED
      BY <3>5, <3>6
  <2>4. in[Len(out) + k] \in Nat
    BY <1>2, <2>1
  <2> QED
    BY <1>6, <2>2, <2>3, <2>4
<1>8. z \in Seq(Nat) /\ Len(z) = l
  <2>1. z \in [1 .. l -> Nat]
    BY <1>6, <1>7
  <2> QED
    BY <2>1
<1>9. PICK c : c = out \o z
  OBVIOUS
<1>10. c \in Seq(Nat) /\ Len(c) = Len(in)
  <2>1. c \in Seq(Nat) /\ Len(c) = Len(out) + Len(z)
    BY <1>2, <1>8, <1>9
  <2>2. Len(out) + l = Len(in)
    BY <1>2, <1>5
  <2> QED
    BY <1>8, <2>1, <2>2
<1>11. ASSUME NEW k \in 1 .. Len(in) PROVE c[k] = in[k]
  <2>1. CASE k <= Len(out)
    BY <1>2, <1>8, <1>9, <1>13, <2>1
  <2>2. CASE k > Len(out)
    <3>1. k - Len(out) \in 1 .. l /\ Len(out) + (k - Len(out)) = k
      BY <1>2, <1>5, <2>2
    <3>2. c[k] = z[k - Len(out)]
      BY <1>2, <1>5, <1>8, <1>9, <2>2
    <3>3. z[k - Len(out)] = in[Len(out) + (k - Len(out))]
      BY <1>7, <3>1
    <3> QED
      BY <3>1, <3>2, <3>3
  <2>3. k <= Len(out) \/ k > Len(out)
    BY <1>2
  <2> QED
    BY <2>1, <2>2, <2>3, Zenon
<1>12. c = in
  <2>1. PICK D : D = 1 .. Len(in)
    OBVIOUS
  <2>2. c \in [D -> Nat] /\ in \in [D -> Nat]
    BY <1>2, <1>10, <2>1
  <2>3. \A k \in D : c[k] = in[k]
    BY <1>11, <2>1
  <2> QED
    BY <2>2, <2>3
<1> QED
  BY <1>4, <1>9, <1>12
-----------------------------------------------------------------------------
Event == [id : Nat, input : M!Inputs]

PortTypeOK ==
  /\ mStarted \in BOOLEAN /\ mSends \in Nat /\ mEvents \in Nat
  /\ mConnections \in [M!Slots -> [active : BOOLEAN, input : Nat, output : Nat]]
  /\ mControl \in [pc : {"ready", "connect", "deactivate", "sent", "polled"}, port : Nat]
  /\ mControl.pc = "ready" => mControl.port = 0
  /\ mCb \in [pc : {"idle", "output", "played", "input", "heard", "route", "write"},
              out : Nat, events : Seq(Event), slot : Nat]
  /\ mBlock \in [events : Seq(Event), routes : SUBSET (M!Inputs \X M!Outputs),
                 wrote : Seq(Nat \X Nat)]
  /\ mRoutes \in SUBSET (M!Inputs \X M!Outputs)
  /\ mInq \in [M!Inputs -> Queues] /\ mOutq \in [M!Outputs -> Queues]
  /\ mSent \in [M!Outputs -> Seq(Nat)] /\ mPlayed \in [M!Outputs -> Seq(Nat)]
  /\ mHeard \in [M!Inputs -> Seq(Nat)] /\ mPolled \in [M!Inputs -> Seq(Nat)]

\* Where the callback may be: it does not run while routes are changed, and
\* it has a slot in hand only while it forwards an event.
PortStable ==
  /\ mControl.pc \in {"connect", "deactivate"} => ~mStarted
  /\ mCb.pc # "idle" => mStarted \/ mControl.pc = "deactivate"
  /\ mCb.pc = "output" => mCb.out > 0
  /\ mCb.pc = "played" => mCb.out \in M!Outputs
  /\ mCb.pc \in {"heard", "route", "write"} => mCb.events # << >>
  /\ IF mCb.pc \in {"route", "write"} THEN mCb.slot \in M!Slots ELSE mCb.slot = 0
  /\ mCb.pc = "write" => /\ mConnections[mCb.slot].active
                         /\ mConnections[mCb.slot].input = Head(mCb.events).input

\* The slots in use have the routes set up, each once.
RouteTable ==
  /\ \A i \in M!Inputs, o \in M!Outputs : <<i, o>> \in mRoutes <=> \E k \in M!Slots : M!Same(k, i, o)
  /\ \A i \in M!Inputs, o \in M!Outputs : \A j, k \in M!Slots : M!Same(j, i, o) /\ M!Same(k, i, o) => j = k
  /\ \A k \in M!Slots : mConnections[k].active =>
       mConnections[k].input \in M!Inputs /\ mConnections[k].output \in M!Outputs

\* The callback has dealt with the first Past events of its block and, of the
\* next one, with the slots before the one in hand.
Past == Len(mBlock.events) - Len(mCb.events)
Matches(k, s) == mConnections[s].active /\ mConnections[s].input = mBlock.events[k].input
Done(k, s) == (k <= Past \/ (k = Past + 1 /\ s < mCb.slot)) /\ Matches(k, s)
Copy(k, s) == <<mBlock.events[k].id, mConnections[s].output>>

Written == {mBlock.wrote[j] : j \in 1 .. Len(mBlock.wrote)}
Due == {x \in Nat \X Nat :
          \E k \in 1 .. Len(mBlock.events), s \in M!Slots : Done(k, s) /\ x = Copy(k, s)}

\* It has written each copy due so far once, and nothing else.
Forwarded ==
  mCb.pc # "idle" =>
    /\ mBlock.routes = mRoutes
    /\ Len(mCb.events) <= Len(mBlock.events)
    /\ \A j \in 1 .. Len(mCb.events) : mCb.events[j] = mBlock.events[Past + j]
    /\ \A j, k \in 1 .. Len(mBlock.events) : mBlock.events[j].id = mBlock.events[k].id => j = k
    /\ \A j, k \in 1 .. Len(mBlock.wrote) : mBlock.wrote[j] = mBlock.wrote[k] => j = k
    /\ Written = Due

Bit(b) == IF b THEN 1 ELSE 0
Outgoing(o) ==
  InStep(mOutq[o], mSent[o], mPlayed[o],
         Len(mPlayed[o]) - Bit(mCb.pc = "played" /\ mCb.out = o),
         Len(mSent[o]) - Bit(mControl.pc = "sent" /\ mControl.port = o))
Incoming(i) ==
  InStep(mInq[i], mHeard[i], mPolled[i],
         Len(mPolled[i]) - Bit(mControl.pc = "polled" /\ mControl.port = i),
         Len(mHeard[i]) - Bit(mCb.pc = "heard" /\ Head(mCb.events).input = i))
PortQueues == (\A o \in M!Outputs : Outgoing(o)) /\ (\A i \in M!Inputs : Incoming(i))

PortInv == PortTypeOK /\ PortStable /\ RouteTable /\ Forwarded /\ PortQueues

LEMMA MinIsMember ==
  ASSUME NEW n \in Nat, NEW S, S \subseteq 1 .. n, S # {}
  PROVE  M!Min(S) \in S
<1>1. S \subseteq Nat
  OBVIOUS
<1>2. \E x \in S : \A y \in S : x <= y
  BY <1>1, Least
<1> QED
  BY <1>2 DEF M!Min

LEMMA ConfigureInv ==
  ASSUME M!PatchbayAssumption, PortInv, NEW i \in M!Inputs, NEW o \in M!Outputs,
         M!Connect(i, o) \/ M!Disconnect(i, o)
  PROVE  PortInv'
<1> USE DEF PortInv
<1>1. /\ mControl = M!Ready /\ ~mStarted
      /\ UNCHANGED <<mStarted, mActive, mInq, mOutq, mControl, mCb, mEvents, mSends, mBlock,
                     mSent, mPlayed, mHeard, mPolled>>
  BY DEF M!Connect, M!Disconnect, M!CanConfigure
<1>2. mCb.pc = "idle"
  BY <1>1 DEF PortStable, M!Ready
<1>3. Connections \in Nat /\ M!Slots = 1 .. Connections /\ NOutputs \in Nat /\ NInputs \in Nat
  BY DEF M!PatchbayAssumption, M!Slots
<1>4. /\ mConnections' \in [M!Slots -> [active : BOOLEAN, input : Nat, output : Nat]]
      /\ mRoutes' \in SUBSET (M!Inputs \X M!Outputs) /\ RouteTable'
  <2>0. i \in Nat /\ o \in Nat
    BY <1>3 DEF M!Inputs, M!Outputs
  <2>1. CASE M!Connect(i, o)
    <3>1. PICK f : f = {k \in M!Slots : ~mConnections[k].active}
      OBVIOUS
    <3>2. PICK m : m = M!Min(f)
      OBVIOUS
    <3>3. m \in f
      BY <1>3, <2>1, <3>1, <3>2, MinIsMember DEF M!Connect
    <3>4. /\ mConnections' = [mConnections EXCEPT ![m] = [active |-> TRUE, input |-> i, output |-> o]]
          /\ mRoutes' = mRoutes \cup {<<i, o>>}
          /\ ~\E k \in M!Slots : M!Same(k, i, o)
      BY <2>1, <3>1, <3>2 DEF M!Connect
    <3>5. m \in M!Slots /\ ~mConnections[m].active
      BY <3>1, <3>3
    <3>6. mConnections' \in [M!Slots -> [active : BOOLEAN, input : Nat, output : Nat]]
      BY <2>0, <3>4, <3>5 DEF PortTypeOK
    <3>7. ASSUME NEW k \in M!Slots, NEW a \in M!Inputs, NEW b \in M!Outputs
          PROVE  M!Same(k, a, b)' <=> (IF k = m THEN a = i /\ b = o ELSE M!Same(k, a, b))
      BY <3>4, <3>5 DEF M!Same, PortTypeOK
    <3>8. RouteTable'
      <4>1. ASSUME NEW a \in M!Inputs, NEW b \in M!Outputs
            PROVE  <<a, b>> \in mRoutes' <=> \E k \in M!Slots : M!Same(k, a, b)'
        <5>1. CASE a = i /\ b = o
          BY <3>4, <3>5, <3>7, <5>1
        <5>2. CASE ~(a = i /\ b = o)
          <6>1. <<a, b>> \in mRoutes' <=> <<a, b>> \in mRoutes
            BY <3>4, <5>2
          <6>2. ~M!Same(m, a, b)
            BY <3>5 DEF M!Same
          <6>3. <<a, b>> \in mRoutes <=> \E k \in M!Slots : M!Same(k, a, b)
            BY DEF RouteTable
          <6> QED
            BY <3>7, <5>2, <6>1, <6>2, <6>3, Zenon
        <5> QED
          BY <5>1, <5>2
      <4>2. ASSUME NEW a \in M!Inputs, NEW b \in M!Outputs, NEW j \in M!Slots, NEW k \in M!Slots,
                   M!Same(j, a, b)', M!Same(k, a, b)'
            PROVE  j = k
        <5>1. \A l \in M!Slots : M!Same(l, i, o) => FALSE
          BY <3>4, Zenon
        <5>2. M!Same(j, a, b) /\ M!Same(k, a, b) => j = k
          BY DEF RouteTable
        <5> QED
          BY <3>7, <4>2, <5>1, <5>2, Zenon
      <4>3. ASSUME NEW k \in M!Slots, mConnections'[k].active
            PROVE  mConnections'[k].input \in M!Inputs /\ mConnections'[k].output \in M!Outputs
        BY <3>4, <3>5, <4>3 DEF RouteTable, PortTypeOK
      <4> QED
        BY <4>1, <4>2, <4>3 DEF RouteTable
    <3> QED
      BY <3>4, <3>6, <3>8 DEF PortTypeOK
  <2>2. CASE M!Disconnect(i, o)
    <3>1. PICK f : f = {k \in M!Slots : M!Same(k, i, o)}
      OBVIOUS
    <3>2. PICK m : m = M!Min(f)
      OBVIOUS
    <3>3. m \in f
      BY <1>3, <2>2, <3>1, <3>2, MinIsMember DEF M!Disconnect
    <3>4. /\ mConnections' = [mConnections EXCEPT ![m].active = FALSE]
          /\ mRoutes' = mRoutes \ {<<i, o>>}
      BY <2>2, <3>1, <3>2 DEF M!Disconnect
    <3>5. m \in M!Slots /\ M!Same(m, i, o)
      BY <3>1, <3>3
    <3>6. mConnections' \in [M!Slots -> [active : BOOLEAN, input : Nat, output : Nat]]
      <4>1. PICK c : c = [mConnections[m] EXCEPT !.active = FALSE]
        OBVIOUS
      <4>2. mConnections[m] \in [active : BOOLEAN, input : Nat, output : Nat]
        BY <3>5 DEF PortTypeOK
      <4>3. c \in [active : BOOLEAN, input : Nat, output : Nat]
        BY <4>1, <4>2
      <4>4. mConnections' = [mConnections EXCEPT ![m] = c]
        BY <3>4, <4>1
      <4> QED
        BY <3>5, <4>3, <4>4 DEF PortTypeOK
    <3>7. ASSUME NEW k \in M!Slots, NEW a \in M!Inputs, NEW b \in M!Outputs
          PROVE  M!Same(k, a, b)' <=> (k # m /\ M!Same(k, a, b))
      BY <3>4, <3>5 DEF M!Same, PortTypeOK
    <3>8. RouteTable'
      <4>1. ASSUME NEW a \in M!Inputs, NEW b \in M!Outputs
            PROVE  <<a, b>> \in mRoutes' <=> \E k \in M!Slots : M!Same(k, a, b)'
        <5>1. CASE a = i /\ b = o
          <6>1. \A k \in M!Slots : M!Same(k, a, b) => k = m
            BY <3>5, <5>1 DEF RouteTable
          <6> QED
            BY <3>4, <3>7, <5>1, <6>1
        <5>2. CASE ~(a = i /\ b = o)
          <6>1. <<a, b>> \in mRoutes' <=> <<a, b>> \in mRoutes
            BY <3>4, <5>2
          <6>2. ~M!Same(m, a, b)
            BY <3>5, <5>2 DEF M!Same
          <6>3. <<a, b>> \in mRoutes <=> \E k \in M!Slots : M!Same(k, a, b)
            BY DEF RouteTable
          <6> QED
            BY <3>7, <6>1, <6>2, <6>3, Zenon
        <5> QED
          BY <5>1, <5>2
      <4>2. ASSUME NEW a \in M!Inputs, NEW b \in M!Outputs, NEW j \in M!Slots, NEW k \in M!Slots,
                   M!Same(j, a, b)', M!Same(k, a, b)'
            PROVE  j = k
        BY <3>7, <4>2 DEF RouteTable
      <4>3. ASSUME NEW k \in M!Slots, mConnections'[k].active
            PROVE  mConnections'[k].input \in M!Inputs /\ mConnections'[k].output \in M!Outputs
        <5>1. k # m
          BY <3>4, <3>5, <4>3 DEF PortTypeOK
        <5>2. mConnections'[k] = mConnections[k]
          BY <3>4, <5>1 DEF PortTypeOK
        <5> QED
          BY <4>3, <5>2 DEF RouteTable
      <4> QED
        BY <4>1, <4>2, <4>3 DEF RouteTable
    <3> QED
      BY <3>4, <3>6, <3>8 DEF PortTypeOK
  <2> QED
    BY <2>1, <2>2
<1>5. PortTypeOK'
  BY <1>1, <1>4 DEF PortTypeOK
<1>6. PortStable' /\ Forwarded'
  BY <1>1, <1>2 DEF PortStable, Forwarded
<1>7. PortQueues'
  BY <1>1 DEF PortQueues, Outgoing, Incoming
<1> QED
  BY <1>4, <1>5, <1>6, <1>7

LEMMA ForwardedKept ==
  ASSUME Forwarded, UNCHANGED <<mConnections, mCb, mRoutes, mBlock>>
  PROVE  Forwarded'
<1>1. Past' = Past /\ Due' = Due /\ Written' = Written
  BY DEF Past, Due, Written, Done, Matches, Copy
<1> QED
  BY <1>1 DEF Forwarded

\* start and stop.
LEMMA StartStopInv ==
  ASSUME M!PatchbayAssumption, Waits, PortInv,
         M!Activate \/ M!Stop \/ M!Deactivate \/ \E ok \in BOOLEAN : M!Started(ok)
  PROVE  PortInv'
<1> USE DEF PortInv
<1>1. /\ UNCHANGED <<mConnections, mInq, mOutq, mCb, mEvents, mSends, mRoutes, mBlock, mSent,
                     mPlayed, mHeard, mPolled>>
      /\ mControl.pc \notin {"sent", "polled"} /\ mControl'.pc \notin {"sent", "polled"}
      /\ PortTypeOK' /\ PortStable'
  <2>1. CASE M!Activate
    BY <2>1 DEF M!Activate, M!Goto, M!counts, M!history, M!Ready, PortTypeOK, PortStable
  <2>2. CASE M!Stop
    BY <2>2 DEF M!Stop, M!Goto, M!counts, M!history, M!Ready, PortTypeOK, PortStable
  <2>3. CASE M!Deactivate
    BY <2>3 DEF M!Deactivate, M!counts, M!history, M!Ready, PortTypeOK, PortStable
  <2>4. ASSUME NEW ok \in BOOLEAN, M!Started(ok)
        PROVE  /\ UNCHANGED <<mConnections, mInq, mOutq, mCb, mEvents, mSends, mRoutes, mBlock,
                              mSent, mPlayed, mHeard, mPolled>>
               /\ mControl.pc \notin {"sent", "polled"} /\ mControl'.pc \notin {"sent", "polled"}
               /\ PortTypeOK' /\ PortStable'
    <3>1. /\ mControl.pc = "connect"
          /\ UNCHANGED <<mConnections, mInq, mOutq, mCb, mEvents, mSends, mRoutes, mBlock, mSent,
                         mPlayed, mHeard, mPolled>>
          /\ \/ mStarted' = TRUE /\ mControl' = M!Ready
             \/ mStarted' = mStarted /\ mControl' = [mControl EXCEPT !.pc = "deactivate"]
      BY <2>4 DEF M!Started, M!Goto, M!counts, M!history
    <3>2. mStarted' \in BOOLEAN
      BY <3>1 DEF PortTypeOK
    <3>3. /\ mControl' \in [pc : {"ready", "connect", "deactivate", "sent", "polled"}, port : Nat]
          /\ mControl'.pc = "ready" => mControl'.port = 0
          /\ mControl'.pc \in {"ready", "deactivate"}
      <4>1. CASE mControl' = M!Ready
        BY <4>1 DEF M!Ready
      <4>2. CASE mControl' = [mControl EXCEPT !.pc = "deactivate"]
        BY <4>2 DEF PortTypeOK
      <4> QED
        BY <3>1, <4>1, <4>2
    <3>4. PortTypeOK'
      BY <3>1, <3>2, <3>3 DEF PortTypeOK
    <3>5. PortStable'
      BY <3>1 DEF M!Ready, PortTypeOK, PortStable
    <3> QED
      BY <3>1, <3>3, <3>4, <3>5
  <2> QED
    BY <2>1, <2>2, <2>3, <2>4
<1>2. RouteTable'
  BY <1>1 DEF RouteTable, M!Same
<1>4. Forwarded'
  BY <1>1, ForwardedKept
<1>3. PortQueues'
  BY <1>1 DEF PortQueues, Outgoing, Incoming, Bit
<1> QED
  BY <1>1, <1>2, <1>3, <1>4

LEMMA SendInv ==
  ASSUME M!PatchbayAssumption, PortInv, NEW o \in M!Outputs, M!Send(o)
  PROVE  PortInv'
<1> USE DEF PortInv
<1>1. /\ UNCHANGED <<mStarted, mConnections, mInq, mCb, mEvents, mRoutes, mBlock, mPlayed,
                     mHeard, mPolled>>
      /\ mControl.pc = "ready" /\ mControl' = [pc |-> "sent", port |-> o] /\ mStarted
      /\ mSends' = mSends + 1 /\ ~M!Full(mOutq[o])
      /\ mOutq' = [mOutq EXCEPT ![o] = M!Stored(@, mSends + 1)]
      /\ mSent' = [mSent EXCEPT ![o] = Append(@, mSends + 1)]
  BY DEF M!Send, M!Ready
<1>2. PICK q, in, out, r, m :
        /\ q = mOutq[o] /\ in = mSent[o] /\ out = mPlayed[o] /\ m = mSends + 1
        /\ r = Len(mPlayed[o]) - Bit(mCb.pc = "played" /\ mCb.out = o)
  OBVIOUS
<1>3. m \in Nat /\ in \in Seq(Nat) /\ Len(in) \in Nat /\ o \in Nat
  <2>1. o \in Nat
    BY DEF M!Outputs, M!PatchbayAssumption
  <2>2. in \in Seq(Nat) /\ m \in Nat
    BY <1>2 DEF PortTypeOK
  <2> QED
    BY <2>1, <2>2
<1>4. InStep(q, in, out, r, Len(in))
  <2>1. InStep(q, in, out, r, Len(in) - 0)
    BY <1>1, <1>2 DEF PortQueues, Outgoing, Bit
  <2> QED
    BY <1>3, <2>1
<1>5. InStep(M!Stored(q, m), Append(in, m), out, r, Len(in))
  BY <1>1, <1>2, <1>3, <1>4, StoreInStep
<1>6. mOutq'[o] = M!Stored(q, m) /\ mSent'[o] = Append(in, m)
  BY <1>1, <1>2 DEF PortTypeOK
<1>7. PortTypeOK'
  <2>1. M!Stored(q, m) \in Queues /\ Append(in, m) \in Seq(Nat)
    BY <1>5 DEF InStep
  <2>2. mOutq' \in [M!Outputs -> Queues] /\ mSent' \in [M!Outputs -> Seq(Nat)]
    BY <1>1, <1>2, <2>1 DEF PortTypeOK
  <2>3. mSends' \in Nat /\ mControl'.pc = "sent"
        /\ mControl' \in [pc : {"ready", "connect", "deactivate", "sent", "polled"}, port : Nat]
    BY <1>1, <1>2, <1>3
  <2> QED
    BY <1>1, <2>2, <2>3 DEF PortTypeOK
<1>8. PortStable' /\ RouteTable'
  BY <1>1 DEF PortStable, RouteTable, M!Same
<1>9. Forwarded'
  BY <1>1, ForwardedKept
<1>10. Outgoing(o)'
  <2>1. Len(Append(in, m)) - 1 = Len(in)
    BY <1>3
  <2>2. /\ Bit(mControl'.pc = "sent" /\ mControl'.port = o) = 1
        /\ Len(mPlayed'[o]) - Bit(mCb'.pc = "played" /\ mCb'.out = o) = r
    BY <1>1, <1>2 DEF Bit
  <2> QED
    BY <1>1, <1>2, <1>5, <1>6, <2>1, <2>2 DEF Outgoing
<1>11. ASSUME NEW p \in M!Outputs, p # o PROVE Outgoing(p)'
  <2>1. mOutq'[p] = mOutq[p] /\ mSent'[p] = mSent[p]
    BY <1>1, <1>11 DEF PortTypeOK
  <2>2. Outgoing(p)
    BY DEF PortQueues
  <2> QED
    BY <1>1, <1>11, <2>1, <2>2 DEF Outgoing, Bit
<1>12. ASSUME NEW i \in M!Inputs PROVE Incoming(i)'
  <2>1. Incoming(i)
    BY DEF PortQueues
  <2> QED
    BY <1>1, <2>1 DEF Incoming, Bit
<1> QED
  BY <1>7, <1>8, <1>9, <1>10, <1>11, <1>12 DEF PortQueues

LEMMA SendEndInv ==
  ASSUME M!PatchbayAssumption, PortInv, M!SendEnd
  PROVE  PortInv'
<1> USE DEF PortInv
<1>1. /\ UNCHANGED <<mStarted, mConnections, mInq, mCb, mEvents, mSends, mRoutes, mBlock, mSent,
                     mPlayed, mHeard, mPolled>>
      /\ mControl.pc = "sent" /\ mControl' = [pc |-> "ready", port |-> 0]
      /\ mOutq' = [mOutq EXCEPT ![mControl.port] = M!Pushed(@)]
  BY DEF M!SendEnd, M!Ready, M!counts, M!history
<1>2. ASSUME NEW p \in M!Outputs PROVE Outgoing(p)'
  <2>1. Outgoing(p)
    BY DEF PortQueues
  <2>2. CASE p = mControl.port
    <3>1. PICK q, in, out, r :
            /\ q = mOutq[p] /\ in = mSent[p] /\ out = mPlayed[p]
            /\ r = Len(mPlayed[p]) - Bit(mCb.pc = "played" /\ mCb.out = p)
      OBVIOUS
    <3>2. InStep(q, in, out, r, Len(in) - 1)
      BY <1>1, <2>1, <2>2, <3>1 DEF Outgoing, Bit
    <3>3. InStep(M!Pushed(q), in, out, r, Len(in)) /\ Len(in) - 0 = Len(in)
      <4>1. PICK w : w = Len(in) - 1
        OBVIOUS
      <4>2. Len(in) \in Nat
        BY <3>1 DEF PortTypeOK
      <4> QED
        BY <3>2, <4>1, <4>2, PushInStep
    <3>4. mOutq'[p] = M!Pushed(q)
      BY <1>1, <2>2, <3>1 DEF PortTypeOK
    <3>5. /\ Bit(mControl'.pc = "sent" /\ mControl'.port = p) = 0
          /\ Len(mPlayed'[p]) - Bit(mCb'.pc = "played" /\ mCb'.out = p) = r
      BY <1>1, <3>1 DEF Bit
    <3> QED
      BY <1>1, <3>1, <3>3, <3>4, <3>5 DEF Outgoing
  <2>3. CASE p # mControl.port
    <3>1. mOutq'[p] = mOutq[p]
      BY <1>1, <2>3 DEF PortTypeOK
    <3> QED
      BY <1>1, <2>1, <2>3, <3>1 DEF Outgoing, Bit
  <2> QED
    BY <2>2, <2>3
<1>3. PortTypeOK'
  <2>1. \A p \in M!Outputs : mOutq'[p] \in Queues
    BY <1>2 DEF Outgoing, InStep
  <2>2. mOutq' \in [M!Outputs -> Queues]
    BY <1>1, <2>1 DEF PortTypeOK
  <2> QED
    BY <1>1, <2>2 DEF PortTypeOK
<1>4. PortStable' /\ RouteTable'
  BY <1>1 DEF PortStable, RouteTable, M!Same
<1>5. Forwarded'
  BY <1>1, ForwardedKept
<1>6. ASSUME NEW i \in M!Inputs PROVE Incoming(i)'
  <2>1. Incoming(i)
    BY DEF PortQueues
  <2> QED
    BY <1>1, <2>1 DEF Incoming, Bit
<1> QED
  BY <1>2, <1>3, <1>4, <1>5, <1>6 DEF PortQueues

LEMMA PollInv ==
  ASSUME M!PatchbayAssumption, PortInv, NEW i \in M!Inputs, M!Poll(i)
  PROVE  PortInv'
<1> USE DEF PortInv
<1>1. /\ UNCHANGED <<mStarted, mConnections, mInq, mOutq, mCb, mEvents, mSends, mRoutes, mBlock,
                     mSent, mPlayed, mHeard>>
      /\ mControl.pc = "ready" /\ mControl' = [pc |-> "polled", port |-> i]
      /\ ~M!IsEmpty(mInq[i])
      /\ mPolled' = [mPolled EXCEPT ![i] = Append(@, M!Front(mInq[i]))]
  BY DEF M!Poll, M!Ready, M!counts
<1>2. PICK q, in, out, w :
        /\ q = mInq[i] /\ in = mHeard[i] /\ out = mPolled[i]
        /\ w = Len(mHeard[i]) - Bit(mCb.pc = "heard" /\ Head(mCb.events).input = i)
  OBVIOUS
<1>3. out \in Seq(Nat) /\ Len(out) \in Nat /\ i \in Nat
  <2>1. i \in Nat
    BY DEF M!Inputs, M!PatchbayAssumption
  <2>2. out \in Seq(Nat)
    BY <1>2 DEF PortTypeOK
  <2> QED
    BY <2>1, <2>2
<1>4. InStep(q, in, out, Len(out), w)
  <2>1. InStep(q, in, out, Len(out) - 0, w)
    BY <1>1, <1>2 DEF PortQueues, Incoming, Bit
  <2> QED
    BY <1>3, <2>1
<1>5. PICK n : n = Append(out, M!Front(q))
  OBVIOUS
<1>6. InStep(q, in, n, Len(out), w)
  BY <1>1, <1>2, <1>4, <1>5, TakeInStep
<1>7. mPolled'[i] = n /\ n \in Seq(Nat) /\ Len(n) - 1 = Len(out)
  <2>1. n \in Seq(Nat)
    BY <1>6 DEF InStep
  <2>2. Len(n) = Len(out) + 1
    BY <1>3, <1>5
  <2> QED
    BY <1>1, <1>2, <1>3, <1>5, <2>1, <2>2 DEF PortTypeOK
<1>8. PortTypeOK'
  <2>1. mPolled' \in [M!Inputs -> Seq(Nat)]
    BY <1>1, <1>2, <1>5, <1>7 DEF PortTypeOK
  <2> QED
    BY <1>1, <1>3, <2>1 DEF PortTypeOK
<1>9. PortStable' /\ RouteTable'
  BY <1>1 DEF PortStable, RouteTable, M!Same
<1>10. Forwarded'
  BY <1>1, ForwardedKept
<1>11. Incoming(i)'
  <2>1. /\ Bit(mControl'.pc = "polled" /\ mControl'.port = i) = 1
        /\ Len(mHeard'[i]) - Bit(mCb'.pc = "heard" /\ Head(mCb'.events).input = i) = w
    BY <1>1, <1>2 DEF Bit
  <2> QED
    BY <1>1, <1>2, <1>6, <1>7, <2>1 DEF Incoming
<1>12. ASSUME NEW j \in M!Inputs, j # i PROVE Incoming(j)'
  <2>1. mPolled'[j] = mPolled[j]
    BY <1>1, <1>12 DEF PortTypeOK
  <2>2. Incoming(j)
    BY DEF PortQueues
  <2> QED
    BY <1>1, <1>12, <2>1, <2>2 DEF Incoming, Bit
<1>13. ASSUME NEW o \in M!Outputs PROVE Outgoing(o)'
  <2>1. Outgoing(o)
    BY DEF PortQueues
  <2> QED
    BY <1>1, <2>1 DEF Outgoing, Bit
<1> QED
  BY <1>8, <1>9, <1>10, <1>11, <1>12, <1>13 DEF PortQueues

LEMMA PollEndInv ==
  ASSUME M!PatchbayAssumption, PortInv, M!PollEnd
  PROVE  PortInv'
<1> USE DEF PortInv
<1>1. /\ UNCHANGED <<mStarted, mConnections, mOutq, mCb, mEvents, mSends, mRoutes, mBlock, mSent,
                     mPlayed, mHeard, mPolled>>
      /\ mControl.pc = "polled" /\ mControl' = [pc |-> "ready", port |-> 0]
      /\ mInq' = [mInq EXCEPT ![mControl.port] = M!Popped(@)]
  BY DEF M!PollEnd, M!Ready, M!counts, M!history
<1>2. ASSUME NEW p \in M!Inputs PROVE Incoming(p)'
  <2>1. Incoming(p)
    BY DEF PortQueues
  <2>2. CASE p = mControl.port
    <3>1. PICK q, in, out, w :
            /\ q = mInq[p] /\ in = mHeard[p] /\ out = mPolled[p]
            /\ w = Len(mHeard[p]) - Bit(mCb.pc = "heard" /\ Head(mCb.events).input = p)
      OBVIOUS
    <3>2. InStep(q, in, out, Len(out) - 1, w)
      BY <1>1, <2>1, <2>2, <3>1 DEF Incoming, Bit
    <3>3. InStep(M!Popped(q), in, out, Len(out), w) /\ Len(out) - 0 = Len(out)
      <4>1. PICK r : r = Len(out) - 1
        OBVIOUS
      <4>2. Len(out) \in Nat
        BY <3>1 DEF PortTypeOK
      <4> QED
        BY <3>2, <4>1, <4>2, PopInStep
    <3>4. mInq'[p] = M!Popped(q)
      BY <1>1, <2>2, <3>1 DEF PortTypeOK
    <3>5. /\ Bit(mControl'.pc = "polled" /\ mControl'.port = p) = 0
          /\ Len(mHeard'[p]) - Bit(mCb'.pc = "heard" /\ Head(mCb'.events).input = p) = w
      BY <1>1, <3>1 DEF Bit
    <3> QED
      BY <1>1, <3>1, <3>3, <3>4, <3>5 DEF Incoming
  <2>3. CASE p # mControl.port
    <3>1. mInq'[p] = mInq[p]
      BY <1>1, <2>3 DEF PortTypeOK
    <3> QED
      BY <1>1, <2>1, <2>3, <3>1 DEF Incoming, Bit
  <2> QED
    BY <2>2, <2>3
<1>3. PortTypeOK'
  <2>1. \A p \in M!Inputs : mInq'[p] \in Queues
    BY <1>2 DEF Incoming, InStep
  <2>2. mInq' \in [M!Inputs -> Queues]
    BY <1>1, <2>1 DEF PortTypeOK
  <2> QED
    BY <1>1, <2>2 DEF PortTypeOK
<1>4. PortStable' /\ RouteTable'
  BY <1>1 DEF PortStable, RouteTable, M!Same
<1>5. Forwarded'
  BY <1>1, ForwardedKept
<1>6. ASSUME NEW o \in M!Outputs PROVE Outgoing(o)'
  <2>1. Outgoing(o)
    BY DEF PortQueues
  <2> QED
    BY <1>1, <2>1 DEF Outgoing, Bit
<1> QED
  BY <1>2, <1>3, <1>4, <1>5, <1>6 DEF PortQueues

\* The callback begins with a block of events, none of them dealt with.
LEMMA BeginInv ==
  ASSUME M!PatchbayAssumption, PortInv, NEW from \in M!Blocks, M!Begin(from)
  PROVE  PortInv'
<1> USE DEF PortInv
<1>1. PICK new : new = [k \in DOMAIN from |-> [id |-> mEvents + k, input |-> from[k]]]
  OBVIOUS
<1>2. /\ UNCHANGED <<mStarted, mConnections, mInq, mOutq, mControl, mSends, mRoutes, mSent,
                     mPlayed, mHeard, mPolled>>
      /\ mStarted /\ mCb.pc = "idle" /\ mEvents' = mEvents + Len(from)
      /\ mCb' = [pc |-> "output", out |-> 1, events |-> new, slot |-> 0]
      /\ mBlock' = [events |-> new, routes |-> mRoutes, wrote |-> << >>]
  BY <1>1 DEF M!Begin
<1>3. PICK n \in Nat : from \in [1 .. n -> M!Inputs]
  BY DEF M!Blocks
<1>4. Len(from) = n /\ DOMAIN from = 1 .. n
  BY <1>3
<1>5. /\ new \in [1 .. n -> Event] /\ mEvents \in Nat
      /\ \A k \in 1 .. n : new[k].id = mEvents + k
  BY <1>1, <1>3, <1>4 DEF PortTypeOK, Event
<1>6. new \in Seq(Event) /\ Len(new) = n
  BY <1>5
<1>7. mEvents' \in Nat
  BY <1>2, <1>4, <1>5
<1>8. PortTypeOK'
  <2>1. mCb' \in [pc : {"idle", "output", "played", "input", "heard", "route", "write"},
                  out : Nat, events : Seq(Event), slot : Nat]
    BY <1>2, <1>6
  <2>2. mRoutes \in SUBSET (M!Inputs \X M!Outputs) /\ << >> \in Seq(Nat \X Nat)
    BY DEF PortTypeOK
  <2>3. mBlock' \in [events : Seq(Event), routes : SUBSET (M!Inputs \X M!Outputs),
                     wrote : Seq(Nat \X Nat)]
    BY <1>2, <1>6, <2>2
  <2> QED
    BY <1>2, <1>7, <2>1, <2>3 DEF PortTypeOK
<1>9. PortStable' /\ RouteTable'
  BY <1>2 DEF PortStable, RouteTable, M!Same
<1>10. Past' = 0
  BY <1>2, <1>6 DEF Past
<1>11. Due' = {}
  <2> SUFFICES ASSUME NEW x \in Due' PROVE FALSE
    OBVIOUS
  <2>1. PICK k \in 1 .. Len(mBlock'.events), s \in M!Slots : k <= Past' \/ (k = Past' + 1 /\ s < mCb'.slot)
    BY DEF Due, Done
  <2>2. s \in Nat /\ s > 0
    BY DEF M!Slots, M!PatchbayAssumption
  <2>3. mCb'.slot = 0 /\ k \in 1 .. n
    BY <1>2, <1>6
  <2> QED
    BY <1>10, <2>1, <2>2, <2>3
<1>12. Written' = {}
  BY <1>2 DEF Written
<1>13. Forwarded'
  <2>1. \A j \in 1 .. Len(mCb'.events) : mCb'.events[j] = mBlock'.events[Past' + j]
    BY <1>2, <1>6, <1>10
  <2>2. \A j, k \in 1 .. Len(mBlock'.events) : mBlock'.events[j].id = mBlock'.events[k].id => j = k
    BY <1>2, <1>5, <1>6
  <2>3. \A j, k \in 1 .. Len(mBlock'.wrote) : mBlock'.wrote[j] = mBlock'.wrote[k] => j = k
    BY <1>2
  <2>4. mBlock'.routes = mRoutes' /\ Len(mCb'.events) <= Len(mBlock'.events)
    BY <1>2, <1>6
  <2> QED
    BY <1>11, <1>12, <2>1, <2>2, <2>3, <2>4 DEF Forwarded
<1>14. PortQueues'
  BY <1>2 DEF PortQueues, Outgoing, Incoming, Bit
<1> QED
  BY <1>8, <1>9, <1>13, <1>14

\* A step of the callback that leaves its block and its slot alone.
LEMMA ForwardedSame ==
  ASSUME Forwarded, mCb.pc # "idle", UNCHANGED <<mConnections, mRoutes, mBlock>>,
         mCb'.events = mCb.events, PortTypeOK,
         mCb'.slot = mCb.slot \/ (mCb.slot = 0 /\ mCb'.slot = 1), M!PatchbayAssumption
  PROVE  Forwarded'
<1>1. Past' = Past /\ Written' = Written
  BY DEF Past, Written
<1>2. Due' = Due
  <2>1. ASSUME NEW k, NEW s \in M!Slots PROVE Done(k, s)' <=> Done(k, s)
    <3>1. s \in Nat /\ s > 0
      BY DEF M!Slots, M!PatchbayAssumption
    <3>2. s < mCb'.slot <=> s < mCb.slot
      BY <3>1
    <3> QED
      BY <1>1, <3>2 DEF Done, Matches
  <2>2. \A k, s : Copy(k, s)' = Copy(k, s)
    BY DEF Copy
  <2>3. Len(mBlock'.events) = Len(mBlock.events)
    OBVIOUS
  <2> QED
    BY <2>1, <2>2, <2>3 DEF Due
<1> QED
  BY <1>1, <1>2 DEF Forwarded

LEMMA PlayNextInv ==
  ASSUME M!PatchbayAssumption, PortInv, M!PlayNext
  PROVE  PortInv'
<1> USE DEF PortInv
<1>1. /\ UNCHANGED <<mStarted, mConnections, mInq, mOutq, mControl, mEvents, mSends, mRoutes,
                     mBlock, mSent, mHeard, mPolled>>
      /\ mCb.pc = "output"
  BY DEF M!PlayNext, M!counts
<1>2. /\ mCb \in [pc : {"idle", "output", "played", "input", "heard", "route", "write"},
                  out : Nat, events : Seq(Event), slot : Nat]
      /\ NOutputs \in Nat
  BY DEF PortTypeOK, M!PatchbayAssumption
<1>3. \/ /\ mCb' = [mCb EXCEPT !.pc = "input"] \/ mCb' = [mCb EXCEPT !.out = @ + 1]
         /\ mPlayed' = mPlayed
      \/ /\ mCb' = [mCb EXCEPT !.pc = "played"] /\ mCb.out <= NOutputs /\ ~M!IsEmpty(mOutq[mCb.out])
         /\ mPlayed' = [mPlayed EXCEPT ![mCb.out] = Append(@, M!Front(mOutq[mCb.out]))]
  BY <1>1, <1>2 DEF M!PlayNext
<1>4. /\ mCb' \in [pc : {"idle", "output", "played", "input", "heard", "route", "write"},
                   out : Nat, events : Seq(Event), slot : Nat]
      /\ mCb'.events = mCb.events /\ mCb'.slot = mCb.slot
      /\ mCb'.pc \in {"output", "input", "played"}
  BY <1>1, <1>2, <1>3
<1>5. Forwarded' /\ RouteTable'
  <2>1. Forwarded'
    BY <1>1, <1>4, ForwardedSame
  <2> QED
    BY <1>1, <2>1 DEF RouteTable, M!Same
<1>6. ASSUME NEW i \in M!Inputs PROVE Incoming(i)'
  <2>1. Incoming(i)
    BY DEF PortQueues
  <2> QED
    BY <1>1, <1>4, <2>1 DEF Incoming, Bit
<1>7. CASE mPlayed' = mPlayed /\ mCb'.pc # "played"
  <2>1. PortTypeOK'
    BY <1>1, <1>4, <1>7 DEF PortTypeOK
  <2>2. PortStable'
    <3>1. mCb'.pc = "output" => mCb'.out > 0
      BY <1>1, <1>2, <1>3 DEF PortStable
    <3> QED
      BY <1>1, <1>4, <1>7, <3>1 DEF PortStable
  <2>3. ASSUME NEW o \in M!Outputs PROVE Outgoing(o)'
    <3>1. Outgoing(o)
      BY DEF PortQueues
    <3> QED
      BY <1>1, <1>7, <3>1 DEF Outgoing, Bit
  <2> QED
    BY <1>5, <1>6, <2>1, <2>2, <2>3 DEF PortQueues
<1>8. CASE /\ mCb' = [mCb EXCEPT !.pc = "played"] /\ mCb.out <= NOutputs
           /\ ~M!IsEmpty(mOutq[mCb.out])
           /\ mPlayed' = [mPlayed EXCEPT ![mCb.out] = Append(@, M!Front(mOutq[mCb.out]))]
  <2>0. mCb'.pc = "played" /\ mCb'.out = mCb.out
    BY <1>2, <1>8
  <2>1. PICK o : o = mCb.out
    OBVIOUS
  <2>8. CASE o \in M!Outputs
    <3>1. PICK q, in, out, w :
            /\ q = mOutq[o] /\ in = mSent[o] /\ out = mPlayed[o]
            /\ w = Len(mSent[o]) - Bit(mControl.pc = "sent" /\ mControl.port = o)
      OBVIOUS
    <3>2. out \in Seq(Nat) /\ Len(out) \in Nat
      BY <2>8, <3>1 DEF PortTypeOK
    <3>3. InStep(q, in, out, Len(out), w)
      <4>1. InStep(q, in, out, Len(out) - 0, w)
        BY <1>1, <2>8, <3>1 DEF PortQueues, Outgoing, Bit
      <4> QED
        BY <3>2, <4>1
    <3>4. PICK n : n = Append(out, M!Front(q))
      OBVIOUS
    <3>5. InStep(q, in, n, Len(out), w)
      BY <1>8, <2>1, <3>1, <3>3, <3>4, TakeInStep
    <3>6. mPlayed'[o] = n /\ n \in Seq(Nat) /\ Len(n) - 1 = Len(out)
      <4>1. n \in Seq(Nat)
        BY <3>5 DEF InStep
      <4>2. Len(n) = Len(out) + 1
        BY <3>2, <3>4
      <4> QED
        BY <1>8, <2>1, <2>8, <3>1, <3>2, <3>4, <4>1, <4>2 DEF PortTypeOK
    <3>7. PortTypeOK'
      <4>1. mPlayed' \in [M!Outputs -> Seq(Nat)]
        BY <1>8, <2>1, <3>1, <3>4, <3>6 DEF PortTypeOK
      <4> QED
        BY <1>1, <1>4, <4>1 DEF PortTypeOK
    <3>8. PortStable'
      BY <1>1, <1>4, <2>0, <2>1, <2>8 DEF PortStable
    <3>9. Outgoing(o)'
      <4>1. /\ Bit(mCb'.pc = "played" /\ mCb'.out = o) = 1
            /\ Len(mSent'[o]) - Bit(mControl'.pc = "sent" /\ mControl'.port = o) = w
        BY <1>1, <2>0, <2>1, <3>1 DEF Bit
      <4> QED
        BY <1>1, <3>1, <3>5, <3>6, <4>1 DEF Outgoing
    <3>10. ASSUME NEW p \in M!Outputs, p # o PROVE Outgoing(p)'
      <4>1. mPlayed'[p] = mPlayed[p]
        BY <1>8, <2>1, <3>10 DEF PortTypeOK
      <4>2. Outgoing(p)
        BY DEF PortQueues
      <4> QED
        BY <1>1, <2>0, <2>1, <3>10, <4>1, <4>2 DEF Outgoing, Bit
    <3> QED
      BY <1>5, <1>6, <3>7, <3>8, <3>9, <3>10 DEF PortQueues
  <2>9. o \in M!Outputs
    <3>1. mCb.out \in Nat /\ mCb.out > 0 /\ mCb.out <= NOutputs
      BY <1>1, <1>2, <1>8 DEF PortStable
    <3> QED
      BY <1>2, <2>1, <3>1 DEF M!Outputs
  <2> QED
    BY <2>8, <2>9
<1>9. mCb' = [mCb EXCEPT !.pc = "input"] \/ mCb' = [mCb EXCEPT !.out = @ + 1] => mCb'.pc # "played"
  BY <1>1, <1>2
<1> QED
  BY <1>3, <1>7, <1>8, <1>9

\* ... and what it played is given up.
LEMMA PlayEndInv ==
  ASSUME M!PatchbayAssumption, PortInv, M!PlayEnd
  PROVE  PortInv'
<1> USE DEF PortInv
<1>1. /\ UNCHANGED <<mStarted, mConnections, mInq, mControl, mEvents, mSends, mRoutes, mBlock,
                     mSent, mPlayed, mHeard, mPolled>>
      /\ mCb.pc = "played" /\ mCb' = [mCb EXCEPT !.pc = "output"]
      /\ mOutq' = [mOutq EXCEPT ![mCb.out] = M!Popped(@)]
  BY DEF M!PlayEnd, M!counts, M!history
<1>2. /\ mCb \in [pc : {"idle", "output", "played", "input", "heard", "route", "write"},
                  out : Nat, events : Seq(Event), slot : Nat]
      /\ mOutq \in [M!Outputs -> Queues]
  BY DEF PortTypeOK
<1>3. /\ mCb' \in [pc : {"idle", "output", "played", "input", "heard", "route", "write"},
                   out : Nat, events : Seq(Event), slot : Nat]
      /\ mCb'.pc = "output" /\ mCb'.out = mCb.out /\ mCb'.events = mCb.events
      /\ mCb'.slot = mCb.slot
  BY <1>1, <1>2
<1>4. Forwarded'
  BY <1>1, <1>3, ForwardedSame
<1>5. RouteTable'
  BY <1>1 DEF RouteTable, M!Same
<1>6. ASSUME NEW i \in M!Inputs PROVE Incoming(i)'
  <2>1. Incoming(i)
    BY DEF PortQueues
  <2> QED
    BY <1>1, <1>3, <2>1 DEF Incoming, Bit
<1>7. PICK o \in M!Outputs : o = mCb.out
  BY <1>1 DEF PortStable
<1>8. PICK q, in, out, r, w :
        /\ q = mOutq[o] /\ in = mSent[o] /\ out = mPlayed[o] /\ r = Len(out) - 1
        /\ w = Len(mSent[o]) - Bit(mControl.pc = "sent" /\ mControl.port = o)
  OBVIOUS
<1>9. InStep(q, in, out, r, w)
  BY <1>1, <1>7, <1>8 DEF PortQueues, Outgoing, Bit
<1>10. PICK n : n = M!Popped(q)
  OBVIOUS
<1>11. InStep(n, in, out, Len(out), w)
  BY <1>8, <1>9, <1>10, PopInStep
<1>12. mOutq' = [mOutq EXCEPT ![o] = n] /\ n \in Queues
  BY <1>1, <1>7, <1>8, <1>10, <1>11 DEF InStep
<1>13. PortTypeOK'
  <2>1. mOutq' \in [M!Outputs -> Queues]
    BY <1>2, <1>12
  <2> QED
    BY <1>1, <1>3, <2>1 DEF PortTypeOK
<1>14. PortStable'
  <2>1. mCb.out > 0
    BY <1>1 DEF PortStable, M!Outputs, M!PatchbayAssumption
  <2> QED
    BY <1>1, <1>3, <2>1 DEF PortStable
<1>15. Outgoing(o)'
  <2>1. /\ Bit(mCb'.pc = "played" /\ mCb'.out = o) = 0
        /\ Len(mSent'[o]) - Bit(mControl'.pc = "sent" /\ mControl'.port = o) = w
    BY <1>1, <1>3, <1>8 DEF Bit
  <2>2. Len(out) \in Nat
    BY <1>9 DEF InStep
  <2>3. Len(mPlayed'[o]) - Bit(mCb'.pc = "played" /\ mCb'.out = o) = Len(out)
    BY <1>1, <1>8, <2>1, <2>2
  <2>4. mOutq'[o] = n /\ mSent'[o] = in /\ mPlayed'[o] = out
    BY <1>1, <1>2, <1>8, <1>12
  <2> QED
    BY <1>11, <2>1, <2>3, <2>4 DEF Outgoing
<1>16. ASSUME NEW p \in M!Outputs, p # o PROVE Outgoing(p)'
  <2>1. mOutq'[p] = mOutq[p]
    BY <1>2, <1>12, <1>16
  <2>2. Outgoing(p)
    BY DEF PortQueues
  <2> QED
    BY <1>1, <1>3, <1>7, <1>16, <2>1, <2>2 DEF Outgoing, Bit
<1> QED
  BY <1>4, <1>5, <1>6, <1>13, <1>14, <1>15, <1>16 DEF PortQueues

\* The next event is of an input: its queue has what was accepted.
LEMMA HearInv ==
  ASSUME M!PatchbayAssumption, PortInv, M!Hear
  PROVE  PortInv'
<1> USE DEF PortInv
<1>1. /\ UNCHANGED <<mStarted, mConnections, mOutq, mControl, mEvents, mSends, mRoutes, mBlock,
                     mSent, mPlayed, mPolled>>
      /\ mCb.pc = "input" /\ mCb.events # << >>
  BY DEF M!Hear, M!counts
<1>2. /\ mCb \in [pc : {"idle", "output", "played", "input", "heard", "route", "write"},
                  out : Nat, events : Seq(Event), slot : Nat]
      /\ mInq \in [M!Inputs -> Queues] /\ mHeard \in [M!Inputs -> Seq(Nat)]
  BY DEF PortTypeOK
<1>3. PICK e : e = Head(mCb.events)
  OBVIOUS
<1>4. e.input \in M!Inputs /\ e.id \in Nat
  <2>1. e \in Event
    <3>1. PICK z \in Seq(Event) : z = mCb.events
      BY <1>2
    <3>2. Head(z) \in Event
      BY <1>1, <3>1
    <3> QED
      BY <1>3, <3>1, <3>2
  <2> QED
    BY <2>1 DEF Event
<1>5. \/ /\ mCb' = [mCb EXCEPT !.pc = "route", !.slot = 1] /\ mInq' = mInq /\ mHeard' = mHeard
      \/ /\ mCb' = [mCb EXCEPT !.pc = "heard"] /\ ~M!Full(mInq[e.input])
         /\ mInq' = [mInq EXCEPT ![e.input] = M!Stored(@, e.id)]
         /\ mHeard' = [mHeard EXCEPT ![e.input] = Append(@, e.id)]
  BY <1>1, <1>3 DEF M!Hear
<1>6. mCb.slot = 0
  BY <1>1 DEF PortStable
<1>7. /\ mCb' \in [pc : {"idle", "output", "played", "input", "heard", "route", "write"},
                   out : Nat, events : Seq(Event), slot : Nat]
      /\ mCb'.events = mCb.events /\ mCb'.out = mCb.out
      /\ (mCb'.pc = "route" /\ mCb'.slot = 1) \/ (mCb'.pc = "heard" /\ mCb'.slot = mCb.slot)
  <2>1. CASE mCb' = [mCb EXCEPT !.pc = "route", !.slot = 1]
    BY <1>2, <2>1
  <2>2. CASE mCb' = [mCb EXCEPT !.pc = "heard"]
    BY <1>2, <2>2
  <2> QED
    BY <1>5, <2>1, <2>2
<1>8. Forwarded'
  BY <1>1, <1>6, <1>7, ForwardedSame
<1>9. RouteTable'
  BY <1>1 DEF RouteTable, M!Same
<1>10. PortStable'
  <2>1. 1 \in M!Slots
    BY DEF M!Slots, M!PatchbayAssumption
  <2> QED
    BY <1>1, <1>6, <1>7, <2>1 DEF PortStable
<1>11. ASSUME NEW o \in M!Outputs PROVE Outgoing(o)'
  <2>1. Outgoing(o)
    BY DEF PortQueues
  <2> QED
    BY <1>1, <1>7, <2>1 DEF Outgoing, Bit
<1>12. CASE /\ mCb' = [mCb EXCEPT !.pc = "route", !.slot = 1] /\ mInq' = mInq /\ mHeard' = mHeard
  <2>1. PortTypeOK'
    BY <1>1, <1>7, <1>12 DEF PortTypeOK
  <2>2. mCb'.pc = "route"
    BY <1>2, <1>12
  <2>3. ASSUME NEW i \in M!Inputs PROVE Incoming(i)'
    <3>1. Incoming(i)
      BY DEF PortQueues
    <3> QED
      BY <1>1, <1>12, <2>2, <3>1 DEF Incoming, Bit
  <2> QED
    BY <1>8, <1>9, <1>10, <1>11, <2>1, <2>3 DEF PortQueues
<1>13. CASE /\ mCb' = [mCb EXCEPT !.pc = "heard"] /\ ~M!Full(mInq[e.input])
            /\ mInq' = [mInq EXCEPT ![e.input] = M!Stored(@, e.id)]
            /\ mHeard' = [mHeard EXCEPT ![e.input] = Append(@, e.id)]
  <2>0. mCb'.pc = "heard"
    BY <1>2, <1>13
  <2>1. PICK i \in M!Inputs : i = e.input
    BY <1>4
  <2>2. PICK q, in, out, r, m :
          /\ q = mInq[i] /\ in = mHeard[i] /\ out = mPolled[i] /\ m = e.id
          /\ r = Len(mPolled[i]) - Bit(mControl.pc = "polled" /\ mControl.port = i)
    OBVIOUS
  <2>3. in \in Seq(Nat) /\ Len(in) \in Nat
    BY <1>2, <2>2
  <2>4. InStep(q, in, out, r, Len(in))
    <3>1. InStep(q, in, out, r, Len(in) - 0)
      BY <1>1, <2>2 DEF PortQueues, Incoming, Bit
    <3> QED
      BY <2>3, <3>1
  <2>5. PICK n, s : n = Append(in, m) /\ s = M!Stored(q, m)
    OBVIOUS
  <2>6. InStep(s, n, out, r, Len(in))
    BY <1>4, <1>13, <2>1, <2>2, <2>4, <2>5, StoreInStep
  <2>7. n \in Seq(Nat) /\ s \in Queues
    BY <2>6 DEF InStep
  <2>8. mInq' = [mInq EXCEPT ![i] = s] /\ mHeard' = [mHeard EXCEPT ![i] = n]
    BY <1>13, <2>1, <2>2, <2>5
  <2>9. PortTypeOK'
    <3>1. mInq' \in [M!Inputs -> Queues] /\ mHeard' \in [M!Inputs -> Seq(Nat)]
      BY <1>2, <2>7, <2>8
    <3> QED
      BY <1>1, <1>7, <3>1 DEF PortTypeOK
  <2>10. Incoming(i)'
    <3>1. mInq'[i] = s /\ mHeard'[i] = n /\ mPolled'[i] = out
      BY <1>1, <1>2, <2>2, <2>8
    <3>2. Len(n) = Len(in) + 1
      BY <2>3, <2>5
    <3>3. Bit(mCb'.pc = "heard" /\ Head(mCb'.events).input = i) = 1
      BY <1>3, <1>7, <2>0, <2>1 DEF Bit
    <3>4. Len(mHeard'[i]) - Bit(mCb'.pc = "heard" /\ Head(mCb'.events).input = i) = Len(in)
      BY <2>3, <3>1, <3>2, <3>3
    <3>5. Len(mPolled'[i]) - Bit(mControl'.pc = "polled" /\ mControl'.port = i) = r
      BY <1>1, <2>2 DEF Bit
    <3> QED
      BY <2>6, <3>1, <3>4, <3>5 DEF Incoming
  <2>11. ASSUME NEW j \in M!Inputs, j # i PROVE Incoming(j)'
    <3>1. mInq'[j] = mInq[j] /\ mHeard'[j] = mHeard[j]
      BY <1>2, <2>8, <2>11
    <3>2. Incoming(j)
      BY DEF PortQueues
    <3>3. Bit(mCb'.pc = "heard" /\ Head(mCb'.events).input = j) =
          Bit(mCb.pc = "heard" /\ Head(mCb.events).input = j)
      BY <1>1, <1>3, <1>7, <2>1, <2>11 DEF Bit
    <3> QED
      BY <1>1, <3>1, <3>2, <3>3 DEF Incoming
  <2> QED
    BY <1>8, <1>9, <1>10, <1>11, <2>9, <2>10, <2>11 DEF PortQueues
<1> QED
  BY <1>5, <1>12, <1>13

LEMMA HearEndInv ==
  ASSUME M!PatchbayAssumption, PortInv, M!HearEnd
  PROVE  PortInv'
<1> USE DEF PortInv
<1>1. /\ UNCHANGED <<mStarted, mConnections, mOutq, mControl, mEvents, mSends, mRoutes, mBlock,
                     mSent, mPlayed, mHeard, mPolled>>
      /\ mCb.pc = "heard" /\ mCb' = [mCb EXCEPT !.pc = "route", !.slot = 1]
      /\ mInq' = [mInq EXCEPT ![Head(mCb.events).input] = M!Pushed(@)]
      /\ mCb.events # << >> /\ mCb.slot = 0
  BY DEF M!HearEnd, M!counts, M!history, PortStable
<1>2. /\ mCb \in [pc : {"idle", "output", "played", "input", "heard", "route", "write"},
                  out : Nat, events : Seq(Event), slot : Nat]
      /\ mInq \in [M!Inputs -> Queues]
  BY DEF PortTypeOK
<1>3. /\ mCb' \in [pc : {"idle", "output", "played", "input", "heard", "route", "write"},
                   out : Nat, events : Seq(Event), slot : Nat]
      /\ mCb'.pc = "route" /\ mCb'.out = mCb.out /\ mCb'.events = mCb.events
      /\ mCb'.slot = 1
  BY <1>1, <1>2
<1>4. Forwarded'
  BY <1>1, <1>3, ForwardedSame
<1>5. RouteTable'
  BY <1>1 DEF RouteTable, M!Same
<1>6. ASSUME NEW o \in M!Outputs PROVE Outgoing(o)'
  <2>1. Outgoing(o)
    BY DEF PortQueues
  <2> QED
    BY <1>1, <1>3, <2>1 DEF Outgoing, Bit
<1>7. PICK i \in M!Inputs : i = Head(mCb.events).input
  <2>1. PICK z \in Seq(Event) : z = mCb.events
    BY <1>2
  <2>2. Head(z) \in Event
    BY <1>1, <2>1
  <2> QED
    BY <2>1, <2>2 DEF Event
<1>8. PICK q, in, out, r, w :
        /\ q = mInq[i] /\ in = mHeard[i] /\ out = mPolled[i] /\ w = Len(in) - 1
        /\ r = Len(mPolled[i]) - Bit(mControl.pc = "polled" /\ mControl.port = i)
  OBVIOUS
<1>9. InStep(q, in, out, r, w)
  BY <1>1, <1>7, <1>8 DEF PortQueues, Incoming, Bit
<1>10. PICK n : n = M!Pushed(q)
  OBVIOUS
<1>11. InStep(n, in, out, r, Len(in))
  BY <1>8, <1>9, <1>10, PushInStep
<1>12. mInq' = [mInq EXCEPT ![i] = n] /\ n \in Queues
  BY <1>1, <1>7, <1>8, <1>10, <1>11 DEF InStep
<1>13. PortTypeOK'
  <2>1. mInq' \in [M!Inputs -> Queues]
    BY <1>2, <1>12
  <2> QED
    BY <1>1, <1>3, <2>1 DEF PortTypeOK
<1>14. PortStable'
  <2>1. 1 \in M!Slots
    BY DEF M!Slots, M!PatchbayAssumption
  <2> QED
    BY <1>1, <1>3, <2>1 DEF PortStable
<1>15. Incoming(i)'
  <2>1. /\ Bit(mCb'.pc = "heard" /\ Head(mCb'.events).input = i) = 0
        /\ Len(mPolled'[i]) - Bit(mControl'.pc = "polled" /\ mControl'.port = i) = r
    BY <1>1, <1>3, <1>8 DEF Bit
  <2>2. Len(in) \in Nat
    BY <1>9 DEF InStep
  <2>3. Len(mHeard'[i]) - Bit(mCb'.pc = "heard" /\ Head(mCb'.events).input = i) = Len(in)
    BY <1>1, <1>8, <2>1, <2>2
  <2>4. mInq'[i] = n /\ mHeard'[i] = in /\ mPolled'[i] = out
    BY <1>1, <1>2, <1>8, <1>12
  <2> QED
    BY <1>11, <2>1, <2>3, <2>4 DEF Incoming
<1>16. ASSUME NEW j \in M!Inputs, j # i PROVE Incoming(j)'
  <2>1. mInq'[j] = mInq[j]
    BY <1>2, <1>12, <1>16
  <2>2. Incoming(j)
    BY DEF PortQueues
  <2>3. Bit(mCb'.pc = "heard" /\ Head(mCb'.events).input = j) =
        Bit(mCb.pc = "heard" /\ Head(mCb.events).input = j)
    BY <1>1, <1>3, <1>7, <1>16 DEF Bit
  <2> QED
    BY <1>1, <2>1, <2>2, <2>3 DEF Incoming
<1> QED
  BY <1>4, <1>5, <1>6, <1>13, <1>14, <1>15, <1>16 DEF PortQueues

\* With the slot in hand dealt with, its copy is due as well.
LEMMA DueAdvances ==
  ASSUME M!PatchbayAssumption, PortInv, mCb.pc \in {"route", "write"}, mCb' = M!NextSlot,
         UNCHANGED mConnections, mBlock'.events = mBlock.events
  PROVE  /\ Past + 1 \in 1 .. Len(mBlock.events) /\ Head(mCb.events) = mBlock.events[Past + 1]
         /\ Copy(Past + 1, mCb.slot) \in Nat \X Nat
         /\ ~Matches(Past + 1, mCb.slot) => Due' = Due
         /\ Matches(Past + 1, mCb.slot) => Due' = Due \cup {Copy(Past + 1, mCb.slot)}
         /\ Len(mCb'.events) <= Len(mBlock'.events)
         /\ \A j \in 1 .. Len(mCb'.events) : mCb'.events[j] = mBlock'.events[Past' + j]
<1> USE DEF PortInv
<1>1. /\ mCb \in [pc : {"idle", "output", "played", "input", "heard", "route", "write"},
                  out : Nat, events : Seq(Event), slot : Nat]
      /\ mBlock.events \in Seq(Event)
      /\ mConnections \in [M!Slots -> [active : BOOLEAN, input : Nat, output : Nat]]
  BY DEF PortTypeOK
<1>2. mCb.events # << >> /\ mCb.slot \in M!Slots /\ mCb.pc # "idle"
  BY DEF PortStable
<1>3. PICK l \in Nat, n \in Nat, z \in Seq(Event), b \in Seq(Event) :
        l = Len(z) /\ n = Len(b) /\ z = mCb.events /\ b = mBlock.events
  BY <1>1
<1>4. l > 0 /\ l <= n /\ Past = n - l
  <2>1. z # << >> /\ Len(z) <= Len(b)
    BY <1>2, <1>3 DEF Forwarded
  <2>2. Past = n - l
    BY <1>3 DEF Past
  <2> QED
    BY <1>3, <2>1, <2>2
<1>5. \A j \in 1 .. l : z[j] = b[Past + j]
  BY <1>2, <1>3 DEF Forwarded
<1>6. Past \in Nat /\ Past + 1 \in 1 .. n
  BY <1>4
<1>7. Head(z) = b[Past + 1]
  <2>1. Head(z) = z[1] /\ 1 \in 1 .. l
    BY <1>3, <1>4
  <2> QED
    BY <1>5, <2>1
<1>8. Connections \in Nat /\ M!Slots = 1 .. Connections
  BY DEF M!Slots, M!PatchbayAssumption
<1>9. PICK c : c = mCb.slot
  OBVIOUS
<1>10. c \in 1 .. Connections
  BY <1>2, <1>8, <1>9
<1>11. \/ /\ c = Connections /\ mCb'.slot = 0 /\ mCb'.events = Tail(z)
       \/ /\ c # Connections /\ mCb'.slot = c + 1 /\ mCb'.events = z
  <2>1. CASE c = Connections
    <3>1. mCb' = [mCb EXCEPT !.pc = "input", !.events = Tail(mCb.events), !.slot = 0]
      BY <1>9, <2>1 DEF M!NextSlot
    <3> QED
      BY <1>1, <1>3, <2>1, <3>1
  <2>2. CASE c # Connections
    <3>1. mCb' = [mCb EXCEPT !.pc = "route", !.slot = mCb.slot + 1]
      BY <1>9, <2>2 DEF M!NextSlot
    <3> QED
      BY <1>1, <1>3, <1>9, <2>2, <3>1
  <2> QED
    BY <2>1, <2>2
<1>12. \/ /\ c = Connections /\ mCb'.slot = 0 /\ Past' = Past + 1 /\ Len(mCb'.events) = l - 1
          /\ \A j \in 1 .. l - 1 : mCb'.events[j] = z[j + 1]
       \/ /\ c # Connections /\ mCb'.slot = c + 1 /\ Past' = Past /\ mCb'.events = z
  <2>1. Len(Tail(z)) = l - 1 /\ \A j \in 1 .. l - 1 : Tail(z)[j] = z[j + 1]
    BY <1>3, <1>4
  <2>2. Past' = n - Len(mCb'.events)
    BY <1>3 DEF Past
  <2>3. CASE c = Connections
    <3>1. mCb'.slot = 0 /\ mCb'.events = Tail(z)
      BY <1>11, <2>3
    <3>2. Past' = Past + 1
      <4>1. Past' = n - (l - 1)
        BY <2>1, <2>2, <3>1
      <4> QED
        BY <1>3, <1>4, <4>1
    <3> QED
      BY <2>1, <2>3, <3>1, <3>2
  <2>4. CASE c # Connections
    BY <1>3, <1>4, <1>11, <2>2, <2>4
  <2> QED
    BY <2>3, <2>4
<1>13. ASSUME NEW k \in 1 .. n, NEW s \in M!Slots
       PROVE  Done(k, s)' <=> Done(k, s) \/ (k = Past + 1 /\ s = c /\ Matches(k, s))
  <2>1. Matches(k, s)' <=> Matches(k, s)
    BY DEF Matches
  <2>2. k \in Nat /\ s \in 1 .. Connections /\ Past \in Nat /\ c \in 1 .. Connections
    BY <1>3, <1>6, <1>8, <1>10
  <2>3. CASE c = Connections /\ mCb'.slot = 0 /\ Past' = Past + 1
    <3>1. (k <= Past' \/ (k = Past' + 1 /\ s < mCb'.slot)) <=>
          (k <= Past \/ (k = Past + 1 /\ s < c) \/ (k = Past + 1 /\ s = c))
      BY <1>8, <2>2, <2>3
    <3> QED
      BY <1>9, <2>1, <3>1 DEF Done
  <2>4. CASE mCb'.slot = c + 1 /\ Past' = Past
    <3>1. (k <= Past' \/ (k = Past' + 1 /\ s < mCb'.slot)) <=>
          (k <= Past \/ (k = Past + 1 /\ s < c) \/ (k = Past + 1 /\ s = c))
      BY <1>8, <2>2, <2>4
    <3> QED
      BY <1>9, <2>1, <3>1 DEF Done
  <2> QED
    BY <1>12, <2>3, <2>4
<1>14. ASSUME NEW k \in 1 .. n, NEW s \in M!Slots
       PROVE  Copy(k, s)' = Copy(k, s) /\ Copy(k, s) \in Nat \X Nat
  <2>1. b[k] \in Event
    BY <1>3
  <2>2. mConnections[s] \in [active : BOOLEAN, input : Nat, output : Nat]
    BY <1>1
  <2> QED
    BY <1>3, <2>1, <2>2 DEF Copy, Event
<1>15. Len(mBlock'.events) = n /\ Len(mBlock.events) = n
  BY <1>3
<1>16. PICK p : p = Past + 1
  OBVIOUS
<1>17. ASSUME ~Matches(p, c) PROVE Due' = Due
  <2>1. \A k \in 1 .. n, s \in M!Slots : (Done(k, s)' <=> Done(k, s)) /\ Copy(k, s)' = Copy(k, s)
    BY <1>13, <1>14, <1>16, <1>17
  <2> QED
    BY <1>15, <2>1 DEF Due
<1>18. ASSUME Matches(p, c) PROVE Due' = Due \cup {Copy(p, c)}
  <2>1. p \in 1 .. n /\ c \in M!Slots
    BY <1>2, <1>6, <1>9, <1>16
  <2>2. ASSUME NEW x \in Due' PROVE x \in Due \cup {Copy(p, c)}
    <3>1. PICK k \in 1 .. n, s \in M!Slots : Done(k, s)' /\ x = Copy(k, s)' /\ x \in Nat \X Nat
      BY <1>15, <2>2 DEF Due
    <3>2. x = Copy(k, s) /\ (Done(k, s) \/ (k = p /\ s = c))
      BY <1>13, <1>14, <1>16, <3>1
    <3> QED
      BY <1>15, <3>1, <3>2 DEF Due
  <2>3. ASSUME NEW x \in Due PROVE x \in Due'
    <3>1. PICK k \in 1 .. n, s \in M!Slots : Done(k, s) /\ x = Copy(k, s) /\ x \in Nat \X Nat
      BY <1>15, <2>3 DEF Due
    <3>2. x = Copy(k, s)' /\ Done(k, s)'
      BY <1>13, <1>14, <3>1
    <3> QED
      BY <1>15, <3>1, <3>2 DEF Due
  <2>4. Copy(p, c) \in Due'
    <3>1. Done(p, c)' /\ Copy(p, c) = Copy(p, c)' /\ Copy(p, c) \in Nat \X Nat
      <4>1. Done(p, c)' <=> Done(p, c) \/ (p = Past + 1 /\ c = c /\ Matches(p, c))
        BY <1>13, <2>1
      <4> QED
        BY <1>14, <1>16, <1>18, <2>1, <4>1
    <3> QED
      BY <1>15, <2>1, <3>1 DEF Due
  <2> QED
    BY <2>2, <2>3, <2>4
<1>19. /\ Len(mCb'.events) <= Len(mBlock'.events)
       /\ \A j \in 1 .. Len(mCb'.events) : mCb'.events[j] = mBlock'.events[Past' + j]
  <2>1. CASE /\ Past' = Past + 1 /\ Len(mCb'.events) = l - 1
             /\ \A j \in 1 .. l - 1 : mCb'.events[j] = z[j + 1]
    <3>1. ASSUME NEW j \in 1 .. l - 1 PROVE mCb'.events[j] = mBlock'.events[Past' + j]
      <4>1. j + 1 \in 1 .. l /\ Past + (j + 1) = (Past + 1) + j
        BY <1>3, <1>4, <1>6
      <4>2. z[j + 1] = b[Past + (j + 1)]
        BY <1>5, <4>1
      <4> QED
        BY <1>3, <2>1, <4>1, <4>2
    <3>2. l - 1 <= n
      BY <1>4
    <3> QED
      BY <1>15, <2>1, <3>1, <3>2
  <2>2. CASE Past' = Past /\ mCb'.events = z
    BY <1>3, <1>4, <1>5, <1>15, <2>2
  <2> QED
    BY <1>12, <2>1, <2>2
<1>20. Copy(p, c) \in Nat \X Nat
  BY <1>2, <1>6, <1>9, <1>14, <1>16
<1> QED
  BY <1>3, <1>6, <1>7, <1>9, <1>16, <1>17, <1>18, <1>19, <1>20

\* What a step to the next slot leaves alone, whichever it is.
LEMMA NextSlotStable ==
  ASSUME M!PatchbayAssumption, PortInv, mCb.pc \in {"route", "write"}, mCb' = M!NextSlot,
         UNCHANGED <<mStarted, mConnections, mInq, mOutq, mControl, mEvents, mSends, mRoutes,
                     mSent, mPlayed, mHeard, mPolled>>,
         mBlock' \in [events : Seq(Event), routes : SUBSET (M!Inputs \X M!Outputs),
                      wrote : Seq(Nat \X Nat)]
  PROVE  PortTypeOK' /\ PortStable' /\ RouteTable' /\ PortQueues' /\ mCb'.pc # "idle"
<1> USE DEF PortInv
<1>1. mCb \in [pc : {"idle", "output", "played", "input", "heard", "route", "write"},
               out : Nat, events : Seq(Event), slot : Nat]
  BY DEF PortTypeOK
<1>2. mCb.events # << >> /\ mCb.slot \in M!Slots
  BY DEF PortStable
<1>3. Connections \in Nat /\ M!Slots = 1 .. Connections
  BY DEF M!Slots, M!PatchbayAssumption
<1>4. /\ mCb' \in [pc : {"idle", "output", "played", "input", "heard", "route", "write"},
                   out : Nat, events : Seq(Event), slot : Nat]
      /\ \/ mCb'.pc = "input" /\ mCb'.slot = 0
         \/ mCb'.pc = "route" /\ mCb'.slot \in M!Slots /\ mCb'.events # << >>
  <2>1. CASE mCb.slot = Connections
    <3>1. PICK z \in Seq(Event) : z = mCb.events
      BY <1>1
    <3>2. PICK y : y = Tail(z)
      OBVIOUS
    <3>3. mCb' = [mCb EXCEPT !.pc = "input", !.events = y, !.slot = 0]
      BY <2>1, <3>1, <3>2 DEF M!NextSlot
    <3>4. mCb' = [pc |-> "input", out |-> mCb.out, events |-> y, slot |-> 0]
      BY <1>1, <3>3
    <3>5. y \in Seq(Event)
      BY <1>2, <3>1, <3>2
    <3> QED
      BY <1>1, <3>4, <3>5
  <2>2. CASE mCb.slot # Connections
    <3>1. mCb' = [mCb EXCEPT !.pc = "route", !.slot = mCb.slot + 1]
      BY <2>2 DEF M!NextSlot
    <3>2. PICK c : c = mCb.slot
      OBVIOUS
    <3>3. c + 1 \in 1 .. Connections /\ c + 1 \in Nat
      BY <1>2, <1>3, <2>2, <3>2
    <3> QED
      BY <1>1, <1>2, <1>3, <3>1, <3>2, <3>3
  <2> QED
    BY <2>1, <2>2
<1>5. PortTypeOK'
  BY <1>4 DEF PortTypeOK
<1>6. PortStable'
  BY <1>4 DEF PortStable
<1>7. RouteTable'
  BY DEF RouteTable, M!Same
<1>8. ASSUME NEW o \in M!Outputs PROVE Outgoing(o)'
  <2>1. Outgoing(o)
    BY DEF PortQueues
  <2> QED
    BY <1>4, <2>1 DEF Outgoing, Bit
<1>9. ASSUME NEW i \in M!Inputs PROVE Incoming(i)'
  <2>1. Incoming(i)
    BY DEF PortQueues
  <2> QED
    BY <1>4, <2>1 DEF Incoming, Bit
<1> QED
  BY <1>4, <1>5, <1>6, <1>7, <1>8, <1>9 DEF PortQueues

LEMMA RouteInv ==
  ASSUME M!PatchbayAssumption, PortInv, M!Route
  PROVE  PortInv'
<1> USE DEF PortInv
<1>1. /\ UNCHANGED <<mStarted, mConnections, mInq, mOutq, mControl, mEvents, mSends, mRoutes,
                     mBlock, mSent, mPlayed, mHeard, mPolled>>
      /\ mCb.pc = "route"
  BY DEF M!Route, M!counts, M!history
<1>2. mCb \in [pc : {"idle", "output", "played", "input", "heard", "route", "write"},
               out : Nat, events : Seq(Event), slot : Nat]
      /\ mBlock \in [events : Seq(Event), routes : SUBSET (M!Inputs \X M!Outputs),
                     wrote : Seq(Nat \X Nat)]
  BY DEF PortTypeOK
<1>3. PICK fits : fits <=> /\ mConnections[mCb.slot].active
                           /\ mConnections[mCb.slot].input = Head(mCb.events).input
  <2>1. (mConnections[mCb.slot].active /\ mConnections[mCb.slot].input = Head(mCb.events).input) <=>
        (mConnections[mCb.slot].active /\ mConnections[mCb.slot].input = Head(mCb.events).input)
    OBVIOUS
  <2> QED
    BY <2>1, Zenon
<1>4. CASE fits
  <2>1. mCb' = [mCb EXCEPT !.pc = "write"]
    BY <1>3, <1>4 DEF M!Route
  <2>2. /\ mCb' \in [pc : {"idle", "output", "played", "input", "heard", "route", "write"},
                     out : Nat, events : Seq(Event), slot : Nat]
        /\ mCb'.pc = "write" /\ mCb'.events = mCb.events /\ mCb'.slot = mCb.slot
        /\ mCb'.out = mCb.out
    BY <1>2, <2>1
  <2>3. Forwarded'
    BY <1>1, <2>2, ForwardedSame
  <2>4. RouteTable'
    BY <1>1 DEF RouteTable, M!Same
  <2>5. PortTypeOK'
    BY <1>1, <2>2 DEF PortTypeOK
  <2>6. PortStable'
    BY <1>1, <1>3, <1>4, <2>2 DEF PortStable
  <2>7. ASSUME NEW o \in M!Outputs PROVE Outgoing(o)'
    <3>1. Outgoing(o)
      BY DEF PortQueues
    <3> QED
      BY <1>1, <2>2, <3>1 DEF Outgoing, Bit
  <2>8. ASSUME NEW i \in M!Inputs PROVE Incoming(i)'
    <3>1. Incoming(i)
      BY DEF PortQueues
    <3> QED
      BY <1>1, <2>2, <3>1 DEF Incoming, Bit
  <2> QED
    BY <2>3, <2>4, <2>5, <2>6, <2>7, <2>8 DEF PortQueues
<1>5. CASE ~fits
  <2>1. mCb' = M!NextSlot
    BY <1>3, <1>5 DEF M!Route
  <2>2. PortTypeOK' /\ PortStable' /\ RouteTable' /\ PortQueues'
    BY <1>1, <1>2, <2>1, NextSlotStable
  <2>3. /\ Head(mCb.events) = mBlock.events[Past + 1]
        /\ ~Matches(Past + 1, mCb.slot) => Due' = Due
        /\ Len(mCb'.events) <= Len(mBlock'.events)
        /\ \A j \in 1 .. Len(mCb'.events) : mCb'.events[j] = mBlock'.events[Past' + j]
    BY <1>1, <2>1, DueAdvances
  <2>4. ~Matches(Past + 1, mCb.slot)
    BY <1>3, <1>5, <2>3 DEF Matches
  <2>5. Written' = Written
    BY <1>1 DEF Written
  <2>6. Forwarded'
    BY <1>1, <2>3, <2>4, <2>5 DEF Forwarded
  <2> QED
    BY <2>2, <2>6
<1> QED
  BY <1>4, <1>5

\* A copy that is written was not written before: another slot with the same
\* output has another input, and another event another number.
LEMMA WriteEventInv ==
  ASSUME M!PatchbayAssumption, PortInv, M!WriteEvent
  PROVE  PortInv'
<1> USE DEF PortInv
<1>1. /\ UNCHANGED <<mStarted, mConnections, mInq, mOutq, mControl, mEvents, mSends, mRoutes,
                     mSent, mPlayed, mHeard, mPolled>>
      /\ mCb.pc = "write" /\ mCb' = M!NextSlot
      /\ mBlock' = [mBlock EXCEPT !.wrote =
                     Append(@, <<Head(mCb.events).id, mConnections[mCb.slot].output>>)]
  BY DEF M!WriteEvent, M!counts
<1>2. /\ mBlock \in [events : Seq(Event), routes : SUBSET (M!Inputs \X M!Outputs),
                     wrote : Seq(Nat \X Nat)]
  BY DEF PortTypeOK
<1>3. mBlock'.events = mBlock.events /\ mBlock'.routes = mBlock.routes
  BY <1>1, <1>2
<1>4. /\ Past + 1 \in 1 .. Len(mBlock.events) /\ Head(mCb.events) = mBlock.events[Past + 1]
      /\ Copy(Past + 1, mCb.slot) \in Nat \X Nat
      /\ Matches(Past + 1, mCb.slot) => Due' = Due \cup {Copy(Past + 1, mCb.slot)}
      /\ Len(mCb'.events) <= Len(mBlock'.events)
      /\ \A j \in 1 .. Len(mCb'.events) : mCb'.events[j] = mBlock'.events[Past' + j]
  BY <1>1, <1>3, DueAdvances
<1>5. PICK p, c, x : p = Past + 1 /\ c = mCb.slot /\ x = Copy(p, c)
  OBVIOUS
<1>6. Matches(p, c) /\ c \in M!Slots
  BY <1>1, <1>4, <1>5 DEF PortStable, Matches
<1>7. x = <<Head(mCb.events).id, mConnections[mCb.slot].output>> /\ x \in Nat \X Nat
  BY <1>4, <1>5 DEF Copy
<1>8. PICK u \in Seq(Nat \X Nat) : u = mBlock.wrote
  BY <1>2
<1>8a. PICK v : v = Append(u, x)
  OBVIOUS
<1>9. mBlock'.wrote = v /\ v \in Seq(Nat \X Nat)
  BY <1>1, <1>2, <1>7, <1>8, <1>8a
<1>10. /\ Len(v) = Len(u) + 1 /\ Len(u) \in Nat /\ v[Len(u) + 1] = x
       /\ \A j \in 1 .. Len(u) : v[j] = u[j]
  BY <1>7, <1>8a
<1>11. mBlock' \in [events : Seq(Event), routes : SUBSET (M!Inputs \X M!Outputs),
                    wrote : Seq(Nat \X Nat)]
  BY <1>1, <1>2, <1>7, <1>8, <1>9, <1>8a
<1>12. PortTypeOK' /\ PortStable' /\ RouteTable' /\ PortQueues'
  BY <1>1, <1>11, NextSlotStable
<1>13. /\ mBlock.routes = mRoutes /\ Written = Due
       /\ \A j, k \in 1 .. Len(mBlock.events) : mBlock.events[j].id = mBlock.events[k].id => j = k
       /\ \A j, k \in 1 .. Len(u) : u[j] = u[k] => j = k
  BY <1>1, <1>8 DEF Forwarded
<1>14. x \notin Due
  <2> SUFFICES ASSUME x \in Due PROVE FALSE
    OBVIOUS
  <2>1. PICK k \in 1 .. Len(mBlock.events), s \in M!Slots : Done(k, s) /\ x = Copy(k, s)
    BY DEF Due
  <2>2. mBlock.events[k].id = mBlock.events[p].id /\ mConnections[s].output = mConnections[c].output
    BY <1>5, <2>1 DEF Copy
  <2>3. k = p
    BY <1>4, <1>5, <1>13, <2>2
  <2>4. s < c /\ Matches(p, s)
    <3>1. Past \in Int
      <4>1. mBlock.events \in Seq(Event) /\ mCb.events \in Seq(Event)
        BY DEF PortTypeOK
      <4> QED
        BY <4>1 DEF Past
    <3> QED
      BY <1>5, <2>1, <2>3, <3>1 DEF Done
  <2>5. PICK i, o : i = mConnections[c].input /\ o = mConnections[c].output
    OBVIOUS
  <2>6. i \in M!Inputs /\ o \in M!Outputs
    BY <1>6, <2>5 DEF RouteTable, Matches
  <2>7. M!Same(c, i, o) /\ M!Same(s, i, o)
    BY <1>6, <2>2, <2>4, <2>5 DEF Matches, M!Same
  <2>8. s = c
    BY <1>6, <2>6, <2>7 DEF RouteTable
  <2>9. c \in Nat
    BY <1>6 DEF M!Slots, M!PatchbayAssumption
  <2> QED
    BY <2>4, <2>8, <2>9
<1>15. Written = {u[j] : j \in 1 .. Len(u)} /\ Written' = {v[j] : j \in 1 .. Len(v)}
  BY <1>8, <1>9 DEF Written
<1>16. Written' = Written \cup {x}
  <2>1. \A j : j \in 1 .. Len(v) <=> j \in 1 .. Len(u) \/ j = Len(u) + 1
    BY <1>10
  <2>2. \A y : y \in Written' <=> \E j \in 1 .. Len(v) : y = v[j]
    BY <1>15
  <2>3. \A y : y \in Written <=> \E j \in 1 .. Len(u) : y = u[j]
    BY <1>15
  <2>4. ASSUME NEW y \in Written' PROVE y \in Written \/ y = x
    <3>1. PICK j \in 1 .. Len(v) : y = v[j]
      BY <2>2, <2>4, Zenon
    <3>2. j = Len(u) + 1 \/ (j \in 1 .. Len(u) /\ v[j] = u[j])
      BY <1>10, <2>1, <3>1, Zenon
    <3> QED
      BY <1>10, <2>3, <3>1, <3>2, Zenon
  <2>5. ASSUME NEW y \in Written PROVE y \in Written'
    <3>1. PICK j \in 1 .. Len(u) : y = u[j]
      BY <2>3, <2>5, Zenon
    <3>2. j \in 1 .. Len(v) /\ v[j] = u[j]
      BY <1>10, <2>1, <3>1, Zenon
    <3> QED
      BY <2>2, <3>1, <3>2, Zenon
  <2>6. x \in Written'
    BY <1>10, <2>1, <2>2, Zenon
  <2> QED
    BY <2>4, <2>5, <2>6, Zenon
<1>17. \A j, k \in 1 .. Len(v) : v[j] = v[k] => j = k
  <2> SUFFICES ASSUME NEW j \in 1 .. Len(v), NEW k \in 1 .. Len(v), v[j] = v[k] PROVE j = k
    OBVIOUS
  <2>1. (j \in 1 .. Len(u) \/ j = Len(u) + 1) /\ (k \in 1 .. Len(u) \/ k = Len(u) + 1)
    <3>1. PICK l \in Nat : l = Len(u) /\ Len(v) = l + 1
      BY <1>10
    <3>2. j \in 1 .. l + 1 /\ k \in 1 .. l + 1
      BY <3>1
    <3> QED
      BY <3>1, <3>2
  <2>2. \A m \in 1 .. Len(u) : u[m] # x
    BY <1>13, <1>14, <1>15
  <2> QED
    BY <1>10, <1>13, <2>1, <2>2
<1>18. Written' = Due'
  BY <1>4, <1>5, <1>6, <1>13, <1>16
<1>19. Forwarded'
  <2>1. mBlock'.routes = mRoutes'
    BY <1>1, <1>3, <1>13
  <2>2. \A j, k \in 1 .. Len(mBlock'.events) : mBlock'.events[j].id = mBlock'.events[k].id => j = k
    BY <1>3, <1>13
  <2>3. \A j, k \in 1 .. Len(mBlock'.wrote) : mBlock'.wrote[j] = mBlock'.wrote[k] => j = k
    BY <1>9, <1>17
  <2> QED
    BY <1>4, <1>18, <2>1, <2>2, <2>3 DEF Forwarded
<1> QED
  BY <1>12, <1>19

LEMMA ReturnInv ==
  ASSUME M!PatchbayAssumption, PortInv, M!Return
  PROVE  PortInv'
<1> USE DEF PortInv
<1>1. /\ UNCHANGED <<mStarted, mConnections, mInq, mOutq, mControl, mEvents, mSends, mRoutes,
                     mSent, mPlayed, mHeard, mPolled>>
      /\ mCb.pc = "input"
      /\ mCb' = [pc |-> "idle", out |-> 0, events |-> << >>, slot |-> 0]
      /\ mBlock' = [events |-> << >>, routes |-> {}, wrote |-> << >>]
  BY DEF M!Return, M!counts, M!CbIdle, M!NoBlock
<1>2. PortTypeOK'
  <2>1. << >> \in Seq(Event) /\ << >> \in Seq(Nat \X Nat)
    OBVIOUS
  <2> QED
    BY <1>1, <2>1 DEF PortTypeOK
<1>3. PortStable' /\ RouteTable' /\ Forwarded'
  BY <1>1 DEF PortStable, RouteTable, M!Same, Forwarded
<1>4. ASSUME NEW o \in M!Outputs PROVE Outgoing(o)'
  <2>1. Outgoing(o)
    BY DEF PortQueues
  <2> QED
    BY <1>1, <2>1 DEF Outgoing, Bit
<1>5. ASSUME NEW i \in M!Inputs PROVE Incoming(i)'
  <2>1. Incoming(i)
    BY DEF PortQueues
  <2> QED
    BY <1>1, <2>1 DEF Incoming, Bit
<1> QED
  BY <1>2, <1>3, <1>4, <1>5 DEF PortQueues

LEMMA PortInitInv ==
  ASSUME M!PatchbayAssumption, M!Init
  PROVE  PortInv
<1>1. /\ PortQueue \in Nat \ {0} /\ IndexMod \in Nat \ {0} /\ FirstIndex \in 0 .. IndexMod - 1
  BY DEF M!PatchbayAssumption
<1>2. PICK q : q = M!EmptyQueue
  OBVIOUS
<1>3. q \in Queues /\ q.read = FirstIndex /\ q.write = FirstIndex
  BY <1>1, <1>2 DEF M!EmptyQueue, Queues
<1>4. FirstIndex % IndexMod = FirstIndex
  BY <1>1, ModUnique
<1>5. InStep(q, << >>, << >>, 0, 0)
  <2>1. << >> \in Seq(Nat) /\ Len(<< >>) = 0
    OBVIOUS
  <2>2. FirstIndex + 0 = FirstIndex
    BY <1>1
  <2> QED
    BY <1>1, <1>3, <1>4, <2>1, <2>2 DEF InStep
<1>6. /\ mInq = [i \in M!Inputs |-> q] /\ mOutq = [o \in M!Outputs |-> q]
      /\ mControl = [pc |-> "ready", port |-> 0]
      /\ mCb = [pc |-> "idle", out |-> 0, events |-> << >>, slot |-> 0]
      /\ mBlock = [events |-> << >>, routes |-> {}, wrote |-> << >>]
  BY <1>2 DEF M!Init, M!Ready, M!CbIdle, M!NoBlock
<1>7. PortTypeOK
  <2>1. << >> \in Seq(Event) /\ << >> \in Seq(Nat \X Nat) /\ << >> \in Seq(Nat)
    OBVIOUS
  <2>2. /\ mSent \in [M!Outputs -> Seq(Nat)] /\ mPlayed \in [M!Outputs -> Seq(Nat)]
        /\ mHeard \in [M!Inputs -> Seq(Nat)] /\ mPolled \in [M!Inputs -> Seq(Nat)]
    BY <2>1 DEF M!Init
  <2>3. mConnections \in [M!Slots -> [active : BOOLEAN, input : Nat, output : Nat]]
    BY DEF M!Init
  <2>4. /\ mCb \in [pc : {"idle", "output", "played", "input", "heard", "route", "write"},
                     out : Nat, events : Seq(Event), slot : Nat]
        /\ mControl \in [pc : {"ready", "connect", "deactivate", "sent", "polled"}, port : Nat]
        /\ mControl.pc = "ready" => mControl.port = 0
    BY <1>6, <2>1
  <2>5. mBlock \in [events : Seq(Event), routes : SUBSET (M!Inputs \X M!Outputs),
                    wrote : Seq(Nat \X Nat)]
    BY <1>6, <2>1
  <2>6. mInq \in [M!Inputs -> Queues] /\ mOutq \in [M!Outputs -> Queues]
    BY <1>3, <1>6
  <2> QED
    BY <2>2, <2>3, <2>4, <2>5, <2>6 DEF PortTypeOK, M!Init
<1>8. PortStable /\ RouteTable /\ Forwarded
  BY <1>6 DEF PortStable, RouteTable, M!Same, Forwarded, M!Init
<1>9. ASSUME NEW o \in M!Outputs PROVE Outgoing(o)
  <2>1. /\ mOutq[o] = q /\ mSent[o] = << >> /\ mPlayed[o] = << >>
        /\ Bit(mCb.pc = "played" /\ mCb.out = o) = 0
        /\ Bit(mControl.pc = "sent" /\ mControl.port = o) = 0
    BY <1>6 DEF M!Init, Bit
  <2>2. Len(<< >>) - 0 = 0
    OBVIOUS
  <2> QED
    BY <1>5, <2>1, <2>2 DEF Outgoing
<1>10. ASSUME NEW i \in M!Inputs PROVE Incoming(i)
  <2>1. /\ mInq[i] = q /\ mHeard[i] = << >> /\ mPolled[i] = << >>
        /\ Bit(mControl.pc = "polled" /\ mControl.port = i) = 0
        /\ Bit(mCb.pc = "heard" /\ Head(mCb.events).input = i) = 0
    BY <1>6 DEF M!Init, Bit
  <2>2. Len(<< >>) - 0 = 0
    OBVIOUS
  <2> QED
    BY <1>5, <2>1, <2>2 DEF Incoming
<1> QED
  BY <1>7, <1>8, <1>9, <1>10 DEF PortInv, PortQueues

LEMMA PortNextInv ==
  ASSUME M!PatchbayAssumption, Waits, PortInv, [M!Next]_M!vars
  PROVE  PortInv'
<1>1. CASE M!Control
  BY <1>1, ConfigureInv, StartStopInv, SendInv, SendEndInv, PollInv, PollEndInv DEF M!Control
<1>2. CASE M!Callback
  BY <1>2, BeginInv, PlayNextInv, PlayEndInv, HearInv, HearEndInv, RouteInv, WriteEventInv,
     ReturnInv DEF M!Callback
<1>3. CASE UNCHANGED M!vars
  <2>1. UNCHANGED <<mStarted, mConnections, mInq, mOutq, mControl, mCb, mEvents, mSends, mRoutes,
                    mBlock, mSent, mPlayed, mHeard, mPolled>>
    BY <1>3 DEF M!vars, M!counts, M!history
  <2>2. PortTypeOK'
    BY <2>1 DEF PortInv, PortTypeOK
  <2>3. PortStable'
    BY <2>1 DEF PortInv, PortStable
  <2>4. RouteTable'
    BY <2>1 DEF PortInv, RouteTable, M!Same
  <2>5. Forwarded'
    BY <2>1, ForwardedKept DEF PortInv
  <2>6. PortQueues'
    BY <2>1 DEF PortInv, PortQueues, Outgoing, Incoming
  <2> QED
    BY <2>2, <2>3, <2>4, <2>5, <2>6 DEF PortInv
<1> QED
  BY <1>1, <1>2, <1>3 DEF M!Next

\* When the callback is done with its block, a copy is due exactly for the
\* outputs with a route from the event's input.
LEMMA AllForwarded ==
  ASSUME M!PatchbayAssumption, PortInv
  PROVE  M!RoutedOnce
<1> USE DEF PortInv
<1> SUFFICES ASSUME mCb.pc = "input", mCb.events = << >>,
                    NEW k \in DOMAIN mBlock.events, NEW o \in M!Outputs
             PROVE  M!Times(<<mBlock.events[k].id, o>>, mBlock.wrote) =
                      IF <<mBlock.events[k].input, o>> \in mBlock.routes THEN 1 ELSE 0
  BY DEF M!RoutedOnce
<1>1. PICK b \in Seq(Event), n \in Nat : b = mBlock.events /\ n = Len(b)
  BY DEF PortTypeOK
<1>2. PICK u \in Seq(Nat \X Nat), l \in Nat : u = mBlock.wrote /\ l = Len(u) /\ DOMAIN u = 1 .. l
  BY DEF PortTypeOK
<1>3. k \in 1 .. n /\ b[k] \in Event
  BY <1>1
<1>4. PICK x : x = <<b[k].id, o>>
  OBVIOUS
<1>5. PICK i \in M!Inputs : i = b[k].input
  BY <1>3 DEF Event
<1>6. /\ mBlock.routes = mRoutes /\ Written = Due
      /\ \A j, m \in 1 .. n : b[j].id = b[m].id => j = m
      /\ \A j, m \in 1 .. l : u[j] = u[m] => j = m
  BY <1>1, <1>2 DEF Forwarded
<1>7. Past = n
  BY <1>1 DEF Past
<1>8. ASSUME <<i, o>> \in mRoutes PROVE x \in Due
  <2>1. PICK s \in M!Slots : M!Same(s, i, o)
    BY <1>8 DEF RouteTable
  <2>2. Done(k, s) /\ x = Copy(k, s)
    <3>1. k <= Past
      BY <1>3, <1>7
    <3>2. Matches(k, s)
      BY <1>1, <1>5, <2>1 DEF Matches, M!Same
    <3> QED
      BY <1>1, <1>4, <2>1, <3>1, <3>2 DEF Done, Copy, M!Same
  <2>3. x \in Nat \X Nat
    <3>1. o \in Nat
      BY DEF M!Outputs, M!PatchbayAssumption
    <3>2. b[k].id \in Nat
      BY <1>3 DEF Event
    <3> QED
      BY <1>4, <3>1, <3>2
  <2> QED
    BY <1>1, <1>3, <2>2, <2>3 DEF Due
<1>9. ASSUME x \in Due PROVE <<i, o>> \in mRoutes
  <2>1. PICK j \in 1 .. n, s \in M!Slots : Done(j, s) /\ x = Copy(j, s)
    BY <1>1, <1>9 DEF Due
  <2>2. b[j].id = b[k].id /\ mConnections[s].output = o
    BY <1>1, <1>4, <2>1 DEF Copy
  <2>3. j = k
    BY <1>3, <1>6, <2>2
  <2>4. M!Same(s, i, o)
    BY <1>1, <1>5, <2>1, <2>2, <2>3 DEF Done, Matches, M!Same
  <2> QED
    BY <2>4 DEF RouteTable
<1>10. x \in Due <=> \E j \in 1 .. l : u[j] = x
  BY <1>2, <1>6 DEF Written
<1>11. PICK S : S = {j \in 1 .. l : u[j] = x}
  OBVIOUS
<1>12. M!Times(x, u) = Cardinality(S)
  <2>1. M!Cardinality(S) = Cardinality(S)
    BY DEF M!Cardinality, Cardinality, M!IsFiniteSet, IsFiniteSet
  <2> QED
    BY <1>2, <1>11, <2>1 DEF M!Times
<1>13. CASE x \in Due
  <2>1. PICK j \in 1 .. l : u[j] = x
    BY <1>10, <1>13
  <2>2. S = {j}
    BY <1>6, <1>11, <2>1
  <2>3. Cardinality(S) = 1
    BY <2>2, FS_Singleton
  <2> QED
    BY <1>1, <1>2, <1>4, <1>5, <1>6, <1>9, <1>12, <1>13, <2>3
<1>14. CASE x \notin Due
  <2>1. S = {}
    BY <1>10, <1>11, <1>14
  <2>2. Cardinality(S) = 0
    BY <2>1, FS_EmptySet
  <2> QED
    BY <1>1, <1>2, <1>4, <1>5, <1>6, <1>8, <1>12, <1>14, <2>2
<1> QED
  BY <1>13, <1>14

LEMMA NothingLost ==
  ASSUME M!PatchbayAssumption, PortInv
  PROVE  M!QueuesInOrder
<1> USE DEF PortInv
<1>1. ASSUME NEW o \in M!Outputs, mCb.pc # "played", mControl.pc # "sent"
      PROVE  mPlayed[o] \o M!Queued(mOutq[o]) = mSent[o]
  <2>1. PICK q, in, out : q = mOutq[o] /\ in = mSent[o] /\ out = mPlayed[o]
    OBVIOUS
  <2>2. Len(in) - 0 = Len(in) /\ Len(out) - 0 = Len(out)
    <3>1. in \in Seq(Nat) /\ out \in Seq(Nat)
      BY <2>1 DEF PortTypeOK
    <3> QED
      BY <3>1
  <2>3. InStep(q, in, out, Len(out), Len(in))
    <3>1. InStep(q, in, out, Len(out) - 0, Len(in) - 0)
      BY <1>1, <2>1 DEF PortQueues, Outgoing, Bit
    <3> QED
      BY <2>2, <3>1
  <2> QED
    BY <2>1, <2>3, NothingMissing
<1>2. ASSUME NEW i \in M!Inputs, mCb.pc # "heard", mControl.pc # "polled"
      PROVE  mPolled[i] \o M!Queued(mInq[i]) = mHeard[i]
  <2>1. PICK q, in, out : q = mInq[i] /\ in = mHeard[i] /\ out = mPolled[i]
    OBVIOUS
  <2>2. Len(in) - 0 = Len(in) /\ Len(out) - 0 = Len(out)
    <3>1. in \in Seq(Nat) /\ out \in Seq(Nat)
      BY <2>1 DEF PortTypeOK
    <3> QED
      BY <3>1
  <2>3. InStep(q, in, out, Len(out), Len(in))
    <3>1. InStep(q, in, out, Len(out) - 0, Len(in) - 0)
      BY <1>2, <2>1 DEF PortQueues, Incoming, Bit
    <3> QED
      BY <2>2, <3>1
  <2> QED
    BY <2>1, <2>3, NothingMissing
<1> QED
  BY <1>1, <1>2 DEF M!QueuesInOrder

\* For every number of ports, routes and queue slots, every counter width and
\* every block of events: the callback forwards each event exactly once along
\* each route, and the queues of the ports deliver what they accepted, in order,
\* as long as stopping waits for the callback, which jack_deactivate does.
THEOREM PortsPatchbayExact ==
  ASSUME M!PatchbayAssumption, Waits
  PROVE  M!Spec => []PatchbayExact
<1>1. M!Init => PortInv
  BY PortInitInv
<1>2. PortInv /\ [M!Next]_M!vars => PortInv'
  BY PortNextInv
<1>3. PortInv => PatchbayExact
  BY AllForwarded, NothingLost DEF PatchbayExact, M!PatchbayExact
<1> QED
  BY <1>1, <1>2, <1>3, PTL DEF M!Spec
=============================================================================
