---------------------------- MODULE MidiPatchbay ----------------------------
(***************************************************************************)
(* The MIDI patchbay and its queues (std_midi.c), with the JACK backend.   *)
(* The control thread sets up routes while the patchbay is stopped, starts *)
(* and stops it, sends to outputs and polls inputs.  The process callback  *)
(* of JACK's thread plays what was sent and forwards the events of every   *)
(* input along the routes.  Each queue has one producer and one consumer;  *)
(* both see the other's index without delay here (LockFreeQueue has stale  *)
(* views).  JACK's buffers hold the events of a block: one that does not   *)
(* fit would be lost.                                                      *)
(***************************************************************************)
EXTENDS Integers, Sequences, FiniteSetsExt

CONSTANTS NInputs, NOutputs,   \* the ports, all added
          Connections,         \* MLANG_MIDI_PATCHBAY_MAX_CONNECTIONS
          QueueSize,           \* MLANG_MIDI_QUEUE_CAPACITY
          IndexMod,            \* 2^32 in the code: values of the queues' counters
          FirstIndex,          \* the counters of the (empty) queues at the beginning
          Waits,               \* stop waits for the callback (jack_deactivate does)
          MaxEvents, MaxSends, MaxConfigs   \* bounds

Inputs == 1 .. NInputs
Outputs == 1 .. NOutputs
Slots == 1 .. Connections

PatchbayAssumption ==
  /\ {NInputs, NOutputs, Connections, QueueSize} \subseteq Nat \ {0}
  /\ IndexMod \in Nat /\ IndexMod > QueueSize /\ IndexMod % QueueSize = 0
  /\ FirstIndex \in 0 .. IndexMod - 1
  /\ {MaxEvents, MaxSends, MaxConfigs} \subseteq Nat /\ Waits \in BOOLEAN

VARIABLES
  started,       \* patchbay->started
  active,        \* JACK calls the process callback
  connections,   \* patchbay->connections
  inq, outq,     \* the queues of inputs and outputs
  control,       \* the control thread: [pc, port]
  cb,            \* the callback: [pc, out, events, slot]
  events, sends, configs,   \* how many so far
  routes,        \* history: the routes set up
  block,         \* history of the callback: its events, its routes, what it wrote
  sent, played,  \* history: messages accepted for and played on each output
  heard, polled  \* history: events accepted from and polled at each input

counts == <<events, sends, configs>>
history == <<routes, block, sent, played, heard, polled>>
vars == <<started, active, connections, inq, outq, control, cb, counts, history>>

EmptyQueue == [read |-> FirstIndex, write |-> FirstIndex,
               packets |-> [k \in 0 .. QueueSize - 1 |-> 0]]
NoBlock == [events |-> << >>, routes |-> {}, wrote |-> << >>]
CbIdle == [pc |-> "idle", out |-> 0, events |-> << >>, slot |-> 0]
Ready == [pc |-> "ready", port |-> 0]

Init ==
  /\ started = FALSE /\ active = FALSE
  /\ connections = [k \in Slots |-> [active |-> FALSE, input |-> 0, output |-> 0]]
  /\ inq = [i \in Inputs |-> EmptyQueue] /\ outq = [o \in Outputs |-> EmptyQueue]
  /\ control = Ready /\ cb = CbIdle
  /\ events = 0 /\ sends = 0 /\ configs = 0
  /\ routes = {} /\ block = NoBlock
  /\ sent = [o \in Outputs |-> << >>] /\ played = [o \in Outputs |-> << >>]
  /\ heard = [i \in Inputs |-> << >>] /\ polled = [i \in Inputs |-> << >>]

-----------------------------------------------------------------------------
\* Mutant: the counters are compared, not their difference.
FullCompared(q) == q.write >= q.read + QueueSize

\* midi_queue_push: the test, the packet, the index.
Full(q) == (q.write - q.read) % IndexMod >= QueueSize
Stored(q, m) == [q EXCEPT !.packets[q.write % QueueSize] = m]
Pushed(q) == [q EXCEPT !.write = (@ + 1) % IndexMod]

\* midi_queue_pop: the test, the packet, the index.
IsEmpty(q) == q.read = q.write
Front(q) == q.packets[q.read % QueueSize]
Popped(q) == [q EXCEPT !.read = (@ + 1) % IndexMod]

-----------------------------------------------------------------------------
(* The control thread.                                                     *)

CanConfigure == control = Ready /\ ~started /\ configs < MaxConfigs
Same(k, i, o) == connections[k].active /\ connections[k].input = i /\ connections[k].output = o

\* A route that exists is left alone; without a free slot connect is refused.
Connect(i, o) ==
  LET free == {k \in Slots : ~connections[k].active}
  IN  /\ CanConfigure
      /\ configs' = configs + 1
      /\ free # {} /\ ~\E k \in Slots : Same(k, i, o)
      /\ connections' = [connections EXCEPT
                           ![Min(free)] = [active |-> TRUE, input |-> i, output |-> o]]
      /\ routes' = routes \cup {<<i, o>>}
      /\ UNCHANGED <<started, active, inq, outq, control, cb, events, sends, block, sent,
                     played, heard, polled>>

\* The first slot with the route is given up.
Disconnect(i, o) ==
  LET found == {k \in Slots : Same(k, i, o)}
  IN  /\ CanConfigure
      /\ configs' = configs + 1
      /\ found # {}
      /\ connections' = [connections EXCEPT ![Min(found)].active = FALSE]
      /\ routes' = routes \ {<<i, o>>}
      /\ UNCHANGED <<started, active, inq, outq, control, cb, events, sends, block, sent,
                     played, heard, polled>>

Goto(pc) == control' = [control EXCEPT !.pc = pc]

\* start: the client is activated and its ports are connected, which may fail.
Activate ==
  /\ control = Ready /\ ~started
  /\ active' = TRUE /\ Goto("connect")
  /\ UNCHANGED <<started, connections, inq, outq, cb, counts, history>>
Started(ok) ==
  /\ control.pc = "connect"
  /\ IF ok THEN started' = TRUE /\ control' = Ready ELSE Goto("deactivate") /\ UNCHANGED started
  /\ UNCHANGED <<active, connections, inq, outq, cb, counts, history>>

\* stop: the flag, then the client, which waits for the callback.
Stop ==
  /\ control = Ready /\ started
  /\ started' = FALSE /\ Goto("deactivate")
  /\ UNCHANGED <<active, connections, inq, outq, cb, counts, history>>
Deactivate ==
  /\ control.pc = "deactivate" /\ (Waits => cb.pc = "idle")
  /\ active' = FALSE /\ control' = Ready
  /\ UNCHANGED <<started, connections, inq, outq, cb, counts, history>>

\* send_bytes and poll, each with its packet and its index.
Send(o) ==
  /\ control = Ready /\ started /\ sends < MaxSends /\ ~Full(outq[o])
  /\ sends' = sends + 1
  /\ outq' = [outq EXCEPT ![o] = Stored(@, sends + 1)]
  /\ sent' = [sent EXCEPT ![o] = Append(@, sends + 1)]
  /\ control' = [pc |-> "sent", port |-> o]
  /\ UNCHANGED <<started, active, connections, inq, cb, events, configs, routes, block,
                 played, heard, polled>>
SendEnd ==
  /\ control.pc = "sent" /\ control' = Ready
  /\ outq' = [outq EXCEPT ![control.port] = Pushed(@)]
  /\ UNCHANGED <<started, active, connections, inq, cb, counts, history>>
Poll(i) ==
  /\ control = Ready /\ ~IsEmpty(inq[i])
  /\ polled' = [polled EXCEPT ![i] = Append(@, Front(inq[i]))]
  /\ control' = [pc |-> "polled", port |-> i]
  /\ UNCHANGED <<started, active, connections, inq, outq, cb, counts, routes, block, sent,
                 played, heard>>
PollEnd ==
  /\ control.pc = "polled" /\ control' = Ready
  /\ inq' = [inq EXCEPT ![control.port] = Popped(@)]
  /\ UNCHANGED <<started, active, connections, outq, cb, counts, history>>

-----------------------------------------------------------------------------
(* The process callback.                                                   *)

\* It returns at once unless the patchbay is started.  A block has any events
\* of the inputs, one input after the other.
Blocks == {from \in UNION {[1 .. n -> Inputs] : n \in 0 .. MaxEvents - events} :
             \A j, k \in DOMAIN from : j < k => from[j] <= from[k]}
Begin(from) ==
  LET new == [k \in DOMAIN from |-> [id |-> events + k, input |-> from[k]]]
  IN  /\ active /\ started /\ cb.pc = "idle"
      /\ events' = events + Len(from)
      /\ cb' = [pc |-> "output", out |-> 1, events |-> new, slot |-> 0]
      /\ block' = [events |-> new, routes |-> routes, wrote |-> << >>]
      /\ UNCHANGED <<started, active, connections, inq, outq, control, sends, configs, routes,
                     sent, played, heard, polled>>

\* What was sent to an output is played, until its queue is empty.
PlayNext ==
  /\ cb.pc = "output"
  /\ cb' = IF cb.out > NOutputs THEN [cb EXCEPT !.pc = "input"]
           ELSE IF IsEmpty(outq[cb.out]) THEN [cb EXCEPT !.out = @ + 1]
           ELSE [cb EXCEPT !.pc = "played"]
  /\ played' = IF cb'.pc # "played" THEN played
               ELSE [played EXCEPT ![cb.out] = Append(@, Front(outq[cb.out]))]
  /\ UNCHANGED <<started, active, connections, inq, outq, control, counts, routes, block,
                 sent, heard, polled>>
PlayEnd ==
  /\ cb.pc = "played"
  /\ outq' = [outq EXCEPT ![cb.out] = Popped(@)]
  /\ cb' = [cb EXCEPT !.pc = "output"]
  /\ UNCHANGED <<started, active, connections, inq, control, counts, history>>

\* The next event is queued for poll, unless the queue is full ...
Hear ==
  /\ cb.pc = "input" /\ cb.events # << >>
  /\ LET e == Head(cb.events)
     IN  IF Full(inq[e.input])
         THEN /\ cb' = [cb EXCEPT !.pc = "route", !.slot = 1]
              /\ UNCHANGED <<inq, heard>>
         ELSE /\ cb' = [cb EXCEPT !.pc = "heard"]
              /\ inq' = [inq EXCEPT ![e.input] = Stored(@, e.id)]
              /\ heard' = [heard EXCEPT ![e.input] = Append(@, e.id)]
  /\ UNCHANGED <<started, active, connections, outq, control, counts, routes, block, sent,
                 played, polled>>
HearEnd ==
  /\ cb.pc = "heard"
  /\ inq' = [inq EXCEPT ![Head(cb.events).input] = Pushed(@)]
  /\ cb' = [cb EXCEPT !.pc = "route", !.slot = 1]
  /\ UNCHANGED <<started, active, connections, outq, control, counts, history>>

\* ... and forwarded along the routes: a slot is tested, then its output read.
NextSlot == IF cb.slot = Connections
            THEN [cb EXCEPT !.pc = "input", !.events = Tail(@), !.slot = 0]
            ELSE [cb EXCEPT !.pc = "route", !.slot = @ + 1]
Route ==
  /\ cb.pc = "route"
  /\ LET c == connections[cb.slot]
     IN  cb' = IF c.active /\ c.input = Head(cb.events).input
               THEN [cb EXCEPT !.pc = "write"] ELSE NextSlot
  /\ UNCHANGED <<started, active, connections, inq, outq, control, counts, history>>
WriteEvent ==
  /\ cb.pc = "write" /\ cb' = NextSlot
  /\ block' = [block EXCEPT !.wrote =
                 Append(@, <<Head(cb.events).id, connections[cb.slot].output>>)]
  /\ UNCHANGED <<started, active, connections, inq, outq, control, counts, routes, sent,
                 played, heard, polled>>
Return ==
  /\ cb.pc = "input" /\ cb.events = << >>
  /\ cb' = CbIdle /\ block' = NoBlock
  /\ UNCHANGED <<started, active, connections, inq, outq, control, counts, routes, sent,
                 played, heard, polled>>

Control ==
  \/ \E i \in Inputs, o \in Outputs : Connect(i, o) \/ Disconnect(i, o)
  \/ Activate \/ Stop \/ Deactivate \/ \E ok \in BOOLEAN : Started(ok)
  \/ (\E o \in Outputs : Send(o)) \/ SendEnd \/ (\E i \in Inputs : Poll(i)) \/ PollEnd
Callback ==
  \/ \E from \in Blocks : Begin(from)
  \/ PlayNext \/ PlayEnd \/ Hear \/ HearEnd \/ Route \/ WriteEvent \/ Return

Next == Control \/ Callback
Spec == Init /\ [][Next]_vars

-----------------------------------------------------------------------------
Times(x, s) == Cardinality({k \in DOMAIN s : s[k] = x})
Queued(q) == [k \in 1 .. (q.write - q.read) % IndexMod |-> q.packets[(q.read + k - 1) % QueueSize]]

\* When the callback returns, each event of its block has been forwarded
\* exactly once to every output its input has a route to, and to no other:
\* no matter how routes were connected, repeated and given up before.
RoutedOnce ==
  (cb.pc = "input" /\ cb.events = << >>) =>
    \A k \in DOMAIN block.events, o \in Outputs :
      Times(<<block.events[k].id, o>>, block.wrote) =
        IF <<block.events[k].input, o>> \in block.routes THEN 1 ELSE 0

\* What was accepted for an output is played, and what was accepted from an
\* input polled, completely and in order, across stops, starts and the wrap
\* of the counters; the steps under way are the only difference.
QueuesInOrder ==
  /\ \A o \in Outputs :
       cb.pc # "played" /\ control.pc # "sent" => played[o] \o Queued(outq[o]) = sent[o]
  /\ \A i \in Inputs :
       cb.pc # "heard" /\ control.pc # "polled" => polled[i] \o Queued(inq[i]) = heard[i]

PatchbayExact == RoutedOnce /\ QueuesInOrder
=============================================================================
