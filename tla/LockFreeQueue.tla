--------------------------- MODULE LockFreeQueue ---------------------------
(***************************************************************************)
(* LockFreeQueue of std::sync (stdlib/src/std_sync.c): the lock-free       *)
(* string queue between one producer and one consumer.  Unlike SpscQueue   *)
(* it can be closed, its indices are free-running size_t counters that     *)
(* wrap at the width of the type and are reduced modulo the capacity at    *)
(* each access, and the slots own heap copies of the messages.             *)
(*                                                                         *)
(* As in SpscQueue an acquire load returns any value stored since the      *)
(* last load, so each side has a lagging view of what the other stores.    *)
(***************************************************************************)
EXTENDS Integers, Sequences

CONSTANTS Values,          \* the messages
          Empty,           \* the message of length zero, if it is in Values
          Null,            \* a slot that owns no message
          Capacity,        \* number of slots
          IndexMod,        \* the indices are size_t: computed modulo this
          MaxSend,         \* bound on the messages sent
          Closers          \* who may call close: "producer" or "any" thread

\* Reducing a wrapping counter modulo Capacity is only sound when the wrap
\* is a multiple of Capacity or is never reached (2^64 messages).
LfAssumption ==
  /\ Capacity \in Nat \ {0} /\ IndexMod \in Nat /\ IndexMod > Capacity
  /\ IndexMod % Capacity = 0 \/ MaxSend < IndexMod
  /\ MaxSend \in Nat /\ Null \notin Values
  /\ Closers \subseteq {"producer", "any"}

VARIABLES
  head, tail, closed,     \* the three atomics
  headView, closedViewP,  \* what the producer's loads return
  tailView, closedViewC,  \* what the consumer's loads return
  items,                  \* the slots
  ppc, msgP,              \* producer: step of send, the copy it made
  cpc, msgC,              \* consumer: step of try_recv, the message taken
  result,                 \* what the consumer's last try_recv returned
  zeros,                  \* ghost: try_recv calls that returned 0 in a row
  closer,                 \* how this queue is used: who calls close
  live,                   \* not freed yet
  sent, got               \* ghosts: messages whose send / receive published

pvars == <<tail, ppc, msgP, sent>>
cvars == <<head, cpc, msgC, result, zeros, got>>
views == <<headView, closedViewP, tailView, closedViewC>>
vars  == <<pvars, cvars, views, closed, items, live, closer>>

Slot(i) == i % Capacity

\* lfqueue_new (a capacity <= 0 asks for the default of 256).
Init ==
  /\ head = 0 /\ tail = 0 /\ closed = FALSE
  /\ headView = 0 /\ tailView = 0 /\ closedViewP = FALSE /\ closedViewC = FALSE
  /\ items = [i \in 0 .. Capacity - 1 |-> Null]
  /\ ppc = "idle" /\ msgP = Null /\ cpc = "idle" /\ msgC = Null
  /\ result = "none" /\ zeros = 0 /\ live = TRUE /\ closer \in Closers
  /\ sent = << >> /\ got = << >>

-----------------------------------------------------------------------------
\* Mutant: the test for a full queue is off by one.
LooksFullLate == (tail - headView) % IndexMod > Capacity

LooksFull == (tail - headView) % IndexMod >= Capacity

\* send: refused because the queue looks closed or full, or because the copy
\* of the message cannot be allocated.
SendRefused ==
  /\ live /\ ppc = "idle"
  /\ UNCHANGED vars

\* send: open and not full, the message has been copied to the heap.
SendBegin(v) ==
  /\ live /\ ppc = "idle" /\ Len(sent) < MaxSend
  /\ ~closedViewP /\ ~LooksFull
  /\ ppc' = "store" /\ msgP' = v
  /\ UNCHANGED <<tail, sent, cvars, views, closed, items, live, closer>>

SendStore ==
  /\ ppc = "store"
  /\ items' = [items EXCEPT ![Slot(tail)] = msgP]
  /\ ppc' = "publish"
  /\ UNCHANGED <<tail, msgP, sent, cvars, views, closed, live, closer>>

SendPublish ==
  /\ ppc = "publish"
  /\ tail' = (tail + 1) % IndexMod
  /\ sent' = Append(sent, msgP)
  /\ ppc' = "idle" /\ msgP' = Null
  /\ UNCHANGED <<cvars, views, closed, items, live, closer>>

\* Mutant: a closed queue is reported closed before it is looked into.
RecvLoadClosedFirst ==
  /\ live /\ cpc = "idle"
  /\ cpc' = IF head = tailView \/ closedViewC THEN "empty" ELSE "take"
  /\ UNCHANGED <<head, msgC, result, zeros, got, pvars, views, closed, items, live, closer>>

\* try_recv: the two loads of the indices decide.
RecvLoad ==
  /\ live /\ cpc = "idle"
  /\ cpc' = IF head = tailView THEN "empty" ELSE "take"
  /\ UNCHANGED <<head, msgC, result, zeros, got, pvars, views, closed, items, live, closer>>

\* try_recv: empty, so load closed and return 0 or -2.  When the producer's
\* thread made the store of closed this load acquires, what it sent before
\* is visible from here on.
RecvEmpty ==
  /\ cpc = "empty"
  /\ result' = IF closedViewC THEN "zero" ELSE "empty"
  /\ zeros' = IF closedViewC THEN IF zeros < 2 THEN zeros + 1 ELSE 2 ELSE 0
  /\ tailView' = IF closedViewC /\ closer = "producer" THEN tail ELSE tailView
  /\ cpc' = "idle"
  /\ UNCHANGED <<head, msgC, got, pvars, headView, closedViewP, closedViewC,
                 closed, items, live, closer>>

\* Mutant: the consumer publishes the slot but keeps the pointer in it.
RecvTakeKeepsPointer ==
  /\ cpc = "take"
  /\ msgC' = items[Slot(head)]
  /\ cpc' = "publish"
  /\ UNCHANGED <<head, result, zeros, got, pvars, views, closed, items, live, closer>>

RecvTake ==
  /\ cpc = "take"
  /\ msgC' = items[Slot(head)]
  /\ items' = [items EXCEPT ![Slot(head)] = Null]
  /\ cpc' = "publish"
  /\ UNCHANGED <<head, result, zeros, got, pvars, views, closed, live, closer>>

\* The release store of head; the message, now private, is copied to the
\* caller's buffer and freed; the result is its length.
RecvPublish ==
  /\ cpc = "publish"
  /\ head' = (head + 1) % IndexMod
  /\ got' = Append(got, msgC)
  /\ result' = IF msgC = Empty THEN "zero" ELSE "bytes"
  /\ zeros' = 0
  /\ cpc' = "idle" /\ msgC' = Null
  /\ UNCHANGED <<pvars, views, closed, items, live, closer>>

Close ==
  /\ live /\ ~closed
  /\ closer = "producer" => ppc = "idle"
  /\ closed' = TRUE
  /\ closedViewP' = (closer = "producer" \/ closedViewP)
  /\ UNCHANGED <<pvars, cvars, headView, tailView, closedViewC, items, live, closer>>

\* Stores become visible to the other side.
PropagateHead ==
  /\ headView # head
  /\ headView' = head
  /\ UNCHANGED <<pvars, cvars, tailView, closedViewP, closedViewC, closed, items, live, closer>>

PropagateTail ==
  /\ tailView # tail
  /\ tailView' = tail
  /\ UNCHANGED <<pvars, cvars, headView, closedViewP, closedViewC, closed, items, live, closer>>

PropagateClosed ==
  /\ closed
  /\ \/ ~closedViewP /\ closedViewP' = TRUE /\ UNCHANGED closedViewC
     \/ ~closedViewC /\ closedViewC' = TRUE /\ UNCHANGED closedViewP
  /\ UNCHANGED <<pvars, cvars, headView, tailView, closed, items, live, closer>>

\* lfqueue_free, after both threads have stopped: frees what is left.
Free ==
  /\ live /\ ppc = "idle" /\ cpc = "idle"
  /\ closed' = TRUE /\ live' = FALSE
  /\ items' = [i \in DOMAIN items |-> Null]
  /\ UNCHANGED <<pvars, cvars, views, closer>>

Next ==
  \/ SendRefused \/ (\E v \in Values : SendBegin(v)) \/ SendStore \/ SendPublish
  \/ RecvLoad \/ RecvEmpty \/ RecvTake \/ RecvPublish
  \/ Close \/ PropagateHead \/ PropagateTail \/ PropagateClosed \/ Free

Spec == Init /\ [][Next]_vars

-----------------------------------------------------------------------------
\* A slot owns its message alone: the producer never overwrites one that has
\* not been taken (it would leak) and the consumer never takes an empty slot
\* (it would report a message of length zero that nobody sent).
SlotOwnership ==
  /\ ppc = "store" => items[Slot(tail)] = Null
  /\ cpc = "take" => items[Slot(head)] # Null

\* The queue implements the bounded FIFO, also when the size_t counters wrap:
\* the closable one when the producer's thread closes, so that nothing is
\* accepted after the close; otherwise a send may pass the closed test just
\* before another thread closes, and it implements one that stays open.
Fifo0 == INSTANCE BoundedFifo WITH closed <- closed /\ closer = "producer"
QueueIsFifo == Fifo0!FifoSpec

\* What the documentation of try_recv says: `0` when closed and drained.
ZeroMeansDrained ==
  closer = "producer" /\ result = "zero" => closed /\ Len(got) = Len(sent)

\* What the code guarantees when the producer's thread closes: the first 0
\* may come from a tail loaded before the last send, but the second 0 in a
\* row is final.
SecondZeroIsFinal ==
  closer = "producer" /\ zeros = 2 /\ result = "zero" => closed /\ Len(got) = Len(sent)
=============================================================================
