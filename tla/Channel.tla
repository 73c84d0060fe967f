------------------------------ MODULE Channel ------------------------------
(***************************************************************************)
(* Channel of std::sync (stdlib/src/std_sync.c): a bounded string channel  *)
(* for any number of sending and receiving threads, a monitor of one       *)
(* mutex and the condition variables can_send and can_recv.                *)
(* See CondVar for how critical sections, waits and wakeups are modelled.  *)
(***************************************************************************)
EXTENDS Integers, Sequences, FiniteSets, CondVar

CONSTANTS Senders, Receivers,   \* the threads
          Values,               \* the messages
          Empty,                \* the message of length zero, if in Values
          Null,                 \* a slot that owns no message
          Capacity,             \* number of slots (default 64)
          MaxSend,              \* bound on the messages accepted
          AllocFails            \* TRUE: copying a message may fail

ChannelAssumption ==
  /\ Capacity \in Nat \ {0} /\ MaxSend \in Nat /\ AllocFails \in BOOLEAN
  /\ Null \notin Values /\ Senders \cap Receivers = {}
  /\ IsFiniteSet(Senders) /\ IsFiniteSet(Receivers)

Threads == Senders \cup Receivers

VARIABLES
  pc,                  \* where each thread is
  val,                 \* the message a thread is blocked sending
  result,              \* what each receiver's last call returned
  closed, count, head, tail, items,   \* the fields of the channel
  live,                \* not freed yet
  sent, got            \* ghosts: messages put into and taken out of the ring

ring == <<count, head, tail, items>>
vars == <<pc, val, result, closed, ring, live, sent, got>>

\* (i + 1) % cap for an index below cap.
NextSlot(i) == IF i + 1 = Capacity THEN 0 ELSE i + 1

\* channel_new (a capacity <= 0 asks for the default).
Init ==
  /\ pc = [t \in Threads |-> "idle"] /\ val = [t \in Senders |-> Null]
  /\ result = [t \in Receivers |-> "none"]
  /\ closed = FALSE /\ count = 0 /\ head = 0 /\ tail = 0
  /\ items = [i \in 0 .. Capacity - 1 |-> Null]
  /\ live = TRUE /\ sent = << >> /\ got = << >>

At(s) == {t \in Threads : pc[t] = s}

-----------------------------------------------------------------------------
\* A thread may run the body of send when it calls send(v) or when it has
\* been woken while it was sending v.  The calls are bounded by MaxSend.
MaySend(t, v) ==
  \/ /\ live /\ pc[t] = "idle"
     /\ Len(sent) + Cardinality(At("sendWait") \cup At("sendWoken")) < MaxSend
  \/ pc[t] = "sendWoken" /\ v = val[t]

\* The channel is full and open: wait on can_send.
SendWait(t, v) ==
  /\ MaySend(t, v)
  /\ count = Capacity /\ ~closed
  /\ pc' = [pc EXCEPT ![t] = "sendWait"]
  /\ val' = [val EXCEPT ![t] = v]
  /\ UNCHANGED <<result, closed, ring, live, sent, got>>

\* The channel is closed, or the copy of the message cannot be allocated:
\* return -1.
SendFail(t, v) ==
  /\ MaySend(t, v)
  /\ closed \/ (AllocFails /\ count < Capacity)
  /\ pc' = [pc EXCEPT ![t] = "idle"]
  /\ val' = [val EXCEPT ![t] = Null]
  /\ UNCHANGED <<result, closed, ring, live, sent, got>>

\* Mutant: a sender signals its own condition.
SendPutWrongSignal(t, v) ==
  /\ MaySend(t, v)
  /\ count < Capacity /\ ~closed
  /\ items' = [items EXCEPT ![tail] = v]
  /\ tail' = NextSlot(tail) /\ count' = count + 1
  /\ sent' = Append(sent, v)
  /\ \E f \in Signal([pc EXCEPT ![t] = "idle"], "sendWait", "sendWoken") : pc' = f
  /\ val' = [val EXCEPT ![t] = Null]
  /\ UNCHANGED <<result, closed, head, live, got>>

\* Mutant: the while loops of send test `closed' only before the first wait.
SendPutAfterClose(t, v) ==
  /\ MaySend(t, v)
  /\ count < Capacity /\ (~closed \/ pc[t] = "sendWoken")
  /\ items' = [items EXCEPT ![tail] = v]
  /\ tail' = NextSlot(tail) /\ count' = count + 1
  /\ sent' = Append(sent, v)
  /\ \E f \in Signal([pc EXCEPT ![t] = "idle"], "recvWait", "recvWoken") : pc' = f
  /\ val' = [val EXCEPT ![t] = Null]
  /\ UNCHANGED <<result, closed, head, live, got>>

\* Mutant: `if' instead of `while': a woken sender does not test again.
SendPutNoRecheck(t, v) ==
  /\ MaySend(t, v)
  /\ (count < Capacity \/ pc[t] = "sendWoken") /\ ~closed
  /\ items' = [items EXCEPT ![tail] = v]
  /\ tail' = NextSlot(tail) /\ count' = count + 1
  /\ sent' = Append(sent, v)
  /\ \E f \in Signal([pc EXCEPT ![t] = "idle"], "recvWait", "recvWoken") : pc' = f
  /\ val' = [val EXCEPT ![t] = Null]
  /\ UNCHANGED <<result, closed, head, live, got>>

\* Room: store the copy, signal can_recv, return 0.
SendPut(t, v) ==
  /\ MaySend(t, v)
  /\ count < Capacity /\ ~closed
  /\ items' = [items EXCEPT ![tail] = v]
  /\ tail' = NextSlot(tail) /\ count' = count + 1
  /\ sent' = Append(sent, v)
  /\ \E f \in Signal([pc EXCEPT ![t] = "idle"], "recvWait", "recvWoken") : pc' = f
  /\ val' = [val EXCEPT ![t] = Null]
  /\ UNCHANGED <<result, closed, head, live, got>>

MayRecv(t) == (live /\ pc[t] = "idle") \/ pc[t] = "recvWoken"

\* recv: empty and open, wait on can_recv.
RecvWait(t) ==
  /\ MayRecv(t)
  /\ count = 0 /\ ~closed
  /\ pc' = [pc EXCEPT ![t] = "recvWait"]
  /\ UNCHANGED <<val, result, closed, ring, live, sent, got>>

\* try_recv: empty, return 0 or -2 at once.
TryRecvNothing(t) ==
  /\ live /\ pc[t] = "idle"
  /\ count = 0
  /\ result' = [result EXCEPT ![t] = IF closed THEN "zero" ELSE "empty"]
  /\ UNCHANGED <<pc, val, closed, ring, live, sent, got>>

\* recv: closed and drained, return 0.
RecvClosed(t) ==
  /\ MayRecv(t)
  /\ count = 0 /\ closed
  /\ result' = [result EXCEPT ![t] = "zero"]
  /\ pc' = [pc EXCEPT ![t] = "idle"]
  /\ UNCHANGED <<val, closed, ring, live, sent, got>>

\* channel_pop_into_buf, for recv and try_recv: take the oldest message,
\* signal can_send, copy it to the caller's buffer and return its length; the
\* message is gone also when the buffer is unusable and -1 is returned.
RecvTake(t, usable) ==
  /\ MayRecv(t)
  /\ count > 0
  /\ got' = Append(got, items[head])
  /\ items' = [items EXCEPT ![head] = Null]
  /\ head' = NextSlot(head) /\ count' = count - 1
  /\ \E f \in Signal([pc EXCEPT ![t] = "idle"], "sendWait", "sendWoken") : pc' = f
  /\ result' = [result EXCEPT ![t] = IF ~usable THEN "error"
                                     ELSE IF items[head] = Empty THEN "zero"
                                     ELSE "bytes"]
  /\ UNCHANGED <<val, closed, tail, live, sent>>

\* Mutant: close wakes a single receiver.
CloseWakesOne ==
  /\ live /\ ~closed
  /\ closed' = TRUE
  /\ \E f \in Signal(pc, "recvWait", "recvWoken") :
        pc' = Broadcast(f, "sendWait", "sendWoken")
  /\ UNCHANGED <<val, result, ring, live, sent, got>>

\* close by any thread: no more messages, wake everybody.
Close ==
  /\ live /\ ~closed
  /\ closed' = TRUE
  /\ pc' = Broadcast(Broadcast(pc, "recvWait", "recvWoken"), "sendWait", "sendWoken")
  /\ UNCHANGED <<val, result, ring, live, sent, got>>

\* pthread_cond_wait may return without a signal.
SpuriousWakeup(t) ==
  /\ pc[t] \in {"sendWait", "recvWait"}
  /\ pc' = [pc EXCEPT ![t] = IF @ = "sendWait" THEN "sendWoken" ELSE "recvWoken"]
  /\ UNCHANGED <<val, result, closed, ring, live, sent, got>>

\* free, which its users call when no thread uses the channel any more.
Free ==
  /\ live /\ At("idle") = Threads
  /\ live' = FALSE /\ closed' = TRUE
  /\ items' = [i \in DOMAIN items |-> Null]
  /\ UNCHANGED <<pc, val, result, count, head, tail, sent, got>>

Send(t) == \E v \in Values : SendWait(t, v) \/ SendFail(t, v) \/ SendPut(t, v)
Recv(t) == RecvWait(t) \/ RecvClosed(t) \/ \E b \in BOOLEAN : RecvTake(t, b)

Next ==
  \/ \E t \in Senders : Send(t)
  \/ \E t \in Receivers : Recv(t) \/ TryRecvNothing(t)
  \/ \E t \in Threads : SpuriousWakeup(t)
  \/ Close \/ Free

Spec == Init /\ [][Next]_vars

\* A woken thread gets the mutex (the critical sections are short and few
\* threads compete), and every receiver calls recv again after each message.
FairSpec ==
  /\ Spec
  /\ \A t \in Senders : WF_vars(pc[t] = "sendWoken" /\ Send(t))
  /\ \A t \in Receivers : WF_vars(Recv(t))

-----------------------------------------------------------------------------
\* No lost wakeup: as long as somebody waits on a condition, at least as many
\* threads are on their way to the mutex as there are free slots (for
\* senders) or messages (for receivers), although each send and each receive
\* signals only one thread, and others may barge in before it runs.
NoLostWakeup ==
  /\ At("sendWait") # {} =>
       ~closed /\ Cardinality(At("sendWoken")) >= Capacity - count
  /\ At("recvWait") # {} =>
       ~closed /\ Cardinality(At("recvWoken")) >= count

\* `0' means the channel is closed and drained: nothing arrives afterwards,
\* for any receiver.
ClosedMeansDrained ==
  (\E t \in Receivers : result[t] = "zero") => closed /\ Len(got) = Len(sent)

\* The channel implements the closable bounded FIFO, whoever sends, receives
\* and closes.
Fifo0 == INSTANCE BoundedFifo
ChannelIsFifo == Fifo0!FifoSpec

\* Nobody is blocked for ever: neither a sender, as long as receivers keep
\* receiving, nor, once the channel is closed, anybody.
BlockedReturn ==
  /\ \A t \in Senders : (pc[t] = "sendWait") ~> (pc[t] = "idle")
  /\ closed ~> At("idle") = Threads
=============================================================================
