--------------------------- MODULE ChannelProofs ---------------------------
(***************************************************************************)
(* Proofs about Channel for every number of senders and receivers, every   *)
(* capacity and every set of messages.                                     *)
(*                                                                         *)
(* ClosedMeansDrained and the refinement need the ring (Ring): head and    *)
(* tail are count slots apart, count is what has been sent and not taken,  *)
(* and those slots hold it in order.  NoLostWakeup is inductive once it is *)
(* known that only senders wait on can_send and only receivers on can_recv *)
(* (ChannelTypeOK).                                                        *)
(***************************************************************************)
EXTENDS Channel, FiniteSetTheorems, TLAPS

Slots == 0 .. Capacity - 1

\* The slot n positions after the slot numbered 0, for n below 2 * Capacity.
Wrap(n) == IF n >= Capacity THEN n - Capacity ELSE n

Placed ==
  /\ pc \in [Threads -> {"idle", "sendWait", "sendWoken", "recvWait", "recvWoken"}]
  /\ \A t \in Senders : pc[t] \in {"idle", "sendWait", "sendWoken"}
  /\ \A t \in Receivers : pc[t] \in {"idle", "recvWait", "recvWoken"}

Flags == closed \in BOOLEAN /\ live \in BOOLEAN

RingTypeOK ==
  /\ count \in Nat /\ count <= Capacity /\ head \in Slots /\ tail \in Slots
  /\ items \in [Slots -> Values \cup {Null}]
  /\ sent \in Seq(Values) /\ got \in Seq(Values)

ResultTypeOK ==
  /\ val \in [Senders -> Values \cup {Null}]
  /\ result \in [Receivers -> {"none", "zero", "empty", "error", "bytes"}]

ChannelTypeOK == Placed /\ Flags /\ RingTypeOK /\ ResultTypeOK

\* A sender that is blocked knows what it sends.
Blocked == \A t \in Senders : pc[t] # "idle" => val[t] \in Values

\* After free nobody is inside a call.
Freed == ~live => closed /\ \A t \in Threads : pc[t] = "idle"

Queued ==
  \A i \in 1 .. count : items[Wrap(head + (i - 1))] = sent[Len(got) + i]

Ring ==
  /\ Len(sent) = Len(got) + count
  /\ tail = Wrap(head + count)
  /\ live => Queued

ChannelInv == ChannelTypeOK /\ Blocked /\ Freed /\ Ring

-----------------------------------------------------------------------------
LEMMA WrapFacts ==
  ASSUME ChannelAssumption, NEW h \in Slots, NEW n \in 0 .. Capacity
  PROVE  /\ Wrap(h + n) \in Slots /\ NextSlot(h) \in Slots
         /\ n < Capacity => NextSlot(Wrap(h + n)) = Wrap(h + (n + 1))
         /\ n > 0 => Wrap(h + n) = Wrap(NextSlot(h) + (n - 1))
         /\ \A m \in 0 .. Capacity - 1 : n < Capacity /\ m # n => Wrap(h + m) # Wrap(h + n)
  BY DEF ChannelAssumption, Slots, Wrap, NextSlot

\* pthread_cond_signal wakes one of the waiting threads, if there is any.
LEMMA SignalWakesOne ==
  ASSUME NEW p, DOMAIN p = Threads, NEW from, NEW to, NEW f \in Signal(p, from, to)
  PROVE  \/ (\A u \in Threads : p[u] # from) /\ f = p
         \/ \E u \in Threads : p[u] = from /\ f = [p EXCEPT ![u] = to]
  BY DEF Signal

LEMMA PutShape ==
  ASSUME ChannelAssumption, ChannelInv, NEW t \in Senders, NEW v \in Values, SendPut(t, v)
  PROVE  /\ live /\ pc[t] \in {"idle", "sendWoken"} /\ Placed' /\ pc'[t] = "idle"
         /\ \/ /\ \A u \in Receivers : pc[u] # "recvWait"
               /\ \A x \in Threads \ {t} : pc'[x] = pc[x]
            \/ \E u \in Receivers :
                 /\ pc[u] = "recvWait" /\ pc'[u] = "recvWoken"
                 /\ \A x \in Threads \ {t, u} : pc'[x] = pc[x]
<1> USE DEF ChannelInv, ChannelTypeOK, Placed
<1>1. live /\ pc[t] \in {"idle", "sendWoken"}
  BY DEF SendPut, MaySend, Freed, Threads
<1> DEFINE q == [pc EXCEPT ![t] = "idle"]
<1>2. PICK f \in Signal(q, "recvWait", "recvWoken") : pc' = f
  BY DEF SendPut
<1>3. /\ DOMAIN q = Threads /\ q[t] = "idle" /\ \A x \in Threads \ {t} : q[x] = pc[x]
      /\ \A x \in Threads : q[x] = "recvWait" => x \in Receivers /\ pc[x] = "recvWait" /\ x # t
      /\ q \in [Threads -> {"idle", "sendWait", "sendWoken", "recvWait", "recvWoken"}]
  BY DEF Threads, ChannelAssumption
<1>4. t \notin Receivers /\ Receivers \subseteq Threads
  BY DEF Threads, ChannelAssumption
<1> HIDE DEF q
<1>5. \/ (\A u \in Threads : q[u] # "recvWait") /\ pc' = q
      \/ \E u \in Threads : q[u] = "recvWait" /\ pc' = [q EXCEPT ![u] = "recvWoken"]
  BY <1>2, <1>3, SignalWakesOne
<1>6. CASE (\A u \in Threads : q[u] # "recvWait") /\ pc' = q
  BY <1>1, <1>3, <1>4, <1>6 DEF Threads
<1>7. ASSUME NEW u \in Threads, q[u] = "recvWait", pc' = [q EXCEPT ![u] = "recvWoken"]
      PROVE  /\ Placed' /\ pc'[t] = "idle" /\ u \in Receivers /\ pc[u] = "recvWait"
             /\ pc'[u] = "recvWoken" /\ \A x \in Threads \ {t, u} : pc'[x] = pc[x]
  BY <1>1, <1>3, <1>4, <1>7 DEF Threads
<1> QED
  BY <1>1, <1>5, <1>6, <1>7

LEMMA TakeShape ==
  ASSUME ChannelAssumption, ChannelInv, NEW t \in Receivers, NEW b \in BOOLEAN, RecvTake(t, b)
  PROVE  /\ live /\ pc[t] \in {"idle", "recvWoken"} /\ Placed' /\ pc'[t] = "idle"
         /\ \/ /\ \A u \in Senders : pc[u] # "sendWait"
               /\ \A x \in Threads \ {t} : pc'[x] = pc[x]
            \/ \E u \in Senders :
                 /\ pc[u] = "sendWait" /\ pc'[u] = "sendWoken"
                 /\ \A x \in Threads \ {t, u} : pc'[x] = pc[x]
<1> USE DEF ChannelInv, ChannelTypeOK, Placed
<1>1. live /\ pc[t] \in {"idle", "recvWoken"}
  BY DEF RecvTake, MayRecv, Freed, Threads
<1> DEFINE q == [pc EXCEPT ![t] = "idle"]
<1>2. PICK f \in Signal(q, "sendWait", "sendWoken") : pc' = f
  BY DEF RecvTake
<1>3. /\ DOMAIN q = Threads /\ q[t] = "idle" /\ \A x \in Threads \ {t} : q[x] = pc[x]
      /\ \A x \in Threads : q[x] = "sendWait" => x \in Senders /\ pc[x] = "sendWait" /\ x # t
      /\ q \in [Threads -> {"idle", "sendWait", "sendWoken", "recvWait", "recvWoken"}]
  BY DEF Threads, ChannelAssumption
<1>4. t \notin Senders /\ Senders \subseteq Threads
  BY DEF Threads, ChannelAssumption
<1> HIDE DEF q
<1>5. \/ (\A u \in Threads : q[u] # "sendWait") /\ pc' = q
      \/ \E u \in Threads : q[u] = "sendWait" /\ pc' = [q EXCEPT ![u] = "sendWoken"]
  BY <1>2, <1>3, SignalWakesOne
<1>6. CASE (\A u \in Threads : q[u] # "sendWait") /\ pc' = q
  BY <1>1, <1>3, <1>4, <1>6 DEF Threads
<1>7. ASSUME NEW u \in Threads, q[u] = "sendWait", pc' = [q EXCEPT ![u] = "sendWoken"]
      PROVE  /\ Placed' /\ pc'[t] = "idle" /\ u \in Senders /\ pc[u] = "sendWait"
             /\ pc'[u] = "sendWoken" /\ \A x \in Threads \ {t, u} : pc'[x] = pc[x]
  BY <1>1, <1>3, <1>4, <1>7 DEF Threads
<1> QED
  BY <1>1, <1>5, <1>6, <1>7

-----------------------------------------------------------------------------
LEMMA ChannelInitInv ==
  ASSUME ChannelAssumption, Init
  PROVE  ChannelInv
<1> USE DEF ChannelAssumption, Init
<1>1. closed \in BOOLEAN /\ live \in BOOLEAN
  OBVIOUS
<1>2. ChannelTypeOK
  BY <1>1 DEF ChannelTypeOK, Placed, Flags, RingTypeOK, ResultTypeOK, Slots, Threads
<1>3. Blocked /\ Freed /\ Ring
  BY DEF Blocked, Freed, Ring, Queued, Wrap, Threads
<1> QED
  BY <1>2, <1>3 DEF ChannelInv

\* Steps that leave the ring alone.
LEMMA RingKept ==
  ASSUME Ring, UNCHANGED <<ring, live, sent, got>>
  PROVE  Ring'
  BY DEF Ring, Queued, ring

LEMMA SendPutInv ==
  ASSUME ChannelAssumption, ChannelInv, NEW t \in Senders, NEW v \in Values, SendPut(t, v)
  PROVE  ChannelInv'
<1>0. /\ live /\ closed = FALSE /\ count < Capacity /\ count \in Nat
      /\ items' = [items EXCEPT ![tail] = v] /\ tail' = NextSlot(tail)
      /\ count' = count + 1 /\ sent' = Append(sent, v)
      /\ val' = [val EXCEPT ![t] = Null]
      /\ UNCHANGED <<result, closed, head, live, got>>
  BY PutShape DEF SendPut, ChannelInv, ChannelTypeOK, Flags, RingTypeOK
<1>1. \A u \in Senders : pc'[u] # "idle" => u # t /\ pc[u] # "idle"
  BY PutShape DEF ChannelAssumption, Threads
<1>2. ChannelTypeOK'
  <2>1. NextSlot(tail) \in Slots
    BY WrapFacts DEF ChannelInv, ChannelTypeOK, RingTypeOK, ChannelAssumption
  <2>2. RingTypeOK'
    BY <1>0, <2>1 DEF ChannelInv, ChannelTypeOK, RingTypeOK, ChannelAssumption
  <2>3. Placed' /\ Flags' /\ ResultTypeOK'
    BY <1>0, PutShape DEF ChannelInv, ChannelTypeOK, Flags, ResultTypeOK
  <2> QED
    BY <2>2, <2>3 DEF ChannelTypeOK
<1>3. Blocked' /\ Freed'
  BY <1>0, <1>1 DEF ChannelInv, ChannelTypeOK, ResultTypeOK, Blocked, Freed
<1>4. Len(sent') = Len(got') + count' /\ tail' = Wrap(head' + count')
  <2>1. /\ head \in Slots /\ count \in Nat /\ Capacity \in Nat \ {0}
        /\ tail = Wrap(head + count)
    BY DEF ChannelInv, ChannelTypeOK, RingTypeOK, Ring, ChannelAssumption
  <2>2. tail' = Wrap(head' + count')
    BY <1>0, <2>1 DEF Wrap, Slots, NextSlot
  <2>3. Len(sent) = Len(got) + count /\ sent \in Seq(Values) /\ got \in Seq(Values)
    BY DEF ChannelInv, ChannelTypeOK, RingTypeOK, Ring
  <2> QED
    BY <1>0, <2>2, <2>3
<1>5. ASSUME NEW i \in 1 .. count'
      PROVE  items'[Wrap(head' + (i - 1))] = sent'[Len(got') + i]
  <2>0. /\ head \in Slots /\ count \in Nat /\ Capacity \in Nat \ {0}
        /\ tail = Wrap(head + count) /\ count < Capacity
        /\ i \in Int /\ 1 <= i /\ i <= count + 1
    BY <1>0 DEF ChannelInv, ChannelTypeOK, RingTypeOK, Ring, ChannelAssumption
  <2>1. i - 1 \in 0 .. Capacity - 1 /\ Wrap(head + (i - 1)) \in Slots
    BY <2>0 DEF Wrap, Slots
  <2>2. CASE i <= count
    <3>1. Wrap(head + (i - 1)) # tail
      BY <2>0, <2>2 DEF Wrap, Slots
    <3>2. items[Wrap(head + (i - 1))] = sent[Len(got) + i]
      BY <1>0, <2>2 DEF ChannelInv, Ring, Queued
    <3>3. sent'[Len(got) + i] = sent[Len(got) + i]
      BY <1>0, <2>2 DEF ChannelInv, ChannelTypeOK, RingTypeOK, Ring
    <3> QED
      BY <1>0, <2>1, <3>1, <3>2, <3>3 DEF ChannelInv, ChannelTypeOK, RingTypeOK
  <2>3. CASE i = count + 1
    <3>1. Wrap(head + (i - 1)) = tail
      BY <1>0, <2>3 DEF ChannelInv, Ring
    <3>2. sent'[Len(got) + i] = v
      BY <1>0, <2>3 DEF ChannelInv, ChannelTypeOK, RingTypeOK, Ring
    <3> QED
      BY <1>0, <3>1, <3>2 DEF ChannelInv, ChannelTypeOK, RingTypeOK
  <2> QED
    BY <2>0, <2>2, <2>3
<1> QED
  BY <1>2, <1>3, <1>4, <1>5 DEF ChannelInv, Ring, Queued

LEMMA RecvTakeInv ==
  ASSUME ChannelAssumption, ChannelInv, NEW t \in Receivers, NEW b \in BOOLEAN, RecvTake(t, b)
  PROVE  /\ ChannelInv'
         /\ items[head] = sent[Len(got) + 1] /\ Len(got) < Len(sent)
<1>0. /\ live /\ count > 0 /\ count \in Nat
      /\ items' = [items EXCEPT ![head] = Null] /\ head' = NextSlot(head)
      /\ count' = count - 1 /\ got' = Append(got, items[head])
      /\ UNCHANGED <<val, closed, tail, live, sent>>
  BY TakeShape DEF RecvTake, ChannelInv, ChannelTypeOK, RingTypeOK
<1>1. \A u \in Senders : pc'[u] # "idle" => pc[u] # "idle"
  BY TakeShape DEF ChannelAssumption, Threads
<1>2. items[head] = sent[Len(got) + 1] /\ Len(got) < Len(sent) /\ items[head] \in Values
  <2>1. items[Wrap(head + (1 - 1))] = sent[Len(got) + 1] /\ Wrap(head + (1 - 1)) = head
    <3>1. Queued /\ 1 \in 1 .. count /\ head \in Slots /\ Capacity \in Nat
      BY <1>0 DEF ChannelInv, ChannelTypeOK, RingTypeOK, Ring, ChannelAssumption
    <3>2. Wrap(head + (1 - 1)) = head
      BY <3>1 DEF Wrap, Slots
    <3> QED
      BY <3>1, <3>2 DEF Queued
  <2> QED
    BY <1>0, <2>1 DEF ChannelInv, ChannelTypeOK, RingTypeOK, Ring
<1>3. ResultTypeOK'
  BY <1>0 DEF RecvTake, ChannelInv, ChannelTypeOK, ResultTypeOK
<1>4. ChannelTypeOK'
  <2>1. NextSlot(head) \in Slots
    BY WrapFacts DEF ChannelInv, ChannelTypeOK, RingTypeOK, ChannelAssumption
  <2>2. RingTypeOK'
    BY <1>0, <1>2, <2>1 DEF ChannelInv, ChannelTypeOK, RingTypeOK, ChannelAssumption
  <2> QED
    BY <1>0, <1>3, <2>2, TakeShape DEF ChannelInv, ChannelTypeOK, Flags
<1>5. Blocked' /\ Freed'
  BY <1>0, <1>1 DEF ChannelInv, ChannelTypeOK, Blocked, Freed
<1>6. Len(sent') = Len(got') + count' /\ tail' = Wrap(head' + count')
  <2>1. /\ head \in Slots /\ count \in Nat /\ Capacity \in Nat \ {0}
        /\ tail = Wrap(head + count) /\ count <= Capacity
    BY DEF ChannelInv, ChannelTypeOK, RingTypeOK, Ring, ChannelAssumption
  <2>2. tail' = Wrap(head' + count')
    BY <1>0, <2>1 DEF Wrap, Slots, NextSlot
  <2>3. Len(sent) = Len(got) + count /\ sent \in Seq(Values) /\ got \in Seq(Values)
    BY DEF ChannelInv, ChannelTypeOK, RingTypeOK, Ring
  <2> QED
    BY <1>0, <1>2, <2>2, <2>3
<1>7. ASSUME NEW i \in 1 .. count'
      PROVE  items'[Wrap(head' + (i - 1))] = sent'[Len(got') + i]
  <2>1. i \in 1 .. Capacity - 1 /\ i + 1 \in 1 .. count /\ i \in 0 .. Capacity
    BY <1>0 DEF ChannelInv, ChannelTypeOK, RingTypeOK, ChannelAssumption
  <2>2. Wrap(head' + (i - 1)) = Wrap(head + i) /\ Wrap(head + i) \in Slots
    BY <1>0, <2>1, WrapFacts DEF ChannelInv, ChannelTypeOK, RingTypeOK
  <2>3. Wrap(head + i) # head
    BY <2>1 DEF Wrap, Slots, ChannelInv, ChannelTypeOK, RingTypeOK, ChannelAssumption
  <2>4. items[Wrap(head + i)] = sent[Len(got) + (i + 1)]
    <3>1. items[Wrap(head + ((i + 1) - 1))] = sent[Len(got) + (i + 1)]
      BY <1>0, <2>1 DEF ChannelInv, Ring, Queued
    <3>2. (i + 1) - 1 = i
      BY <2>1
    <3> QED
      BY <3>1, <3>2
  <2>5. Len(got') + i = Len(got) + (i + 1)
    BY <1>0, <1>2, <2>1 DEF ChannelInv, ChannelTypeOK, RingTypeOK
  <2> QED
    BY <1>0, <2>2, <2>3, <2>4, <2>5 DEF ChannelInv, ChannelTypeOK, RingTypeOK
<1> QED
  BY <1>2, <1>4, <1>5, <1>6, <1>7 DEF ChannelInv, Ring, Queued

LEMMA WaitingInv ==
  ASSUME ChannelAssumption, ChannelInv,
         \/ \E t \in Senders, v \in Values : SendWait(t, v) \/ SendFail(t, v)
         \/ \E t \in Receivers : RecvWait(t) \/ RecvClosed(t) \/ TryRecvNothing(t)
         \/ \E t \in Threads : SpuriousWakeup(t)
         \/ Close
         \/ UNCHANGED vars
  PROVE  ChannelInv'
<1> USE DEF ChannelInv, ChannelAssumption
<1>1. UNCHANGED <<ring, live, sent, got>>
  BY DEF SendWait, SendFail, RecvWait, RecvClosed, TryRecvNothing, SpuriousWakeup, Close, vars
<1>2. Ring'
  BY <1>1, RingKept
<1>3. ASSUME NEW t \in Senders, NEW v \in Values, SendWait(t, v) \/ SendFail(t, v)
      PROVE  ChannelTypeOK' /\ Blocked' /\ Freed'
  <2>1. CASE SendWait(t, v)
    BY <2>1 DEF SendWait, MaySend, ring, ChannelTypeOK, Blocked, Freed, Threads,
                Placed, Flags, RingTypeOK, ResultTypeOK
  <2>2. CASE SendFail(t, v)
    BY <2>2 DEF SendFail, MaySend, ring, ChannelTypeOK, Blocked, Freed, Threads,
                Placed, Flags, RingTypeOK, ResultTypeOK
  <2> QED
    BY <1>3, <2>1, <2>2
<1>4. ASSUME NEW t \in Receivers, RecvWait(t) \/ RecvClosed(t) \/ TryRecvNothing(t)
      PROVE  ChannelTypeOK' /\ Blocked' /\ Freed'
  BY <1>4 DEF RecvWait, RecvClosed, TryRecvNothing, MayRecv, ring, ChannelTypeOK, Blocked,
              Freed, Threads, Placed, Flags, RingTypeOK, ResultTypeOK
<1>5. ASSUME NEW t \in Threads, SpuriousWakeup(t)
      PROVE  ChannelTypeOK' /\ Blocked' /\ Freed'
  BY <1>5 DEF SpuriousWakeup, ring, ChannelTypeOK, Blocked, Freed, Threads,
              Placed, Flags, RingTypeOK, ResultTypeOK
<1>6. CASE Close
  <2>1. closed' \in BOOLEAN /\ live' \in BOOLEAN
    BY <1>6 DEF Close, ChannelTypeOK, Flags
  <2>2. RingTypeOK' /\ ResultTypeOK'
    BY <1>6 DEF Close, ring, ChannelTypeOK, RingTypeOK, ResultTypeOK
  <2>3. Placed' /\ \A u \in Threads : pc'[u] = "idle" <=> pc[u] = "idle"
    BY <1>6 DEF Close, Broadcast, ChannelTypeOK, Placed, Threads
  <2>4. Blocked' /\ Freed'
    BY <1>6, <2>3 DEF Close, Blocked, Freed, Threads
  <2> QED
    BY <1>2, <2>1, <2>2, <2>3, <2>4 DEF ChannelTypeOK, Flags
<1>7. CASE UNCHANGED vars
  <2>1. Flags' /\ Placed' /\ RingTypeOK' /\ ResultTypeOK'
    BY <1>7 DEF vars, ring, ChannelTypeOK, Placed, Flags, RingTypeOK, ResultTypeOK
  <2>2. Blocked' /\ Freed'
    BY <1>7 DEF vars, Blocked, Freed
  <2> QED
    BY <1>2, <2>1, <2>2 DEF ChannelTypeOK
<1> QED
  BY <1>2, <1>3, <1>4, <1>5, <1>6, <1>7

LEMMA FreeInv ==
  ASSUME ChannelAssumption, ChannelInv, Free
  PROVE  ChannelInv'
<1>1. live' \in BOOLEAN /\ closed' \in BOOLEAN
  BY DEF Free
<1>2. items' \in [Slots -> Values \cup {Null}]
  BY DEF Free, ChannelInv, ChannelTypeOK, RingTypeOK
<1>3. ChannelTypeOK'
  BY <1>1, <1>2 DEF Free, ChannelInv, ChannelTypeOK, Placed, Flags, RingTypeOK, ResultTypeOK
<1>4. Blocked' /\ Freed' /\ Ring'
  BY DEF Free, ChannelInv, Blocked, Freed, Ring, At
<1> QED
  BY <1>3, <1>4 DEF ChannelInv

LEMMA ChannelNextInv ==
  ASSUME ChannelAssumption, ChannelInv, [Next]_vars
  PROVE  ChannelInv'
  BY SendPutInv, RecvTakeInv, WaitingInv, FreeInv DEF Next, Send, Recv

\* The ring holds what has been sent and not taken, in every reachable state.
THEOREM ChannelInvariant ==
  ASSUME ChannelAssumption
  PROVE  Spec => []ChannelInv
<1>1. Init => ChannelInv
  BY ChannelInitInv
<1>2. ChannelInv /\ [Next]_vars => ChannelInv'
  BY ChannelNextInv
<1> QED
  BY <1>1, <1>2, PTL DEF Spec
-----------------------------------------------------------------------------
\* Closing is for ever, and `0' is returned to a receiver only after it.
LEMMA DrainedNext ==
  ASSUME ChannelAssumption, Empty \notin Values, ChannelInv, ClosedMeansDrained, [Next]_vars
  PROVE  ClosedMeansDrained'
<1>1. ASSUME NEW t \in Senders, NEW v \in Values, SendPut(t, v)
      PROVE  ClosedMeansDrained'
  BY <1>1 DEF SendPut, ClosedMeansDrained
<1>2. ASSUME NEW t \in Receivers, NEW b \in BOOLEAN, RecvTake(t, b)
      PROVE  ClosedMeansDrained'
  <2>1. Len(got) < Len(sent) /\ Len(got) \in Nat /\ Len(sent) \in Nat /\ items[head] # Empty
    <3>1. sent \in Seq(Values) /\ got \in Seq(Values)
      BY DEF ChannelInv, ChannelTypeOK, RingTypeOK
    <3>2. items[head] = sent[Len(got) + 1] /\ Len(got) < Len(sent)
      BY <1>2, RecvTakeInv
    <3> QED
      BY <3>1, <3>2
  <2>2. \A u \in Receivers : result[u] # "zero"
    BY <2>1 DEF ClosedMeansDrained
  <2>3. \A u \in Receivers : result'[u] # "zero"
    BY <1>2, <2>1, <2>2 DEF RecvTake, ChannelInv, ChannelTypeOK, ResultTypeOK
  <2> QED
    BY <2>3 DEF ClosedMeansDrained
<1>3. ASSUME NEW t \in Receivers, TryRecvNothing(t) \/ RecvClosed(t)
      PROVE  ClosedMeansDrained'
  <2>1. count = 0 /\ UNCHANGED <<closed, sent, got>>
    BY <1>3 DEF TryRecvNothing, RecvClosed
  <2>2. Len(got) = Len(sent)
    BY <2>1 DEF ChannelInv, ChannelTypeOK, RingTypeOK, Ring
  <2>3. \A u \in Receivers : result'[u] = "zero" => closed \/ result[u] = "zero"
    BY <1>3 DEF TryRecvNothing, RecvClosed, ChannelInv, ChannelTypeOK, ResultTypeOK
  <2> QED
    BY <2>1, <2>2, <2>3 DEF ClosedMeansDrained
<1>4. ASSUME UNCHANGED <<result, sent, got>>, closed => closed'
      PROVE  ClosedMeansDrained'
  BY <1>4 DEF ClosedMeansDrained
<1>5. ASSUME \/ \E t \in Senders, v \in Values : SendWait(t, v) \/ SendFail(t, v)
             \/ \E t \in Receivers : RecvWait(t)
             \/ \E t \in Threads : SpuriousWakeup(t)
             \/ Close \/ Free \/ UNCHANGED vars
      PROVE  UNCHANGED <<result, sent, got>> /\ (closed => closed')
  BY <1>5 DEF SendWait, SendFail, RecvWait, SpuriousWakeup, Close, Free, vars
<1> QED
  BY <1>1, <1>2, <1>3, <1>4, <1>5 DEF Next, Send, Recv

\* recv and try_recv return 0 only when the channel is closed and everything
\* that was sent has been taken, whoever sends, receives and closes, as long
\* as nobody sends the empty message (whose length is the same 0).
THEOREM ChannelZeroMeansDrained ==
  ASSUME ChannelAssumption, Empty \notin Values
  PROVE  Spec => []ClosedMeansDrained
<1>1. Init => ClosedMeansDrained
  BY DEF Init, ClosedMeansDrained
<1>2. ChannelInv /\ ClosedMeansDrained /\ [Next]_vars => ClosedMeansDrained'
  BY DrainedNext
<1> QED
  BY <1>1, <1>2, ChannelInvariant, PTL DEF Spec

-----------------------------------------------------------------------------
\* Sets of threads can be counted.
LEMMA ThreadSets ==
  ASSUME ChannelAssumption, NEW S \in SUBSET Threads, NEW t
  PROVE  /\ IsFiniteSet(S) /\ Cardinality(S) \in Nat
         /\ Cardinality(S \cup {t}) = IF t \in S THEN Cardinality(S) ELSE Cardinality(S) + 1
         /\ Cardinality(S \ {t}) = IF t \in S THEN Cardinality(S) - 1 ELSE Cardinality(S)
<1>1. IsFiniteSet(Threads)
  BY FS_Union DEF ChannelAssumption, Threads
<1>2. IsFiniteSet(S)
  BY <1>1, FS_Subset
<1> QED
  BY <1>2, FS_CardinalityType, FS_AddElement, FS_RemoveElement

LEMMA Counts ==
  ASSUME ChannelAssumption, NEW s, NEW t
  PROVE  /\ Cardinality(At(s)) \in Nat /\ Cardinality(At(s))' \in Nat
         /\ Cardinality(At(s) \cup {t}) \in Nat
         /\ Cardinality(At(s) \cup {t}) >= Cardinality(At(s))
         /\ t \notin At(s) => Cardinality(At(s) \cup {t}) = Cardinality(At(s)) + 1
         /\ Cardinality(At(s) \ {t}) \in Nat
         /\ Cardinality(At(s) \ {t}) >= Cardinality(At(s)) - 1
<1> DEFINE S == At(s)
           T == At(s)'
<1>1. S \in SUBSET Threads /\ T \in SUBSET Threads
  BY DEF At
<1> HIDE DEF S, T
<1>2. /\ Cardinality(S) \in Nat /\ Cardinality(T) \in Nat
      /\ Cardinality(S \cup {t}) = IF t \in S THEN Cardinality(S) ELSE Cardinality(S) + 1
      /\ IsFiniteSet(S \ {t})
      /\ Cardinality(S \ {t}) = IF t \in S THEN Cardinality(S) - 1 ELSE Cardinality(S)
  BY <1>1, ThreadSets, FS_RemoveElement
<1>3. Cardinality(S \ {t}) \in Nat
  BY <1>2, FS_CardinalityType
<1>4. /\ Cardinality(S \cup {t}) \in Nat /\ Cardinality(S \cup {t}) >= Cardinality(S)
      /\ t \notin S => Cardinality(S \cup {t}) = Cardinality(S) + 1
      /\ Cardinality(S \ {t}) >= Cardinality(S) - 1
  BY <1>2
<1> QED
  BY <1>2, <1>3, <1>4 DEF S, T

LEMMA WakeupNext ==
  ASSUME ChannelAssumption, AllocFails = FALSE, ChannelInv, NoLostWakeup, [Next]_vars
  PROVE  NoLostWakeup'
<1>0. /\ count \in Nat /\ Capacity \in Nat /\ count <= Capacity
      /\ Cardinality(At("sendWoken")) \in Nat /\ Cardinality(At("recvWoken")) \in Nat
  BY Counts DEF ChannelInv, ChannelTypeOK, RingTypeOK, ChannelAssumption
<1>p. Placed
  BY DEF ChannelInv, ChannelTypeOK
<1>1. ASSUME NEW t \in Senders, NEW v \in Values, SendPut(t, v)
      PROVE  NoLostWakeup'
  <2>0. /\ count' = count + 1 /\ closed = FALSE /\ closed' = FALSE
        /\ t \in Threads /\ t \notin Receivers /\ pc'[t] = "idle"
        /\ pc[t] \in {"idle", "sendWoken"}
    BY <1>1, PutShape DEF SendPut, Threads, ChannelAssumption, ChannelInv, ChannelTypeOK, Flags
  <2>1. At("sendWait")' = At("sendWait") /\ At("sendWoken")' = At("sendWoken") \ {t}
    BY <1>1, <1>p, <2>0, PutShape DEF At, Placed, Threads
  <2>2. At("sendWait")' # {} => Cardinality(At("sendWoken"))' >= Capacity - count'
    <3>1. /\ Cardinality(At("sendWoken") \ {t}) \in Nat
          /\ Cardinality(At("sendWoken") \ {t}) >= Cardinality(At("sendWoken")) - 1
      BY Counts
    <3>2. Cardinality(At("sendWoken"))' = Cardinality(At("sendWoken") \ {t})
      BY <2>1, Zenon
    <3>3. At("sendWait")' # {} => ~closed /\ Cardinality(At("sendWoken")) >= Capacity - count
      BY <2>1, Zenon DEF NoLostWakeup
    <3> QED
      BY <1>0, <2>0, <3>1, <3>2, <3>3
  <2>3. CASE \A u \in Receivers : pc[u] # "recvWait"
    <3>1. At("recvWait")' = {}
      BY <1>1, <1>p, <2>0, <2>3, PutShape DEF At, Placed, Threads
    <3> QED
      BY <2>0, <2>2, <3>1 DEF NoLostWakeup
  <2>4. ASSUME NEW u \in Receivers, pc[u] = "recvWait", pc'[u] = "recvWoken",
               \A x \in Threads \ {t, u} : pc'[x] = pc[x]
        PROVE  NoLostWakeup'
    <3>1. At("recvWoken")' = At("recvWoken") \cup {u} /\ u \notin At("recvWoken")
      BY <1>p, <2>0, <2>4 DEF At, Placed, Threads
    <3>2. At("recvWait") # {}
      BY <2>4 DEF At, Threads
    <3>3. Cardinality(At("recvWoken") \cup {u}) = Cardinality(At("recvWoken")) + 1
      BY <3>1, Counts
    <3>4. Cardinality(At("recvWoken"))' = Cardinality(At("recvWoken") \cup {u})
      BY <3>1, Zenon
    <3>5. ~closed /\ Cardinality(At("recvWoken")) >= count
      BY <3>2, Zenon DEF NoLostWakeup
    <3>6. ~closed' /\ Cardinality(At("recvWoken"))' >= count'
      BY <1>0, <2>0, <3>3, <3>4, <3>5
    <3> QED
      BY <2>0, <2>2, <3>6, Zenon DEF NoLostWakeup
  <2> QED
    BY <1>1, <2>3, <2>4, PutShape
<1>2. ASSUME NEW t \in Receivers, NEW b \in BOOLEAN, RecvTake(t, b)
      PROVE  NoLostWakeup'
  <2>0. /\ count' = count - 1 /\ count > 0 /\ closed' = closed
        /\ t \in Threads /\ t \notin Senders /\ pc'[t] = "idle"
        /\ pc[t] \in {"idle", "recvWoken"}
    BY <1>2, TakeShape DEF RecvTake, Threads, ChannelAssumption
  <2>1. At("recvWait")' = At("recvWait") /\ At("recvWoken")' = At("recvWoken") \ {t}
    BY <1>2, <1>p, <2>0, TakeShape DEF At, Placed, Threads
  <2>2. At("recvWait")' # {} => ~closed /\ Cardinality(At("recvWoken"))' >= count'
    <3>1. /\ Cardinality(At("recvWoken") \ {t}) \in Nat
          /\ Cardinality(At("recvWoken") \ {t}) >= Cardinality(At("recvWoken")) - 1
      BY Counts
    <3>2. Cardinality(At("recvWoken"))' = Cardinality(At("recvWoken") \ {t})
      BY <2>1, Zenon
    <3>3. At("recvWait")' # {} => ~closed /\ Cardinality(At("recvWoken")) >= count
      BY <2>1, Zenon DEF NoLostWakeup
    <3> QED
      BY <1>0, <2>0, <3>1, <3>2, <3>3
  <2>3. CASE \A u \in Senders : pc[u] # "sendWait"
    <3>1. At("sendWait")' = {}
      BY <1>2, <1>p, <2>0, <2>3, TakeShape DEF At, Placed, Threads
    <3> QED
      BY <2>0, <2>2, <3>1 DEF NoLostWakeup
  <2>4. ASSUME NEW u \in Senders, pc[u] = "sendWait", pc'[u] = "sendWoken",
               \A x \in Threads \ {t, u} : pc'[x] = pc[x]
        PROVE  NoLostWakeup'
    <3>1. At("sendWoken")' = At("sendWoken") \cup {u} /\ u \notin At("sendWoken")
      BY <1>p, <2>0, <2>4 DEF At, Placed, Threads
    <3>2. At("sendWait") # {}
      BY <2>4 DEF At, Threads
    <3>3. Cardinality(At("sendWoken") \cup {u}) = Cardinality(At("sendWoken")) + 1
      BY <3>1, Counts
    <3>4. Cardinality(At("sendWoken"))' = Cardinality(At("sendWoken") \cup {u})
      BY <3>1, Zenon
    <3>5. ~closed /\ Cardinality(At("sendWoken")) >= Capacity - count
      BY <3>2, Zenon DEF NoLostWakeup
    <3>6. ~closed' /\ Cardinality(At("sendWoken"))' >= Capacity - count'
      BY <1>0, <2>0, <3>3, <3>4, <3>5
    <3> QED
      BY <2>0, <2>2, <3>6, Zenon DEF NoLostWakeup
  <2> QED
    BY <1>2, <2>3, <2>4, TakeShape
<1>3. ASSUME NEW t \in Senders, NEW v \in Values, SendWait(t, v) \/ SendFail(t, v)
      PROVE  NoLostWakeup'
  <2>1. /\ At("recvWait")' = At("recvWait") /\ At("recvWoken")' = At("recvWoken")
        /\ UNCHANGED <<closed, count>>
    BY <1>3, <1>p DEF SendWait, SendFail, At, Placed, Threads, MaySend, ring, ChannelAssumption
  <2>2. CASE SendWait(t, v)
    <3>1. count = Capacity /\ ~closed
      BY <2>2 DEF SendWait
    <3>3. Cardinality(At("sendWoken"))' \in Nat
      BY Counts
    <3> QED
      BY <1>0, <2>1, <3>1, <3>3 DEF NoLostWakeup
  <2>3. CASE SendFail(t, v)
    <3>1. closed /\ At("sendWait")' \subseteq At("sendWait")
      BY <1>p, <2>3 DEF SendFail, At, Placed, Threads
    <3> QED
      BY <2>1, <3>1 DEF NoLostWakeup
  <2> QED
    BY <1>3, <2>2, <2>3
<1>4. ASSUME NEW t \in Receivers, RecvWait(t) \/ RecvClosed(t)
      PROVE  NoLostWakeup'
  <2>1. /\ At("sendWait")' = At("sendWait") /\ At("sendWoken")' = At("sendWoken")
        /\ UNCHANGED <<closed, count>>
    BY <1>4, <1>p DEF RecvWait, RecvClosed, At, Placed, Threads, MayRecv, ring, ChannelAssumption
  <2>2. CASE RecvWait(t)
    <3>1. count = 0 /\ ~closed
      BY <2>2 DEF RecvWait
    <3>3. Cardinality(At("recvWoken"))' \in Nat
      BY Counts
    <3> QED
      BY <1>0, <2>1, <3>1, <3>3 DEF NoLostWakeup
  <2>3. CASE RecvClosed(t)
    <3>1. closed /\ At("recvWait")' \subseteq At("recvWait")
      BY <1>p, <2>3 DEF RecvClosed, At, Placed, Threads
    <3> QED
      BY <2>1, <3>1 DEF NoLostWakeup
  <2> QED
    BY <1>4, <2>2, <2>3
<1>5. ASSUME NEW t \in Threads, SpuriousWakeup(t)
      PROVE  NoLostWakeup'
  <2>1. /\ UNCHANGED <<closed, count>>
        /\ At("sendWait")' \subseteq At("sendWait") /\ At("recvWait")' \subseteq At("recvWait")
    BY <1>5, <1>p DEF SpuriousWakeup, At, Placed, ring
  <2>2. /\ At("sendWoken")' \in {At("sendWoken"), At("sendWoken") \cup {t}}
        /\ At("recvWoken")' \in {At("recvWoken"), At("recvWoken") \cup {t}}
    BY <1>5, <1>p DEF SpuriousWakeup, At, Placed
  <2>3. /\ Cardinality(At("sendWoken") \cup {t}) >= Cardinality(At("sendWoken"))
        /\ Cardinality(At("recvWoken") \cup {t}) >= Cardinality(At("recvWoken"))
        /\ Cardinality(At("sendWoken") \cup {t}) \in Nat
        /\ Cardinality(At("recvWoken") \cup {t}) \in Nat
    BY Counts
  <2>4. /\ Cardinality(At("sendWoken"))' >= Cardinality(At("sendWoken"))
        /\ Cardinality(At("recvWoken"))' >= Cardinality(At("recvWoken"))
        /\ Cardinality(At("sendWoken"))' \in Nat /\ Cardinality(At("recvWoken"))' \in Nat
    <3>1. \/ Cardinality(At("sendWoken"))' = Cardinality(At("sendWoken"))
          \/ Cardinality(At("sendWoken"))' = Cardinality(At("sendWoken") \cup {t})
      BY <2>2, Zenon
    <3>2. \/ Cardinality(At("recvWoken"))' = Cardinality(At("recvWoken"))
          \/ Cardinality(At("recvWoken"))' = Cardinality(At("recvWoken") \cup {t})
      BY <2>2, Zenon
    <3> QED
      BY <1>0, <2>3, <3>1, <3>2
  <2>5. /\ At("sendWait")' # {} => At("sendWait") # {}
        /\ At("recvWait")' # {} => At("recvWait") # {}
    BY <2>1
  <2> QED
    BY <1>0, <2>1, <2>4, <2>5 DEF NoLostWakeup
<1>6. CASE Close
  <2>1. At("sendWait")' = {} /\ At("recvWait")' = {}
    BY <1>6, <1>p DEF Close, Broadcast, At, Placed
  <2> QED
    BY <2>1 DEF NoLostWakeup
<1>7. CASE Free
  <2>1. At("sendWait")' = {} /\ At("recvWait")' = {}
    BY <1>7 DEF Free, At
  <2> QED
    BY <2>1 DEF NoLostWakeup
<1>8. CASE UNCHANGED vars \/ \E t \in Receivers : TryRecvNothing(t)
  BY <1>8 DEF vars, ring, TryRecvNothing, NoLostWakeup, At
<1> QED
  BY <1>1, <1>2, <1>3, <1>4, <1>5, <1>6, <1>7, <1>8 DEF Next, Send, Recv

\* No sender waits on can_send and no receiver on can_recv while fewer woken
\* threads are on their way than there are slots or messages for them, as
\* long as copying a message does not fail (a woken sender that cannot copy
\* its message consumes the signal).
THEOREM ChannelNoLostWakeup ==
  ASSUME ChannelAssumption, AllocFails = FALSE
  PROVE  Spec => []NoLostWakeup
<1>1. Init => NoLostWakeup
  BY DEF Init, NoLostWakeup, At
<1>2. ChannelInv /\ NoLostWakeup /\ [Next]_vars => NoLostWakeup'
  BY WakeupNext
<1> QED
  BY <1>1, <1>2, ChannelInvariant, PTL DEF Spec

-----------------------------------------------------------------------------
\* Every step of the channel is a step of the closable bounded FIFO.
LEMMA ChannelStepIsFifo ==
  ASSUME ChannelAssumption, ChannelInv, [Next]_vars
  PROVE  [Fifo0!FifoNext]_(Fifo0!fifoVars)
<1> USE DEF Fifo0!FifoNext, Fifo0!fifoVars
<1>1. ASSUME NEW t \in Senders, NEW v \in Values, SendPut(t, v)
      PROVE  Fifo0!Accept(v)
  <2>1. Len(sent) - Len(got) < Capacity
    BY <1>1 DEF SendPut, ChannelInv, ChannelTypeOK, RingTypeOK, Ring
  <2> QED
    BY <1>1, <2>1 DEF SendPut, Fifo0!Accept
<1>2. ASSUME NEW t \in Receivers, NEW b \in BOOLEAN, RecvTake(t, b)
      PROVE  Fifo0!Deliver
  <2>1. items[head] = sent[Len(got) + 1] /\ Len(got) < Len(sent)
    BY <1>2, RecvTakeInv
  <2> QED
    BY <1>2, <2>1 DEF RecvTake, Fifo0!Deliver
<1>3. CASE Close \/ Free
  BY <1>3 DEF Close, Free, Fifo0!CloseFifo
<1>4. ASSUME \/ \E t \in Senders, v \in Values : SendWait(t, v) \/ SendFail(t, v)
             \/ \E t \in Receivers : RecvWait(t) \/ RecvClosed(t) \/ TryRecvNothing(t)
             \/ \E t \in Threads : SpuriousWakeup(t)
             \/ UNCHANGED vars
      PROVE  UNCHANGED Fifo0!fifoVars
  BY <1>4 DEF SendWait, SendFail, RecvWait, RecvClosed, TryRecvNothing, SpuriousWakeup, vars
<1> QED
  BY <1>1, <1>2, <1>3, <1>4 DEF Next, Send, Recv

\* The channel implements the bounded FIFO: the messages come out in the
\* order in which the senders, however many, put them in, each once.
THEOREM ChannelImplementsFifo ==
  ASSUME ChannelAssumption
  PROVE  Spec => ChannelIsFifo
<1>1. Init => Fifo0!FifoInit
  BY DEF Init, Fifo0!FifoInit
<1>2. ChannelInv /\ [Next]_vars => [Fifo0!FifoNext]_(Fifo0!fifoVars)
  BY ChannelStepIsFifo
<1> QED
  BY <1>1, <1>2, ChannelInvariant, PTL DEF Spec, ChannelIsFifo, Fifo0!FifoSpec
=============================================================================
