---------------------------- MODULE QueueProofs ----------------------------
(***************************************************************************)
(* Proofs about the queues, first SpscQueue for every capacity, every set  *)
(* of elements and every number of pushes.                                 *)
(*                                                                         *)
(* Fifo alone is not inductive: that the slot the consumer is about to     *)
(* copy holds the right element depends on where the two indices stand,    *)
(* and that the producer does not overwrite it depends on how far its      *)
(* stale view of head may lag.  The inductive invariant IInv counts both   *)
(* in elements instead of slots:                                           *)
(*    seenPop <= Len(got) <= seenPush <= Len(sent) <= seenPop + Capacity   *)
(* and says that each index is the sum, wrapped once, of an older index    *)
(* and the number of elements in between.                                  *)
(***************************************************************************)
EXTENDS Queues, TLAPS

\* An index plus at most Capacity positions.
Wrap(n) == IF n >= Slots THEN n - Slots ELSE n

\* The chain of counters, strict at the ends where a side is inside a call.
Counters ==
  /\ seenPop <= Len(got) /\ Len(got) <= seenPush
  /\ seenPush <= Len(sent) /\ Len(sent) <= seenPop + Capacity
  /\ ppc # "idle" => Len(sent) < seenPop + Capacity
  /\ cpc # "idle" => Len(got) < seenPush

\* Where the indices stand relative to each other.
Positions ==
  /\ head = Wrap(headView + (Len(got) - seenPop))
  /\ tail = Wrap(headView + (Len(sent) - seenPop))
  /\ tailView = Wrap(headView + (seenPush - seenPop))

\* The slots between head and tail hold the elements not yet popped, and the
\* two sides carry the right element between their copy and their store.
Contents ==
  /\ \A i \in 1 .. Len(sent) - Len(got) :
        items[Wrap(head + (i - 1))] = sent[Len(got) + i]
  /\ ppc = "copy" => staged \in Values
  /\ ppc = "publish" => staged \in Values /\ items[tail] = staged
  /\ cpc = "publish" => out = sent[Len(got) + 1]

IInv == TypeOK /\ Counters /\ Positions /\ Contents /\ Fifo

-----------------------------------------------------------------------------
LEMMA IncWrap ==
  ASSUME NEW i \in Index, NEW n \in 0 .. Capacity
  PROVE  /\ Wrap(i + n) \in Index
         /\ n < Capacity => Inc(Wrap(i + n)) = Wrap(i + (n + 1))
         /\ n < Capacity => Inc(Wrap(i + n)) # i
         /\ n = Capacity => Inc(Wrap(i + n)) = i
  BY SpscAssumption DEF Wrap, Inc, Index, Slots

LEMMA WrapInjective ==
  ASSUME NEW i \in Index, NEW m \in 0 .. Capacity, NEW n \in 0 .. Capacity,
         Wrap(i + m) = Wrap(i + n)
  PROVE  m = n
  BY SpscAssumption DEF Wrap, Index, Slots

LEMMA WrapAdd ==
  ASSUME NEW i \in Index, NEW m \in Nat, NEW n \in Nat, m + n <= Capacity
  PROVE  Wrap(Wrap(i + m) + n) = Wrap(i + (m + n))
  BY SpscAssumption DEF Wrap, Index, Slots

\* The invariant implies the absence of races: a producer inside a call has
\* claimed the slot of element Len(sent) + 1, a consumer that of element
\* Len(got) + 1, and at most Capacity positions lie between them.
LEMMA InvNoRace ==
  IInv => NoDataRace
<1> SUFFICES ASSUME IInv, ppc = "copy", cpc = "copy", head = tail
             PROVE  FALSE
  BY DEF NoDataRace
<1>1. /\ Len(got) - seenPop \in 0 .. Capacity
      /\ Len(sent) - seenPop \in 0 .. Capacity
  BY SpscAssumption DEF IInv, TypeOK, Counters
<1>2. Len(got) - seenPop = Len(sent) - seenPop
  BY <1>1, WrapInjective DEF IInv, TypeOK, Positions
<1> QED
  BY <1>2 DEF IInv, TypeOK, Counters

-----------------------------------------------------------------------------
\* The distances the invariant speaks of, and tail as seen from head.
LEMMA Distances ==
  ASSUME IInv
  PROVE  /\ Len(got) \in Nat /\ Len(sent) \in Nat
         /\ Len(got) - seenPop \in 0 .. Capacity
         /\ Len(sent) - seenPop \in 0 .. Capacity
         /\ seenPush - seenPop \in 0 .. Capacity
         /\ Len(sent) - Len(got) \in 0 .. Capacity
         /\ tail = Wrap(head + (Len(sent) - Len(got)))
<1>1. /\ Len(got) \in Nat /\ Len(sent) \in Nat
      /\ Len(got) - seenPop \in 0 .. Capacity
      /\ Len(sent) - seenPop \in 0 .. Capacity
      /\ seenPush - seenPop \in 0 .. Capacity
      /\ Len(sent) - Len(got) \in 0 .. Capacity
  BY SpscAssumption DEF IInv, TypeOK, Counters
<1>2. Wrap(Wrap(headView + (Len(got) - seenPop)) + (Len(sent) - Len(got)))
        = Wrap(headView + ((Len(got) - seenPop) + (Len(sent) - Len(got))))
  BY <1>1, WrapAdd, SpscAssumption DEF IInv, TypeOK
<1>3. (Len(got) - seenPop) + (Len(sent) - Len(got)) = Len(sent) - seenPop
  BY <1>1 DEF IInv, TypeOK
<1> QED
  BY <1>1, <1>2, <1>3 DEF IInv, Positions

LEMMA InitInv == Init => IInv
<1> SUFFICES ASSUME Init PROVE IInv
  OBVIOUS
<1>1. Len(sent) = 0 /\ Len(got) = 0 /\ 0 \in Index
  BY SpscAssumption DEF Init, Index, Slots
<1>2. TypeOK
  BY <1>1, SpscAssumption DEF Init, TypeOK
<1>3. Counters /\ Positions
  BY <1>1, SpscAssumption DEF Init, Counters, Positions, Wrap, Slots
<1>4. Contents /\ Fifo
  BY <1>1 DEF Init, Contents, Fifo
<1> QED
  BY <1>2, <1>3, <1>4 DEF IInv

LEMMA PushCheckInv ==
  ASSUME IInv, NEW v \in Values, PushCheck(v)
  PROVE  IInv'
<1>1. TypeOK' /\ Positions' /\ Contents' /\ Fifo'
  BY DEF IInv, PushCheck, TypeOK, Positions, Contents, Fifo, cvars, views
<1>2. Len(sent) - seenPop # Capacity
  BY Distances, IncWrap DEF PushCheck, IInv, Positions, TypeOK
<1>3. Counters'
  BY <1>2, Distances, SpscAssumption
     DEF IInv, PushCheck, TypeOK, Counters, cvars, views
<1> QED
  BY <1>1, <1>3 DEF IInv

LEMMA PushCopyInv ==
  ASSUME IInv, PushCopy
  PROVE  IInv'
<1>1. TypeOK' /\ Counters' /\ Positions' /\ Fifo'
  BY DEF IInv, PushCopy, TypeOK, Counters, Positions, Fifo, cvars, views
<1>2. ASSUME NEW i \in 1 .. Len(sent) - Len(got)
      PROVE  items'[Wrap(head + (i - 1))] = items[Wrap(head + (i - 1))]
  <2>1. /\ i - 1 \in 0 .. Capacity
        /\ i - 1 # Len(sent) - Len(got)
    BY Distances, SpscAssumption DEF IInv, TypeOK
  <2>2. Wrap(head + (i - 1)) \in Index
    BY <2>1, IncWrap DEF IInv, TypeOK
  <2>3. Wrap(head + (i - 1)) # tail
    BY <2>1, Distances, WrapInjective DEF IInv, TypeOK
  <2> QED
    BY <2>2, <2>3 DEF PushCopy, IInv, TypeOK
<1>3. Contents'
  <2>1. items'[tail] = staged
    BY DEF PushCopy, IInv, TypeOK
  <2> QED
    BY <1>2, <2>1 DEF IInv, Contents, PushCopy, cvars, views
<1> QED
  BY <1>1, <1>3 DEF IInv

LEMMA PushPublishInv ==
  ASSUME IInv, PushPublish
  PROVE  IInv'
<1>1. /\ Len(sent') = Len(sent) + 1 /\ sent' \in Seq(Values)
      /\ \A i \in 1 .. Len(sent) : sent'[i] = sent[i]
      /\ sent'[Len(sent) + 1] = staged
      /\ Len(sent) - seenPop < Capacity
  BY Distances, SpscAssumption
     DEF IInv, TypeOK, PushPublish, Contents, Counters
<1>2. Inc(tail) = Wrap(headView + (Len(sent) - seenPop + 1))
  BY <1>1, Distances, IncWrap DEF IInv, TypeOK, Positions
<1>3. Len(sent') - seenPop = Len(sent) - seenPop + 1
  BY <1>1, Distances DEF IInv, TypeOK
<1>4. TypeOK'
  <2>1. Inc(tail) \in Index
    BY SpscAssumption DEF IInv, TypeOK, Inc, Index, Slots
  <2> QED
    BY <1>1, <2>1 DEF IInv, TypeOK, PushPublish, cvars, views
<1>5. Counters'
  BY <1>1, Distances, SpscAssumption
     DEF IInv, TypeOK, Counters, PushPublish, cvars, views
<1>6. Positions'
  BY <1>2, <1>3 DEF IInv, Positions, PushPublish, cvars, views
<1>7. Contents'
  <2>1. ASSUME NEW i \in 1 .. Len(sent') - Len(got)
        PROVE  items[Wrap(head + (i - 1))] = sent'[Len(got) + i]
    <3>1. CASE i = Len(sent') - Len(got)
      <4>1. /\ i - 1 = Len(sent) - Len(got)
            /\ Len(got) + i = Len(sent) + 1
        BY <1>1, <3>1, Distances
      <4> QED
        BY <4>1, <1>1, Distances DEF IInv, Contents, PushPublish
    <3>2. CASE i # Len(sent') - Len(got)
      <4>1. /\ i \in 1 .. Len(sent) - Len(got)
            /\ Len(got) + i \in 1 .. Len(sent)
        <5>1. /\ Len(sent) \in Nat /\ Len(got) \in Nat /\ Len(got) <= Len(sent)
              /\ Len(sent') = Len(sent) + 1
          BY <1>1, Distances
        <5> QED
          BY <2>1, <3>2, <5>1
      <4> QED
        BY <4>1, <1>1 DEF IInv, Contents
    <3> QED
      BY <3>1, <3>2
  <2>2. cpc = "publish" => out = sent'[Len(got) + 1]
    <3>1. cpc = "publish" => Len(got) + 1 \in 1 .. Len(sent)
      BY Distances DEF IInv, Counters, TypeOK
    <3> QED
      BY <3>1, <1>1 DEF IInv, Contents
  <2> QED
    BY <2>1, <2>2 DEF Contents, PushPublish, cvars, views
<1>8. Fifo'
  BY <1>1, Distances DEF IInv, Fifo, PushPublish, cvars
<1> QED
  BY <1>4, <1>5, <1>6, <1>7, <1>8 DEF IInv

LEMMA PopCheckInv ==
  ASSUME IInv, PopCheck
  PROVE  IInv'
<1>1. TypeOK' /\ Positions' /\ Contents' /\ Fifo'
  BY DEF IInv, PopCheck, TypeOK, Positions, Contents, Fifo, pvars, views
<1>2. Len(got) # seenPush
  BY DEF PopCheck, IInv, Positions
<1>3. Counters'
  BY <1>2, Distances DEF IInv, PopCheck, TypeOK, Counters, pvars, views
<1> QED
  BY <1>1, <1>3 DEF IInv

LEMMA PopCopyInv ==
  ASSUME IInv, PopCopy
  PROVE  IInv'
<1>1. Counters' /\ Positions' /\ Fifo'
  BY DEF IInv, PopCopy, TypeOK, Counters, Positions, Fifo, pvars, views
<1>2. TypeOK'
  BY DEF IInv, PopCopy, TypeOK, pvars, views
<1>3. items[head] = sent[Len(got) + 1]
  <2>1. 1 \in 1 .. Len(sent) - Len(got)
    BY Distances DEF IInv, Counters, PopCopy, TypeOK
  <2>2. Wrap(head + (1 - 1)) = head
    BY SpscAssumption DEF IInv, TypeOK, Wrap, Index, Slots
  <2> QED
    BY <2>1, <2>2 DEF IInv, Contents
<1>4. Contents'
  BY <1>3 DEF IInv, Contents, PopCopy, pvars, views
<1> QED
  BY <1>1, <1>2, <1>4 DEF IInv

LEMMA PopPublishInv ==
  ASSUME IInv, PopPublish
  PROVE  IInv'
<1>1. /\ Len(got') = Len(got) + 1
      /\ got' \in Seq(Values \cup {NoValue})
      /\ \A i \in 1 .. Len(got) : got'[i] = got[i]
      /\ got'[Len(got) + 1] = sent[Len(got) + 1]
      /\ Len(got) < seenPush
  BY DEF IInv, TypeOK, PopPublish, Contents, Counters
<1>2. Inc(head) = Wrap(headView + (Len(got) - seenPop + 1))
  BY <1>1, Distances, IncWrap, SpscAssumption
     DEF IInv, TypeOK, Positions, Counters
<1>3. Len(got') - seenPop = Len(got) - seenPop + 1
  BY <1>1, Distances DEF IInv, TypeOK
<1>4. TypeOK'
  <2>1. Inc(head) \in Index
    BY SpscAssumption DEF IInv, TypeOK, Inc, Index, Slots
  <2> QED
    BY <1>1, <2>1 DEF IInv, TypeOK, PopPublish, pvars, views
<1>5. Counters'
  BY <1>1, Distances, SpscAssumption
     DEF IInv, TypeOK, Counters, PopPublish, pvars, views
<1>6. Positions'
  BY <1>2, <1>3 DEF IInv, Positions, PopPublish, pvars, views
<1>7. Contents'
  <2>1. Inc(head) = Wrap(head + 1)
    BY SpscAssumption DEF IInv, TypeOK, Wrap, Inc, Index, Slots
  <2>2. ASSUME NEW i \in 1 .. Len(sent) - Len(got')
        PROVE  items[Wrap(Inc(head) + (i - 1))] = sent[Len(got') + i]
    <3>1. /\ i + 1 \in 1 .. Len(sent) - Len(got)
          /\ Len(got') + i = Len(got) + (i + 1)
          /\ 1 + (i - 1) <= Capacity /\ i - 1 \in Nat
          /\ 1 + (i - 1) = (i + 1) - 1
      BY <1>1, Distances, SpscAssumption
    <3>2. Wrap(Wrap(head + 1) + (i - 1)) = Wrap(head + (1 + (i - 1)))
      BY <3>1, WrapAdd DEF IInv, TypeOK
    <3> QED
      BY <2>1, <3>1, <3>2 DEF IInv, Contents
  <2> QED
    BY <2>2 DEF IInv, Contents, PopPublish, pvars, views
<1>8. Fifo'
  BY <1>1, Distances DEF IInv, Fifo, Counters, TypeOK, PopPublish, pvars
<1> QED
  BY <1>4, <1>5, <1>6, <1>7, <1>8 DEF IInv

LEMMA PropagateHeadInv ==
  ASSUME IInv, PropagateHead
  PROVE  IInv'
<1>1. TypeOK' /\ Contents' /\ Fifo'
  BY Distances DEF IInv, PropagateHead, TypeOK, Contents, Fifo, pvars, cvars
<1>2. Counters'
  BY Distances, SpscAssumption
     DEF IInv, PropagateHead, TypeOK, Counters, pvars, cvars
<1>3. Positions'
  <2>1. head = Wrap(head + (Len(got) - Len(got)))
    BY Distances, SpscAssumption DEF IInv, TypeOK, Wrap, Index, Slots
  <2>2. tailView = Wrap(head + (seenPush - Len(got)))
    <3>1. /\ Len(got) - seenPop \in Nat /\ seenPush - Len(got) \in Nat
          /\ (Len(got) - seenPop) + (seenPush - Len(got)) = seenPush - seenPop
          /\ seenPush - seenPop <= Capacity
      BY Distances, SpscAssumption DEF IInv, TypeOK, Counters
    <3> QED
      BY <3>1, WrapAdd DEF IInv, TypeOK, Positions
  <2> QED
    BY <2>1, <2>2, Distances DEF Positions, PropagateHead, pvars, cvars
<1> QED
  BY <1>1, <1>2, <1>3 DEF IInv

LEMMA PropagateTailInv ==
  ASSUME IInv, PropagateTail
  PROVE  IInv'
<1>1. TypeOK' /\ Contents' /\ Fifo'
  BY Distances DEF IInv, PropagateTail, TypeOK, Contents, Fifo, pvars, cvars
<1>2. Counters'
  BY Distances, SpscAssumption
     DEF IInv, PropagateTail, TypeOK, Counters, pvars, cvars
<1>3. Positions'
  BY DEF IInv, Positions, PropagateTail, pvars, cvars
<1> QED
  BY <1>1, <1>2, <1>3 DEF IInv

LEMMA StutterInv ==
  ASSUME IInv, UNCHANGED vars
  PROVE  IInv'
  BY DEF IInv, TypeOK, Counters, Positions, Contents, Fifo,
         vars, pvars, cvars, views

LEMMA NextInv ==
  IInv /\ [Next]_vars => IInv'
<1> SUFFICES ASSUME IInv, [Next]_vars PROVE IInv'
  OBVIOUS
<1>1. CASE UNCHANGED vars \/ PushFull \/ PopEmpty
  BY <1>1, StutterInv DEF PushFull, PopEmpty
<1>2. CASE \E v \in Values : PushCheck(v)
  BY <1>2, PushCheckInv
<1>3. CASE PushCopy
  BY <1>3, PushCopyInv
<1>4. CASE PushPublish
  BY <1>4, PushPublishInv
<1>5. CASE PopCheck
  BY <1>5, PopCheckInv
<1>6. CASE PopCopy
  BY <1>6, PopCopyInv
<1>7. CASE PopPublish
  BY <1>7, PopPublishInv
<1>8. CASE PropagateHead
  BY <1>8, PropagateHeadInv
<1>9. CASE PropagateTail
  BY <1>9, PropagateTailInv
<1>10. CASE Release
  BY <1>10 DEF Release, IInv, TypeOK, Counters, Positions, Contents, Fifo,
               pvars, cvars, views
<1> QED
  BY <1>1, <1>2, <1>3, <1>4, <1>5, <1>6, <1>7, <1>8, <1>9, <1>10 DEF Next

\* IInv holds in every reachable state of the ring.
THEOREM SpscInvariant ==
  Spec => []IInv
<1>1. Init => IInv
  BY InitInv
<1>2. IInv /\ [Next]_vars => IInv'
  BY NextInv
<1> QED
  BY <1>1, <1>2, PTL DEF Spec

\* Every variable keeps its type: in particular both indices stay inside
\* the allocated slots, whatever the capacity.
THEOREM SpscTypeOK ==
  Spec => []TypeOK
<1>1. IInv => TypeOK
  BY DEF IInv
<1> QED
  BY <1>1, SpscInvariant, PTL

\* pop returns what push stored, in order, each element once.
THEOREM SpscFifo ==
  Spec => []Fifo
<1>1. IInv => Fifo
  BY DEF IInv
<1> QED
  BY <1>1, SpscInvariant, PTL

\* The unsynchronised copies of the two threads never meet in one slot.
THEOREM SpscNoDataRace ==
  Spec => []NoDataRace
<1> QED
  BY InvNoRace, SpscInvariant, PTL

LEMMA InvRefusals ==
  IInv => RefusalsExact
<1> SUFFICES ASSUME IInv PROVE RefusalsExact
  OBVIOUS
<1>1. ASSUME seenPop = Len(got)
      PROVE  (Inc(tail) = headView) <=> (Len(sent) - Len(got) = Capacity)
  <2>1. \A n \in 0 .. Capacity :
          (Inc(Wrap(headView + n)) = headView) <=> (n = Capacity)
    BY IncWrap, SpscAssumption DEF IInv, TypeOK
  <2>2. tail = Wrap(headView + (Len(sent) - Len(got)))
    BY <1>1 DEF IInv, Positions
  <2> QED
    BY <2>1, <2>2, Distances
<1>2. ASSUME seenPush = Len(sent)
      PROVE  (head = tailView) <=> (Len(sent) = Len(got))
  <2>1. (head = tailView) =>
          (Len(got) - seenPop = seenPush - seenPop)
    BY Distances, WrapInjective DEF IInv, TypeOK, Positions
  <2> QED
    BY <1>2, <2>1, Distances DEF IInv, TypeOK, Positions
<1> QED
  BY <1>1, <1>2 DEF RefusalsExact

\* With current views, push refuses exactly at Capacity elements and pop
\* exactly at none.
THEOREM SpscRefusalsExact ==
  Spec => []RefusalsExact
<1> QED
  BY InvRefusals, SpscInvariant, PTL

-----------------------------------------------------------------------------
\* Every step of the ring is a step of the bounded FIFO or leaves it alone.
LEMMA StepRefines ==
  IInv /\ [Next]_vars => [Fifo0!FifoNext]_(Fifo0!fifoVars)
<1> SUFFICES ASSUME IInv, [Next]_vars
             PROVE  [Fifo0!FifoNext]_(Fifo0!fifoVars)
  OBVIOUS
<1> USE DEF Fifo0!fifoVars
<1>1. CASE PushPublish
  <2>1. Len(sent) - Len(got) < Capacity /\ staged \in Values
    BY <1>1, Distances, SpscAssumption
       DEF IInv, TypeOK, Counters, Contents, PushPublish
  <2>2. Fifo0!Accept(staged)
    BY <1>1, <2>1 DEF PushPublish, cvars, Fifo0!Accept
  <2> QED
    BY <2>1, <2>2 DEF Fifo0!FifoNext
<1>2. CASE PopPublish
  <2>1. Len(got) < Len(sent) /\ out = sent[Len(got) + 1]
    BY <1>2, Distances DEF IInv, TypeOK, Counters, Contents, PopPublish
  <2>2. Fifo0!Deliver
    BY <1>2, <2>1 DEF PopPublish, pvars, Fifo0!Deliver
  <2> QED
    BY <2>2 DEF Fifo0!FifoNext
<1>3. CASE UNCHANGED <<sent, got>>
  BY <1>3
<1>4. PushPublish \/ PopPublish \/ UNCHANGED <<sent, got>>
  BY DEF Next, PushFull, PushCheck, PushCopy, PopEmpty, PopCheck, PopCopy,
         PropagateHead, PropagateTail, Release, vars, pvars, cvars, views
<1> QED
  BY <1>1, <1>2, <1>3, <1>4

\* The ring implements the bounded FIFO of capacity Capacity.
THEOREM SpscImplementsFifo ==
  Spec => ImplementsFifo
<1>1. Init => Fifo0!FifoInit
  BY DEF Init, Fifo0!FifoInit
<1>2. IInv /\ [Next]_vars => [Fifo0!FifoNext]_(Fifo0!fifoVars)
  BY StepRefines
<1> QED
  BY <1>1, <1>2, SpscInvariant, PTL DEF Spec, ImplementsFifo, Fifo0!FifoSpec

-----------------------------------------------------------------------------
(***************************************************************************)
(* The other queues.  AsyncTickerProofs and ChannelProofs prove their      *)
(* theorems about a queue by itself; here they are taken over to the       *)
(* queues T and C that Queues puts side by side.  TP and CP are the same   *)
(* instances as T and C, together with the theorems.                       *)
(***************************************************************************)
TP == INSTANCE AsyncTickerProofs WITH
        MaxSend <- MaxMessages,
        head <- qHead, tail <- qTail, closed <- qClosed, headView <- qHeadView,
        closedViewP <- qClosedViewP, tailView <- qTailView, closedViewC <- qClosedViewC,
        items <- qItems, ppc <- qPpc, msgP <- qMsgP, cpc <- qCpc, msgC <- qMsgC,
        result <- qResult, zeros <- qZeros, closer <- qCloser, live <- qLive,
        sent <- qSent, got <- qGot

CP == INSTANCE ChannelProofs WITH
        pc <- chPc, val <- chVal, result <- chResult, closed <- chClosed,
        count <- chCount, head <- chHead, tail <- chTail, items <- chItems,
        live <- chLive, sent <- chSent, got <- chGot

LEMMA SameQueue ==
  /\ T!LfAssumption => TP!LfAssumption
  /\ T!TickerAssumption => TP!TickerAssumption
  /\ T!TSpec => TP!TSpec
<1>1. T!LfAssumption => TP!LfAssumption
  BY DEF T!LfAssumption, TP!LfAssumption
<1>2. T!TickerAssumption => TP!TickerAssumption
  BY DEF T!TickerAssumption, TP!TickerAssumption
<1>3. T!TInit => TP!TInit
  BY DEF T!TInit, TP!TInit, T!Init, TP!Init
<1>4. [T!TNext]_T!tvars => [TP!TNext]_TP!tvars
  BY DEF T!TNext, TP!TNext, T!Next, TP!Next, T!Start, TP!Start,
         T!StartFails, TP!StartFails, T!TickerStep, TP!TickerStep, T!TickLoop, TP!TickLoop,
         T!TickWake, TP!TickWake, T!TickRefused, TP!TickRefused, T!TickSend, TP!TickSend,
         T!Stop, TP!Stop, T!Joined, TP!Joined, T!StopFinishes, TP!StopFinishes,
         T!Poll, TP!Poll, T!DropQueue, TP!DropQueue, T!Visible, TP!Visible,
         T!SendRefused, TP!SendRefused, T!SendBegin, TP!SendBegin,
         T!SendStore, TP!SendStore, T!SendPublish, TP!SendPublish, T!RecvLoad, TP!RecvLoad,
         T!RecvEmpty, TP!RecvEmpty, T!RecvTake, TP!RecvTake, T!RecvPublish, TP!RecvPublish,
         T!Close, TP!Close, T!PropagateHead, TP!PropagateHead,
         T!PropagateTail, TP!PropagateTail, T!PropagateClosed, TP!PropagateClosed,
         T!Free, TP!Free, T!LooksFull, TP!LooksFull, T!Slot, TP!Slot, T!vars, TP!vars,
         T!tvars, TP!tvars, T!ticker, TP!ticker, T!pvars, TP!pvars, T!cvars, TP!cvars,
         T!views, TP!views
<1>5. T!TSpec => TP!TSpec
  BY <1>3, <1>4, PTL DEF T!TSpec, TP!TSpec
<1> QED
  BY <1>1, <1>2, <1>5

LEMMA SameChannel ==
  /\ C!ChannelAssumption => CP!ChannelAssumption
  /\ C!Spec => CP!Spec
<1>1. C!ChannelAssumption => CP!ChannelAssumption
  BY DEF C!ChannelAssumption, CP!ChannelAssumption, C!IsFiniteSet, CP!IsFiniteSet
<1>2. C!Init => CP!Init
  BY DEF C!Init, CP!Init, C!Threads, CP!Threads
<1>3. [C!Next]_C!vars => [CP!Next]_CP!vars
  BY DEF C!Next, CP!Next, C!Send, CP!Send, C!Recv, CP!Recv, C!MaySend, CP!MaySend,
         C!MayRecv, CP!MayRecv, C!SendWait, CP!SendWait, C!SendFail, CP!SendFail,
         C!SendPut, CP!SendPut, C!RecvWait, CP!RecvWait, C!RecvClosed, CP!RecvClosed,
         C!RecvTake, CP!RecvTake, C!TryRecvNothing, CP!TryRecvNothing,
         C!SpuriousWakeup, CP!SpuriousWakeup, C!Close, CP!Close, C!Free, CP!Free,
         C!At, CP!At, C!NextSlot, CP!NextSlot, C!Threads, CP!Threads, C!ring, CP!ring,
         C!vars, CP!vars, C!Signal, CP!Signal, C!Broadcast, CP!Broadcast,
         C!Cardinality, CP!Cardinality, C!IsFiniteSet, CP!IsFiniteSet
<1>4. C!Spec => CP!Spec
  BY <1>2, <1>3, PTL DEF C!Spec, CP!Spec
<1> QED
  BY <1>1, <1>4

\* The producer stores only into slots that own no message and the consumer
\* takes only from slots that own one, for every capacity and every number of
\* index values that is a multiple of it, however far each side's loads lag behind.
THEOREM QueueSlotOwnership ==
  ASSUME T!LfAssumption, T!TickerAssumption
  PROVE  T!TSpec => []SlotOwnership
<1>1. TP!TSpec => []TP!SlotOwnership
  BY SameQueue, TP!QueueSlotOwnership
<1>2. TP!SlotOwnership => SlotOwnership
  BY DEF SlotOwnership, T!SlotOwnership, TP!SlotOwnership, T!Slot, TP!Slot
<1> QED
  BY <1>1, <1>2, SameQueue, PTL

\* When the producer's thread closes the queue, the second 0 in a row that
\* try_recv returns means that everything sent has been received.
THEOREM QueueSecondZeroIsFinal ==
  ASSUME T!LfAssumption, T!TickerAssumption
  PROVE  T!TSpec => []SecondZeroIsFinal
<1>1. TP!TSpec => []TP!SecondZeroIsFinal
  BY SameQueue, TP!QueueSecondZeroIsFinal
<1>2. TP!SecondZeroIsFinal => SecondZeroIsFinal
  BY DEF SecondZeroIsFinal, T!SecondZeroIsFinal, TP!SecondZeroIsFinal
<1> QED
  BY <1>1, <1>2, SameQueue, PTL

\* After stop has returned the ticker's thread neither posts nor touches what
\* is freed, and a poll that finds the queue empty has seen every event.
THEOREM TickerStopIsFinal ==
  ASSUME T!LfAssumption, T!TickerAssumption
  PROVE  T!TSpec => []StopIsFinal
<1>1. TP!TSpec => []TP!StopIsFinal
  BY SameQueue, TP!TickerStopIsFinal
<1>2. TP!StopIsFinal => StopIsFinal
  BY DEF StopIsFinal, T!StopIsFinal, TP!StopIsFinal, T!ThreadContained,
         TP!ThreadContained, T!EmptyAfterStop, TP!EmptyAfterStop
<1> QED
  BY <1>1, <1>2, SameQueue, PTL

\* The lock-free queue, used alone or by a ticker, implements the bounded
\* FIFO that its producer closes, also when its indices wrap.
THEOREM QueueImplementsFifo ==
  ASSUME T!LfAssumption, T!TickerAssumption
  PROVE  T!TSpec => QueueIsFifo
<1>1. TP!TSpec => TP!QueueIsFifo
  BY SameQueue, TP!QueueImplementsFifo
<1>2. TP!Fifo0!FifoInit => T!Fifo0!FifoInit
  BY DEF TP!Fifo0!FifoInit, T!Fifo0!FifoInit
<1>3. [TP!Fifo0!FifoNext]_(TP!Fifo0!fifoVars) => [T!Fifo0!FifoNext]_(T!Fifo0!fifoVars)
  BY DEF TP!Fifo0!FifoNext, T!Fifo0!FifoNext, TP!Fifo0!Accept, T!Fifo0!Accept,
         TP!Fifo0!Deliver, T!Fifo0!Deliver, TP!Fifo0!CloseFifo, T!Fifo0!CloseFifo,
         TP!Fifo0!fifoVars, T!Fifo0!fifoVars
<1> QED
  BY <1>1, <1>2, <1>3, SameQueue, PTL
  DEF QueueIsFifo, T!QueueIsFifo, TP!QueueIsFifo, T!Fifo0!FifoSpec, TP!Fifo0!FifoSpec

\* A receiver that is told 0 can rely on it: the channel is closed and every
\* message sent has been received, if no message is empty.
THEOREM ChannelZeroMeansDrained ==
  ASSUME C!ChannelAssumption, Empty \notin Values
  PROVE  C!Spec => []ClosedMeansDrained
<1>1. CP!Spec => []CP!ClosedMeansDrained
  BY SameChannel, CP!ChannelZeroMeansDrained
<1>2. CP!ClosedMeansDrained => ClosedMeansDrained
  BY DEF ClosedMeansDrained, C!ClosedMeansDrained, CP!ClosedMeansDrained
<1> QED
  BY <1>1, <1>2, SameChannel, PTL

\* While somebody sleeps on a condition of the channel, at least as many
\* threads are on their way to the mutex as there are slots or messages for
\* them, as long as copying a message does not fail.
THEOREM ChannelNoLostWakeup ==
  ASSUME C!ChannelAssumption, AllocFails = FALSE
  PROVE  C!Spec => []NoLostWakeup
<1>1. CP!Spec => []CP!NoLostWakeup
  BY SameChannel, CP!ChannelNoLostWakeup
<1>2. CP!NoLostWakeup => NoLostWakeup
  BY DEF NoLostWakeup, C!NoLostWakeup, CP!NoLostWakeup, C!At, CP!At, C!Threads,
         CP!Threads, C!Cardinality, CP!Cardinality, C!IsFiniteSet, CP!IsFiniteSet
<1> QED
  BY <1>1, <1>2, SameChannel, PTL

\* The channel implements the closable bounded FIFO for any number of senders
\* and receivers, whoever closes it.
THEOREM ChannelImplementsFifo ==
  ASSUME C!ChannelAssumption
  PROVE  C!Spec => ChannelIsFifo
<1>1. CP!Spec => CP!ChannelIsFifo
  BY SameChannel, CP!ChannelImplementsFifo
<1>2. CP!Fifo0!FifoInit => C!Fifo0!FifoInit
  BY DEF CP!Fifo0!FifoInit, C!Fifo0!FifoInit
<1>3. [CP!Fifo0!FifoNext]_(CP!Fifo0!fifoVars) => [C!Fifo0!FifoNext]_(C!Fifo0!fifoVars)
  BY DEF CP!Fifo0!FifoNext, C!Fifo0!FifoNext, CP!Fifo0!Accept, C!Fifo0!Accept,
         CP!Fifo0!Deliver, C!Fifo0!Deliver, CP!Fifo0!CloseFifo, C!Fifo0!CloseFifo,
         CP!Fifo0!fifoVars, C!Fifo0!fifoVars
<1> QED
  BY <1>1, <1>2, <1>3, SameChannel, PTL
  DEF ChannelIsFifo, C!ChannelIsFifo, CP!ChannelIsFifo, C!Fifo0!FifoSpec, CP!Fifo0!FifoSpec
=============================================================================
