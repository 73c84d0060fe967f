------------------------- MODULE AsyncTickerProofs -------------------------
(***************************************************************************)
(* Proofs about LockFreeQueue and the ticker that feeds one, for every     *)
(* capacity, every width of the indices and every number of messages.      *)
(*                                                                         *)
(* The invariant QueueInv counts messages instead of positions: there are  *)
(* p and q with                                                            *)
(*     p <= Len(got) <= q <= Len(sent) <= p + Capacity                     *)
(* such that each of the four indices, real or viewed, is one of these     *)
(* counts modulo IndexMod (Chain), and the slot of message k + 1 is        *)
(* k % Capacity, also after the indices have wrapped (SlotOfCount, which   *)
(* is where the assumption on IndexMod is needed).  TickerInv and Caught   *)
(* add where the ticker's thread and its owner may be.                     *)
(***************************************************************************)
EXTENDS AsyncTicker, TLAPS

-----------------------------------------------------------------------------
\* Division with remainder.

LEMMA ModBasics ==
  ASSUME NEW n \in Nat, NEW M \in Nat \ {0}
  PROVE  /\ n \div M \in Int /\ n % M \in 0 .. M - 1
         /\ n = M * (n \div M) + (n % M)
  BY Z3

LEMMA ModUnique ==
  ASSUME NEW M \in Nat \ {0}, NEW q \in Int, NEW r \in 0 .. M - 1
  PROVE  (M * q + r) % M = r
  BY Z3

LEMMA Distribute ==
  ASSUME NEW M \in Int, NEW x \in Int, NEW y \in Int
  PROVE  M * (x - y) = M * x - M * y
  BY Z3

\* Counts less than M apart that fall on the same position are the same.
LEMMA ModInjective ==
  ASSUME NEW M \in Nat \ {0}, NEW a \in Nat, NEW b \in Nat,
         a <= b, b - a < M, a % M = b % M
  PROVE  a = b
<1>1. a = M * (a \div M) + (a % M) /\ b = M * (b \div M) + (b % M)
      /\ a \div M \in Int /\ b \div M \in Int
  BY ModBasics
<1> DEFINE d == (b \div M) - (a \div M)
<1>2. d \in Int /\ b - a = M * d
  <2>1. M * d = M * (b \div M) - M * (a \div M) /\ d \in Int
    BY <1>1, Distribute
  <2> QED
    BY <1>1, <2>1
<1> HIDE DEF d
<1>3. d = 0
  BY <1>2, Z3
<1> QED
  BY <1>2, <1>3

\* An increment that wraps.
LEMMA ModSucc ==
  ASSUME NEW M \in Nat \ {0}, NEW a \in Nat
  PROVE  ((a % M) + 1) % M = (a + 1) % M
<1> DEFINE q == a \div M
           r == a % M
<1>1. q \in Int /\ r \in 0 .. M - 1 /\ a = M * q + r
  BY ModBasics
<1> HIDE DEF q, r
<1>2. CASE r + 1 < M
  <2>1. r + 1 \in 0 .. M - 1 /\ a + 1 = M * q + (r + 1)
    BY <1>1, <1>2
  <2>2. (M * q + (r + 1)) % M = r + 1
    BY <1>1, <2>1, ModUnique
  <2>3. (r + 1) % M = r + 1
    BY <2>1
  <2> QED
    BY <2>1, <2>2, <2>3 DEF r
<1>3. CASE r + 1 = M
  <2>1. a + 1 = M * (q + 1) + 0 /\ q + 1 \in Int /\ 0 \in 0 .. M - 1
    BY <1>1, <1>3
  <2>2. (M * (q + 1) + 0) % M = 0
    BY <2>1, ModUnique
  <2>3. M % M = 0
    BY Z3
  <2> QED
    BY <1>3, <2>1, <2>2, <2>3 DEF r
<1> QED
  BY <1>1, <1>2, <1>3

LEMMA ModPeriod ==
  ASSUME NEW M \in Nat \ {0}, NEW a \in Nat
  PROVE  (a + M) % M = a % M
<1> DEFINE q == a \div M
           r == a % M
<1>1. q \in Int /\ r \in 0 .. M - 1 /\ a = M * q + r
  BY ModBasics
<1> HIDE DEF q, r
<1>2. a + M = M * (q + 1) + r /\ q + 1 \in Int
  BY <1>1
<1>3. (M * (q + 1) + r) % M = r
  BY <1>1, <1>2, ModUnique
<1> QED
  BY <1>2, <1>3 DEF r

\* The difference of two wrapped counters is their distance.
LEMMA ModDifference ==
  ASSUME NEW M \in Nat \ {0}, NEW a \in Nat, NEW b \in Nat, a <= b, b - a < M
  PROVE  ((b % M) - (a % M)) % M = b - a
<1> DEFINE q == a \div M
           r == a % M
           p == b \div M
           s == b % M
<1>1. /\ q \in Int /\ r \in 0 .. M - 1 /\ a = M * q + r
      /\ p \in Int /\ s \in 0 .. M - 1 /\ b = M * p + s
  BY ModBasics
<1> HIDE DEF p, q, r, s
<1>2. s - r = M * (q - p) + (b - a) /\ q - p \in Int /\ b - a \in 0 .. M - 1
  <2>1. M * (q - p) = M * q - M * p
    BY <1>1, Distribute
  <2> QED
    BY <1>1, <2>1
<1>3. (M * (q - p) + (b - a)) % M = b - a
  BY <1>2, ModUnique
<1> QED
  BY <1>2, <1>3 DEF r, s

\* Reducing a wrapped counter once more is sound when the widths divide.
LEMMA ModOfMod ==
  ASSUME NEW M \in Nat \ {0}, NEW C \in Nat \ {0}, M % C = 0, NEW a \in Nat
  PROVE  (a % M) % C = a % C
<1> DEFINE q == a \div M
           r == a % M
           k == M \div C
           u == r \div C
           w == r % C
<1>1. q \in Int /\ r \in 0 .. M - 1 /\ a = M * q + r /\ k \in Int /\ M = C * k + (M % C)
  BY ModBasics
<1>2. u \in Int /\ w \in 0 .. C - 1 /\ r = C * u + w
  BY <1>1, ModBasics
<1> HIDE DEF q, r, k, u, w
<1>3. a = C * (k * q + u) + w /\ k * q + u \in Int
  BY <1>1, <1>2, Z3
<1>4. (C * (k * q + u) + w) % C = w
  BY <1>2, <1>3, ModUnique
<1> QED
  BY <1>3, <1>4 DEF r, w

-----------------------------------------------------------------------------
Kinds ==
  /\ ppc \in {"idle", "store", "publish"}
  /\ cpc \in {"idle", "empty", "take", "publish"}
  /\ zeros \in 0 .. 2

Stores ==
  /\ sent \in Seq(Values) /\ got \in Seq(Values)
  /\ items \in [0 .. Capacity - 1 -> Values \cup {Null}]

\* What a side inside a call knows; nobody is inside one after free.
Calls ==
  /\ ppc # "idle" => live /\ msgP \in Values /\ Len(sent) < MaxSend
  /\ cpc # "idle" => live
  /\ cpc = "publish" => msgC = sent[Len(got) + 1]

Prefix ==
  /\ Len(got) <= Len(sent) /\ Len(sent) <= MaxSend
  /\ \A i \in 1 .. Len(got) : got[i] = sent[i]

\* The producer has seen p messages received and the consumer q sent.
Chain(p, q) ==
  /\ p <= Len(got) /\ Len(got) <= q /\ q <= Len(sent) /\ Len(sent) <= p + Capacity
  /\ headView = p % IndexMod /\ tailView = q % IndexMod
  /\ head = Len(got) % IndexMod /\ tail = Len(sent) % IndexMod
  /\ ppc # "idle" => Len(sent) < p + Capacity
  /\ cpc \in {"take", "publish"} => Len(got) < q

\* What the slot of the message numbered k + 1 holds.
Content(k) ==
  IF \/ k = Len(got) /\ cpc = "publish"
     \/ k > Len(sent)
     \/ k = Len(sent) /\ ppc # "publish"
  THEN Null ELSE IF k = Len(sent) THEN msgP ELSE sent[k + 1]

Contents ==
  live => \A k \in Len(got) .. Len(got) + Capacity - 1 : items[k % Capacity] = Content(k)

\* After a close by the producer's thread the producer is done.
Closing ==
  /\ closedViewC => closed
  /\ closer = "producer" /\ closed => ppc = "idle" /\ (closedViewP \/ ~live)

\* A 0 makes the last tail visible, so that the next load can rely on it.
Drained ==
  closer = "producer" =>
    /\ zeros >= 1 => closed /\ tailView = tail /\ (cpc = "empty" => head = tail)
    /\ zeros = 2 => head = tail /\ cpc \in {"idle", "empty"}

QueueInv ==
  /\ Kinds /\ Stores /\ Calls /\ Prefix
  /\ \E p, q \in Nat : Chain(p, q)
  /\ Contents /\ Closing /\ Drained

\* Joining a ticker makes what its thread stored visible to its owner.
JoinView ==
  /\ tailView' = tail /\ result' = "none" /\ closer # "producer"
  /\ UNCHANGED <<pvars, head, cpc, msgC, zeros, got, headView, closedViewP, closedViewC,
                 closed, items, live, closer>>

-----------------------------------------------------------------------------
\* The slot an index stands for, also after the index has wrapped.
LEMMA SlotOfCount ==
  ASSUME LfAssumption, NEW n \in Nat, n <= MaxSend
  PROVE  Slot(n % IndexMod) = n % Capacity
<1>0. Capacity \in Nat \ {0} /\ IndexMod \in Nat \ {0}
  BY DEF LfAssumption
<1>1. CASE IndexMod % Capacity = 0
  BY <1>0, <1>1, ModOfMod DEF Slot
<1>2. CASE MaxSend < IndexMod
  <2>1. n % IndexMod = n
    BY <1>2 DEF LfAssumption
  <2> QED
    BY <2>1 DEF Slot
<1> QED
  BY <1>1, <1>2 DEF LfAssumption

\* What the invariant says of the counters and the slots they stand for.
LEMMA Numbers ==
  ASSUME LfAssumption, QueueInv
  PROVE  /\ Len(got) \in Nat /\ Len(sent) \in Nat
         /\ Len(got) <= Len(sent) /\ Len(sent) <= Len(got) + Capacity
         /\ Capacity \in Nat \ {0} /\ IndexMod \in Nat \ {0} /\ IndexMod > Capacity
         /\ Slot(tail) = Len(sent) % Capacity /\ Slot(head) = Len(got) % Capacity
         /\ Slot(tail) \in 0 .. Capacity - 1 /\ Slot(head) \in 0 .. Capacity - 1
         /\ ppc # "idle" => Len(sent) < Len(got) + Capacity
         /\ cpc \in {"take", "publish"} => Len(got) < Len(sent)
         /\ (head = tail) => Len(got) = Len(sent)
<1>1. Len(got) \in Nat /\ Len(sent) \in Nat
  BY DEF QueueInv, Stores
<1>2. Capacity \in Nat \ {0} /\ IndexMod \in Nat \ {0} /\ IndexMod > Capacity
  BY DEF LfAssumption
<1>3. PICK p \in Nat, q \in Nat : Chain(p, q)
  BY DEF QueueInv
<1>4. /\ Len(got) <= Len(sent) /\ Len(sent) <= Len(got) + Capacity
      /\ ppc # "idle" => Len(sent) < Len(got) + Capacity
      /\ cpc \in {"take", "publish"} => Len(got) < Len(sent)
  BY <1>1, <1>2, <1>3 DEF Chain
<1>5. Len(sent) <= MaxSend /\ Len(got) <= MaxSend
  BY <1>1, <1>4 DEF QueueInv, Prefix, LfAssumption
<1>6. tail = Len(sent) % IndexMod /\ head = Len(got) % IndexMod
  BY <1>3 DEF Chain
<1>7. Slot(tail) = Len(sent) % Capacity /\ Slot(head) = Len(got) % Capacity
  BY <1>1, <1>5, <1>6, SlotOfCount
<1>8. Slot(tail) \in 0 .. Capacity - 1 /\ Slot(head) \in 0 .. Capacity - 1
  BY <1>1, <1>2, <1>7, ModBasics
<1>9. ASSUME head = tail PROVE Len(got) = Len(sent)
  <2>1. Len(sent) - Len(got) < IndexMod
    BY <1>1, <1>2, <1>4
  <2> QED
    BY <1>1, <1>2, <1>4, <1>6, <1>9, <2>1, ModInjective
<1> QED
  BY <1>1, <1>2, <1>4, <1>7, <1>8, <1>9

LEMMA QueueInitInv ==
  ASSUME LfAssumption, Init
  PROVE  QueueInv
<1>1. Len(sent) = 0 /\ Len(got) = 0 /\ 0 % IndexMod = 0 /\ Capacity \in Nat \ {0}
  BY DEF Init, LfAssumption
<1>2. Chain(0, 0)
  BY <1>1 DEF Init, Chain
<1>3. Kinds /\ Stores /\ Calls /\ Prefix
  BY <1>1 DEF Init, Kinds, Stores, Calls, Prefix, LfAssumption
<1>4. Contents
  <2> SUFFICES ASSUME NEW k \in 0 .. Capacity - 1
               PROVE  items[k % Capacity] = Content(k)
    BY <1>1 DEF Contents
  <2>1. k % Capacity \in 0 .. Capacity - 1
    BY <1>1, ModBasics
  <2> QED
    BY <1>1, <2>1 DEF Init, Content
<1>5. Closing /\ Drained
  BY DEF Init, Closing, Drained
<1> QED
  BY <1>2, <1>3, <1>4, <1>5 DEF QueueInv

-----------------------------------------------------------------------------
LEMMA SendBeginInv ==
  ASSUME LfAssumption, QueueInv, NEW v \in Values, SendBegin(v)
  PROVE  QueueInv'
<1>0. UNCHANGED <<tail, sent, cvars, views, closed, items, live, closer>> /\ ppc = "idle"
      /\ ppc' = "store" /\ msgP' = v /\ live /\ Len(sent) < MaxSend /\ ~closedViewP
  BY DEF SendBegin
<1>1. PICK p \in Nat, q \in Nat : Chain(p, q)
  BY DEF QueueInv
<1>2. Len(sent) < p + Capacity
  <2>1. ((Len(sent) % IndexMod) - (p % IndexMod)) % IndexMod = Len(sent) - p
    <3>0. /\ p <= Len(got) /\ Len(sent) <= p + Capacity /\ p \in Nat
          /\ Len(got) \in Nat /\ Len(sent) \in Nat /\ Len(got) <= Len(sent)
          /\ Capacity \in Nat /\ IndexMod \in Nat /\ Capacity < IndexMod
      BY <1>1, Numbers DEF Chain
    <3>1. p <= Len(sent) /\ Len(sent) - p < IndexMod
      BY <3>0
    <3>2. Len(sent) \in Nat /\ IndexMod \in Nat \ {0}
      BY Numbers
    <3> QED
      BY <3>1, <3>2, ModDifference
  <2>2. ~(Len(sent) - p >= Capacity)
    BY <1>1, <2>1 DEF SendBegin, LooksFull, Chain
  <2> QED
    BY <2>2, Numbers
<1>3. Chain(p, q)'
  BY <1>0, <1>1, <1>2 DEF Chain, cvars, views
<1>4. Kinds' /\ Stores' /\ Calls' /\ Prefix'
  BY <1>0 DEF QueueInv, Kinds, Stores, Calls, Prefix, cvars, views
<1>5. Contents'
  BY <1>0 DEF QueueInv, Contents, Content, cvars, views
<1>6. Closing' /\ Drained'
  BY <1>0 DEF QueueInv, Closing, Drained, cvars, views
<1> QED
  BY <1>3, <1>4, <1>5, <1>6 DEF QueueInv

LEMMA SendStoreInv ==
  ASSUME LfAssumption, QueueInv, SendStore
  PROVE  QueueInv'
<1>0. UNCHANGED <<tail, msgP, sent, cvars, views, closed, live, closer>> /\ ppc = "store"
      /\ ppc' = "publish" /\ items' = [items EXCEPT ![Slot(tail)] = msgP] /\ msgP \in Values
  BY DEF SendStore, QueueInv, Calls
<1>1. PICK p \in Nat, q \in Nat : Chain(p, q)
  BY DEF QueueInv
<1>2. Chain(p, q)'
  BY <1>0, <1>1 DEF Chain, cvars, views
<1>3. Kinds' /\ Calls' /\ Prefix'
  BY <1>0 DEF QueueInv, Kinds, Calls, Prefix, cvars, views
<1>4. Stores'
  BY <1>0 DEF QueueInv, Stores, cvars
<1>5. Contents'
  <2> SUFFICES ASSUME live, NEW k \in Len(got) .. Len(got) + Capacity - 1
               PROVE  items'[k % Capacity] = Content(k)'
    BY <1>0 DEF Contents, cvars
  <2>0. k \in Nat /\ Capacity \in Nat \ {0}
    BY Numbers
  <2>1. items[k % Capacity] = Content(k) /\ k \in Nat /\ k % Capacity \in 0 .. Capacity - 1
    BY <2>0, ModBasics DEF QueueInv, Contents
  <2>2. CASE k = Len(sent)
    <3>1. items'[k % Capacity] = msgP
      BY <1>0, <2>1, <2>2, Numbers DEF QueueInv, Stores
    <3>2. ~(k = Len(got) /\ cpc = "publish")
      BY <2>2, Numbers
    <3> QED
      BY <1>0, <2>2, <3>1, <3>2, Numbers DEF Content, cvars
  <2>3. CASE k # Len(sent)
    <3>1. k % Capacity # Slot(tail)
      <4>1. (k <= Len(sent) /\ Len(sent) - k < Capacity) \/ (Len(sent) <= k /\ k - Len(sent) < Capacity)
        BY <1>0, Numbers
      <4> QED
        BY <2>1, <2>3, <4>1, Numbers, ModInjective
    <3>2. items'[k % Capacity] = items[k % Capacity]
      BY <1>0, <2>1, <3>1, Numbers DEF QueueInv, Stores
    <3> QED
      BY <1>0, <2>1, <2>3, <3>2 DEF Content, cvars
  <2> QED
    BY <2>2, <2>3
<1>6. Closing' /\ Drained'
  BY <1>0 DEF QueueInv, Closing, Drained, cvars, views
<1> QED
  BY <1>2, <1>3, <1>4, <1>5, <1>6 DEF QueueInv

LEMMA SendPublishInv ==
  ASSUME LfAssumption, QueueInv, SendPublish
  PROVE  QueueInv'
<1>0. UNCHANGED <<cvars, views, closed, items, live, closer>> /\ ppc = "publish"
      /\ ppc' = "idle" /\ sent' = Append(sent, msgP) /\ tail' = (tail + 1) % IndexMod
      /\ msgP \in Values /\ Len(sent) < MaxSend /\ live
  BY DEF SendPublish, QueueInv, Calls
<1>s. /\ Len(sent') = Len(sent) + 1 /\ Len(got') = Len(got)
      /\ sent'[Len(sent) + 1] = msgP
      /\ \A i \in 1 .. Len(sent) : sent'[i] = sent[i]
  BY <1>0 DEF QueueInv, Stores, cvars
<1>n. Len(sent) < Len(got) + Capacity
  BY <1>0, Numbers
<1>1. PICK p \in Nat, q \in Nat : Chain(p, q)
  BY DEF QueueInv
<1>2. Chain(p, q)'
  <2>0. tail = Len(sent) % IndexMod /\ Len(sent) \in Nat /\ IndexMod \in Nat \ {0}
    BY <1>1, Numbers DEF Chain
  <2>1. tail' = (Len(sent) + 1) % IndexMod
    <3>1. ((Len(sent) % IndexMod) + 1) % IndexMod = (Len(sent) + 1) % IndexMod
      BY <2>0, ModSucc
    <3> QED
      BY <1>0, <2>0, <3>1
  <2>2. /\ p <= Len(got) /\ Len(got) <= q /\ q <= Len(sent) + 1
        /\ Len(sent) + 1 <= p + Capacity
    <3>1. /\ p <= Len(got) /\ Len(got) <= q /\ q <= Len(sent)
          /\ Len(sent) < p + Capacity /\ Capacity \in Nat
      BY <1>0, <1>1, Numbers DEF Chain
    <3> QED
      BY <2>0, <3>1
  <2> QED
    BY <1>0, <1>1, <1>s, <2>1, <2>2 DEF Chain, cvars, views
<1>3. Kinds' /\ Stores'
  BY <1>0 DEF QueueInv, Kinds, Stores, cvars
<1>4. Calls' /\ Prefix'
  <2>1. cpc = "publish" => Len(got) + 1 \in 1 .. Len(sent)
    BY Numbers
  <2>2. \A i \in 1 .. Len(got) : i \in 1 .. Len(sent)
    BY Numbers
  <2>3. Calls'
    BY <1>0, <1>s, <2>1 DEF QueueInv, Calls, cvars
  <2>4. Prefix'
    BY <1>0, <1>s, <2>2, Numbers DEF QueueInv, Prefix, cvars, LfAssumption
  <2> QED
    BY <2>3, <2>4
<1>5. Contents'
  <2> SUFFICES ASSUME NEW k \in Len(got) .. Len(got) + Capacity - 1
               PROVE  items[k % Capacity] = Content(k)'
    BY <1>0, <1>s DEF Contents, cvars
  <2>1. items[k % Capacity] = Content(k) /\ k \in Nat /\ Len(sent) \in Nat
    BY <1>0, Numbers DEF QueueInv, Contents
  <2>2. k < Len(sent) => k + 1 \in 1 .. Len(sent)
    BY <2>1
  <2> QED
    BY <1>0, <1>s, <2>1, <2>2 DEF Content, cvars
<1>6. Closing' /\ Drained'
  BY <1>0 DEF QueueInv, Closing, Drained, cvars, views
<1> QED
  BY <1>2, <1>3, <1>4, <1>5, <1>6 DEF QueueInv

-----------------------------------------------------------------------------
LEMMA RecvLoadInv ==
  ASSUME LfAssumption, QueueInv, RecvLoad
  PROVE  QueueInv'
<1>0. UNCHANGED <<head, msgC, result, zeros, got, pvars, views, closed, items, live, closer>>
      /\ cpc = "idle" /\ cpc' = (IF head = tailView THEN "empty" ELSE "take") /\ live
  BY DEF RecvLoad
<1>1. PICK p \in Nat, q \in Nat : Chain(p, q)
  BY DEF QueueInv
<1>2. cpc' = "take" => Len(got) < q
  BY <1>0, <1>1, Numbers DEF Chain
<1>3. Chain(p, q)'
  BY <1>0, <1>1, <1>2 DEF Chain, pvars, views
<1>4. Kinds' /\ Stores' /\ Calls' /\ Prefix'
  BY <1>0 DEF QueueInv, Kinds, Stores, Calls, Prefix, pvars, views
<1>5. Contents'
  BY <1>0 DEF QueueInv, Contents, Content, pvars, views
<1>6. Closing'
  BY <1>0 DEF QueueInv, Closing, pvars, views
<1>7. Drained'
  BY <1>0 DEF QueueInv, Drained, Kinds, pvars, views
<1> QED
  BY <1>3, <1>4, <1>5, <1>6, <1>7 DEF QueueInv

LEMMA RecvEmptyInv ==
  ASSUME LfAssumption, QueueInv, RecvEmpty
  PROVE  QueueInv'
<1>0. UNCHANGED <<head, msgC, got, pvars, headView, closedViewP, closedViewC,
                  closed, items, live, closer>>
      /\ cpc = "empty" /\ cpc' = "idle" /\ tailView' \in {tail, tailView}
  BY DEF RecvEmpty
<1>1. PICK p \in Nat, q \in Nat : Chain(p, q)
  BY DEF QueueInv
<1>2. \E r \in Nat : Chain(p, r)'
  <2>1. CASE tailView' = tail
    <3>1. Chain(p, Len(sent))'
      BY <1>0, <1>1, <2>1, Numbers DEF Chain, pvars
    <3> QED
      BY <1>0, <3>1, Numbers DEF pvars
  <2>2. CASE tailView' = tailView
    BY <1>0, <1>1, <2>2 DEF Chain, pvars
  <2> QED
    BY <1>0, <2>1, <2>2
<1>3. Stores' /\ Calls' /\ Prefix'
  BY <1>0 DEF QueueInv, Stores, Calls, Prefix, pvars
<1>4. Kinds'
  BY <1>0 DEF QueueInv, Kinds, pvars, RecvEmpty
<1>5. Contents'
  BY <1>0 DEF QueueInv, Contents, Content, pvars
<1>6. Closing'
  BY <1>0 DEF QueueInv, Closing, pvars
<1>7. Drained'
  BY <1>0 DEF QueueInv, Closing, Drained, Kinds, pvars, RecvEmpty
<1> QED
  BY <1>2, <1>3, <1>4, <1>5, <1>6, <1>7 DEF QueueInv

LEMMA RecvTakeInv ==
  ASSUME LfAssumption, QueueInv, RecvTake
  PROVE  QueueInv'
<1>0. UNCHANGED <<head, result, zeros, got, pvars, views, closed, live, closer>>
      /\ cpc = "take" /\ cpc' = "publish" /\ msgC' = items[Slot(head)] /\ live
      /\ items' = [items EXCEPT ![Slot(head)] = Null]
  BY DEF RecvTake, QueueInv, Calls
<1>n. Len(got) < Len(sent) /\ Len(got) \in Nat /\ Len(sent) \in Nat
  BY <1>0, Numbers
<1>1. PICK p \in Nat, q \in Nat : Chain(p, q)
  BY DEF QueueInv
<1>2. Chain(p, q)'
  BY <1>0, <1>1 DEF Chain, pvars, views
<1>3. Kinds' /\ Stores' /\ Prefix'
  BY <1>0 DEF QueueInv, Kinds, Stores, Prefix, pvars
<1>4. Calls'
  <2>1. Len(got) \in Len(got) .. Len(got) + Capacity - 1
    BY Numbers
  <2>2. items[Len(got) % Capacity] = Content(Len(got))
    BY <1>0, <2>1 DEF QueueInv, Contents
  <2>3. items[Slot(head)] = sent[Len(got) + 1]
    BY <1>0, <1>n, <2>2, Numbers DEF Content
  <2> QED
    BY <1>0, <2>3 DEF QueueInv, Calls, pvars
<1>5. Contents'
  <2> SUFFICES ASSUME NEW k \in Len(got) .. Len(got) + Capacity - 1
               PROVE  items'[k % Capacity] = Content(k)'
    BY <1>0 DEF Contents, pvars
  <2>0. k \in Nat /\ Capacity \in Nat \ {0}
    BY Numbers
  <2>1. items[k % Capacity] = Content(k) /\ k % Capacity \in 0 .. Capacity - 1
    BY <1>0, <2>0, ModBasics DEF QueueInv, Contents
  <2>2. CASE k = Len(got)
    <3>1. items'[k % Capacity] = Null
      BY <1>0, <2>1, <2>2, Numbers DEF QueueInv, Stores
    <3> QED
      BY <1>0, <2>2, <3>1 DEF Content
  <2>3. CASE k # Len(got)
    <3>1. k % Capacity # Slot(head)
      <4>1. Len(got) <= k /\ k - Len(got) < Capacity
        BY <1>n, <2>0
      <4> QED
        BY <2>0, <2>3, <4>1, Numbers, ModInjective
    <3>2. items'[k % Capacity] = items[k % Capacity]
      BY <1>0, <2>1, <3>1, Numbers DEF QueueInv, Stores
    <3> QED
      BY <1>0, <2>1, <2>3, <3>2 DEF Content, pvars
  <2> QED
    BY <2>2, <2>3
<1>6. Closing' /\ Drained'
  BY <1>0 DEF QueueInv, Closing, Drained, pvars, views
<1> QED
  BY <1>2, <1>3, <1>4, <1>5, <1>6 DEF QueueInv

LEMMA RecvPublishInv ==
  ASSUME LfAssumption, QueueInv, RecvPublish
  PROVE  QueueInv'
<1>0. UNCHANGED <<pvars, views, closed, items, live, closer>> /\ cpc = "publish" /\ live
      /\ cpc' = "idle" /\ got' = Append(got, msgC) /\ head' = (head + 1) % IndexMod
      /\ zeros' = 0 /\ msgC = sent[Len(got) + 1]
  BY DEF RecvPublish, QueueInv, Calls
<1>n. /\ Len(got) < Len(sent) /\ Len(got) \in Nat /\ Len(sent) \in Nat
      /\ Len(sent) <= Len(got) + Capacity /\ Capacity \in Nat \ {0}
      /\ ppc # "idle" => Len(sent) < Len(got) + Capacity
  BY <1>0, Numbers
<1>m. Len(got) + 1 \in 1 .. Len(sent) /\ msgC \in Values
  <2>1. Len(got) + 1 \in 1 .. Len(sent)
    BY <1>n
  <2> QED
    BY <1>0, <2>1 DEF QueueInv, Stores
<1>s. /\ Len(got') = Len(got) + 1 /\ sent' = sent
      /\ got'[Len(got) + 1] = msgC
      /\ \A i \in 1 .. Len(got) : got'[i] = got[i]
  BY <1>0, <1>m DEF QueueInv, Stores, pvars
<1>1. PICK p \in Nat, q \in Nat : Chain(p, q)
  BY DEF QueueInv
<1>2. Chain(p, q)'
  <2>0. head = Len(got) % IndexMod /\ IndexMod \in Nat \ {0}
    BY <1>1, Numbers DEF Chain
  <2>1. head' = (Len(got) + 1) % IndexMod
    BY <1>0, <1>n, <2>0, ModSucc
  <2>2. /\ p <= Len(got) + 1 /\ Len(got) + 1 <= q /\ q <= Len(sent)
        /\ Len(sent) <= p + Capacity
    BY <1>0, <1>n, <1>1 DEF Chain
  <2> QED
    BY <1>0, <1>1, <1>s, <2>1, <2>2 DEF Chain, pvars, views
<1>3. Kinds' /\ Stores'
  BY <1>0, <1>m DEF QueueInv, Kinds, Stores, pvars
<1>4. Calls'
  BY <1>0 DEF QueueInv, Calls, pvars
<1>5. Prefix'
  <2>1. \A i \in 1 .. Len(got) + 1 : i = Len(got) + 1 \/ i \in 1 .. Len(got)
    BY <1>n
  <2>2. \A i \in 1 .. Len(got) + 1 : got'[i] = sent[i]
    BY <1>0, <1>s, <2>1 DEF QueueInv, Prefix
  <2> QED
    BY <1>0, <1>n, <1>s, <2>2 DEF QueueInv, Prefix
<1>6. Contents'
  <2> SUFFICES ASSUME NEW k \in Len(got) + 1 .. Len(got) + Capacity
               PROVE  items[k % Capacity] = Content(k)'
    <3>1. Len(got') .. Len(got') + Capacity - 1 = Len(got) + 1 .. Len(got) + Capacity
      BY <1>n, <1>s
    <3> QED
      BY <1>0, <1>n, <1>s, <3>1 DEF Contents, pvars
  <2>1. CASE k < Len(got) + Capacity
    <3>1. k \in Len(got) .. Len(got) + Capacity - 1 /\ k \in Nat
      BY <1>n, <2>1
    <3>2. items[k % Capacity] = Content(k) /\ k # Len(got)
      BY <1>0, <1>n, <3>1 DEF QueueInv, Contents
    <3> QED
      BY <1>0, <1>s, <3>2 DEF Content, pvars
  <2>2. CASE k = Len(got) + Capacity
    <3>1. Len(got) \in Len(got) .. Len(got) + Capacity - 1
      BY <1>n
    <3>2. items[Len(got) % Capacity] = Null
      BY <1>0, <3>1 DEF QueueInv, Contents, Content
    <3>3. k % Capacity = Len(got) % Capacity
      BY <1>n, <2>2, ModPeriod
    <3>4. Content(k)' = Null
      BY <1>0, <1>n, <1>s, <2>2 DEF Content, pvars
    <3> QED
      BY <3>2, <3>3, <3>4
  <2> QED
    BY <1>n, <2>1, <2>2
<1>7. Closing' /\ Drained'
  BY <1>0 DEF QueueInv, Closing, Drained, pvars, views
<1> QED
  BY <1>2, <1>3, <1>4, <1>5, <1>6, <1>7 DEF QueueInv

-----------------------------------------------------------------------------
\* Stores become visible, by themselves or by joining the thread.
LEMMA VisibleInv ==
  ASSUME LfAssumption, QueueInv,
         PropagateHead \/ PropagateTail \/ PropagateClosed \/ JoinView
  PROVE  QueueInv'
<1>0. /\ UNCHANGED <<pvars, head, cpc, msgC, zeros, got, closed, items, live, closer>>
      /\ closedViewP => closedViewP'
      /\ closedViewC' => closed \/ closedViewC
      /\ headView' \in {headView, head} /\ tailView' \in {tailView, tail}
  BY DEF PropagateHead, PropagateTail, PropagateClosed, JoinView, cvars
<1>1. PICK p \in Nat, q \in Nat : Chain(p, q)
  BY DEF QueueInv
<1>n. /\ Len(got) <= Len(sent) /\ Len(got) \in Nat /\ Len(sent) \in Nat
      /\ Len(sent) <= Len(got) + Capacity /\ Capacity \in Nat \ {0}
      /\ ppc # "idle" => Len(sent) < Len(got) + Capacity
      /\ cpc \in {"take", "publish"} => Len(got) < Len(sent)
  BY Numbers
<1>2. PICK r \in Nat, s \in Nat :
           /\ r <= Len(got) /\ Len(got) <= s /\ s <= Len(sent) /\ Len(sent) <= r + Capacity
           /\ headView' = r % IndexMod /\ tailView' = s % IndexMod
           /\ ppc # "idle" => Len(sent) < r + Capacity
           /\ cpc \in {"take", "publish"} => Len(got) < s
  <2>1. \E r \in Nat : /\ r <= Len(got) /\ Len(sent) <= r + Capacity
                       /\ headView' = r % IndexMod
                       /\ ppc # "idle" => Len(sent) < r + Capacity
    BY <1>0, <1>1, <1>n DEF Chain
  <2>2. \E s \in Nat : /\ Len(got) <= s /\ s <= Len(sent) /\ tailView' = s % IndexMod
                       /\ cpc \in {"take", "publish"} => Len(got) < s
    BY <1>0, <1>1, <1>n DEF Chain
  <2> QED
    BY <2>1, <2>2
<1>3. Chain(r, s)'
  BY <1>0, <1>1, <1>2 DEF Chain, pvars
<1>4. Kinds' /\ Stores' /\ Calls' /\ Prefix'
  BY <1>0 DEF QueueInv, Kinds, Stores, Calls, Prefix, pvars
<1>5. Contents'
  BY <1>0 DEF QueueInv, Contents, Content, pvars
<1>6. Closing'
  BY <1>0 DEF QueueInv, Closing, pvars
<1>7. Drained'
  BY <1>0 DEF QueueInv, Drained, pvars
<1> QED
  BY <1>3, <1>4, <1>5, <1>6, <1>7 DEF QueueInv

LEMMA CloseFreeInv ==
  ASSUME LfAssumption, QueueInv, Close \/ Free
  PROVE  QueueInv'
<1>0. UNCHANGED <<pvars, cvars, headView, tailView, closedViewC, closer>>
  BY DEF Close, Free, views
<1>1. PICK p \in Nat, q \in Nat : Chain(p, q)
  BY DEF QueueInv
<1>2. Chain(p, q)'
  BY <1>0, <1>1 DEF Chain, pvars, cvars
<1>3. Kinds' /\ Prefix'
  BY <1>0 DEF QueueInv, Kinds, Prefix, pvars, cvars
<1>4. Stores' /\ Calls'
  BY <1>0 DEF QueueInv, Stores, Calls, pvars, cvars, Close, Free
<1>5. Contents'
  BY <1>0 DEF QueueInv, Contents, Content, pvars, cvars, Close, Free
<1>6. Closing'
  BY <1>0 DEF QueueInv, Closing, pvars, Close, Free
<1>7. Drained'
  BY <1>0 DEF QueueInv, Drained, pvars, cvars, Close, Free
<1> QED
  BY <1>2, <1>3, <1>4, <1>5, <1>6, <1>7 DEF QueueInv

LEMMA QueueSame ==
  ASSUME QueueInv, UNCHANGED vars
  PROVE  QueueInv'
<1> USE DEF vars, pvars, cvars, views, QueueInv
<1>1. PICK p \in Nat, q \in Nat : Chain(p, q)
  OBVIOUS
<1>2. Chain(p, q)'
  BY <1>1 DEF Chain
<1>3. Kinds' /\ Stores' /\ Calls' /\ Prefix'
  BY DEF Kinds, Stores, Calls, Prefix
<1>4. Contents' /\ Closing' /\ Drained'
  BY DEF Contents, Content, Closing, Drained
<1> QED
  BY <1>2, <1>3, <1>4

LEMMA QueueNextInv ==
  ASSUME LfAssumption, QueueInv, [Next]_vars \/ JoinView
  PROVE  QueueInv'
<1>1. CASE SendRefused
  BY <1>1, QueueSame DEF SendRefused
<1> QED
  BY <1>1, SendBeginInv, SendStoreInv, SendPublishInv, RecvLoadInv, RecvEmptyInv, RecvTakeInv,
     RecvPublishInv, VisibleInv, CloseFreeInv, QueueSame DEF Next

-----------------------------------------------------------------------------
\* The steps of a ticker's thread and of its owner, as steps of the queue.
LEMMA TickerStepsQueue ==
  ASSUME TickerAssumption, ticking => closer # "producer", [TNext]_tvars
  PROVE  [Next]_vars \/ JoinView
<1> USE DEF Next
<1>1. CASE Start \/ StartFails \/ TickLoop \/ TickWake \/ UNCHANGED tvars
  BY <1>1 DEF Start, StartFails, TickLoop, TickWake, tvars
<1>2. CASE Stop("stopping") \/ Stop("freeing")
  BY <1>2 DEF Stop
<1>3. CASE TickRefused \/ TickSend
  BY <1>3 DEF TickRefused, TickSend, TickerAssumption
<1>4. CASE ticking /\ Joined
  BY <1>4 DEF Joined, StopFinishes, JoinView
<1>5. CASE Poll \/ DropQueue \/ Visible
  BY <1>5 DEF Poll, DropQueue, Visible
<1> QED
  BY <1>1, <1>2, <1>3, <1>4, <1>5 DEF TNext, TickerStep

\* A ticker's queue is closed by its owner, not by the ticker's thread.
Used == ticking => closer # "producer"

\* The queue's invariant holds whether or not a ticker feeds the queue.
THEOREM QueueInvariant ==
  ASSUME LfAssumption, TickerAssumption
  PROVE  TSpec => [](QueueInv /\ Used)
<1>1. TInit => QueueInv /\ Used
  BY QueueInitInv DEF TInit, Used
<1>2. QueueInv /\ Used /\ [TNext]_tvars => (QueueInv /\ Used)'
  <2> SUFFICES ASSUME QueueInv, Used, [TNext]_tvars
               PROVE  QueueInv' /\ Used'
    OBVIOUS
  <2>1. [Next]_vars \/ JoinView
    BY TickerStepsQueue DEF Used
  <2>2. QueueInv'
    BY <2>1, QueueNextInv
  <2>3. closer' = closer
    <3>1. CASE UNCHANGED vars
      BY <3>1 DEF vars
    <3>2. CASE JoinView
      BY <3>2 DEF JoinView
    <3>3. CASE Next
      BY <3>3 DEF Next, SendRefused, SendBegin, SendStore, SendPublish, RecvLoad, RecvEmpty,
                  RecvTake, RecvPublish, Close, PropagateHead, PropagateTail, PropagateClosed,
                  Free, vars
    <3> QED
      BY <2>1, <3>1, <3>2, <3>3
  <2>4. ticking' = ticking
    BY DEF TNext, TickerStep, Start, StartFails, TickLoop, TickWake, TickRefused, TickSend,
           Stop, Joined, StopFinishes, Poll, DropQueue, Visible, tvars, ticker
  <2> QED
    BY <2>2, <2>3, <2>4 DEF Used
<1> QED
  BY <1>1, <1>2, PTL DEF TSpec

LEMMA OwnershipOfSlots ==
  ASSUME LfAssumption, QueueInv
  PROVE  SlotOwnership
<1>n. /\ Len(got) \in Nat /\ Len(sent) \in Nat /\ Capacity \in Nat \ {0}
      /\ Len(got) <= Len(sent) /\ Null \notin Values
      /\ Slot(tail) = Len(sent) % Capacity /\ Slot(head) = Len(got) % Capacity
  BY Numbers DEF LfAssumption
<1>1. ASSUME ppc = "store" PROVE items[Slot(tail)] = Null
  <2>1. live /\ Len(sent) \in Len(got) .. Len(got) + Capacity - 1
    BY <1>1, <1>n, Numbers DEF QueueInv, Calls
  <2>2. items[Len(sent) % Capacity] = Content(Len(sent))
    BY <2>1 DEF QueueInv, Contents
  <2> QED
    BY <1>1, <1>n, <2>2 DEF Content
<1>2. ASSUME cpc = "take" PROVE items[Slot(head)] # Null
  <2>1. live /\ Len(got) \in Len(got) .. Len(got) + Capacity - 1 /\ Len(got) < Len(sent)
    BY <1>2, <1>n, Numbers DEF QueueInv, Calls
  <2>2. items[Len(got) % Capacity] = Content(Len(got))
    BY <2>1 DEF QueueInv, Contents
  <2>3. Len(got) + 1 \in 1 .. Len(sent)
    BY <1>n, <2>1
  <2>4. sent[Len(got) + 1] \in Values
    BY <2>3 DEF QueueInv, Stores
  <2> QED
    BY <1>2, <1>n, <2>1, <2>2, <2>4 DEF Content
<1> QED
  BY <1>1, <1>2 DEF SlotOwnership

\* The producer stores only into slots that own no message and the consumer
\* takes only from slots that own one, for every capacity and every number of
\* index values that is a multiple of it, however far each side's loads lag behind.
THEOREM QueueSlotOwnership ==
  ASSUME LfAssumption, TickerAssumption
  PROVE  TSpec => []SlotOwnership
<1>1. QueueInv => SlotOwnership
  BY OwnershipOfSlots
<1> QED
  BY <1>1, QueueInvariant, PTL

\* When the producer's thread closes the queue, the second 0 in a row that
\* try_recv returns means that everything sent has been received.
THEOREM QueueSecondZeroIsFinal ==
  ASSUME LfAssumption, TickerAssumption
  PROVE  TSpec => []SecondZeroIsFinal
<1>1. QueueInv => SecondZeroIsFinal
  BY Numbers DEF SecondZeroIsFinal, QueueInv, Drained
<1> QED
  BY <1>1, QueueInvariant, PTL

-----------------------------------------------------------------------------
LEMMA QueueStepIsFifo ==
  ASSUME LfAssumption, QueueInv, [Next]_vars \/ JoinView
  PROVE  [Fifo0!FifoNext]_(Fifo0!fifoVars)
<1> USE DEF Fifo0!FifoNext, Fifo0!fifoVars
<1>1. CASE SendPublish
  <2>1. /\ msgP \in Values /\ ~(closed /\ closer = "producer")
        /\ Len(sent) - Len(got) < Capacity
    BY <1>1, Numbers DEF SendPublish, QueueInv, Calls, Closing
  <2>2. Fifo0!Accept(msgP)
    BY <1>1, <2>1 DEF SendPublish, Fifo0!Accept, cvars
  <2> QED
    BY <2>1, <2>2
<1>2. CASE RecvPublish
  <2>1. Len(got) < Len(sent) /\ msgC = sent[Len(got) + 1]
    BY <1>2, Numbers DEF RecvPublish, QueueInv, Calls
  <2>2. Fifo0!Deliver
    BY <1>2, <2>1 DEF RecvPublish, Fifo0!Deliver, pvars
  <2> QED
    BY <2>2
<1>3. CASE Close \/ Free
  <2>1. closed' = TRUE /\ UNCHANGED <<sent, got, closer>>
    BY <1>3 DEF Close, Free, pvars, cvars
  <2>2. CASE closer = "producer"
    BY <2>1, <2>2 DEF Fifo0!CloseFifo
  <2>3. CASE closer # "producer"
    BY <2>1, <2>3
  <2> QED
    BY <2>2, <2>3
<1>4. CASE SendRefused \/ SendStore \/ (\E v \in Values : SendBegin(v)) \/ RecvLoad \/ RecvEmpty
           \/ RecvTake \/ PropagateHead \/ PropagateTail \/ PropagateClosed \/ JoinView
           \/ UNCHANGED vars
  <2>1. UNCHANGED <<sent, got, closed, closer>>
    BY <1>4 DEF SendRefused, SendStore, SendBegin, RecvLoad, RecvEmpty, RecvTake, PropagateHead,
                PropagateTail, PropagateClosed, JoinView, vars, pvars, cvars, views
  <2> QED
    BY <2>1
<1> QED
  BY <1>1, <1>2, <1>3, <1>4 DEF Next

\* The lock-free queue, used alone or by a ticker, implements the bounded
\* FIFO that its producer closes, also when its indices wrap.
THEOREM QueueImplementsFifo ==
  ASSUME LfAssumption, TickerAssumption
  PROVE  TSpec => QueueIsFifo
<1>1. TInit => Fifo0!FifoInit
  BY DEF TInit, Init, Fifo0!FifoInit
<1>2. QueueInv /\ Used /\ [TNext]_tvars => [Fifo0!FifoNext]_(Fifo0!fifoVars)
  BY TickerStepsQueue, QueueStepIsFifo DEF Used
<1> QED
  BY <1>1, <1>2, QueueInvariant, PTL DEF TSpec, QueueIsFifo, Fifo0!FifoSpec

-----------------------------------------------------------------------------
\* The ticker: its thread is inside send only in state "sending", it runs only
\* while it counts as started, and after stop it does not; what the owner
\* then loads from the queue is up to date.
TickerInv ==
  /\ ~ticking => opc = "new" /\ ~freed
  /\ ticking /\ ppc # "idle" => tpc = "sending"
  /\ ticking /\ opc = "new" => tpc = "unborn"
  /\ ~started => tpc \in {"unborn", "exited"}
  /\ opc \in {"stopped", "closed"} => ~started
  /\ freed => opc = "closed"
  /\ ticking /\ ~live => opc = "closed"
  /\ opc \in {"stopping", "freeing"} => cpc = "idle"

Caught ==
  ticking /\ opc \in {"stopped", "closed"} =>
    /\ tailView = tail
    /\ cpc = "empty" => head = tail
    /\ result = "empty" => head = tail /\ cpc \in {"idle", "empty"}

LEMMA TickerThread ==
  ASSUME TickerInv, Caught, TickLoop \/ TickWake \/ TickRefused \/ TickSend, ticking
  PROVE  TickerInv' /\ Caught'
<1>1. tpc \in {"loop", "asleep", "sending"} /\ started
  BY DEF TickLoop, TickWake, TickRefused, TickSend, TickerInv
<1>2. opc \notin {"stopped", "closed"} /\ UNCHANGED <<ticking, running, started, freed, opc>>
  BY <1>1 DEF TickerInv, TickLoop, TickWake, TickRefused, TickSend
<1>3. Caught'
  BY <1>2 DEF Caught
<1>4. CASE TickLoop \/ TickWake
  BY <1>1, <1>2, <1>3, <1>4 DEF TickerInv, TickLoop, TickWake, vars, pvars, cvars
<1>5. CASE TickRefused
  BY <1>1, <1>2, <1>3, <1>5 DEF TickerInv, TickRefused, SendRefused, vars, pvars, cvars
<1>6. CASE TickSend
  <2>1. /\ UNCHANGED <<cpc, live>> /\ tpc = "sending"
        /\ tpc' = IF ppc = "publish" THEN "loop" ELSE "sending"
        /\ ppc = "publish" => ppc' = "idle"
    BY <1>6 DEF TickSend, SendBegin, SendStore, SendPublish, cvars
  <2> QED
    BY <1>1, <1>2, <1>3, <2>1 DEF TickerInv
<1> QED
  BY <1>4, <1>5, <1>6

LEMMA TickerOwner ==
  ASSUME TickerInv, Caught, ticking,
         Start \/ StartFails \/ Stop("stopping") \/ Stop("freeing") \/ Joined
  PROVE  TickerInv' /\ Caught'
<1>1. CASE Start
  BY <1>1 DEF TickerInv, Caught, Start, vars, pvars, cvars
<1>2. CASE StartFails
  BY <1>2 DEF TickerInv, Caught, StartFails, tvars, ticker, vars, pvars, cvars, views
<1>3. CASE Stop("stopping") \/ Stop("freeing")
  <2>1. /\ opc \in {"polling", "stopped"} /\ opc' \in {"stopping", "freeing"} /\ cpc = "idle"
        /\ UNCHANGED <<ppc, cpc, live, ticking, started, freed, tpc>>
    BY <1>3 DEF Stop, vars, pvars, cvars
  <2> QED
    BY <2>1 DEF TickerInv, Caught
<1>4. CASE Joined
  <2>1. tpc \in {"unborn", "exited"} /\ cpc = "idle" /\ opc \in {"stopping", "freeing"}
    BY <1>4 DEF TickerInv, Joined
  <2> QED
    BY <1>4, <2>1 DEF TickerInv, Caught, Joined, StopFinishes, pvars
<1> QED
  BY <1>1, <1>2, <1>3, <1>4

LEMMA TickerQueue ==
  ASSUME TickerInv, Caught, ticking, Poll \/ DropQueue \/ Visible
  PROVE  TickerInv' /\ Caught'
<1>0. UNCHANGED <<ticking, running, started, freed, tpc, opc>>
  BY DEF Poll, DropQueue, Visible, ticker
<1>1. UNCHANGED <<tail, ppc>>
  BY DEF Poll, DropQueue, Visible, RecvLoad, RecvEmpty, RecvTake, RecvPublish, Close, Free,
         PropagateHead, PropagateTail, PropagateClosed, pvars
<1>2. TickerInv'
  <2>1. CASE Poll
    BY <1>0, <1>1, <2>1 DEF TickerInv, Poll, RecvLoad, RecvEmpty, RecvTake, RecvPublish
  <2>2. CASE DropQueue
    BY <1>0, <1>1, <2>2 DEF TickerInv, DropQueue, Close, Free, cvars
  <2>3. CASE Visible
    BY <1>0, <1>1, <2>3 DEF TickerInv, Visible, PropagateHead, PropagateTail, PropagateClosed,
                            cvars
  <2> QED
    BY <2>1, <2>2, <2>3
<1>3. Caught'
  <2>1. CASE Poll
    BY <1>0, <1>1, <2>1 DEF Caught, Poll, RecvLoad, RecvEmpty, RecvTake, RecvPublish, views
  <2>2. CASE DropQueue
    BY <1>0, <1>1, <2>2 DEF Caught, DropQueue, Close, Free, cvars, views
  <2>3. CASE Visible
    BY <1>0, <1>1, <2>3 DEF Caught, Visible, PropagateHead, PropagateTail, PropagateClosed, cvars
  <2> QED
    BY <2>1, <2>2, <2>3
<1> QED
  BY <1>2, <1>3

LEMMA TickerNextInv ==
  ASSUME TickerInv, Caught, [TNext]_tvars
  PROVE  TickerInv' /\ Caught'
<1>1. CASE UNCHANGED tvars
  BY <1>1 DEF TickerInv, Caught, tvars, ticker, vars, pvars, cvars, views
<1>2. CASE ~ticking /\ UNCHANGED ticker
  BY <1>2 DEF TickerInv, Caught, ticker
<1> QED
  BY <1>1, <1>2, TickerThread, TickerOwner, TickerQueue DEF TNext, TickerStep

LEMMA StopInvImplies ==
  ASSUME LfAssumption, QueueInv, TickerInv, Caught
  PROVE  StopIsFinal
<1>1. ThreadContained
  BY DEF ThreadContained, TickerInv
<1>2. ASSUME ticking, opc \in {"stopped", "closed"}, result = "empty"
      PROVE  got = sent
  <2>1. Len(got) = Len(sent)
    BY <1>2, Numbers DEF Caught
  <2>2. sent \in Seq(Values) /\ got \in Seq(Values) /\ \A i \in 1 .. Len(got) : got[i] = sent[i]
    BY DEF QueueInv, Stores, Prefix
  <2> QED
    BY <2>1, <2>2
<1> QED
  BY <1>1, <1>2 DEF StopIsFinal, EmptyAfterStop

\* Once async_ticker_stop has returned the thread is gone, for every
\* interleaving of the two threads and of the stores between them, and a poll
\* of the owner that finds the queue empty has seen every event.
THEOREM TickerStopIsFinal ==
  ASSUME LfAssumption, TickerAssumption
  PROVE  TSpec => []StopIsFinal
<1>1. TInit => TickerInv /\ Caught
  BY DEF TInit, Init, TickerInv, Caught
<1>2. TickerInv /\ Caught /\ [TNext]_tvars => (TickerInv /\ Caught)'
  BY TickerNextInv
<1>3. QueueInv /\ TickerInv /\ Caught => StopIsFinal
  BY StopInvImplies
<1> QED
  BY <1>1, <1>2, <1>3, QueueInvariant, PTL DEF TSpec
=============================================================================
