--------------------------- MODULE MonitorProofs ---------------------------
(***************************************************************************)
(* Proofs about the stop state shared by std::stop_token and std::jthread  *)
(* (StopState, JThread), for every number of threads and every largest     *)
(* count, and about the monitors of std::sync and std::concurrent and the  *)
(* atomics, for every number of threads.  The objects are independent;     *)
(* Monitors puts them side by side, each an instance with variables of its *)
(* own.  The facts about Total come first.                                 *)
(***************************************************************************)
EXTENDS Monitors, Sequences, FiniteSetTheorems, TLAPS

-----------------------------------------------------------------------------
(***************************************************************************)
(* Facts about Total, stated for functions f and g on a finite set X that  *)
(* agree except, perhaps, at one point x.                                  *)
(***************************************************************************)
LEMMA UnitsMember ==
  ASSUME NEW X, NEW f \in [X -> Nat]
  PROVE  \A u : u \in Units(f) <=> \E x \in X, n \in Nat : u = <<x, n>> /\ n \in 1 .. f[x]
  BY DEF Units

LEMMA UnitsFinite ==
  ASSUME NEW X, IsFiniteSet(X), NEW f \in [X -> Nat]
  PROVE  IsFiniteSet(Units(f)) /\ Total(f) \in Nat
<1> DEFINE rows == {{x} \X (1 .. f[x]) : x \in X}
<1>1. IsFiniteSet(rows)
  <2> DEFINE row == [x \in X |-> {x} \X (1 .. f[x])]
  <2>1. row \in Surjection(X, rows)
    BY DEF Surjection
  <2> QED
    BY <2>1, FS_Surjection
<1>2. ASSUME NEW x \in X PROVE IsFiniteSet({x} \X (1 .. f[x]))
  <2>1. 1 \in Int /\ f[x] \in Int
    OBVIOUS
  <2>2. IsFiniteSet(1 .. f[x]) /\ IsFiniteSet({x})
    BY <2>1, FS_Singleton, FS_Interval, Zenon
  <2> QED
    BY <2>2, FS_Product
<1>3. IsFiniteSet(Units(f))
  BY <1>1, <1>2, FS_UNION DEF Units
<1> QED
  BY <1>3, FS_CardinalityType DEF Total

LEMMA TotalAdd ==
  ASSUME NEW X, IsFiniteSet(X), NEW f \in [X -> Nat], NEW g \in [X -> Nat],
         NEW x \in X, NEW k \in Nat,
         g[x] = f[x] + k, \A y \in X \ {x} : g[y] = f[y]
  PROVE  Total(g) = Total(f) + k
<1> DEFINE new == {x} \X (f[x] + 1 .. f[x] + k)
<1>1. IsFiniteSet(new) /\ Cardinality(new) = k
  <2>1. /\ IsFiniteSet(f[x] + 1 .. f[x] + k)
        /\ Cardinality(f[x] + 1 .. f[x] + k) = k
    <3>1. f[x] + 1 \in Int /\ f[x] + k \in Int
      OBVIOUS
    <3>2. /\ IsFiniteSet(f[x] + 1 .. f[x] + k)
          /\ Cardinality(f[x] + 1 .. f[x] + k) =
               IF f[x] + 1 > f[x] + k THEN 0 ELSE (f[x] + k) - (f[x] + 1) + 1
      BY <3>1, FS_Interval, Zenon
    <3> QED
      BY <3>2
  <2>2. IsFiniteSet({x}) /\ Cardinality({x}) = 1
    BY FS_Singleton, Zenon
  <2>3. /\ IsFiniteSet(new)
        /\ Cardinality(new) = Cardinality({x}) * Cardinality(f[x] + 1 .. f[x] + k)
    BY <2>1, <2>2, FS_Product, Zenon
  <2>4. Cardinality({x}) * Cardinality(f[x] + 1 .. f[x] + k) = k
    BY <2>1, <2>2
  <2> QED
    BY <2>3, <2>4
<1>2. Units(g) = Units(f) \cup new
  BY UnitsMember
<1>3. Units(f) \cap new = {}
  BY UnitsMember
<1>4. IsFiniteSet(Units(f)) /\ Total(f) \in Nat
  BY UnitsFinite
<1>5. Cardinality(Units(f) \cup new) = Cardinality(Units(f)) + k - Cardinality({})
  BY <1>1, <1>3, <1>4, FS_Union
<1> QED
  BY <1>2, <1>4, <1>5, FS_EmptySet DEF Total

LEMMA TotalZero ==
  ASSUME NEW X, IsFiniteSet(X), NEW f \in [X -> Nat]
  PROVE  Total(f) = 0 <=> \A x \in X : f[x] = 0
<1>1. Total(f) = 0 <=> Units(f) = {}
  BY UnitsFinite, FS_EmptySet DEF Total
<1>2. ASSUME NEW x \in X, f[x] # 0 PROVE <<x, 1>> \in Units(f)
  BY <1>2, UnitsMember
<1>3. (\A x \in X : f[x] = 0) => Units(f) = {}
  BY UnitsMember
<1> QED
  BY <1>1, <1>2, <1>3

LEMMA TotalAtLeast ==
  ASSUME NEW X, IsFiniteSet(X), NEW f \in [X -> Nat], NEW x \in X
  PROVE  f[x] <= Total(f)
<1> DEFINE rest == [f EXCEPT ![x] = 0]
<1>1. rest \in [X -> Nat] /\ f[x] = rest[x] + f[x] /\ \A y \in X \ {x} : f[y] = rest[y]
  OBVIOUS
<1> HIDE DEF rest
<1>2. Total(f) = Total(rest) + f[x] /\ Total(rest) \in Nat
  BY <1>1, TotalAdd, UnitsFinite
<1> QED
  BY <1>2

LEMMA TotalMonotone ==
  ASSUME NEW X, IsFiniteSet(X), NEW f \in [X -> Nat], NEW g \in [X -> Nat],
         \A y \in X : f[y] <= g[y]
  PROVE  /\ Total(f) <= Total(g)
         /\ \A x \in X : f[x] < g[x] => Total(f) < Total(g)
<1>1. Units(f) \subseteq Units(g)
  BY UnitsMember
<1>2. IsFiniteSet(Units(g)) /\ Total(f) \in Nat /\ Total(g) \in Nat
  BY UnitsFinite
<1>3. /\ Total(f) <= Total(g)
      /\ Total(g) = Total(f) => Units(f) = Units(g)
  BY <1>1, <1>2, FS_Subset DEF Total
<1>4. ASSUME NEW x \in X, f[x] < g[x] PROVE Units(f) # Units(g)
  <2>1. <<x, g[x]>> \in Units(g)
    BY <1>4, UnitsMember
  <2>2. <<x, g[x]>> \notin Units(f)
    BY <1>4, UnitsMember
  <2> QED
    BY <2>1, <2>2
<1> QED
  BY <1>2, <1>3, <1>4

-----------------------------------------------------------------------------
(***************************************************************************)
(* The counts of the stop state are exact only between operations;         *)
(* the inductive invariant counts, for each thread, the reference that its *)
(* operation has taken and not yet turned into a handle, or taken from a   *)
(* handle and not yet given back (Refs, Srcs), and says what keeps the     *)
(* state alive under an operation that has not yet got its reference.      *)
(***************************************************************************)
Places == {"idle", "retainToken", "retainSource", "countSource",
           "uncountSource", "release", "free"}

StopTypeOK ==
  /\ references \in Nat /\ sources \in Nat /\ frees \in Nat
  /\ src \in [Threads -> Nat] /\ tok \in [Threads -> Nat]
  /\ pc \in [Threads -> Places] /\ cur \in [Threads -> Nat]

\* References and counted sources each thread accounts for.
Refs == [t \in Threads |->
           Owned(t) + IF pc[t] \in {"countSource", "uncountSource", "release"} THEN 1 ELSE 0]
Srcs == [t \in Threads |-> src[t] + IF pc[t] = "uncountSource" THEN 1 ELSE 0]

Counted ==
  /\ references = Total(Refs) /\ sources = Total(Srcs)
  /\ references <= MaxRefs

\* A thread inside a retain still owns the handle it began with; what it has
\* read of the sources leaves room for one more.
Retaining ==
  \A t \in Threads :
    /\ pc[t] = "retainToken" => Owned(t) > 0
    /\ pc[t] \in {"retainSource", "countSource"} => src[t] > 0
    /\ pc[t] = "countSource" => cur[t] \in 1 .. MaxRefs - 1

\* The last reference is dropped once, by the thread that frees the state.
FreedOnce ==
  /\ frees <= 1
  /\ frees = 1 => \A t \in Threads : pc[t] # "free"
  /\ \A t, u \in Threads : pc[t] = "free" /\ pc[u] = "free" => t = u
  /\ references = 0 <=> frees = 1 \/ \E t \in Threads : pc[t] = "free"

StopInv == StopTypeOK /\ Counted /\ Retaining /\ FreedOnce

StopNext ==
  \E t \in Threads :
    \/ Use(t)
    \/ \E u \in Threads : TransferToken(t, u) \/ TransferSource(t, u)

\* Refs and Srcs are functions to the naturals; every source has a reference
\* of its own, and a thread about to count a source has one more.
LEMMA RefsAndSrcs ==
  ASSUME StopAssumption, StopTypeOK
  PROVE  /\ IsFiniteSet(Threads)
         /\ Refs \in [Threads -> Nat] /\ Srcs \in [Threads -> Nat]
         /\ \A t \in Threads : Srcs[t] <= Refs[t]
         /\ \A t \in Threads : pc[t] = "countSource" => Srcs[t] < Refs[t]
  BY DEF StopAssumption, StopTypeOK, Refs, Srcs, Owned

LEMMA RefsAndSrcsNext ==
  ASSUME StopAssumption, StopTypeOK'
  PROVE  /\ IsFiniteSet(Threads)
         /\ Refs' \in [Threads -> Nat] /\ Srcs' \in [Threads -> Nat]
         /\ \A t \in Threads : Srcs'[t] <= Refs'[t]
         /\ \A t \in Threads : pc'[t] = "countSource" => Srcs'[t] < Refs'[t]
  BY DEF StopAssumption, StopTypeOK, Refs, Srcs, Owned

\* What the counts say about the handles.
LEMMA CountsMean ==
  ASSUME StopAssumption, StopTypeOK, Counted
  PROVE  /\ references = 0 <=> \A t \in Threads : Refs[t] = 0
         /\ sources = 0 <=> \A t \in Threads : Srcs[t] = 0
         /\ \A t \in Threads : pc[t] = "countSource" => sources < MaxRefs
<1>1. /\ references = 0 <=> \A t \in Threads : Refs[t] = 0
      /\ sources = 0 <=> \A t \in Threads : Srcs[t] = 0
  BY RefsAndSrcs, TotalZero DEF Counted
<1>2. ASSUME NEW t \in Threads, pc[t] = "countSource" PROVE sources < references
  BY <1>2, RefsAndSrcs, TotalMonotone DEF Counted
<1> QED
  BY <1>1, <1>2 DEF Counted, StopTypeOK, StopAssumption

LEMMA StopInitInv == ASSUME StopAssumption, Init PROVE StopInv
<1>1. StopTypeOK
  BY DEF Init, StopTypeOK, Places, StopAssumption
<1> DEFINE zero == [t \in Threads |-> 0]
<1>2. zero \in [Threads -> Nat] /\ IsFiniteSet(Threads) /\ Creator \in Threads
  BY DEF StopAssumption
<1>3. Total(zero) = 0
  BY <1>2, TotalZero
<1>4. Refs = src /\ Srcs = src
  BY <1>1 DEF Init, Refs, Srcs, Owned, StopTypeOK
<1>5. src[Creator] = zero[Creator] + 1 /\ \A t \in Threads \ {Creator} : src[t] = zero[t]
  BY <1>2 DEF Init
<1>6. Total(src) = 1
  <2>1. Total(src) = Total(zero) + 1
    BY <1>1, <1>2, <1>5, TotalAdd DEF StopTypeOK
  <2> QED
    BY <1>3, <2>1
<1>7. Counted
  BY <1>4, <1>6 DEF Counted, Init, StopAssumption
<1>8. Retaining /\ FreedOnce
  BY DEF Init, Retaining, FreedOnce
<1> QED
  BY <1>1, <1>7, <1>8 DEF StopInv

\* A step that moves no handle and takes no reference: loads and retries.
LEMMA QuietInv ==
  ASSUME StopAssumption, StopInv, NEW t \in Threads,
         \/ RetainBegin(t) \/ RetainRefused(t)
         \/ pc[t] \in Places \ {"idle", "free"} /\ pc[t] # "countSource" /\ CasFails(t, references)
         \/ pc[t] \in Places \ {"idle", "free"} /\ CasFails(t, sources)
  PROVE  StopInv'
<1> USE DEF StopInv
<1>1. StopTypeOK'
  BY DEF StopTypeOK, Places, RetainBegin, RetainRefused, CasFails, Load, svars
<1>2. Refs' = Refs /\ Srcs' = Srcs /\ UNCHANGED <<references, sources, frees, src, tok>>
  BY DEF StopTypeOK, Refs, Srcs, Owned, RetainBegin, RetainRefused, CasFails, Load, svars
<1>3. Counted'
  BY <1>2 DEF Counted
<1>4. Retaining'
  <2>1. pc[t] = "countSource" => sources \in 1 .. MaxRefs - 1
    BY CountsMean DEF Retaining, Srcs, StopTypeOK, StopAssumption
  <2> QED
    BY <1>2, <2>1 DEF StopTypeOK, Retaining, Owned, RetainBegin, RetainRefused, CasFails, Load, svars
<1>5. FreedOnce'
  BY <1>2 DEF StopTypeOK, FreedOnce, RetainBegin, RetainRefused, CasFails, Load
<1> QED
  BY <1>1, <1>3, <1>4, <1>5

\* The compare-exchanges that succeed, one after the other.
LEMMA RetainTakesInv ==
  ASSUME StopAssumption, StopInv, NEW t \in Threads, RetainCas(t), cur[t] = references,
         references' = references + 1
  PROVE  StopInv'
<1> USE DEF StopInv
<1>1. StopTypeOK'
  BY DEF StopTypeOK, Places, RetainCas, CasFails, Load, svars
<1>2. /\ Refs'[t] = Refs[t] + 1 /\ \A u \in Threads \ {t} : Refs'[u] = Refs[u]
      /\ Srcs' = Srcs
  BY DEF StopTypeOK, Refs, Srcs, Owned, RetainCas, CasFails, Load, svars
<1>3. Counted'
  <2>1. Total(Refs') = Total(Refs) + 1
    BY <1>1, <1>2, RefsAndSrcs, RefsAndSrcsNext, TotalAdd DEF StopAssumption
  <2>2. references < MaxRefs
    BY DEF RetainCas, Counted, StopTypeOK, StopAssumption
  <2> QED
    BY <1>2, <2>1, <2>2 DEF Counted, StopTypeOK, StopAssumption, RetainCas, CasFails, svars
<1>4. Retaining'
  <2>1. pc'[t] = "countSource" => sources' \in 1 .. MaxRefs - 1
    <3>1. pc'[t] = "countSource" => sources' < MaxRefs
      <4>1. pc'[t] = "countSource" => Total(Srcs') < Total(Refs')
        BY <1>1, RefsAndSrcsNext, TotalMonotone
      <4> QED
        BY <1>1, <1>3, <4>1 DEF Counted, StopTypeOK, StopAssumption
    <3>2. pc'[t] = "countSource" => Srcs[t] # 0
      BY DEF Retaining, Srcs, RetainCas, CasFails, Load, StopTypeOK
    <3>3. sources' = sources
      BY DEF RetainCas, CasFails, svars
    <3> QED
      BY <3>1, <3>2, <3>3, CountsMean DEF StopTypeOK, StopAssumption
  <2> QED
    BY <1>1, <2>1 DEF StopTypeOK, Retaining, Owned, RetainCas, CasFails, Load, svars
<1>5. FreedOnce'
  <2>1. references # 0
    BY DEF RetainCas, StopTypeOK
  <2> QED
    BY <2>1 DEF StopTypeOK, FreedOnce, RetainCas, CasFails, Load, svars
<1> QED
  BY <1>1, <1>3, <1>4, <1>5

LEMMA CountSourceInv ==
  ASSUME StopAssumption, StopInv, NEW t \in Threads, CountSourceCas(t), cur[t] = sources,
         sources' = sources + 1
  PROVE  StopInv'
<1> USE DEF StopInv
<1>1. StopTypeOK'
  BY DEF StopTypeOK, Places, CountSourceCas, CasFails, svars
<1>2. /\ Srcs'[t] = Srcs[t] + 1 /\ \A u \in Threads \ {t} : Srcs'[u] = Srcs[u]
      /\ Refs' = Refs
  BY DEF StopTypeOK, Refs, Srcs, Owned, CountSourceCas, CasFails, svars
<1>3. Counted'
  <2>1. Total(Srcs') = Total(Srcs) + 1
    BY <1>1, <1>2, RefsAndSrcs, RefsAndSrcsNext, TotalAdd
  <2> QED
    BY <1>2, <2>1 DEF Counted, StopTypeOK, CountSourceCas, CasFails, svars
<1>4. Retaining' /\ FreedOnce'
  BY DEF StopTypeOK, Retaining, FreedOnce, Owned, CountSourceCas, CasFails, svars
<1> QED
  BY <1>1, <1>3, <1>4

LEMMA CloseInv ==
  ASSUME StopAssumption, StopInv, NEW t \in Threads, CloseToken(t) \/ CloseSource(t)
  PROVE  StopInv'
<1> USE DEF StopInv
<1>1. StopTypeOK'
  BY DEF StopTypeOK, Places, CloseToken, CloseSource, Load, svars
<1>2. Refs' = Refs /\ Srcs' = Srcs
  BY DEF StopTypeOK, Refs, Srcs, Owned, CloseToken, CloseSource, Load, svars
<1>3. Counted'
  BY <1>2 DEF Counted, CloseToken, CloseSource, svars
<1>4. Retaining' /\ FreedOnce'
  BY DEF StopTypeOK, Retaining, FreedOnce, Owned, CloseToken, CloseSource, Load, svars
<1> QED
  BY <1>1, <1>3, <1>4

LEMMA UncountSourceInv ==
  ASSUME StopAssumption, StopInv, NEW t \in Threads, UncountSourceCas(t),
         cur[t] = sources, sources' = sources - 1
  PROVE  StopInv'
<1> USE DEF StopInv
<1>1. StopTypeOK'
  BY DEF StopTypeOK, Places, UncountSourceCas, CasFails, Load, svars
<1>2. /\ Srcs[t] = Srcs'[t] + 1 /\ \A u \in Threads \ {t} : Srcs[u] = Srcs'[u]
      /\ Refs' = Refs
  BY DEF StopTypeOK, Refs, Srcs, Owned, UncountSourceCas, CasFails, Load, svars
<1>3. Counted'
  <2>1. Total(Srcs) = Total(Srcs') + 1 /\ Total(Srcs') \in Nat
    BY <1>1, <1>2, RefsAndSrcs, RefsAndSrcsNext, TotalAdd, UnitsFinite
  <2> QED
    BY <1>2, <2>1 DEF Counted, StopTypeOK, UncountSourceCas, CasFails, svars
<1>4. Retaining' /\ FreedOnce'
  BY DEF StopTypeOK, Retaining, FreedOnce, Owned, UncountSourceCas, CasFails, Load, svars
<1> QED
  BY <1>1, <1>3, <1>4

LEMMA ReleaseInv ==
  ASSUME StopAssumption, StopInv, NEW t \in Threads, ReleaseCas(t),
         cur[t] = references, references' = references - 1
  PROVE  StopInv'
<1> USE DEF StopInv
<1>1. StopTypeOK'
  BY DEF StopTypeOK, Places, ReleaseCas, CasFails, svars
<1>2. /\ Refs[t] = Refs'[t] + 1 /\ \A u \in Threads \ {t} : Refs[u] = Refs'[u]
      /\ Srcs' = Srcs
  BY DEF StopTypeOK, Refs, Srcs, Owned, ReleaseCas, CasFails, svars
<1>3. Counted'
  <2>1. Total(Refs) = Total(Refs') + 1 /\ Total(Refs') \in Nat
    BY <1>1, <1>2, RefsAndSrcs, RefsAndSrcsNext, TotalAdd, UnitsFinite
  <2> QED
    BY <1>2, <2>1 DEF Counted, StopTypeOK, StopAssumption, ReleaseCas, CasFails, svars
<1>4. Retaining'
  BY DEF StopTypeOK, Retaining, Owned, ReleaseCas, CasFails, svars
<1>5. FreedOnce'
  <2>1. frees = 0 /\ \A u \in Threads : pc[u] # "free"
    BY DEF StopTypeOK, FreedOnce, ReleaseCas
  <2> QED
    BY <2>1 DEF StopTypeOK, FreedOnce, ReleaseCas, CasFails, svars
<1> QED
  BY <1>1, <1>3, <1>4, <1>5

LEMMA FreeInv ==
  ASSUME StopAssumption, StopInv, NEW t \in Threads, Free(t)
  PROVE  StopInv'
<1> USE DEF StopInv
<1>1. StopTypeOK'
  BY DEF StopTypeOK, Places, Free, svars
<1>2. Refs' = Refs /\ Srcs' = Srcs
  BY DEF StopTypeOK, Refs, Srcs, Owned, Free, svars
<1>3. Counted' /\ Retaining'
  BY <1>2 DEF Counted, Retaining, Owned, StopTypeOK, Free, svars
<1>4. FreedOnce'
  BY DEF StopTypeOK, FreedOnce, Free, svars
<1> QED
  BY <1>1, <1>3, <1>4

LEMMA RequestInv ==
  ASSUME StopInv, NEW t \in Threads, RequestStop(t)
  PROVE  StopInv'
  BY DEF StopInv, StopTypeOK, Counted, Retaining, FreedOnce, Refs, Srcs, Owned, RequestStop

\* A handle moves: one unit less here, one more there.
LEMMA TransferInv ==
  ASSUME StopAssumption, StopInv, NEW t \in Threads, NEW u \in Threads,
         TransferToken(t, u) \/ TransferSource(t, u)
  PROVE  StopInv'
<1> USE DEF StopInv
<1>1. StopTypeOK'
  BY DEF StopTypeOK, TransferToken, TransferSource, svars
<1>2. ASSUME NEW f \in [Threads -> Nat], NEW g \in [Threads -> Nat],
             f[t] = g[t] + 1, g[u] = f[u] + 1,
             \A x \in Threads \ {t, u} : g[x] = f[x]
      PROVE  Total(f) = Total(g)
  <2> DEFINE rest == [f EXCEPT ![t] = g[t]]
  <2>1. rest \in [Threads -> Nat] /\ IsFiniteSet(Threads) /\ t # u
    BY <1>2 DEF StopAssumption
  <2>2. f[t] = rest[t] + 1 /\ \A x \in Threads \ {t} : f[x] = rest[x]
    BY <1>2, <2>1
  <2>3. g[u] = rest[u] + 1 /\ \A x \in Threads \ {u} : g[x] = rest[x]
    BY <1>2, <2>1
  <2> HIDE DEF rest
  <2>4. Total(f) = Total(rest) + 1
    BY <2>1, <2>2, TotalAdd
  <2>5. Total(g) = Total(rest) + 1
    BY <2>1, <2>3, TotalAdd
  <2> QED
    BY <2>4, <2>5
<1>3. Total(Refs') = Total(Refs)
  <2>1. /\ Refs[t] = Refs'[t] + 1 /\ Refs'[u] = Refs[u] + 1
        /\ \A x \in Threads \ {t, u} : Refs'[x] = Refs[x]
    BY DEF StopTypeOK, Refs, Owned, TransferToken, TransferSource, svars
  <2> QED
    BY <1>1, <1>2, <2>1, RefsAndSrcs, RefsAndSrcsNext
<1>4. Total(Srcs') = Total(Srcs)
  <2>1. CASE TransferToken(t, u)
    <3>1. Srcs' = Srcs
      BY <2>1 DEF StopTypeOK, Srcs, TransferToken
    <3> QED
      BY <3>1
  <2>2. CASE TransferSource(t, u)
    <3>1. /\ Srcs[t] = Srcs'[t] + 1 /\ Srcs'[u] = Srcs[u] + 1
          /\ \A x \in Threads \ {t, u} : Srcs'[x] = Srcs[x]
      BY <2>2 DEF StopTypeOK, Srcs, TransferSource, svars
    <3> QED
      BY <1>1, <1>2, <3>1, RefsAndSrcs, RefsAndSrcsNext
  <2> QED
    BY <2>1, <2>2
<1>5. Counted'
  BY <1>3, <1>4 DEF Counted, TransferToken, TransferSource, svars
<1>6. Retaining' /\ FreedOnce'
  BY DEF StopTypeOK, Retaining, FreedOnce, Owned, TransferToken, TransferSource, svars
<1> QED
  BY <1>1, <1>5, <1>6

LEMMA StopNextInv ==
  ASSUME StopAssumption, StopInv, StopNext \/ UNCHANGED vars
  PROVE  StopInv'
<1>1. CASE UNCHANGED vars
  BY <1>1 DEF vars, svars, StopInv, StopTypeOK, Counted, Retaining, FreedOnce, Refs, Srcs, Owned
<1>2. ASSUME NEW t \in Threads, RetainCas(t) PROVE StopInv'
  BY <1>2, QuietInv, RetainTakesInv DEF RetainCas, Places
<1>3. ASSUME NEW t \in Threads, CountSourceCas(t) PROVE StopInv'
  BY <1>3, QuietInv, CountSourceInv DEF CountSourceCas, Places
<1>4. ASSUME NEW t \in Threads, UncountSourceCas(t) PROVE StopInv'
  BY <1>4, QuietInv, UncountSourceInv DEF UncountSourceCas, Places
<1>5. ASSUME NEW t \in Threads, ReleaseCas(t) PROVE StopInv'
  BY <1>5, QuietInv, ReleaseInv DEF ReleaseCas, Places
<1>6. ASSUME NEW t \in Threads, Use(t) PROVE StopInv'
  BY <1>2, <1>3, <1>4, <1>5, <1>6, QuietInv, CloseInv, RequestInv, FreeInv DEF Use, Step
<1> QED
  BY <1>1, <1>6, TransferInv DEF StopNext

\* What the owner, the worker and the observers of a jthread do is what
\* threads do with handles.
LEMMA JThreadUsesHandles ==
  ASSUME StopAssumption, JThreadAssumption, [JNext]_jvars
  PROVE  StopNext \/ UNCHANGED vars
  BY DEF StopAssumption, JThreadAssumption, JNext, jvars, StopNext, Use, Owner, Spawn, Close,
         Join, Joined, OwnerStep, OwnerReturns, WorkerEnds, WorkerStep, WorkerExits, Observe

\* close() and join() go on to the source only when the worker has exited.
Joins ==
  jpc \in {"releasing", "done"} => wstate = "exited"

LEMMA JoinsInv ==
  ASSUME Joins, [JNext]_jvars
  PROVE  Joins'
  BY DEF Joins, JNext, jvars, Spawn, Close, Join, Joined, OwnerStep, OwnerReturns,
         WorkerEnds, WorkerStep, WorkerExits, Observe

\* The inductive invariant holds in every reachable state.
THEOREM JThreadInvariant ==
  ASSUME StopAssumption, JThreadAssumption
  PROVE  JSpec => [](StopInv /\ Joins)
<1>1. JInit => StopInv /\ Joins
  BY StopInitInv DEF JInit, Joins
<1>2. StopInv /\ Joins /\ [JNext]_jvars => StopInv' /\ Joins'
  BY JThreadUsesHandles, StopNextInv, JoinsInv
<1> QED
  BY <1>1, <1>2, PTL DEF JSpec

\* Nothing left means nobody inside an operation.
LEMMA DeadIsQuiet ==
  ASSUME StopAssumption, StopInv, frees > 0
  PROVE  /\ references = 0 /\ frees = 1
         /\ \A t \in Threads : pc[t] = "idle" /\ Owned(t) = 0
<1>1. references = 0 /\ frees = 1 /\ \A t \in Threads : pc[t] # "free"
  BY DEF StopInv, FreedOnce, StopTypeOK
<1>2. \A t \in Threads : Refs[t] = 0
  BY <1>1, CountsMean DEF StopInv
<1> QED
  BY <1>1, <1>2 DEF StopInv, StopTypeOK, Refs, Retaining, Places, Owned

\* The stop state is freed once, after the last handle is gone and the last
\* operation on it has ended; between operations both counts are exact; and
\* the clone of a source never has to give its reference back.
THEOREM JThreadHandlesExact ==
  ASSUME StopAssumption, JThreadAssumption
  PROVE  JSpec => []HandlesExact
<1>1. ASSUME StopInv PROVE NoUseAfterFree
  BY <1>1, DeadIsQuiet DEF NoUseAfterFree
<1>2. ASSUME StopInv PROVE CountsExact
  <2> SUFFICES ASSUME \A t \in Threads : pc[t] = "idle"
               PROVE  /\ references = Total([t \in Threads |-> Owned(t)])
                      /\ sources = Total(src)
                      /\ (frees = 1) = (references = 0)
    BY DEF CountsExact
  <2>1. Refs = [t \in Threads |-> Owned(t)] /\ Srcs = src
    BY <1>2 DEF StopInv, StopTypeOK, Refs, Srcs, Owned
  <2>2. (frees = 1) <=> (references = 0)
    BY <1>2 DEF StopInv, FreedOnce
  <2> QED
    BY <1>2, <2>1, <2>2 DEF StopInv, Counted
<1>3. ASSUME StopInv PROVE CloneIsWhole
  BY <1>3 DEF StopInv, Retaining, StopTypeOK, StopAssumption, CloneIsWhole, CountRefused
<1>4. StopInv => HandlesExact
  BY <1>1, <1>2, <1>3 DEF HandlesExact
<1> QED
  BY <1>4, JThreadInvariant, PTL

\* close() and join() return with the worker gone, and the stop state lives on
\* exactly as long as some thread owns or is still returning a handle.
THEOREM JThreadReturnsCleanly ==
  ASSUME StopAssumption, JThreadAssumption
  PROVE  JSpec => []ReturnsCleanly
<1>1. ASSUME StopInv, Joins PROVE ReturnsCleanly
  <2>1. frees > 0 => \A t \in Threads : ~(Owned(t) > 0 \/ pc[t] # "idle")
    BY <1>1, DeadIsQuiet
  <2>2. ASSUME frees = 0, \A t \in Threads : pc[t] = "idle" /\ ~(Owned(t) > 0)
        PROVE  FALSE
    <3>1. references # 0
      BY <1>1, <2>2 DEF StopInv, FreedOnce
    <3>2. \A t \in Threads : Refs[t] = 0
      <4>1. \A t \in Threads : Owned(t) \in Nat
        BY <1>1 DEF StopInv, StopTypeOK, Owned
      <4>2. \A t \in Threads : Owned(t) = 0
        BY <2>2, <4>1
      <4> QED
        BY <2>2, <4>2 DEF Refs
    <3> QED
      BY <1>1, <3>1, <3>2, CountsMean DEF StopInv
  <2>3. frees \in Nat
    BY <1>1 DEF StopInv, StopTypeOK
  <2>4. (frees = 0) <=> \E t \in Threads : Owned(t) > 0 \/ pc[t] # "idle"
    BY <2>1, <2>2, <2>3
  <2> QED
    BY <1>1, <2>4 DEF Joins, ReturnsCleanly
<1> QED
  BY <1>1, JThreadInvariant, PTL

\* Once every source is gone no stop can be requested any more and no source
\* comes back: stop_possible() is final.
THEOREM JThreadImpossibleIsFinal ==
  ASSUME StopAssumption, JThreadAssumption
  PROVE  JSpec => ImpossibleIsFinal
<1>1. ASSUME StopInv, StopNext \/ UNCHANGED vars, ~StopPossible
      PROVE  ~StopPossible' /\ requested' = requested
  <2>1. \A t \in Threads : src[t] = 0 /\ pc[t] # "uncountSource" /\ pc[t] # "countSource"
    <3>1. \A t \in Threads : Srcs[t] = 0
      BY <1>1, CountsMean DEF StopPossible, StopInv
    <3> QED
      BY <1>1, <3>1 DEF StopInv, StopTypeOK, Srcs, Retaining
  <2>2. UNCHANGED <<sources, requested>>
    BY <1>1, <2>1
       DEF StopNext, Use, Step, RetainBegin, RetainRefused, RetainCas, CountSourceCas, CasFails,
           CloseToken, CloseSource, UncountSourceCas, ReleaseCas, Free, RequestStop,
           TransferToken, TransferSource, Load, vars, svars
  <2> QED
    BY <1>1, <2>2 DEF StopPossible
<1>2. StopInv /\ [JNext]_jvars => [~StopPossible => ~StopPossible' /\ requested' = requested]_vars
  BY <1>1, JThreadUsesHandles
<1> QED
  BY <1>2, JThreadInvariant, PTL DEF JSpec, ImpossibleIsFinal

-----------------------------------------------------------------------------
(***************************************************************************)
(* Latch.  What has arrived and what is still expected make up the initial *)
(* count; a thread sleeps only while the count is positive.                *)
(***************************************************************************)
LatchInv ==
  /\ lCount \in Nat /\ lArrived \in Nat /\ lCount + lArrived = Expected
  /\ lPc \in [LatchThreads -> {"idle", "arrived", "waiting", "woken", "through"}]
  /\ \A t \in LatchThreads : lPc[t] = "through" => lCount = 0
  /\ \A t \in LatchThreads : lPc[t] = "waiting" => lCount > 0

LEMMA LatchNextInv ==
  ASSUME L!LatchAssumption, LatchInv, [L!Next]_L!vars
  PROVE  LatchInv'
<1> USE DEF LatchInv, L!LatchAssumption
<1>1. ASSUME NEW t \in LatchThreads, NEW u \in 1 .. MaxUpdate \cup {1}, NEW next \in {"idle", "arrived"},
             L!CountDown(t, u, next)
      PROVE  LatchInv'
  <2>1. lCount' \in Nat /\ lArrived' \in Nat /\ lCount' + lArrived' = Expected
    BY <1>1 DEF L!CountDown
  <2>2. CASE lCount' = 0
    BY <1>1, <2>1, <2>2 DEF L!CountDown, L!Opened, L!Broadcast
  <2>3. CASE lCount' # 0
    BY <1>1, <2>1, <2>3 DEF L!CountDown, L!Opened
  <2> QED
    BY <2>2, <2>3
<1>2. ASSUME NEW t \in LatchThreads, L!Pass(t) \/ L!Block(t) \/ L!SpuriousWakeup(t)
      PROVE  LatchInv'
  BY <1>2 DEF L!Pass, L!Block, L!SpuriousWakeup
<1>3. CASE UNCHANGED L!vars
  BY <1>3 DEF L!vars
<1> QED
  BY <1>1, <1>2, <1>3 DEF L!Next, L!CountDownRefused

\* A wait returns only after exactly Expected arrivals, and the one broadcast
\* reaches everybody: nobody sleeps at an open latch.
THEOREM LatchOpensExactly ==
  ASSUME L!LatchAssumption
  PROVE  L!Spec => []OpensExactly
<1>1. L!Init => LatchInv
  BY DEF L!Init, LatchInv, L!LatchAssumption
<1>2. LatchInv /\ [L!Next]_L!vars => LatchInv'
  BY LatchNextInv
<1>3. LatchInv => OpensExactly
  BY DEF LatchInv, OpensExactly, L!OpensExactly, L!OpensAtExpected, L!NoSleeperWhenOpen
<1> QED
  BY <1>1, <1>2, <1>3, PTL DEF L!Spec

-----------------------------------------------------------------------------
(***************************************************************************)
(* Semaphore.  Both halves of PermitsExact are inductive once the types    *)
(* are known: a release wakes everybody, and a thread blocks only at zero. *)
(***************************************************************************)
SemaphoreTypeOK ==
  /\ sCount \in Nat /\ sGiven \in Nat
  /\ sPc \in [Threads -> {"idle", "waiting", "woken"}]
  /\ sHeld \in [Threads -> Nat] /\ sAcquires \in [Threads -> Nat]

SemaphoreInv ==
  /\ SemaphoreTypeOK
  /\ sCount + Total(sHeld) = Initial + sGiven
  /\ \A t \in Threads : sPc[t] = "waiting" => sCount = 0

\* The instance has its own names for the operators of FiniteSets and Tally.
LEMMA SemaphoreSets ==
  /\ S!SemaphoreAssumption => IsFiniteSet(Threads)
  /\ \A f : S!Total(f) = Total(f)
<1>1. S!SemaphoreAssumption => IsFiniteSet(Threads)
  BY DEF S!SemaphoreAssumption, S!IsFiniteSet, IsFiniteSet
<1>2. \A x : S!Cardinality(x) = Cardinality(x)
  BY DEF S!Cardinality, Cardinality, S!IsFiniteSet, IsFiniteSet
<1> QED
  BY <1>1, <1>2 DEF S!Total, S!Units, Total, Units

LEMMA SemaphoreNextInv ==
  ASSUME S!SemaphoreAssumption, SemaphoreInv, [S!Next]_S!vars
  PROVE  SemaphoreInv'
<1> USE DEF SemaphoreInv, SemaphoreTypeOK
<1> Initial \in Nat /\ Maximum \in Nat /\ IsFiniteSet(Threads)
  BY SemaphoreSets DEF S!SemaphoreAssumption
<1>0. Total(sHeld) \in Nat
  BY UnitsFinite
<1>1. ASSUME NEW t \in Threads, S!Acquire(t) PROVE SemaphoreInv'
  <2>1. SemaphoreTypeOK'
    BY <1>1 DEF S!Acquire, S!Begin, S!Again
  <2>2. Total(sHeld') = Total(sHeld) + 1
    <3>1. sHeld'[t] = sHeld[t] + 1 /\ \A u \in Threads \ {t} : sHeld'[u] = sHeld[u]
      BY <1>1 DEF S!Acquire
    <3> QED
      BY <2>1, <3>1, TotalAdd
  <2> QED
    BY <1>0, <1>1, <2>1, <2>2 DEF S!Acquire, S!Begin, S!Again
<1>2. ASSUME NEW t \in Threads, S!AcquireBlocks(t) \/ S!SpuriousWakeup(t) PROVE SemaphoreInv'
  BY <1>2 DEF S!AcquireBlocks, S!SpuriousWakeup, S!Begin, S!Again
<1>3. ASSUME NEW t \in Threads, NEW u \in 1 .. Maximum, S!Release(t, u) PROVE SemaphoreInv'
  <2>1. SemaphoreTypeOK'
    BY <1>3 DEF S!Release, S!Wake, S!Broadcast
  <2>2. Total(sHeld) = Total(sHeld') + u
    <3>1. sHeld[t] = sHeld'[t] + u /\ \A x \in Threads \ {t} : sHeld[x] = sHeld'[x]
      BY <1>3 DEF S!Release
    <3> QED
      BY <2>1, <3>1, TotalAdd
  <2>3. Total(sHeld') \in Nat
    BY <2>1, UnitsFinite
  <2> QED
    BY <1>3, <2>1, <2>2, <2>3 DEF S!Release, S!Wake, S!Broadcast
<1>4. ASSUME NEW t \in Threads, NEW u \in 1 .. Maximum, S!Give(t, u) PROVE SemaphoreInv'
  BY <1>0, <1>4 DEF S!Give, S!Wake, S!Broadcast
<1>5. CASE UNCHANGED S!vars
  BY <1>5 DEF S!vars
<1> QED
  BY <1>1, <1>2, <1>3, <1>4, <1>5 DEF S!Next, S!ReleaseRefused

\* No permit is lost or invented, and nobody sleeps while one is free.
THEOREM SemaphorePermitsExact ==
  ASSUME S!SemaphoreAssumption
  PROVE  S!Spec => []PermitsExact
<1>1. S!Init => SemaphoreInv
  <2> SUFFICES ASSUME S!Init PROVE SemaphoreInv
    OBVIOUS
  <2>1. SemaphoreTypeOK
    BY DEF S!Init, SemaphoreTypeOK, S!SemaphoreAssumption
  <2>2. Total(sHeld) = 0
    BY <2>1, SemaphoreSets, TotalZero DEF S!Init, SemaphoreTypeOK
  <2> QED
    BY <2>1, <2>2 DEF S!Init, SemaphoreInv, S!SemaphoreAssumption
<1>2. SemaphoreInv /\ [S!Next]_S!vars => SemaphoreInv'
  BY SemaphoreNextInv
<1>3. SemaphoreInv => PermitsExact
  BY SemaphoreSets DEF SemaphoreInv, PermitsExact, S!PermitsExact, S!Conserved, S!NoSleeperWithPermit
<1> QED
  BY <1>1, <1>2, <1>3, PTL DEF S!Spec

-----------------------------------------------------------------------------
(***************************************************************************)
(* Barrier.  A participant that has not left has arrived in every phase    *)
(* before the current one, and perhaps in that; expected is the weight of  *)
(* those who have not left, remaining the weight of those among them who   *)
(* have still to arrive.  So the phase ends exactly when all have.         *)
(***************************************************************************)
Alive == [t \in Threads |-> IF bPc[t] = "left" THEN 0 ELSE Weight[t]]
Awaited == [t \in Threads |->
              IF bPc[t] = "left" \/ bArrivals[t] # bPhase THEN 0 ELSE Weight[t]]

BarrierTypeOK ==
  /\ bExpected \in Nat /\ bRemaining \in Nat /\ bPhase \in Nat
  /\ bPc \in [Threads -> {"idle", "arrived", "waiting", "woken", "left"}]
  /\ bToken \in [Threads -> Nat] /\ bArrivals \in [Threads -> Nat] /\ bPassed \in [Threads -> Nat]

InPhase(t) ==
  /\ bPassed[t] <= bPhase
  /\ bPc[t] = "idle" => bArrivals[t] = bPhase /\ bPassed[t] = bPhase
  /\ bPc[t] \in {"arrived", "waiting", "woken"} =>
       /\ bArrivals[t] \in {bPhase, bPhase + 1}
       /\ bToken[t] = bArrivals[t] - 1 /\ bPassed[t] = bArrivals[t] - 1

BarrierInv ==
  /\ BarrierTypeOK
  /\ \A t \in Threads : InPhase(t)
  /\ bExpected = Total(Alive) /\ bRemaining = Total(Awaited)

LEMMA BarrierSets ==
  /\ B!BarrierAssumption => IsFiniteSet(Threads) /\ Weight \in [Threads -> Nat \ {0}]
  /\ \A f : B!Total(f) = Total(f)
<1>1. B!BarrierAssumption => IsFiniteSet(Threads) /\ Weight \in [Threads -> Nat \ {0}]
  BY DEF B!BarrierAssumption, B!IsFiniteSet, IsFiniteSet
<1>2. \A x : B!Cardinality(x) = Cardinality(x)
  BY DEF B!Cardinality, Cardinality, B!IsFiniteSet, IsFiniteSet
<1> QED
  BY <1>1, <1>2 DEF B!Total, B!Units, Total, Units

LEMMA AliveAndAwaited ==
  ASSUME B!BarrierAssumption, BarrierTypeOK
  PROVE  /\ IsFiniteSet(Threads)
         /\ Alive \in [Threads -> Nat] /\ Awaited \in [Threads -> Nat]
         /\ Total(Alive) \in Nat /\ Total(Awaited) \in Nat
<1>1. IsFiniteSet(Threads) /\ Alive \in [Threads -> Nat] /\ Awaited \in [Threads -> Nat]
  BY BarrierSets DEF BarrierTypeOK, Alive, Awaited
<1> QED
  BY <1>1, UnitsFinite

LEMMA AliveAndAwaitedNext ==
  ASSUME B!BarrierAssumption, BarrierTypeOK'
  PROVE  /\ IsFiniteSet(Threads)
         /\ Alive' \in [Threads -> Nat] /\ Awaited' \in [Threads -> Nat]
         /\ Total(Alive') \in Nat /\ Total(Awaited') \in Nat
<1>1. IsFiniteSet(Threads) /\ Alive' \in [Threads -> Nat] /\ Awaited' \in [Threads -> Nat]
  BY BarrierSets DEF BarrierTypeOK, Alive, Awaited
<1> QED
  BY <1>1, UnitsFinite

\* Whoever arrives with all that remains is the last one.
LEMMA LastArrival ==
  ASSUME B!BarrierAssumption, BarrierInv, NEW t \in Threads, bPc[t] = "idle",
         Weight[t] = bRemaining
  PROVE  \A u \in Threads \ {t} : bPc[u] = "left" \/ bArrivals[u] = bPhase + 1
<1> DEFINE rest == [Awaited EXCEPT ![t] = 0]
<1>1. Awaited[t] = Weight[t] /\ Weight[t] \in Nat
  BY BarrierSets DEF BarrierInv, BarrierTypeOK, InPhase, Awaited
<1>2. /\ rest \in [Threads -> Nat] /\ Awaited[t] = rest[t] + Weight[t]
      /\ \A u \in Threads \ {t} : Awaited[u] = rest[u]
  BY <1>1, AliveAndAwaited DEF BarrierInv
<1> HIDE DEF rest
<1>3. Total(Awaited) = Total(rest) + Weight[t] /\ Total(rest) \in Nat
  BY <1>1, <1>2, AliveAndAwaited, TotalAdd, UnitsFinite DEF BarrierInv
<1>4. Total(rest) = 0
  BY <1>1, <1>3 DEF BarrierInv
<1>5. \A u \in Threads \ {t} : Awaited[u] = 0
  BY <1>2, <1>4, AliveAndAwaited, TotalZero DEF BarrierInv
<1> QED
  BY <1>5, BarrierSets DEF BarrierInv, BarrierTypeOK, InPhase, Awaited

LEMMA ArriveInv ==
  ASSUME B!BarrierAssumption, BarrierInv, NEW t \in Threads, B!Arrive(t)
  PROVE  BarrierInv'
<1> USE DEF BarrierInv
<1>0. Weight[t] \in Nat /\ Weight[t] # 0 /\ bPc[t] = "idle"
  BY BarrierSets DEF B!Arrive
<1>1. CASE Weight[t] = bRemaining
  <2>1. /\ bPhase' = bPhase + 1 /\ bRemaining' = bExpected /\ bExpected' = bExpected
        /\ bPc' = B!Broadcast([bPc EXCEPT ![t] = "arrived"], "waiting", "woken")
    BY <1>1, BarrierSets DEF B!Arrive, B!AdvancePhase, BarrierTypeOK
  <2>2. BarrierTypeOK'
    BY <2>1 DEF B!Arrive, B!Broadcast, BarrierTypeOK
  <2>3. ASSUME NEW u \in Threads PROVE InPhase(u)'
    BY <1>1, <2>1, <2>3, LastArrival DEF B!Arrive, B!Broadcast, BarrierTypeOK, InPhase
  <2>4. Alive' = Alive /\ Awaited' = Alive
    BY <1>1, <2>1, LastArrival DEF B!Arrive, B!Broadcast, BarrierTypeOK, InPhase, Alive, Awaited
  <2> QED
    BY <2>1, <2>2, <2>3, <2>4
<1>2. CASE Weight[t] < bRemaining
  <2>1. /\ bRemaining' = bRemaining - Weight[t] /\ UNCHANGED <<bExpected, bPhase>>
        /\ bPc' = [bPc EXCEPT ![t] = "arrived"]
    BY <1>2, BarrierSets DEF B!Arrive, BarrierTypeOK
  <2>2. BarrierTypeOK'
    BY <1>0, <1>2, <2>1 DEF B!Arrive, BarrierTypeOK
  <2>3. ASSUME NEW u \in Threads PROVE InPhase(u)'
    BY <2>1, <2>3 DEF B!Arrive, BarrierTypeOK, InPhase
  <2>4. Alive' = Alive
    BY <2>1 DEF B!Arrive, BarrierTypeOK, Alive
  <2>5. Awaited[t] = Awaited'[t] + Weight[t] /\ \A u \in Threads \ {t} : Awaited[u] = Awaited'[u]
    BY <1>0, <2>1 DEF B!Arrive, BarrierTypeOK, InPhase, Awaited
  <2>6. Total(Awaited) = Total(Awaited') + Weight[t]
    <3>1. /\ IsFiniteSet(Threads)
          /\ Awaited \in [Threads -> Nat] /\ Awaited' \in [Threads -> Nat]
      BY <2>2, AliveAndAwaited, AliveAndAwaitedNext
    <3>2. PICK f, g : f = Awaited' /\ g = Awaited
      OBVIOUS
    <3>3. /\ f \in [Threads -> Nat] /\ g \in [Threads -> Nat]
          /\ g[t] = f[t] + Weight[t] /\ \A u \in Threads \ {t} : g[u] = f[u]
      BY <2>5, <3>1, <3>2, Zenon
    <3>4. Total(g) = Total(f) + Weight[t]
      BY <1>0, <3>1, <3>3, TotalAdd, SMTT(30)
    <3> QED
      BY <3>2, <3>4
  <2> QED
    BY <2>1, <2>2, <2>3, <2>4, <2>6, BarrierSets, AliveAndAwaitedNext
<1> QED
  BY <1>1, <1>2 DEF B!Arrive

LEMMA ArriveAndDropInv ==
  ASSUME B!BarrierAssumption, BarrierInv, NEW t \in Threads, B!ArriveAndDrop(t)
  PROVE  BarrierInv'
<1> USE DEF BarrierInv
<1>0. Weight[t] = 1 /\ bPc[t] = "idle" /\ bExpected > 0
  BY DEF B!ArriveAndDrop
<1>1. CASE bRemaining = 1
  <2>1. /\ bPhase' = bPhase + 1 /\ bRemaining' = bExpected - 1 /\ bExpected' = bExpected - 1
        /\ bPc' = B!Broadcast([bPc EXCEPT ![t] = "left"], "waiting", "woken")
    BY <1>1 DEF B!ArriveAndDrop, B!AdvancePhase, BarrierTypeOK
  <2>2. BarrierTypeOK'
    BY <1>0, <2>1 DEF B!ArriveAndDrop, B!Broadcast, BarrierTypeOK
  <2>3. ASSUME NEW u \in Threads PROVE InPhase(u)'
    BY <1>0, <1>1, <2>1, <2>3, LastArrival
       DEF B!ArriveAndDrop, B!Broadcast, BarrierTypeOK, InPhase
  <2>4. /\ Alive[t] = Alive'[t] + 1 /\ \A u \in Threads \ {t} : Alive[u] = Alive'[u]
        /\ Awaited' = Alive'
    BY <1>0, <1>1, <2>1, LastArrival
       DEF B!ArriveAndDrop, B!Broadcast, BarrierTypeOK, InPhase, Alive, Awaited
  <2>5. Total(Alive) = Total(Alive') + 1
    BY <2>2, <2>4, AliveAndAwaited, AliveAndAwaitedNext, TotalAdd
  <2> QED
    BY <2>1, <2>2, <2>3, <2>4, <2>5, AliveAndAwaitedNext
<1>2. CASE bRemaining > 1
  <2>1. /\ bRemaining' = bRemaining - 1 /\ bExpected' = bExpected - 1 /\ UNCHANGED bPhase
        /\ bPc' = [bPc EXCEPT ![t] = "left"]
    BY <1>2 DEF B!ArriveAndDrop, BarrierTypeOK
  <2>2. BarrierTypeOK'
    BY <1>0, <1>2, <2>1 DEF B!ArriveAndDrop, BarrierTypeOK
  <2>3. ASSUME NEW u \in Threads PROVE InPhase(u)'
    BY <2>1, <2>3 DEF B!ArriveAndDrop, BarrierTypeOK, InPhase
  <2>4. /\ Alive[t] = Alive'[t] + 1 /\ \A u \in Threads \ {t} : Alive[u] = Alive'[u]
        /\ Awaited[t] = Awaited'[t] + 1 /\ \A u \in Threads \ {t} : Awaited[u] = Awaited'[u]
    BY <1>0, <2>1 DEF B!ArriveAndDrop, BarrierTypeOK, InPhase, Alive, Awaited
  <2>5. Total(Alive) = Total(Alive') + 1 /\ Total(Awaited) = Total(Awaited') + 1
    <3>1. /\ IsFiniteSet(Threads) /\ 1 \in Nat
          /\ Alive \in [Threads -> Nat] /\ Alive' \in [Threads -> Nat]
          /\ Awaited \in [Threads -> Nat] /\ Awaited' \in [Threads -> Nat]
      BY <2>2, AliveAndAwaited, AliveAndAwaitedNext
    <3>2. ASSUME NEW f \in [Threads -> Nat], NEW g \in [Threads -> Nat],
                 g[t] = f[t] + 1, \A u \in Threads \ {t} : g[u] = f[u]
          PROVE  Total(g) = Total(f) + 1
      BY <3>1, <3>2, TotalAdd, SMTT(30)
    <3> QED
      BY <2>4, <3>1, <3>2
  <2> QED
    BY <2>1, <2>2, <2>3, <2>5, AliveAndAwaitedNext
<1> QED
  BY <1>1, <1>2 DEF B!ArriveAndDrop

LEMMA BarrierNextInv ==
  ASSUME B!BarrierAssumption, BarrierInv, [B!Next]_B!vars
  PROVE  BarrierInv'
<1>1. ASSUME NEW t \in Threads, B!WaitPasses(t) \/ B!WaitBlocks(t) \/ B!SpuriousWakeup(t)
      PROVE  BarrierInv'
  <2>1. BarrierTypeOK'
    BY <1>1 DEF BarrierInv, BarrierTypeOK, B!WaitPasses, B!WaitBlocks, B!SpuriousWakeup, B!bvars
  <2>2. ASSUME NEW u \in Threads PROVE InPhase(u)'
    BY <1>1, <2>2 DEF BarrierInv, BarrierTypeOK, InPhase,
                      B!WaitPasses, B!WaitBlocks, B!SpuriousWakeup, B!bvars
  <2>3. Alive' = Alive /\ Awaited' = Awaited /\ UNCHANGED <<bExpected, bRemaining>>
    BY <1>1 DEF BarrierInv, BarrierTypeOK, Alive, Awaited,
                B!WaitPasses, B!WaitBlocks, B!SpuriousWakeup, B!bvars
  <2> QED
    BY <2>1, <2>2, <2>3 DEF BarrierInv
<1>2. CASE UNCHANGED B!vars
  BY <1>2 DEF B!vars, B!bvars, BarrierInv, BarrierTypeOK, InPhase, Alive, Awaited
<1> QED
  BY <1>1, <1>2, ArriveInv, ArriveAndDropInv DEF B!Next, B!ArriveRefused

\* Nobody gets past the barrier before everybody who has not left has arrived
\* as often, and an arrival is refused only when the phase numbers are used up.
THEOREM BarrierPhasesInStep ==
  ASSUME B!BarrierAssumption
  PROVE  B!Spec => []PhasesInStep
<1>1. B!Init => BarrierInv
  <2> SUFFICES ASSUME B!Init PROVE BarrierInv
    OBVIOUS
  <2>1. BarrierTypeOK /\ Alive = Weight /\ Awaited = Weight
    <3>1. Alive = Weight /\ Awaited = Weight
      BY BarrierSets DEF B!Init, Alive, Awaited
    <3>2. Total(Weight) \in Nat
      BY BarrierSets, UnitsFinite
    <3> QED
      BY <3>1, <3>2, BarrierSets DEF B!Init, BarrierTypeOK
  <2>2. \A t \in Threads : InPhase(t)
    BY DEF B!Init, InPhase
  <2> QED
    BY <2>1, <2>2, BarrierSets DEF B!Init, BarrierInv
<1>2. BarrierInv /\ [B!Next]_B!vars => BarrierInv'
  BY BarrierNextInv
<1>3. BarrierInv => B!NobodyAhead
  BY DEF BarrierInv, BarrierTypeOK, InPhase, B!NobodyAhead
<1>4. ASSUME BarrierInv, NEW t \in Threads, bPc[t] = "idle" PROVE Weight[t] <= bRemaining
  <2>1. Awaited[t] = Weight[t]
    BY <1>4 DEF BarrierInv, BarrierTypeOK, InPhase, Awaited
  <2> QED
    BY <1>4, <2>1, AliveAndAwaited, TotalAtLeast DEF BarrierInv
<1>5. BarrierInv => B!NeverRefused
  BY <1>4, BarrierSets DEF BarrierInv, BarrierTypeOK, B!NeverRefused, B!Refused
<1> QED
  BY <1>1, <1>2, <1>3, <1>5, PTL DEF B!Spec, B!PhasesInStep, PhasesInStep

-----------------------------------------------------------------------------
(***************************************************************************)
(* WaitGroup and OrderedGate.  The workers before the current turn have    *)
(* advanced, those after it have not begun to work (Gate).  The count of   *)
(* the group is the number of workers added and not done, the workers not  *)
(* yet added are the last ones, and the one who is to add the next is not  *)
(* done (Group): so a count of zero means that all are.                    *)
(***************************************************************************)
Before == {"unborn", "start", "waiting", "woken"}

GroupTypeOK ==
  /\ gTurn \in 0 .. Workers /\ gCount \in Nat /\ gLog \in Seq(Nat)
  /\ gWpc \in [G!Turns -> Before \cup {"working", "worked", "advanced", "done"}]
  /\ gCpc \in [Coordinators -> {"start", "waiting", "woken", "returned"}]

InTurn(n) ==
  /\ n < gTurn => gWpc[n] \in {"advanced", "done"}
  /\ n > gTurn => gWpc[n] \in Before
  /\ n = gTurn => gWpc[n] \in Before \cup {"working", "worked"}
Worked == gTurn < Workers /\ gWpc[gTurn] = "worked"
Logged ==
  /\ Worked => Len(gLog) = gTurn + 1
  /\ ~Worked => Len(gLog) = gTurn
  /\ \A i \in 1 .. Len(gLog) : gLog[i] = i - 1
Gate == Logged /\ \A n \in G!Turns : InTurn(n)

Active == {n \in G!Turns : gWpc[n] \notin {"unborn", "done"}}

LastAdder(born) ==
  /\ \A n \in G!Turns : gWpc[n] = "unborn" <=> n >= born
  /\ born < Workers => gWpc[born - 1] # "done"

Group ==
  /\ IsFiniteSet(Active) /\ gCount = Cardinality(Active)
  /\ \E born \in 1 .. Workers : LastAdder(born)

GroupInv == GroupTypeOK /\ Gate /\ Group /\ G!WaitCoversAll

LEMMA GroupInitInv ==
  ASSUME G!ConcurrentAssumption, G!Init
  PROVE  GroupInv
<1> USE DEF G!ConcurrentAssumption, G!Init, G!Turns
<1>1. GroupTypeOK
  BY DEF GroupTypeOK, Before
<1>2. Gate
  BY DEF Gate, Logged, Worked, InTurn, Before
<1>3. Group
  <2>1. Active = 0 .. GroupSize - 1
    BY DEF Active
  <2>2. 0 \in Int /\ GroupSize - 1 \in Int
    OBVIOUS
  <2>3. /\ IsFiniteSet(0 .. GroupSize - 1)
        /\ Cardinality(0 .. GroupSize - 1) =
             IF 0 > GroupSize - 1 THEN 0 ELSE (GroupSize - 1) - 0 + 1
    BY <2>2, FS_Interval, Zenon
  <2>4. LastAdder(GroupSize)
    BY DEF LastAdder
  <2> QED
    BY <2>1, <2>3, <2>4 DEF Group
<1> QED
  BY <1>1, <1>2, <1>3 DEF GroupInv, G!WaitCoversAll

\* A step of the gate leaves the group as it is.
LEMMA GroupKept ==
  ASSUME G!ConcurrentAssumption, GroupInv, GroupTypeOK', UNCHANGED gCount,
         \A n \in G!Turns : /\ gWpc'[n] = "unborn" <=> gWpc[n] = "unborn"
                            /\ gWpc'[n] = "done" <=> gWpc[n] = "done"
  PROVE  Group'
<1>1. Active' = Active
  BY DEF Active
<1>2. ASSUME NEW born \in 1 .. Workers, LastAdder(born) PROVE LastAdder(born)'
  BY <1>2 DEF LastAdder, G!Turns, GroupInv, GroupTypeOK, G!ConcurrentAssumption
<1> QED
  BY <1>1, <1>2 DEF Group, GroupInv

LEMMA GateStepInv ==
  ASSUME G!ConcurrentAssumption, GroupInv, NEW n \in G!Turns,
         G!WaitForPasses(n) \/ G!WaitForBlocks(n) \/ G!Work(n) \/ G!Advance(n)
  PROVE  GroupInv'
<1> USE DEF GroupInv, G!ConcurrentAssumption, G!Turns
<1>1. CASE G!WaitForPasses(n) \/ G!WaitForBlocks(n)
  <2>1. GroupTypeOK'
    BY <1>1 DEF G!WaitForPasses, G!WaitForBlocks, GroupTypeOK, Before
  <2>4. \A m \in G!Turns : InTurn(m)'
    <3>1. CASE G!WaitForPasses(n)
      BY <3>1 DEF G!WaitForPasses, GroupTypeOK, Gate, InTurn, Before
    <3>2. CASE G!WaitForBlocks(n)
      BY <3>2 DEF G!WaitForBlocks, GroupTypeOK, Gate, InTurn, Before
    <3> QED
      BY <1>1, <3>1, <3>2
  <2>5. Worked' <=> Worked
    BY <1>1 DEF G!WaitForPasses, G!WaitForBlocks, GroupTypeOK, Worked
  <2>6. Gate'
    BY <1>1, <2>4, <2>5 DEF G!WaitForPasses, G!WaitForBlocks, Gate, Logged
  <2>2. Group'
    BY <1>1, <2>1, GroupKept DEF G!WaitForPasses, G!WaitForBlocks, GroupTypeOK
  <2>3. G!WaitCoversAll'
    BY <1>1 DEF G!WaitForPasses, G!WaitForBlocks, GroupTypeOK, G!WaitCoversAll
  <2> QED
    BY <2>1, <2>2, <2>3, <2>6
<1>2. CASE G!Work(n)
  <2>1. n = gTurn /\ Len(gLog) = n
    <3>0. InTurn(n) /\ gTurn \in Nat
      BY DEF Gate, GroupTypeOK
    <3>1. n = gTurn
      BY <1>2, <3>0 DEF G!Work, InTurn, Before
    <3> QED
      BY <1>2, <3>1 DEF G!Work, Gate, Logged, Worked
  <2>2. GroupTypeOK'
    BY <1>2 DEF G!Work, GroupTypeOK
  <2>3. Gate'
    <3>1. \A m \in G!Turns : InTurn(m)'
      BY <1>2, <2>1 DEF G!Work, GroupTypeOK, Gate, InTurn, Before
    <3>2. Worked' /\ gTurn' = gTurn
      BY <1>2, <2>1 DEF G!Work, GroupTypeOK, Worked
    <3>3. Len(gLog') = gTurn + 1 /\ \A i \in 1 .. Len(gLog') : gLog'[i] = i - 1
      BY <1>2, <2>1 DEF G!Work, GroupTypeOK, Gate, Logged
    <3> QED
      BY <3>1, <3>2, <3>3 DEF Gate, Logged
  <2>4. Group'
    BY <1>2, <2>2, GroupKept DEF G!Work, GroupTypeOK
  <2>5. G!WaitCoversAll'
    BY <1>2 DEF G!Work, GroupTypeOK, G!WaitCoversAll
  <2> QED
    BY <2>2, <2>3, <2>4, <2>5
<1>3. CASE G!Advance(n)
  <2>1. n = gTurn /\ Len(gLog) = n + 1
    <3>0. InTurn(n) /\ gTurn \in Nat
      BY DEF Gate, GroupTypeOK
    <3>1. n = gTurn
      BY <1>3, <3>0 DEF G!Advance, InTurn, Before
    <3> QED
      BY <1>3, <3>1 DEF G!Advance, Gate, Logged, Worked
  <2>2. GroupTypeOK'
    BY <1>3, <2>1 DEF G!Advance, G!NotifyTurn, G!Broadcast, GroupTypeOK, Before
  <2>3. Gate'
    <3>1. \A m \in G!Turns : InTurn(m)'
      BY <1>3, <2>1
         DEF G!Advance, G!NotifyTurn, G!Broadcast, GroupTypeOK, Gate, InTurn, Before
    <3>2. ~Worked'
      <4>1. gTurn' = n + 1
        BY <1>3, <2>1 DEF G!Advance
      <4>2. n + 1 < Workers => InTurn(n + 1) /\ n + 1 \in G!Turns /\ n + 1 > gTurn
        BY <2>1 DEF Gate
      <4>3. n + 1 < Workers => gWpc'[n + 1] # "worked"
        BY <1>3, <4>2 DEF G!Advance, G!NotifyTurn, G!Broadcast, GroupTypeOK, InTurn, Before
      <4> QED
        BY <4>1, <4>3 DEF Worked
    <3> QED
      BY <1>3, <2>1, <3>1, <3>2 DEF G!Advance, Gate, Logged
  <2>4. Group'
    BY <1>3, <2>2, GroupKept DEF G!Advance, G!NotifyTurn, G!Broadcast, GroupTypeOK
  <2>5. G!WaitCoversAll'
    BY <1>3 DEF G!Advance, G!NotifyTurn, G!Broadcast, GroupTypeOK, G!WaitCoversAll
  <2> QED
    BY <2>2, <2>3, <2>4, <2>5
<1> QED
  BY <1>1, <1>2, <1>3

LEMMA AddWorkerInv ==
  ASSUME G!ConcurrentAssumption, GroupInv, NEW n \in G!Turns, G!AddWorker(n)
  PROVE  GroupInv'
<1> USE DEF GroupInv, G!ConcurrentAssumption, G!Turns
<1>1. n + 1 \in G!Turns /\ gWpc[n + 1] = "unborn" /\ gWpc[n] = "advanced"
  BY DEF G!AddWorker
<1>2. gWpc' = [gWpc EXCEPT ![n + 1] = "start"] /\ gCount' = gCount + 1
      /\ UNCHANGED <<gTurn, gLog>>
  BY DEF G!AddWorker, G!Add
<1>3. GroupTypeOK'
  BY <1>1, <1>2 DEF G!AddWorker, G!Add, G!NotifyDone, G!Broadcast, GroupTypeOK, Before
<1>4. Gate'
  <2>1. \A m \in G!Turns : InTurn(m)'
    BY <1>1, <1>2 DEF GroupTypeOK, Gate, InTurn, Before
  <2>2. Worked' <=> Worked
    BY <1>1, <1>2 DEF GroupTypeOK, Worked
  <2> QED
    BY <1>2, <2>1, <2>2 DEF Gate, Logged
<1>5. Group'
  <2>1. Active' = Active \cup {n + 1} /\ n + 1 \notin Active
    BY <1>1, <1>2 DEF Active, GroupTypeOK
  <2>2. IsFiniteSet(Active') /\ gCount' = Cardinality(Active')
    BY <1>2, <2>1, FS_AddElement DEF Group
  <2>3. PICK born \in 1 .. Workers : LastAdder(born)
    BY DEF Group
  <2>4. born = n + 1
    BY <1>1, <2>3 DEF LastAdder
  <2>5. LastAdder(born + 1)' /\ born + 1 \in 1 .. Workers
    BY <1>1, <1>2, <2>3, <2>4 DEF LastAdder, GroupTypeOK
  <2> QED
    BY <2>2, <2>5 DEF Group
<1>6. G!WaitCoversAll'
  BY <1>1, <1>2 DEF G!AddWorker, G!Add, G!NotifyDone, G!Broadcast, GroupTypeOK, G!WaitCoversAll
<1> QED
  BY <1>3, <1>4, <1>5, <1>6

LEMMA DoneInv ==
  ASSUME G!ConcurrentAssumption, GroupInv, NEW n \in G!Turns, G!Done(n)
  PROVE  GroupInv'
<1> USE DEF GroupInv, G!ConcurrentAssumption, G!Turns
<1>1. gWpc[n] = "advanced" /\ (n + 1 \in G!Turns => gWpc[n + 1] # "unborn")
  BY DEF G!Done
<1>2. gWpc' = [gWpc EXCEPT ![n] = "done"] /\ gCount' = gCount - 1 /\ gCount' \in Nat
      /\ UNCHANGED <<gTurn, gLog>>
  BY DEF G!Done, G!Add, GroupTypeOK
<1>3. GroupTypeOK'
  BY <1>1, <1>2 DEF G!Done, G!Add, G!NotifyDone, G!Broadcast, GroupTypeOK
<1>4. Gate'
  <2>1. \A m \in G!Turns : InTurn(m)'
    BY <1>1, <1>2 DEF GroupTypeOK, Gate, InTurn, Before
  <2>2. Worked' <=> Worked
    BY <1>1, <1>2 DEF GroupTypeOK, Worked
  <2> QED
    BY <1>2, <2>1, <2>2 DEF Gate, Logged
<1>5. Group'
  <2>1. Active' = Active \ {n} /\ n \in Active
    BY <1>1, <1>2 DEF Active, GroupTypeOK
  <2>2. IsFiniteSet(Active') /\ gCount' = Cardinality(Active')
    BY <1>2, <2>1, FS_RemoveElement DEF Group
  <2>3. ASSUME NEW born \in 1 .. Workers, LastAdder(born) PROVE LastAdder(born)'
    BY <1>1, <1>2, <2>3 DEF LastAdder, GroupTypeOK
  <2> QED
    BY <2>2, <2>3 DEF Group
<1>6. G!WaitCoversAll'
  BY <1>1, <1>2 DEF G!Done, G!Add, G!NotifyDone, G!Broadcast, GroupTypeOK, G!WaitCoversAll
<1> QED
  BY <1>3, <1>4, <1>5, <1>6

LEMMA WaitInv ==
  ASSUME G!ConcurrentAssumption, GroupInv, NEW c \in Coordinators,
         G!WaitReturns(c) \/ G!WaitBlocks(c)
  PROVE  GroupInv'
<1> USE DEF GroupInv, G!ConcurrentAssumption, G!Turns
<1>1. GroupTypeOK' /\ Gate'
  BY DEF G!WaitReturns, G!WaitBlocks, GroupTypeOK, Gate, InTurn, Logged, Worked
<1>2. Group'
  BY <1>1, GroupKept DEF G!WaitReturns, G!WaitBlocks
<1>3. gCount = 0 => \A n \in G!Turns : gWpc[n] = "done"
  <2>1. gCount = 0 => Active = {}
    BY FS_EmptySet DEF Group
  <2>2. gCount = 0 => \A n \in G!Turns : gWpc[n] \in {"unborn", "done"}
    BY <2>1 DEF Active
  <2>3. PICK born \in 1 .. Workers : LastAdder(born)
    BY DEF Group
  <2>4. born - 1 \in G!Turns
    OBVIOUS
  <2> QED
    BY <2>2, <2>3, <2>4 DEF LastAdder
<1>4. G!WaitCoversAll'
  BY <1>3 DEF G!WaitReturns, G!WaitBlocks, GroupTypeOK, G!WaitCoversAll
<1> QED
  BY <1>1, <1>2, <1>4

LEMMA GroupNextInv ==
  ASSUME G!ConcurrentAssumption, GroupInv, [G!Next]_G!vars
  PROVE  GroupInv'
<1>1. CASE UNCHANGED G!vars
  BY <1>1 DEF G!vars, GroupInv, GroupTypeOK, Gate, InTurn, Logged, Worked,
              Group, Active, LastAdder, G!WaitCoversAll
<1>2. CASE G!SpuriousWakeup
  <2>1. GroupTypeOK'
    BY <1>2 DEF GroupInv, G!SpuriousWakeup, GroupTypeOK, Before
  <2>4. \A m \in G!Turns : InTurn(m)'
    BY <1>2 DEF GroupInv, G!SpuriousWakeup, GroupTypeOK, Gate, InTurn, Before, G!Turns
  <2>5. Worked' <=> Worked
    BY <1>2 DEF GroupInv, G!SpuriousWakeup, GroupTypeOK, Worked, G!Turns, G!ConcurrentAssumption
  <2>6. Gate'
    BY <1>2, <2>4, <2>5 DEF GroupInv, G!SpuriousWakeup, Gate, Logged
  <2>2. Group'
    BY <1>2, <2>1, GroupKept DEF GroupInv, G!SpuriousWakeup, GroupTypeOK
  <2>3. G!WaitCoversAll'
    BY <1>2 DEF GroupInv, G!SpuriousWakeup, GroupTypeOK, G!WaitCoversAll
  <2> QED
    BY <2>1, <2>2, <2>3, <2>6 DEF GroupInv
<1> QED
  BY <1>1, <1>2, GateStepInv, AddWorkerInv, DoneInv, WaitInv
     DEF G!Next, G!WorkerStep, G!DoneRefused

\* The workers do their work in the order of their turns, one at a time, and
\* wait() returns only when all are done, those added while it waited too.
THEOREM ConcurrentGateAndGroup ==
  ASSUME G!ConcurrentAssumption
  PROVE  G!Spec => []GateAndGroup
<1>1. G!Init => GroupInv
  BY GroupInitInv
<1>2. GroupInv /\ [G!Next]_G!vars => GroupInv'
  BY GroupNextInv
<1>3. GroupInv => GateAndGroup
  <2> SUFFICES ASSUME GroupInv PROVE G!TurnsInOrder
    BY DEF GroupInv, GateAndGroup, G!GateAndGroup
  <2>1. \A n \in G!Turns : gWpc[n] = "working" => n = gTurn
    BY DEF GroupInv, GroupTypeOK, Gate, InTurn, Before, G!Turns, G!ConcurrentAssumption
  <2> QED
    BY <2>1 DEF GroupInv, Gate, Logged, G!TurnsInOrder
<1> QED
  BY <1>1, <1>2, <1>3, PTL DEF G!Spec

-----------------------------------------------------------------------------
(***************************************************************************)
(* AtomicWait.  The word always holds a narrow value, so the sum computed  *)
(* in the wide word and cut is the narrow sum, also below zero; a read     *)
(* under the mutex returns the value or what a writer who has yet to       *)
(* notify has overwritten; and a notification leaves nobody asleep.        *)
(***************************************************************************)
LEMMA ModOfSum ==
  ASSUME NEW M \in Nat \ {0}, NEW q \in Int, NEW r \in 0 .. M - 1
  PROVE  (M * q + r) % M = r
  BY Z3

LEMMA SumIsNarrow ==
  ASSUME A!AtomicAssumption, NEW p \in 0 .. NarrowMod - 1, NEW d \in -1 .. 1
  PROVE  /\ A!Sum(p % NarrowMod, d) = (p + d) % NarrowMod
         /\ (p + d) % NarrowMod \in 0 .. NarrowMod - 1
<1> USE DEF A!AtomicAssumption
<1>1. p % NarrowMod = p /\ (p + d) % NarrowMod \in 0 .. NarrowMod - 1
  BY Z3
<1>2. CASE p + d >= 0
  <2>1. p + d \in 0 .. WordMod - 1
    BY <1>2
  <2>2. (p + d) % WordMod = p + d
    BY <2>1, Z3
  <2> QED
    BY <1>1, <2>2 DEF A!Sum
<1>3. CASE p + d = -1
  <2> DEFINE q == WordMod \div NarrowMod
  <2>1. q \in Int /\ WordMod % NarrowMod = WordMod - NarrowMod * q
    BY Z3
  <2> HIDE DEF q
  <2>2. WordMod - 1 = NarrowMod * (q - 1) + (NarrowMod - 1)
    BY <2>1, Z3
  <2>3. q - 1 \in Int /\ NarrowMod - 1 \in 0 .. NarrowMod - 1
    BY <2>1
  <2>4. (WordMod - 1) % NarrowMod = NarrowMod - 1
    <3>1. (NarrowMod * (q - 1) + (NarrowMod - 1)) % NarrowMod = NarrowMod - 1
      BY <2>3, ModOfSum, Zenon
    <3> QED
      BY <2>2, <3>1, Zenon
  <2>5. (-1) % WordMod = WordMod - 1 /\ (-1) % NarrowMod = NarrowMod - 1
    BY Z3
  <2> QED
    BY <1>1, <1>3, <2>4, <2>5 DEF A!Sum
<1> QED
  BY <1>1, <1>2, <1>3

AtomicTypeOK ==
  /\ aValue \in A!Narrow /\ aAbs = aValue
  /\ aPc \in [A!Everyone -> {"idle", "loop", "changed", "waiting", "woken"}]
  /\ aObserved \in [Writers -> A!Narrow] /\ aOperand \in [Writers -> -1 .. 1]
  /\ aOver \in [Writers -> A!Narrow] /\ aOld \in [Waiters -> A!Narrow]
  /\ aOps \in [Writers -> Nat] /\ aUsers \subseteq Waiters
  /\ \A w \in Writers : aPc[w] \notin {"waiting", "woken"}
  /\ \A t \in Waiters : t \notin aUsers => aPc[t] = "idle"

AtomicInv == AtomicTypeOK /\ A!NoLostWakeup

LEMMA AtomicInitInv ==
  ASSUME A!AtomicAssumption, A!Init
  PROVE  AtomicInv
  BY DEF A!AtomicAssumption, A!Init, AtomicInv, AtomicTypeOK, A!Narrow, A!Everyone, A!NoLostWakeup

\* Whatever a thread reads is narrow.
LEMMA ReadableIsNarrow ==
  ASSUME AtomicTypeOK
  PROVE  A!Readable \subseteq A!Narrow
  BY DEF AtomicTypeOK, A!Readable

LEMMA WriteInv ==
  ASSUME A!AtomicAssumption, AtomicInv, NEW t \in Writers, NEW v \in A!Narrow, A!Write(t, v),
         aAbs' = v, aOps' \in [Writers -> Nat], aObserved' \in [Writers -> A!Narrow],
         aOperand' \in [Writers -> -1 .. 1], UNCHANGED <<aOld, aUsers>>
  PROVE  AtomicInv'
<1>1. AtomicTypeOK'
  BY DEF A!AtomicAssumption, AtomicInv, AtomicTypeOK, A!Write, A!Everyone
<1>2. aPc'[t] = "changed"
  BY DEF AtomicInv, AtomicTypeOK, A!Write, A!Everyone
<1> QED
  BY <1>1, <1>2 DEF AtomicInv, A!NoLostWakeup

LEMMA WriterInv ==
  ASSUME A!AtomicAssumption, AtomicInv, NEW t \in Writers,
         A!Write1(t) \/ A!AddCas(t) \/ A!AddRetry(t)
  PROVE  AtomicInv'
<1>1. ASSUME NEW v \in A!Narrow, A!Store(t, v) PROVE AtomicInv'
  BY <1>1, WriteInv DEF A!Store, AtomicInv, AtomicTypeOK
<1>2. ASSUME NEW d \in -1 .. 1, NEW seen \in A!Readable, A!AddLoad(t, d, seen) PROVE AtomicInv'
  <2>1. seen \in A!Narrow
    BY ReadableIsNarrow DEF AtomicInv
  <2>2. AtomicTypeOK'
    BY <1>2, <2>1 DEF A!AddLoad, A!AtomicAssumption, AtomicInv, AtomicTypeOK, A!Everyone
  <2> QED
    BY <1>2, <2>2 DEF A!AddLoad, A!AtomicAssumption, AtomicInv, AtomicTypeOK, A!Everyone, A!NoLostWakeup
<1>3. CASE A!AddCas(t)
  <2> DEFINE v == (aValue + aOperand[t]) % NarrowMod
  <2>1. aObserved[t] = aValue /\ aValue \in 0 .. NarrowMod - 1 /\ aOperand[t] \in -1 .. 1
    BY <1>3 DEF A!AddCas, AtomicInv, AtomicTypeOK, A!Narrow
  <2>2. A!Sum(aObserved[t] % NarrowMod, aOperand[t]) = v /\ v \in A!Narrow
    BY <2>1, SumIsNarrow DEF A!Narrow
  <2>3. A!Write(t, v) /\ aAbs' = v
    BY <1>3, <2>1, <2>2 DEF A!AddCas, AtomicInv, AtomicTypeOK
  <2>4. 0 \in A!Narrow
    BY DEF A!Narrow, A!AtomicAssumption
  <2>5. /\ aOps' \in [Writers -> Nat] /\ aObserved' \in [Writers -> A!Narrow]
        /\ aOperand' \in [Writers -> -1 .. 1] /\ UNCHANGED <<aOld, aUsers>>
    BY <1>3, <2>4 DEF A!AddCas, AtomicInv, AtomicTypeOK
  <2> HIDE DEF v
  <2> QED
    BY <2>2, <2>3, <2>5, WriteInv
<1>4. CASE A!AddRetry(t)
  BY <1>4 DEF A!AddRetry, AtomicInv, AtomicTypeOK, A!NoLostWakeup
<1> QED
  BY <1>1, <1>2, <1>3, <1>4 DEF A!Write1

\* Nobody is left asleep by a notification.
LEMMA NotifyWakes ==
  ASSUME A!AtomicAssumption, AtomicInv, NEW t \in Writers, A!NotifyStep(t)
  PROVE  /\ aPc' \in [A!Everyone -> {"idle", "loop", "changed", "waiting", "woken"}]
         /\ \A w \in Writers : aPc'[w] = IF w = t THEN "idle" ELSE aPc[w]
         /\ \A w \in Waiters : aPc'[w] = IF aPc[w] = "waiting" THEN "woken" ELSE aPc[w]
<1> DEFINE q == [aPc EXCEPT ![t] = "idle"]
<1>1. PICK m \in A!NotifyModes : A!Notify(t, m)
  BY DEF A!NotifyStep
<1>2. PICK f \in A!Woken(m, q) : aPc' = f
  BY <1>1 DEF A!Notify
<1>3. /\ q \in [A!Everyone -> {"idle", "loop", "changed", "waiting", "woken"}]
      /\ \A w \in Writers : q[w] = IF w = t THEN "idle" ELSE aPc[w]
      /\ \A w \in Waiters : q[w] = aPc[w]
      /\ DOMAIN q = A!Everyone
  BY DEF AtomicInv, AtomicTypeOK, A!Everyone, A!AtomicAssumption
<1>4. \A w \in Writers : q[w] # "waiting"
  BY <1>3 DEF AtomicInv, AtomicTypeOK
<1> HIDE DEF q
<1>5. CASE m # "one"
  <2>1. aPc' = A!Broadcast(q, "waiting", "woken")
    BY <1>2, <1>5 DEF A!Woken
  <2> QED
    BY <2>1, <1>3, <1>4 DEF A!Broadcast, A!Everyone
<1>6. CASE m = "one"
  <2>1. A!Cardinality(aUsers) <= 1
    BY <1>1, <1>6 DEF A!NotifyModes
  <2>2. \A x, y \in aUsers : x = y
    <3>1. IsFiniteSet(Waiters) /\ \A x : A!Cardinality(x) = Cardinality(x)
      <4>1. IsFiniteSet(Waiters)
        BY DEF A!AtomicAssumption, A!IsFiniteSet, IsFiniteSet
      <4>2. \A x : A!Cardinality(x) = Cardinality(x)
        BY DEF A!Cardinality, Cardinality, A!IsFiniteSet, IsFiniteSet
      <4> QED
        BY <4>1, <4>2
    <3>2. IsFiniteSet(aUsers) /\ Cardinality(aUsers) \in Nat
      BY <3>1, FS_Subset, FS_CardinalityType DEF AtomicInv, AtomicTypeOK
    <3>3. Cardinality(aUsers) = 0 \/ Cardinality(aUsers) = 1
      BY <2>1, <3>1, <3>2
    <3>4. aUsers = {} \/ \E x : aUsers = {x}
      BY <3>2, <3>3, FS_EmptySet, FS_Singleton
    <3> QED
      BY <3>4
  <2>3. \A x, y \in A!Everyone : q[x] = "waiting" /\ q[y] = "waiting" => x = y
    BY <1>3, <1>4, <2>2 DEF AtomicInv, AtomicTypeOK, A!Everyone
  <2>4. f \in A!Signal(q, "waiting", "woken")
    BY <1>2, <1>6 DEF A!Woken
  <2>5. CASE \A x \in A!Everyone : q[x] # "waiting"
    <3>1. aPc' = q
      BY <1>2, <1>3, <2>4, <2>5 DEF A!Signal
    <3> QED
      BY <1>3, <2>5, <3>1 DEF A!Everyone
  <2>6. CASE \E x \in A!Everyone : q[x] = "waiting"
    <3>1. PICK x \in A!Everyone : q[x] = "waiting" /\ aPc' = [q EXCEPT ![x] = "woken"]
      BY <1>2, <1>3, <2>4, <2>6 DEF A!Signal
    <3> QED
      BY <1>3, <1>4, <2>3, <3>1 DEF A!Everyone
  <2> QED
    BY <2>5, <2>6
<1> QED
  BY <1>5, <1>6

LEMMA AtomicNextInv ==
  ASSUME A!AtomicAssumption, AtomicInv, [A!Next]_A!vars
  PROVE  AtomicInv'
<1>1. ASSUME NEW t \in Writers, A!NotifyStep(t) PROVE AtomicInv'
  <2>1. /\ aOver' = [aOver EXCEPT ![t] = 0]
        /\ UNCHANGED <<aValue, aObserved, aOperand, aOps, aOld, aUsers, aAbs>>
    BY <1>1 DEF A!NotifyStep, A!Notify, A!wvars
  <2>2. 0 \in A!Narrow
    BY DEF A!Narrow, A!AtomicAssumption
  <2>3. \A w \in Waiters : aPc'[w] # "waiting"
    BY <1>1, NotifyWakes
  <2>4. AtomicTypeOK'
    BY <1>1, <2>1, <2>2, NotifyWakes DEF AtomicInv, AtomicTypeOK
  <2> QED
    BY <2>3, <2>4 DEF AtomicInv, A!NoLostWakeup
<1>2. ASSUME NEW t \in aUsers, NEW v \in A!Narrow, A!WaitBlocks(t, v) PROVE AtomicInv'
  <2>1. AtomicTypeOK'
    BY <1>2 DEF A!WaitBlocks, A!AtomicAssumption, AtomicInv, AtomicTypeOK, A!Everyone, A!wvars
  <2>2. aOld'[t] = v /\ v \in A!Readable
    BY <1>2 DEF A!WaitBlocks, AtomicInv, AtomicTypeOK
  <2>3. v = aValue \/ \E w \in Writers : aPc[w] = "changed"
    BY <2>2 DEF A!Readable
  <2>4. \A w \in Writers : aPc'[w] = aPc[w]
    BY <1>2 DEF A!WaitBlocks, A!AtomicAssumption, AtomicInv, AtomicTypeOK, A!Everyone
  <2>5. \A u \in Waiters \ {t} : aPc'[u] = aPc[u] /\ aOld'[u] = aOld[u]
    BY <1>2 DEF A!WaitBlocks, AtomicInv, AtomicTypeOK, A!Everyone
  <2> QED
    BY <1>2, <2>1, <2>2, <2>3, <2>4, <2>5 DEF AtomicInv, A!NoLostWakeup, A!WaitBlocks
<1>3. ASSUME NEW t \in aUsers, A!WaitReturns(t) \/ A!SpuriousWakeup(t) PROVE AtomicInv'
  <2>1. 0 \in A!Narrow
    BY DEF A!Narrow, A!AtomicAssumption
  <2>2. AtomicTypeOK'
    BY <1>3, <2>1 DEF A!WaitReturns, A!SpuriousWakeup, A!AtomicAssumption, AtomicInv,
                      AtomicTypeOK, A!Everyone, A!wvars
  <2> QED
    BY <1>3, <2>2 DEF A!WaitReturns, A!SpuriousWakeup, A!AtomicAssumption, AtomicInv,
                      AtomicTypeOK, A!Everyone, A!NoLostWakeup
<1>4. CASE UNCHANGED A!vars
  BY <1>4 DEF A!vars, A!wvars, AtomicInv, AtomicTypeOK, A!NoLostWakeup
<1> QED
  BY <1>1, <1>2, <1>3, <1>4, WriterInv DEF A!Next

\* Each operation on a narrow atomic takes effect once, whatever the
\* compare-exchange loops read before; and a thread sleeps on a value the
\* word no longer has only while some writer has still to notify.
THEOREM AtomicWordExact ==
  ASSUME A!AtomicAssumption
  PROVE  A!Spec => []WordExact
<1>1. A!Init => AtomicInv
  BY AtomicInitInv
<1>2. AtomicInv /\ [A!Next]_A!vars => AtomicInv'
  BY AtomicNextInv
<1>3. AtomicInv => WordExact
  BY DEF AtomicInv, AtomicTypeOK, WordExact, A!WordExact, A!Atomicity
<1> QED
  BY <1>1, <1>2, <1>3, PTL DEF A!Spec
=============================================================================
