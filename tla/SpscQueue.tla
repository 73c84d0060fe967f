----------------------------- MODULE SpscQueue -----------------------------
(***************************************************************************)
(* SpscQueue<T> of std::sync (stdlib/src/std_sync.c): the wait-free ring   *)
(* one producer thread and one consumer thread share without a lock.       *)
(*                                                                         *)
(* `head' and `tail' are C11 atomics.  Each side reads its own index       *)
(* relaxed (it is the only writer) and the other side's index with         *)
(* acquire.  An acquire load may return any value the other side stored    *)
(* since this side's last load, so each side has a VIEW of the other's     *)
(* index that lags behind it and catches up at arbitrary moments.  The     *)
(* element copies are plain memory accesses: they are steps of their own,  *)
(* between the check of the other index and the release store that         *)
(* publishes the new one.                                                  *)
(***************************************************************************)
EXTENDS Integers, Sequences

CONSTANTS Values,     \* the elements
          Capacity,   \* the argument of SpscQueue::new
          MaxPush,    \* bound on the pushes of a behaviour
          NoValue     \* the contents of a zeroed slot or an unset output

ASSUME SpscAssumption ==
  /\ Capacity \in Nat \ {0}
  /\ MaxPush \in Nat
  /\ NoValue \notin Values

\* Mutant: no sentinel slot.
SlotsNoSentinel == Capacity


Slots == Capacity + 1         \* one sentinel slot tells full from empty
Index == 0 .. Slots - 1

VARIABLES
  head, tail,      \* the two indices as last stored
  headView,        \* what the producer's acquire load of head returns
  tailView,        \* what the consumer's acquire load of tail returns
  items,           \* the slots
  ppc, staged,     \* producer: where it is in push, and the element pushed
  cpc, out,        \* consumer: where it is in pop, and its output buffer
  live,            \* between new and release
  sent, got,       \* ghosts: elements whose push / pop has been published
  seenPop,         \* ghost: Len(got) at the store headView shows
  seenPush         \* ghost: Len(sent) at the store tailView shows

pvars == <<tail, ppc, staged, sent>>
cvars == <<head, cpc, out, got>>
views == <<headView, tailView, seenPop, seenPush>>
vars  == <<pvars, cvars, views, items, live>>

\* Mutant: the index never wraps.
IncNoWrap(i) == i + 1


Inc(i) == IF i + 1 = Slots THEN 0 ELSE i + 1

\* SpscQueue::new with a valid capacity and the memory it asks for.  When it
\* fails the handle is 0 and every operation returns at once.
Init ==
  /\ head = 0 /\ tail = 0 /\ headView = 0 /\ tailView = 0
  /\ items = [i \in Index |-> NoValue]
  /\ ppc = "idle" /\ staged = NoValue
  /\ cpc = "idle" /\ out = NoValue
  /\ live = TRUE
  /\ sent = << >> /\ got = << >> /\ seenPop = 0 /\ seenPush = 0

-----------------------------------------------------------------------------
\* push(v): the ring looks full, return 0.
PushFull ==
  /\ live /\ ppc = "idle"
  /\ Inc(tail) = headView
  /\ UNCHANGED vars

\* Mutant: the producer does not look at head.
PushCheckBlind(v) ==
  /\ live /\ ppc = "idle" /\ Len(sent) < MaxPush
  /\ ppc' = "copy" /\ staged' = v
  /\ UNCHANGED <<tail, sent, cvars, views, items, live>>

\* push(v): there is room.
PushCheck(v) ==
  /\ live /\ ppc = "idle" /\ Len(sent) < MaxPush
  /\ Inc(tail) # headView
  /\ ppc' = "copy" /\ staged' = v
  /\ UNCHANGED <<tail, sent, cvars, views, items, live>>

\* The memcpy into the slot.
PushCopy ==
  /\ ppc = "copy"
  /\ items' = [items EXCEPT ![tail] = staged]
  /\ ppc' = "publish"
  /\ UNCHANGED <<tail, staged, sent, cvars, views, live>>

\* The release store of tail; push returns 1.
PushPublish ==
  /\ ppc = "publish"
  /\ tail' = Inc(tail)
  /\ sent' = Append(sent, staged)
  /\ ppc' = "idle" /\ staged' = NoValue
  /\ UNCHANGED <<cvars, views, items, live>>

\* pop(): the ring looks empty, return 0 and leave the output alone.
PopEmpty ==
  /\ live /\ cpc = "idle"
  /\ head = tailView
  /\ UNCHANGED vars

\* Mutant: pop leaves the last element behind.
PopCheckLeavesOne ==
  /\ live /\ cpc = "idle"
  /\ head # tailView /\ Inc(head) # tailView
  /\ cpc' = "copy"
  /\ UNCHANGED <<head, out, got, pvars, views, items, live>>

\* pop(): there is an element.
PopCheck ==
  /\ live /\ cpc = "idle"
  /\ head # tailView
  /\ cpc' = "copy"
  /\ UNCHANGED <<head, out, got, pvars, views, items, live>>

\* Mutant: the consumer advances the index before it copies.
PopCopyAhead ==
  /\ cpc = "copy"
  /\ out' = items[Inc(head)]
  /\ cpc' = "publish"
  /\ UNCHANGED <<head, got, pvars, views, items, live>>

\* The memcpy out of the slot.
PopCopy ==
  /\ cpc = "copy"
  /\ out' = items[head]
  /\ cpc' = "publish"
  /\ UNCHANGED <<head, got, pvars, views, items, live>>

\* The release store of head; pop returns 1.
PopPublish ==
  /\ cpc = "publish"
  /\ head' = Inc(head)
  /\ got' = Append(got, out)
  /\ cpc' = "idle"
  /\ UNCHANGED <<out, pvars, views, items, live>>

\* A store of one side becomes visible to the other side's loads.
PropagateHead ==
  /\ seenPop # Len(got)
  /\ headView' = head /\ seenPop' = Len(got)
  /\ UNCHANGED <<pvars, cvars, tailView, seenPush, items, live>>

PropagateTail ==
  /\ seenPush # Len(sent)
  /\ tailView' = tail /\ seenPush' = Len(sent)
  /\ UNCHANGED <<pvars, cvars, headView, seenPop, items, live>>

\* release(), which its users call after both threads have stopped; it frees
\* the slots, whatever is still in them.
Release ==
  /\ live /\ ppc = "idle" /\ cpc = "idle"
  /\ live' = FALSE
  /\ UNCHANGED <<pvars, cvars, views, items>>

Next ==
  \/ PushFull \/ (\E v \in Values : PushCheck(v)) \/ PushCopy \/ PushPublish
  \/ PopEmpty \/ PopCheck \/ PopCopy \/ PopPublish
  \/ PropagateHead \/ PropagateTail \/ Release

Spec == Init /\ [][Next]_vars

\* Stores become visible in finite time (C11 7.17.3p16) and a call of push
\* or pop that has begun runs on: neither ever waits.  The consumer polls.
Fairness ==
  /\ WF_vars(PropagateTail) /\ WF_vars(PropagateHead)
  /\ WF_vars(PushCopy) /\ WF_vars(PushPublish)
  /\ WF_vars(PopCheck) /\ WF_vars(PopCopy) /\ WF_vars(PopPublish)

FairSpec == Spec /\ Fairness

-----------------------------------------------------------------------------
\* Both indices, and every view a thread has of them, are slot numbers of the
\* allocated array, the sentinel slot included.
TypeOK ==
  /\ head \in Index /\ tail \in Index
  /\ headView \in Index /\ tailView \in Index
  /\ items \in [Index -> Values \cup {NoValue}]
  /\ ppc \in {"idle", "copy", "publish"} /\ staged \in Values \cup {NoValue}
  /\ cpc \in {"idle", "copy", "publish"} /\ out \in Values \cup {NoValue}
  /\ live \in BOOLEAN
  /\ sent \in Seq(Values) /\ got \in Seq(Values \cup {NoValue})
  /\ seenPop \in Nat /\ seenPush \in Nat

\* What pop returns is what push stored: nothing is lost, duplicated,
\* reordered or read before it was written, although both sides act on stale
\* indices and the copies are not atomic.
Fifo ==
  /\ Len(got) <= Len(sent)
  /\ \A i \in 1 .. Len(got) : got[i] = sent[i]

\* The two memcpy calls never touch the same slot at the same time, which
\* would be a data race on plain memory.
NoDataRace == ~(ppc = "copy" /\ cpc = "copy" /\ head = tail)

\* The sentinel costs exactly one slot: a producer whose view of head is
\* current is refused exactly when Capacity elements are queued, and a
\* consumer whose view of tail is current exactly when none is.
RefusalsExact ==
  /\ seenPop = Len(got) =>
       ((Inc(tail) = headView) <=> (Len(sent) - Len(got) = Capacity))
  /\ seenPush = Len(sent) =>
       ((head = tailView) <=> (Len(sent) = Len(got)))

\* The ring implements the bounded FIFO; a push takes effect at the release
\* store of tail, a pop at the release store of head.
Fifo0 == INSTANCE BoundedFifo WITH closed <- FALSE
ImplementsFifo == Fifo0!FifoSpec

\* A published element is eventually popped by a polling consumer, unless
\* the queue is released first.
Delivered ==
  \A n \in 1 .. MaxPush : (Len(sent) >= n) ~> (Len(got) >= n \/ ~live)
=============================================================================
