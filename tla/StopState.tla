----------------------------- MODULE StopState -----------------------------
(***************************************************************************)
(* The shared state of StopSource and StopToken (stdlib/src/std_sync.c,    *)
(* stdlib/std/stop_token.mla): a stop flag with two reference counts, one  *)
(* for all owners and one for the sources among them, kept by              *)
(* compare-exchange loops and freed by whoever drops the last reference.   *)
(*                                                                         *)
(* Each thread owns some source and token handles and uses only handles it *)
(* owns, closing each once, as the documentation of std::stop_token asks.  *)
(***************************************************************************)
EXTENDS Integers, Tally

CONSTANTS Threads,     \* the threads
          Creator,     \* the thread that calls StopSource::new
          MaxRefs      \* the largest count (UINT32_MAX in the code)

StopAssumption ==
  /\ IsFiniteSet(Threads) /\ Creator \in Threads /\ MaxRefs \in Nat \ {0}

VARIABLES
  references, sources, requested,   \* the fields of the shared state
  frees,                            \* how often it has been freed
  src, tok,                         \* handles each thread owns
  pc, cur                           \* the step of its operation; the count it loaded

svars == <<references, sources, requested>>
vars  == <<svars, frees, src, tok, pc, cur>>

\* StopSource::new.
Init ==
  /\ references = 1 /\ sources = 1 /\ requested = FALSE /\ frees = 0
  /\ src = [t \in Threads |-> IF t = Creator THEN 1 ELSE 0]
  /\ tok = [t \in Threads |-> 0]
  /\ pc = [t \in Threads |-> "idle"] /\ cur = [t \in Threads |-> 0]

Owned(t) == src[t] + tok[t]

-----------------------------------------------------------------------------
\* The load before a compare-exchange loop on `count', and the loop itself:
\* it moves to `next' when it succeeds; when it fails, which it may for no
\* reason (weak), it reloads.
Load(t, count, from, to) ==
  /\ pc[t] = from
  /\ cur' = [cur EXCEPT ![t] = count]
  /\ pc' = [pc EXCEPT ![t] = to]

CasFails(t, count) ==
  /\ cur' = [cur EXCEPT ![t] = count]
  /\ UNCHANGED <<svars, frees, src, tok, pc>>

\* token() of a source or clone() of a token: the thread owns a handle.
\* What it owns afterwards is decided by the place it goes on from.
RetainBegin(t) ==
  /\ \/ Owned(t) > 0 /\ Load(t, references, "idle", "retainToken")
     \/ src[t] > 0 /\ Load(t, references, "idle", "retainSource")
  /\ UNCHANGED <<svars, frees, src, tok>>

\* stop_retain: no reference to be had.
RetainRefused(t) ==
  /\ pc[t] \in {"retainToken", "retainSource"}
  /\ cur[t] = 0 \/ cur[t] = MaxRefs
  /\ pc' = [pc EXCEPT ![t] = "idle"]
  /\ UNCHANGED <<svars, frees, src, tok, cur>>

\* Mutant: a load and a store instead of the compare-exchange.
RetainCasBlind(t) ==
  /\ pc[t] \in {"retainToken", "retainSource"}
  /\ cur[t] \notin {0, MaxRefs}
  /\ references' = cur[t] + 1
  /\ \/ /\ pc[t] = "retainToken"
        /\ tok' = [tok EXCEPT ![t] = @ + 1]
        /\ pc' = [pc EXCEPT ![t] = "idle"] /\ UNCHANGED cur
     \/ /\ pc[t] = "retainSource"
        /\ Load(t, sources, "retainSource", "countSource") /\ UNCHANGED tok
  /\ UNCHANGED <<sources, requested, frees, src>>

\* Mutant: cloning a source only retains, as cloning a token does.
RetainCasUncounted(t) ==
  /\ pc[t] \in {"retainToken", "retainSource"}
  /\ cur[t] \notin {0, MaxRefs}
  /\ \/ /\ cur[t] = references
        /\ references' = references + 1
        /\ \/ pc[t] = "retainToken" /\ tok' = [tok EXCEPT ![t] = @ + 1] /\ UNCHANGED src
           \/ pc[t] = "retainSource" /\ src' = [src EXCEPT ![t] = @ + 1] /\ UNCHANGED tok
        /\ pc' = [pc EXCEPT ![t] = "idle"]
        /\ UNCHANGED <<sources, requested, frees, cur>>
     \/ CasFails(t, references)

\* stop_retain: the reference is taken.  A token is now owned; a source has
\* still to be counted as one.
RetainCas(t) ==
  /\ pc[t] \in {"retainToken", "retainSource"}
  /\ cur[t] \notin {0, MaxRefs}
  /\ \/ /\ cur[t] = references
        /\ references' = references + 1
        /\ \/ /\ pc[t] = "retainToken"
              /\ tok' = [tok EXCEPT ![t] = @ + 1]
              /\ pc' = [pc EXCEPT ![t] = "idle"] /\ UNCHANGED cur
           \/ /\ pc[t] = "retainSource"
              /\ Load(t, sources, "retainSource", "countSource") /\ UNCHANGED tok
        /\ UNCHANGED <<sources, requested, frees, src>>
     \/ CasFails(t, references)

\* Whether the second loop of stop_source_retain would give up.
CountRefused(t) == pc[t] = "countSource" /\ cur[t] \in {0, MaxRefs}

\* stop_source_retain: the new source is counted as one.
CountSourceCas(t) ==
  /\ pc[t] = "countSource" /\ ~CountRefused(t)
  /\ \/ /\ cur[t] = sources
        /\ sources' = sources + 1
        /\ src' = [src EXCEPT ![t] = @ + 1]
        /\ pc' = [pc EXCEPT ![t] = "idle"]
        /\ UNCHANGED <<references, requested, frees, tok, cur>>
     \/ CasFails(t, sources)

\* close() of a token: the handle is given up and its reference released.
CloseToken(t) ==
  /\ tok[t] > 0
  /\ Load(t, references, "idle", "release")
  /\ tok' = [tok EXCEPT ![t] = @ - 1]
  /\ UNCHANGED <<svars, frees, src>>

\* close() of a source: first it stops being counted as one.
CloseSource(t) ==
  /\ src[t] > 0
  /\ Load(t, sources, "idle", "uncountSource")
  /\ src' = [src EXCEPT ![t] = @ - 1]
  /\ UNCHANGED <<svars, frees, tok>>

UncountSourceCas(t) ==
  /\ pc[t] = "uncountSource"
  /\ cur[t] > 0
  /\ \/ /\ cur[t] = sources
        /\ sources' = sources - 1
        /\ Load(t, references, "uncountSource", "release")
        /\ UNCHANGED <<references, requested, frees, src, tok>>
     \/ CasFails(t, sources)

\* stop_release: whoever takes the count from 1 to 0 frees the state.
ReleaseCas(t) ==
  /\ pc[t] = "release"
  /\ cur[t] > 0
  /\ \/ /\ cur[t] = references
        /\ references' = references - 1
        /\ pc' = [pc EXCEPT ![t] = IF cur[t] = 1 THEN "free" ELSE "idle"]
        /\ UNCHANGED <<sources, requested, frees, src, tok, cur>>
     \/ CasFails(t, references)

Free(t) ==
  /\ pc[t] = "free"
  /\ frees' = frees + 1
  /\ pc' = [pc EXCEPT ![t] = "idle"]
  /\ UNCHANGED <<svars, src, tok, cur>>

\* request_stop(): an atomic exchange of the flag.
RequestStop(t) ==
  /\ pc[t] = "idle" /\ src[t] > 0
  /\ requested' = TRUE
  /\ UNCHANGED <<references, sources, frees, src, tok, pc, cur>>

\* A token, or a source, is handed to another thread, which closes it.
TransferToken(t, u) ==
  /\ pc[t] = "idle" /\ tok[t] > 0 /\ t # u
  /\ tok' = [tok EXCEPT ![t] = @ - 1, ![u] = @ + 1]
  /\ UNCHANGED <<svars, frees, src, pc, cur>>

TransferSource(t, u) ==
  /\ pc[t] = "idle" /\ src[t] > 0 /\ t # u
  /\ src' = [src EXCEPT ![t] = @ - 1, ![u] = @ + 1]
  /\ UNCHANGED <<svars, frees, tok, pc, cur>>

Step(t) ==
  \/ RetainRefused(t) \/ RetainCas(t) \/ CountSourceCas(t)
  \/ UncountSourceCas(t) \/ ReleaseCas(t) \/ Free(t)

\* What a thread may do with the handles it owns.
Use(t) ==
  RetainBegin(t) \/ CloseToken(t) \/ CloseSource(t) \/ RequestStop(t) \/ Step(t)

-----------------------------------------------------------------------------
\* The state is not touched after it has been freed: when it is freed no
\* thread is inside an operation and none owns a handle it could use.
NoUseAfterFree ==
  frees > 0 => /\ frees = 1
               /\ \A t \in Threads : pc[t] = "idle" /\ Owned(t) = 0

\* Between operations the counts are exact, and the state has been freed
\* exactly when the last handle is gone: nothing leaks.
CountsExact ==
  (\A t \in Threads : pc[t] = "idle") =>
    /\ references = Total([t \in Threads |-> Owned(t)])
    /\ sources = Total(src)
    /\ (frees = 1) = (references = 0)

\* A clone of a source never fails half way: the path of stop_source_retain
\* that gives a reference back is not reached, since the caller's own source
\* keeps the count above 0 and each source has a reference of its own.
CloneIsWhole == \A t \in Threads : ~CountRefused(t)

\* Handles and counts agree through every interleaving of the loops.
HandlesExact == NoUseAfterFree /\ CountsExact /\ CloneIsWhole

\* stop_possible() of a token, once false, is final: no source comes back, and
\* a stop that has not been requested never will be.
StopPossible == sources # 0
ImpossibleIsFinal ==
  [][~StopPossible => ~StopPossible' /\ requested' = requested]_vars
=============================================================================
