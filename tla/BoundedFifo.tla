---------------------------- MODULE BoundedFifo ----------------------------
(***************************************************************************)
(* What every message queue of std::sync promises its users, whatever it   *)
(* is built from: a queue that accepts at most Capacity undelivered        *)
(* messages, delivers them in the order it accepted them, each exactly     *)
(* once, and accepts nothing after it is closed (messages already queued   *)
(* stay receivable).  SpscQueue, LockFreeQueue and Channel are shown to    *)
(* implement it.  The two histories grow without bound here; the           *)
(* implementing modules bound them.                                        *)
(***************************************************************************)
EXTENDS Naturals, Sequences

CONSTANTS Values,      \* the messages
          Capacity     \* how many may be queued

VARIABLES sent,        \* every message accepted, in order
          got,         \* every message delivered, in order
          closed       \* no further message is accepted

fifoVars == <<sent, got, closed>>

FifoInit == sent = << >> /\ got = << >> /\ closed = FALSE

\* A send succeeds only when there is room and the queue is open.
Accept(v) ==
  /\ ~closed
  /\ Len(sent) - Len(got) < Capacity
  /\ sent' = Append(sent, v)
  /\ UNCHANGED <<got, closed>>

\* A receive takes the oldest undelivered message, open or closed.
Deliver ==
  /\ Len(got) < Len(sent)
  /\ got' = Append(got, sent[Len(got) + 1])
  /\ UNCHANGED <<sent, closed>>

CloseFifo == closed' = TRUE /\ UNCHANGED <<sent, got>>

FifoNext == (\E v \in Values : Accept(v)) \/ Deliver \/ CloseFifo

FifoSpec == FifoInit /\ [][FifoNext]_fifoVars
=============================================================================
