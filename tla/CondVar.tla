------------------------------ MODULE CondVar ------------------------------
(***************************************************************************)
(* What the monitors of std::sync use of a pthread condition variable, as  *)
(* operators on the function pc that says where each thread is.            *)
(*                                                                         *)
(* The code between locking a mutex and unlocking it or waiting runs       *)
(* without interference from other critical sections, so the monitor       *)
(* modules make it one action.  pthread_cond_wait moves the thread to a    *)
(* waiting place and releases the mutex in one step; a signal moves one    *)
(* waiting thread, a broadcast all of them, to a woken place, from which   *)
(* they compete for the mutex again and repeat the test of their loop; a   *)
(* waiting thread may also wake up without being notified.                 *)
(***************************************************************************)

\* pthread_cond_signal: what pc may become when one thread waiting at `from',
\* if there is any, moves to `to'.
Signal(pc, from, to) ==
  LET waiting == {t \in DOMAIN pc : pc[t] = from}
  IN  IF waiting = {} THEN {pc} ELSE {[pc EXCEPT ![t] = to] : t \in waiting}

\* pthread_cond_broadcast.
Broadcast(pc, from, to) ==
  [t \in DOMAIN pc |-> IF pc[t] = from THEN to ELSE pc[t]]
=============================================================================
