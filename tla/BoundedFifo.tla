----------------------------- MODULE BoundedFifo -----------------------------
(***************************************************************************)
(* What a channel promises: a bounded queue that accepts messages until it *)
(* is closed, hands each of them out once, in the order they were accepted, *)
(* and keeps what it holds when it is closed.                              *)
(***************************************************************************)
EXTENDS Naturals, Sequences

CONSTANTS
  Capacity,   (* most messages held                                        *)
  Messages    (* what can be sent                                          *)

VARIABLES
  queue,      (* accepted and not received, oldest first                   *)
  closed

vars == <<queue, closed>>

Init == queue = << >> /\ closed = FALSE

Send(m) ==
  /\ ~closed
  /\ Len(queue) < Capacity
  /\ queue' = Append(queue, m)
  /\ UNCHANGED closed

Receive ==
  /\ queue # << >>
  /\ queue' = Tail(queue)
  /\ UNCHANGED closed

Close ==
  /\ closed' = TRUE
  /\ UNCHANGED queue

Next == (\E m \in Messages : Send(m)) \/ Receive \/ Close

Spec == Init /\ [][Next]_vars

=============================================================================
