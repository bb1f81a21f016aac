------------------------------ MODULE PrioQueue ------------------------------
(***************************************************************************)
(* The priority queue of prioque.c as the carver uses it: a queue is the   *)
(* sequence of its elements, head first.  An element is a record with a    *)
(* field op, the priority under which carveImageFile() files a piece of    *)
(* work; lower numbers come first.  The queues of the carver are created   *)
(* with duplicates allowed, so nothing is ever refused.                    *)
(***************************************************************************)
EXTENDS Integers, Sequences, SequencesExt

(* The operations of scalpel.h, in the order the queues put them. *)
STARTCARVE     == 1
STOPCARVE      == 2
STARTSTOPCARVE == 3
CONTINUECARVE  == 4
Operations     == STARTCARVE..CONTINUECARVE

(* A bug in reach: always at the rear.                                     *)
PlaceAtRear(q, p) == Len(q) + 1

(***************************************************************************)
(* Where nolock_add_to_queue() links an element of priority p into q: the  *)
(* head is compared with >=, so an equal element goes IN FRONT of it; past *)
(* the head the walk goes on while p >= the next priority.                 *)
(***************************************************************************)
Place(q, p) ==
  IF q = <<>> \/ q[1].op >= p
    THEN 1
    ELSE CHOOSE i \in 2..(Len(q) + 1) :
           /\ \A j \in 2..(i - 1) : q[j].op <= p
           /\ i <= Len(q) => q[i].op > p

AddToQueue(q, e) == InsertAt(q, Place(q, e.op), e)

(* A queue is in the order its users rely on. *)
InOrder(q) == \A i, j \in DOMAIN q : i <= j => q[i].op <= q[j].op
=============================================================================
