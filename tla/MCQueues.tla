------------------------------ MODULE MCQueues ------------------------------
(***************************************************************************)
(* A small instance of QueuePackage for TLC: two threads, two queues, one  *)
(* of which refuses duplicates, both filled beforehand.                    *)
(***************************************************************************)
EXTENDS QueuePackage

CONSTANTS t1, t2, qa, qb

E(q, x, p) == [queue |-> q, info |-> x, priority |-> p]

MCTwice    == (qa :> FALSE) @@ (qb :> TRUE)
MCFillings == {<<E(qa, 2, 2), E(qb, 1, 2), E(qb, 1, 1)>>}
=============================================================================
