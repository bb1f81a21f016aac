--------------------------- MODULE QueueSequences ---------------------------
(***************************************************************************)
(* What callers of the queue package may rely on: a queue is the sequence  *)
(* of its elements and a position in it.  A call with the queue's lock     *)
(* changes them at once and answers from them, whatever other threads do.  *)
(* empty_queue(), queue_length() and end_of_queue() take no lock: while    *)
(* another call is at work on the queue their answers say nothing of it.   *)
(*                                                                         *)
(* Elements are placed as the code places them, in PrioQueue, so what      *)
(* implements this module also implements what the model of the carver     *)
(* takes a queue to be.  It is not what prioque.h:98-104 promises, which   *)
(* has an element behind all of its priority: the code puts it before a    *)
(* head of its priority.                                                   *)
(*                                                                         *)
(* A call on one queue is a function from the queue to the queue after it  *)
(* and the answer; Next takes one of the outcomes.                         *)
(***************************************************************************)
EXTENDS PrioQueue

CONSTANTS Queues, Items, Priorities

Elements == [op : Priorities, info : Items]
Nowhere  == 0                  \* a position whose element is gone
Nothing  == <<"nothing", 0>>   \* the answer of a void function

VARIABLES
  content,    \* every queue: [seq, pos, loose, dup].  The position is
              \* Len(seq) + 1 at the end, and loose when the element
              \* before it is gone; dup: are duplicates allowed?
  busy,       \* the queues a call is at work on
  returned,   \* what the last call returned: <<what was asked, the answer>>
  over        \* exit(1), or a position was used that is no longer one

vars == <<content, busy, returned, over>>

Truth(b)   == IF b THEN 1 ELSE 0
Here(c)    == c.pos \in DOMAIN c.seq
At(c, s, p) == [c EXCEPT !.seq = s, !.pos = p, !.loose = FALSE]

(* Where x is first; 0 if it is nowhere.                                   *)
IndexOf(s, x) ==
  SelectInSeq(s, LAMBDA e : e.info = x)

(* An element goes in unless it is there and must not be there twice.      *)
With(s, e, twice) ==
  IF twice \/ IndexOf(s, e.info) = 0 THEN AddToQueue(s, e) ELSE s

Added(c, e) ==
  LET i == IndexOf(c.seq, e.info) IN
  At(c, With(c.seq, e, c.dup), IF c.dup \/ i = 0 THEN 1 ELSE i)

Found(c, x) ==
  LET i == IndexOf(c.seq, x) IN
  <<At(c, c.seq, IF i = 0 THEN 1 ELSE i), <<"found", Truth(i # 0)>>>>

(* A context deletes element i; a position there is nowhere from then on.  *)
Without(c, i) ==
  LET s == RemoveAt(c.seq, i)
      p == IF c.pos < i THEN c.pos ELSE IF c.pos = i THEN Nowhere ELSE c.pos - 1
  IN  [c EXCEPT !.seq = s, !.pos = p,
                !.loose = p \in DOMAIN s /\ (c.loose \/ i = p)]

Updated(c, i, x) == [c EXCEPT !.seq[i].info = x]

(* Calls at the position of the queue, and at a context that stands at     *)
(* element i.                                                              *)
AtPosition(c) ==
  LET e == c.seq[c.pos] IN
  {<<c, <<"info", e.info>>>>, <<c, <<"priority", e.op>>>>,
   <<At(c, c.seq, c.pos + 1), Nothing>>}
  \cup {<<Updated(c, c.pos, x), <<"updated", 0>>>> : x \in Items}
  \cup IF c.loose THEN {} ELSE {<<At(c, RemoveAt(c.seq, c.pos), c.pos), Nothing>>}

AtContext(c, i) ==
  {<<c, <<"local info", c.seq[i].info>>>>, <<c, <<"local priority", c.seq[i].op>>>>,
   <<Without(c, i), Nothing>>}
  \cup {<<Updated(c, i, x), Nothing>> : x \in Items}

OneQueue(c) ==
  {<<At(c, <<>>, 1), Nothing>>, <<At(c, c.seq, 1), Nothing>>, <<c, Nothing>>}
  \cup {<<Added(c, e), Nothing>> : e \in Elements}
  \cup {Found(c, x) : x \in Items}
  \cup (IF c.seq = <<>> THEN {} ELSE {<<At(c, Tail(c.seq), 1), <<"info", c.seq[1].info>>>>})
  \cup (IF Here(c) THEN AtPosition(c) ELSE {})
  \cup UNION {AtContext(c, i) : i \in DOMAIN c.seq}

(* The elements of d go into c one after the other.                        *)
Merged(c, d) ==
  LET after[i \in 0..Len(d.seq)] ==
        IF i = 0 THEN c.seq ELSE With(after[i - 1], d.seq[i], c.dup)
  IN  after[Len(d.seq)]

(* copy_queue(), merge_queues() and equal_queues(), with c before d.       *)
TwoQueues(c, d) ==
  {<<[At(c, d.seq, 1) EXCEPT !.dup = d.dup], Nothing>>,
   <<At(c, Merged(c, d), 1), Nothing>>,
   <<c, <<"equal", Truth(c.seq = d.seq)>>>>}

(* The answers of calls that take no lock: of a queue at rest, and of one  *)
(* that a call is at work on.                                              *)
Answers(c) == {<<"length", Len(c.seq)>>, <<"empty", Truth(c.seq = <<>>)>>,
               <<"end", Truth(c.pos = Len(c.seq) + 1)>>}
Glimpses   == ({"empty", "end"} \X {0, 1}) \cup ({"length"} \X Nat)

(* Queues in order; the position stays at an element that was refused.     *)
Init ==
  /\ \A q \in Queues :
       /\ InOrder(content[q].seq) /\ ~content[q].loose
       /\ content[q].pos \in DOMAIN content[q].seq \cup {1}
  /\ busy = {} /\ returned = Nothing /\ over = FALSE

(* A call takes and gives back locks, or ends the run.                     *)
Locking == /\ busy' \in SUBSET Queues /\ over' \in {over, TRUE}
           /\ UNCHANGED <<content, returned>>

(* A call works on the queues whose locks it has, and has its answer.      *)
Working ==
  /\ UNCHANGED over
  /\ \E before \in {content}, after \in {content'} : \E q, r \in Queues :
       /\ \A other \in Queues \ {q} : after[other] = before[other]
       /\ \E c \in {before[q]}, d \in {before[r]} :
            \/ /\ q = r /\ q \notin busy /\ busy' = busy \cup {q}
               /\ <<after[q], returned'>> \in OneQueue(c)
            \/ /\ q # r /\ q \in busy /\ r \in busy /\ busy' = busy
               /\ <<after[q], returned'>> \in TwoQueues(c, d)

(* A call without a lock.  What it does with a context is seen by nobody.  *)
Looking ==
  /\ UNCHANGED <<content, busy, over>>
  /\ \/ returned' \in {Nothing} \cup ({"local end"} \X {0, 1})
     \/ \E q \in Queues : returned' \in IF q \in busy THEN Glimpses ELSE Answers(content[q])

Next == Locking \/ Working \/ Looking

Spec == Init /\ [][Next]_vars
=============================================================================
