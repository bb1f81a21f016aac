------------------------------ MODULE CarveProofs ------------------------------
(***************************************************************************)
(* Theorems about CarveImage.  First its tables: its type invariant, that  *)
(* the work of every job is filed where the second pass looks for it, that *)
(* the open files are counted right and kept within the limit, and that    *)
(* the files planned are those the search types and the options ask for.   *)
(* Then what it writes and promises: the carved files hold the bytes of    *)
(* the image, a file is recorded in the audit log once, when it is whole,  *)
(* and never touched again, the pass over an image that is read to its end *)
(* carves every job, the subdirectories hold as many files as they may,    *)
(* and what is carved is what the abstract Extraction allows; for every    *)
(* value of the constants.  The facts about insertion into a priority      *)
(* queue come first.                                                       *)
(***************************************************************************)
EXTENDS CarveRefinement, SequenceTheorems, FiniteSetTheorems,
        WellFoundedInduction, TLAPS

LineType == [length : 0..(Word - 1), endlength : Nat, searchtype : SearchTypes]

(* The maximum size of a type leads from start on, and not past Word.      *)
Proper(line, start) == line.length # 0 /\ start + line.length <= Word

-----------------------------------------------------------------------------
(* Two facts about the natural numbers.                                    *)

(* A set of naturals that is not empty has a least element.                *)
LEMMA LeastExists ==
  ASSUME NEW S \in SUBSET Nat, S # {}
  PROVE  \E m \in S : \A x \in S : m <= x
<1>1. IsWellFoundedOn(OpToRel(<, Nat), Nat)
  BY NatLessThanWellFounded
<1>2. PICK m \in S : \A x \in S : <<x, m>> \notin OpToRel(<, Nat)
  BY <1>1, WFMin
<1>3. \A x \in S : ~(x < m)
  BY <1>2 DEF OpToRel
<1> QED
  BY <1>3

(* A set of naturals with an upper bound has a greatest element.           *)
LEMMA GreatestExists ==
  ASSUME NEW S \in SUBSET Nat, S # {}, NEW n \in Nat, \A x \in S : x <= n
  PROVE  \E m \in S : \A x \in S : x <= m
<1> DEFINE T == {n - x : x \in S}
<1>1. T \in SUBSET Nat /\ T # {}
  <2>1. \A x \in S : x \in Nat /\ n - x \in Nat
    OBVIOUS
  <2>2. PICK x \in S : TRUE
    OBVIOUS
  <2>3. n - x \in T
    OBVIOUS
  <2> QED
    BY <2>1, <2>3
<1>2. PICK d \in T : \A y \in T : d <= y
  BY <1>1, LeastExists
<1>3. PICK m \in S : d = n - m
  BY <1>2
<1>4. ASSUME NEW x \in S PROVE x <= m
  <2>1. n - x \in T
    OBVIOUS
  <2> QED
    BY <1>2, <1>3, <2>1
<1> QED
  BY <1>4

-----------------------------------------------------------------------------
(* Insertion into a priority queue.                                        *)

(* nolock_add_to_queue() finds a place inside the queue or right behind    *)
(* it, with nothing of lower rank in front and nothing of higher rank      *)
(* behind.                                                                 *)
LEMMA PlaceInRange ==
  ASSUME NEW S, \A x \in S : x.op \in Int, NEW q \in Seq(S), NEW p \in Int
  PROVE  /\ Place(q, p) \in 1..(Len(q) + 1)
         /\ q = <<>> \/ q[1].op >= p => Place(q, p) = 1
         /\ ~(q = <<>> \/ q[1].op >= p) =>
              /\ \A j \in 1..(Place(q, p) - 1) : q[j].op <= p
              /\ Place(q, p) <= Len(q) => q[Place(q, p)].op > p
<1>0. Len(q) \in Nat /\ \A i \in 1..Len(q) : q[i] \in S /\ q[i].op \in Int
  BY ElementOfSeq
<1>1. CASE q = <<>> \/ q[1].op >= p
  BY <1>0, <1>1 DEF Place
<1>2. CASE ~(q = <<>> \/ q[1].op >= p)
  <2>0. Len(q) >= 1
    BY <1>0, <1>2, EmptySeq
  <2> DEFINE P(i) == /\ \A j \in 2..(i - 1) : q[j].op <= p
                     /\ i <= Len(q) => q[i].op > p
             G == {i \in 2..Len(q) : q[i].op > p}
  <2>1. \E i \in 2..(Len(q) + 1) : P(i)
    <3>1. CASE G = {}
      <4>1. P(Len(q) + 1)
        BY <1>0, <3>1
      <4>2. Len(q) + 1 \in 2..(Len(q) + 1)
        BY <1>0, <2>0
      <4> QED
        BY <4>1, <4>2
    <3>2. CASE G # {}
      <4>0. G \in SUBSET Nat
        BY <1>0
      <4>1. PICK m \in G : \A x \in G : m <= x
        BY <4>0, <3>2, LeastExists
      <4>2. P(m)
        <5>1. ASSUME NEW j \in 2..(m - 1) PROVE q[j].op <= p
          <6>1. j \notin G
            BY <1>0, <4>1
          <6> QED
            BY <6>1, <1>0
        <5> QED
          BY <5>1, <1>0
      <4> QED
        BY <4>2, <1>0
    <3> QED
      BY <3>1, <3>2
  <2>2. Place(q, p) \in 2..(Len(q) + 1) /\ P(Place(q, p))
    <3>1. Place(q, p) = CHOOSE i \in 2..(Len(q) + 1) : P(i)
      BY <1>2 DEF Place
    <3> HIDE DEF P
    <3> QED
      BY <2>1, <3>1
  <2>3. q[1].op <= p
    BY <1>0, <1>2, <2>0
  <2> QED
    BY <2>2, <2>3, <1>0, <1>2
<1> QED
  BY <1>1, <1>2

(* What add_to_queue() leaves: the new element at its place, the others    *)
(* before and behind it as they were.                                      *)
LEMMA AddPoints ==
  ASSUME NEW S, \A x \in S : x.op \in Int, NEW q \in Seq(S), NEW e \in S
  PROVE  /\ AddToQueue(q, e) \in Seq(S)
         /\ Len(AddToQueue(q, e)) = Len(q) + 1
         /\ \A j \in 1..(Len(q) + 1) :
              AddToQueue(q, e)[j] = IF j < Place(q, e.op) THEN q[j]
                                    ELSE IF j = Place(q, e.op) THEN e
                                    ELSE q[j - 1]
<1> DEFINE i == Place(q, e.op)
           a == SubSeq(q, 1, i - 1)
           b == SubSeq(q, i, Len(q))
<1>0. Len(q) \in Nat /\ \A j \in 1..Len(q) : q[j] \in S
  BY ElementOfSeq
<1>1. i \in 1..(Len(q) + 1)
  BY PlaceInRange
<1>2. AddToQueue(q, e) = a \o <<e>> \o b
  BY DEF AddToQueue, InsertAt
<1> HIDE DEF i
<1>3. /\ a \in Seq(S) /\ Len(a) = i - 1
      /\ \A j \in 1..(i - 1) : a[j] = q[j]
  <2>1. \A j \in 1..(i - 1) : q[j] \in S
    BY <1>0, <1>1
  <2>2. /\ a \in Seq(S)
        /\ Len(a) = IF 1 <= i - 1 THEN (i - 1) - 1 + 1 ELSE 0
        /\ \A j \in 1..((i - 1) - 1 + 1) : a[j] = q[1 + j - 1]
    BY <2>1, <1>1, SubSeqProperties
  <2> HIDE DEF a
  <2> QED
    BY <2>2, <1>1
<1>4. /\ b \in Seq(S) /\ Len(b) = Len(q) - i + 1
      /\ \A j \in 1..(Len(q) - i + 1) : b[j] = q[i + j - 1]
  <2>1. \A j \in i..Len(q) : q[j] \in S
    BY <1>0, <1>1
  <2>2. /\ b \in Seq(S)
        /\ Len(b) = IF i <= Len(q) THEN Len(q) - i + 1 ELSE 0
        /\ \A j \in 1..(Len(q) - i + 1) : b[j] = q[i + j - 1]
    BY <1>0, <2>1, <1>1, SubSeqProperties
  <2> HIDE DEF b
  <2> QED
    BY <1>0, <2>2, <1>1
<1>5. <<e>> \in Seq(S) /\ Len(<<e>>) = 1 /\ <<e>>[1] = e
  OBVIOUS
<1> HIDE DEF a, b
<1> DEFINE c == a \o <<e>>
<1>6. /\ c \in Seq(S) /\ Len(c) = i
      /\ \A j \in 1..i : c[j] = IF j < i THEN q[j] ELSE e
  <2>1. /\ c \in Seq(S) /\ Len(c) = Len(a) + Len(<<e>>)
        /\ \A j \in 1..(Len(a) + Len(<<e>>)) :
             c[j] = IF j <= Len(a) THEN a[j] ELSE <<e>>[j - Len(a)]
    BY <1>3, <1>5, ConcatProperties
  <2> HIDE DEF c
  <2> QED
    BY <2>1, <1>1, <1>3, <1>5
<1> HIDE DEF c
<1>7. /\ c \o b \in Seq(S) /\ Len(c \o b) = Len(q) + 1
      /\ \A j \in 1..(Len(q) + 1) : (c \o b)[j] = IF j <= i THEN c[j] ELSE b[j - i]
  <2> DEFINE d == c \o b
  <2>1. /\ d \in Seq(S) /\ Len(d) = Len(c) + Len(b)
        /\ \A j \in 1..(Len(c) + Len(b)) :
             d[j] = IF j <= Len(c) THEN c[j] ELSE b[j - Len(c)]
    BY <1>4, <1>6, ConcatProperties
  <2> HIDE DEF d
  <2>2. Len(c) + Len(b) = Len(q) + 1
    BY <1>0, <1>1, <1>4, <1>6
  <2>3. /\ d \in Seq(S) /\ Len(d) = Len(q) + 1
        /\ \A j \in 1..(Len(q) + 1) : d[j] = IF j <= i THEN c[j] ELSE b[j - i]
    BY <2>1, <2>2, <1>6
  <2> QED
    BY <2>3 DEF d
<1>8. ASSUME NEW j \in 1..(Len(q) + 1), j > i PROVE b[j - i] = q[j - 1]
  <2>1. j - i \in 1..(Len(q) - i + 1) /\ i + (j - i) - 1 = j - 1
    BY <1>0, <1>1, <1>8
  <2> QED
    BY <1>4, <2>1
<1>9. AddToQueue(q, e) = c \o b
  BY <1>2 DEF c
<1>10. ASSUME NEW j \in 1..(Len(q) + 1)
       PROVE  AddToQueue(q, e)[j] = IF j < i THEN q[j] ELSE IF j = i THEN e ELSE q[j - 1]
  BY <1>0, <1>1, <1>6, <1>7, <1>8, <1>9
<1> QED
  BY <1>7, <1>9, <1>10 DEF i

(* The same with the domain of the new queue.                              *)
LEMMA AddedPoints ==
  ASSUME NEW S, \A x \in S : x.op \in Int, NEW q \in Seq(S), NEW e \in S
  PROVE  /\ DOMAIN AddToQueue(q, e) = 1..(Len(q) + 1)
         /\ Len(AddToQueue(q, e)) = Len(q) + 1
         /\ \A j \in 1..(Len(q) + 1) :
              AddToQueue(q, e)[j] = IF j < Place(q, e.op) THEN q[j]
                                    ELSE IF j = Place(q, e.op) THEN e
                                    ELSE q[j - 1]
<1>1. AddToQueue(q, e) \in Seq(S) /\ Len(AddToQueue(q, e)) = Len(q) + 1
  BY AddPoints
<1>2. DOMAIN AddToQueue(q, e) = 1..(Len(q) + 1)
  BY <1>1, LenProperties
<1> QED
  BY <1>1, <1>2, AddPoints

(* add_to_queue() keeps a queue in the order its users rely on, whatever    *)
(* is added: the starts of the files before their ends, and both before    *)
(* the pieces that fill a whole buffer (prioque.c:134-153).                *)
THEOREM AddKeepsOrder ==
  ASSUME NEW S, \A x \in S : x.op \in Int, NEW q \in Seq(S), NEW e \in S,
         InOrder(q)
  PROVE  InOrder(AddToQueue(q, e))
<1> DEFINE r == AddToQueue(q, e)
           i == Place(q, e.op)
<1>0. Len(q) \in Nat /\ DOMAIN q = 1..Len(q) /\ \A j \in 1..Len(q) : q[j].op \in Int
  BY ElementOfSeq
<1>1. /\ Len(r) = Len(q) + 1 /\ DOMAIN r = 1..(Len(q) + 1)
      /\ \A j \in 1..(Len(q) + 1) :
           r[j] = IF j < i THEN q[j] ELSE IF j = i THEN e ELSE q[j - 1]
  BY AddedPoints
<1>2. /\ i \in 1..(Len(q) + 1)
      /\ q = <<>> \/ q[1].op >= e.op => i = 1
      /\ ~(q = <<>> \/ q[1].op >= e.op) =>
           /\ \A j \in 1..(i - 1) : q[j].op <= e.op
           /\ i <= Len(q) => q[i].op > e.op
  <2>1. e.op \in Int
    OBVIOUS
  <2> QED
    BY <2>1, PlaceInRange
<1> HIDE DEF i
<1>3. \A j \in 1..(i - 1) : q[j].op <= e.op
  <2>1. CASE i = 1
    BY <2>1
  <2>2. CASE i # 1
    BY <1>2, <2>2
  <2> QED
    BY <2>1, <2>2
<1>4. i <= Len(q) => q[i].op >= e.op
  <2>1. CASE q = <<>>
    BY <1>0, <1>2, <2>1, EmptySeq
  <2>2. CASE q # <<>> /\ q[1].op >= e.op
    BY <1>2, <2>2
  <2>3. CASE ~(q = <<>> \/ q[1].op >= e.op)
    BY <1>0, <1>2, <2>3
  <2> QED
    BY <2>1, <2>2, <2>3
<1>5. \A j, k \in 1..Len(q) : j <= k => q[j].op <= q[k].op
  BY <1>0 DEF InOrder
<1> HIDE DEF r
<1>6. ASSUME NEW j \in 1..(Len(q) + 1), NEW k \in 1..(Len(q) + 1), j <= k
      PROVE  r[j].op <= r[k].op
  <2>1. e.op \in Int
    OBVIOUS
  <2>2. CASE k < i
    BY <1>0, <1>1, <1>2, <1>5, <1>6, <2>2
  <2>3. CASE k = i
    BY <1>0, <1>1, <1>2, <1>3, <1>6, <2>1, <2>3
  <2>4. CASE k > i /\ j < i
    BY <1>0, <1>1, <1>2, <1>5, <1>6, <2>4
  <2>5. CASE k > i /\ j = i
    <3>1. k - 1 \in 1..Len(q) /\ i \in 1..Len(q) /\ i <= k - 1
      BY <1>0, <1>2, <1>6, <2>5
    <3>2. q[i].op <= q[k - 1].op
      BY <3>1, <1>5
    <3> QED
      BY <1>0, <1>1, <1>4, <1>6, <2>1, <2>5, <3>1, <3>2
  <2>6. CASE k > i /\ j > i
    <3>1. k - 1 \in 1..Len(q) /\ j - 1 \in 1..Len(q) /\ j - 1 <= k - 1
      BY <1>0, <1>2, <1>6, <2>6
    <3>2. q[j - 1].op <= q[k - 1].op
      BY <3>1, <1>5
    <3>3. r[j] = q[j - 1] /\ r[k] = q[k - 1]
      BY <1>1, <1>2, <2>6
    <3> QED
      BY <3>2, <3>3
  <2> QED
    BY <1>0, <1>2, <2>2, <2>3, <2>4, <2>5, <2>6
<1> QED
  BY <1>1, <1>6 DEF InOrder, r

(* add_to_queue() adds the element and loses none.                         *)
LEMMA AddRange ==
  ASSUME NEW S, \A x \in S : x.op \in Int, NEW q \in Seq(S), NEW e \in S
  PROVE  Range(AddToQueue(q, e)) = Range(q) \cup {e}
<1> DEFINE r == AddToQueue(q, e)
           i == Place(q, e.op)
<1>0. Len(q) \in Nat /\ DOMAIN q = 1..Len(q)
  BY LenProperties
<1>1. /\ DOMAIN r = 1..(Len(q) + 1)
      /\ \A j \in 1..(Len(q) + 1) :
           r[j] = IF j < i THEN q[j] ELSE IF j = i THEN e ELSE q[j - 1]
  BY AddedPoints
<1>2. i \in 1..(Len(q) + 1)
  BY PlaceInRange
<1> HIDE DEF r, i
<1>3. ASSUME NEW j \in DOMAIN r PROVE r[j] \in Range(q) \cup {e}
  <2>1. CASE j < i
    BY <1>0, <1>1, <1>2, <1>3, <2>1 DEF Range
  <2>2. CASE j = i
    BY <1>1, <1>3, <2>2
  <2>3. CASE j > i
    <3>1. j - 1 \in DOMAIN q /\ r[j] = q[j - 1]
      BY <1>0, <1>1, <1>2, <1>3, <2>3
    <3> QED
      BY <3>1 DEF Range
  <2> QED
    BY <1>0, <1>1, <1>2, <1>3, <2>1, <2>2, <2>3
<1>4. ASSUME NEW m \in DOMAIN q PROVE q[m] \in Range(r)
  <2>1. CASE m < i
    <3>1. m \in DOMAIN r /\ r[m] = q[m]
      BY <1>0, <1>1, <1>4, <2>1
    <3> QED
      BY <3>1 DEF Range
  <2>2. CASE m >= i
    <3>1. m + 1 \in DOMAIN r /\ r[m + 1] = q[m]
      BY <1>0, <1>1, <1>2, <1>4, <2>2
    <3> QED
      BY <3>1 DEF Range
  <2> QED
    BY <1>0, <1>2, <2>1, <2>2
<1>5. e \in Range(r)
  <2>1. i \in DOMAIN r /\ r[i] = e
    BY <1>1, <1>2
  <2> QED
    BY <2>1 DEF Range
<1> QED
  BY <1>3, <1>4, <1>5 DEF r, Range

-----------------------------------------------------------------------------
(* The operators of CarveImage.                                            *)

(* A block index is a natural number.                                      *)
LEMMA BlockType ==
  ASSUME NEW p \in Nat
  PROVE  Block(p) \in Nat
BY SizeAssumption DEF Block

(* The least of a set of naturals belongs to it.                           *)
LEMMA LeastType ==
  ASSUME NEW S \in SUBSET Nat, S # {}
  PROVE  Least(S) \in S /\ \A x \in S : Least(S) <= x
<1>1. \E m \in S : \A x \in S : m <= x
  BY LeastExists
<1> QED
  BY <1>1 DEF Least

(* The greatest of a bounded set of naturals belongs to it.                *)
LEMMA GreatestType ==
  ASSUME NEW S \in SUBSET Nat, S # {}, NEW n \in Nat, \A x \in S : x <= n
  PROVE  Greatest(S) \in S /\ \A x \in S : x <= Greatest(S)
<1>1. \E m \in S : \A x \in S : x <= m
  BY GreatestExists
<1> QED
  BY <1>1 DEF Greatest

(* The search for the first footer past a header ends at a footer past it, *)
(* or behind the last one (dig.c:711-718).                                 *)
LEMMA FirstPastType ==
  ASSUME NEW foot \in Seq(Nat), NEW start \in Nat, NEW prev \in Nat \ {0}
  PROVE  /\ FirstPast(foot, start, prev) \in Nat \ {0}
         /\ FirstPast(foot, start, prev) <= Len(foot) =>
              /\ foot[FirstPast(foot, start, prev)] \in Nat
              /\ foot[FirstPast(foot, start, prev)] > start
         /\ FirstPast(foot, start, prev) <= Len(foot) + 1
<1> DEFINE past == {j \in prev..Len(foot) : foot[j] > start}
<1>0. Len(foot) \in Nat /\ \A j \in 1..Len(foot) : foot[j] \in Nat
  BY ElementOfSeq
<1>1. past \in SUBSET Nat
  BY <1>0
<1>2. CASE past = {}
  BY <1>0, <1>2 DEF FirstPast
<1>3. CASE past # {}
  <2>1. Least(past) \in past
    BY <1>1, <1>3, LeastType
  <2>2. FirstPast(foot, start, prev) = Least(past)
    BY <1>3 DEF FirstPast
  <2>3. /\ Least(past) \in prev..Len(foot) /\ Least(past) \in 1..Len(foot)
        /\ foot[Least(past)] > start
    BY <1>0, <2>1
  <2> QED
    BY <1>0, <2>2, <2>3
<1> QED
  BY <1>2, <1>3

(* The end that a type's maximum size gives is an offset, and with a       *)
(* proper length it is not in front of the file's begin.                   *)
LEMMA MaxStopType ==
  ASSUME NEW line \in LineType, NEW start \in Nat
  PROVE  /\ MaxStop(line, start) \in Nat
         /\ Proper(line, start) => MaxStop(line, start) >= start
<1>1. line.length \in Nat /\ Word \in Nat \ {0}
  BY SizeAssumption DEF LineType
<1>2. PICK x \in Int : x = start + line.length - 1
  BY <1>1
<1>3. x % Word \in 0..(Word - 1)
  BY <1>1
<1>4. x \in 0..(Word - 1) => x % Word = x
  BY <1>1
<1>5. Proper(line, start) => x \in 0..(Word - 1) /\ x >= start
  BY <1>1, <1>2 DEF Proper
<1> QED
  BY <1>1, <1>2, <1>3, <1>4, <1>5 DEF MaxStop

(* The planner's choice of an end is an offset, whatever the search type   *)
(* (dig.c:686-788): no end falls below 0, and with a proper length no file *)
(* ends before it begins.                                                  *)
LEMMA ForwardType ==
  ASSUME NEW line \in LineType, line.endlength # 0, NEW foot \in Seq(Nat),
         NEW start \in Nat, NEW prev \in Nat \ {0}, NEW missing \in BOOLEAN
  PROVE  LET c == ForwardChoice(line, foot, start, prev, missing)
         IN  /\ c.stop \in Nat /\ c.chopped \in BOOLEAN /\ c.prev \in Nat \ {0}
             /\ c.stop # 0 /\ Proper(line, start) => c.stop >= start
<1> DEFINE first == FirstPast(foot, start, prev)
           next  == larger(prev, first - 1)
           stop  == FooterStop(line, foot[first])
<1>0. Len(foot) \in Nat
  BY ElementOfSeq
<1>1. first \in Nat \ {0} /\ (first <= Len(foot) => foot[first] \in Nat /\ foot[first] > start)
  BY FirstPastType
<1>2. line.length \in Nat /\ line.endlength \in Nat \ {0}
  BY SizeAssumption DEF LineType
<1>3. /\ MaxStop(line, start) \in Nat
      /\ Proper(line, start) => MaxStop(line, start) >= start
  BY MaxStopType
<1> HIDE DEF first
<1>4. next \in Nat \ {0}
  BY <1>1 DEF larger
<1>5. first <= Len(foot) => stop \in Nat /\ stop >= start
  BY <1>1, <1>2 DEF FooterStop
<1> HIDE DEF next, stop
<1>6. CASE first > Len(foot)
  BY <1>3, <1>4, <1>6 DEF ForwardChoice, Choice, first, next
<1>7. CASE ~(first > Len(foot))
  <2>1. stop \in Nat /\ stop >= start
    BY <1>0, <1>1, <1>5, <1>7
  <2> QED
    BY <1>3, <1>4, <1>7, <2>1 DEF ForwardChoice, Choice, first, next, stop
<1> QED
  BY <1>6, <1>7

(* A REVERSE type gets an end behind its start, or none.                   *)
LEMMA ReverseType ==
  ASSUME NEW line \in LineType, line.endlength # 0, NEW foot \in Seq(Nat),
         NEW start \in Nat, NEW prev \in Nat \ {0}
  PROVE  LET c == ReverseChoice(line, foot, start, prev)
         IN  /\ c.stop \in Nat /\ c.chopped \in BOOLEAN /\ c.prev \in Nat \ {0}
             /\ c.stop # 0 => c.stop >= start
<1> DEFINE far    == {j \in prev..Len(foot) : foot[j] > start + line.length}
           halt   == IF far = {} THEN Len(foot) + 1 ELSE Least(far)
           match  == {j \in prev..(halt - 1) : foot[j] > start}
           passed == {j \in prev..(halt - 1) : foot[j] <= start}
<1>0. Len(foot) \in Nat /\ \A j \in 1..Len(foot) : foot[j] \in Nat
  BY ElementOfSeq
<1>1. halt \in Nat /\ halt <= Len(foot) + 1
  <2>1. far \in SUBSET Nat /\ \A j \in far : j <= Len(foot)
    BY <1>0
  <2>2. CASE far = {}
    BY <1>0, <2>2
  <2>3. CASE far # {}
    <3>1. Least(far) \in far
      BY <2>1, <2>3, LeastType
    <3> QED
      BY <1>0, <2>1, <2>3, <3>1
  <2> QED
    BY <2>2, <2>3
<1> HIDE DEF halt
<1>2. /\ match \in SUBSET (1..Len(foot)) /\ passed \in SUBSET (1..Len(foot))
      /\ \A j \in match : foot[j] > start
  BY <1>0, <1>1
<1> HIDE DEF match, passed
<1>3. match # {} => Greatest(match) \in 1..Len(foot) /\ foot[Greatest(match)] > start
  <2>1. match \in SUBSET Nat /\ \A x \in match : x <= Len(foot)
    BY <1>0, <1>2
  <2> QED
    BY <1>2, <1>0, <2>1, GreatestType
<1>4. passed # {} => Greatest(passed) \in 1..Len(foot)
  <2>1. passed \in SUBSET Nat /\ \A x \in passed : x <= Len(foot)
    BY <1>0, <1>2
  <2> QED
    BY <1>2, <1>0, <2>1, GreatestType
<1>5. line.endlength \in Nat \ {0}
  BY DEF LineType
<1>6. match # {} => /\ foot[Greatest(match)] + line.endlength - 1 \in Nat
                    /\ foot[Greatest(match)] + line.endlength - 1 >= start
  BY <1>0, <1>3, <1>5
<1>7. ReverseChoice(line, foot, start, prev)
        = Choice(IF match = {} THEN 0 ELSE foot[Greatest(match)] + line.endlength - 1,
                 FALSE, IF passed = {} THEN prev ELSE Greatest(passed))
  BY DEF ReverseChoice, match, passed, halt
<1> QED
  BY <1>0, <1>4, <1>6, <1>7 DEF Choice

(* So does every type, whichever way its end is chosen.                    *)
LEMMA ChooseType ==
  ASSUME NEW line \in LineType, NEW foot \in Seq(Nat), NEW start \in Nat,
         NEW prev \in Nat \ {0}, NEW missing \in BOOLEAN
  PROVE  LET c == Choose(line, foot, start, prev, missing)
         IN  /\ c.stop \in Nat /\ c.chopped \in BOOLEAN /\ c.prev \in Nat \ {0}
             /\ c.stop # 0 /\ Proper(line, start) => c.stop >= start
<1>1. CASE line.endlength = 0
  <2>1. /\ MaxStop(line, start) \in Nat
        /\ Proper(line, start) => MaxStop(line, start) >= start
    BY MaxStopType
  <2> QED
    BY <1>1, <2>1 DEF Choose, Choice
<1>2. CASE line.endlength # 0 /\ line.searchtype = "REVERSE"
  BY <1>2, ReverseType DEF Choose
<1>3. CASE line.endlength # 0 /\ line.searchtype # "REVERSE"
  BY <1>3, ForwardType DEF Choose
<1> QED
  BY <1>1, <1>2, <1>3

(* Filing a job changes nothing but what is in the queues: they stay        *)
(* queues of pieces (dig.c:796-892).                                        *)
LEMMA FileJobType ==
  ASSUME NEW S, \A x \in S : x.op \in Int,
         NEW qs, qs \in [DOMAIN qs -> Seq(S)],
         NEW k, NEW start, NEW stop, \A op \in Operations : Piece(k, op) \in S
  PROVE  /\ FileJob(qs, k, start, stop) \in [DOMAIN qs -> Seq(S)]
         /\ \A b \in DOMAIN qs :
              FileJob(qs, k, start, stop)[b] =
                IF b \in WorkBlocks(start, stop)
                  THEN AddToQueue(qs[b], Piece(k, OperationIn(b, start, stop)))
                  ELSE qs[b]
<1>1. \A b : OperationIn(b, start, stop) \in Operations
  BY DEF OperationIn, Operations, STARTCARVE, STOPCARVE, STARTSTOPCARVE, CONTINUECARVE
<1>2. ASSUME NEW b \in DOMAIN qs
      PROVE  AddToQueue(qs[b], Piece(k, OperationIn(b, start, stop))) \in Seq(S)
  <2>1. qs[b] \in Seq(S) /\ Piece(k, OperationIn(b, start, stop)) \in S
    BY <1>1
  <2> QED
    BY <2>1, AddPoints
<1> QED
  BY <1>2 DEF FileJob

(* What a span takes from readbuffer is a sequence of bytes, read from it   *)
(* or from next to it.                                                      *)
LEMMA BytesType ==
  ASSUME NEW buf \in [0..(BufSize - 1) -> Offsets], NEW span,
         NEW n \in Nat
  PROVE  Bytes(buf, span, n) \in Seq(Offsets) /\ Len(Bytes(buf, span, n)) = n
<1>1. Foreign \in Offsets
  BY DEF Offsets
<1> QED
  BY <1>1, IsASeq DEF Bytes

-----------------------------------------------------------------------------
(***************************************************************************)
(* The type invariant is not inductive as it stands: the counter of open   *)
(* files would be allowed to fall below zero, and the queue that is worked *)
(* on might not exist.  TypeInv adds what rules that out.                  *)
(***************************************************************************)
(* No more files are open than are counted.                                *)
Counted == IsFiniteSet(open) /\ Cardinality(open) <= nopen

(* There is a queue for the block that is read or worked on.               *)
HasQueue ==
  /\ pc = "open" => bytesread = 0
  /\ pc = "read" => Block(filepos) \in DOMAIN queues
  /\ pc = "work" => Block(Base) \in DOMAIN queues

TypeInv == TypeOK /\ Counted /\ HasQueue

(* A call begins with nothing open.                                        *)
LEMMA TypeInit == Init => TypeInv
<1> SUFFICES ASSUME Init PROVE TypeInv
  OBVIOUS
<1>1. PICK im \in Images : /\ img = [size |-> im.size]
                           /\ headers = im.headers
                           /\ footers = im.footers
  BY DEF Init
<1>2. /\ img \in [size : Nat]
      /\ headers \in [Needles -> Seq(Nat)] /\ footers \in [Needles -> Seq(Nat)]
  <2>1. \A s : s \in Seq(0..(im.size - 1)) => s \in Seq(Nat)
    <3>1. im.size \in Nat
      BY ImageAssumption
    <3>2. 0..(im.size - 1) \subseteq Nat
      BY <3>1
    <3> QED
      BY <3>2, SeqMonotonic
  <2> QED
    BY <1>1, <2>1, ImageAssumption
<1>3. counts \in [Needles -> [files : Nat, dir : Nat]]
  BY DEF Init
<1>4. buffer \in [0..(BufSize - 1) -> Offsets]
  BY DEF Init, Offsets
<1>5. IsFiniteSet({}) /\ Cardinality({}) = 0
  BY FS_EmptySet
<1>6. /\ jobs \in Seq(JobType) /\ audit \in Seq(JobIds)
      /\ content \in Seq(Seq(Offsets)) /\ Len(content) = Len(jobs)
      /\ queues \in [DOMAIN queues -> Seq(PieceType)]
  <2>1. DOMAIN queues = {}
    BY DEF Init
  <2> QED
    BY <2>1 DEF Init
<1>7. /\ pc \in {"open"} /\ needle = 1 /\ hidx = 1 /\ prevstop = 1
      /\ filepos = 0 /\ bytesread = 0 /\ cursor = 1 /\ opt \in Options
      /\ open = {} /\ nopen = 0 /\ signal = FALSE
  BY DEF Init
<1>8. TypeOK
  <2>1. InputTypes
    BY <1>2, <1>7 DEF InputTypes
  <2>2. PlanTypes
    BY <1>3, <1>6, <1>7 DEF PlanTypes
  <2>3. QueueTypes
    BY <1>6, <1>7 DEF QueueTypes
  <2>4. ReadTypes
    BY <1>4, <1>7, SizeAssumption DEF ReadTypes
  <2>5. FileTypes
    BY <1>6, <1>7 DEF FileTypes
  <2> QED
    BY <1>7, <2>1, <2>2, <2>3, <2>4, <2>5 DEF TypeOK, Running
<1> QED
  BY <1>5, <1>7, <1>8 DEF TypeInv, Counted, HasQueue

(* What a step leaves alone keeps its type.                                 *)
LEMMA InputsKept ==
  ASSUME InputTypes, UNCHANGED inVars
  PROVE  InputTypes'
BY DEF InputTypes, inVars

(* A step that leaves the plan alone keeps its types.                      *)
LEMMA PlanKept ==
  ASSUME PlanTypes, UNCHANGED planVars
  PROVE  PlanTypes'
BY DEF PlanTypes, planVars

(* So it is with the work queues,                                          *)
LEMMA QueuesKept ==
  ASSUME QueueTypes, UNCHANGED <<queues, jobs, img>>,
         pc' \in Running \ {"open"} => pc \in Running \ {"open"}
  PROVE  QueueTypes'
BY DEF QueueTypes, PieceType, JobIds, Blocks, Block

(* with the position and the buffer,                                       *)
LEMMA ReadKept ==
  ASSUME ReadTypes, UNCHANGED readVars
  PROVE  ReadTypes'
BY DEF ReadTypes, readVars

(* with the files and the log,                                             *)
LEMMA FilesKept ==
  ASSUME FileTypes, UNCHANGED <<jobs, fileVars>>
  PROVE  FileTypes'
BY DEF FileTypes, fileVars, JobIds

(* and with the count of open files.                                       *)
LEMMA CountedKept ==
  ASSUME Counted, UNCHANGED fileVars
  PROVE  Counted'
BY DEF Counted, fileVars

-----------------------------------------------------------------------------
(* Planning.                                                                *)
LEMMA TypeOpenImage == TypeInv /\ OpenImage => TypeInv'
<1> SUFFICES ASSUME TypeInv, OpenImage PROVE TypeInv'
  OBVIOUS
<1> USE DEF TypeInv, TypeOK
<1>1. InputTypes' /\ PlanTypes' /\ FileTypes' /\ Counted'
  BY InputsKept, PlanKept, FilesKept, CountedKept DEF OpenImage, planVars
<1>2. QueueTypes'
  <2>1. queues' = [b \in Blocks(img.size) |-> <<>>] /\ img' = img
    BY DEF OpenImage, inVars
  <2>2. \A b \in Blocks(img.size) : <<>> \in Seq(PieceType')
    OBVIOUS
  <2>3. DOMAIN queues' = Blocks(img'.size)
    BY <2>1
  <2> QED
    BY <2>1, <2>2, <2>3 DEF QueueTypes
<1>3. ReadTypes'
  <2>1. opt.skip \in Nat
    BY OptionAssumption DEF InputTypes
  <2> QED
    BY <2>1 DEF ReadTypes, OpenImage, HasQueue
<1>4. pc' = "plan" /\ HasQueue' /\ signal' = signal
  BY DEF OpenImage, HasQueue
<1> QED
  BY <1>1, <1>2, <1>3, <1>4 DEF Running

(* Without an image the call ends before it has planned anything.          *)
LEMMA TypeOpenImageFails == TypeInv /\ OpenImageFails => TypeInv'
<1> SUFFICES ASSUME TypeInv, OpenImageFails PROVE TypeInv'
  OBVIOUS
<1> USE DEF TypeInv, TypeOK
<1>1. pc' \in {"FILE_OPEN", "FILE_READ"} /\ signal' = signal
  BY DEF OpenImageFails
<1>2. InputTypes' /\ PlanTypes' /\ FileTypes' /\ Counted' /\ ReadTypes' /\ QueueTypes'
  BY <1>1, InputsKept, PlanKept, FilesKept, CountedKept, ReadKept, QueuesKept
     DEF OpenImageFails, planVars, inVars, Running
<1> QED
  BY <1>1, <1>2 DEF HasQueue, Ended

(* The next header and the choice of where its file ends.                   *)
LEMMA ChosenType ==
  ASSUME TypeInv, HasHeader
  PROVE  /\ Start \in Nat
         /\ Chosen.stop \in Nat /\ Chosen.chopped \in BOOLEAN /\ Chosen.prev \in Nat \ {0}
         /\ Chosen.stop # 0 /\ Proper(SearchSpec[needle], Start) => Chosen.stop >= Start
<1>1. Start \in Nat
  <2>1. headers[needle] \in Seq(Nat) /\ hidx \in 1..Len(headers[needle])
    <3>1. headers[needle] \in Seq(Nat)
      BY DEF TypeInv, TypeOK, InputTypes, HasHeader
    <3>2. Len(headers[needle]) \in Nat
      BY <3>1, LenProperties
    <3> QED
      BY <3>1, <3>2 DEF TypeInv, TypeOK, PlanTypes, HasHeader
  <2> QED
    BY <2>1, ElementOfSeq DEF Start
<1>2. SearchSpec[needle] \in LineType
  BY SpecAssumption, ElementOfSeq DEF HasHeader, Needles, LineType
<1>3. footers[needle] \in Seq(Nat) /\ opt.missingFooters \in BOOLEAN
  BY OptionAssumption DEF TypeInv, TypeOK, InputTypes, HasHeader
<1>4. prevstop \in Nat \ {0}
  BY DEF TypeInv, TypeOK, PlanTypes
<1> QED
  BY <1>1, <1>2, <1>3, <1>4, ChooseType DEF Chosen

(* A skip that is no multiple of the buffer.                               *)
LEMMA TypeSkipUnaligned == TypeInv /\ SkipUnaligned => TypeInv'
<1> SUFFICES ASSUME TypeInv, SkipUnaligned PROVE TypeInv'
  OBVIOUS
<1> USE DEF TypeInv, TypeOK
<1>1. /\ InputTypes' /\ FileTypes' /\ Counted' /\ ReadTypes' /\ QueueTypes'
      /\ pc' = pc /\ signal' = signal
  BY InputsKept, FilesKept, CountedKept, ReadKept, QueuesKept DEF SkipUnaligned, inVars
<1>2. PlanTypes'
  BY DEF PlanTypes, SkipUnaligned
<1>3. HasQueue'
  BY DEF HasQueue, SkipUnaligned
<1> QED
  BY <1>1, <1>2, <1>3

(* A header that gets no end becomes no job.                               *)
LEMMA TypePlanNothing == TypeInv /\ PlanNothing => TypeInv'
<1> SUFFICES ASSUME TypeInv, PlanNothing PROVE TypeInv'
  OBVIOUS
<1>1. Chosen.prev \in Nat \ {0}
  BY ChosenType DEF PlanNothing
<1> USE DEF TypeInv, TypeOK
<1>2. /\ InputTypes' /\ FileTypes' /\ Counted' /\ ReadTypes' /\ QueueTypes'
      /\ pc' = pc /\ signal' = signal
  BY InputsKept, FilesKept, CountedKept, ReadKept, QueuesKept DEF PlanNothing, inVars
<1>3. PlanTypes'
  BY <1>1 DEF PlanTypes, PlanNothing
<1>4. HasQueue'
  BY DEF HasQueue, PlanNothing, readVars
<1> QED
  BY <1>2, <1>3, <1>4

(* The planner goes on to the next type, or to the pass.                   *)
LEMMA TypeNextNeedle == TypeInv /\ NextNeedle => TypeInv'
<1> SUFFICES ASSUME TypeInv, NextNeedle PROVE TypeInv'
  OBVIOUS
<1> USE DEF TypeInv, TypeOK
<1>1. pc = "plan" /\ pc' \in {"plan", "seek"} /\ signal' = signal
  BY DEF NextNeedle
<1>2. InputTypes' /\ FileTypes' /\ Counted' /\ ReadTypes' /\ QueueTypes'
  BY <1>1, InputsKept, FilesKept, CountedKept, ReadKept, QueuesKept
     DEF NextNeedle, inVars, Running
<1>3. PlanTypes'
  BY DEF PlanTypes, NextNeedle, ResetPrevStop
<1>4. HasQueue'
  BY <1>1 DEF HasQueue
<1> QED
  BY <1>1, <1>2, <1>3, <1>4 DEF Running

(* A new job: its record, its pieces in the queues, its empty file.         *)
LEMMA TypePlanCarve == TypeInv /\ PlanCarve => TypeInv'
<1> SUFFICES ASSUME TypeInv, PlanCarve PROVE TypeInv'
  OBVIOUS
<1> DEFINE stop == ClipStop(Chosen.stop, img.size)
           k    == Len(jobs) + 1
           job  == [needle |-> needle,
                    dir |-> IF opt.organize THEN counts[needle].dir ELSE Root,
                    start |-> Start, stop |-> stop, chopped |-> Chosen.chopped]
<1>0. /\ Start \in Nat /\ Chosen.stop \in Nat /\ Chosen.chopped \in BOOLEAN
      /\ Chosen.prev \in Nat \ {0}
  BY ChosenType DEF PlanCarve
<1>1. /\ pc = "plan" /\ pc' = "plan" /\ signal' = signal
      /\ jobs' = Append(jobs, job) /\ content' = Append(content, <<>>)
      /\ queues' = FileJob(queues, k, Start, stop) /\ needle \in Needles
      /\ counts' = [counts EXCEPT ![needle] = CountFile(@)]
      /\ UNCHANGED <<inVars, needle, readVars, open, nopen, audit>>
      /\ hidx' = hidx + 1 /\ prevstop' = Chosen.prev
  BY DEF PlanCarve, HasHeader
<1> USE DEF TypeInv, TypeOK
<1>2. InputTypes' /\ ReadTypes' /\ Counted' /\ HasQueue'
  BY <1>1, InputsKept, ReadKept DEF Counted, HasQueue
<1>3. Len(jobs) \in Nat /\ jobs \in Seq(JobType)
  BY LenProperties DEF PlanTypes
<1>4. stop \in Nat
  BY <1>0 DEF ClipStop, smaller, InputTypes
<1>5. job \in JobType
  BY <1>0, <1>1, <1>4 DEF JobType, PlanTypes
<1> HIDE DEF job, stop
<1>6. jobs' \in Seq(JobType) /\ Len(jobs') = k
  BY <1>1, <1>3, <1>5
<1>7. JobIds \subseteq JobIds' /\ k \in JobIds'
  BY <1>3, <1>6 DEF JobIds
<1>8. PlanTypes'
  <2>1. counts' \in [Needles -> [files : Nat, dir : Nat]]
    BY <1>1 DEF PlanTypes, CountFile
  <2> QED
    BY <1>0, <1>1, <1>6, <2>1 DEF PlanTypes
<1>9. QueueTypes'
  <2>1. PieceType \subseteq PieceType'
    BY <1>7 DEF PieceType
  <2>2. \A b \in DOMAIN queues : queues[b] \in Seq(PieceType')
    BY <2>1, SeqMonotonic DEF QueueTypes
  <2>3. queues \in [DOMAIN queues -> Seq(PieceType')]
    BY <2>2 DEF QueueTypes
  <2>4. \A op \in Operations : Piece(k, op) \in PieceType'
    BY <1>7 DEF Piece, PieceType
  <2>5. \A x \in PieceType' : x.op \in Int
    BY DEF PieceType, Operations, STARTCARVE, CONTINUECARVE
  <2>6. queues' \in [DOMAIN queues -> Seq(PieceType')]
    BY <1>1, <2>3, <2>4, <2>5, FileJobType
  <2>7. DOMAIN queues' = DOMAIN queues
    BY <2>6
  <2> QED
    BY <1>1, <2>6, <2>7 DEF QueueTypes, Blocks, Block, inVars, Running
<1>10. FileTypes'
  <2>1. <<>> \in Seq(Offsets) /\ Len(content) \in Nat
    BY LenProperties DEF FileTypes
  <2>2. content' \in Seq(Seq(Offsets)) /\ Len(content') = Len(jobs')
    BY <1>1, <1>6, <2>1 DEF FileTypes
  <2>3. audit \in Seq(JobIds')
    BY <1>7, SeqMonotonic DEF FileTypes
  <2> QED
    BY <1>1, <1>7, <2>2, <2>3 DEF FileTypes
<1> QED
  BY <1>1, <1>2, <1>8, <1>9, <1>10

-----------------------------------------------------------------------------
(* Seeking and reading.                                                     *)

(* The big seek stops at a block that has a queue.                          *)
LEMMA SeekTargetType ==
  ASSUME TypeInv, SeekTargets # {}
  PROVE  /\ Least(SeekTargets) \in Nat /\ Least(SeekTargets) \in SeekTargets
         /\ filepos + Least(SeekTargets) * BufSize \in Nat
         /\ Block(filepos + Least(SeekTargets) * BufSize) \in DOMAIN queues
<1>1. SeekTargets \in SUBSET Nat
  BY BlockType DEF SeekTargets, TypeInv, TypeOK, InputTypes
<1>2. Least(SeekTargets) \in SeekTargets
  BY <1>1, LeastType
<1>3. \A t \in SeekTargets : Block(filepos + t * BufSize) \in DOMAIN queues
  BY DEF SeekTargets
<1>4. \A t \in Nat : filepos + t * BufSize \in Nat
  BY SizeAssumption DEF TypeInv, TypeOK, ReadTypes
<1> QED
  BY <1>1, <1>2, <1>3, <1>4

(* The big seek leads to a block that has a queue.                         *)
LEMMA TypeSeekWork == TypeInv /\ SeekWork => TypeInv'
<1> SUFFICES ASSUME TypeInv, SeekWork PROVE TypeInv'
  OBVIOUS
<1> DEFINE to == filepos + Least(SeekTargets) * BufSize
<1>0. to \in Nat /\ filepos <= to /\ Block(to) \in DOMAIN queues
  <2>1. Least(SeekTargets) \in Nat /\ to \in Nat /\ Block(to) \in DOMAIN queues
    BY SeekTargetType DEF SeekWork
  <2>2. filepos \in Nat
    BY DEF TypeInv, TypeOK, ReadTypes
  <2>3. Least(SeekTargets) * BufSize \in Nat
    BY <2>1, SizeAssumption
  <2> HIDE DEF to
  <2>4. filepos <= to
    BY <2>2, <2>3 DEF to
  <2> QED
    BY <2>1, <2>4
<1>1. /\ filepos' = to /\ pc = "seek" /\ pc' = "read" /\ signal' = signal
      /\ UNCHANGED <<inVars, planVars, queues, bytesread, buffer, cursor, fileVars>>
  BY DEF SeekWork
<1> HIDE DEF to
<1> USE DEF TypeInv, TypeOK
<1>2. InputTypes' /\ PlanTypes' /\ FileTypes' /\ Counted' /\ QueueTypes'
  BY <1>1, InputsKept, PlanKept, FilesKept, CountedKept, QueuesKept
     DEF planVars, inVars, Running
<1>3. ReadTypes'
  BY <1>0, <1>1 DEF ReadTypes
<1>4. HasQueue'
  BY <1>0, <1>1 DEF HasQueue, Block
<1> QED
  BY <1>1, <1>2, <1>3, <1>4 DEF Running

(* Steps that only move on to another phase that needs no queue.            *)
LEMMA TypeMoves ==
  ASSUME TypeInv, UNCHANGED <<inVars, planVars, queues, readVars, fileVars>>,
         signal' \in BOOLEAN,
         \/ pc' \in Ended
         \/ pc # "open" /\ pc \in Running /\ pc' \in {"seek", "finish"}
         \/ pc' = pc
  PROVE  TypeInv'
<1> USE DEF TypeInv, TypeOK
<1>1. InputTypes' /\ PlanTypes' /\ FileTypes' /\ Counted' /\ ReadTypes' /\ QueueTypes'
  BY InputsKept, PlanKept, FilesKept, CountedKept, ReadKept, QueuesKept
     DEF planVars, inVars, Running, Ended
<1>2. HasQueue'
  BY DEF HasQueue, Ended, readVars, Base, Block
<1> QED
  BY <1>1, <1>2 DEF Ended, Running

(* How much a read returns.                                                 *)
LEMMA AvailableType ==
  ASSUME TypeInv
  PROVE  Available \in 0..BufSize
BY SizeAssumption DEF TypeInv, TypeOK, InputTypes, ReadTypes, Available, smaller, larger

(* So does a read, as long as bytes come.                                  *)
LEMMA TypeReadBlock == TypeInv /\ ReadBlock => TypeInv'
<1> SUFFICES ASSUME TypeInv, ReadBlock PROVE TypeInv'
  OBVIOUS
<1>1. Available \in 0..BufSize
  BY AvailableType
<1> USE DEF TypeInv, TypeOK
<1>2. /\ pc = "read" /\ pc' \in {"exit", "work"} /\ signal' = signal
      /\ UNCHANGED <<inVars, planVars, queues, fileVars>>
      /\ filepos' = filepos + Available /\ bytesread' = Available /\ cursor' = 1
      /\ buffer' = IF opt.preview THEN buffer ELSE Refill(buffer, filepos, Available)
  BY DEF ReadBlock
<1>3. InputTypes' /\ PlanTypes' /\ FileTypes' /\ Counted' /\ QueueTypes'
  BY <1>2, InputsKept, PlanKept, FilesKept, CountedKept, QueuesKept
     DEF planVars, inVars, Running
<1>4. buffer' \in [0..(BufSize - 1) -> Offsets]
  BY <1>1, <1>2 DEF Refill, ReadTypes, Offsets
<1>5. ReadTypes'
  BY <1>1, <1>2, <1>4 DEF ReadTypes
<1>6. HasQueue'
  <2>1. filepos' - bytesread' = filepos
    BY <1>1, <1>2 DEF ReadTypes
  <2> QED
    BY <1>2, <2>1 DEF HasQueue, Base, Block
<1> QED
  BY <1>2, <1>3, <1>5, <1>6 DEF Running, Ended

(* Where no bytes come the pass ends.                                      *)
LEMMA TypeEndOfImage == TypeInv /\ EndOfImage => TypeInv'
<1> SUFFICES ASSUME TypeInv, EndOfImage PROVE TypeInv'
  OBVIOUS
<1>1. /\ pc = "read" /\ pc' = "finish" /\ signal' = signal /\ bytesread' = 0
      /\ UNCHANGED <<inVars, planVars, queues, filepos, buffer, cursor, fileVars>>
  BY DEF EndOfImage
<1> USE DEF TypeInv, TypeOK
<1>2. InputTypes' /\ PlanTypes' /\ FileTypes' /\ Counted' /\ QueueTypes'
  BY <1>1, InputsKept, PlanKept, FilesKept, CountedKept, QueuesKept
     DEF planVars, inVars, Running
<1>3. ReadTypes'
  BY <1>1, SizeAssumption DEF ReadTypes
<1> QED
  BY <1>1, <1>2, <1>3 DEF HasQueue, Running

(* The end of the call empties the queues.                                 *)
LEMMA TypeFinish == TypeInv /\ Finish => TypeInv'
<1> SUFFICES ASSUME TypeInv, Finish PROVE TypeInv'
  OBVIOUS
<1>1. /\ pc' = "done" /\ signal' = signal /\ queues' = <<>>
      /\ headers' = [n \in Needles |-> <<>>] /\ footers' = [n \in Needles |-> <<>>]
      /\ UNCHANGED <<img, opt, planVars, readVars, fileVars>>
  BY DEF Finish
<1> USE DEF TypeInv, TypeOK
<1>2. PlanTypes' /\ ReadTypes' /\ FileTypes' /\ Counted'
  BY <1>1, PlanKept, ReadKept, FilesKept, CountedKept DEF planVars
<1>3. InputTypes'
  BY <1>1 DEF InputTypes
<1>4. QueueTypes'
  <2>1. DOMAIN queues' = {}
    BY <1>1
  <2>2. queues' \in [DOMAIN queues' -> Seq(PieceType')]
    BY <1>1, <2>1
  <2> QED
    BY <1>1, <2>2 DEF QueueTypes, Running
<1> QED
  BY <1>1, <1>2, <1>3, <1>4 DEF HasQueue, Ended

-----------------------------------------------------------------------------
(* Carving.                                                                 *)

(* The piece being worked on belongs to a job.                              *)
LEMMA PieceFacts ==
  ASSUME TypeInv, HasPiece
  PROVE  /\ Job \in JobIds /\ Op \in Operations
         /\ cursor \in 1..Len(Work) /\ Len(Work) \in Nat
         /\ jobs[Job].start \in Nat /\ jobs[Job].stop \in Nat
         /\ Base \in Nat
<1> USE DEF TypeInv, TypeOK
<1>1. Work \in Seq(PieceType)
  BY DEF HasPiece, HasQueue, Work, QueueTypes
<1>2. Len(Work) \in Nat /\ cursor \in 1..Len(Work)
  <2>1. Len(Work) \in Nat
    BY <1>1, LenProperties
  <2> QED
    BY <2>1 DEF HasPiece, ReadTypes
<1>3. Work[cursor] \in PieceType
  BY <1>1, <1>2, ElementOfSeq
<1>4. Job \in JobIds /\ Op \in Operations
  BY <1>3 DEF PieceType, Job, Op
<1>5. jobs[Job] \in JobType
  BY <1>4, ElementOfSeq DEF JobIds, PlanTypes
<1>6. Base \in Nat
  BY DEF Base, ReadTypes
<1> QED
  BY <1>2, <1>4, <1>5, <1>6 DEF JobType

(* The place of a piece in the buffer and its length are numbers, below    *)
(* zero perhaps.                                                           *)
LEMMA SpanType ==
  ASSUME TypeInv, HasPiece
  PROVE  JobSpan.offset \in Int /\ JobSpan.bytes \in Int
<1>1. /\ Op \in Operations /\ jobs[Job].start \in Nat /\ jobs[Job].stop \in Nat
      /\ Base \in Nat
  BY PieceFacts
<1>2. ASSUME NEW op \in Operations, NEW a \in Nat, NEW z \in Nat, NEW base \in Nat
      PROVE  Span(op, a, z, base).offset \in Int /\ Span(op, a, z, base).bytes \in Int
  BY SizeAssumption
     DEF Span, smaller, Operations, STARTCARVE, STOPCARVE, STARTSTOPCARVE, CONTINUECARVE
<1> QED
  BY <1>1, <1>2 DEF JobSpan

(* Writing extends the file of one job.                                     *)
LEMMA WrittenType ==
  ASSUME TypeInv, HasPiece, NEW n \in Nat
  PROVE  Written(n) \in Seq(Seq(Offsets)) /\ Len(Written(n)) = Len(content)
<1> DEFINE old == IF NeedsOpen(Job, Op) THEN OpenAppends(content[Job]) ELSE content[Job]
<1>1. content \in Seq(Seq(Offsets)) /\ Len(content) = Len(jobs)
  BY DEF TypeInv, TypeOK, FileTypes
<1>2. Job \in 1..Len(content)
  BY <1>1, PieceFacts DEF JobIds
<1>3. old \in Seq(Offsets)
  BY <1>1, <1>2, ElementOfSeq DEF OpenAppends
<1>4. Bytes(buffer, JobSpan, n) \in Seq(Offsets)
  BY BytesType DEF TypeInv, TypeOK, ReadTypes
<1>5. old \o Bytes(buffer, JobSpan, n) \in Seq(Offsets)
  BY <1>3, <1>4, ConcatProperties
<1>6. Written(n) = [content EXCEPT ![Job] = old \o Bytes(buffer, JobSpan, n)]
  BY <1>1, <1>2, LenProperties DEF Written
<1> HIDE DEF old
<1> QED
  BY <1>1, <1>2, <1>5, <1>6, ExceptSeq

(* Opening the file counts it unless it is open; closing it uncounts it.    *)
LEMMA OpenedCounts ==
  ASSUME TypeInv, HasPiece
  PROVE  /\ Opened \in Nat /\ Opened - 1 \in Nat
         /\ IsFiniteSet(open \cup {Job}) /\ Cardinality(open \cup {Job}) <= Opened
         /\ IsFiniteSet(open \ {Job}) /\ Cardinality(open \ {Job}) <= Opened - 1
<1>1. IsFiniteSet(open) /\ Cardinality(open) <= nopen /\ nopen \in Nat
  BY DEF TypeInv, TypeOK, Counted, FileTypes
<1>2. Cardinality(open) \in Nat
  BY <1>1, FS_CardinalityType
<1>3. /\ IsFiniteSet(open \cup {Job})
      /\ Cardinality(open \cup {Job})
           = IF Job \in open THEN Cardinality(open) ELSE Cardinality(open) + 1
  BY <1>1, FS_AddElement
<1>4. /\ IsFiniteSet(open \ {Job})
      /\ Cardinality(open \ {Job})
           = IF Job \in open THEN Cardinality(open) - 1 ELSE Cardinality(open)
  BY <1>1, FS_RemoveElement
<1>5. Job \in open => Cardinality(open) > 0
  <2>1. Job \in open => Cardinality(open) # 0
    BY <1>1, FS_EmptySet
  <2> QED
    BY <1>2, <2>1
<1>6. Opened = IF NeedsOpen(Job, Op) THEN nopen + 1 ELSE nopen
  BY <1>1 DEF Opened
<1>7. ~NeedsOpen(Job, Op) => Job \in open
  BY DEF NeedsOpen
<1> QED
  BY <1>1, <1>2, <1>3, <1>4, <1>5, <1>6, <1>7

(* A piece opens, closes and counts one file at most.                      *)
LEMMA TypeCarvePiece == TypeInv /\ CarvePiece => TypeInv'
<1> SUFFICES ASSUME TypeInv, CarvePiece PROVE TypeInv'
  OBVIOUS
<1>0. HasPiece
  BY DEF CarvePiece
<1>1. /\ pc' = pc /\ signal' = signal /\ cursor' = cursor + 1
      /\ UNCHANGED <<inVars, planVars, queues, filepos, bytesread, buffer>>
      /\ audit' = IF IsLast(Op) THEN Append(audit, Job) ELSE audit
      /\ \/ open' = open \ {Job} /\ nopen' = Opened - 1
         \/ open' = open \cup {Job} /\ nopen' = Opened
  BY DEF CarvePiece
<1>2. Job \in JobIds
  BY <1>0, PieceFacts
<1>3. content' \in Seq(Seq(Offsets)) /\ Len(content') = Len(content)
  <2>1. CASE opt.preview
    BY <2>1 DEF CarvePiece, TypeInv, TypeOK, FileTypes
  <2>2. CASE ~opt.preview
    <3>1. JobSpan.bytes \in Nat
      <4>1. JobSpan.bytes \in Int
        BY <1>0, SpanType
      <4>2. JobSpan.bytes >= 0
        BY <2>2 DEF CarvePiece
      <4> QED
        BY <4>1, <4>2
    <3>2. content' = Written(JobSpan.bytes)
      BY <2>2 DEF CarvePiece
    <3> QED
      BY <1>0, <3>1, <3>2, WrittenType
  <2> QED
    BY <2>1, <2>2
<1>4. nopen' \in Nat /\ Counted'
  BY <1>0, <1>1, OpenedCounts DEF Counted
<1> USE DEF TypeInv, TypeOK
<1>5. InputTypes' /\ PlanTypes' /\ QueueTypes'
  BY <1>1, InputsKept, PlanKept, QueuesKept DEF planVars, inVars
<1>6. ReadTypes'
  BY <1>1 DEF ReadTypes
<1>7. FileTypes'
  <2>1. JobIds' = JobIds /\ jobs' = jobs
    BY <1>1 DEF JobIds, planVars
  <2>2. audit' \in Seq(JobIds)
    BY <1>1, <1>2 DEF FileTypes
  <2>3. open' \subseteq JobIds
    BY <1>1, <1>2 DEF FileTypes
  <2> QED
    BY <1>3, <1>4, <2>1, <2>2, <2>3 DEF FileTypes
<1>8. HasQueue'
  BY <1>1 DEF HasQueue, Base, Block
<1> QED
  BY <1>1, <1>4, <1>5, <1>6, <1>7, <1>8

(* A write or a close that fails has counted the file as open.              *)
LEMMA TypeFailedWrite ==
  ASSUME TypeInv, HasPiece, NEW n \in Nat, content' = Written(n),
         open' = open \cup {Job}, nopen' = Opened, pc' = "FILE_WRITE",
         UNCHANGED <<inVars, planVars, queues, readVars, audit, signal>>
  PROVE  TypeInv'
<1>1. Job \in JobIds
  BY PieceFacts
<1>2. content' \in Seq(Seq(Offsets)) /\ Len(content') = Len(content)
  BY WrittenType
<1>3. nopen' \in Nat /\ Counted'
  BY OpenedCounts DEF Counted
<1> USE DEF TypeInv, TypeOK
<1>4. InputTypes' /\ PlanTypes' /\ QueueTypes' /\ ReadTypes'
  BY InputsKept, PlanKept, QueuesKept, ReadKept DEF planVars, inVars, Running
<1>5. FileTypes'
  BY <1>1, <1>2, <1>3 DEF FileTypes, JobIds, planVars
<1> QED
  BY <1>3, <1>4, <1>5 DEF HasQueue, Ended

(* What a failing fwrite() has written is a number of bytes.               *)
LEMMA WrittenNumber ==
  ASSUME TypeInv, HasPiece
  PROVE  WrittenInPart \subseteq Nat
BY SpanType, SizeAssumption DEF WrittenInPart

(* A piece that fails has opened its file and counted it.                  *)
LEMMA TypeWriteFails == TypeInv /\ (WriteFails \/ CloseFails) => TypeInv'
<1>1. ASSUME TypeInv, WriteFails PROVE TypeInv'
  <2>1. PICK n \in WrittenInPart : content' = Written(n)
    BY <1>1 DEF WriteFails
  <2>2. HasPiece
    BY <1>1 DEF WriteFails
  <2>3. n \in Nat
    BY <1>1, <2>1, <2>2, WrittenNumber
  <2> QED
    BY <1>1, <2>1, <2>2, <2>3, TypeFailedWrite DEF WriteFails
<1>2. ASSUME TypeInv, CloseFails PROVE TypeInv'
  <2>1. HasPiece /\ JobSpan.bytes >= 0
    BY <1>2 DEF CloseFails
  <2>2. JobSpan.bytes \in Nat
    BY <1>2, <2>1, SpanType
  <2> QED
    BY <1>2, <2>1, <2>2, TypeFailedWrite DEF CloseFails
<1> QED
  BY <1>1, <1>2

-----------------------------------------------------------------------------
(* Every step keeps the types and the bound on what is open.               *)
LEMMA TypeNext == TypeInv /\ [Next]_vars => TypeInv'
<1> SUFFICES ASSUME TypeInv, [Next]_vars PROVE TypeInv'
  OBVIOUS
<1>0. pc \in Running \cup Ended /\ signal \in BOOLEAN
  BY DEF TypeInv, TypeOK
<1>1. CASE Plan
  BY <1>1, TypeOpenImage, TypeOpenImageFails, TypeSkipUnaligned, TypePlanNothing,
     TypePlanCarve, TypeNextNeedle DEF Plan
<1>2. CASE Seek
  <2>1. CASE SeekWork
    BY <2>1, TypeSeekWork
  <2>2. CASE NoMoreWork
    BY <1>0, <2>2, TypeMoves DEF NoMoreWork, Running
  <2>3. CASE SeekOverrun
    BY <1>0, <2>3, TypeMoves DEF SeekOverrun, Ended
  <2> QED
    BY <1>2, <2>1, <2>2, <2>3 DEF Seek
<1>3. CASE Read
  <2>1. CASE ReadFails
    BY <1>0, <2>1, TypeMoves DEF ReadFails, Ended
  <2> QED
    BY <1>3, <2>1, TypeReadBlock, TypeEndOfImage DEF Read
<1>4. CASE Carve
  <2>1. CASE OpenFails
    BY <1>0, <2>1, TypeMoves DEF OpenFails, Ended
  <2>2. CASE CarveOverrun
    BY <1>0, <2>2, TypeMoves DEF CarveOverrun, Ended
  <2>3. CASE EndOfQueue
    BY <1>0, <2>3, TypeMoves DEF EndOfQueue, Running
  <2> QED
    BY <1>4, <2>1, <2>2, <2>3, TypeCarvePiece, TypeWriteFails DEF Carve
<1>5. CASE Finish
  BY <1>5, TypeFinish
<1>6. CASE FinishFails
  BY <1>0, <1>6, TypeMoves DEF FinishFails, Ended
<1>7. CASE CatchSignal
  BY <1>7, TypeMoves DEF CatchSignal
<1>8. CASE UNCHANGED vars
  BY <1>0, <1>8, TypeMoves DEF vars
<1> QED
  BY <1>1, <1>2, <1>3, <1>4, <1>5, <1>6, <1>7, <1>8 DEF Next, Step, Halted

(* So they hold in every state.                                            *)
LEMMA TypeInvariant == Spec => []TypeInv
<1>1. Init => TypeInv
  BY TypeInit
<1>2. TypeInv /\ [Next]_vars => TypeInv'
  BY TypeNext
<1> QED
  BY <1>1, <1>2, PTL DEF Spec

(* The type invariant holds in every run, whatever the buffer size, the     *)
(* limits, the search specification, the image and the command line: no     *)
(* file is counted as closed twice, no file ends before offset 0, the queue *)
(* that is worked on exists.                                                *)
THEOREM TypeCorrect == Spec => []TypeOK
<1>1. TypeInv => TypeOK
  BY DEF TypeInv
<1> QED
  BY <1>1, TypeInvariant, PTL

-----------------------------------------------------------------------------
(* Blocks: a position lies in one, and they are in the order of positions.  *)
LEMMA BlockBounds ==
  ASSUME NEW p \in Nat
  PROVE  /\ Block(p) \in Nat
         /\ BufSize * Block(p) <= p
         /\ p < BufSize * Block(p) + BufSize
<1> USE SizeAssumption
<1> DEFINE b == p \div BufSize
           r == p % BufSize
           x == BufSize * b
<1>1. b \in Nat
  OBVIOUS
<1>2. r \in 0..(BufSize - 1)
  OBVIOUS
<1>3. p = (BufSize * (p \div BufSize)) + (p % BufSize)
  OBVIOUS
<1>4. x \in Nat
  BY <1>1
<1>5. p = x + r
  BY <1>3
<1> HIDE DEF x, r
<1>6. x <= p /\ p < x + BufSize
  BY <1>2, <1>4, <1>5
<1> QED
  BY <1>1, <1>6 DEF Block, x

(* The block of a position is the only multiple of the buffer around it.    *)
LEMMA BlockUnique ==
  ASSUME NEW p \in Nat, NEW k \in Nat, BufSize * k <= p, p < BufSize * k + BufSize
  PROVE  Block(p) = k
<1> USE SizeAssumption
<1> DEFINE q == Block(p)
<1>1. q \in Nat /\ BufSize * q <= p /\ p < BufSize * q + BufSize
  BY BlockBounds
<1> HIDE DEF q
<1>2. ~(q < k)
  <2>1. SUFFICES ASSUME q < k PROVE FALSE
    OBVIOUS
  <2>2. PICK d \in Nat : k = q + 1 + d
    BY <1>1, <2>1
  <2>3. BufSize * k = BufSize * q + BufSize + BufSize * d
    BY <1>1, <2>2
  <2>4. BufSize * d >= 0
    BY <2>2
  <2> QED
    BY <1>1, <2>3, <2>4
<1>3. ~(q > k)
  <2>1. SUFFICES ASSUME q > k PROVE FALSE
    OBVIOUS
  <2>2. PICK d \in Nat : q = k + 1 + d
    BY <1>1, <2>1
  <2>3. BufSize * q = BufSize * k + BufSize + BufSize * d
    BY <1>1, <2>2
  <2>4. BufSize * d >= 0
    BY <2>2
  <2> QED
    BY <1>1, <2>3, <2>4
<1> QED
  BY <1>1, <1>2, <1>3 DEF q

(* Later bytes are in later blocks, or the same.                           *)
LEMMA BlockMonotone ==
  ASSUME NEW p \in Nat, NEW q \in Nat, p <= q
  PROVE  Block(p) <= Block(q)
<1> USE SizeAssumption
<1> DEFINE a == Block(p)
           b == Block(q)
<1>1. a \in Nat /\ b \in Nat /\ BufSize * a <= p /\ q < BufSize * b + BufSize
  BY BlockBounds
<1> HIDE DEF a, b
<1>2. ~(b < a)
  <2>1. SUFFICES ASSUME b < a PROVE FALSE
    OBVIOUS
  <2>2. PICK d \in Nat : a = b + 1 + d
    BY <1>1, <2>1
  <2>3. BufSize * a = BufSize * b + BufSize + BufSize * d
    BY <1>1, <2>2
  <2>4. BufSize * d >= 0
    BY <2>2
  <2> QED
    BY <1>1, <2>3, <2>4
<1> QED
  BY <1>1, <1>2 DEF a, b

(* A buffer further is the next block.                                     *)
LEMMA NextBlock ==
  ASSUME NEW p \in Nat
  PROVE  Block(p + BufSize) = Block(p) + 1
<1> USE SizeAssumption
<1> DEFINE b == Block(p)
<1>1. b \in Nat /\ BufSize * b <= p /\ p < BufSize * b + BufSize
  BY BlockBounds
<1> HIDE DEF b
<1>2. BufSize * (b + 1) = BufSize * b + BufSize
  BY <1>1
<1>3. p + BufSize \in Nat /\ b + 1 \in Nat
  BY <1>1
<1>4. BufSize * (b + 1) <= p + BufSize /\ p + BufSize < BufSize * (b + 1) + BufSize
  BY <1>1, <1>2
<1> QED
  BY <1>3, <1>4, BlockUnique DEF b

-----------------------------------------------------------------------------
(***************************************************************************)
(* The queues.  That the work is filed right holds from the start, while   *)
(* jobs are still being planned.                                           *)
(***************************************************************************)
Filed ==
  /\ pc = "open" => jobs = <<>>
  /\ \A b \in DOMAIN queues : FiledIn(b)

(* A queue that has nothing of job k gets its piece: the other pieces stay, *)
(* in order, and each job still has at most one.                            *)
LEMMA FilePiece ==
  ASSUME NEW S, \A x \in S : x.op \in Int, NEW q \in Seq(S), NEW e \in S,
         InOrder(q),
         \A i, j \in DOMAIN q : q[i].job = q[j].job => i = j,
         \A i \in DOMAIN q : q[i].job # e.job
  PROVE  LET r == AddToQueue(q, e)
         IN  /\ InOrder(r)
             /\ \A i, j \in DOMAIN r : r[i].job = r[j].job => i = j
             /\ Range(r) = Range(q) \cup {e}
<1> DEFINE r == AddToQueue(q, e)
           p == Place(q, e.op)
<1>0. Len(q) \in Nat /\ DOMAIN q = 1..Len(q)
  BY LenProperties
<1>1. /\ DOMAIN r = 1..(Len(q) + 1)
      /\ \A j \in 1..(Len(q) + 1) :
           r[j] = IF j < p THEN q[j] ELSE IF j = p THEN e ELSE q[j - 1]
  BY AddedPoints
<1>2. p \in 1..(Len(q) + 1)
  <2>1. e.op \in Int
    OBVIOUS
  <2> QED
    BY <2>1, PlaceInRange
<1>3. InOrder(r)
  BY AddKeepsOrder
<1>5. Range(r) = Range(q) \cup {e}
  BY AddRange
<1> HIDE DEF r, p
<1>4. ASSUME NEW i \in DOMAIN r, NEW j \in DOMAIN r, r[i].job = r[j].job
      PROVE  i = j
  <2> DEFINE Old(m) == IF m < p THEN m ELSE m - 1
  <2>1. ASSUME NEW m \in DOMAIN r, m # p
        PROVE  Old(m) \in DOMAIN q /\ r[m] = q[Old(m)]
    BY <1>0, <1>1, <1>2, <2>1
  <2>2. CASE i = p /\ j = p
    BY <2>2
  <2>3. CASE i = p /\ j # p
    BY <1>1, <1>4, <2>1, <2>3
  <2>4. CASE i # p /\ j = p
    BY <1>1, <1>4, <2>1, <2>4
  <2>5. CASE i # p /\ j # p
    <3>1. Old(i) = Old(j)
      <4>1. /\ Old(i) \in DOMAIN q /\ r[i] = q[Old(i)]
            /\ Old(j) \in DOMAIN q /\ r[j] = q[Old(j)]
        BY <2>1, <2>5
      <4> HIDE DEF Old
      <4> QED
        BY <4>1, <1>4
    <3> QED
      BY <1>1, <1>2, <2>5, <3>1
  <2> QED
    BY <2>2, <2>3, <2>4, <2>5
<1> QED
  BY <1>3, <1>4, <1>5 DEF r

(* With no job there is nothing to file.                                   *)
LEMMA FiledInit == Init => Filed
<1> SUFFICES ASSUME Init PROVE Filed
  OBVIOUS
<1>1. DOMAIN queues = {} /\ jobs = <<>>
  BY DEF Init
<1> QED
  BY <1>1 DEF Filed

(* Steps that leave jobs and queues alone.                                 *)
LEMMA FiledKept ==
  ASSUME Filed, UNCHANGED <<queues, jobs>>, pc' # "open" \/ pc = "open"
  PROVE  Filed'
<1>1. ASSUME NEW b PROVE PiecesIn(b)' = PiecesIn(b)
  <2>1. JobIds' = JobIds
    BY DEF JobIds
  <2>2. ASSUME NEW j PROVE PieceOf(j, b)' = PieceOf(j, b) /\ (Touches(j, b)' <=> Touches(j, b))
    BY DEF PieceOf, Touches
  <2> QED
    BY <2>1, <2>2 DEF PiecesIn
<1>2. ASSUME NEW b \in DOMAIN queues PROVE FiledIn(b)'
  <2>1. FiledIn(b) /\ queues'[b] = queues[b]
    BY DEF Filed
  <2> QED
    BY <1>1, <2>1 DEF FiledIn
<1> QED
  BY <1>2 DEF Filed

(* Opening the image makes empty queues.                                   *)
LEMMA FiledOpenImage == Filed /\ OpenImage => Filed'
<1> SUFFICES ASSUME Filed, OpenImage PROVE Filed'
  OBVIOUS
<1>1. jobs' = <<>> /\ queues' = [b \in Blocks(img.size) |-> <<>>] /\ pc' = "plan"
  BY DEF OpenImage, planVars, Filed
<1>2. JobIds' = {}
  BY <1>1 DEF JobIds
<1>3. ASSUME NEW b \in DOMAIN queues' PROVE FiledIn(b)'
  <2>1. DOMAIN queues'[b] = {}
    BY <1>1, <1>3
  <2> QED
    BY <1>2, <2>1 DEF FiledIn, InOrder, Range, PiecesIn
<1> QED
  BY <1>1, <1>3 DEF Filed

(* carveImageFile() files a new job into the queue of every block it        *)
(* touches, and into no other (dig.c:796-892).                              *)
LEMMA FiledPlanCarve == TypeInv /\ Filed /\ PlanCarve => Filed'
<1> SUFFICES ASSUME TypeInv, Filed, PlanCarve PROVE Filed'
  OBVIOUS
<1> DEFINE stop == ClipStop(Chosen.stop, img.size)
<1>a. PICK k : k = Len(jobs) + 1
  OBVIOUS
<1> DEFINE Q(b) == Piece(k, OperationIn(b, Start, stop))
<1>0. Len(jobs) \in Nat /\ TypeInv'
  BY LenProperties, TypePlanCarve DEF TypeInv, TypeOK, PlanTypes
<1>1. /\ queues' = FileJob(queues, k, Start, stop)
      /\ jobs' \in Seq(JobType) /\ Len(jobs') = k
      /\ \A j \in JobIds : jobs'[j] = jobs[j]
      /\ jobs'[k].start = Start /\ jobs'[k].stop = stop
      /\ pc' = "plan"
  <2>1. jobs \in Seq(JobType) /\ jobs' \in Seq(JobType)
    BY <1>0 DEF TypeInv, TypeOK, PlanTypes
  <2> QED
    BY <1>a, <1>0, <2>1 DEF PlanCarve, JobIds
<1> HIDE DEF stop
<1>2. JobIds' = JobIds \cup {k} /\ k \notin JobIds
  BY <1>a, <1>0, <1>1 DEF JobIds
<1>3. /\ queues \in [DOMAIN queues -> Seq(PieceType)]
      /\ queues \in [DOMAIN queues -> Seq(PieceType')]
      /\ \A x \in PieceType' : x.op \in Int
  <2>1. queues \in [DOMAIN queues -> Seq(PieceType)]
    BY DEF TypeInv, TypeOK, QueueTypes
  <2>2. PieceType \subseteq PieceType'
    BY <1>2 DEF PieceType
  <2>3. \A b \in DOMAIN queues : queues[b] \in Seq(PieceType')
    BY <2>1, <2>2, SeqMonotonic
  <2>4. \A x \in PieceType' : x.op \in Int
    BY DEF PieceType, Operations, STARTCARVE, CONTINUECARVE
  <2> QED
    BY <2>1, <2>3, <2>4
<1>4. \A op \in Operations : Piece(k, op) \in PieceType'
  BY <1>2 DEF Piece, PieceType
<1>5. /\ DOMAIN queues' = DOMAIN queues
      /\ \A b \in DOMAIN queues :
           queues'[b] = IF b \in WorkBlocks(Start, stop)
                          THEN AddToQueue(queues[b], Q(b)) ELSE queues[b]
  <2>0. PICK S : S = PieceType'
    OBVIOUS
  <2>a. PICK qs, start, e : qs = queues /\ start = Start /\ e = stop
    OBVIOUS
  <2>b. \A x \in S : x.op \in Int
    BY <1>3, <2>0
  <2>c. qs \in [DOMAIN qs -> Seq(S)]
    BY <1>3, <2>0, <2>a
  <2>d. \A op \in Operations : Piece(k, op) \in S
    BY <1>4, <2>0
  <2>1. /\ FileJob(qs, k, start, e) \in [DOMAIN qs -> Seq(S)]
        /\ \A b \in DOMAIN qs :
             FileJob(qs, k, start, e)[b]
               = IF b \in WorkBlocks(start, e)
                   THEN AddToQueue(qs[b], Piece(k, OperationIn(b, start, e)))
                   ELSE qs[b]
    BY ONLY <2>b, <2>c, <2>d, FileJobType
  <2> QED
    BY <1>1, <2>0, <2>a, <2>1
<1>6. \A j, b : /\ Touches(j, b)' <=> b \in WorkBlocks(jobs'[j].start, jobs'[j].stop)
                /\ PieceOf(j, b)' = Piece(j, OperationIn(b, jobs'[j].start, jobs'[j].stop))
  BY DEF Touches, PieceOf
<1>8. \A b : /\ Touches(k, b)' <=> b \in WorkBlocks(Start, stop)
             /\ PieceOf(k, b)' = Q(b)
  BY <1>1, <1>6
<1>9. \A j \in JobIds : \A b : /\ Touches(j, b)' <=> Touches(j, b)
                               /\ PieceOf(j, b)' = PieceOf(j, b)
  BY <1>1, <1>6 DEF Touches, PieceOf
<1>7. ASSUME NEW b \in DOMAIN queues PROVE FiledIn(b)'
  <2>0. FiledIn(b)
    BY DEF Filed
  <2>1. CASE b \notin WorkBlocks(Start, stop)
    <3>1. queues'[b] = queues[b]
      BY <1>5, <2>1
    <3>2. PiecesIn(b)' = PiecesIn(b)
      BY <1>2, <1>8, <1>9, <2>1 DEF PiecesIn
    <3> QED
      BY <2>0, <3>1, <3>2 DEF FiledIn, InOrder, Range
  <2>2. CASE b \in WorkBlocks(Start, stop)
    <3>1. queues'[b] = AddToQueue(queues[b], Q(b))
      BY <1>5, <2>2
    <3>2. PiecesIn(b)' = PiecesIn(b) \cup {Q(b)}
      BY <1>2, <1>8, <1>9, <2>2 DEF PiecesIn
    <3>3. Q(b) \in PieceType' /\ Q(b).job = k
      <4>1. OperationIn(b, Start, stop) \in Operations
        BY DEF OperationIn, Operations, STARTCARVE, STOPCARVE, STARTSTOPCARVE,
               CONTINUECARVE
      <4> QED
        BY <1>4, <4>1 DEF Piece
    <3> HIDE DEF Q
    <3>4. queues[b] \in Seq(PieceType') /\ queues[b] \in Seq(PieceType)
      BY <1>3
    <3>5. \A i \in DOMAIN queues[b] : queues[b][i].job # Q(b).job
      <4>1. ASSUME NEW i \in DOMAIN queues[b] PROVE queues[b][i].job \in JobIds
        <5>1. queues[b][i] \in PieceType
          BY <3>4, <4>1, LenProperties, ElementOfSeq
        <5> QED
          BY <5>1 DEF PieceType
      <4> QED
        BY <4>1, <1>2, <3>3
    <3>6. /\ InOrder(queues[b])
          /\ \A i, j \in DOMAIN queues[b] : queues[b][i].job = queues[b][j].job => i = j
          /\ Range(queues[b]) = PiecesIn(b)
      BY <2>0 DEF FiledIn
    <3>7. /\ InOrder(queues'[b])
          /\ \A i, j \in DOMAIN queues'[b] : queues'[b][i].job = queues'[b][j].job => i = j
          /\ Range(queues'[b]) = Range(queues[b]) \cup {Q(b)}
      BY <1>3, <3>1, <3>3, <3>4, <3>5, <3>6, FilePiece
    <3> QED
      BY <3>2, <3>6, <3>7 DEF FiledIn, InOrder, Range
  <2> QED
    BY <2>1, <2>2
<1> QED
  BY <1>1, <1>5, <1>7 DEF Filed

(* At the end no queue is left.                                            *)
LEMMA FiledFinish == Finish => Filed'
<1> SUFFICES ASSUME Finish PROVE Filed'
  OBVIOUS
<1>1. DOMAIN queues' = {} /\ pc' = "done"
  BY DEF Finish
<1> QED
  BY <1>1 DEF Filed

(* Every step keeps the work filed.                                        *)
LEMMA FiledNext == TypeInv /\ Filed /\ [Next]_vars => Filed'
<1> SUFFICES ASSUME TypeInv, Filed, [Next]_vars PROVE Filed'
  OBVIOUS
<1>1. CASE OpenImage \/ PlanCarve \/ Finish
  BY <1>1, FiledOpenImage, FiledPlanCarve, FiledFinish
<1>2. CASE OpenImageFails \/ SkipUnaligned \/ PlanNothing \/ NextNeedle
  BY <1>2, FiledKept
     DEF OpenImageFails, SkipUnaligned, PlanNothing, NextNeedle, planVars
<1>3. CASE Seek \/ Read
  BY <1>3, FiledKept
     DEF Seek, SeekWork, NoMoreWork, SeekOverrun, Read, ReadBlock, EndOfImage, ReadFails,
         planVars
<1>4. CASE Carve
  BY <1>4, FiledKept
     DEF Carve, CarvePiece, OpenFails, WriteFails, CloseFails, CarveOverrun, EndOfQueue,
         planVars
<1>5. CASE FinishFails \/ CatchSignal \/ UNCHANGED vars
  BY <1>5, FiledKept DEF FinishFails, CatchSignal, vars, planVars
<1> QED
  BY <1>1, <1>2, <1>3, <1>4, <1>5 DEF Next, Step, Plan, Halted

(* Every job has exactly one piece in every block it touches, the right     *)
(* one, and none elsewhere, and every queue is in the order of the          *)
(* operations: whatever is planned, the second pass meets the work of a     *)
(* file where it has the bytes for it.                                      *)
LEMMA FiledInvariant == Spec => []Filed
<1>1. Init => Filed
  BY FiledInit
<1>2. TypeInv /\ Filed /\ [Next]_vars => Filed'
  BY FiledNext
<1> QED
  BY <1>1, <1>2, TypeInvariant, PTL DEF Spec

-----------------------------------------------------------------------------
(***************************************************************************)
(* What is planned lies inside the image: every job begins at a header,    *)
(* and ends at the end of the image at the latest, one byte behind its     *)
(* last one.  With a proper length it does not end before it begins.       *)
(***************************************************************************)
JobInside(job) == job.stop <= img.size /\ job.start < img.size

PlanSound ==
  /\ pc \in {"open", "plan"} =>
       \A n \in Needles : \A i \in DOMAIN headers[n] : headers[n][i] < img.size
  /\ \A k \in JobIds : JobInside(jobs[k])
  /\ ForwardIfProper

(* At the beginning the recorded headers lie in the image.                  *)
LEMMA PlanSoundInit == Init => PlanSound
<1> SUFFICES ASSUME Init PROVE PlanSound
  OBVIOUS
<1>1. JobIds = {}
  BY DEF Init, JobIds
<1>2. PICK im \in Images : img = [size |-> im.size] /\ headers = im.headers
  BY DEF Init
<1>3. img.size \in Nat /\ headers \in [Needles -> Seq(0..(img.size - 1))]
  BY <1>2, ImageAssumption
<1>4. ASSUME NEW n \in Needles, NEW i \in DOMAIN headers[n]
      PROVE  headers[n][i] < img.size
  <2>1. headers[n] \in Seq(0..(img.size - 1))
    BY <1>3
  <2>2. headers[n][i] \in 0..(img.size - 1)
    BY <2>1, ElementOfSeq, LenProperties
  <2> QED
    BY <1>3, <2>2
<1> QED
  BY <1>1, <1>4 DEF PlanSound, ForwardIfProper

(* What neither plans nor searches leaves the plan sound.                   *)
LEMMA PlanSoundKept ==
  ASSUME PlanSound, UNCHANGED <<img, jobs>>,
         pc' \in {"open", "plan"} => pc \in {"open", "plan"} /\ headers' = headers
  PROVE  PlanSound'
BY DEF PlanSound, JobInside, JobIds, ForwardIfProper, ProperLength, RunsForward

(* A job is planned at a header and clipped to the image.                   *)
LEMMA PlanSoundPlanCarve == TypeInv /\ PlanSound /\ PlanCarve => PlanSound'
<1> SUFFICES ASSUME TypeInv, PlanSound, PlanCarve PROVE PlanSound'
  OBVIOUS
<1>1. /\ pc = "plan" /\ pc' = "plan" /\ HasHeader /\ UNCHANGED inVars
      /\ Chosen.stop # 0
  BY DEF PlanCarve
<1>2. jobs \in Seq(JobType) /\ Len(jobs) \in Nat /\ img.size \in Nat
  BY LenProperties DEF TypeInv, TypeOK, PlanTypes, InputTypes
<1>3. PICK k : k = Len(jobs) + 1
  OBVIOUS
<1>4. PICK stop : stop = ClipStop(Chosen.stop, img.size)
  OBVIOUS
<1>5. /\ Len(jobs') = k /\ jobs'[k].start = Start /\ jobs'[k].stop = stop
      /\ jobs'[k].needle = needle
      /\ \A j \in JobIds : jobs'[j] = jobs[j]
  BY <1>2, <1>3, <1>4 DEF PlanCarve, JobIds
<1>6. JobIds' = JobIds \cup {k}
  BY <1>2, <1>3, <1>5 DEF JobIds
<1>7. Start < img.size
  <2>1. headers[needle] \in Seq(Nat) /\ needle \in Needles
    BY <1>1 DEF TypeInv, TypeOK, InputTypes, HasHeader
  <2>2. hidx \in DOMAIN headers[needle]
    <3>1. Len(headers[needle]) \in Nat /\ DOMAIN headers[needle] = 1..Len(headers[needle])
      BY <2>1, LenProperties
    <3> QED
      BY <1>1, <3>1 DEF HasHeader, TypeInv, TypeOK, PlanTypes
  <2> QED
    BY <1>1, <2>1, <2>2 DEF PlanSound, Start
<1>8. /\ Start \in Nat /\ Chosen.stop \in Nat
      /\ Proper(SearchSpec[needle], Start) => Chosen.stop >= Start
  BY <1>1, ChosenType
<1>a. ProperLength(needle) => Start <= stop
  <2>1. SearchSpec[needle] \in LineType
    BY <1>1, SpecAssumption, ElementOfSeq DEF HasHeader, Needles, LineType
  <2>2. PICK long \in Int : long = SearchSpec[needle].length
    BY <2>1 DEF LineType
  <2>3. ProperLength(needle) => long \in 1..(Word - img.size)
    BY <2>2 DEF ProperLength
  <2>4. ProperLength(needle) => long # 0 /\ Start + long <= Word
    BY <1>2, <1>7, <1>8, <2>3, SizeAssumption
  <2>5. ProperLength(needle) => Proper(SearchSpec[needle], Start)
    BY <2>2, <2>4 DEF Proper
  <2> QED
    BY <1>2, <1>4, <1>7, <1>8, <2>5 DEF ClipStop, smaller
<1>b. ForwardIfProper'
  <2>1. ASSUME NEW j \in JobIds', ProperLength(jobs'[j].needle)
        PROVE  jobs'[j].start <= jobs'[j].stop
    <3>1. CASE j = k
      BY <1>5, <1>a, <2>1, <3>1
    <3>2. CASE j # k
      <4>1. j \in JobIds /\ jobs'[j] = jobs[j]
        BY <1>5, <1>6, <3>2
      <4> QED
        BY <2>1, <4>1 DEF PlanSound, ForwardIfProper, RunsForward
    <3> QED
      BY <3>1, <3>2
  <2>2. img' = img
    BY <1>1 DEF inVars
  <2> QED
    BY <2>1, <2>2 DEF ForwardIfProper, ProperLength, RunsForward
<1>9. JobInside(jobs'[k])
  BY <1>2, <1>4, <1>5, <1>7, <1>8 DEF JobInside, ClipStop, smaller
<1>10. \A j \in JobIds' : JobInside(jobs'[j])
  BY <1>5, <1>6, <1>9 DEF PlanSound
<1> QED
  BY <1>1, <1>10, <1>b DEF PlanSound, JobInside, inVars

(* Every step keeps the plan sound: only PlanCarve plans.                   *)
LEMMA PlanSoundNext == TypeInv /\ PlanSound /\ [Next]_vars => PlanSound'
<1> SUFFICES ASSUME TypeInv, PlanSound, [Next]_vars PROVE PlanSound'
  OBVIOUS
<1>1. CASE PlanCarve
  BY <1>1, PlanSoundPlanCarve
<1>2. CASE OpenImage \/ OpenImageFails \/ SkipUnaligned \/ PlanNothing \/ NextNeedle
  BY <1>2, PlanSoundKept
     DEF OpenImage, OpenImageFails, SkipUnaligned, PlanNothing, NextNeedle, inVars, planVars
<1>3. CASE Seek \/ Read \/ Carve \/ Finish \/ FinishFails
  BY <1>3, PlanSoundKept
     DEF Seek, SeekWork, NoMoreWork, SeekOverrun, Read, ReadBlock, EndOfImage,
       ReadFails, Carve, CarvePiece, HasPiece, OpenFails, WriteFails, CloseFails,
       CarveOverrun, EndOfQueue, Finish, FinishFails, inVars, planVars
<1>4. CASE CatchSignal \/ UNCHANGED vars
  BY <1>4, PlanSoundKept DEF CatchSignal, vars, inVars, planVars
<1> QED
  BY <1>1, <1>2, <1>3, <1>4 DEF Next, Step, Plan, Halted

(* The plan is sound in every state.                                        *)
LEMMA PlanSoundInvariant == Spec => []PlanSound
<1>1. Init => PlanSound
  BY PlanSoundInit
<1>2. TypeInv /\ PlanSound /\ [Next]_vars => PlanSound'
  BY PlanSoundNext
<1> QED
  BY <1>1, <1>2, TypeInvariant, PTL DEF Spec

(* Every job has exactly one piece, the right one, in the queue of every   *)
(* block that it touches, and every queue is in order of priority; only a  *)
(* length of 0, or one that reaches past Word, makes a file end before it  *)
(* begins.                                                                 *)
THEOREM WorkIsFiled == Spec => []WorkFiled
<1>1. Filed /\ PlanSound => WorkFiled
  BY DEF Filed, PlanSound, WorkFiled
<1> QED
  BY <1>1, FiledInvariant, PlanSoundInvariant, PTL

-----------------------------------------------------------------------------
(***************************************************************************)
(* The open files.  The count is right because a piece that starts a file  *)
(* never meets it open, and that holds because every open file was started *)
(* in an earlier block, or earlier in the queue of this one.               *)
(***************************************************************************)
Starts == {STARTCARVE, STARTSTOPCARVE}

CanRead == opt.preview \/ filepos < img.size

(* Only the end of the image leaves a buffer short.                         *)
FullBuffer == pc = "work" => bytesread = BufSize \/ ~CanRead

(* The open files began in blocks that have been read.                      *)
Begun ==
  /\ pc \in {"open", "plan"} => open = {}
  /\ pc \in {"seek", "read"} /\ CanRead =>
       \A k \in open : Block(jobs[k].start) < Block(filepos)
  /\ pc = "work" => \A k \in open : Block(jobs[k].start) <= Block(Base)

(* The pieces to come start no file that is open.                           *)
StartsAhead ==
  pc = "work" =>
    \A i \in cursor..Len(Work) : Work[i].op \in Starts => Work[i].job \notin open

CountExact ==
  /\ nopen = Cardinality(open)
  /\ pc \in Running => nopen <= MaxOpen

OpenInv == FullBuffer /\ Begun /\ StartsAhead /\ CountExact

(* The pieces in the queue of a block.                                      *)
LEMMA QueuePieces ==
  ASSUME TypeInv, Filed, NEW b \in DOMAIN queues
  PROVE  /\ Len(queues[b]) \in Nat
         /\ \A i, j \in 1..Len(queues[b]) : queues[b][i].job = queues[b][j].job => i = j
         /\ \A i \in 1..Len(queues[b]) :
              /\ queues[b][i].job \in JobIds
              /\ Touches(queues[b][i].job, b)
              /\ queues[b][i] = PieceOf(queues[b][i].job, b)
<1> DEFINE q == queues[b]
<1>1. q \in Seq(PieceType)
  BY DEF TypeInv, TypeOK, QueueTypes
<1>2. FiledIn(b)
  BY DEF Filed
<1>3. DOMAIN q = 1..Len(q) /\ Len(q) \in Nat
  BY <1>1, LenProperties
<1>4. /\ Range(q) = PiecesIn(b)
      /\ \A i, j \in 1..Len(q) : q[i].job = q[j].job => i = j
  BY <1>2, <1>3 DEF FiledIn
<1> HIDE DEF q
<1>5. ASSUME NEW i \in 1..Len(q)
      PROVE  q[i].job \in JobIds /\ Touches(q[i].job, b) /\ q[i] = PieceOf(q[i].job, b)
  <2>1. q[i] \in PiecesIn(b)
    BY <1>3, <1>4 DEF Range
  <2>2. PICK k \in JobIds : Touches(k, b) /\ q[i] = PieceOf(k, b)
    BY <2>1 DEF PiecesIn
  <2>3. q[i].job = k
    BY <2>2 DEF PieceOf, Piece
  <2> QED
    BY <2>2, <2>3
<1> QED
  BY <1>3, <1>4, <1>5 DEF q

(* A job's first and last byte, and its block.                              *)
LEMMA JobFacts ==
  ASSUME TypeInv, NEW k \in JobIds
  PROVE  /\ jobs[k].start \in Nat /\ jobs[k].stop \in Nat
         /\ Block(jobs[k].start) \in Nat /\ Block(jobs[k].stop) \in Nat
<1>1. jobs[k] \in JobType
  BY ElementOfSeq DEF JobIds, TypeInv, TypeOK, PlanTypes
<1> QED
  BY <1>1, BlockType DEF JobType

(* The job of a piece that starts a file begins in the block of the piece.  *)
LEMMA StartsHere ==
  ASSUME TypeInv, NEW k \in JobIds, NEW b, Touches(k, b), PieceOf(k, b).op \in Starts
  PROVE  Block(jobs[k].start) = b
<1> DEFINE s == Block(jobs[k].start)
           e == Block(jobs[k].stop)
<1>1. b \in {s, e} \cup (s..e) /\ s \in Nat /\ e \in Nat
  BY JobFacts DEF Touches, WorkBlocks
<1>2. PieceOf(k, b).op = IF s = e THEN STARTSTOPCARVE
                         ELSE IF b = s THEN STARTCARVE
                         ELSE IF b = e THEN STOPCARVE
                         ELSE CONTINUECARVE
  BY DEF PieceOf, Piece, OperationIn
<1> HIDE DEF s, e
<1>3. s = e \/ b = s
  BY <1>2 DEF Starts, STARTCARVE, STOPCARVE, STARTSTOPCARVE, CONTINUECARVE
<1> QED
  BY <1>1, <1>3 DEF s

(* A piece that leaves its file open is not in front of the file's begin.   *)
LEMMA StaysBegun ==
  ASSUME TypeInv, NEW k \in JobIds, NEW b, Touches(k, b), ~IsLast(PieceOf(k, b).op)
  PROVE  b \in Int /\ Block(jobs[k].start) <= b
<1> DEFINE s == Block(jobs[k].start)
           e == Block(jobs[k].stop)
<1>1. b \in {s, e} \cup (s..e) /\ s \in Nat /\ e \in Nat
  BY JobFacts DEF Touches, WorkBlocks
<1>2. PieceOf(k, b).op = IF s = e THEN STARTSTOPCARVE
                         ELSE IF b = s THEN STARTCARVE
                         ELSE IF b = e THEN STOPCARVE
                         ELSE CONTINUECARVE
  BY DEF PieceOf, Piece, OperationIn
<1> HIDE DEF s, e
<1>3. s # e /\ (b = s \/ b # e)
  BY <1>2 DEF IsLast
<1> QED
  BY <1>1, <1>3 DEF s

(* A call begins with no file open.                                        *)
LEMMA OpenInit == Init => OpenInv
<1> SUFFICES ASSUME Init PROVE OpenInv
  OBVIOUS
<1>1. pc = "open" /\ open = {} /\ nopen = 0
  BY DEF Init
<1> QED
  BY <1>1, FS_EmptySet, SizeAssumption
     DEF OpenInv, FullBuffer, Begun, StartsAhead, CountExact

(* Steps that touch no file and no buffer, and go on planning or stop.      *)
LEMMA OpenKept ==
  ASSUME TypeInv, OpenInv, UNCHANGED <<open, nopen>>,
         pc' \notin {"seek", "read", "work"}, pc' \in {"open", "plan"} => pc \in {"open", "plan"},
         pc' \in Running => pc \in Running
  PROVE  OpenInv'
BY DEF OpenInv, FullBuffer, Begun, StartsAhead, CountExact

(* Reading a block: the open files began before it, so that none of them is *)
(* started in it.                                                           *)
LEMMA OpenReadBlock == TypeInv /\ Filed /\ OpenInv /\ ReadBlock => OpenInv'
<1> SUFFICES ASSUME TypeInv, Filed, OpenInv, ReadBlock PROVE OpenInv'
  OBVIOUS
<1>0. TypeInv' /\ Filed'
  BY TypeReadBlock, FiledKept DEF ReadBlock, planVars
<1>1. /\ pc = "read" /\ pc' \in {"exit", "work"} /\ Available > 0
      /\ UNCHANGED <<inVars, planVars, queues, fileVars>>
      /\ filepos' = filepos + Available /\ bytesread' = Available /\ cursor' = 1
  BY DEF ReadBlock
<1>2. Available \in 0..BufSize /\ filepos \in Nat /\ img.size \in Nat
  BY AvailableType DEF TypeInv, TypeOK, ReadTypes, InputTypes
<1>3. CanRead
  BY <1>1, <1>2, SizeAssumption DEF CanRead, Available, smaller, larger
<1>4. Base' = filepos
  BY <1>1, <1>2 DEF Base
<1>5. FullBuffer'
  <2>1. opt.preview => Available = BufSize
    BY DEF Available
  <2>2. ~opt.preview => Available = BufSize \/ filepos + Available >= img.size
    BY <1>1, <1>2, SizeAssumption DEF Available, smaller, larger
  <2> QED
    BY <1>1, <1>2, <2>1, <2>2 DEF FullBuffer, CanRead, inVars
<1>6. \A k \in open : Block(jobs[k].start) < Block(filepos)
  BY <1>1, <1>3 DEF OpenInv, Begun
<1>7. \A k \in open : k \in JobIds /\ Block(jobs[k].start) \in Nat
  BY JobFacts DEF TypeInv, TypeOK, FileTypes
<1>8. Block(filepos) \in Nat
  BY <1>2, BlockType
<1>9. Begun'
  <2>1. pc' = "work" => \A k \in open' : Block(jobs'[k].start) <= Block(Base')
    BY <1>1, <1>4, <1>6, <1>7, <1>8 DEF fileVars, planVars
  <2> QED
    BY <1>1, <2>1 DEF Begun, Block
<1>10. StartsAhead'
  <2> SUFFICES ASSUME pc' = "work", NEW i \in cursor'..Len(Work'), Work'[i].op \in Starts
               PROVE  Work'[i].job \notin open'
    BY DEF StartsAhead
  <2> DEFINE b == Block(filepos)
             q == queues[b]
  <2>1. b \in DOMAIN queues
    BY <1>1 DEF TypeInv, HasQueue
  <2>2. Work' = q
    BY <1>1, <1>4 DEF Work, Block
  <2> HIDE DEF b
  <2>3. i \in 1..Len(q) /\ q[i].op \in Starts
    BY <1>1, <2>2
  <2>4. q[i].job \in JobIds /\ Touches(q[i].job, b) /\ q[i] = PieceOf(q[i].job, b)
    BY <2>1, <2>3, QueuePieces
  <2>5. Block(jobs[q[i].job].start) = b
    BY <2>3, <2>4, StartsHere
  <2>6. q[i].job \notin open
    BY <1>6, <1>7, <1>8, <2>5 DEF b
  <2> QED
    BY <1>1, <2>2, <2>6 DEF fileVars
<1>11. CountExact'
  BY <1>1 DEF OpenInv, CountExact, fileVars, Running
<1> QED
  BY <1>5, <1>9, <1>10, <1>11 DEF OpenInv

(* One piece of work.                                                       *)
LEMMA OpenedExact ==
  ASSUME TypeInv, OpenInv, HasPiece
  PROVE  /\ Opened = Cardinality(open \cup {Job})
         /\ NeedsOpen(Job, Op) => Job \notin open
         /\ Cardinality(open \ {Job}) = Opened - 1
         /\ Opened <= MaxOpen + 1
<1>1. IsFiniteSet(open) /\ nopen = Cardinality(open) /\ nopen \in Nat /\ nopen <= MaxOpen
  BY DEF TypeInv, TypeOK, Counted, FileTypes, OpenInv, CountExact, HasPiece, Running
<1>2. Cardinality(open \cup {Job})
        = IF Job \in open THEN Cardinality(open) ELSE Cardinality(open) + 1
  BY <1>1, FS_AddElement
<1>3. Cardinality(open \ {Job})
        = IF Job \in open THEN Cardinality(open) - 1 ELSE Cardinality(open)
  BY <1>1, FS_RemoveElement
<1>4. Op \in Starts => Job \notin open
  <2>1. cursor \in cursor..Len(Work) /\ pc = "work"
    BY PieceFacts DEF HasPiece
  <2> QED
    BY <2>1 DEF OpenInv, StartsAhead, Op, Job
<1>5. NeedsOpen(Job, Op) <=> Job \notin open
  BY <1>4 DEF NeedsOpen, Starts
<1>6. Opened = IF NeedsOpen(Job, Op) THEN nopen + 1 ELSE nopen
  BY <1>1 DEF Opened
<1> QED
  BY <1>1, <1>2, <1>3, <1>5, <1>6, SizeAssumption

(* A piece opens a file that is not open, or closes one that is.           *)
LEMMA OpenCarvePiece == TypeInv /\ Filed /\ OpenInv /\ CarvePiece => OpenInv'
<1> SUFFICES ASSUME TypeInv, Filed, OpenInv, CarvePiece PROVE OpenInv'
  OBVIOUS
<1>0. HasPiece /\ pc = "work"
  BY DEF CarvePiece, HasPiece
<1>1. /\ pc' = pc /\ cursor' = cursor + 1
      /\ UNCHANGED <<inVars, planVars, queues, filepos, bytesread>>
      /\ \/ Closes(Op, Opened) /\ open' = open \ {Job} /\ nopen' = Opened - 1
         \/ ~Closes(Op, Opened) /\ open' = open \cup {Job} /\ nopen' = Opened
  BY DEF CarvePiece
<1> DEFINE b == Block(Base)
<1>2. Base' = Base /\ Work' = Work /\ b' = b
  BY <1>1 DEF Base, Work, Block
<1>3. b \in DOMAIN queues /\ Work = queues[b]
  BY <1>0 DEF TypeInv, HasQueue, Work
<1>4. cursor \in 1..Len(Work) /\ Len(Work) \in Nat
  BY <1>0, PieceFacts
<1> HIDE DEF b
<1>5. /\ \A i, j \in 1..Len(Work) : Work[i].job = Work[j].job => i = j
      /\ Job \in JobIds /\ Touches(Job, b) /\ Op = PieceOf(Job, b).op
  BY <1>3, <1>4, QueuePieces DEF Job, Op
<1>6. FullBuffer'
  BY <1>1 DEF OpenInv, FullBuffer, CanRead, inVars
<1>7. Begun'
  <2>1. Closes(Op, Opened) \/ Block(jobs[Job].start) <= b
    BY <1>5, StaysBegun DEF Closes
  <2>2. \A k \in open' : Block(jobs[k].start) <= b
    BY <1>0, <1>1, <2>1 DEF OpenInv, Begun, b
  <2> QED
    BY <1>0, <1>1, <1>2, <2>2 DEF Begun, Block, planVars, b
<1>8. StartsAhead'
  <2> SUFFICES ASSUME NEW i \in (cursor + 1)..Len(Work), Work[i].op \in Starts
               PROVE  Work[i].job \notin open'
    BY <1>1, <1>2 DEF StartsAhead
  <2>1. i \in 1..Len(Work) /\ i \in cursor..Len(Work) /\ i # cursor
    BY <1>4
  <2>2. Work[i].job \notin open
    BY <1>0, <2>1 DEF OpenInv, StartsAhead
  <2>3. Work[i].job # Job
    BY <1>4, <1>5, <2>1 DEF Job
  <2> QED
    BY <1>1, <2>2, <2>3
<1>9. CountExact'
  <2>1. nopen' = Cardinality(open')
    BY <1>0, <1>1, OpenedExact
  <2>2. nopen' <= MaxOpen
    <3>1. Opened \in Nat /\ Opened <= MaxOpen + 1
      BY <1>0, OpenedCounts, OpenedExact
    <3>2. ~Closes(Op, Opened) => ~(Opened > MaxOpen)
      BY DEF Closes
    <3> QED
      BY <1>1, <3>1, <3>2, SizeAssumption
  <2> QED
    BY <2>1, <2>2 DEF CountExact
<1> QED
  BY <1>6, <1>7, <1>8, <1>9 DEF OpenInv

(* The end of a queue: if there is more to read, the next block is behind   *)
(* everything that is open.                                                 *)
LEMMA OpenEndOfQueue == TypeInv /\ OpenInv /\ EndOfQueue => OpenInv'
<1> SUFFICES ASSUME TypeInv, OpenInv, EndOfQueue PROVE OpenInv'
  OBVIOUS
<1>1. /\ pc = "work" /\ pc' = "seek"
      /\ UNCHANGED <<inVars, planVars, queues, readVars, fileVars>>
  BY DEF EndOfQueue
<1>2. filepos \in Nat /\ bytesread \in Nat /\ bytesread <= filepos
  BY SizeAssumption DEF TypeInv, TypeOK, ReadTypes
<1>3. ASSUME CanRead, NEW k \in open
      PROVE  Block(jobs[k].start) < Block(filepos)
  <2>1. bytesread = BufSize
    BY <1>1, <1>3 DEF OpenInv, FullBuffer
  <2>2. Base \in Nat /\ filepos = Base + BufSize
    BY <1>2, <2>1 DEF Base
  <2>3. Block(filepos) = Block(Base) + 1
    BY <2>2, NextBlock
  <2>4. Block(jobs[k].start) <= Block(Base)
    BY <1>1, <1>3 DEF OpenInv, Begun
  <2>5. Block(jobs[k].start) \in Nat /\ Block(Base) \in Nat
    BY <1>3, <2>2, BlockType, JobFacts DEF TypeInv, TypeOK, FileTypes
  <2> QED
    BY <2>3, <2>4, <2>5
<1>4. Begun'
  BY <1>1, <1>3 DEF Begun, CanRead, Block, planVars, fileVars, readVars, inVars
<1> QED
  BY <1>1, <1>4
     DEF OpenInv, FullBuffer, StartsAhead, CountExact, Running, fileVars

(* The big seek passes no piece of an open file.                           *)
LEMMA OpenSeekWork == TypeInv /\ OpenInv /\ SeekWork => OpenInv'
<1> SUFFICES ASSUME TypeInv, OpenInv, SeekWork PROVE OpenInv'
  OBVIOUS
<1>1. /\ pc = "seek" /\ pc' = "read"
      /\ UNCHANGED <<inVars, planVars, queues, fileVars>>
      /\ filepos' = filepos + Least(SeekTargets) * BufSize
  BY DEF SeekWork
<1>2. filepos \in Nat /\ filepos' \in Nat /\ filepos <= filepos'
  <2>1. Least(SeekTargets) \in Nat /\ filepos \in Nat
    BY SeekTargetType DEF SeekWork, TypeInv, TypeOK, ReadTypes
  <2>2. Least(SeekTargets) * BufSize \in Nat
    BY <2>1, SizeAssumption
  <2> QED
    BY <1>1, <2>1, <2>2
<1>3. Block(filepos) \in Nat /\ Block(filepos') \in Nat /\ Block(filepos) <= Block(filepos')
  BY <1>2, BlockType, BlockMonotone
<1>4. CanRead' => CanRead
  BY <1>1, <1>2 DEF CanRead, inVars, TypeInv, TypeOK, InputTypes
<1>5. ASSUME CanRead', NEW k \in open
      PROVE  Block(jobs[k].start) < Block(filepos')
  <2>1. Block(jobs[k].start) < Block(filepos)
    BY <1>1, <1>4, <1>5 DEF OpenInv, Begun
  <2>2. Block(jobs[k].start) \in Nat
    BY <1>5, JobFacts DEF TypeInv, TypeOK, FileTypes
  <2> QED
    BY <1>3, <2>1, <2>2
<1>6. Begun'
  BY <1>1, <1>5 DEF Begun, Block, planVars, fileVars
<1> QED
  BY <1>1, <1>6
     DEF OpenInv, FullBuffer, StartsAhead, CountExact, Running, fileVars

(* Planning opens nothing.                                                  *)
LEMMA OpenNextNeedle == OpenInv /\ NextNeedle => OpenInv'
<1> SUFFICES ASSUME OpenInv, NextNeedle PROVE OpenInv'
  OBVIOUS
<1>1. /\ pc = "plan" /\ pc' \in {"plan", "seek"} /\ UNCHANGED <<open, nopen>>
  BY DEF NextNeedle, fileVars
<1>2. open = {} /\ open' = {}
  BY <1>1 DEF OpenInv, Begun
<1> QED
  BY <1>1, <1>2 DEF OpenInv, FullBuffer, Begun, StartsAhead, CountExact, Running

(* An error ends the call with the count as it is.                         *)
LEMMA OpenFailedWrite ==
  ASSUME TypeInv, OpenInv, WriteFails \/ CloseFails
  PROVE  OpenInv'
<1>1. HasPiece /\ open' = open \cup {Job} /\ nopen' = Opened /\ pc' = "FILE_WRITE"
  BY DEF WriteFails, CloseFails
<1>2. nopen' = Cardinality(open')
  BY <1>1, OpenedExact
<1> QED
  BY <1>1, <1>2 DEF OpenInv, FullBuffer, Begun, StartsAhead, CountExact, Running

(* A signal only sets its flag.                                            *)
LEMMA OpenSignal == OpenInv /\ UNCHANGED <<inVars, pc, planVars, queues, readVars, fileVars>>
                      => OpenInv'
BY DEF OpenInv, FullBuffer, Begun, StartsAhead, CountExact, CanRead, Base, Work, Block,
       inVars, planVars, readVars, fileVars

(* Every step keeps the count of open files exact.                         *)
LEMMA OpenNext == TypeInv /\ Filed /\ OpenInv /\ [Next]_vars => OpenInv'
<1> SUFFICES ASSUME TypeInv, Filed, OpenInv, [Next]_vars PROVE OpenInv'
  OBVIOUS
<1>1. CASE OpenImage \/ OpenImageFails \/ SkipUnaligned \/ PlanNothing \/ PlanCarve
  BY <1>1, OpenKept
     DEF OpenImage, OpenImageFails, SkipUnaligned, PlanNothing, PlanCarve, fileVars,
         Running
<1>2. CASE NextNeedle
  BY <1>2, OpenNextNeedle
<1>3. CASE NoMoreWork \/ SeekOverrun \/ EndOfImage \/ ReadFails
  BY <1>3, OpenKept DEF NoMoreWork, SeekOverrun, EndOfImage, ReadFails, fileVars, Running
<1>4. CASE OpenFails \/ CarveOverrun \/ Finish \/ FinishFails
  BY <1>4, OpenKept DEF OpenFails, CarveOverrun, Finish, FinishFails, fileVars, Running
<1>5. CASE SeekWork \/ ReadBlock \/ CarvePiece \/ EndOfQueue
  BY <1>5, OpenSeekWork, OpenReadBlock, OpenCarvePiece, OpenEndOfQueue
<1>6. CASE WriteFails \/ CloseFails
  BY <1>6, OpenFailedWrite
<1>7. CASE CatchSignal \/ UNCHANGED vars
  BY <1>7, OpenSignal DEF CatchSignal, vars
<1> QED
  BY <1>1, <1>2, <1>3, <1>4, <1>5, <1>6, <1>7 DEF Next, Step, Plan, Seek, Read, Carve, Halted

(* So it is exact in every state.                                          *)
LEMMA OpenInvariant == Spec => []OpenInv
<1>1. Init => OpenInv
  BY OpenInit
<1>2. TypeInv /\ Filed /\ OpenInv /\ [Next]_vars => OpenInv'
  BY OpenNext
<1> QED
  BY <1>1, <1>2, TypeInvariant, FiledInvariant, PTL DEF Spec

(* CURRENTFILESOPEN is the number of open files, and between two pieces of  *)
(* work it is at most MAX_FILES_TO_OPEN, however many files are in progress *)
(* and however often each of them is closed and opened again.               *)
THEOREM OpenFilesCounted == Spec => []OpenBound
<1>1. OpenInv => OpenBound
  BY DEF OpenInv, CountExact, OpenBound
<1> QED
  BY <1>1, OpenInvariant, PTL

-----------------------------------------------------------------------------
(***************************************************************************)
(* The choice of an end, without prevstopindex.                            *)
(***************************************************************************)
Footers(foot) == {foot[j] : j \in DOMAIN foot}
Past(foot, start) == {f \in Footers(foot) : f > start}

Near(line, foot, start) ==
  {f \in Past(foot, start) : /\ FooterStop(line, f) < start + line.length
                             /\ \A g \in Past(foot, start) : f <= g}

Reach(line, foot, start) ==
  {f \in Past(foot, start) : f - start <= line.length}

FootAscends(foot) == \A i, j \in DOMAIN foot : i < j => foot[i] <= foot[j]

(* The footers before index prev do not lie past start.                    *)
Passed(foot, prev, start) == \A j \in DOMAIN foot : j < prev => foot[j] <= start

(* The first footer past the header is the one FirstPast() stops at, and   *)
(* the footers before it do not lie past the header.                       *)
LEMMA FirstPastIs ==
  ASSUME NEW foot \in Seq(Nat), FootAscends(foot), NEW start \in Nat,
         NEW prev \in Nat \ {0}, Passed(foot, prev, start)
  PROVE  LET first == FirstPast(foot, start, prev)
         IN  /\ first > Len(foot) => Past(foot, start) = {}
             /\ first <= Len(foot) => /\ foot[first] \in Past(foot, start)
                                      /\ \A g \in Past(foot, start) : foot[first] <= g
             /\ Passed(foot, first, start)
             /\ first \in Nat \ {0} /\ first <= Len(foot) + 1
<1>0. PICK l \in Nat : l = Len(foot)
  BY LenProperties
<1>1. DOMAIN foot = 1..l /\ \A j \in 1..l : foot[j] \in Nat
  BY <1>0, ElementOfSeq, LenProperties
<1> DEFINE past == {j \in prev..l : foot[j] > start}
<1>2. FirstPast(foot, start, prev) = IF past = {} THEN l + 1 ELSE Least(past)
  BY <1>0 DEF FirstPast
<1>3. past \in SUBSET Nat /\ past \subseteq 1..l
  OBVIOUS
<1>4. \A j \in 1..l : foot[j] > start => j \in past
  BY <1>1 DEF Passed
<1>5. CASE past = {}
  <2>1. FirstPast(foot, start, prev) = l + 1
    BY <1>2, <1>5
  <2>2. \A j \in 1..l : foot[j] <= start
    BY <1>1, <1>4, <1>5
  <2>3. Past(foot, start) = {}
    BY <1>1, <2>2 DEF Past, Footers
  <2>4. Passed(foot, l + 1, start)
    BY <1>1, <2>2 DEF Passed
  <2> QED
    BY <1>0, <2>1, <2>3, <2>4
<1>6. CASE past # {}
  <2>1. PICK m \in past : /\ m = FirstPast(foot, start, prev)
                          /\ \A x \in past : m <= x
    BY <1>2, <1>3, <1>6, LeastType
  <2>2. m \in 1..l /\ foot[m] > start
    BY <1>3, <2>1
  <2>3. \A j \in 1..l : j < m => foot[j] <= start
    BY <1>1, <1>3, <1>4, <2>1, <2>2
  <2>4. \A j \in 1..l : foot[j] > start => foot[m] <= foot[j]
    <3>1. ASSUME NEW j \in 1..l, foot[j] > start PROVE foot[m] <= foot[j]
      <4>1. j \in past
        BY <1>4, <3>1
      <4>2. m <= j
        BY <2>1, <4>1
      <4>3. CASE m = j
        BY <1>1, <2>2, <4>3
      <4>4. CASE m < j
        BY <1>1, <2>2, <4>4 DEF FootAscends
      <4> QED
        BY <2>2, <4>2, <4>3, <4>4
    <3> QED
      BY <3>1
  <2>5. foot[m] \in Past(foot, start) /\ \A g \in Past(foot, start) : foot[m] <= g
    BY <1>1, <2>2, <2>4 DEF Past, Footers
  <2>6. Passed(foot, m, start)
    BY <1>1, <2>3 DEF Passed
  <2>7. m \in Nat \ {0} /\ m <= l + 1 /\ ~(m > l)
    BY <2>2
  <2> QED
    BY <1>0, <2>1, <2>5, <2>6, <2>7
<1> QED
  BY <1>5, <1>6

(* FORWARD and FORWARD_NEXT end at the nearest footer past the header      *)
(* (dig.c:694-763).                                                        *)
LEMMA ForwardIdeal ==
  ASSUME NEW line \in LineType, NEW foot \in Seq(Nat), FootAscends(foot),
         NEW start \in Nat, NEW prev \in Nat \ {0}, Passed(foot, prev, start),
         NEW missing \in BOOLEAN
  PROVE  LET c    == ForwardChoice(line, foot, start, prev, missing)
             near == Near(line, foot, start)
         IN  /\ c.stop = IF near # {} THEN FooterStop(line, CHOOSE f \in near : TRUE)
                         ELSE IF line.searchtype = "FORWARD_NEXT" \/ missing
                           THEN MaxStop(line, start)
                         ELSE 0
             /\ Passed(foot, c.prev, start)
<1> DEFINE c     == ForwardChoice(line, foot, start, prev, missing)
           near  == Near(line, foot, start)
<1>a. PICK first : first = FirstPast(foot, start, prev)
  OBVIOUS
<1>b. PICK l \in Nat : l = Len(foot)
  BY LenProperties
<1>1. /\ first > l => Past(foot, start) = {}
      /\ first <= l => /\ foot[first] \in Past(foot, start)
                       /\ \A g \in Past(foot, start) : foot[first] <= g
      /\ Passed(foot, first, start)
      /\ first \in Nat \ {0} /\ first <= l + 1
  BY <1>a, <1>b, FirstPastIs
<1> DEFINE next == larger(prev, first - 1)
<1>2. c = IF first > l
            THEN Choice(IF line.searchtype = "FORWARD_NEXT" \/ missing
                          THEN MaxStop(line, start) ELSE 0, FALSE, next)
          ELSE IF Fits(line, start, FooterStop(line, foot[first]))
            THEN Choice(FooterStop(line, foot[first]), FALSE, next)
          ELSE IF line.searchtype = "FORWARD_NEXT" \/ missing
            THEN Choice(MaxStop(line, start), TRUE, next)
          ELSE Choice(0, FALSE, next)
  BY <1>a, <1>b DEF ForwardChoice
<1>3. Passed(foot, next, start)
  <2>1. next = prev \/ next = first - 1
    BY DEF larger
  <2>2. ASSUME NEW j \in DOMAIN foot, j < first - 1 PROVE foot[j] <= start
    <3>1. j \in Nat
      BY LenProperties
    <3>2. j < first
      BY <1>1, <2>2, <3>1
    <3> QED
      BY <1>1, <3>2 DEF Passed
  <2> QED
    BY <2>1, <2>2 DEF Passed
<1>4. c.prev = next
  BY <1>2 DEF Choice
<1> HIDE DEF next, c
<1>5. Past(foot, start) \subseteq Nat
  BY ElementOfSeq, LenProperties DEF Past, Footers
<1>6. CASE first > l
  <2>1. near = {}
    BY <1>1, <1>6 DEF Near
  <2>2. c.stop = IF line.searchtype = "FORWARD_NEXT" \/ missing THEN MaxStop(line, start) ELSE 0
    BY <1>2, <1>6 DEF Choice
  <2> QED
    BY <1>3, <1>4, <2>1, <2>2 DEF c
<1>7. CASE ~(first > l)
  <2>0. PICK f \in Nat : f = foot[first]
    BY <1>1, <1>5, <1>7
  <2>1. f \in Past(foot, start) /\ \A g \in Past(foot, start) : f <= g
    BY <1>1, <1>7, <2>0
  <2>2. near = IF FooterStop(line, f) < start + line.length THEN {f} ELSE {}
    <3>1. ASSUME NEW g \in near PROVE g = f
      BY <1>5, <2>1 DEF Near
    <3>2. near \subseteq {f}
      BY <3>1
    <3>3. f \in near <=> FooterStop(line, f) < start + line.length
      BY <2>1 DEF Near
    <3> QED
      BY <3>2, <3>3, Zenon
  <2>3. Fits(line, start, FooterStop(line, f)) <=> FooterStop(line, f) < start + line.length
    <3>1. line.length \in Nat /\ line.endlength \in Nat
      BY DEF LineType
    <3>2. PICK s \in Int : s = FooterStop(line, f)
      BY <3>1 DEF FooterStop
    <3>3. s - start + 1 <= line.length <=> s < start + line.length
      BY <3>1
    <3> QED
      BY <3>2, <3>3 DEF Fits
  <2> HIDE DEF near
  <2>4. CASE FooterStop(line, f) < start + line.length
    <3>1. near = {f}
      BY <2>2, <2>4
    <3>2. near # {} /\ (CHOOSE g \in near : TRUE) = f
      BY <3>1
    <3>3. c.stop = FooterStop(line, f)
      BY <1>2, <1>7, <2>0, <2>3, <2>4 DEF Choice
    <3> QED
      BY <1>3, <1>4, <3>2, <3>3 DEF c, near
  <2>5. CASE ~(FooterStop(line, f) < start + line.length)
    <3>1. near = {}
      BY <2>2, <2>5
    <3>2. c.stop = IF line.searchtype = "FORWARD_NEXT" \/ missing THEN MaxStop(line, start) ELSE 0
      BY <1>2, <1>7, <2>0, <2>3, <2>5 DEF Choice
    <3> QED
      BY <1>3, <1>4, <3>1, <3>2 DEF c, near
  <2> QED
    BY <2>4, <2>5
<1> QED
  BY <1>6, <1>7

-----------------------------------------------------------------------------
(* The database in ascending order, each header once: what DigImage        *)
(* records of headers as long as the longest needle.                       *)
AscendingDatabase ==
  \A n \in Needles :
    /\ \A i, j \in DOMAIN headers[n] : i < j => headers[n][i] < headers[n][j]
    /\ \A i, j \in DOMAIN footers[n] : i < j => footers[n][i] <= footers[n][j]

(* The headers that have been planned, and the others of their type.       *)
Planning == pc \in {"open", "plan", "seek", "read", "work", "finish"}

Done(n, i) == pc \in {"open", "plan"} => n < needle \/ (n = needle /\ i < hidx)

(* The footers passed over are of no use for the headers to come.          *)
FootersPassed ==
  pc \in {"open", "plan"} /\ needle \in Needles =>
    \A i \in DOMAIN headers[needle] : \A j \in DOMAIN footers[needle] :
      i >= hidx /\ j < prevstop => footers[needle][j] <= headers[needle][i]

(* A job is for a header that is worth it, and ends where it should.       *)
JobsIdeal ==
  \A k \in JobIds :
    LET n == jobs[k].needle  h == jobs[k].start
    IN  /\ n \in Needles
        /\ \E i \in DOMAIN headers[n] : Done(n, i) /\ headers[n][i] = h
        /\ Worth(n, h) /\ jobs[k].stop = ClipStop(Ideal(n, h), img.size)

JobsComplete ==
  \A n \in Needles : \A i \in DOMAIN headers[n] :
    Done(n, i) /\ Worth(n, headers[n][i]) =>
      \E k \in JobIds : jobs[k].needle = n /\ jobs[k].start = headers[n][i]

JobsOnce ==
  \A j, k \in JobIds :
    jobs[j].start = jobs[k].start /\ jobs[j].needle = jobs[k].needle => j = k

IdealInv ==
  Planning => AscendingDatabase /\ FootersPassed /\ JobsIdeal /\ JobsComplete /\ JobsOnce

(* REVERSE ends at the farthest footer within length (dig.c:765-788).       *)
LEMMA ReverseIdeal ==
  ASSUME NEW line \in LineType, NEW foot \in Seq(Nat), FootAscends(foot),
         NEW start \in Nat, NEW prev \in Nat \ {0}, Passed(foot, prev, start)
  PROVE  LET c     == ReverseChoice(line, foot, start, prev)
             reach == Reach(line, foot, start)
         IN  /\ c.stop = IF reach = {} THEN 0 ELSE Greatest(reach) + line.endlength - 1
             /\ Passed(foot, c.prev, start)
<1>0. PICK l \in Nat : l = Len(foot)
  BY LenProperties
<1>1. DOMAIN foot = 1..l /\ \A j \in 1..l : foot[j] \in Nat
  BY <1>0, ElementOfSeq, LenProperties
<1>2. PICK long \in Nat : long = line.length
  BY DEF LineType
<1> DEFINE far    == {j \in prev..l : foot[j] > start + long}
           halt   == IF far = {} THEN l + 1 ELSE Least(far)
           match  == {j \in prev..(halt - 1) : foot[j] > start}
           passed == {j \in prev..(halt - 1) : foot[j] <= start}
           reach  == Reach(line, foot, start)
<1>3. ReverseChoice(line, foot, start, prev)
        = Choice(IF match = {} THEN 0 ELSE foot[Greatest(match)] + line.endlength - 1,
                 FALSE, IF passed = {} THEN prev ELSE Greatest(passed))
  BY <1>0, <1>2 DEF ReverseChoice
<1>4. /\ halt \in Nat /\ halt <= l + 1
      /\ \A j \in 1..l : j >= prev /\ j < halt => foot[j] <= start + long
      /\ \A j \in 1..l : j >= halt => foot[j] > start + long
  <2>1. far \in SUBSET Nat /\ far \subseteq 1..l
    OBVIOUS
  <2>2. CASE far = {}
    <3>1. halt = l + 1
      BY <2>2
    <3>2. \A j \in 1..l : j >= prev => foot[j] <= start + long
      BY <1>1, <2>2
    <3> HIDE DEF halt, far
    <3>3. \A j \in 1..l : ~(j >= l + 1)
      OBVIOUS
    <3> QED
      BY <3>1, <3>2, <3>3
  <2>3. CASE far # {}
    <3>1. PICK h \in far : h = halt /\ \A x \in far : h <= x
      BY <2>1, <2>3, LeastType
    <3>2. h \in 1..l /\ foot[h] > start + long
      BY <2>1, <3>1
    <3>3. ASSUME NEW j \in 1..l, j >= prev, j < h PROVE foot[j] <= start + long
      <4>1. j \notin far
        <5> HIDE DEF far, halt
        <5> QED
          BY <2>1, <3>1, <3>3
      <4> QED
        BY <1>1, <3>3, <4>1
    <3>4. ASSUME NEW j \in 1..l, j >= h PROVE foot[j] > start + long
      <4>1. CASE j = h
        BY <3>2, <4>1
      <4>2. CASE h < j
        <5>1. foot[h] <= foot[j]
          BY <1>1, <3>2, <4>2 DEF FootAscends
        <5> QED
          BY <1>1, <3>2, <5>1
      <4> QED
        BY <3>2, <3>4, <4>1, <4>2
    <3> HIDE DEF halt, far
    <3> QED
      BY <3>1, <3>2, <3>3, <3>4
  <2> QED
    BY <2>2, <2>3
<1> HIDE DEF halt
<1>5. match \subseteq 1..l /\ passed \subseteq 1..l
  BY <1>4
<1>6. \A j \in 1..l : j \in match <=> foot[j] \in reach
  <2>1. ASSUME NEW j \in 1..l PROVE j \in match <=> foot[j] \in reach
    <3>1. foot[j] \in Nat /\ foot[j] \in Footers(foot)
      BY <1>1 DEF Footers
    <3>2. foot[j] \in reach <=> foot[j] > start /\ foot[j] <= start + long
      BY <1>2, <3>1 DEF Reach, Past
    <3>3. foot[j] > start => j >= prev
      BY <1>1, <3>1 DEF Passed
    <3> QED
      BY <1>4, <3>1, <3>2, <3>3
  <2> QED
    BY <2>1
<1>7. reach \subseteq {foot[j] : j \in match} /\ reach \in SUBSET Nat
      /\ \A f \in reach : f <= start + long
  <2>1. ASSUME NEW f \in reach
        PROVE  f \in {foot[j] : j \in match} /\ f \in Nat /\ f <= start + long
    <3>1. PICK j \in 1..l : f = foot[j]
      BY <1>1 DEF Reach, Past, Footers
    <3>2. f \in Nat
      BY <1>1, <3>1
    <3> QED
      BY <1>2, <1>6, <3>1, <3>2 DEF Reach
  <2> QED
    BY <2>1
<1> HIDE DEF match, passed, reach
<1>8. (IF match = {} THEN 0 ELSE foot[Greatest(match)] + line.endlength - 1)
        = IF reach = {} THEN 0 ELSE Greatest(reach) + line.endlength - 1
  <2>1. CASE match = {}
    BY <1>7, <2>1
  <2>2. CASE match # {}
    <3>1. match \in SUBSET Nat /\ \A j \in match : j <= l
      BY <1>5
    <3>2. PICK m \in match : m = Greatest(match) /\ \A j \in match : j <= m
      BY <2>2, <3>1, GreatestType
    <3>3. m \in 1..l /\ foot[m] \in reach
      BY <1>5, <1>6, <3>2
    <3>4. PICK g \in reach : g = Greatest(reach) /\ \A f \in reach : f <= g
      <4>1. start + long \in Nat
        OBVIOUS
      <4> QED
        BY <1>7, <3>3, <4>1, GreatestType
    <3>5. PICK j \in match : g = foot[j]
      BY <1>7
    <3>6. j \in 1..l /\ j <= m
      BY <1>5, <3>2
    <3>7. foot[j] <= foot[m]
      <4>1. CASE j = m
        BY <1>1, <3>3, <4>1
      <4>2. CASE j < m
        BY <1>1, <3>3, <3>6, <4>2 DEF FootAscends
      <4> QED
        BY <3>3, <3>6, <4>1, <4>2
    <3>8. foot[m] <= g /\ foot[m] \in Nat /\ g \in Nat
      BY <1>1, <1>7, <3>3, <3>4
    <3>9. foot[m] = g
      BY <3>5, <3>7, <3>8
    <3> QED
      BY <2>2, <3>2, <3>3, <3>4, <3>9
  <2> QED
    BY <2>1, <2>2
<1>9. Passed(foot, IF passed = {} THEN prev ELSE Greatest(passed), start)
  <2>1. CASE passed = {}
    BY <2>1
  <2>2. CASE passed # {}
    <3>1. passed \in SUBSET Nat /\ \A j \in passed : j <= l
      BY <1>5
    <3>2. PICK p \in passed : p = Greatest(passed)
      BY <2>2, <3>1, GreatestType
    <3>3. p \in 1..l /\ foot[p] <= start
      BY <1>5, <3>2 DEF passed
    <3>4. ASSUME NEW j \in 1..l, j < p PROVE foot[j] <= start
      <4>1. foot[j] <= foot[p]
        BY <1>1, <3>3, <3>4 DEF FootAscends
      <4> QED
        BY <1>1, <3>3, <4>1
    <3> QED
      BY <1>1, <2>2, <3>2, <3>4 DEF Passed
  <2> QED
    BY <2>1, <2>2
<1>10. /\ ReverseChoice(line, foot, start, prev).stop
            = IF reach = {} THEN 0 ELSE Greatest(reach) + line.endlength - 1
       /\ ReverseChoice(line, foot, start, prev).prev
            = IF passed = {} THEN prev ELSE Greatest(passed)
  BY <1>3, <1>8 DEF Choice
<1> QED
  BY <1>9, <1>10 DEF reach

(* With the footers before prevstopindex out of use, the end the code      *)
(* chooses is the ideal one, and prevstopindex passes over nothing that a  *)
(* header at this place or behind it could use.                            *)
LEMMA ChosenIdeal ==
  ASSUME TypeInv, HasHeader, AscendingDatabase,
         Passed(footers[needle], prevstop, Start)
  PROVE  /\ Chosen.stop = Ideal(needle, Start)
         /\ Passed(footers[needle], Chosen.prev, Start)
<1>1. needle \in Needles /\ Start \in Nat
  BY ChosenType DEF HasHeader
<1>2. PICK line \in LineType : line = SearchSpec[needle]
  BY <1>1, SpecAssumption, ElementOfSeq DEF Needles, LineType
<1>3. PICK foot \in Seq(Nat) : foot = footers[needle]
  BY <1>1 DEF TypeInv, TypeOK, InputTypes
<1>4. PICK start \in Nat : start = Start
  BY <1>1
<1>5. PICK prev \in Nat \ {0} : prev = prevstop
  BY DEF TypeInv, TypeOK, PlanTypes
<1>6. PICK missing \in BOOLEAN : missing = opt.missingFooters
  BY OptionAssumption DEF TypeInv, TypeOK, InputTypes
<1>7. FootAscends(foot) /\ Passed(foot, prev, start)
  BY <1>1, <1>3, <1>4, <1>5 DEF AscendingDatabase, FootAscends
<1>8. Ideal(needle, start)
        = IF line.endlength = 0 THEN MaxStop(line, start)
          ELSE IF line.searchtype = "REVERSE"
            THEN IF Reach(line, foot, start) = {} THEN 0
                   ELSE Greatest(Reach(line, foot, start)) + line.endlength - 1
          ELSE IF Near(line, foot, start) # {}
            THEN FooterStop(line, CHOOSE f \in Near(line, foot, start) : TRUE)
          ELSE IF line.searchtype = "FORWARD_NEXT" \/ missing
            THEN MaxStop(line, start)
          ELSE 0
  BY <1>2, <1>3, <1>6 DEF Ideal, Near, Reach, Past, Footers
<1>9. Chosen = Choose(line, foot, start, prev, missing)
  BY <1>2, <1>3, <1>4, <1>5, <1>6 DEF Chosen
<1>10. CASE line.endlength = 0
  BY <1>3, <1>4, <1>5, <1>7, <1>8, <1>9, <1>10 DEF Choose, Choice
<1>11. CASE line.endlength # 0 /\ line.searchtype = "REVERSE"
  BY <1>3, <1>4, <1>7, <1>8, <1>9, <1>11, ReverseIdeal DEF Choose
<1>12. CASE line.endlength # 0 /\ line.searchtype # "REVERSE"
  BY <1>3, <1>4, <1>7, <1>8, <1>9, <1>12, ForwardIdeal DEF Choose
<1> QED
  BY <1>10, <1>11, <1>12

-----------------------------------------------------------------------------
(***************************************************************************)
(* The steps.                                                              *)
(***************************************************************************)
(* What IdealInv depends on.                                               *)
LEMMA IdealKept ==
  ASSUME IdealInv, UNCHANGED <<img, opt, jobs>>,
         Planning' => /\ Planning /\ UNCHANGED <<headers, footers>>
                      /\ \/ UNCHANGED <<pc, needle, hidx, prevstop>>
                         \/ pc = "open" /\ pc' = "plan" /\ UNCHANGED <<needle, hidx, prevstop>>
                         \/ pc \notin {"open", "plan"} /\ pc' \notin {"open", "plan"}
  PROVE  IdealInv'
<1> SUFFICES ASSUME Planning' PROVE IdealInv'
  BY DEF IdealInv
<1>1. /\ AscendingDatabase /\ FootersPassed /\ JobsIdeal /\ JobsComplete /\ JobsOnce
      /\ UNCHANGED <<headers, footers>>
  BY DEF IdealInv
<1>2. JobIds' = JobIds
  BY DEF JobIds
<1>3. \A n, i : Done(n, i)' <=> Done(n, i)
  BY DEF Done
<1>4. \A n, h : Ideal(n, h)' = Ideal(n, h)
  BY <1>1 DEF Ideal
<1>5. \A n, h : Worth(n, h)' <=> Worth(n, h)
  BY <1>4 DEF Worth
<1>6. AscendingDatabase'
  BY <1>1 DEF AscendingDatabase
<1>7. FootersPassed'
  BY <1>1 DEF FootersPassed
<1>8. JobsIdeal'
  BY <1>1, <1>2, <1>3, <1>4, <1>5 DEF JobsIdeal
<1>9. JobsComplete'
  BY <1>1, <1>2, <1>3, <1>5 DEF JobsComplete
<1>10. JobsOnce'
  BY <1>1, <1>2 DEF JobsOnce
<1> QED
  BY <1>6, <1>7, <1>8, <1>9, <1>10 DEF IdealInv

(* Before the planning nothing is planned and nothing passed over.         *)
LEMMA IdealInit == Init /\ AscendingDatabase => IdealInv
<1> SUFFICES ASSUME Init, AscendingDatabase PROVE IdealInv
  OBVIOUS
<1>1. jobs = <<>> /\ pc = "open" /\ needle = 1 /\ hidx = 1 /\ prevstop = 1
  BY DEF Init
<1>2. JobIds = {}
  BY <1>1 DEF JobIds
<1>3. \A n \in Needles : headers[n] \in Seq(Int) /\ footers[n] \in Seq(Int)
  <2>1. PICK im \in Images : headers = im.headers /\ footers = im.footers
    BY DEF Init
  <2> QED
    BY <2>1, ImageAssumption
<1>4. \A n \in Needles : \A i \in DOMAIN headers[n] : ~Done(n, i)
  <2>1. ASSUME NEW n \in Needles, NEW i \in DOMAIN headers[n] PROVE ~Done(n, i)
    <3>1. n \in Nat /\ n >= 1 /\ i \in Nat /\ i >= 1
      BY <1>3, LenProperties DEF Needles
    <3> QED
      BY <1>1, <3>1 DEF Done
  <2> QED
    BY <2>1
<1>5. FootersPassed
  BY <1>1, <1>3, LenProperties DEF FootersPassed
<1> QED
  BY <1>2, <1>4, <1>5 DEF IdealInv, JobsIdeal, JobsComplete, JobsOnce

(* The next header, and those behind it.                                   *)
LEMMA NextHeader ==
  ASSUME TypeInv, HasHeader, AscendingDatabase
  PROVE  /\ needle \in Needles /\ hidx \in DOMAIN headers[needle]
         /\ headers[needle][hidx] = Start /\ Start \in Nat
         /\ \A i \in DOMAIN headers[needle] : i > hidx => headers[needle][i] > Start
         /\ \A i \in DOMAIN headers[needle] : headers[needle][i] = Start => i = hidx
<1>1. needle \in Needles /\ headers[needle] \in Seq(Nat)
  BY DEF HasHeader, TypeInv, TypeOK, InputTypes
<1>2. PICK l \in Nat : /\ l = Len(headers[needle]) /\ DOMAIN headers[needle] = 1..l
                       /\ \A i \in 1..l : headers[needle][i] \in Nat
  BY <1>1, LenProperties, ElementOfSeq
<1>3. hidx \in 1..l
  BY <1>2 DEF HasHeader, TypeInv, TypeOK, PlanTypes
<1>4. headers[needle][hidx] = Start
  BY DEF Start
<1>5. \A i, j \in 1..l : i < j => headers[needle][i] < headers[needle][j]
  BY <1>1, <1>2 DEF AscendingDatabase
<1>6. \A i \in 1..l : i > hidx => headers[needle][i] > Start
  BY <1>2, <1>3, <1>4, <1>5
<1>7. \A i \in 1..l : i < hidx => headers[needle][i] < Start
  BY <1>2, <1>3, <1>4, <1>5
<1>8. Start \in Nat
  BY <1>2, <1>3, <1>4
<1>9. \A i \in 1..l : headers[needle][i] = Start => i = hidx
  <2>1. ASSUME NEW i \in 1..l, headers[needle][i] = Start PROVE i = hidx
    <3>1. ~(i < hidx) /\ ~(i > hidx)
      BY <1>6, <1>7, <1>8, <2>1
    <3> QED
      BY <1>3, <3>1
  <2> QED
    BY <2>1
<1> QED
  BY <1>1, <1>2, <1>3, <1>4, <1>6, <1>8, <1>9

(* One header further on, what is done is this header and those before.    *)
LEMMA OneHeaderMore ==
  ASSUME TypeInv, HasHeader, pc = "plan", pc' = "plan", UNCHANGED needle, hidx' = hidx + 1
  PROVE  \A n \in Needles : \A i \in DOMAIN headers[n] :
           Done(n, i)' <=> Done(n, i) \/ (n = needle /\ i = hidx)
<1> SUFFICES ASSUME NEW n \in Needles, NEW i \in DOMAIN headers[n]
             PROVE  Done(n, i)' <=> Done(n, i) \/ (n = needle /\ i = hidx)
  OBVIOUS
<1>1. n \in Nat /\ needle \in Nat /\ hidx \in Nat
  BY DEF TypeInv, TypeOK, PlanTypes, Needles
<1>2. i \in Nat
  <2>1. headers[n] \in Seq(Nat)
    BY DEF TypeInv, TypeOK, InputTypes
  <2> QED
    BY <2>1, LenProperties
<1>3. i < hidx + 1 <=> i < hidx \/ i = hidx
  BY <1>1, <1>2
<1>4. ~(needle < needle)
  BY <1>1
<1> QED
  BY <1>3, <1>4 DEF Done

(* What has been passed over is passed over for the next header too.       *)
LEMMA PassedOn ==
  ASSUME TypeInv, HasHeader, AscendingDatabase, FootersPassed, pc = "plan",
         UNCHANGED <<pc, needle, headers, footers>>, hidx' = hidx + 1,
         Passed(footers[needle], prevstop', Start)
  PROVE  FootersPassed'
<1>1. /\ needle \in Needles
      /\ \A i \in DOMAIN headers[needle] : i > hidx => headers[needle][i] > Start
      /\ Start \in Nat
  BY NextHeader
<1>2. footers[needle] \in Seq(Nat) /\ headers[needle] \in Seq(Nat) /\ hidx \in Nat
  BY <1>1 DEF TypeInv, TypeOK, InputTypes, PlanTypes
<1>3. ASSUME NEW i \in DOMAIN headers[needle], NEW j \in DOMAIN footers[needle],
             i >= hidx', j < prevstop'
      PROVE  footers[needle][j] <= headers[needle][i]
  <2>1. i \in Nat /\ headers[needle][i] \in Nat /\ footers[needle][j] \in Nat
    BY <1>2, LenProperties, ElementOfSeq
  <2>2. i > hidx
    BY <1>2, <1>3, <2>1
  <2>3. footers[needle][j] <= Start
    BY <1>3 DEF Passed
  <2> QED
    BY <1>1, <2>1, <2>2, <2>3
<1> QED
  BY <1>3 DEF FootersPassed

(* The footers before prevstopindex are passed over at the next header.    *)
LEMMA PassedHere ==
  ASSUME TypeInv, HasHeader, AscendingDatabase, FootersPassed, pc = "plan"
  PROVE  Passed(footers[needle], prevstop, Start)
<1>1. needle \in Needles /\ hidx \in DOMAIN headers[needle] /\ headers[needle][hidx] = Start
  BY NextHeader
<1>2. hidx \in Nat
  BY DEF TypeInv, TypeOK, PlanTypes
<1> QED
  BY <1>1, <1>2 DEF FootersPassed, Passed

(* A header that is not aligned, or for which there is no end, is not      *)
(* worth a file.                                                           *)
LEMMA IdealNothing ==
  TypeInv /\ IdealInv /\ (SkipUnaligned \/ PlanNothing) => IdealInv'
<1> SUFFICES ASSUME TypeInv, IdealInv, SkipUnaligned \/ PlanNothing PROVE IdealInv'
  OBVIOUS
<1>1. /\ pc = "plan" /\ HasHeader /\ hidx' = hidx + 1
      /\ UNCHANGED <<inVars, pc, needle, jobs>>
  BY DEF SkipUnaligned, PlanNothing
<1>2. AscendingDatabase /\ FootersPassed /\ JobsIdeal /\ JobsComplete /\ JobsOnce
  BY <1>1 DEF IdealInv, Planning
<1>3. UNCHANGED <<img, opt, headers, footers>> /\ JobIds' = JobIds
  BY <1>1 DEF inVars, JobIds
<1>4. Passed(footers[needle], prevstop, Start)
  BY <1>1, <1>2, PassedHere
<1>5. ~Worth(needle, Start) /\ Passed(footers[needle], prevstop', Start)
  <2>1. CASE SkipUnaligned
    BY <1>4, <2>1 DEF SkipUnaligned, IsAligned, Worth
  <2>2. CASE PlanNothing
    BY <1>1, <1>2, <1>4, <2>2, ChosenIdeal DEF PlanNothing, Worth
  <2> QED
    BY <2>1, <2>2
<1>6. AscendingDatabase' /\ JobsOnce'
  BY <1>1, <1>2, <1>3 DEF AscendingDatabase, JobsOnce
<1>7. FootersPassed'
  BY <1>1, <1>2, <1>3, <1>5, PassedOn
<1>8. \A n \in Needles : \A i \in DOMAIN headers[n] :
        Done(n, i)' <=> Done(n, i) \/ (n = needle /\ i = hidx)
  BY <1>1, OneHeaderMore
<1>9. \A n, h : Ideal(n, h)' = Ideal(n, h)
  BY <1>3 DEF Ideal
<1>10. \A n, h : Worth(n, h)' <=> Worth(n, h)
  BY <1>3, <1>9 DEF Worth
<1>11. JobsIdeal'
  BY <1>1, <1>2, <1>3, <1>8, <1>9, <1>10 DEF JobsIdeal
<1>12. JobsComplete'
  <2>1. headers[needle][hidx] = Start
    BY DEF Start
  <2> QED
    BY <1>1, <1>2, <1>3, <1>5, <1>8, <1>10, <2>1 DEF JobsComplete
<1> QED
  BY <1>6, <1>7, <1>11, <1>12 DEF IdealInv

(* A new job is for the next header, which has none yet.                   *)
LEMMA IdealPlanCarve == TypeInv /\ IdealInv /\ PlanCarve => IdealInv'
<1> SUFFICES ASSUME TypeInv, IdealInv, PlanCarve PROVE IdealInv'
  OBVIOUS
<1>1. /\ pc = "plan" /\ HasHeader /\ hidx' = hidx + 1 /\ IsAligned /\ Chosen.stop # 0
      /\ prevstop' = Chosen.prev
      /\ UNCHANGED <<inVars, pc, needle>>
  BY DEF PlanCarve
<1>2. AscendingDatabase /\ FootersPassed /\ JobsIdeal /\ JobsComplete /\ JobsOnce
  BY <1>1 DEF IdealInv, Planning
<1>3. UNCHANGED <<img, opt, headers, footers>>
  BY <1>1 DEF inVars
<1>4. PICK h : h = Start
  OBVIOUS
<1>5. /\ needle \in Needles /\ hidx \in DOMAIN headers[needle]
      /\ headers[needle][hidx] = h
      /\ \A i \in DOMAIN headers[needle] : headers[needle][i] = h => i = hidx
  BY <1>1, <1>2, <1>4, NextHeader
<1>6. Chosen.stop = Ideal(needle, h) /\ Passed(footers[needle], Chosen.prev, Start)
  BY <1>1, <1>2, <1>4, PassedHere, ChosenIdeal
<1>7. Worth(needle, h)
  BY <1>1, <1>4, <1>6 DEF Worth, IsAligned
<1>8. PICK k : k = Len(jobs) + 1
  OBVIOUS
<1>9. PICK stop : stop = ClipStop(Chosen.stop, img.size)
  OBVIOUS
<1>10. jobs \in Seq(JobType) /\ Len(jobs) \in Nat
  BY LenProperties DEF TypeInv, TypeOK, PlanTypes
<1>11. /\ Len(jobs') = k /\ jobs'[k].needle = needle /\ jobs'[k].start = h
       /\ jobs'[k].stop = stop
       /\ \A j \in JobIds : jobs'[j] = jobs[j]
  BY <1>4, <1>8, <1>9, <1>10 DEF PlanCarve, JobIds
<1>12. JobIds' = JobIds \cup {k} /\ k \notin JobIds
  BY <1>8, <1>10, <1>11 DEF JobIds
<1>13. \A n \in Needles : \A i \in DOMAIN headers[n] :
         Done(n, i)' <=> Done(n, i) \/ (n = needle /\ i = hidx)
  BY <1>1, OneHeaderMore
<1>14. ~Done(needle, hidx)
  <2>1. needle \in Nat /\ hidx \in Nat
    BY DEF TypeInv, TypeOK, PlanTypes
  <2> QED
    BY <1>1, <2>1 DEF Done
<1>15. \A j \in JobIds : ~(jobs[j].needle = needle /\ jobs[j].start = h)
  BY <1>2, <1>5, <1>14 DEF JobsIdeal
<1>16. AscendingDatabase'
  BY <1>2, <1>3 DEF AscendingDatabase
<1>17. FootersPassed'
  BY <1>1, <1>2, <1>3, <1>6, PassedOn
<1>18. /\ \A n, g : Ideal(n, g)' = Ideal(n, g)
       /\ \A n, g : Worth(n, g)' <=> Worth(n, g)
  <2>1. \A n, g : Ideal(n, g)' = Ideal(n, g)
    BY <1>3 DEF Ideal
  <2> QED
    BY <1>3, <2>1 DEF Worth
<1>19. JobsOnce'
  BY <1>2, <1>11, <1>12, <1>15 DEF JobsOnce
<1>20. JobsIdeal'
  <2>1. ASSUME NEW j \in JobIds', NEW n, n = jobs'[j].needle, NEW g, g = jobs'[j].start
        PROVE  /\ n \in Needles
               /\ \E i \in DOMAIN headers[n] : Done(n, i)' /\ headers[n][i] = g
               /\ Worth(n, g) /\ jobs'[j].stop = ClipStop(Ideal(n, g), img.size)
    <3>1. CASE j = k
      <4>1. n = needle /\ g = h /\ jobs'[j].stop = stop
        BY <1>11, <2>1, <3>1
      <4>2. PICK i \in DOMAIN headers[n] : i = hidx
        BY <1>5, <4>1
      <4>3. Done(n, i)' /\ headers[n][i] = g
        BY <1>5, <1>13, <4>1, <4>2
      <4> QED
        BY <1>5, <1>6, <1>7, <1>9, <4>1, <4>3
    <3>2. CASE j \in JobIds
      <4>1. n = jobs[j].needle /\ g = jobs[j].start /\ jobs'[j].stop = jobs[j].stop
        BY <1>11, <2>1, <3>2
      <4>2. /\ n \in Needles
            /\ \E i \in DOMAIN headers[n] : Done(n, i) /\ headers[n][i] = g
            /\ Worth(n, g) /\ jobs[j].stop = ClipStop(Ideal(n, g), img.size)
        BY <1>2, <3>2, <4>1 DEF JobsIdeal
      <4>3. PICK i \in DOMAIN headers[n] : Done(n, i) /\ headers[n][i] = g
        BY <4>2
      <4>4. Done(n, i)'
        BY <1>13, <4>2, <4>3
      <4> QED
        BY <4>1, <4>2, <4>3, <4>4
    <3> QED
      BY <1>12, <3>1, <3>2
  <2> QED
    BY <1>3, <1>18, <2>1 DEF JobsIdeal
<1>21. JobsComplete'
  <2> SUFFICES ASSUME NEW n \in Needles, NEW i \in DOMAIN headers[n],
                      Done(n, i)', Worth(n, headers[n][i])
               PROVE  \E j \in JobIds' : /\ jobs'[j].needle = n
                                         /\ jobs'[j].start = headers[n][i]
    BY <1>3, <1>18 DEF JobsComplete
  <2>1. CASE Done(n, i)
    <3>1. PICK j \in JobIds : jobs[j].needle = n /\ jobs[j].start = headers[n][i]
      BY <1>2, <2>1 DEF JobsComplete
    <3> QED
      BY <1>11, <1>12, <3>1
  <2>2. CASE n = needle /\ i = hidx
    BY <1>5, <1>11, <1>12, <2>2
  <2> QED
    BY <1>13, <2>1, <2>2
<1> QED
  BY <1>16, <1>17, <1>19, <1>20, <1>21 DEF IdealInv

(* Where a type has no header left, all are done; the next one begins with *)
(* the first header and the first footer.                                  *)
LEMMA IdealNextNeedle == TypeInv /\ IdealInv /\ NextNeedle => IdealInv'
<1> SUFFICES ASSUME TypeInv, IdealInv, NextNeedle PROVE IdealInv'
  OBVIOUS
<1>1. /\ pc = "plan" /\ ~HasHeader /\ hidx' = 1 /\ prevstop' = 1
      /\ \/ needle < Len(SearchSpec) /\ needle' = needle + 1 /\ pc' = pc
         \/ ~(needle < Len(SearchSpec)) /\ needle' = needle /\ pc' = "seek"
      /\ UNCHANGED <<inVars, jobs>>
  BY DEF NextNeedle, ResetPrevStop
<1>2. AscendingDatabase /\ FootersPassed /\ JobsIdeal /\ JobsComplete /\ JobsOnce
  BY <1>1 DEF IdealInv, Planning
<1>3. UNCHANGED <<img, opt, headers, footers>> /\ JobIds' = JobIds
  BY <1>1 DEF inVars, JobIds
<1>4. PICK l \in Nat : l = Len(SearchSpec) /\ Needles = 1..l
  BY SpecAssumption, LenProperties DEF Needles
<1>5. needle \in Nat \ {0} /\ hidx \in Nat \ {0}
  BY DEF TypeInv, TypeOK, PlanTypes
<1>6. \A n \in Needles : \A i \in DOMAIN headers[n] : i \in Nat /\ i >= 1
  <2>1. \A n \in Needles : headers[n] \in Seq(Nat)
    BY DEF TypeInv, TypeOK, InputTypes
  <2> QED
    BY <2>1, LenProperties
<1>7. \A i : needle \in Needles /\ i \in DOMAIN headers[needle] => i < hidx
  <2>1. ASSUME needle \in Needles, NEW i \in DOMAIN headers[needle] PROVE i < hidx
    <3>1. headers[needle] \in Seq(Nat)
      BY <2>1 DEF TypeInv, TypeOK, InputTypes
    <3>2. PICK m \in Nat : m = Len(headers[needle]) /\ i \in 1..m
      BY <3>1, LenProperties
    <3>3. ~(hidx <= m)
      BY <1>1, <2>1, <3>2 DEF HasHeader
    <3> QED
      BY <1>5, <3>2, <3>3
  <2> QED
    BY <2>1
<1>8. \A n \in Needles : \A i \in DOMAIN headers[n] : Done(n, i)' <=> Done(n, i)
  <2> SUFFICES ASSUME NEW n \in Needles, NEW i \in DOMAIN headers[n]
               PROVE  Done(n, i)' <=> Done(n, i)
    OBVIOUS
  <2>1. n \in 1..l /\ i \in Nat /\ i >= 1
    BY <1>4, <1>6
  <2>2. Done(n, i) <=> n < needle \/ n = needle
    BY <1>1, <1>7 DEF Done
  <2>3. CASE needle < l
    <3>1. Done(n, i)' <=> n < needle + 1 \/ (n = needle + 1 /\ i < 1)
      BY <1>1, <1>4, <2>3 DEF Done
    <3> QED
      BY <1>5, <2>1, <2>2, <3>1
  <2>4. CASE ~(needle < l)
    <3>1. Done(n, i)'
      BY <1>1, <1>4, <2>4 DEF Done
    <3> QED
      BY <1>5, <2>1, <2>2, <2>4, <3>1
  <2> QED
    BY <2>3, <2>4
<1>9. /\ \A n, g : Ideal(n, g)' = Ideal(n, g)
      /\ \A n, g : Worth(n, g)' <=> Worth(n, g)
  <2>1. \A n, g : Ideal(n, g)' = Ideal(n, g)
    BY <1>3 DEF Ideal
  <2> QED
    BY <1>3, <2>1 DEF Worth
<1>10. AscendingDatabase' /\ JobsOnce'
  BY <1>1, <1>2, <1>3 DEF AscendingDatabase, JobsOnce
<1>11. FootersPassed'
  <2>1. \A n \in Needles : footers[n] \in Seq(Nat)
    BY DEF TypeInv, TypeOK, InputTypes
  <2>2. \A n \in Needles : \A j \in DOMAIN footers[n] : j \in Nat /\ ~(j < 1)
    BY <2>1, LenProperties
  <2> QED
    BY <1>1, <1>3, <2>2 DEF FootersPassed
<1>12. JobsIdeal'
  BY <1>1, <1>2, <1>3, <1>8, <1>9 DEF JobsIdeal
<1>13. JobsComplete'
  BY <1>1, <1>2, <1>3, <1>8, <1>9 DEF JobsComplete
<1> QED
  BY <1>10, <1>11, <1>12, <1>13 DEF IdealInv

(* Every step keeps the plan ideal.                                        *)
LEMMA IdealNext == TypeInv /\ IdealInv /\ [Next]_vars => IdealInv'
<1> SUFFICES ASSUME TypeInv, IdealInv, [Next]_vars PROVE IdealInv'
  OBVIOUS
<1>1. CASE SkipUnaligned \/ PlanNothing \/ PlanCarve \/ NextNeedle
  BY <1>1, IdealNothing, IdealPlanCarve, IdealNextNeedle
<1>2. CASE OpenImage \/ OpenImageFails
  BY <1>2, IdealKept DEF OpenImage, OpenImageFails, inVars, planVars, Planning
<1>3. CASE Seek \/ Read
  BY <1>3, IdealKept
     DEF Seek, SeekWork, NoMoreWork, SeekOverrun, Read, ReadBlock, EndOfImage, ReadFails,
         inVars, planVars, Planning
<1>4. CASE Carve
  BY <1>4, IdealKept
     DEF Carve, CarvePiece, HasPiece, OpenFails, WriteFails, CloseFails, CarveOverrun,
         EndOfQueue, inVars, planVars, Planning
<1>5. CASE Finish \/ FinishFails
  BY <1>5, IdealKept DEF Finish, FinishFails, inVars, planVars, Planning
<1>6. CASE CatchSignal \/ UNCHANGED vars
  BY <1>6, IdealKept DEF CatchSignal, vars, inVars, planVars, Planning
<1> QED
  BY <1>1, <1>2, <1>3, <1>4, <1>5, <1>6 DEF Next, Step, Plan, Halted

(* The ideal end is a number, so that it can be compared with the size.    *)
LEMMA IdealType ==
  ASSUME TypeInv, NEW n \in Needles, NEW start \in Nat
  PROVE  Ideal(n, start) \in Int
<1>1. PICK line \in LineType : line = SearchSpec[n]
  BY SpecAssumption, ElementOfSeq DEF Needles, LineType
<1>2. PICK foot \in Seq(Nat) : foot = footers[n]
  BY DEF TypeInv, TypeOK, InputTypes
<1>3. PICK reach : reach = Reach(line, foot, start)
  OBVIOUS
<1>4. PICK near : near = Near(line, foot, start)
  OBVIOUS
<1>5. Ideal(n, start)
        = IF line.endlength = 0 THEN MaxStop(line, start)
          ELSE IF line.searchtype = "REVERSE"
            THEN IF reach = {} THEN 0 ELSE Greatest(reach) + line.endlength - 1
          ELSE IF near # {} THEN FooterStop(line, CHOOSE f \in near : TRUE)
          ELSE IF line.searchtype = "FORWARD_NEXT" \/ opt.missingFooters
            THEN MaxStop(line, start)
          ELSE 0
  BY <1>1, <1>2, <1>3, <1>4 DEF Ideal, Near, Reach, Past, Footers
<1>6. PICK long \in Nat : long = line.length
  BY SizeAssumption DEF LineType
<1>7. line.endlength \in Nat
  BY DEF LineType
<1>8. Footers(foot) \subseteq Nat
  BY ElementOfSeq, LenProperties DEF Footers
<1>9. near \in SUBSET Nat /\ reach \in SUBSET Nat /\ \A f \in reach : f <= start + long
  <2>1. \A f \in reach : f \in Nat /\ f - start <= long
    BY <1>3, <1>6, <1>8 DEF Reach, Past
  <2>2. \A f \in reach : f <= start + long
    BY <2>1
  <2> QED
    BY <1>4, <1>8, <2>1, <2>2 DEF Near, Past
<1>10. reach # {} => Greatest(reach) \in Nat
  <2>1. start + long \in Nat
    OBVIOUS
  <2> QED
    BY <1>9, <2>1, GreatestType
<1>11. near # {} => FooterStop(line, CHOOSE f \in near : TRUE) \in Int
  <2>1. near # {} => (CHOOSE f \in near : TRUE) \in Nat
    BY <1>9
  <2> QED
    BY <1>7, <2>1 DEF FooterStop
<1>12. MaxStop(line, start) \in Int
  BY MaxStopType
<1> QED
  BY <1>5, <1>7, <1>10, <1>11, <1>12

(* When the planning is done, the plan is the ideal one.                   *)
LEMMA IdealPlan == TypeInv /\ IdealInv => PlannedIsIdeal
<1> SUFFICES ASSUME TypeInv, IdealInv, pc \in {"seek", "read", "work", "finish"}
             PROVE  PlannedIsIdeal
  BY DEF PlannedIsIdeal
<1>1. AscendingDatabase /\ FootersPassed /\ JobsIdeal /\ JobsComplete /\ JobsOnce
  BY DEF IdealInv, Planning
<1>2. \A n, i : Done(n, i)
  BY DEF Done
<1>3. PICK last \in Int : last = img.size - 1
  BY DEF TypeInv, TypeOK, InputTypes
<1>4. \A n \in Needles : \A i \in DOMAIN headers[n] : headers[n][i] \in Nat
  <2>1. \A n \in Needles : headers[n] \in Seq(Nat)
    BY DEF TypeInv, TypeOK, InputTypes
  <2> QED
    BY <2>1, LenProperties, ElementOfSeq
<1> DEFINE planned == {<<jobs[k].needle, jobs[k].start, smaller(jobs[k].stop, last)>> :
                        k \in JobIds}
           wanted(n) == {g \in {headers[n][i] : i \in DOMAIN headers[n]} : Worth(n, g)}
           ideal(n) == {<<n, h, smaller(Ideal(n, h), last)>> : h \in wanted(n)}
<1>5. ASSUME NEW k \in JobIds
      PROVE  /\ jobs[k].needle \in Needles
             /\ jobs[k].start \in wanted(jobs[k].needle)
             /\ smaller(jobs[k].stop, last) = smaller(Ideal(jobs[k].needle, jobs[k].start), last)
  <2>1. PICK n : n = jobs[k].needle
    OBVIOUS
  <2>2. PICK h : h = jobs[k].start
    OBVIOUS
  <2>3. /\ n \in Needles /\ \E i \in DOMAIN headers[n] : headers[n][i] = h
        /\ Worth(n, h) /\ jobs[k].stop = ClipStop(Ideal(n, h), img.size)
    BY <1>1, <2>1, <2>2 DEF JobsIdeal
  <2>4. h \in Nat
    BY <1>4, <2>3
  <2>5. PICK e \in Int : e = Ideal(n, h)
    BY <2>3, <2>4, IdealType
  <2>6. img.size = last + 1
    BY <1>3 DEF TypeInv, TypeOK, InputTypes
  <2>7. smaller(smaller(e, last + 1), last) = smaller(e, last)
    BY DEF smaller
  <2> QED
    BY <2>1, <2>2, <2>3, <2>5, <2>6, <2>7 DEF ClipStop
<1>6. \A n \in Needles : \A h \in wanted(n) :
        \E k \in JobIds : jobs[k].needle = n /\ jobs[k].start = h
  BY <1>1, <1>2 DEF JobsComplete
<1> HIDE DEF wanted
<1>7. planned = UNION {ideal(n) : n \in Needles}
  <2>1. ASSUME NEW x \in planned PROVE x \in UNION {ideal(n) : n \in Needles}
    <3>1. PICK k \in JobIds : x = <<jobs[k].needle, jobs[k].start, smaller(jobs[k].stop, last)>>
      OBVIOUS
    <3>2. x \in ideal(jobs[k].needle)
      BY <1>5, <3>1
    <3> QED
      BY <1>5, <3>2
  <2>2. ASSUME NEW n \in Needles, NEW x \in ideal(n) PROVE x \in planned
    <3>1. PICK h \in wanted(n) : x = <<n, h, smaller(Ideal(n, h), last)>>
      BY <2>2
    <3>2. PICK k \in JobIds : jobs[k].needle = n /\ jobs[k].start = h
      BY <1>6
    <3> QED
      BY <1>5, <3>1, <3>2
  <2> QED
    BY <2>1, <2>2
<1>8. \A j, k \in JobIds :
        jobs[j].start = jobs[k].start /\ jobs[j].needle = jobs[k].needle => j = k
  BY <1>1 DEF JobsOnce
<1>9. /\ {<<jobs[k].needle, jobs[k].start, smaller(jobs[k].stop, img.size - 1)>> : k \in JobIds}
           = planned
      /\ UNION {{<<n, h, smaller(Ideal(n, h), img.size - 1)>> :
                   h \in {g \in {headers[n][i] : i \in DOMAIN headers[n]} : Worth(n, g)}} :
                n \in Needles}
           = UNION {ideal(n) : n \in Needles}
  BY <1>3 DEF wanted
<1> QED
  BY <1>7, <1>8, <1>9 DEF PlannedIsIdeal

(* Whatever the search types, the options and the database: the files      *)
(* planned are those a planner without prevstopindex would plan, each      *)
(* once, when the database is in ascending order.                          *)
THEOREM PlansIdeal == Spec /\ AscendingDatabase => []PlannedIsIdeal
<1>1. Init /\ AscendingDatabase => IdealInv
  BY IdealInit
<1>2. TypeInv /\ IdealInv /\ [Next]_vars => IdealInv'
  BY IdealNext
<1>3. TypeInv /\ IdealInv => PlannedIsIdeal
  BY IdealPlan
<1> QED
  BY <1>1, <1>2, <1>3, TypeInvariant, PTL DEF Spec

-----------------------------------------------------------------------------
(***************************************************************************)
(* While the files are planned nothing is written, and nothing is planned  *)
(* before the place where the image is read from.                          *)
(***************************************************************************)
Planned ==
  /\ pc \in {"open", "plan"} =>
       /\ \A n \in Needles : FoundFrom(headers[n], opt.skip)
       /\ \A k \in JobIds : content[k] = <<>> /\ jobs[k].start >= opt.skip
       /\ audit = <<>>
  /\ pc = "plan" => filepos = opt.skip

(* Nothing is planned at first.                                            *)
LEMMA PlannedInit == Init => Planned
<1> SUFFICES ASSUME Init PROVE Planned
  OBVIOUS
<1>1. jobs = <<>> /\ audit = <<>> /\ pc = "open"
  BY DEF Init
<1>2. JobIds = {}
  BY <1>1 DEF JobIds
<1>3. \A n \in Needles : FoundFrom(headers[n], opt.skip)
  BY DEF Init
<1> QED
  BY <1>1, <1>2, <1>3 DEF Planned

(* Steps that plan and write nothing.                                      *)
LEMMA PlannedKept ==
  ASSUME Planned, UNCHANGED <<inVars, jobs, content, audit>>,
         pc' \in {"open", "plan"} => pc \in {"open", "plan"},
         pc' = "plan" => filepos' = opt.skip
  PROVE  Planned'
BY DEF Planned, FoundFrom, JobIds, inVars

(* A job begins at a header, which is not before the skip.                 *)
LEMMA PlannedPlanCarve == TypeInv /\ Planned /\ PlanCarve => Planned'
<1> SUFFICES ASSUME TypeInv, Planned, PlanCarve PROVE Planned'
  OBVIOUS
<1>1. /\ pc = "plan" /\ pc' = "plan" /\ HasHeader
      /\ UNCHANGED <<inVars, filepos, audit>>
      /\ content' = Append(content, <<>>)
  BY DEF PlanCarve, readVars
<1>2. jobs \in Seq(JobType) /\ Len(jobs) \in Nat
      /\ content \in Seq(Seq(Offsets)) /\ Len(content) = Len(jobs)
  BY LenProperties DEF TypeInv, TypeOK, PlanTypes, FileTypes
<1>3. PICK k : k = Len(jobs) + 1
  OBVIOUS
<1>4. /\ Len(jobs') = k /\ jobs'[k].start = Start
      /\ \A j \in JobIds : jobs'[j] = jobs[j]
  BY <1>2, <1>3 DEF PlanCarve, JobIds
<1>5. JobIds' = JobIds \cup {k} /\ k \notin JobIds
  BY <1>2, <1>3, <1>4 DEF JobIds
<1>6. content'[k] = <<>> /\ \A j \in JobIds : content'[j] = content[j]
  BY <1>1, <1>2, <1>3 DEF JobIds
<1>7. Start >= opt.skip
  <2>1. headers[needle] \in Seq(Nat) /\ needle \in Needles
    BY <1>1 DEF TypeInv, TypeOK, InputTypes, HasHeader
  <2>2. hidx \in DOMAIN headers[needle]
    <3>1. Len(headers[needle]) \in Nat /\ DOMAIN headers[needle] = 1..Len(headers[needle])
      BY <2>1, LenProperties
    <3> QED
      BY <1>1, <3>1 DEF HasHeader, TypeInv, TypeOK, PlanTypes
  <2> QED
    BY <1>1, <2>1, <2>2 DEF Planned, FoundFrom, Start
<1>8. \A j \in JobIds' : content'[j] = <<>> /\ jobs'[j].start >= opt.skip
  BY <1>1, <1>4, <1>5, <1>6, <1>7 DEF Planned
<1> QED
  BY <1>1, <1>8 DEF Planned, FoundFrom, inVars

(* Every step keeps what is planned.                                       *)
LEMMA PlannedNext == TypeInv /\ Planned /\ [Next]_vars => Planned'
<1> SUFFICES ASSUME TypeInv, Planned, [Next]_vars PROVE Planned'
  OBVIOUS
<1>1. CASE OpenImage \/ OpenImageFails \/ SkipUnaligned \/ PlanNothing \/ NextNeedle
  BY <1>1, PlannedKept
     DEF OpenImage, OpenImageFails, SkipUnaligned, PlanNothing, NextNeedle, Planned,
         planVars, readVars, fileVars
<1>2. CASE PlanCarve
  BY <1>2, PlannedPlanCarve
<1>3. CASE Seek \/ Read \/ Carve \/ Finish \/ FinishFails
  <2>1. pc' \notin {"open", "plan"}
    BY <1>3 DEF Seek, SeekWork, NoMoreWork, SeekOverrun, Read, ReadBlock, EndOfImage,
       ReadFails, Carve, CarvePiece, HasPiece, OpenFails, WriteFails, CloseFails,
       CarveOverrun, EndOfQueue, Finish, FinishFails
  <2> QED
    BY <2>1 DEF Planned
<1>4. CASE CatchSignal \/ UNCHANGED vars
  BY <1>4, PlannedKept DEF CatchSignal, vars, planVars, readVars, fileVars, Planned, inVars
<1> QED
  BY <1>1, <1>2, <1>3, <1>4 DEF Next, Step, Plan, Halted

(* So it holds in every state.                                             *)
LEMMA PlannedInvariant == Spec => []Planned
<1>1. Init => Planned
  BY PlannedInit
<1>2. TypeInv /\ Planned /\ [Next]_vars => Planned'
  BY PlannedNext
<1> QED
  BY <1>1, <1>2, TypeInvariant, PTL DEF Spec

-----------------------------------------------------------------------------
(***************************************************************************)
(* One piece of work: which bytes of the buffer it takes.                  *)
(***************************************************************************)
(* The files that do not end before they begin.                            *)
Forward == {k \in JobIds : RunsForward(k)}

(* Such a file has work in its first block, its last, and all in between.  *)
LEMMA ForwardTouches ==
  ASSUME TypeInv, NEW k \in Forward
  PROVE  /\ k \in JobIds /\ jobs[k].start <= jobs[k].stop
         /\ Block(jobs[k].start) <= Block(jobs[k].stop)
         /\ \A b : Touches(k, b) <=> b \in Block(jobs[k].start)..Block(jobs[k].stop)
<1>1. k \in JobIds /\ jobs[k].start <= jobs[k].stop
  BY DEF Forward, RunsForward
<1>2. /\ jobs[k].start \in Nat /\ jobs[k].stop \in Nat
      /\ Block(jobs[k].start) \in Nat /\ Block(jobs[k].stop) \in Nat
  BY <1>1, JobFacts
<1>3. Block(jobs[k].start) <= Block(jobs[k].stop)
  BY <1>1, <1>2, BlockMonotone
<1>4. /\ Block(jobs[k].start) \in Block(jobs[k].start)..Block(jobs[k].stop)
      /\ Block(jobs[k].stop) \in Block(jobs[k].start)..Block(jobs[k].stop)
  BY <1>2, <1>3
<1> QED
  BY <1>1, <1>3, <1>4 DEF Touches, WorkBlocks

(* The block a piece is met in, and its operation.                          *)
LEMMA PieceHere ==
  ASSUME TypeInv, Filed, HasPiece
  PROVE  /\ Touches(Job, Block(Base))
         /\ Job \in Forward =>
              Block(Base) \in Block(jobs[Job].start)..Block(jobs[Job].stop)
         /\ Op = OperationIn(Block(Base), jobs[Job].start, jobs[Job].stop)
<1>1. Block(Base) \in DOMAIN queues /\ Work = queues[Block(Base)] /\ cursor \in 1..Len(Work)
  BY PieceFacts DEF HasPiece, TypeInv, HasQueue, Work
<1>2. Touches(Job, Block(Base)) /\ Work[cursor] = PieceOf(Job, Block(Base))
  BY <1>1, QueuePieces DEF Job
<1> QED
  BY <1>2, ForwardTouches DEF PieceOf, Piece, Op

(* The span of a piece, case by case: a file within the buffer, its first   *)
(* part, its last part, a part that fills the buffer.  No span goes past    *)
(* the end of the buffer.                                                   *)
LEMMA SpanCases ==
  ASSUME TypeInv, Filed, HasPiece,
         NEW p, p = Base, NEW s, s = jobs[Job].start, NEW e, e = jobs[Job].stop
  PROVE  /\ Block(s) = Block(p) /\ Block(e) = Block(p) =>
              JobSpan = [offset |-> s - p, bytes |-> e - s + 1]
         /\ Block(s) = Block(p) /\ Block(p) < Block(e) =>
              JobSpan = [offset |-> s - p, bytes |-> smaller(e - s + 1, BufSize - (s - p))]
         /\ Block(s) < Block(p) /\ Block(e) = Block(p) =>
              JobSpan = [offset |-> 0, bytes |-> e - p + 1]
         /\ Block(s) < Block(p) /\ Block(p) < Block(e) =>
              JobSpan = [offset |-> 0, bytes |-> BufSize]
<1>1. /\ Op = OperationIn(Block(p), s, e) /\ JobSpan = Span(Op, s, e, p)
      /\ s \in Nat /\ e \in Nat /\ p \in Nat
  BY PieceHere, PieceFacts DEF JobSpan
<1>2. Block(s) \in Nat /\ Block(e) \in Nat /\ Block(p) \in Nat
  BY <1>1, BlockType
<1>3. CASE Block(s) = Block(p) /\ Block(e) = Block(p)
  <2>1. Op = STARTSTOPCARVE
    BY <1>1, <1>3 DEF OperationIn
  <2> QED
    BY <1>1, <1>2, <1>3, <2>1
       DEF Span, STARTCARVE, STOPCARVE, STARTSTOPCARVE, CONTINUECARVE
<1>4. CASE Block(s) = Block(p) /\ Block(p) < Block(e)
  <2>1. Op = STARTCARVE
    BY <1>1, <1>2, <1>4 DEF OperationIn
  <2>2. s <= e
    <3>1. e <= s => Block(e) <= Block(s)
      BY <1>1, BlockMonotone
    <3> QED
      BY <1>1, <1>2, <1>4, <3>1
  <2>3. ~(e - s + 1 < 0)
    BY <1>1, <2>2
  <2> QED
    BY <1>1, <1>2, <1>4, <2>1, <2>3
       DEF Span, STARTCARVE, STOPCARVE, STARTSTOPCARVE, CONTINUECARVE
<1>5. CASE Block(s) < Block(p) /\ Block(e) = Block(p)
  <2>1. Op = STOPCARVE
    BY <1>1, <1>2, <1>5 DEF OperationIn
  <2> QED
    BY <1>1, <1>2, <1>5, <2>1
       DEF Span, STARTCARVE, STOPCARVE, STARTSTOPCARVE, CONTINUECARVE
<1>6. CASE Block(s) < Block(p) /\ Block(p) < Block(e)
  <2>1. Op = CONTINUECARVE
    BY <1>1, <1>2, <1>6 DEF OperationIn
  <2> QED
    BY <1>1, <1>2, <1>6, <2>1
       DEF Span, STARTCARVE, STOPCARVE, STARTSTOPCARVE, CONTINUECARVE
<1> QED
  BY <1>2, <1>3, <1>4, <1>5, <1>6

(* The last operation on a file is the one in the block of its last byte.   *)
LEMMA LastPiece ==
  ASSUME TypeInv, Filed, HasPiece
  PROVE  IsLast(Op) <=> Block(jobs[Job].stop) = Block(Base)
<1> DEFINE b == Block(Base)
           s == Block(jobs[Job].start)
           e == Block(jobs[Job].stop)
<1>1. b \in {s, e} \cup (s..e) /\ s \in Nat /\ e \in Nat
  BY PieceHere, PieceFacts, JobFacts DEF Touches, WorkBlocks
<1>2. Op = IF s = e THEN STARTSTOPCARVE ELSE IF b = s THEN STARTCARVE
           ELSE IF b = e THEN STOPCARVE ELSE CONTINUECARVE
  BY PieceHere DEF OperationIn
<1> HIDE DEF b, s, e
<1>3. IsLast(Op) <=> e = b
  BY <1>1, <1>2 DEF IsLast, STARTCARVE, STOPCARVE, STARTSTOPCARVE, CONTINUECARVE
<1> QED
  BY <1>3 DEF b, e

(* Writing n bytes of the span.                                             *)
LEMMA WrittenPoints ==
  ASSUME TypeInv, HasPiece, NEW n \in Nat
  PROVE  /\ \A j \in JobIds : j # Job => Written(n)[j] = content[j]
         /\ Written(n)[Job] = content[Job] \o Bytes(buffer, JobSpan, n)
         /\ content[Job] \in Seq(Offsets) /\ Bytes(buffer, JobSpan, n) \in Seq(Offsets)
         /\ Len(content[Job]) \in Nat
         /\ Len(Written(n)[Job]) = Len(content[Job]) + n
<1>1. content \in Seq(Seq(Offsets)) /\ Len(content) = Len(jobs) /\ DOMAIN content = JobIds
  BY LenProperties DEF TypeInv, TypeOK, FileTypes, JobIds
<1>2. Job \in JobIds
  BY PieceFacts
<1>3. content[Job] \in Seq(Offsets)
  BY <1>1, <1>2, ElementOfSeq DEF JobIds
<1>4. Bytes(buffer, JobSpan, n) \in Seq(Offsets) /\ Len(Bytes(buffer, JobSpan, n)) = n
  BY BytesType DEF TypeInv, TypeOK, ReadTypes
<1>5. Written(n) = [content EXCEPT ![Job] = content[Job] \o Bytes(buffer, JobSpan, n)]
  BY DEF Written, OpenAppends
<1> HIDE DEF Written
<1>6. Len(content[Job] \o Bytes(buffer, JobSpan, n)) = Len(content[Job]) + n
  <2>1. \A a, b \in Seq(Offsets) : Len(a \o b) = Len(a) + Len(b)
    BY ConcatProperties
  <2> QED
    BY <1>3, <1>4, <2>1, Zenon
<1>7. Len(content[Job]) \in Nat
  BY <1>3, LenProperties
<1> QED
  BY <1>1, <1>2, <1>3, <1>4, <1>5, <1>6, <1>7

-----------------------------------------------------------------------------
(***************************************************************************)
(* How far the files have come.  When the image has been read up to p, a   *)
(* file that began in an earlier block has all its bytes before p, the     *)
(* others have none.  With an odd skip p is not where a block begins, and  *)
(* may lie past the end of the file, in which case nothing is claimed: the *)
(* last piece will not be written.                                         *)
(***************************************************************************)
Come(c, s, e, p) ==
  IF Block(s) < Block(p) THEN Len(c) = p - s \/ p > e + 1
                         ELSE Len(c) = 0

Reached(k, p) == Come(content[k], jobs[k].start, jobs[k].stop, p)

(* The current block still has work for job k.                              *)
Pending(k) == \E i \in cursor..Len(Work) : Work[i].job = k

Progress ==
  ~opt.preview =>
    /\ pc \in {"seek", "read"} /\ CanRead =>
         \A k \in Forward : Block(jobs[k].stop) >= Block(filepos) => Reached(k, filepos)
    /\ pc = "work" =>
         \A k \in Forward :
           /\ Pending(k) => Reached(k, Base)
           /\ ~Pending(k) /\ Block(jobs[k].stop) > Block(Base) => Reached(k, Base + BufSize)

(* What is pending after a piece of work: all that was, but its job.        *)
LEMMA PendingAfter ==
  ASSUME TypeInv, Filed, CarvePiece
  PROVE  /\ Pending(Job)
         /\ \A k : Pending(k)' <=> Pending(k) /\ k # Job
<1>0. HasPiece /\ pc = "work"
  BY DEF CarvePiece, HasPiece
<1>1. cursor \in 1..Len(Work) /\ Len(Work) \in Nat
  BY <1>0, PieceFacts
<1>2. Block(Base) \in DOMAIN queues /\ Work = queues[Block(Base)]
  BY <1>0 DEF TypeInv, HasQueue, Work
<1>3. \A i, j \in 1..Len(Work) : Work[i].job = Work[j].job => i = j
  BY <1>2, QueuePieces
<1>4. cursor' = cursor + 1 /\ Work' = Work
  BY DEF CarvePiece, Work, Base, Block
<1>5. ASSUME NEW k PROVE Pending(k)' <=> Pending(k) /\ k # Job
  <2>1. Pending(k)' <=> \E i \in (cursor + 1)..Len(Work) : Work[i].job = k
    BY <1>4 DEF Pending
  <2>2. Pending(k) <=> \E i \in cursor..Len(Work) : Work[i].job = k
    BY DEF Pending
  <2>3. ASSUME NEW i \in (cursor + 1)..Len(Work), Work[i].job = k
        PROVE  Pending(k) /\ k # Job
    <3>1. i \in cursor..Len(Work) /\ i \in 1..Len(Work) /\ i # cursor
      BY <1>1
    <3> QED
      BY <1>1, <1>3, <2>2, <2>3, <3>1 DEF Job
  <2>4. ASSUME NEW i \in cursor..Len(Work), Work[i].job = k, k # Job
        PROVE  i \in (cursor + 1)..Len(Work)
    BY <1>1, <2>4 DEF Job
  <2> QED
    BY <2>1, <2>2, <2>3, <2>4
<1>6. Pending(Job)
  <2>1. cursor \in cursor..Len(Work)
    BY <1>1
  <2> QED
    BY <2>1 DEF Pending, Job
<1> QED
  BY <1>5, <1>6

(* How long the file is after a piece of work: whole if this was its last   *)
(* block, all that the block has of it otherwise.                           *)
LEMMA LengthAfter ==
  ASSUME TypeInv, Filed, HasPiece, Job \in Forward, Reached(Job, Base),
         JobSpan.bytes >= 0
  PROVE  LET p == Base
             s == jobs[Job].start
             e == jobs[Job].stop
             l == Len(content[Job]) + JobSpan.bytes
         IN  /\ JobSpan.bytes \in Nat
             /\ Block(e) = Block(p) => l = e - s + 1
             /\ Block(e) > Block(p) => l = p + BufSize - s \/ p + BufSize > e + 1
<1>a. PICK p : p = Base
  OBVIOUS
<1>b. PICK s : s = jobs[Job].start
  OBVIOUS
<1>c. PICK e : e = jobs[Job].stop
  OBVIOUS
<1>d. PICK c : c = Len(content[Job])
  OBVIOUS
<1>e. PICK n : n = JobSpan.bytes
  OBVIOUS
<1>1. p \in Nat /\ s \in Nat /\ e \in Nat
  BY <1>a, <1>b, <1>c, PieceFacts
<1>2. Block(p) \in Nat /\ Block(s) \in Nat /\ Block(e) \in Nat
  BY <1>1, BlockType
<1>3. Block(s) <= Block(p) /\ Block(p) <= Block(e)
  BY <1>1, <1>a, <1>b, <1>c, PieceHere
<1>4. IF Block(s) < Block(p) THEN c = p - s \/ p > e + 1 ELSE c = 0
  BY <1>a, <1>b, <1>c, <1>d DEF Reached, Come
<1>5. n \in Nat /\ c \in Nat
  <2>1. JobSpan.bytes \in Int
    BY SpanType
  <2>2. content[Job] \in Seq(Offsets)
    BY PieceFacts, ElementOfSeq DEF TypeInv, TypeOK, FileTypes, JobIds
  <2> QED
    BY <1>d, <1>e, <2>1, <2>2, LenProperties
<1>6. /\ Block(s) = Block(p) /\ Block(e) = Block(p) => n = e - s + 1
      /\ Block(s) = Block(p) /\ Block(p) < Block(e)
           => n = smaller(e - s + 1, BufSize - (s - p))
      /\ Block(s) < Block(p) /\ Block(e) = Block(p) => n = e - p + 1
      /\ Block(s) < Block(p) /\ Block(p) < Block(e) => n = BufSize
  BY <1>a, <1>b, <1>c, <1>e, SpanCases
<1>7. /\ Block(e) = Block(p) => c + n = e - s + 1
      /\ Block(e) > Block(p) => c + n = p + BufSize - s \/ p + BufSize > e + 1
  <2>1. PICK a : a = Block(s)
    OBVIOUS
  <2>2. PICK b : b = Block(p)
    OBVIOUS
  <2>3. PICK z : z = Block(e)
    OBVIOUS
  <2>4. a \in Nat /\ b \in Nat /\ z \in Nat /\ a <= b /\ b <= z
    BY <1>2, <1>3, <2>1, <2>2, <2>3
  <2>5. IF a < b THEN c = p - s \/ p > e + 1 ELSE c = 0
    BY <1>4, <2>1, <2>2
  <2>6. /\ a = b /\ z = b => n = e - s + 1
        /\ a = b /\ b < z => n = smaller(e - s + 1, BufSize - (s - p))
        /\ a < b /\ z = b => n = e - p + 1
        /\ a < b /\ b < z => n = BufSize
    BY <1>6, <2>1, <2>2, <2>3
  <2>7. /\ z = b => c + n = e - s + 1
        /\ z > b => c + n = p + BufSize - s \/ p + BufSize > e + 1
    <3>1. CASE a = b /\ z = b
      BY <1>1, <1>5, <2>5, <2>6, <3>1
    <3>2. CASE a = b /\ b < z
      BY <1>1, <1>5, <2>4, <2>5, <2>6, <3>2, SizeAssumption DEF smaller
    <3>3. CASE a < b /\ z = b
      BY <1>1, <1>5, <2>5, <2>6, <3>3
    <3>4. CASE a < b /\ b < z
      BY <1>1, <1>5, <2>4, <2>5, <2>6, <3>4, SizeAssumption
    <3> QED
      BY <2>4, <3>1, <3>2, <3>3, <3>4
  <2> QED
    BY <2>2, <2>3, <2>7
<1> QED
  BY <1>a, <1>b, <1>c, <1>d, <1>e, <1>5, <1>7, Zenon

(* With no job nothing has come anywhere.                                  *)
LEMMA ProgressInit == Init => Progress
BY DEF Init, Progress

(* Steps that lead out of the second pass.                                  *)
LEMMA ProgressLeft ==
  ASSUME pc' \notin {"seek", "read", "work"}
  PROVE  Progress'
BY DEF Progress

(* Nothing is written while the files are planned, and none begins before   *)
(* the place where the second pass starts to read.                          *)
LEMMA ProgressNextNeedle == TypeInv /\ Planned /\ NextNeedle => Progress'
<1> SUFFICES ASSUME TypeInv, Planned, NextNeedle, pc' = "seek" PROVE Progress'
  BY DEF Progress, NextNeedle
<1>1. pc = "plan" /\ filepos' = filepos /\ jobs' = jobs /\ content' = content
  BY DEF NextNeedle, readVars, fileVars
<1>2. PICK p : p = filepos
  OBVIOUS
<1>3. ASSUME NEW k \in JobIds
      PROVE  ~(Block(jobs[k].start) < Block(p)) /\ Len(content[k]) = 0
  <2>1. jobs[k].start >= p /\ content[k] = <<>>
    BY <1>1, <1>2 DEF Planned
  <2>2. p \in Nat /\ jobs[k].start \in Nat
    BY <1>2, JobFacts DEF TypeInv, TypeOK, ReadTypes
  <2>3. Block(p) <= Block(jobs[k].start) /\ Block(p) \in Nat /\ Block(jobs[k].start) \in Nat
    BY <2>1, <2>2, BlockMonotone, BlockType
  <2> QED
    BY <2>1, <2>3
<1>4. Forward' = Forward /\ \A k \in Forward : k \in JobIds
  BY <1>1 DEF JobIds, Forward, RunsForward
<1>5. ASSUME NEW k \in Forward' PROVE Reached(k, filepos)'
  BY <1>1, <1>2, <1>3, <1>4 DEF Reached, Come, Block
<1> QED
  BY <1>5 DEF Progress

(* t blocks ahead.                                                          *)
LEMMA BlocksAhead ==
  ASSUME NEW p \in Nat, NEW t \in Nat
  PROVE  p + t * BufSize \in Nat /\ Block(p + t * BufSize) = Block(p) + t
<1> USE SizeAssumption
<1> DEFINE b == Block(p)
<1>1. b \in Nat /\ BufSize * b <= p /\ p < BufSize * b + BufSize
  BY BlockBounds
<1> HIDE DEF b
<1>2. BufSize * (b + t) = BufSize * b + t * BufSize
  BY <1>1
<1>3. b + t \in Nat /\ t * BufSize \in Nat /\ BufSize * b \in Nat
  BY <1>1
<1>4. p + t * BufSize \in Nat
  BY <1>3
<1>5. BufSize * (b + t) <= p + t * BufSize
      /\ p + t * BufSize < BufSize * (b + t) + BufSize
  BY <1>1, <1>2, <1>3
<1> QED
  BY <1>3, <1>4, <1>5, BlockUnique DEF b

(* A block that a job touches has work in its queue.                        *)
LEMMA TouchedHasWork ==
  ASSUME Filed, NEW k \in JobIds, NEW b \in DOMAIN queues, Touches(k, b)
  PROVE  queues[b] # <<>>
<1>1. PieceOf(k, b) \in Range(queues[b])
  BY DEF Filed, FiledIn, PiecesIn
<1>2. Range(<<>>) = {}
  BY DEF Range
<1> QED
  BY <1>1, <1>2

(* The big seek passes over no block that a job touches.                    *)
LEMMA NothingPassed ==
  ASSUME TypeInv, Filed, SeekWork, NEW k \in JobIds,
         NEW t, t = Least(SeekTargets), NEW d \in Nat, d < t
  PROVE  ~Touches(k, Block(filepos) + d)
<1>1. filepos \in Nat /\ t \in Nat /\ t \in SeekTargets /\ pc = "seek"
  BY SeekTargetType DEF SeekWork, TypeInv, TypeOK, ReadTypes
<1>2. img.size \in Nat /\ DOMAIN queues = Blocks(img.size)
  BY <1>1 DEF TypeInv, TypeOK, InputTypes, QueueTypes, Running
<1>3. /\ t \in 0..(1 + Block(img.size)) /\ filepos + t * BufSize <= img.size
      /\ Block(filepos + t * BufSize) \in DOMAIN queues
  BY <1>1 DEF SeekTargets
<1>4. \A x \in SeekTargets : t <= x
  <2>1. SeekTargets \in SUBSET Nat
    BY <1>2, BlockType DEF SeekTargets
  <2> QED
    BY <1>1, <2>1, LeastType
<1> DEFINE b == Block(filepos)
<1>5. /\ filepos + d * BufSize \in Nat /\ Block(filepos + d * BufSize) = b + d
      /\ Block(filepos + t * BufSize) = b + t
  BY <1>1, BlocksAhead
<1>6. b \in Nat /\ Block(img.size) \in Nat
  BY <1>1, <1>2, BlockType
<1> HIDE DEF b
<1>7. b + d \in DOMAIN queues
  BY <1>1, <1>2, <1>3, <1>5, <1>6 DEF Blocks
<1>8. filepos + d * BufSize <= img.size
  <2>1. PICK u \in Nat : t = d + 1 + u
    BY <1>1
  <2>2. t * BufSize = d * BufSize + BufSize + u * BufSize
    BY <2>1, SizeAssumption
  <2>3. u * BufSize \in Nat /\ d * BufSize \in Nat
    BY SizeAssumption
  <2> QED
    BY <1>1, <1>2, <1>3, <2>2, <2>3, SizeAssumption
<1>9. ASSUME Touches(k, b + d) PROVE FALSE
  <2>1. queues[b + d] # <<>>
    BY <1>7, <1>9, TouchedHasWork
  <2>2. d \in 0..(1 + Block(img.size))
    BY <1>1, <1>3, <1>6
  <2>3. d \in SeekTargets
    BY <1>5, <1>7, <1>8, <2>1, <2>2 DEF SeekTargets
  <2> QED
    BY <1>1, <1>4, <2>3
<1> QED
  BY <1>9 DEF b

(* The big seek passes no block with work.                                 *)
LEMMA ProgressSeekWork == TypeInv /\ Filed /\ Progress /\ SeekWork => Progress'
<1> SUFFICES ASSUME TypeInv, Filed, Progress, SeekWork, ~opt'.preview PROVE Progress'
  BY DEF Progress
<1>1. /\ pc = "seek" /\ pc' = "read"
      /\ UNCHANGED <<inVars, planVars, queues, fileVars>>
      /\ filepos' = filepos + Least(SeekTargets) * BufSize
  BY DEF SeekWork
<1>2. PICK t : t = Least(SeekTargets)
  OBVIOUS
<1>3. PICK p : p = filepos
  OBVIOUS
<1>4. PICK f : f = p + t * BufSize
  OBVIOUS
<1>5. t \in Nat /\ p \in Nat /\ f \in Nat /\ p <= f
  <2>1. t \in Nat /\ p \in Nat
    BY <1>2, <1>3, SeekTargetType DEF SeekWork, TypeInv, TypeOK, ReadTypes
  <2>2. t * BufSize \in Nat
    BY <2>1, SizeAssumption
  <2> QED
    BY <1>4, <2>1, <2>2
<1>6. Block(f) = Block(p) + t /\ Block(p) \in Nat
  BY <1>4, <1>5, BlocksAhead, BlockType
<1>7. filepos' = f
  BY <1>1, <1>2, <1>3, <1>4
<1>8. CanRead' => CanRead
  BY <1>1, <1>3, <1>5, <1>7 DEF CanRead, inVars, TypeInv, TypeOK, InputTypes
<1>9. ASSUME CanRead', NEW k \in Forward, Block(jobs[k].stop) >= Block(f)
      PROVE  IF Block(jobs[k].start) < Block(f)
               THEN Len(content[k]) = f - jobs[k].start \/ f > jobs[k].stop + 1
               ELSE Len(content[k]) = 0
  <2>a. PICK s : s = Block(jobs[k].start)
    OBVIOUS
  <2>b. PICK e : e = Block(jobs[k].stop)
    OBVIOUS
  <2>0. k \in JobIds /\ \A b : Touches(k, b) <=> b \in s..e
    BY <2>a, <2>b, ForwardTouches
  <2>1. s \in Nat /\ e \in Nat /\ e >= Block(f)
    BY <1>9, <2>0, <2>a, <2>b, JobFacts
  <2>2. Reached(k, p)
    <3>1. ~opt.preview
      BY <1>1 DEF inVars
    <3>2. Block(jobs[k].stop) >= Block(p)
      BY <1>5, <1>6, <2>1, <2>b
    <3> QED
      BY <1>1, <1>3, <1>8, <1>9, <3>1, <3>2 DEF Progress
  <2>3. CASE t = 0
    <3>1. f = p
      BY <1>4, <1>5, <2>3, SizeAssumption
    <3> QED
      BY <2>2, <3>1 DEF Reached, Come
  <2>4. CASE t > 0
    <3>1. ASSUME s < Block(f) PROVE FALSE
      <4>1. PICK d \in Nat : d < t /\ s <= Block(p) + d /\ Block(p) + d <= e
        <5>1. CASE s <= Block(p)
          <6>1. 0 < t /\ s <= Block(p) + 0 /\ Block(p) + 0 <= e
            BY <1>5, <1>6, <2>1, <2>4, <5>1
          <6> QED
            BY <6>1
        <5>2. CASE s > Block(p)
          <6>1. /\ s - Block(p) \in Nat /\ s - Block(p) < t
                /\ s <= Block(p) + (s - Block(p)) /\ Block(p) + (s - Block(p)) <= e
            BY <1>5, <1>6, <2>1, <3>1, <5>2
          <6> QED
            BY <6>1
        <5> QED
          BY <1>6, <2>1, <5>1, <5>2
      <4>2. Touches(k, Block(p) + d)
        BY <1>6, <2>0, <2>1, <4>1
      <4> QED
        BY <1>2, <1>3, <2>0, <4>1, <4>2, NothingPassed
    <3>2. ~(s < Block(p))
      BY <1>5, <1>6, <2>1, <3>1
    <3>3. Len(content[k]) = 0
      BY <2>2, <2>a, <3>2 DEF Reached, Come
    <3> QED
      BY <2>a, <3>1, <3>3
  <2> QED
    BY <1>5, <2>3, <2>4
<1>10. Forward' = Forward /\ jobs' = jobs /\ content' = content
  BY <1>1 DEF Forward, RunsForward, JobIds, planVars, fileVars
<1>11. ASSUME CanRead', NEW k \in Forward', Block(jobs[k].stop) >= Block(f)
       PROVE  Reached(k, filepos)'
  <2>1. /\ Reached(k, filepos)' <=>
             IF Block(jobs'[k].start) < Block(filepos')
               THEN \/ Len(content'[k]) = filepos' - jobs'[k].start
                    \/ filepos' > jobs'[k].stop + 1
               ELSE Len(content'[k]) = 0
    BY DEF Reached, Come, Block
  <2> QED
    BY <1>7, <1>9, <1>10, <1>11, <2>1
<1>12. \A k : Block(jobs[k].stop)' = Block(jobs[k].stop)
  BY <1>10 DEF Block
<1>13. Block(filepos)' = Block(f)
  BY <1>7 DEF Block
<1> QED
  BY <1>1, <1>11, <1>12, <1>13 DEF Progress

(* What is pending when a block has been read: the jobs that touch it.      *)
LEMMA PendingRead ==
  ASSUME TypeInv, Filed, ReadBlock
  PROVE  /\ Base' = filepos /\ Block(filepos) \in DOMAIN queues
         /\ \A k \in JobIds : Pending(k)' <=> Touches(k, Block(filepos))
<1>1. /\ pc = "read" /\ queues' = queues /\ cursor' = 1
      /\ filepos' = filepos + Available /\ bytesread' = Available
  BY DEF ReadBlock
<1>2. Base' = filepos
  <2>1. Available \in Nat /\ filepos \in Nat
    BY AvailableType, SizeAssumption DEF TypeInv, TypeOK, ReadTypes
  <2> QED
    BY <1>1, <2>1 DEF Base
<1>3. PICK b : b = Block(filepos)
  OBVIOUS
<1>4. b \in DOMAIN queues
  BY <1>1, <1>3 DEF TypeInv, HasQueue
<1>5. Work' = queues[b]
  BY <1>1, <1>2, <1>3 DEF Work, Block
<1>6. ASSUME NEW k \in JobIds PROVE Pending(k)' <=> Touches(k, b)
  <2>1. Pending(k)' <=> \E i \in 1..Len(queues[b]) : queues[b][i].job = k
    BY <1>1, <1>5 DEF Pending
  <2>2. ASSUME NEW i \in 1..Len(queues[b]), queues[b][i].job = k
        PROVE  Touches(k, b)
    BY <1>4, <2>2, QueuePieces
  <2>3. ASSUME Touches(k, b)
        PROVE  \E i \in 1..Len(queues[b]) : queues[b][i].job = k
    <3>1. PieceOf(k, b) \in Range(queues[b])
      BY <1>4, <2>3 DEF Filed, FiledIn, PiecesIn
    <3>2. queues[b] \in Seq(PieceType)
      BY <1>4 DEF TypeInv, TypeOK, QueueTypes
    <3>3. PICK i \in 1..Len(queues[b]) : queues[b][i] = PieceOf(k, b)
      BY <3>1, <3>2, LenProperties DEF Range
    <3> QED
      BY <3>3 DEF PieceOf, Piece
  <2> QED
    BY <2>1, <2>2, <2>3
<1> QED
  BY <1>2, <1>3, <1>4, <1>6

(* After a read the pieces of the block are ahead of the cursor.           *)
LEMMA ProgressReadBlock == TypeInv /\ Filed /\ Progress /\ ReadBlock => Progress'
<1> SUFFICES ASSUME TypeInv, Filed, Progress, ReadBlock, ~opt'.preview, pc' = "work"
             PROVE  Progress'
  BY DEF Progress, ReadBlock
<1>1. /\ pc = "read" /\ Available > 0 /\ UNCHANGED <<inVars, planVars, fileVars>>
  BY DEF ReadBlock
<1>2. PICK p : p = filepos
  OBVIOUS
<1>3. p \in Nat /\ img.size \in Nat /\ Block(p) \in Nat /\ ~opt.preview
  BY <1>1, <1>2, BlockType DEF TypeInv, TypeOK, ReadTypes, InputTypes, inVars
<1>4. CanRead
  BY <1>1, <1>2, <1>3, SizeAssumption DEF CanRead, Available, smaller, larger
<1>5. Base' = p /\ \A k \in JobIds : Pending(k)' <=> Touches(k, Block(p))
  BY <1>2, PendingRead
<1>6. Forward' = Forward /\ jobs' = jobs /\ content' = content
  BY <1>1 DEF Forward, RunsForward, JobIds, planVars, fileVars
<1>7. \A k, q : Reached(k, q)' <=> IF Block(jobs[k].start) < Block(q)'
                  THEN Len(content[k]) = q' - jobs[k].start \/ q' > jobs[k].stop + 1
                  ELSE Len(content[k]) = 0
  BY <1>6 DEF Reached, Come, Block
<1>8. ASSUME NEW k \in Forward
      PROVE  /\ Pending(k)' => Reached(k, Base)'
             /\ ~Pending(k)' /\ Block(jobs[k].stop) > Block(p) => Reached(k, Base + BufSize)'
  <2>a. PICK s : s = Block(jobs[k].start)
    OBVIOUS
  <2>b. PICK e : e = Block(jobs[k].stop)
    OBVIOUS
  <2>0. k \in JobIds /\ \A b : Touches(k, b) <=> b \in s..e
    BY <2>a, <2>b, ForwardTouches
  <2>1. s \in Nat /\ e \in Nat
    BY <2>0, <2>a, <2>b, JobFacts
  <2>2. e >= Block(p) => Reached(k, p)
    BY <1>1, <1>2, <1>3, <1>4, <2>b DEF Progress
  <2>3. Pending(k)' <=> s <= Block(p) /\ Block(p) <= e
    BY <1>3, <1>5, <2>0, <2>1
  <2>4. ASSUME Pending(k)' PROVE Reached(k, Base)'
    <3>1. Reached(k, p)
      BY <1>3, <2>1, <2>2, <2>3, <2>4
    <3> QED
      BY <1>5, <1>6, <3>1 DEF Reached, Come, Block
  <2>5. ASSUME ~Pending(k)', e > Block(p) PROVE Reached(k, Base + BufSize)'
    <3>1. s > Block(p) /\ e >= Block(p)
      BY <1>3, <2>1, <2>3, <2>5
    <3>2. Len(content[k]) = 0
      BY <1>3, <2>1, <2>2, <2>a, <3>1 DEF Reached, Come
    <3>3. Block(p + BufSize) = Block(p) + 1
      BY <1>3, NextBlock
    <3>4. ~(s < Block(p + BufSize))
      BY <1>3, <2>1, <3>1, <3>3
    <3> QED
      BY <1>5, <1>6, <2>a, <3>2, <3>4 DEF Reached, Come, Block
  <2> QED
    BY <2>b, <2>4, <2>5
<1> QED
  BY <1>5, <1>6, <1>8 DEF Progress, Block

(* A piece takes its job through the block.                                *)
LEMMA ProgressCarvePiece == TypeInv /\ Filed /\ Progress /\ CarvePiece => Progress'
<1> SUFFICES ASSUME TypeInv, Filed, Progress, CarvePiece, ~opt'.preview
             PROVE  Progress'
  BY DEF Progress
<1>1. /\ pc = "work" /\ pc' = pc /\ HasPiece /\ ~opt.preview
      /\ UNCHANGED <<inVars, planVars, filepos, bytesread>>
      /\ JobSpan.bytes >= 0 /\ content' = Written(JobSpan.bytes)
  BY DEF CarvePiece, HasPiece, inVars
<1>2. Pending(Job) /\ \A k : Pending(k)' <=> Pending(k) /\ k # Job
  BY PendingAfter
<1>3. PICK p : p = Base
  OBVIOUS
<1>4. Job \in JobIds /\ p \in Nat /\ Block(p) \in Nat
  BY <1>1, <1>3, PieceFacts, BlockType
<1>5. Base' = p /\ jobs' = jobs /\ Forward' = Forward
  BY <1>1, <1>3 DEF Base, Forward, RunsForward, JobIds, planVars
<1>6. Job \in Forward => Reached(Job, Base)
  BY <1>1, <1>2 DEF Progress
<1>7. JobSpan.bytes \in Nat
  BY <1>1, SpanType
<1>8. /\ \A k \in JobIds : k # Job => content'[k] = content[k]
      /\ Len(content'[Job]) = Len(content[Job]) + JobSpan.bytes
  BY <1>1, <1>7, WrittenPoints
<1>9. ASSUME NEW k \in Forward
      PROVE  /\ Pending(k)' => Reached(k, Base)'
             /\ ~Pending(k)' /\ Block(jobs[k].stop) > Block(p) => Reached(k, Base + BufSize)'
  <2>0. k \in JobIds
    BY DEF Forward
  <2>1. CASE k # Job
    <3>1. (Pending(k)' <=> Pending(k)) /\ content'[k] = content[k]
      BY <1>2, <1>8, <2>0, <2>1
    <3>2. /\ Pending(k) => Reached(k, p)
          /\ ~Pending(k) /\ Block(jobs[k].stop) > Block(p) => Reached(k, p + BufSize)
      BY <1>1, <1>3 DEF Progress
    <3>3. /\ Reached(k, p) => Reached(k, Base)'
          /\ Reached(k, p + BufSize) => Reached(k, Base + BufSize)'
      BY <1>5, <3>1 DEF Reached, Come, Block
    <3> QED
      BY <3>1, <3>2, <3>3
  <2>2. CASE k = Job
    <3>1. ~Pending(k)'
      BY <1>2, <2>2
    <3>2. ASSUME Block(jobs[k].stop) > Block(p)
          PROVE  Reached(k, Base + BufSize)'
      <4>1. Block(jobs[k].start) <= Block(p) /\ Block(jobs[k].start) \in Nat
        BY <1>1, <1>3, <1>4, <2>2, PieceHere, JobFacts
      <4>2. Block(p + BufSize) = Block(p) + 1
        BY <1>4, NextBlock
      <4>3. Block(jobs[k].start) < Block(p + BufSize)
        BY <1>4, <4>1, <4>2
      <4>4. \/ Len(content[k]) + JobSpan.bytes = p + BufSize - jobs[k].start
            \/ p + BufSize > jobs[k].stop + 1
        BY <1>1, <1>3, <1>6, <2>2, <3>2, LengthAfter
      <4>5. \/ Len(content'[k]) = (p + BufSize) - jobs[k].start
            \/ p + BufSize > jobs[k].stop + 1
        BY <1>4, <1>8, <2>0, <2>2, <4>4, JobFacts, SizeAssumption
      <4>6. Come(content'[k], jobs[k].start, jobs[k].stop, p + BufSize)
        BY <4>3, <4>5, Zenon DEF Come
      <4> QED
        BY <1>5, <4>6 DEF Reached
    <3> QED
      BY <3>1, <3>2
  <2> QED
    BY <2>1, <2>2
<1> QED
  BY <1>1, <1>5, <1>9 DEF Progress, Block

(* Behind the last piece of a block its jobs are through it.               *)
LEMMA ProgressEndOfQueue ==
  TypeInv /\ OpenInv /\ Progress /\ EndOfQueue => Progress'
<1> SUFFICES ASSUME TypeInv, OpenInv, Progress, EndOfQueue, ~opt'.preview
             PROVE  Progress'
  BY DEF Progress
<1>1. /\ pc = "work" /\ pc' = "seek" /\ cursor > Len(Work) /\ ~opt.preview
      /\ UNCHANGED <<inVars, planVars, queues, readVars, fileVars>>
  BY DEF EndOfQueue, inVars
<1>2. \A k : ~Pending(k)
  <2>1. Work \in Seq(PieceType) /\ cursor \in Nat
    BY <1>1 DEF TypeInv, TypeOK, HasQueue, QueueTypes, ReadTypes, Work
  <2>2. Len(Work) \in Nat
    BY <2>1, LenProperties
  <2> QED
    BY <1>1, <2>1, <2>2 DEF Pending
<1>3. PICK p : p = Base
  OBVIOUS
<1>4. ASSUME CanRead PROVE p \in Nat /\ filepos = p + BufSize
  <2>1. bytesread = BufSize
    BY <1>1, <1>4 DEF OpenInv, FullBuffer
  <2> QED
    BY <1>3, <2>1, SizeAssumption DEF Base, TypeInv, TypeOK, ReadTypes
<1>5. ASSUME CanRead, NEW k \in Forward, Block(jobs[k].stop) >= Block(filepos)
      PROVE  Reached(k, filepos)
  <2>1. Block(filepos) = Block(p) + 1 /\ Block(p) \in Nat
    BY <1>4, <1>5, NextBlock, BlockType
  <2>2. Block(jobs[k].stop) > Block(p)
    BY <1>5, <2>1, JobFacts, ForwardTouches
  <2> QED
    BY <1>1, <1>2, <1>3, <1>4, <1>5, <2>2 DEF Progress
<1>6. /\ Forward' = Forward /\ jobs' = jobs /\ content' = content /\ filepos' = filepos
      /\ CanRead' = CanRead
  BY <1>1 DEF Forward, RunsForward, JobIds, CanRead, planVars, fileVars, readVars, inVars
<1>7. ASSUME CanRead', NEW k \in Forward', Block(jobs[k].stop)' >= Block(filepos)'
      PROVE  Reached(k, filepos)'
  BY <1>5, <1>6, <1>7 DEF Reached, Come, Block
<1> QED
  BY <1>1, <1>7 DEF Progress

(* A step of none of these, such as a signal.                              *)
LEMMA ProgressKept ==
  ASSUME Progress, UNCHANGED <<inVars, pc, planVars, queues, readVars, fileVars>>
  PROVE  Progress'
<1>1. /\ Forward' = Forward /\ jobs' = jobs /\ content' = content /\ filepos' = filepos
      /\ CanRead' = CanRead /\ Base' = Base /\ opt' = opt /\ pc' = pc
  BY DEF Forward, RunsForward, JobIds, CanRead, Base, planVars, fileVars, readVars, inVars
<1>2. \A k : Pending(k)' <=> Pending(k)
  BY DEF Pending, Work, Base, Block, readVars
<1> QED
  BY <1>1, <1>2 DEF Progress, Reached, Come, Block

(* Every step keeps how far the jobs have come.                            *)
LEMMA ProgressNext ==
  TypeInv /\ Filed /\ OpenInv /\ Planned /\ Progress /\ [Next]_vars => Progress'
<1> SUFFICES ASSUME TypeInv, Filed, OpenInv, Planned, Progress, [Next]_vars
             PROVE  Progress'
  OBVIOUS
<1>1. CASE \/ OpenImage \/ OpenImageFails \/ SkipUnaligned \/ PlanNothing \/ PlanCarve
           \/ NoMoreWork \/ SeekOverrun \/ EndOfImage \/ ReadFails
           \/ OpenFails \/ WriteFails \/ CloseFails \/ CarveOverrun
           \/ Finish \/ FinishFails
  BY <1>1, ProgressLeft
     DEF OpenImage, OpenImageFails, SkipUnaligned, PlanNothing, PlanCarve, NoMoreWork,
         SeekOverrun, EndOfImage, ReadFails, OpenFails, WriteFails, CloseFails,
         CarveOverrun, Finish, FinishFails
<1>2. CASE NextNeedle
  BY <1>2, ProgressNextNeedle
<1>3. CASE SeekWork
  BY <1>3, ProgressSeekWork
<1>4. CASE ReadBlock
  BY <1>4, ProgressReadBlock
<1>5. CASE CarvePiece
  BY <1>5, ProgressCarvePiece
<1>6. CASE EndOfQueue
  BY <1>6, ProgressEndOfQueue
<1>7. CASE CatchSignal \/ UNCHANGED vars
  BY <1>7, ProgressKept DEF CatchSignal, vars
<1> QED
  BY <1>1, <1>2, <1>3, <1>4, <1>5, <1>6, <1>7
     DEF Next, Step, Plan, Seek, Read, Carve, Halted

(* So it holds in every state.                                             *)
LEMMA ProgressInvariant == Spec => []Progress
<1>1. Init => Progress
  BY ProgressInit
<1>2. TypeInv /\ Filed /\ OpenInv /\ Planned /\ Progress /\ [Next]_vars => Progress'
  BY ProgressNext
<1> QED
  BY <1>1, <1>2, TypeInvariant, FiledInvariant, OpenInvariant, PlannedInvariant, PTL
     DEF Spec

-----------------------------------------------------------------------------
(***************************************************************************)
(* The audit log.  A file is recorded with its last piece, whole and       *)
(* closed; afterwards no block that is still to be read has work for it,   *)
(* unless it ends before it begins.                                        *)
(***************************************************************************)
AuditInv ==
  /\ AuditedWhole
  /\ \A k \in Forward : Audited(k) => k \notin open
  /\ pc \in {"seek", "read"} /\ CanRead =>
       \A k \in JobIds : Audited(k) => Block(jobs[k].stop) < Block(filepos)
  /\ pc = "work" =>
       \A k \in JobIds :
         Audited(k) =>
           /\ Block(jobs[k].stop) <= Block(Base)
           /\ k \in Forward \/ Block(jobs[k].stop) = Block(Base) => ~Pending(k)

AllInv == TypeInv /\ Filed /\ OpenInv /\ Planned /\ Progress /\ AuditInv

(* As long as nothing has been recorded.                                    *)
LEMMA AuditEmpty ==
  ASSUME audit' = <<>>
  PROVE  AuditInv'
<1>1. DOMAIN audit' = {}
  OBVIOUS
<1>2. \A k : ~Audited(k)'
  BY <1>1 DEF Audited
<1> QED
  BY <1>1, <1>2 DEF AuditInv, AuditedWhole

(* Steps that lead out of the second pass and touch no file.                *)
LEMMA AuditLeft ==
  ASSUME AuditInv, UNCHANGED <<inVars, planVars, fileVars>>,
         pc' \notin {"seek", "read", "work"}
  PROVE  AuditInv'
<1>1. /\ jobs' = jobs /\ content' = content /\ audit' = audit /\ open' = open
      /\ opt' = opt /\ JobIds' = JobIds /\ Forward' = Forward
  BY DEF inVars, planVars, fileVars, JobIds, Forward, RunsForward
<1>2. \A k : Audited(k)' <=> Audited(k)
  BY <1>1 DEF Audited
<1> QED
  BY <1>1, <1>2 DEF AuditInv, AuditedWhole, RunsForward

(* The same, for all but one file, which is not in the log.                 *)
LEMMA AuditFailedWrite ==
  ASSUME AuditInv, NEW j \in JobIds, j \in Forward => ~Audited(j),
         jobs' = jobs, audit' = audit, opt' = opt, open' = open \cup {j},
         \A k \in JobIds : k # j => content'[k] = content[k],
         pc' \notin {"seek", "read", "work"}
  PROVE  AuditInv'
<1>1. /\ JobIds' = JobIds /\ Forward' = Forward
      /\ \A k : Audited(k)' <=> Audited(k)
  BY DEF JobIds, Audited, Forward, RunsForward
<1>2. \A k \in Forward : k \in JobIds /\ (Audited(k) => k # j /\ content'[k] = content[k])
  BY DEF Forward
<1>3. AuditedWhole'
  <2>1. ASSUME ~opt.preview, NEW k \in JobIds, Audited(k), RunsForward(k)
        PROVE  Len(content'[k]) = jobs[k].stop - jobs[k].start + 1
    <3>1. content'[k] = content[k]
      BY <1>2, <2>1 DEF Forward
    <3> QED
      BY <2>1, <3>1 DEF AuditInv, AuditedWhole
  <2> QED
    BY <1>1, <2>1 DEF AuditInv, AuditedWhole, RunsForward
<1>4. \A k \in Forward' : Audited(k)' => k \notin open'
  BY <1>1, <1>2 DEF AuditInv
<1> QED
  BY <1>1, <1>3, <1>4 DEF AuditInv

(* A job with a piece to come is not in the log, unless its last piece came *)
(* before the first.                                                        *)
LEMMA NotAudited ==
  ASSUME TypeInv, Filed, AuditInv, HasPiece
  PROVE  Job \in JobIds /\ (Job \in Forward \/ IsLast(Op) => ~Audited(Job))
<1>1. Job \in JobIds /\ cursor \in 1..Len(Work) /\ Len(Work) \in Nat /\ pc = "work"
  BY PieceFacts DEF HasPiece
<1>2. cursor \in cursor..Len(Work)
  BY <1>1
<1>3. Pending(Job)
  BY <1>2 DEF Pending, Job
<1>4. IsLast(Op) => Block(jobs[Job].stop) = Block(Base)
  BY LastPiece
<1> QED
  BY <1>1, <1>3, <1>4 DEF AuditInv

(* The big seek records nothing, and passes no last piece.                 *)
LEMMA AuditSeekWork == TypeInv /\ AuditInv /\ SeekWork => AuditInv'
<1> SUFFICES ASSUME TypeInv, AuditInv, SeekWork PROVE AuditInv'
  OBVIOUS
<1>1. /\ pc = "seek" /\ pc' = "read"
      /\ jobs' = jobs /\ content' = content /\ audit' = audit /\ open' = open
      /\ opt' = opt /\ img' = img /\ JobIds' = JobIds /\ Forward' = Forward
      /\ filepos' = filepos + Least(SeekTargets) * BufSize
  BY DEF SeekWork, inVars, planVars, fileVars, JobIds, Forward, RunsForward
<1>2. filepos \in Nat /\ filepos' \in Nat /\ filepos <= filepos'
  <2>1. Least(SeekTargets) \in Nat /\ filepos \in Nat
    BY SeekTargetType DEF SeekWork, TypeInv, TypeOK, ReadTypes
  <2>2. Least(SeekTargets) * BufSize \in Nat
    BY <2>1, SizeAssumption
  <2> QED
    BY <1>1, <2>1, <2>2
<1>3. Block(filepos) \in Nat /\ Block(filepos') \in Nat /\ Block(filepos) <= Block(filepos')
  BY <1>2, BlockType, BlockMonotone
<1>4. CanRead' => CanRead
  BY <1>1, <1>2 DEF CanRead, TypeInv, TypeOK, InputTypes
<1>5. \A k : Audited(k)' <=> Audited(k)
  BY <1>1 DEF Audited
<1>6. ASSUME CanRead', NEW k \in JobIds, Audited(k)
      PROVE  Block(jobs[k].stop) < Block(filepos')
  <2>1. Block(jobs[k].stop) < Block(filepos)
    BY <1>1, <1>4, <1>6 DEF AuditInv
  <2> QED
    BY <1>3, <2>1, JobFacts
<1>7. CanRead' => \A k \in JobIds' :
                    Audited(k)' => Block(jobs[k].stop)' < Block(filepos)'
  BY <1>1, <1>5, <1>6 DEF Block
<1> QED
  BY <1>1, <1>5, <1>7 DEF AuditInv, AuditedWhole, RunsForward

(* A read records nothing.                                                 *)
LEMMA AuditReadBlock == TypeInv /\ Filed /\ AuditInv /\ ReadBlock => AuditInv'
<1> SUFFICES ASSUME TypeInv, Filed, AuditInv, ReadBlock PROVE AuditInv'
  OBVIOUS
<1>1. /\ pc = "read" /\ pc' \in {"work", "exit"} /\ Available > 0
      /\ UNCHANGED <<inVars, planVars, fileVars>>
      /\ jobs' = jobs /\ content' = content /\ audit' = audit /\ open' = open
      /\ opt' = opt /\ JobIds' = JobIds /\ Forward' = Forward
  BY DEF ReadBlock, inVars, planVars, fileVars, JobIds, Forward, RunsForward
<1>2. CASE pc' = "exit"
  BY <1>1, <1>2, AuditLeft
<1>3. CASE pc' = "work"
  <2>1. PICK p : p = filepos
    OBVIOUS
  <2>2. p \in Nat /\ img.size \in Nat /\ Block(p) \in Nat
    BY <2>1, BlockType DEF TypeInv, TypeOK, ReadTypes, InputTypes
  <2>3. CanRead
    BY <1>1, <2>1, <2>2, SizeAssumption DEF CanRead, Available, smaller, larger
  <2>4. Base' = p /\ \A k \in JobIds : Pending(k)' <=> Touches(k, Block(p))
    BY <2>1, PendingRead
  <2>5. \A k : Audited(k)' <=> Audited(k)
    BY <1>1 DEF Audited
  <2>6. ASSUME NEW k \in JobIds, Audited(k)
        PROVE  /\ Block(jobs[k].stop) <= Block(p)
               /\ k \in Forward \/ Block(jobs[k].stop) = Block(p) => ~Pending(k)'
    <3>1. Block(jobs[k].stop) < Block(p)
      BY <1>1, <2>1, <2>3, <2>6 DEF AuditInv
    <3>2. Block(jobs[k].start) \in Nat /\ Block(jobs[k].stop) \in Nat
      BY JobFacts
    <3>3. k \in Forward => ~Touches(k, Block(p))
      BY <2>2, <3>1, <3>2, ForwardTouches
    <3> QED
      BY <2>2, <2>4, <3>1, <3>2, <3>3
  <2>7. \A k \in JobIds' :
          Audited(k)' =>
            /\ Block(jobs[k].stop)' <= Block(Base)'
            /\ k \in Forward' \/ Block(jobs[k].stop)' = Block(Base)' => ~Pending(k)'
    BY <1>1, <2>4, <2>5, <2>6 DEF Block
  <2> QED
    BY <1>1, <1>3, <2>5, <2>7 DEF AuditInv, AuditedWhole, RunsForward
<1> QED
  BY <1>1, <1>2, <1>3

(* Where a block is done, what is recorded ends in it or before it.        *)
LEMMA AuditEndOfQueue == TypeInv /\ OpenInv /\ AuditInv /\ EndOfQueue => AuditInv'
<1> SUFFICES ASSUME TypeInv, OpenInv, AuditInv, EndOfQueue PROVE AuditInv'
  OBVIOUS
<1>1. /\ pc = "work" /\ pc' = "seek"
      /\ jobs' = jobs /\ content' = content /\ audit' = audit /\ open' = open
      /\ opt' = opt /\ filepos' = filepos /\ JobIds' = JobIds /\ CanRead' = CanRead
      /\ Forward' = Forward
  BY DEF EndOfQueue, inVars, planVars, fileVars, readVars, JobIds, CanRead, Forward,
         RunsForward
<1>2. \A k : Audited(k)' <=> Audited(k)
  BY <1>1 DEF Audited
<1>3. ASSUME CanRead, NEW k \in JobIds, Audited(k)
      PROVE  Block(jobs[k].stop) < Block(filepos)
  <2>1. Base \in Nat /\ filepos = Base + BufSize
    <3>1. bytesread = BufSize
      BY <1>1, <1>3 DEF OpenInv, FullBuffer
    <3> QED
      BY <3>1, SizeAssumption DEF Base, TypeInv, TypeOK, ReadTypes
  <2>2. Block(filepos) = Block(Base) + 1 /\ Block(Base) \in Nat
    BY <2>1, NextBlock, BlockType
  <2>3. Block(jobs[k].stop) <= Block(Base)
    BY <1>1, <1>3 DEF AuditInv
  <2> QED
    BY <2>2, <2>3, JobFacts
<1>4. CanRead' => \A k \in JobIds' :
                    Audited(k)' => Block(jobs[k].stop)' < Block(filepos)'
  BY <1>1, <1>2, <1>3 DEF Block
<1> QED
  BY <1>1, <1>2, <1>4 DEF AuditInv, AuditedWhole, RunsForward

(* What a piece of work records, and which file it leaves alone.            *)
LEMMA PieceAudits ==
  ASSUME TypeInv, Filed, AuditInv, CarvePiece
  PROVE  /\ \A k : Audited(k)' <=> Audited(k) \/ (IsLast(Op) /\ k = Job)
         /\ \A i, j \in DOMAIN audit' : audit'[i] = audit'[j] => i = j
         /\ \A k \in Forward : Audited(k) => content'[k] = content[k]
         /\ \A k \in Forward : Audited(k)' => k \notin open'
<1>0. HasPiece
  BY DEF CarvePiece
<1>1. /\ audit' = IF IsLast(Op) THEN Append(audit, Job) ELSE audit
      /\ opt.preview \/ JobSpan.bytes >= 0
      /\ content' = IF opt.preview THEN content ELSE Written(JobSpan.bytes)
      /\ \/ Closes(Op, Opened) /\ open' = open \ {Job}
         \/ ~Closes(Op, Opened) /\ open' = open \cup {Job}
  BY DEF CarvePiece
<1>2. Job \in JobIds /\ (Job \in Forward \/ IsLast(Op) => ~Audited(Job))
  BY <1>0, NotAudited
<1>3. audit \in Seq(JobIds)
  BY DEF TypeInv, TypeOK, FileTypes
<1>4. PICK n : n = Len(audit)
  OBVIOUS
<1>5. n \in Nat /\ DOMAIN audit = 1..n
  BY <1>3, <1>4, LenProperties
<1>6. PICK j : j = Job
  OBVIOUS
<1>7. IsLast(Op) => /\ DOMAIN audit' = 1..(n + 1)
                    /\ audit'[n + 1] = j
                    /\ \A i \in 1..n : audit'[i] = audit[i]
  BY <1>1, <1>2, <1>3, <1>4, <1>5, <1>6, AppendProperties
<1>8. /\ \A k : Audited(k) <=> \E i \in 1..n : audit[i] = k
      /\ \A k : Audited(k)' <=> \E i \in DOMAIN audit' : audit'[i] = k
  BY <1>5 DEF Audited
<1>9. ASSUME NEW k PROVE Audited(k)' <=> Audited(k) \/ (IsLast(Op) /\ k = j)
  <2>1. CASE ~IsLast(Op)
    BY <1>1, <1>5, <1>8, <2>1
  <2>2. CASE IsLast(Op)
    <3>1. Audited(k)' <=> (\E i \in 1..n : audit'[i] = k) \/ audit'[n + 1] = k
      BY <1>5, <1>7, <1>8, <2>2
    <3> QED
      BY <1>7, <1>8, <2>2, <3>1
  <2> QED
    BY <2>1, <2>2
<1>10. \A a, b \in DOMAIN audit' : audit'[a] = audit'[b] => a = b
  <2>1. \A a, b \in 1..n : audit[a] = audit[b] => a = b
    BY <1>5 DEF AuditInv, AuditedWhole
  <2>2. IsLast(Op) => \A a \in 1..n : audit[a] # j
    BY <1>2, <1>6, <1>8
  <2>3. CASE ~IsLast(Op)
    BY <1>1, <1>5, <2>1, <2>3
  <2>4. CASE IsLast(Op)
    BY <1>5, <1>7, <2>1, <2>2, <2>4
  <2> QED
    BY <2>3, <2>4
<1>11. \A k \in Forward : Audited(k) => content'[k] = content[k]
  <2>1. CASE opt.preview
    BY <1>1, <2>1
  <2>2. CASE ~opt.preview
    <3>1. JobSpan.bytes \in Nat
      <4>1. JobSpan.bytes \in Int
        BY <1>0, SpanType
      <4> QED
        BY <1>1, <2>2, <4>1
    <3>2. \A k \in Forward : k \in JobIds
      BY DEF Forward
    <3> QED
      BY <1>0, <1>1, <1>2, <2>2, <3>1, <3>2, WrittenPoints
  <2> QED
    BY <2>1, <2>2
<1>12. \A k \in Forward : Audited(k)' => k \notin open'
  <2>1. IsLast(Op) => open' = open \ {Job}
    BY <1>1 DEF Closes
  <2>2. \A k \in Forward : Audited(k) => k \notin open /\ k # Job
    BY <1>2 DEF AuditInv
  <2> QED
    BY <1>1, <1>6, <1>9, <2>1, <2>2
<1> QED
  BY <1>6, <1>9, <1>10, <1>11, <1>12

(* A last piece records its job, which was not recorded before.            *)
LEMMA AuditCarvePiece == AllInv /\ CarvePiece => AuditInv'
<1> SUFFICES ASSUME AllInv, CarvePiece PROVE AuditInv'
  OBVIOUS
<1>0. /\ TypeInv /\ Filed /\ Progress /\ AuditInv
      /\ HasPiece /\ pc = "work" /\ pc' = pc
      /\ UNCHANGED <<inVars, planVars, filepos, bytesread>>
  BY DEF AllInv, CarvePiece, HasPiece
<1>1. jobs' = jobs /\ opt' = opt /\ JobIds' = JobIds /\ Base' = Base
      /\ Forward' = Forward
  BY <1>0 DEF planVars, inVars, JobIds, Base, Forward, RunsForward
<1>2. /\ \A k : Audited(k)' <=> Audited(k) \/ (IsLast(Op) /\ k = Job)
      /\ \A i, j \in DOMAIN audit' : audit'[i] = audit'[j] => i = j
      /\ \A k \in Forward : Audited(k) => content'[k] = content[k]
      /\ \A k \in Forward : Audited(k)' => k \notin open'
  BY <1>0, PieceAudits
<1>3. Pending(Job) /\ \A k : Pending(k)' <=> Pending(k) /\ k # Job
  BY <1>0, PendingAfter
<1>4. IsLast(Op) => Block(jobs[Job].stop) = Block(Base)
  BY <1>0, LastPiece
<1>5. Job \in JobIds /\ Block(Base) \in Nat
  BY <1>0, PieceFacts, BlockType
<1>6. ASSUME ~opt.preview, NEW k \in JobIds, RunsForward(k), Audited(k)'
      PROVE  Len(content'[k]) = jobs[k].stop - jobs[k].start + 1
  <2>0. k \in Forward
    BY <1>6 DEF Forward
  <2>1. CASE Audited(k)
    BY <1>0, <1>2, <1>6, <2>0, <2>1 DEF AuditInv, AuditedWhole
  <2>2. CASE ~Audited(k)
    <3>1. k = Job /\ IsLast(Op)
      BY <1>2, <1>6, <2>2
    <3>2. JobSpan.bytes >= 0 /\ content' = Written(JobSpan.bytes)
      BY <1>6 DEF CarvePiece
    <3>3. Reached(Job, Base)
      BY <1>0, <1>3, <1>6, <2>0, <3>1 DEF Progress
    <3>4. /\ JobSpan.bytes \in Nat
          /\ Len(content[Job]) + JobSpan.bytes = jobs[Job].stop - jobs[Job].start + 1
      BY <1>0, <1>4, <2>0, <3>1, <3>2, <3>3, LengthAfter
    <3>5. Len(content'[Job]) = Len(content[Job]) + JobSpan.bytes
      BY <1>0, <3>2, <3>4, WrittenPoints
    <3> QED
      BY <3>1, <3>4, <3>5
  <2> QED
    BY <2>1, <2>2
<1>7. ASSUME NEW k \in JobIds, Audited(k)'
      PROVE  /\ Block(jobs[k].stop) <= Block(Base)
             /\ k \in Forward \/ Block(jobs[k].stop) = Block(Base) => ~Pending(k)'
  <2>1. CASE Audited(k)
    BY <1>0, <1>3, <2>1 DEF AuditInv
  <2>2. CASE ~Audited(k)
    BY <1>2, <1>3, <1>4, <1>5, <1>7, <2>2
  <2> QED
    BY <2>1, <2>2
<1>8. AuditedWhole'
  BY <1>1, <1>2, <1>6 DEF AuditedWhole, RunsForward
<1> QED
  BY <1>0, <1>1, <1>2, <1>7, <1>8 DEF AuditInv, Block

(* A piece that fails records nothing.                                     *)
LEMMA AuditFailed == TypeInv /\ Filed /\ AuditInv /\ (WriteFails \/ CloseFails) => AuditInv'
<1> SUFFICES ASSUME TypeInv, Filed, AuditInv, WriteFails \/ CloseFails PROVE AuditInv'
  OBVIOUS
<1>0. HasPiece /\ pc' = "FILE_WRITE" /\ open' = open \cup {Job}
      /\ jobs' = jobs /\ audit' = audit /\ opt' = opt
  BY DEF WriteFails, CloseFails, planVars, inVars
<1>1. \E n \in Nat : content' = Written(n)
  <2>1. JobSpan.bytes \in Int
    BY <1>0, SpanType
  <2>2. CASE WriteFails
    BY <1>0, <2>2, WrittenNumber DEF WriteFails
  <2>3. CASE CloseFails
    BY <2>1, <2>3 DEF CloseFails
  <2> QED
    BY <2>2, <2>3
<1>2. \A k \in JobIds : k # Job => content'[k] = content[k]
  BY <1>0, <1>1, WrittenPoints
<1>3. Job \in JobIds /\ (Job \in Forward => ~Audited(Job))
  BY <1>0, NotAudited
<1>4. PICK j : j = Job
  OBVIOUS
<1> QED
  BY <1>0, <1>2, <1>3, <1>4, AuditFailedWrite

(* A step of none of these, such as a signal.                              *)
LEMMA AuditKept ==
  ASSUME AuditInv, UNCHANGED <<inVars, pc, planVars, queues, readVars, fileVars>>
  PROVE  AuditInv'
<1>1. /\ jobs' = jobs /\ content' = content /\ audit' = audit /\ open' = open
      /\ opt' = opt /\ filepos' = filepos /\ JobIds' = JobIds /\ CanRead' = CanRead
      /\ Base' = Base /\ pc' = pc /\ Forward' = Forward
  BY DEF inVars, planVars, fileVars, readVars, JobIds, CanRead, Base, Forward, RunsForward
<1>2. \A k : (Audited(k)' <=> Audited(k)) /\ (Pending(k)' <=> Pending(k))
  BY DEF Audited, Pending, Work, Base, Block, readVars, fileVars
<1> QED
  BY <1>1, <1>2 DEF AuditInv, AuditedWhole, Block, RunsForward

(* Every step keeps the log right.                                         *)
LEMMA AuditNext == AllInv /\ [Next]_vars => AuditInv'
<1> SUFFICES ASSUME AllInv, [Next]_vars PROVE AuditInv'
  OBVIOUS
<1>0. TypeInv /\ Filed /\ OpenInv /\ Planned /\ Progress /\ AuditInv
  BY DEF AllInv
<1>1. CASE OpenImage \/ OpenImageFails \/ SkipUnaligned \/ PlanNothing \/ PlanCarve \/ NextNeedle
  <2>1. audit = <<>> /\ audit' = audit
    BY <1>0, <1>1
       DEF Planned, OpenImage, OpenImageFails, SkipUnaligned, PlanNothing, PlanCarve,
           NextNeedle, fileVars
  <2> QED
    BY <2>1, AuditEmpty
<1>2. CASE NoMoreWork \/ SeekOverrun \/ EndOfImage \/ ReadFails \/ OpenFails
             \/ CarveOverrun \/ FinishFails
  BY <1>0, <1>2, AuditLeft
     DEF NoMoreWork, SeekOverrun, EndOfImage, ReadFails, OpenFails, CarveOverrun, FinishFails
<1>3. CASE Finish
  <2>1. /\ jobs' = jobs /\ content' = content /\ audit' = audit /\ open' = open
        /\ opt' = opt /\ JobIds' = JobIds /\ pc' = "done"
        /\ Forward' = Forward
    BY <1>3 DEF Finish, planVars, fileVars, JobIds, Forward, RunsForward
  <2>2. \A k : Audited(k)' <=> Audited(k)
    BY <2>1 DEF Audited
  <2> QED
    BY <1>0, <2>1, <2>2 DEF AuditInv, AuditedWhole, RunsForward
<1>4. CASE WriteFails \/ CloseFails
  BY <1>0, <1>4, AuditFailed
<1>5. CASE SeekWork
  BY <1>0, <1>5, AuditSeekWork
<1>6. CASE ReadBlock
  BY <1>0, <1>6, AuditReadBlock
<1>7. CASE CarvePiece
  BY <1>7, AuditCarvePiece
<1>8. CASE EndOfQueue
  BY <1>0, <1>8, AuditEndOfQueue
<1>9. CASE CatchSignal \/ UNCHANGED vars
  BY <1>0, <1>9, AuditKept DEF CatchSignal, vars
<1> QED
  BY <1>1, <1>2, <1>3, <1>4, <1>5, <1>6, <1>7, <1>8, <1>9
     DEF Next, Step, Plan, Seek, Read, Carve, Halted

(* These invariants hold together in every state.                          *)
LEMMA AllInvariant == Spec => []AllInv
<1>1. Init => AuditInv
  <2> SUFFICES ASSUME Init PROVE AuditInv
    OBVIOUS
  <2>1. jobs = <<>> /\ audit = <<>> /\ pc = "open"
    BY DEF Init
  <2>2. JobIds = {} /\ Forward = {} /\ DOMAIN audit = {}
    BY <2>1 DEF JobIds, Forward
  <2> QED
    BY <2>1, <2>2 DEF AuditInv, AuditedWhole
<1>2. AllInv /\ [Next]_vars => AuditInv'
  BY AuditNext
<1>3. AllInv <=> TypeInv /\ Filed /\ OpenInv /\ Planned /\ Progress /\ AuditInv
  BY DEF AllInv
<1> QED
  BY <1>1, <1>2, <1>3, TypeInvariant, FiledInvariant, OpenInvariant, PlannedInvariant,
     ProgressInvariant, PTL
     DEF Spec

(* A file is in the audit log at most once, and then has exactly the length *)
(* the log states unless it ends before it begins, however its pieces were  *)
(* distributed over blocks and however often it was closed for want of      *)
(* handles and opened again (dig.c:1087-1118).                              *)
THEOREM AuditsWhole == Spec => []AuditedWhole
<1>1. AllInv => AuditedWhole
  BY DEF AllInv, AuditInv
<1> QED
  BY <1>1, AllInvariant, PTL

(* A recorded file is never opened or written again, unless it ends before  *)
(* it begins: a length of 0, or one that reaches past Word, can make it do  *)
(* so, and its last buffer may then be carved before its first.             *)
THEOREM AuditIsFinal == Spec => AuditedIsFinal
<1>1. AllInv /\ AllInv' /\ [Next]_vars => [LeavesAudited]_vars
  <2> SUFFICES ASSUME AllInv, AllInv', [Next]_vars PROVE [LeavesAudited]_vars
    OBVIOUS
  <2> USE DEF LeavesAudited
  <2>0. TypeInv /\ Filed /\ Planned /\ AuditInv /\ AuditInv'
    BY DEF AllInv
  <2>a. \A k \in JobIds : RunsForward(k) => k \in Forward
    BY DEF Forward
  <2>1. CASE CarvePiece
    <3>1. \A k \in Forward : Audited(k) => content'[k] = content[k] /\ Audited(k)'
      BY <2>0, <2>1, PieceAudits
    <3>2. Forward' = Forward
      BY <2>1 DEF CarvePiece, planVars, JobIds, Forward, RunsForward
    <3> QED
      BY <2>0, <2>a, <3>1, <3>2 DEF AuditInv
  <2>2. CASE WriteFails \/ CloseFails
    <3>0. HasPiece /\ open' = open \cup {Job}
      BY <2>2 DEF WriteFails, CloseFails
    <3>1. \E n \in Nat : content' = Written(n)
      <4>1. JobSpan.bytes \in Int
        BY <2>0, <3>0, SpanType
      <4>2. CASE WriteFails
        BY <2>0, <3>0, <4>2, WrittenNumber DEF WriteFails
      <4>3. CASE CloseFails
        BY <4>1, <4>3 DEF CloseFails
      <4> QED
        BY <2>2, <4>2, <4>3
    <3>2. \A k \in JobIds : k # Job => content'[k] = content[k]
      BY <2>0, <3>0, <3>1, WrittenPoints
    <3>3. Job \in Forward => ~Audited(Job)
      BY <2>0, <3>0, NotAudited
    <3> QED
      BY <2>0, <2>a, <3>0, <3>2, <3>3 DEF AuditInv
  <2>3. CASE PlanCarve
    <3>1. DOMAIN audit = {}
      BY <2>0, <2>3 DEF PlanCarve, Planned
    <3> QED
      BY <3>1 DEF Audited
  <2>4. CASE content' = content /\ open' = open
    BY <2>0, <2>a, <2>4 DEF AuditInv
  <2>5. CASE Halted \/ UNCHANGED vars
    BY <2>5 DEF Halted
  <2> QED
    BY <2>1, <2>2, <2>3, <2>4, <2>5
       DEF Next, Step, Plan, Seek, Read, Carve, CatchSignal, OpenImage, OpenImageFails,
           SkipUnaligned, PlanNothing, NextNeedle, SeekWork, NoMoreWork, SeekOverrun,
           ReadBlock, EndOfImage, ReadFails, OpenFails, CarveOverrun, EndOfQueue, Finish,
           FinishFails, fileVars
<1> QED
  BY <1>1, AllInvariant, PTL DEF Spec, AuditedIsFinal

-----------------------------------------------------------------------------
(***************************************************************************)
(* The bytes.  With a skip of whole buffers every block is read from where *)
(* it begins, so that a piece of work always takes the bytes that follow   *)
(* those the file already has, unless the file ends before it begins.      *)
(***************************************************************************)
Aligned(p) == p = BufSize * Block(p)

ContentInv ==
  /\ WholeSkip =>
       /\ \A k \in Forward : Faithful(k)
       /\ pc \in {"plan", "seek", "read"} /\ CanRead => Aligned(filepos)
       /\ pc = "work" => Aligned(Base)
  /\ pc = "work" /\ ~opt.preview => \A i \in 0..(bytesread - 1) : buffer[i] = Base + i

(* A piece of a file that does not end before it begins has no negative     *)
(* number of bytes when the block is read from where it begins.             *)
LEMMA PieceHasBytes ==
  ASSUME TypeInv, Filed, HasPiece, Job \in Forward, Aligned(Base)
  PROVE  JobSpan.bytes \in Nat
<1>a. PICK p : p = Base
  OBVIOUS
<1>b. PICK s : s = jobs[Job].start
  OBVIOUS
<1>c. PICK e : e = jobs[Job].stop
  OBVIOUS
<1>d. PICK n : n = JobSpan.bytes
  OBVIOUS
<1>1. p \in Nat /\ s \in Nat /\ e \in Nat /\ Job \in JobIds /\ cursor \in 1..Len(Work)
  BY <1>a, <1>b, <1>c, PieceFacts
<1>2. Block(p) \in Nat /\ Block(s) \in Nat /\ Block(e) \in Nat
  BY <1>1, BlockType
<1>3. Block(s) <= Block(p) /\ Block(p) <= Block(e) /\ s <= e
  <2>1. Block(Base) \in Block(jobs[Job].start)..Block(jobs[Job].stop)
    BY PieceHere
  <2>2. Block(s) <= Block(p) /\ Block(p) <= Block(e)
    BY <1>2, <1>a, <1>b, <1>c, <2>1
  <2> QED
    BY <1>1, <1>b, <1>c, <2>2 DEF Forward, RunsForward
<1>4. /\ Block(s) = Block(p) /\ Block(e) = Block(p) => n = e - s + 1
      /\ Block(s) = Block(p) /\ Block(p) < Block(e)
           => n = smaller(e - s + 1, BufSize - (s - p))
      /\ Block(s) < Block(p) /\ Block(e) = Block(p) => n = e - p + 1
      /\ Block(s) < Block(p) /\ Block(p) < Block(e) => n = BufSize
  BY <1>a, <1>b, <1>c, <1>d, SpanCases
<1>5. Block(s) = Block(p) => p <= s /\ s < p + BufSize
  BY <1>1, <1>a, BlockBounds DEF Aligned
<1>6. Block(e) = Block(p) => p <= e /\ e < p + BufSize
  BY <1>1, <1>a, BlockBounds DEF Aligned
<1>7. n >= 0
  <2>1. PICK a : a = Block(s)
    OBVIOUS
  <2>2. PICK b : b = Block(p)
    OBVIOUS
  <2>3. PICK z : z = Block(e)
    OBVIOUS
  <2>4. a \in Nat /\ b \in Nat /\ z \in Nat /\ a <= b /\ b <= z
    BY <1>2, <1>3, <2>1, <2>2, <2>3
  <2>5. /\ a = b => p <= s /\ s < p + BufSize
        /\ z = b => p <= e /\ e < p + BufSize
        /\ a = b /\ z = b => n = e - s + 1
        /\ a = b /\ b < z => n = smaller(e - s + 1, BufSize - (s - p))
        /\ a < b /\ z = b => n = e - p + 1
        /\ a < b /\ b < z => n = BufSize
    BY <1>4, <1>5, <1>6, <2>1, <2>2, <2>3
  <2>6. CASE a = b /\ z = b
    BY <1>1, <1>3, <2>5, <2>6
  <2>7. CASE a = b /\ b < z
    BY <1>1, <1>3, <2>5, <2>7, SizeAssumption DEF smaller
  <2>8. CASE a < b /\ z = b
    BY <1>1, <2>5, <2>8
  <2>9. CASE a < b /\ b < z
    BY <2>5, <2>9, SizeAssumption
  <2> QED
    BY <2>4, <2>6, <2>7, <2>8, <2>9
<1>8. n \in Int
  BY <1>d, SpanType
<1> QED
  BY <1>d, <1>7, <1>8

(* Where the bytes of a piece lie in the buffer, and in the file.           *)
LEMMA SpanPlace ==
  ASSUME TypeInv, Filed, HasPiece, Job \in Forward, Reached(Job, Base), Aligned(Base)
  PROVE  /\ JobSpan.offset \in Nat /\ JobSpan.bytes \in Nat
         /\ JobSpan.offset + JobSpan.bytes <= BufSize
         /\ Base + JobSpan.offset = jobs[Job].start + Len(content[Job])
<1>a. PICK p : p = Base
  OBVIOUS
<1>b. PICK s : s = jobs[Job].start
  OBVIOUS
<1>c. PICK e : e = jobs[Job].stop
  OBVIOUS
<1>d. PICK c : c = Len(content[Job])
  OBVIOUS
<1>e. PICK n : n = JobSpan.bytes
  OBVIOUS
<1>f. PICK o : o = JobSpan.offset
  OBVIOUS
<1>1. p \in Nat /\ s \in Nat /\ e \in Nat
  BY <1>a, <1>b, <1>c, PieceFacts
<1>2. Block(p) \in Nat /\ Block(s) \in Nat /\ Block(e) \in Nat
  BY <1>1, BlockType
<1>3. Block(s) <= Block(p) /\ Block(p) <= Block(e)
  BY <1>1, <1>2, <1>a, <1>b, <1>c, PieceHere
<1>4. IF Block(s) < Block(p) THEN c = p - s \/ p > e + 1 ELSE c = 0
  BY <1>a, <1>b, <1>c, <1>d DEF Reached, Come
<1>5. n \in Nat /\ c \in Nat
  <2>1. JobSpan.bytes \in Nat
    BY PieceHasBytes
  <2>2. content[Job] \in Seq(Offsets)
    BY PieceFacts, ElementOfSeq DEF TypeInv, TypeOK, FileTypes, JobIds
  <2> QED
    BY <1>d, <1>e, <2>1, <2>2, LenProperties
<1>6. /\ Block(s) = Block(p) /\ Block(e) = Block(p) => o = s - p /\ n = e - s + 1
      /\ Block(s) = Block(p) /\ Block(p) < Block(e)
           => o = s - p /\ n = smaller(e - s + 1, BufSize - (s - p))
      /\ Block(s) < Block(p) /\ Block(e) = Block(p) => o = 0 /\ n = e - p + 1
      /\ Block(s) < Block(p) /\ Block(p) < Block(e) => o = 0 /\ n = BufSize
  BY <1>a, <1>b, <1>c, <1>e, <1>f, SpanCases
<1>7. Block(s) = Block(p) => p <= s /\ s < p + BufSize
  BY <1>1, <1>a, BlockBounds DEF Aligned
<1>8. Block(e) = Block(p) => p <= e /\ e < p + BufSize
  BY <1>1, <1>a, BlockBounds DEF Aligned
<1>9. p <= e
  <2>1. CASE Block(e) = Block(p)
    BY <1>8, <2>1
  <2>2. CASE Block(p) < Block(e)
    <3>1. ~(e <= p)
      BY <1>1, <1>2, <2>2, BlockMonotone
    <3> QED
      BY <1>1, <3>1
  <2> QED
    BY <1>2, <1>3, <2>1, <2>2
<1>10. /\ o \in Nat /\ o + n <= BufSize
       /\ p + o = s + c
  <2>1. CASE Block(s) = Block(p) /\ Block(e) = Block(p)
    <3>1. c = 0 /\ o = s - p /\ n = e - s + 1
      BY <1>2, <1>4, <1>6, <2>1
    <3> QED
      BY <1>1, <1>7, <1>8, <2>1, <3>1, SizeAssumption
  <2>2. CASE Block(s) = Block(p) /\ Block(p) < Block(e)
    <3>1. c = 0 /\ o = s - p /\ n = smaller(e - s + 1, BufSize - (s - p))
      BY <1>2, <1>4, <1>6, <2>2
    <3> QED
      BY <1>1, <1>7, <2>2, <3>1, SizeAssumption DEF smaller
  <2>3. CASE Block(s) < Block(p) /\ Block(e) = Block(p)
    <3>1. c = p - s /\ o = 0 /\ n = e - p + 1
      BY <1>1, <1>4, <1>6, <1>9, <2>3
    <3> QED
      BY <1>1, <1>8, <2>3, <3>1, SizeAssumption
  <2>4. CASE Block(s) < Block(p) /\ Block(p) < Block(e)
    <3>1. c = p - s /\ o = 0 /\ n = BufSize
      BY <1>1, <1>4, <1>6, <1>9, <2>4
    <3> QED
      BY <1>1, <3>1, SizeAssumption
  <2> QED
    BY <1>2, <1>3, <2>1, <2>2, <2>3, <2>4
<1> QED
  BY <1>a, <1>b, <1>d, <1>e, <1>f, <1>5, <1>10

(* The first n bytes of a piece continue the file.                          *)
LEMMA WrittenFaithful ==
  ASSUME TypeInv, Filed, OpenInv, HasPiece, Job \in Forward, Reached(Job, Base),
         ~opt.preview, Aligned(Base), Faithful(Job), ContentInv,
         NEW n \in Nat, n <= JobSpan.bytes
  PROVE  \A i \in 1..Len(Written(n)[Job]) :
           jobs[Job].start + i - 1 < img.size => Written(n)[Job][i] = jobs[Job].start + i - 1
<1>a. PICK p : p = Base
  OBVIOUS
<1>b. PICK s : s = jobs[Job].start
  OBVIOUS
<1>c. PICK c : c = Len(content[Job])
  OBVIOUS
<1>d. PICK o : o = JobSpan.offset
  OBVIOUS
<1>e. PICK w : w = Written(n)[Job]
  OBVIOUS
<1>f. PICK z : z = img.size
  OBVIOUS
<1>g. PICK d : d = Bytes(buffer, JobSpan, n)
  OBVIOUS
<1>1. p \in Nat /\ s \in Nat /\ z \in Nat
  BY <1>a, <1>b, <1>f, PieceFacts DEF TypeInv, TypeOK, InputTypes
<1>2. o \in Nat /\ o + n <= BufSize /\ p + o = s + c /\ c \in Nat
  <2>1. /\ JobSpan.offset \in Nat /\ JobSpan.bytes \in Nat
        /\ JobSpan.offset + JobSpan.bytes <= BufSize
        /\ Base + JobSpan.offset = jobs[Job].start + Len(content[Job])
    BY SpanPlace
  <2>2. Len(content[Job]) \in Nat
    BY WrittenPoints
  <2>3. o + n <= BufSize
    BY <1>d, <2>1, SizeAssumption
  <2> QED
    BY <1>a, <1>b, <1>c, <1>d, <2>1, <2>2, <2>3
<1>3. /\ w = content[Job] \o d /\ content[Job] \in Seq(Offsets) /\ d \in Seq(Offsets)
      /\ Len(w) = c + n /\ Len(d) = n
  <2>1. Len(Bytes(buffer, JobSpan, n)) = n
    BY BytesType DEF TypeInv, TypeOK, ReadTypes
  <2> QED
    BY <1>c, <1>e, <1>g, <2>1, WrittenPoints
<1>4. ASSUME NEW i \in 1..c, s + i - 1 < z PROVE w[i] = s + i - 1
  <2>1. w[i] = content[Job][i]
    BY <1>3, <1>4, <1>c, ConcatProperties
  <2> QED
    BY <1>4, <1>b, <1>c, <1>f, <2>1 DEF Faithful
<1>5. ASSUME NEW m \in 1..n, s + (c + m) - 1 < z PROVE w[c + m] = s + (c + m) - 1
  <2>1. w[c + m] = d[m]
    <3>1. c + m \in (c + 1)..(c + n) /\ (c + m) - c = m
      BY <1>2
    <3> QED
      BY <1>2, <1>3, <1>c, <3>1, ConcatProperties
  <2>2. PICK b : b = o + m - 1
    OBVIOUS
  <2>3. b \in 0..(BufSize - 1) /\ p + b = s + (c + m) - 1
    BY <1>1, <1>2, <2>2, SizeAssumption
  <2>4. d[m] = buffer[b]
    BY <1>d, <1>g, <2>2, <2>3 DEF Bytes
  <2>5. b \in 0..(bytesread - 1)
    <3>1. bytesread \in Nat /\ filepos \in Nat /\ p = filepos - bytesread
      BY <1>a, SizeAssumption DEF Base, TypeInv, TypeOK, ReadTypes
    <3>2. bytesread = BufSize \/ filepos >= z
      BY <1>1, <1>f, <3>1 DEF OpenInv, FullBuffer, CanRead, HasPiece
    <3>3. p + b < z
      BY <1>5, <2>3
    <3> QED
      BY <1>1, <2>3, <3>1, <3>2, <3>3, SizeAssumption
  <2>6. buffer[b] = p + b
    BY <1>a, <2>5 DEF ContentInv, HasPiece
  <2> QED
    BY <2>1, <2>3, <2>4, <2>6
<1>6. ASSUME NEW i \in 1..(c + n), s + i - 1 < z PROVE w[i] = s + i - 1
  <2>1. CASE i <= c
    BY <1>2, <1>4, <1>6, <2>1
  <2>2. CASE i > c
    <3>1. PICK m \in 1..n : i = c + m
      <4>1. i - c \in 1..n /\ i = c + (i - c)
        BY <1>2, <2>2
      <4> QED
        BY <4>1
    <3> QED
      BY <1>5, <1>6, <3>1
  <2> QED
    BY <1>2, <2>1, <2>2
<1> QED
  BY <1>3, <1>6, <1>b, <1>e, <1>f

(* Steps that write nothing, and lead out of the second pass.               *)
LEMMA ContentLeft ==
  ASSUME ContentInv, img' = img, opt' = opt, jobs' = jobs, content' = content,
         pc' \notin {"plan", "seek", "read", "work"}
  PROVE  ContentInv'
<1>1. Forward' = Forward /\ (WholeSkip' <=> WholeSkip)
  BY DEF JobIds, WholeSkip, Forward, RunsForward
<1>2. \A k : Faithful(k)' <=> Faithful(k)
  BY DEF Faithful
<1> QED
  BY <1>1, <1>2 DEF ContentInv

(* Planning.                                                                *)
LEMMA ContentPlan ==
  ASSUME ContentInv, Planned', img' = img, opt' = opt, filepos' = filepos,
         pc = "plan", pc' = "plan"
  PROVE  ContentInv'
<1>1. \A k \in Forward' : Faithful(k)'
  <2>1. \A k \in JobIds' : content'[k] = <<>>
    BY DEF Planned
  <2> QED
    BY <2>1 DEF Faithful, Forward
<1>2. CanRead' = CanRead /\ (WholeSkip' <=> WholeSkip)
  BY DEF CanRead, WholeSkip
<1>3. Aligned(filepos)' <=> Aligned(filepos)
  BY DEF Aligned, Block
<1> QED
  BY <1>1, <1>2, <1>3 DEF ContentInv

(* When the image is opened no file has bytes.                             *)
LEMMA ContentOpenImage == TypeInv /\ Planned /\ OpenImage => ContentInv'
<1> SUFFICES ASSUME TypeInv, Planned, OpenImage PROVE ContentInv'
  OBVIOUS
<1>1. /\ pc = "open" /\ pc' = "plan" /\ filepos' = opt.skip
      /\ opt' = opt /\ jobs' = jobs /\ content' = content
  BY DEF OpenImage, inVars, planVars, fileVars
<1>2. \A k \in Forward' : Faithful(k)'
  <2>1. JobIds' = JobIds /\ \A k \in JobIds : content[k] = <<>>
    BY <1>1 DEF JobIds, Planned
  <2> QED
    BY <1>1, <2>1 DEF Faithful, Forward
<1>3. PICK x : x = opt.skip
  OBVIOUS
<1>4. x \in Nat
  BY <1>3, OptionAssumption DEF TypeInv, TypeOK, InputTypes
<1>5. x % BufSize = 0 => x = BufSize * (x \div BufSize)
  BY <1>4, SizeAssumption
<1>6. WholeSkip' => Aligned(filepos)'
  BY <1>1, <1>3, <1>5 DEF WholeSkip, Aligned, Block
<1> QED
  BY <1>1, <1>2, <1>6 DEF ContentInv

(* Steps between the blocks that write nothing.                             *)
LEMMA ContentMoves ==
  ASSUME ContentInv, opt' = opt, img' = img, jobs' = jobs, content' = content,
         pc' \in {"seek", "read"},
         WholeSkip /\ CanRead' => Aligned(filepos)'
  PROVE  ContentInv'
<1>1. Forward' = Forward /\ (WholeSkip' <=> WholeSkip)
  BY DEF JobIds, WholeSkip, Forward, RunsForward
<1>2. \A k : Faithful(k)' <=> Faithful(k)
  BY DEF Faithful
<1> QED
  BY <1>1, <1>2 DEF ContentInv

(* The pass begins with no file written to.                                *)
LEMMA ContentNextNeedle == ContentInv /\ Planned' /\ NextNeedle => ContentInv'
<1> SUFFICES ASSUME ContentInv, Planned', NextNeedle PROVE ContentInv'
  OBVIOUS
<1>1. /\ pc = "plan" /\ pc' \in {"plan", "seek"} /\ opt' = opt /\ img' = img
      /\ jobs' = jobs /\ content' = content /\ filepos' = filepos
  BY DEF NextNeedle, inVars, fileVars, readVars
<1>2. CASE pc' = "plan"
  BY <1>1, <1>2, ContentPlan
<1>3. CASE pc' = "seek"
  <2>1. CanRead' = CanRead /\ (Aligned(filepos)' <=> Aligned(filepos))
    BY <1>1 DEF CanRead, Aligned, Block
  <2>2. WholeSkip /\ CanRead => Aligned(filepos)
    BY <1>1 DEF ContentInv
  <2> QED
    BY <1>1, <1>3, <2>1, <2>2, ContentMoves
<1> QED
  BY <1>1, <1>2, <1>3

(* The big seek leads to the beginning of a block.                         *)
LEMMA ContentSeekWork == TypeInv /\ ContentInv /\ SeekWork => ContentInv'
<1> SUFFICES ASSUME TypeInv, ContentInv, SeekWork PROVE ContentInv'
  OBVIOUS
<1>1. /\ pc = "seek" /\ pc' = "read" /\ opt' = opt /\ img' = img
      /\ jobs' = jobs /\ content' = content
      /\ filepos' = filepos + Least(SeekTargets) * BufSize
  BY DEF SeekWork, inVars, planVars, fileVars
<1>2. PICK t : t = Least(SeekTargets)
  OBVIOUS
<1>3. PICK p : p = filepos
  OBVIOUS
<1>4. t \in Nat /\ p \in Nat /\ img.size \in Nat
  BY <1>2, <1>3, SeekTargetType DEF SeekWork, TypeInv, TypeOK, ReadTypes, InputTypes
<1>5. PICK f : f = p + t * BufSize
  OBVIOUS
<1>6. f \in Nat /\ Block(f) = Block(p) + t /\ Block(p) \in Nat
  BY <1>4, <1>5, BlocksAhead, BlockType
<1>7. CanRead' => CanRead
  <2>1. p <= f
    <3>1. t * BufSize \in Nat
      BY <1>4, SizeAssumption
    <3> QED
      BY <1>4, <1>5, <3>1
  <2>2. filepos' = f
    BY <1>1, <1>2, <1>3, <1>5
  <2> QED
    BY <1>1, <1>3, <1>4, <1>6, <2>1, <2>2 DEF CanRead
<1>8. ASSUME Aligned(p) PROVE Aligned(f)
  <2>1. PICK b : b = Block(p)
    OBVIOUS
  <2>2. p = BufSize * b /\ b \in Nat
    BY <1>6, <1>8, <2>1 DEF Aligned
  <2>3. f = BufSize * (b + t)
    BY <1>4, <1>5, <2>2, SizeAssumption
  <2> QED
    BY <1>6, <2>1, <2>3 DEF Aligned
<1>9. WholeSkip /\ CanRead' => Aligned(f)
  BY <1>1, <1>3, <1>7, <1>8 DEF ContentInv
<1>10. Aligned(f) => Aligned(filepos)'
  BY <1>1, <1>2, <1>3, <1>5 DEF Aligned, Block
<1> QED
  BY <1>1, <1>9, <1>10, ContentMoves

(* Behind a block the position is that of the next one.                    *)
LEMMA ContentEndOfQueue == TypeInv /\ OpenInv /\ ContentInv /\ EndOfQueue => ContentInv'
<1> SUFFICES ASSUME TypeInv, OpenInv, ContentInv, EndOfQueue PROVE ContentInv'
  OBVIOUS
<1>1. /\ pc = "work" /\ pc' = "seek" /\ opt' = opt /\ img' = img
      /\ jobs' = jobs /\ content' = content /\ filepos' = filepos /\ CanRead' = CanRead
  BY DEF EndOfQueue, inVars, planVars, fileVars, readVars, CanRead
<1>2. PICK p : p = Base
  OBVIOUS
<1>3. ASSUME WholeSkip, CanRead PROVE Aligned(p + BufSize) /\ filepos = p + BufSize
  <2>1. bytesread = BufSize
    BY <1>1, <1>3 DEF OpenInv, FullBuffer
  <2>2. p \in Nat /\ filepos = p + BufSize
    BY <1>2, <2>1, SizeAssumption DEF Base, TypeInv, TypeOK, ReadTypes
  <2>3. PICK b : b = Block(p)
    OBVIOUS
  <2>4. p = BufSize * b /\ b \in Nat
    BY <1>1, <1>2, <1>3, <2>2, <2>3, BlockType DEF ContentInv, Aligned
  <2>5. p + BufSize = BufSize * (b + 1)
    BY <2>4, SizeAssumption
  <2>6. Block(p + BufSize) = b + 1
    BY <2>2, <2>3, NextBlock
  <2> QED
    BY <2>2, <2>5, <2>6 DEF Aligned
<1>4. WholeSkip /\ CanRead' => Aligned(filepos)'
  BY <1>1, <1>3 DEF Aligned, Block
<1> QED
  BY <1>1, <1>4, ContentMoves

(* A read fills the buffer with the block whose queue is next.             *)
LEMMA ContentReadBlock == TypeInv /\ ContentInv /\ ReadBlock => ContentInv'
<1> SUFFICES ASSUME TypeInv, ContentInv, ReadBlock PROVE ContentInv'
  OBVIOUS
<1>1. /\ pc = "read" /\ pc' \in {"work", "exit"} /\ opt' = opt /\ img' = img
      /\ jobs' = jobs /\ content' = content
      /\ filepos' = filepos + Available /\ bytesread' = Available /\ Available > 0
      /\ buffer' = IF opt.preview THEN buffer ELSE Refill(buffer, filepos, Available)
  BY DEF ReadBlock, inVars, planVars, fileVars
<1>2. PICK p : p = filepos
  OBVIOUS
<1>3. PICK a : a = Available
  OBVIOUS
<1>4. p \in Nat /\ a \in 0..BufSize /\ img.size \in Nat
  BY <1>2, <1>3, AvailableType DEF TypeInv, TypeOK, ReadTypes, InputTypes
<1>5. Base' = p
  BY <1>1, <1>2, <1>3, <1>4, SizeAssumption DEF Base
<1>6. CanRead
  BY <1>1, <1>2, <1>4, SizeAssumption DEF CanRead, Available, smaller, larger
<1>7. WholeSkip => Aligned(Base)'
  <2>1. WholeSkip => Aligned(p)
    BY <1>1, <1>2, <1>6 DEF ContentInv
  <2> QED
    BY <1>5, <2>1 DEF Aligned, Block
<1>8. ~opt.preview => \A i \in 0..(a - 1) : buffer'[i] = p + i
  BY <1>1, <1>2, <1>3, <1>4, SizeAssumption DEF Refill
<1>9. Forward' = Forward /\ (WholeSkip' <=> WholeSkip)
  BY <1>1 DEF JobIds, WholeSkip, Forward, RunsForward
<1>10. \A k : Faithful(k)' <=> Faithful(k)
  BY <1>1 DEF Faithful
<1> QED
  BY <1>1, <1>3, <1>5, <1>7, <1>8, <1>9, <1>10 DEF ContentInv

(* Whatever a step writes of the current piece continues the file, unless   *)
(* the file ends before it begins.                                          *)
LEMMA WriteIsFaithful ==
  ASSUME AllInv, ContentInv, WholeSkip, HasPiece, ~opt.preview, jobs' = jobs, img' = img,
         NEW n \in Nat, n \in WrittenInPart \/ n = JobSpan.bytes, content' = Written(n)
  PROVE  \A k \in Forward' : Faithful(k)'
<1>0. TypeInv /\ Filed /\ OpenInv /\ Progress /\ pc = "work"
  BY DEF AllInv, HasPiece
<1>1. Aligned(Base) /\ \A k \in Forward : Faithful(k)
  BY <1>0 DEF ContentInv
<1>2. \A k \in JobIds : k # Job => content'[k] = content[k]
  BY <1>0, WrittenPoints
<1>3. ASSUME Job \in Forward
      PROVE  \A i \in 1..Len(content'[Job]) :
               jobs[Job].start + i - 1 < img.size => content'[Job][i] = jobs[Job].start + i - 1
  <2>1. Reached(Job, Base)
    <3>1. cursor \in cursor..Len(Work)
      BY <1>0, PieceFacts
    <3>2. Pending(Job)
      BY <3>1 DEF Pending, Job
    <3> QED
      BY <1>0, <1>3, <3>2 DEF Progress
  <2>2. JobSpan.bytes \in Nat
    BY <1>0, <1>1, <1>3, PieceHasBytes
  <2>3. n <= JobSpan.bytes
    BY <2>2 DEF WrittenInPart
  <2> QED
    BY <1>0, <1>1, <1>3, <2>1, <2>3, WrittenFaithful
<1>4. ASSUME NEW k \in Forward PROVE Faithful(k)'
  <2>1. CASE k = Job
    <3>1. \A i \in 1..Len(content'[k]) :
            jobs[k].start + i - 1 < img.size => content'[k][i] = jobs[k].start + i - 1
      BY <1>3, <1>4, <2>1
    <3> QED
      BY <3>1 DEF Faithful
  <2>2. CASE k # Job
    BY <1>1, <1>2, <2>2 DEF Faithful, Forward
  <2> QED
    BY <2>1, <2>2
<1>5. Forward' = Forward
  BY DEF Forward, RunsForward, JobIds
<1> QED
  BY <1>4, <1>5

(* A piece appends the bytes of the image that follow.                     *)
LEMMA ContentCarvePiece == AllInv /\ ContentInv /\ CarvePiece => ContentInv'
<1> SUFFICES ASSUME AllInv, ContentInv, CarvePiece PROVE ContentInv'
  OBVIOUS
<1>1. /\ HasPiece /\ pc = "work" /\ pc' = pc /\ opt' = opt /\ img' = img /\ jobs' = jobs
      /\ filepos' = filepos /\ bytesread' = bytesread /\ buffer' = buffer
      /\ opt.preview \/ JobSpan.bytes >= 0
      /\ content' = IF opt.preview THEN content ELSE Written(JobSpan.bytes)
  BY DEF CarvePiece, HasPiece, inVars, planVars
<1>2. (WholeSkip' <=> WholeSkip) /\ Base' = Base /\ Forward' = Forward
  BY <1>1 DEF WholeSkip, Base, JobIds, Forward, RunsForward
<1>3. Aligned(Base)' <=> Aligned(Base)
  BY <1>2 DEF Aligned, Block
<1>4. ASSUME WholeSkip PROVE \A k \in Forward' : Faithful(k)'
  <2>1. CASE opt.preview
    <3>1. \A k : Faithful(k)' <=> Faithful(k)
      BY <1>1, <2>1 DEF Faithful
    <3> QED
      BY <1>2, <1>4, <3>1 DEF ContentInv
  <2>2. CASE ~opt.preview
    <3>1. PICK n : n = JobSpan.bytes
      OBVIOUS
    <3>2. n \in Nat
      <4>1. JobSpan.bytes \in Int
        BY <1>1, SpanType DEF AllInv
      <4> QED
        BY <1>1, <2>2, <3>1, <4>1
    <3> QED
      BY <1>1, <1>4, <2>2, <3>1, <3>2, WriteIsFaithful
  <2> QED
    BY <2>1, <2>2
<1> QED
  BY <1>1, <1>2, <1>3, <1>4 DEF ContentInv

(* A piece that fails appends some of them, or all.                        *)
LEMMA ContentFailedWrite ==
  AllInv /\ ContentInv /\ (WriteFails \/ CloseFails) => ContentInv'
<1> SUFFICES ASSUME AllInv, ContentInv, WriteFails \/ CloseFails PROVE ContentInv'
  OBVIOUS
<1>1. /\ HasPiece /\ ~opt.preview /\ pc' = "FILE_WRITE"
      /\ opt' = opt /\ img' = img /\ jobs' = jobs
  BY DEF WriteFails, CloseFails, inVars, planVars
<1>2. PICK n \in Nat :
        (n \in WrittenInPart \/ n = JobSpan.bytes) /\ content' = Written(n)
  <2>0. JobSpan.bytes \in Int /\ WrittenInPart \subseteq Nat
    BY <1>1, SpanType, WrittenNumber DEF AllInv
  <2>1. CASE WriteFails
    <3>1. PICK n \in WrittenInPart : content' = Written(n)
      BY <2>1 DEF WriteFails
    <3> QED
      BY <2>0, <3>1
  <2>2. CASE CloseFails
    BY <2>0, <2>2 DEF CloseFails
  <2> QED
    BY <2>1, <2>2
<1>3. WholeSkip => \A k \in Forward' : Faithful(k)'
  BY <1>1, <1>2, WriteIsFaithful
<1>4. WholeSkip' <=> WholeSkip
  BY <1>1 DEF WholeSkip
<1> QED
  BY <1>1, <1>3, <1>4 DEF ContentInv

(* A step of none of these, such as a signal.                              *)
LEMMA ContentKept ==
  ASSUME ContentInv, UNCHANGED <<inVars, pc, planVars, queues, readVars, fileVars>>
  PROVE  ContentInv'
<1>1. /\ Forward' = Forward /\ opt' = opt /\ img' = img /\ pc' = pc /\ CanRead' = CanRead
      /\ Base' = Base /\ filepos' = filepos /\ bytesread' = bytesread
      /\ buffer' = buffer /\ jobs' = jobs /\ content' = content
  BY DEF inVars, planVars, fileVars, readVars, JobIds, CanRead, Base, Forward, RunsForward
<1>2. /\ \A k : Faithful(k)' <=> Faithful(k)
      /\ WholeSkip' <=> WholeSkip
  BY <1>1 DEF Faithful, WholeSkip
<1> QED
  BY <1>1, <1>2 DEF ContentInv, Aligned, Block

(* Every step keeps the files made of the right bytes.                     *)
LEMMA ContentNext == AllInv /\ AllInv' /\ ContentInv /\ [Next]_vars => ContentInv'
<1> SUFFICES ASSUME AllInv, AllInv', ContentInv, [Next]_vars PROVE ContentInv'
  OBVIOUS
<1>0. TypeInv /\ Filed /\ OpenInv /\ Planned /\ Planned'
  BY DEF AllInv
<1>1. CASE OpenImage
  BY <1>0, <1>1, ContentOpenImage
<1>2. CASE SkipUnaligned \/ PlanNothing \/ PlanCarve
  BY <1>0, <1>2, ContentPlan DEF SkipUnaligned, PlanNothing, PlanCarve, inVars, readVars
<1>3. CASE NextNeedle
  BY <1>0, <1>3, ContentNextNeedle
<1>4. CASE \/ OpenImageFails \/ NoMoreWork \/ SeekOverrun \/ EndOfImage \/ ReadFails
           \/ OpenFails \/ CarveOverrun \/ Finish \/ FinishFails
  BY <1>4, ContentLeft
     DEF OpenImageFails, NoMoreWork, SeekOverrun, EndOfImage, ReadFails, OpenFails,
         CarveOverrun, Finish, FinishFails, inVars, planVars, fileVars
<1>5. CASE SeekWork
  BY <1>0, <1>5, ContentSeekWork
<1>6. CASE ReadBlock
  BY <1>0, <1>6, ContentReadBlock
<1>7. CASE CarvePiece
  BY <1>7, ContentCarvePiece
<1>8. CASE WriteFails \/ CloseFails
  BY <1>8, ContentFailedWrite
<1>9. CASE EndOfQueue
  BY <1>0, <1>9, ContentEndOfQueue
<1>10. CASE CatchSignal \/ UNCHANGED vars
  BY <1>10, ContentKept DEF CatchSignal, vars
<1> QED
  BY <1>1, <1>2, <1>3, <1>4, <1>5, <1>6, <1>7, <1>8, <1>9, <1>10
     DEF Next, Step, Plan, Seek, Read, Carve, Halted

(* So they are in every state.                                             *)
LEMMA ContentInvariant == Spec => []ContentInv
<1>1. Init => ContentInv
  <2> SUFFICES ASSUME Init PROVE ContentInv
    OBVIOUS
  <2>1. jobs = <<>> /\ pc = "open"
    BY DEF Init
  <2>2. Forward = {}
    BY <2>1 DEF JobIds, Forward
  <2> QED
    BY <2>1, <2>2 DEF ContentInv
<1>2. AllInv /\ AllInv' /\ ContentInv /\ [Next]_vars => ContentInv'
  BY ContentNext
<1> QED
  BY <1>1, <1>2, AllInvariant, PTL DEF Spec

(* When the skip is a multiple of the buffer, every byte of every carved    *)
(* file that does not end before it begins, and that lies inside the image, *)
(* is the image's byte, at every moment and on every error path             *)
(* (scalpel.h:209-216).                                                     *)
THEOREM CarvedRight == Spec => []CarvedBytes
<1>1. ContentInv => CarvedBytes
  BY DEF ContentInv, CarvedBytes, Forward
<1> QED
  BY <1>1, ContentInvariant, PTL

-----------------------------------------------------------------------------
(***************************************************************************)
(* What is left to do.  The image is read in steps of a buffer from skip   *)
(* on, and no job that is not in the log is behind the reader: its last    *)
(* block is still to come, or nothing can be read any more and it is one   *)
(* of those that end past the last read.  The files that end before they   *)
(* begin are left aside.                                                   *)
(***************************************************************************)
Rest == opt.skip % BufSize

OnPace(p) == p = Rest + BufSize * Block(p)

ToCome(k) == IF CanRead THEN Block(jobs[k].stop) >= Block(filepos)
                        ELSE EndsPastLastRead(k)

Remains ==
  /\ pc \in {"seek", "read"} =>
       /\ CanRead => OnPace(filepos)
       /\ \A k \in Forward : Audited(k) \/ ToCome(k)
  /\ pc = "work" =>
       /\ OnPace(Base)
       /\ \A k \in Forward :
            Audited(k) \/ Pending(k) \/ Block(jobs[k].stop) > Block(Base)
  /\ pc \in {"finish", "done"} => \A k \in Forward : Audited(k) \/ EndsPastLastRead(k)

(* The distance of two naturals, as a natural.                              *)
LEMMA Distance ==
  ASSUME NEW a \in Nat, NEW b \in Nat, a <= b
  PROVE  \E d \in Nat : b = a + d
<1>1. b - a \in Nat /\ b = a + (b - a)
  OBVIOUS
<1> QED
  BY <1>1

(* The first position has the pace, and a step of whole buffers keeps it.   *)
LEMMA PaceBegins ==
  ASSUME TypeInv
  PROVE  opt.skip \in Nat /\ Rest \in Nat /\ Rest < BufSize /\ OnPace(opt.skip)
<1>1. PICK x : x = opt.skip
  OBVIOUS
<1>2. x \in Nat
  BY <1>1, OptionAssumption DEF TypeInv, TypeOK, InputTypes
<1>3. x % BufSize \in 0..(BufSize - 1) /\ x \div BufSize \in Nat
  BY <1>2, SizeAssumption
<1>4. x = (BufSize * (x \div BufSize)) + (x % BufSize)
  BY <1>2, SizeAssumption
<1>5. PICK y : y = BufSize * (x \div BufSize)
  OBVIOUS
<1>6. y \in Nat
  BY <1>3, <1>5, SizeAssumption
<1>7. x = (x % BufSize) + y
  BY <1>3, <1>4, <1>5, <1>6
<1> QED
  BY <1>1, <1>2, <1>3, <1>5, <1>7, SizeAssumption DEF Rest, OnPace, Block

(* A position that is on pace stays so when whole buffers are added.        *)
LEMMA PaceKept ==
  ASSUME TypeInv, NEW p \in Nat, OnPace(p), NEW t \in Nat
  PROVE  OnPace(p + t * BufSize)
<1>1. Block(p + t * BufSize) = Block(p) + t /\ Block(p) \in Nat
  BY BlocksAhead, BlockType
<1>2. Rest \in Nat
  BY PaceBegins
<1>3. PICK b \in Nat : b = Block(p)
  BY <1>1
<1>4. p = Rest + BufSize * b
  BY <1>3 DEF OnPace
<1>5. BufSize * (b + t) = BufSize * b + t * BufSize
  BY SizeAssumption
<1>6. p + t * BufSize = Rest + BufSize * (b + t)
  <2>1. BufSize * b \in Nat /\ t * BufSize \in Nat
    BY SizeAssumption
  <2> QED
    BY <1>2, <1>4, <1>5, <2>1
<1> QED
  BY <1>1, <1>3, <1>6 DEF OnPace

(* The read of the last block of a job is as many buffers ahead as its      *)
(* block.                                                                   *)
LEMMA LastReadAhead ==
  ASSUME TypeInv, NEW k \in JobIds, NEW p \in Nat, OnPace(p),
         NEW d \in Nat, Block(jobs[k].stop) = Block(p) + d
  PROVE  LastRead(k) = p + d * BufSize /\ LastRead(k) \in Nat
<1>1. PICK b : b = Block(p)
  OBVIOUS
<1>2. b \in Nat /\ Rest \in Nat
  BY <1>1, BlockType, PaceBegins
<1>3. LastRead(k) = Rest + (b + d) * BufSize
  BY <1>1 DEF LastRead, Rest
<1>4. p = Rest + BufSize * b
  BY <1>1 DEF OnPace
<1>5. (b + d) * BufSize = BufSize * b + d * BufSize
  BY <1>2, SizeAssumption
<1>6. BufSize * b \in Nat /\ d * BufSize \in Nat
  BY <1>2, SizeAssumption
<1> QED
  BY <1>2, <1>3, <1>4, <1>5, <1>6

(* So it is not before p when the block of p has been reached.              *)
LEMMA LastReadBehind ==
  ASSUME TypeInv, NEW k \in JobIds, NEW p \in Nat, OnPace(p),
         Block(jobs[k].stop) >= Block(p)
  PROVE  LastRead(k) >= p
<1>1. Block(jobs[k].stop) \in Nat /\ Block(p) \in Nat
  BY JobFacts, BlockType
<1>2. PICK d \in Nat : Block(jobs[k].stop) = Block(p) + d
  BY <1>1, Distance
<1>3. LastRead(k) = p + d * BufSize
  BY <1>2, LastReadAhead
<1>4. d * BufSize \in Nat
  BY SizeAssumption
<1> QED
  BY <1>3, <1>4

(* A job touches its last block, which lies in the image.                   *)
LEMMA LastBlockTouched ==
  ASSUME TypeInv, PlanSound, NEW k \in JobIds
  PROVE  /\ Touches(k, Block(jobs[k].stop))
         /\ Block(jobs[k].start) <= Block(img.size)
         /\ Block(jobs[k].stop) <= Block(img.size)
         /\ k \in Forward => Block(jobs[k].start) <= Block(jobs[k].stop)
<1>1. jobs[k].start \in Nat /\ jobs[k].stop \in Nat /\ img.size \in Nat
  BY JobFacts DEF TypeInv, TypeOK, InputTypes
<1>2. jobs[k].start <= img.size /\ jobs[k].stop <= img.size
  BY <1>1 DEF PlanSound, JobInside
<1>3. k \in Forward => jobs[k].start <= jobs[k].stop
  BY DEF Forward, RunsForward
<1>4. Touches(k, Block(jobs[k].stop))
  BY DEF Touches, WorkBlocks
<1> QED
  BY <1>1, <1>2, <1>3, <1>4, BlockMonotone

(* Nothing remains to be shown before the second pass reads.                *)
LEMMA RemainsInit == Init => Remains
BY DEF Init, Remains

(* Planning ends where the reading begins, before every job.                *)
LEMMA RemainsNextNeedle == TypeInv /\ Planned /\ PlanSound /\ NextNeedle => Remains'
<1> SUFFICES ASSUME TypeInv, Planned, PlanSound, NextNeedle, pc' = "seek" PROVE Remains'
  BY DEF Remains, NextNeedle
<1>1. /\ pc = "plan" /\ filepos' = filepos /\ jobs' = jobs /\ opt' = opt /\ img' = img
      /\ audit' = audit
  BY DEF NextNeedle, readVars, inVars, fileVars
<1>2. PICK p : p = filepos
  OBVIOUS
<1>3. p = opt.skip /\ p \in Nat /\ OnPace(p)
  BY <1>1, <1>2, PaceBegins DEF Planned
<1>4. ASSUME NEW k \in Forward
      PROVE  Block(jobs[k].stop) >= Block(p) /\ LastRead(k) >= p
  <2>0. k \in JobIds
    BY DEF Forward
  <2>1. jobs[k].start >= p /\ jobs[k].start \in Nat
    BY <1>1, <1>3, <2>0, JobFacts DEF Planned
  <2>2. Block(p) <= Block(jobs[k].start) /\ Block(p) \in Nat
    BY <1>3, <2>1, BlockMonotone, BlockType
  <2>3. Block(jobs[k].start) <= Block(jobs[k].stop)
    BY <2>0, LastBlockTouched
  <2>4. Block(jobs[k].stop) >= Block(p)
    BY <2>0, <2>2, <2>3, JobFacts, BlockType
  <2> QED
    BY <1>3, <2>0, <2>4, LastReadBehind
<1>5. ASSUME NEW k \in Forward PROVE ToCome(k)
  <2>0. k \in JobIds
    BY DEF Forward
  <2>1. CASE CanRead
    BY <1>2, <1>4, <2>1 DEF ToCome
  <2>2. CASE ~CanRead
    <3>1. ~opt.preview /\ p >= img.size /\ img.size \in Nat
      BY <1>2, <1>3, <2>2 DEF CanRead, TypeInv, TypeOK, InputTypes
    <3>2. LastRead(k) \in Nat
      <4>1. Block(jobs[k].stop) \in Nat /\ Rest \in Nat
        BY <2>0, JobFacts, PaceBegins
      <4> QED
        BY <4>1, SizeAssumption DEF LastRead, Rest
    <3>3. LastRead(k) >= img.size
      BY <1>3, <1>4, <3>1, <3>2
    <3> QED
      BY <2>0, <2>2, <3>1, <3>3 DEF ToCome, EndsPastLastRead
  <2> QED
    BY <2>1, <2>2
<1>6. \A k \in Forward' : ToCome(k)'
  BY <1>1, <1>5 DEF ToCome, CanRead, EndsPastLastRead, LastRead, Block, JobIds, Forward, RunsForward
<1>7. OnPace(filepos)'
  BY <1>1, <1>2, <1>3 DEF OnPace, Rest, Block
<1> QED
  BY <1>6, <1>7 DEF Remains, NextNeedle

(* The big seek passes no job by.                                           *)
LEMMA RemainsSeekWork == TypeInv /\ Filed /\ PlanSound /\ Remains /\ SeekWork => Remains'
<1> SUFFICES ASSUME TypeInv, Filed, PlanSound, Remains, SeekWork PROVE Remains'
  OBVIOUS
<1>1. /\ pc = "seek" /\ pc' = "read"
      /\ jobs' = jobs /\ opt' = opt /\ img' = img /\ audit' = audit
      /\ filepos' = filepos + Least(SeekTargets) * BufSize
  BY DEF SeekWork, inVars, planVars, fileVars
<1>2. PICK t : t = Least(SeekTargets)
  OBVIOUS
<1>3. PICK p : p = filepos
  OBVIOUS
<1>4. PICK f : f = p + t * BufSize
  OBVIOUS
<1>5. /\ t \in Nat /\ t \in SeekTargets /\ p \in Nat /\ f \in Nat /\ p <= f
      /\ img.size \in Nat
  <2>1. t \in Nat /\ t \in SeekTargets /\ p \in Nat /\ img.size \in Nat
    BY <1>2, <1>3, SeekTargetType DEF SeekWork, TypeInv, TypeOK, ReadTypes, InputTypes
  <2>2. t * BufSize \in Nat
    BY <2>1, SizeAssumption
  <2> QED
    BY <1>4, <2>1, <2>2
<1>6. Block(f) = Block(p) + t /\ Block(p) \in Nat /\ filepos' = f
  BY <1>1, <1>2, <1>3, <1>4, <1>5, BlocksAhead, BlockType
<1>7. CanRead => OnPace(f)
  BY <1>1, <1>3, <1>4, <1>5, PaceKept DEF Remains
<1>8. ASSUME CanRead, NEW k \in Forward, ~Audited(k)
      PROVE  Block(jobs[k].stop) >= Block(f)
  <2>0. k \in JobIds
    BY DEF Forward
  <2>1. PICK e : e = Block(jobs[k].stop)
    OBVIOUS
  <2>2. e \in Nat /\ e >= Block(p)
    BY <1>1, <1>3, <1>8, <2>0, <2>1, JobFacts DEF Remains, ToCome
  <2>3. ASSUME e < Block(p) + t PROVE FALSE
    <3>1. PICK d \in Nat : e = Block(p) + d
      BY <1>6, <2>2, Distance
    <3>2. d < t
      BY <1>5, <1>6, <2>3, <3>1
    <3>3. Touches(k, Block(filepos) + d)
      BY <1>3, <2>0, <2>1, <3>1, LastBlockTouched
    <3> QED
      BY <1>2, <2>0, <3>2, <3>3, NothingPassed
  <2> QED
    BY <1>5, <1>6, <2>1, <2>2, <2>3
<1>9. ASSUME NEW k \in Forward, ~Audited(k)
      PROVE  IF opt.preview \/ f < img.size THEN Block(jobs[k].stop) >= Block(f)
                                            ELSE EndsPastLastRead(k)
  <2>0. k \in JobIds
    BY DEF Forward
  <2>1. CASE ~CanRead
    <3>1. ~opt.preview /\ p >= img.size
      BY <1>3, <1>5, <2>1 DEF CanRead
    <3>2. ~(opt.preview \/ f < img.size)
      BY <1>5, <3>1
    <3> QED
      BY <1>1, <1>9, <2>1, <3>2 DEF Remains, ToCome
  <2>2. CASE CanRead /\ (opt.preview \/ f < img.size)
    BY <1>8, <1>9, <2>2
  <2>3. CASE CanRead /\ ~(opt.preview \/ f < img.size)
    <3>1. LastRead(k) >= f
      BY <1>5, <1>7, <1>8, <1>9, <2>0, <2>3, LastReadBehind
    <3>2. LastRead(k) \in Nat
      <4>1. Block(jobs[k].stop) \in Nat /\ Rest \in Nat
        BY <2>0, JobFacts, PaceBegins
      <4> QED
        BY <4>1, SizeAssumption DEF LastRead, Rest
    <3> QED
      BY <1>5, <2>0, <2>3, <3>1, <3>2 DEF EndsPastLastRead
  <2> QED
    BY <2>1, <2>2, <2>3
<1>10. CanRead' => CanRead
  BY <1>1, <1>3, <1>5, <1>6 DEF CanRead
<1>11. CanRead' => OnPace(filepos)'
  BY <1>1, <1>6, <1>7, <1>10 DEF OnPace, Rest, Block
<1>12. \A k \in Forward' : Audited(k)' \/ ToCome(k)'
  <2>1. /\ JobIds' = JobIds /\ Forward' = Forward
        /\ \A k : Audited(k)' <=> Audited(k)
    BY <1>1 DEF JobIds, Audited, Forward, RunsForward
  <2>2. \A k \in Forward : ToCome(k)' <=>
          IF opt.preview \/ f < img.size THEN Block(jobs[k].stop) >= Block(f)
                                         ELSE EndsPastLastRead(k)
    BY <1>1, <1>6, <2>1 DEF ToCome, CanRead, EndsPastLastRead, LastRead, Block
  <2> QED
    BY <1>9, <2>1, <2>2
<1> QED
  BY <1>1, <1>11, <1>12 DEF Remains

(* No more work: the read of the last block of every job that is left would *)
(* begin behind the image, or the seek would have stopped there.            *)
LEMMA RemainsNoMoreWork ==
  TypeInv /\ Filed /\ PlanSound /\ Remains /\ NoMoreWork => Remains'
<1> SUFFICES ASSUME TypeInv, Filed, PlanSound, Remains, NoMoreWork PROVE Remains'
  OBVIOUS
<1>1. /\ pc = "seek" /\ pc' = "finish" /\ SeekTargets = {}
      /\ jobs' = jobs /\ opt' = opt /\ img' = img /\ audit' = audit
  BY DEF NoMoreWork, inVars, planVars, fileVars
<1>2. PICK p : p = filepos
  OBVIOUS
<1>3. p \in Nat /\ img.size \in Nat /\ DOMAIN queues = Blocks(img.size)
  BY <1>1, <1>2 DEF TypeInv, TypeOK, ReadTypes, InputTypes, QueueTypes, Running
<1>4. ASSUME CanRead, NEW k \in Forward, ~Audited(k)
      PROVE  EndsPastLastRead(k)
  <2>0. k \in JobIds
    BY DEF Forward
  <2>1. PICK e : e = Block(jobs[k].stop)
    OBVIOUS
  <2>2. e \in Nat /\ Block(p) \in Nat /\ Block(img.size) \in Nat /\ e <= Block(img.size)
    BY <1>3, <2>0, <2>1, BlockType, LastBlockTouched, JobFacts
  <2>3. Block(p) <= e /\ OnPace(p)
    BY <1>1, <1>2, <1>4, <2>1 DEF Remains, ToCome
  <2>4. PICK d \in Nat : e = Block(p) + d
    BY <2>2, <2>3, Distance
  <2>5. LastRead(k) = p + d * BufSize /\ LastRead(k) \in Nat
    BY <1>3, <2>0, <2>1, <2>3, <2>4, LastReadAhead
  <2>6. Block(p + d * BufSize) = e
    BY <1>3, <2>4, BlocksAhead
  <2>7. e \in DOMAIN queues
    BY <1>3, <2>2 DEF Blocks
  <2>8. queues[e] # <<>>
    BY <2>0, <2>1, <2>7, LastBlockTouched, TouchedHasWork
  <2>9. d \in 0..(1 + Block(img.size))
    BY <2>2, <2>4
  <2>10. ~(d > 0 => p + d * BufSize <= img.size)
    BY <1>1, <1>2, <2>6, <2>7, <2>8, <2>9 DEF SeekTargets
  <2> QED
    BY <1>3, <2>0, <2>5, <2>10 DEF EndsPastLastRead
<1>5. \A k \in Forward : Audited(k) \/ EndsPastLastRead(k)
  BY <1>1, <1>4 DEF Remains, ToCome
<1>6. \A k \in Forward' : Audited(k)' \/ EndsPastLastRead(k)'
  BY <1>1, <1>5 DEF JobIds, Forward, RunsForward, Audited, EndsPastLastRead, LastRead, Block
<1> QED
  BY <1>1, <1>6 DEF Remains

(* Steps to the end that leave jobs and log alone.                          *)
LEMMA RemainsEnds ==
  ASSUME pc' \in {"finish", "done"}, UNCHANGED <<jobs, opt, img, audit>>,
         \A k \in Forward : Audited(k) \/ EndsPastLastRead(k)
  PROVE  Remains'
<1>1. \A k \in Forward' : Audited(k)' \/ EndsPastLastRead(k)'
  BY DEF JobIds, Forward, RunsForward, Audited, EndsPastLastRead, LastRead, Block
<1> QED
  BY <1>1 DEF Remains

(* At the end of the image every file ends behind the last block.           *)
LEMMA RemainsEndOfImage == TypeInv /\ Remains /\ EndOfImage => Remains'
<1> SUFFICES ASSUME TypeInv, Remains, EndOfImage PROVE Remains'
  OBVIOUS
<1>1. /\ pc = "read" /\ pc' = "finish" /\ Available = 0
      /\ jobs' = jobs /\ opt' = opt /\ img' = img /\ audit' = audit
  BY DEF EndOfImage, inVars, planVars, fileVars
<1>2. ~CanRead
  <2>1. filepos \in Nat /\ img.size \in Nat
    BY DEF TypeInv, TypeOK, ReadTypes, InputTypes
  <2> QED
    BY <1>1, <2>1, SizeAssumption DEF CanRead, Available, smaller, larger
<1> QED
  BY <1>1, <1>2, RemainsEnds DEF Remains, ToCome

(* Reading a block: every job that is left has work in it, or ends later.   *)
LEMMA RemainsReadBlock == TypeInv /\ Filed /\ PlanSound /\ Remains /\ ReadBlock => Remains'
<1> SUFFICES ASSUME TypeInv, Filed, PlanSound, Remains, ReadBlock PROVE Remains'
  OBVIOUS
<1>1. /\ pc = "read" /\ pc' \in {"work", "exit"} /\ Available > 0
      /\ jobs' = jobs /\ opt' = opt /\ img' = img /\ audit' = audit
  BY DEF ReadBlock, inVars, planVars, fileVars
<1>2. PICK p : p = filepos
  OBVIOUS
<1>3. p \in Nat /\ img.size \in Nat /\ Block(p) \in Nat
  BY <1>2, BlockType DEF TypeInv, TypeOK, ReadTypes, InputTypes
<1>4. CanRead
  BY <1>1, <1>2, <1>3, SizeAssumption DEF CanRead, Available, smaller, larger
<1>5. Base' = p /\ \A k \in JobIds : Pending(k)' <=> Touches(k, Block(p))
  BY <1>2, PendingRead
<1>6. OnPace(Base)'
  BY <1>1, <1>2, <1>4, <1>5 DEF Remains, OnPace, Rest, Block
<1>7. ASSUME NEW k \in Forward, ~Audited(k)
      PROVE  Pending(k)' \/ Block(jobs[k].stop) > Block(p)
  <2>0. k \in JobIds
    BY DEF Forward
  <2>1. Block(jobs[k].stop) >= Block(p) /\ Block(jobs[k].stop) \in Nat
    BY <1>1, <1>2, <1>4, <1>7, <2>0, JobFacts DEF Remains, ToCome
  <2>2. CASE Block(jobs[k].stop) = Block(p)
    BY <1>5, <2>0, <2>2, LastBlockTouched
  <2> QED
    BY <1>3, <2>1, <2>2
<1>8. \A k \in Forward' :
        Audited(k)' \/ Pending(k)' \/ Block(jobs[k].stop)' > Block(Base)'
  BY <1>1, <1>5, <1>7 DEF JobIds, Forward, RunsForward, Audited, Block
<1> QED
  BY <1>1, <1>6, <1>8 DEF Remains

(* A piece of work resolves its job, or the job goes on in the next block.  *)
LEMMA RemainsCarvePiece == AllInv /\ Remains /\ CarvePiece => Remains'
<1> SUFFICES ASSUME AllInv, Remains, CarvePiece PROVE Remains'
  OBVIOUS
<1>0. TypeInv /\ Filed /\ AuditInv /\ HasPiece
  BY DEF AllInv, CarvePiece
<1>1. /\ pc = "work" /\ pc' = pc /\ jobs' = jobs /\ opt' = opt
      /\ Base' = Base /\ Forward' = Forward
  BY DEF CarvePiece, HasPiece, inVars, planVars, Base, JobIds, Forward, RunsForward
<1>2. \A k : Audited(k)' <=> Audited(k) \/ (IsLast(Op) /\ k = Job)
  BY <1>0, PieceAudits
<1>3. \A k : Pending(k)' <=> Pending(k) /\ k # Job
  BY <1>0, PendingAfter
<1>4. Job \in Forward => IsLast(Op) \/ Block(jobs[Job].stop) > Block(Base)
  <2>1. Job \in Forward =>
          Block(Base) \in Block(jobs[Job].start)..Block(jobs[Job].stop)
    BY <1>0, PieceHere
  <2>2. Block(jobs[Job].stop) \in Nat /\ Block(jobs[Job].start) \in Nat
    BY <1>0, PieceFacts, JobFacts
  <2>3. /\ Job \in Forward => Block(Base) <= Block(jobs[Job].stop)
        /\ Block(Base) \in Nat
    BY <1>0, <2>1, <2>2, PieceFacts, BlockType
  <2> QED
    BY <1>0, <2>2, <2>3, LastPiece
<1>5. \A k \in Forward : Audited(k)' \/ Pending(k)' \/ Block(jobs[k].stop) > Block(Base)
  BY <1>1, <1>2, <1>3, <1>4 DEF Remains
<1>6. OnPace(Base)'
  BY <1>1 DEF Remains, OnPace, Rest, Block
<1> QED
  BY <1>1, <1>5, <1>6 DEF Remains, Block

(* The end of a queue: what is left ends in a later block, and if the image *)
(* has been read to its end that block would have to be read behind it.     *)
LEMMA RemainsEndOfQueue == TypeInv /\ OpenInv /\ Remains /\ EndOfQueue => Remains'
<1> SUFFICES ASSUME TypeInv, OpenInv, Remains, EndOfQueue PROVE Remains'
  OBVIOUS
<1>1. /\ pc = "work" /\ pc' = "seek" /\ cursor > Len(Work)
      /\ jobs' = jobs /\ opt' = opt /\ img' = img /\ audit' = audit
      /\ filepos' = filepos /\ CanRead' = CanRead
      /\ JobIds' = JobIds /\ Forward' = Forward
  BY DEF EndOfQueue, inVars, planVars, fileVars, readVars, JobIds, CanRead, Forward,
         RunsForward
<1>2. \A k : ~Pending(k)
  <2>1. Work \in Seq(PieceType) /\ cursor \in Nat
    BY <1>1 DEF TypeInv, TypeOK, HasQueue, QueueTypes, ReadTypes, Work
  <2>2. Len(Work) \in Nat
    BY <2>1, LenProperties
  <2> QED
    BY <1>1, <2>1, <2>2 DEF Pending
<1>3. PICK p : p = Base
  OBVIOUS
<1>4. /\ p \in Nat /\ filepos = p + bytesread /\ bytesread \in 0..BufSize
      /\ img.size \in Nat /\ OnPace(p) /\ filepos \in Nat
  BY <1>1, <1>3, SizeAssumption
     DEF Base, TypeInv, TypeOK, ReadTypes, InputTypes, Remains
<1>5. Block(p + BufSize) = Block(p) + 1 /\ Block(p) \in Nat
  BY <1>4, NextBlock, BlockType
<1>6. OnPace(p + BufSize)
  <2>1. OnPace(p + 1 * BufSize)
    BY <1>4, PaceKept
  <2> QED
    BY <2>1, SizeAssumption
<1>7. CanRead => filepos = p + BufSize
  BY <1>1, <1>4 DEF OpenInv, FullBuffer
<1>8. ASSUME NEW k \in Forward, ~Audited(k) PROVE ToCome(k)
  <2>0. k \in JobIds
    BY DEF Forward
  <2>1. Block(jobs[k].stop) > Block(p) /\ Block(jobs[k].stop) \in Nat
    BY <1>1, <1>2, <1>3, <1>8, <2>0, JobFacts DEF Remains
  <2>2. Block(jobs[k].stop) >= Block(p + BufSize)
    BY <1>5, <2>1
  <2>3. CASE CanRead
    BY <1>7, <2>2, <2>3 DEF ToCome
  <2>4. CASE ~CanRead
    <3>1. p + BufSize \in Nat
      BY <1>4, SizeAssumption
    <3>2. LastRead(k) >= p + BufSize
      BY <1>6, <2>0, <2>2, <3>1, LastReadBehind
    <3>3. LastRead(k) \in Nat
      <4>1. Rest \in Nat
        BY PaceBegins
      <4> QED
        BY <2>1, <4>1, SizeAssumption DEF LastRead, Rest
    <3>4. ~opt.preview /\ filepos >= img.size
      BY <1>4, <2>4 DEF CanRead
    <3>5. LastRead(k) >= img.size
      BY <1>4, <3>2, <3>3, <3>4, SizeAssumption
    <3> QED
      BY <2>0, <2>4, <3>4, <3>5 DEF ToCome, EndsPastLastRead
  <2> QED
    BY <2>3, <2>4
<1>9. \A k \in Forward' : Audited(k)' \/ ToCome(k)'
  <2>1. \A k : Audited(k)' <=> Audited(k)
    BY <1>1 DEF Audited
  <2>2. \A k : ToCome(k)' <=> ToCome(k)
    BY <1>1 DEF ToCome, EndsPastLastRead, LastRead, Block
  <2> QED
    BY <1>1, <1>8, <2>1, <2>2
<1>10. CanRead' => OnPace(filepos)'
  BY <1>1, <1>6, <1>7 DEF OnPace, Rest, Block
<1> QED
  BY <1>1, <1>9, <1>10 DEF Remains

(* Outside the loop that reads, Remains asks for nothing.                   *)
LEMMA RemainsLeft ==
  ASSUME pc' \notin {"seek", "read", "work", "finish", "done"}
  PROVE  Remains'
BY DEF Remains

(* Remains depends on the plan, the queues and the place in the image.      *)
LEMMA RemainsKept ==
  ASSUME Remains, UNCHANGED <<inVars, pc, planVars, queues, readVars, fileVars>>
  PROVE  Remains'
<1>1. /\ JobIds' = JobIds /\ Forward' = Forward /\ jobs' = jobs /\ audit' = audit
      /\ filepos' = filepos /\ CanRead' = CanRead /\ Base' = Base /\ opt' = opt /\ img' = img /\ pc' = pc
  BY DEF JobIds, Forward, RunsForward, CanRead, Base, planVars, fileVars, readVars, inVars
<1>2. \A k : /\ Pending(k)' <=> Pending(k)
             /\ Audited(k)' <=> Audited(k)
             /\ EndsPastLastRead(k)' <=> EndsPastLastRead(k)
             /\ ToCome(k)' <=> ToCome(k)
  BY <1>1 DEF Pending, Work, Base, Block, readVars, Audited, EndsPastLastRead, LastRead,
              ToCome
<1> QED
  BY <1>1, <1>2 DEF Remains, OnPace, Rest, Block

(* Every step keeps what remains to be carved in the queues ahead.          *)
LEMMA RemainsNext == AllInv /\ PlanSound /\ Remains /\ [Next]_vars => Remains'
<1> SUFFICES ASSUME AllInv, PlanSound, Remains, [Next]_vars PROVE Remains'
  OBVIOUS
<1>0. TypeInv /\ Filed /\ OpenInv /\ Planned
  BY DEF AllInv
<1>1. CASE \/ OpenImage \/ OpenImageFails \/ SkipUnaligned \/ PlanNothing \/ PlanCarve
           \/ SeekOverrun \/ ReadFails \/ OpenFails \/ WriteFails \/ CloseFails
           \/ CarveOverrun \/ FinishFails
  BY <1>1, RemainsLeft
     DEF OpenImage, OpenImageFails, SkipUnaligned, PlanNothing, PlanCarve, SeekOverrun,
         ReadFails, OpenFails, WriteFails, CloseFails, CarveOverrun, FinishFails
<1>2. CASE NextNeedle
  BY <1>0, <1>2, RemainsNextNeedle
<1>3. CASE SeekWork
  BY <1>0, <1>3, RemainsSeekWork
<1>4. CASE NoMoreWork
  BY <1>0, <1>4, RemainsNoMoreWork
<1>5. CASE ReadBlock
  BY <1>0, <1>5, RemainsReadBlock
<1>6. CASE EndOfImage
  BY <1>0, <1>6, RemainsEndOfImage
<1>7. CASE CarvePiece
  BY <1>7, RemainsCarvePiece
<1>8. CASE EndOfQueue
  BY <1>0, <1>8, RemainsEndOfQueue
<1>9. CASE Finish
  <2>1. \A k \in Forward : Audited(k) \/ EndsPastLastRead(k)
    BY <1>9 DEF Finish, Remains
  <2> QED
    BY <1>9, <2>1, RemainsEnds DEF Finish, planVars, fileVars
<1>10. CASE CatchSignal \/ UNCHANGED vars
  BY <1>10, RemainsKept DEF CatchSignal, vars
<1> QED
  BY <1>1, <1>2, <1>3, <1>4, <1>5, <1>6, <1>7, <1>8, <1>9, <1>10
     DEF Next, Step, Plan, Seek, Read, Carve, Halted

(* What remains to be carved lies ahead in every state.                     *)
LEMMA RemainsInvariant == Spec => []Remains
<1>1. Init => Remains
  BY RemainsInit
<1>2. AllInv /\ PlanSound /\ Remains /\ [Next]_vars => Remains'
  BY RemainsNext
<1> QED
  BY <1>1, <1>2, AllInvariant, PlanSoundInvariant, PTL DEF Spec

-----------------------------------------------------------------------------
(***************************************************************************)
(* Inside carvelists and readbuffer.  A block is read only because a job   *)
(* has work in it, so that the reader is at most one block behind the last *)
(* one of the image, for which there still is a queue.  The search looks   *)
(* at one queue more, so it is safe while the reader is not behind the     *)
(* last block of the image: fread() does not lead there.                   *)
(***************************************************************************)
Excuse ==
  \/ ~WholeSkip
  \/ Block(opt.skip) > Block(img.size)
  \/ opt.preview /\ \E k \in JobIds : Block(jobs[k].stop) = Block(img.size)
  \/ \E k \in JobIds : ~RunsForward(k)

Within ==
  /\ pc = "seek" => Block(filepos) <= Block(img.size) \/ Excuse
  /\ pc = "read" =>
       /\ Block(filepos) <= Block(img.size)
       /\ opt.preview /\ Block(filepos) = Block(img.size) => Excuse
  /\ pc = "work" =>
       /\ Block(Base) <= Block(img.size)
       /\ opt.preview /\ Block(Base) = Block(img.size) => Excuse
       /\ ~opt.preview => filepos <= img.size
  /\ pc = "crash" => Excuse

(* Outside the loop that reads, Within asks for nothing.                    *)
LEMMA WithinLeft ==
  ASSUME pc' \notin {"seek", "read", "work", "crash"}
  PROVE  Within'
BY DEF Within

(* An excuse depends on the plan alone.                                     *)
LEMMA ExcuseKept ==
  ASSUME UNCHANGED <<img, opt, jobs>>
  PROVE  Excuse' <=> Excuse
BY DEF Excuse, WholeSkip, Block, JobIds, RunsForward

(* Within depends on the plan and the place in the image.                   *)
LEMMA WithinKept ==
  ASSUME Within, UNCHANGED <<img, opt, jobs, pc, filepos, bytesread>>
  PROVE  Within'
<1>1. /\ Excuse' <=> Excuse
      /\ Block(filepos)' = Block(filepos) /\ Block(Base)' = Block(Base)
      /\ Block(img.size)' = Block(img.size)
  BY ExcuseKept DEF Block, Base
<1> QED
  BY <1>1 DEF Within

(* The reading begins at the skip.                                          *)
LEMMA WithinNextNeedle == TypeInv /\ Planned /\ NextNeedle => Within'
<1> SUFFICES ASSUME TypeInv, Planned, NextNeedle, pc' = "seek" PROVE Within'
  BY DEF Within, NextNeedle
<1>1. filepos' = opt.skip /\ opt' = opt /\ img' = img /\ jobs' = jobs
  BY DEF NextNeedle, Planned, readVars, inVars
<1>2. PICK x : x = opt.skip
  OBVIOUS
<1>3. PICK z : z = img.size
  OBVIOUS
<1>4. x \in Nat /\ z \in Nat
  BY <1>2, <1>3, PaceBegins DEF TypeInv, TypeOK, InputTypes
<1>5. Block(x) \in Nat /\ Block(z) \in Nat
  BY <1>4, BlockType
<1>6. Block(x) <= Block(z) \/ Excuse
  BY <1>2, <1>3, <1>5 DEF Excuse
<1>7. Excuse' <=> Excuse
  BY <1>1, ExcuseKept
<1>8. Block(filepos)' = Block(x) /\ Block(img.size)' = Block(z)
  BY <1>1, <1>2, <1>3 DEF Block
<1> QED
  BY <1>6, <1>7, <1>8 DEF Within

(* The reader seeks to a block with work, and work lies in the image.  Only *)
(* a file that ends in the last block has work there, or one that ends      *)
(* before it begins.                                                        *)
LEMMA WithinSeekWork == TypeInv /\ Filed /\ PlanSound /\ SeekWork => Within'
<1> SUFFICES ASSUME TypeInv, Filed, PlanSound, SeekWork PROVE Within'
  OBVIOUS
<1>1. /\ pc' = "read" /\ img' = img /\ opt' = opt /\ jobs' = jobs
      /\ filepos' = filepos + Least(SeekTargets) * BufSize
  BY DEF SeekWork, inVars, planVars
<1>2. PICK b : b = Block(filepos')
  OBVIOUS
<1>3. /\ filepos' \in Nat /\ b \in DOMAIN queues /\ queues[b] # <<>>
      /\ b \in Nat /\ Block(img.size) \in Nat
  <2>1. Least(SeekTargets) \in SeekTargets /\ filepos' \in Nat
    BY <1>1, SeekTargetType DEF SeekWork
  <2>2. img.size \in Nat
    BY DEF TypeInv, TypeOK, InputTypes
  <2> QED
    BY <1>1, <1>2, <2>1, <2>2, BlockType DEF SeekTargets
<1>4. Len(queues[b]) \in Nat /\ Len(queues[b]) # 0
  <2>1. queues[b] \in Seq(PieceType)
    BY <1>3 DEF TypeInv, TypeOK, QueueTypes
  <2> QED
    BY <1>3, <2>1, EmptySeq, LenProperties
<1>5. 1 \in 1..Len(queues[b])
  BY <1>4
<1>6. PICK k : k = queues[b][1].job
  OBVIOUS
<1>7. k \in JobIds /\ Touches(k, b)
  BY <1>3, <1>5, <1>6, QueuePieces
<1>8. PICK s : s = Block(jobs[k].start)
  OBVIOUS
<1>9. PICK e : e = Block(jobs[k].stop)
  OBVIOUS
<1>10. PICK z : z = Block(img.size)
  OBVIOUS
<1>11. /\ s \in Nat /\ e \in Nat /\ z \in Nat /\ s <= z /\ e <= z
       /\ RunsForward(k) => s <= e
  <2>1. RunsForward(k) => k \in Forward
    BY <1>7 DEF Forward
  <2> QED
    BY <1>3, <1>7, <1>8, <1>9, <1>10, <2>1, LastBlockTouched, JobFacts
<1>12. b = s \/ b = e \/ b \in s..e
  BY <1>7, <1>8, <1>9 DEF Touches, WorkBlocks
<1>13. b <= z /\ (b = z => e = z \/ ~RunsForward(k))
  BY <1>3, <1>11, <1>12
<1>14. opt.preview /\ b = z => Excuse
  BY <1>7, <1>9, <1>10, <1>13 DEF Excuse
<1>15. Excuse' <=> Excuse
  BY <1>1, ExcuseKept
<1>16. Block(filepos)' = b /\ Block(img.size)' = z
  BY <1>1, <1>2, <1>10 DEF Block
<1> QED
  BY <1>1, <1>13, <1>14, <1>15, <1>16 DEF Within

(* A block is read at the place that was sought, and not past the image.    *)
LEMMA WithinReadBlock == TypeInv /\ Filed /\ Within /\ ReadBlock => Within'
<1> SUFFICES ASSUME TypeInv, Filed, Within, ReadBlock PROVE Within'
  OBVIOUS
<1>1. /\ pc = "read" /\ pc' \in {"work", "exit"} /\ img' = img /\ opt' = opt /\ jobs' = jobs
      /\ Base' = filepos /\ filepos' = filepos + Available /\ Available > 0
  BY PendingRead DEF ReadBlock, inVars, planVars
<1>2. ~opt.preview => filepos' <= img.size
  <2>1. filepos \in Nat /\ img.size \in Nat
    BY DEF TypeInv, TypeOK, ReadTypes, InputTypes
  <2> QED
    BY <1>1, <2>1, SizeAssumption DEF Available, smaller, larger
<1>3. Excuse' <=> Excuse
  BY <1>1, ExcuseKept
<1>4. Block(Base)' = Block(filepos) /\ Block(img.size)' = Block(img.size)
  BY <1>1 DEF Block
<1> QED
  BY <1>1, <1>2, <1>3, <1>4 DEF Within

(* Behind the last block with work there is one more queue, which only a    *)
(* preview gets to.                                                         *)
LEMMA WithinEndOfQueue == TypeInv /\ Within /\ EndOfQueue => Within'
<1> SUFFICES ASSUME TypeInv, Within, EndOfQueue PROVE Within'
  OBVIOUS
<1>1. /\ pc = "work" /\ pc' = "seek" /\ img' = img /\ opt' = opt /\ filepos' = filepos
      /\ jobs' = jobs
  BY DEF EndOfQueue, inVars, readVars, planVars
<1>2. PICK p : p = Base
  OBVIOUS
<1>3. PICK f : f = filepos
  OBVIOUS
<1>4. PICK z : z = img.size
  OBVIOUS
<1>5. /\ p \in Nat /\ f \in Nat /\ z \in Nat
      /\ f <= p + BufSize /\ p + BufSize \in Nat
  BY <1>2, <1>3, <1>4, SizeAssumption DEF Base, TypeInv, TypeOK, ReadTypes, InputTypes
<1>6. /\ Block(f) <= Block(p + BufSize) /\ Block(p + BufSize) = Block(p) + 1
      /\ Block(p) \in Nat /\ Block(f) \in Nat /\ Block(z) \in Nat
      /\ f <= z => Block(f) <= Block(z)
  BY <1>5, BlockMonotone, NextBlock, BlockType
<1>7. /\ Block(p) <= Block(z)
      /\ opt.preview /\ Block(p) = Block(z) => Excuse
      /\ ~opt.preview => f <= z
  BY <1>1, <1>2, <1>3, <1>4 DEF Within
<1>8. Block(f) <= Block(z) \/ Excuse
  <2>1. CASE opt.preview
    BY <1>6, <1>7, <2>1
  <2>2. CASE ~opt.preview
    BY <1>6, <1>7, <2>2
  <2> QED
    BY <2>1, <2>2
<1>9. Excuse' <=> Excuse
  BY <1>1, ExcuseKept
<1>10. Block(filepos)' = Block(f) /\ Block(img.size)' = Block(z)
  BY <1>1, <1>3, <1>4 DEF Block
<1> QED
  BY <1>1, <1>8, <1>9, <1>10 DEF Within

(* The search leaves carvelists only when the reader is behind the last     *)
(* block of the image: it looks at the next queue, and at every other one   *)
(* only while the one before it is in the image.                            *)
LEMMA WithinSeekOverrun == TypeInv /\ Within /\ SeekOverrun => Within'
<1> SUFFICES ASSUME TypeInv, Within, SeekOverrun PROVE Within'
  OBVIOUS
<1>1. /\ pc = "seek" /\ pc' = "crash" /\ img' = img /\ opt' = opt /\ jobs' = jobs
      /\ LeavesQueues
  BY DEF SeekOverrun, inVars, planVars
<1>2. DOMAIN queues = Blocks(img.size)
  BY <1>1 DEF TypeInv, TypeOK, QueueTypes, Running
<1>3. PICK f : f = filepos
  OBVIOUS
<1>4. PICK z : z = img.size
  OBVIOUS
<1>5. PICK k \in LookedAt : Block(filepos + k * BufSize) \notin DOMAIN queues
  BY <1>1 DEF LeavesQueues
<1>6. f \in Nat /\ z \in Nat /\ Block(z) \in Nat /\ Block(f) \in Nat
  BY <1>3, <1>4, BlockType DEF TypeInv, TypeOK, ReadTypes, InputTypes
<1>7. k \in Nat /\ (k > 1 => f + (k - 1) * BufSize <= z)
  BY <1>3, <1>4, <1>5, <1>6 DEF LookedAt
<1>8. Block(f + k * BufSize) = Block(f) + k
  BY <1>6, <1>7, BlocksAhead
<1>9. Block(f) + k \notin 0..(1 + Block(z))
  BY <1>2, <1>3, <1>4, <1>5, <1>8 DEF Blocks
<1>10. k > 1 => Block(f) + (k - 1) <= Block(z)
  <2> SUFFICES ASSUME k > 1 PROVE Block(f) + (k - 1) <= Block(z)
    OBVIOUS
  <2>1. PICK j \in Nat : j = k - 1
    BY <1>7
  <2>2. Block(f + j * BufSize) = Block(f) + j
    BY <1>6, BlocksAhead
  <2>3. f + j * BufSize \in Nat /\ f + j * BufSize <= z
    <3>1. j * BufSize \in Nat
      BY SizeAssumption
    <3> QED
      BY <1>6, <1>7, <2>1, <3>1
  <2>4. Block(f + j * BufSize) <= Block(z)
    BY <1>6, <2>3, BlockMonotone
  <2> QED
    BY <2>1, <2>2, <2>4
<1>11. ~(Block(f) <= Block(z))
  BY <1>6, <1>7, <1>9, <1>10
<1>12. Excuse
  BY <1>1, <1>3, <1>4, <1>11 DEF Within
<1>13. Excuse'
  BY <1>1, <1>12, ExcuseKept
<1> QED
  BY <1>1, <1>13 DEF Within

(* On a skip of whole buffers every piece of a file that does not end       *)
(* before it begins lies within readbuffer.                                 *)
LEMMA PieceInBuffer ==
  ASSUME TypeInv, Filed, Progress, HasPiece, ~opt.preview, Job \in Forward, Aligned(Base)
  PROVE  InBuffer(JobSpan)
<1>1. cursor \in 1..Len(Work)
  BY PieceFacts
<1>2. Pending(Job)
  <2>1. cursor \in cursor..Len(Work)
    BY <1>1
  <2> QED
    BY <2>1 DEF Pending, Job
<1>3. Reached(Job, Base)
  BY <1>2 DEF Progress, HasPiece
<1>4. JobSpan.bytes \in Nat
  BY PieceHasBytes
<1> QED
  BY <1>3, <1>4, SpanPlace DEF InBuffer

(* The work on a block reads readbuffer inside its bytes.                   *)
LEMMA WithinCarveOverrun == AllInv /\ Remains /\ CarveOverrun => Within'
<1> SUFFICES ASSUME AllInv, Remains, CarveOverrun PROVE Within'
  OBVIOUS
<1>1. /\ TypeInv /\ Filed /\ Progress /\ HasPiece /\ pc = "work" /\ pc' = "crash"
      /\ AuditInv /\ ~opt.preview
      /\ ~InBuffer(JobSpan) \/ Audited(Job)
      /\ img' = img /\ opt' = opt /\ jobs' = jobs
  BY DEF AllInv, CarveOverrun, HasPiece, Audited, inVars, planVars
<1>2. ~Aligned(Base) \/ Job \notin Forward
  BY <1>1, PieceInBuffer, NotAudited
<1>3. ~Aligned(Base) => ~WholeSkip
  <2>1. OnPace(Base)
    BY <1>1 DEF Remains
  <2>2. Base \in Nat
    BY <1>1, PieceFacts
  <2>3. BufSize * Block(Base) \in Nat
    BY <2>2, BlockType, SizeAssumption
  <2> QED
    BY <2>1, <2>3 DEF OnPace, Rest, WholeSkip, Aligned
<1>4. Job \in JobIds
  BY <1>1, PieceFacts
<1>5. Excuse
  BY <1>2, <1>3, <1>4 DEF Excuse, Forward
<1>6. Excuse'
  BY <1>1, <1>5, ExcuseKept
<1> QED
  BY <1>1, <1>6 DEF Within

(* Every step stays inside carvelists and readbuffer.                       *)
LEMMA WithinNext == AllInv /\ PlanSound /\ Remains /\ Within /\ [Next]_vars => Within'
<1> SUFFICES ASSUME AllInv, PlanSound, Remains, Within, [Next]_vars PROVE Within'
  OBVIOUS
<1>0. TypeInv /\ Filed /\ Planned
  BY DEF AllInv
<1>1. CASE \/ OpenImage \/ OpenImageFails \/ SkipUnaligned \/ PlanNothing \/ PlanCarve
           \/ NoMoreWork \/ EndOfImage \/ ReadFails
           \/ OpenFails \/ WriteFails \/ CloseFails \/ Finish \/ FinishFails
  BY <1>1, WithinLeft
     DEF OpenImage, OpenImageFails, SkipUnaligned, PlanNothing, PlanCarve, NoMoreWork,
         EndOfImage, ReadFails, OpenFails, WriteFails, CloseFails, Finish, FinishFails
<1>2. CASE NextNeedle
  BY <1>0, <1>2, WithinNextNeedle
<1>3. CASE SeekWork
  BY <1>0, <1>3, WithinSeekWork
<1>4. CASE SeekOverrun
  BY <1>0, <1>4, WithinSeekOverrun
<1>5. CASE ReadBlock
  BY <1>0, <1>5, WithinReadBlock
<1>6. CASE CarvePiece
  BY <1>6, WithinKept DEF CarvePiece, inVars, planVars
<1>7. CASE CarveOverrun
  BY <1>7, WithinCarveOverrun
<1>8. CASE EndOfQueue
  BY <1>0, <1>8, WithinEndOfQueue
<1>9. CASE CatchSignal \/ UNCHANGED vars
  BY <1>9, WithinKept DEF CatchSignal, vars, inVars, planVars, readVars
<1> QED
  BY <1>1, <1>2, <1>3, <1>4, <1>5, <1>6, <1>7, <1>8, <1>9
     DEF Next, Step, Plan, Seek, Read, Carve, Halted

(* However carveImageFile() ends: a call that returns SCALPEL_OK has        *)
(* carved, closed and recorded every planned file but those that end past   *)
(* the last read, or before they begin.  One that leaves carvelists or      *)
(* readbuffer was given a skip that is no multiple of the buffer or lies    *)
(* behind the last block of the image, was a preview with a file that ends  *)
(* in that block, or had a file that ends before it begins.                 *)
THEOREM CarvesToTheEnd == Spec => []EndsWell
<1>1. Init => Within
  BY DEF Init, Within
<1>2. AllInv /\ PlanSound /\ Remains /\ Within /\ [Next]_vars => Within'
  BY WithinNext
<1>3. Remains /\ Within => EndsWell
  BY DEF Remains, Within, Excuse, Forward, EndsWell, DoneMeansCarved, StaysInside
<1> QED
  BY <1>1, <1>2, <1>3, AllInvariant, PlanSoundInvariant, RemainsInvariant, PTL DEF Spec

-----------------------------------------------------------------------------
(***************************************************************************)
(* Subdirectories.  The files of a type fill one directory after the       *)
(* other: the one that organizeDirNum names holds what is left over when   *)
(* numfilestocarve is divided by organizeMaxFilesPerSub, those behind it   *)
(* are empty.                                                              *)
(***************************************************************************)
Held(js, n, d) == {j \in 1..Len(js) : js[j].needle = n /\ js[j].dir = d}

Fills(js, n, c) ==
  /\ Cardinality(Held(js, n, c.dir)) = c.files % OrganizeMax
  /\ \A d \in Nat : /\ IsFiniteSet(Held(js, n, d))
                    /\ Cardinality(Held(js, n, d)) <= OrganizeMax
                    /\ d > c.dir => Held(js, n, d) = {}

DirsFill ==
  opt.organize => /\ \A n \in Needles : Fills(jobs, n, counts[n])
                  /\ \A j \in JobIds : jobs[j].dir \in Nat

(* Counting on modulo m.                                                    *)
LEMMA CountModulo ==
  ASSUME NEW m \in Nat \ {0}, NEW x \in Nat
  PROVE  /\ x % m \in 0..(m - 1)
         /\ (x + 1) % m = IF (x % m) + 1 = m THEN 0 ELSE (x % m) + 1
<1>1. x % m \in 0..(m - 1) /\ (x + 1) % m \in 0..(m - 1)
      /\ x \div m \in Nat /\ (x + 1) \div m \in Nat
  OBVIOUS
<1>2. x = (m * (x \div m)) + (x % m)
  OBVIOUS
<1>3. x + 1 = (m * ((x + 1) \div m)) + ((x + 1) % m)
  OBVIOUS
<1>4. PICK a \in Nat : a = x \div m
  BY <1>1
<1>5. PICK b \in Nat : b = (x + 1) \div m
  BY <1>1
<1>6. PICK r \in 0..(m - 1) : r = x % m
  BY <1>1
<1>7. PICK s \in 0..(m - 1) : s = (x + 1) % m
  BY <1>1
<1>8. m * b + s = m * a + r + 1
  BY <1>2, <1>3, <1>4, <1>5, <1>6, <1>7
<1>9. s = IF r + 1 = m THEN 0 ELSE r + 1
  <2>1. ~(b < a)
    <3>1. SUFFICES ASSUME b < a PROVE FALSE
      OBVIOUS
    <3>2. PICK d \in Nat : a = b + 1 + d
      <4>1. a - (b + 1) \in Nat /\ a = b + 1 + (a - (b + 1))
        BY <3>1
      <4> QED
        BY <4>1
    <3>3. m * a = m * b + m + m * d
      BY <3>2
    <3>4. m * d \in Nat /\ m * b \in Nat
      BY <3>2
    <3> QED
      BY <1>8, <3>3, <3>4
  <2>2. ~(b > a + 1)
    <3>1. SUFFICES ASSUME b > a + 1 PROVE FALSE
      OBVIOUS
    <3>2. PICK d \in Nat : b = a + 2 + d
      <4>1. b - (a + 2) \in Nat /\ b = a + 2 + (b - (a + 2))
        BY <3>1
      <4> QED
        BY <4>1
    <3>3. m * b = m * a + m + m + m * d
      BY <3>2
    <3>4. m * d \in Nat /\ m * a \in Nat
      BY <3>2
    <3> QED
      BY <1>8, <3>3, <3>4
  <2>3. CASE b = a
    <3>1. m * a \in Nat
      OBVIOUS
    <3> QED
      BY <1>8, <2>3, <3>1
  <2>4. CASE b = a + 1
    <3>1. m * b = m * a + m /\ m * a \in Nat
      BY <2>4
    <3> QED
      BY <1>8, <3>1
  <2> QED
    BY <2>1, <2>2, <2>3, <2>4
<1> QED
  BY <1>1, <1>6, <1>7, <1>9

(* No subdirectory is filled before a job is planned.                       *)
LEMMA DirsFillInit == Init => DirsFill
<1> SUFFICES ASSUME Init PROVE DirsFill
  OBVIOUS
<1>1. JobIds = {} /\ Len(jobs) = 0
  BY DEF Init, JobIds
<1>2. ASSUME NEW n \in Needles PROVE Fills(jobs, n, counts[n])
  <2>1. counts[n] = [files |-> 0, dir |-> 0]
    BY DEF Init
  <2>2. \A d : Held(jobs, n, d) = {}
    BY <1>1 DEF Held
  <2>3. \A d : IsFiniteSet(Held(jobs, n, d)) /\ Cardinality(Held(jobs, n, d)) = 0
    BY <2>2, FS_EmptySet
  <2>4. counts[n].files % OrganizeMax = 0
    BY <2>1, SizeAssumption
  <2> QED
    BY <2>1, <2>2, <2>3, <2>4, SizeAssumption DEF Fills
<1> QED
  BY <1>1, <1>2 DEF DirsFill

(* The subdirectories change with the plan only.                            *)
LEMMA DirsFillKept ==
  ASSUME DirsFill, UNCHANGED <<opt, jobs, counts>>
  PROVE  DirsFill'
BY DEF DirsFill, JobIds

(* One more file of type n.                                                 *)
LEMMA OneMoreFile ==
  ASSUME NEW js \in Seq(JobType), NEW n, NEW c \in [files : Nat, dir : Nat],
         NEW job \in JobType, job.needle = n, job.dir = c.dir, Fills(js, n, c)
  PROVE  Fills(Append(js, job), n, CountFile(c))
<1>1. PICK k : k = Len(js) + 1
  OBVIOUS
<1>2. PICK new : new = Append(js, job)
  OBVIOUS
<1>3. /\ Len(js) \in Nat /\ Len(new) = k /\ new[k] = job
      /\ \A j \in 1..Len(js) : new[j] = js[j]
  BY <1>1, <1>2, LenProperties
<1>4. 1..k = (1..Len(js)) \cup {k} /\ k \notin 1..Len(js)
  BY <1>1, <1>3
<1>5. \A d : /\ k \notin Held(js, n, d)
             /\ Held(new, n, d) = IF d = c.dir THEN Held(js, n, d) \cup {k}
                                               ELSE Held(js, n, d)
  BY <1>3, <1>4 DEF Held
<1>6. PICK m : m = c.files % OrganizeMax
  OBVIOUS
<1>7. /\ m \in 0..(OrganizeMax - 1)
      /\ (c.files + 1) % OrganizeMax = IF m + 1 = OrganizeMax THEN 0 ELSE m + 1
  BY <1>6, CountModulo, SizeAssumption
<1>8. /\ Cardinality(Held(js, n, c.dir)) = m
      /\ \A d \in Nat : /\ IsFiniteSet(Held(js, n, d))
                        /\ Cardinality(Held(js, n, d)) <= OrganizeMax
                        /\ d > c.dir => Held(js, n, d) = {}
  BY <1>6 DEF Fills
<1>9. /\ IsFiniteSet(Held(new, n, c.dir))
      /\ Cardinality(Held(new, n, c.dir)) = m + 1
  <2>1. IsFiniteSet(Held(js, n, c.dir)) /\ k \notin Held(js, n, c.dir)
    BY <1>5, <1>8
  <2>2. Held(new, n, c.dir) = Held(js, n, c.dir) \cup {k}
    BY <1>5
  <2> QED
    BY <1>8, <2>1, <2>2, FS_AddElement
<1>10. PICK e : e = CountFile(c).dir
  OBVIOUS
<1>11. /\ CountFile(c).files = c.files + 1
       /\ e = IF m + 1 = OrganizeMax THEN c.dir + 1 ELSE c.dir
  BY <1>7, <1>10, SizeAssumption DEF CountFile
<1>12. Cardinality(Held(new, n, e)) = (c.files + 1) % OrganizeMax
  <2>1. CASE m + 1 = OrganizeMax
    <3>1. e = c.dir + 1 /\ e \in Nat /\ e > c.dir
      BY <1>11, <2>1
    <3>2. Held(new, n, e) = {}
      BY <1>5, <1>8, <3>1
    <3> QED
      BY <1>7, <2>1, <3>2, FS_EmptySet
  <2>2. CASE m + 1 # OrganizeMax
    BY <1>7, <1>9, <1>11, <2>2
  <2> QED
    BY <2>1, <2>2
<1>13. ASSUME NEW d \in Nat
       PROVE  /\ IsFiniteSet(Held(new, n, d))
              /\ Cardinality(Held(new, n, d)) <= OrganizeMax
              /\ d > e => Held(new, n, d) = {}
  <2>1. CASE d = c.dir
    <3>1. ~(d > e)
      BY <1>11, <2>1
    <3>2. m + 1 <= OrganizeMax
      BY <1>7, SizeAssumption
    <3> QED
      BY <1>9, <2>1, <3>1, <3>2
  <2>2. CASE d # c.dir
    <3>1. Held(new, n, d) = Held(js, n, d)
      BY <1>5, <2>2
    <3>2. d > e => d > c.dir
      BY <1>11
    <3> QED
      BY <1>8, <3>1, <3>2
  <2> QED
    BY <2>1, <2>2
<1> QED
  BY <1>2, <1>10, <1>11, <1>12, <1>13 DEF Fills

(* A planned job is counted in its subdirectory, or in the next one.        *)
LEMMA DirsFillPlanCarve == TypeInv /\ DirsFill /\ PlanCarve => DirsFill'
<1> SUFFICES ASSUME TypeInv, DirsFill, PlanCarve, opt'.organize PROVE DirsFill'
  BY DEF DirsFill
<1>1. opt' = opt /\ opt.organize
  BY DEF PlanCarve, inVars
<1>2. /\ needle \in Needles /\ counts[needle] \in [files : Nat, dir : Nat]
      /\ counts \in [Needles -> [files : Nat, dir : Nat]]
      /\ jobs \in Seq(JobType) /\ Len(jobs) \in Nat
  <2>1. needle \in Needles
    BY DEF PlanCarve, HasHeader
  <2> QED
    BY <2>1, LenProperties DEF TypeInv, TypeOK, PlanTypes
<1>3. PICK job : /\ jobs' = Append(jobs, job)
                 /\ job.needle = needle /\ job.dir = counts[needle].dir
  BY <1>1 DEF PlanCarve
<1>4. PICK k : k = Len(jobs) + 1
  OBVIOUS
<1>5. /\ Len(jobs') = k /\ jobs'[k] = job
      /\ \A j \in 1..Len(jobs) : jobs'[j] = jobs[j]
  BY <1>2, <1>3, <1>4
<1>6. job \in JobType
  <2>1. jobs' \in Seq(JobType)
    BY TypePlanCarve DEF TypeInv, TypeOK, PlanTypes
  <2>2. k \in 1..Len(jobs')
    BY <1>2, <1>4, <1>5
  <2> QED
    BY <1>5, <2>1, <2>2, ElementOfSeq
<1>7. /\ counts'[needle] = CountFile(counts[needle])
      /\ \A n \in Needles : n # needle => counts'[n] = counts[n]
  BY <1>2 DEF PlanCarve
<1>8. Fills(jobs', needle, counts'[needle])
  BY <1>1, <1>2, <1>3, <1>6, <1>7, OneMoreFile DEF DirsFill
<1>9. ASSUME NEW n \in Needles, n # needle
      PROVE  Fills(jobs', n, counts'[n])
  <2>1. 1..k = (1..Len(jobs)) \cup {k}
    BY <1>2, <1>4
  <2>2. \A d : Held(jobs', n, d) = Held(jobs, n, d)
    BY <1>3, <1>5, <1>9, <2>1 DEF Held
  <2>3. Fills(jobs, n, counts[n]) /\ counts'[n] = counts[n]
    BY <1>1, <1>7, <1>9 DEF DirsFill
  <2> QED
    BY <2>2, <2>3 DEF Fills
<1>10. \A j \in JobIds' : jobs'[j].dir \in Nat
  <2>1. JobIds' = JobIds \cup {k}
    BY <1>2, <1>4, <1>5 DEF JobIds
  <2> QED
    BY <1>1, <1>2, <1>3, <1>5, <2>1 DEF DirsFill, JobIds
<1> QED
  BY <1>8, <1>9, <1>10 DEF DirsFill

(* Every step keeps the subdirectories filled one after the other.          *)
LEMMA DirsFillNext == TypeInv /\ DirsFill /\ [Next]_vars => DirsFill'
<1> SUFFICES ASSUME TypeInv, DirsFill, [Next]_vars PROVE DirsFill'
  OBVIOUS
<1>1. CASE PlanCarve
  BY <1>1, DirsFillPlanCarve
<1>2. CASE UNCHANGED <<opt, jobs, counts>>
  BY <1>2, DirsFillKept
<1> QED
  BY <1>1, <1>2
     DEF Next, Step, Plan, Seek, Read, Carve, Halted, CatchSignal, OpenImage,
         OpenImageFails, SkipUnaligned, PlanNothing, NextNeedle, SeekWork, NoMoreWork,
         SeekOverrun, ReadBlock, EndOfImage, ReadFails, CarvePiece, OpenFails, WriteFails,
         CloseFails, CarveOverrun, EndOfQueue, Finish, FinishFails, vars, inVars, planVars

(* At most organizeMaxFilesPerSub files of a type are put into one          *)
(* subdirectory (dig.c:815, 856-857).                                       *)
THEOREM SubdirsBounded == Spec => []SubdirBound
<1>1. Init => DirsFill
  BY DirsFillInit
<1>2. TypeInv /\ DirsFill /\ [Next]_vars => DirsFill'
  BY DirsFillNext
<1>3. TypeInv /\ DirsFill => SubdirBound
  <2> SUFFICES ASSUME TypeInv, DirsFill, opt.organize, NEW k \in JobIds
               PROVE  Cardinality({j \in JobIds : /\ jobs[j].needle = jobs[k].needle
                                                  /\ jobs[j].dir = jobs[k].dir})
                        <= OrganizeMax
    BY DEF SubdirBound
  <2>1. jobs[k] \in JobType
    BY ElementOfSeq DEF JobIds, TypeInv, TypeOK, PlanTypes
  <2>2. jobs[k].needle \in Needles /\ jobs[k].dir \in Nat
    BY <2>1 DEF JobType, DirsFill
  <2>3. Cardinality(Held(jobs, jobs[k].needle, jobs[k].dir)) <= OrganizeMax
    BY <2>2 DEF DirsFill, Fills
  <2> QED
    BY <2>3 DEF Held, JobIds
<1> QED
  BY <1>1, <1>2, <1>3, TypeInvariant, PTL DEF Spec

-----------------------------------------------------------------------------
(***************************************************************************)
(* The refinement.  When the skip is a multiple of the buffer, what a file *)
(* has so far is always a prefix of its stretch of the image, so that only *)
(* its length matters: every step lengthens at most one file, that is not  *)
(* recorded yet, and never beyond the end of its stretch.  All of this of  *)
(* runs in which no file ends before it begins.                            *)
(***************************************************************************)
Stretch(s, l, size) == [i \in 1..l |-> IF s + i - 1 < size THEN s + i - 1 ELSE -1]

More(s, c, n, size) ==
  [i \in 1..n |-> IF s + c + i - 1 < size THEN s + c + i - 1 ELSE -1]

Length(k) == jobs[k].stop - jobs[k].start + 1

NoneBackward == \A k \in JobIds : RunsForward(k)

(* A function on 1..n is a sequence of length n.                            *)
LEMMA FunctionSeq ==
  ASSUME NEW S, NEW n \in Nat, NEW f \in [1..n -> S]
  PROVE  f \in Seq(S) /\ Len(f) = n
<1>1. f \in Seq(S)
  BY SeqDef
<1> QED
  BY <1>1, LenProperties

(* A stretch is a sequence of its length.                                   *)
LEMMA StretchLength ==
  \A s, l, size \in Nat : Stretch(s, l, size) \in Seq(Int) /\ Len(Stretch(s, l, size)) = l
BY LenProperties DEF Stretch

Grows(s, c, n, size) ==
  Stretch(s, c, size) \o More(s, c, n, size) = Stretch(s, c + n, size)

(* A stretch with the next bytes behind it is a longer stretch.             *)
LEMMA StretchGrows == \A s, c, n, size \in Nat : Grows(s, c, n, size)
<1> TAKE s, c, n, size \in Nat
<1>0. PICK more : more = More(s, c, n, size)
  OBVIOUS
<1>1. \A l \in Nat : Stretch(s, l, size) \in Seq(Int) /\ Len(Stretch(s, l, size)) = l
  BY StretchLength
<1>2. more \in Seq(Int) /\ Len(more) = n
  BY <1>0, LenProperties DEF More
<1>3. PICK a : a = Stretch(s, c, size)
  OBVIOUS
<1>4. PICK b : b = Stretch(s, c + n, size)
  OBVIOUS
<1>5. a \in Seq(Int) /\ Len(a) = c /\ b \in Seq(Int) /\ Len(b) = c + n
  BY <1>1, <1>3, <1>4
<1>6. a \o more \in Seq(Int) /\ Len(a \o more) = c + n
  <2>1. \A x, y \in Seq(Int) : x \o y \in Seq(Int) /\ Len(x \o y) = Len(x) + Len(y)
    BY ConcatProperties
  <2> QED
    BY <1>2, <1>5, <2>1
<1>7. ASSUME NEW i \in 1..(c + n) PROVE (a \o more)[i] = b[i]
  <2>1. (a \o more)[i] = IF i <= c THEN a[i] ELSE more[i - c]
    BY <1>2, <1>5, ConcatProperties
  <2>2. b[i] = IF s + i - 1 < size THEN s + i - 1 ELSE -1
    BY <1>4 DEF Stretch
  <2>3. CASE i <= c
    <3>1. i \in 1..c
      BY <2>3
    <3>2. a[i] = IF s + i - 1 < size THEN s + i - 1 ELSE -1
      BY <1>3, <3>1 DEF Stretch
    <3> QED
      BY <2>1, <2>2, <2>3, <3>2
  <2>4. CASE ~(i <= c)
    <3>1. i - c \in 1..n /\ s + c + (i - c) - 1 = s + i - 1
      BY <2>4
    <3>2. more[i - c] = IF s + i - 1 < size THEN s + i - 1 ELSE -1
      BY <1>0, <3>1 DEF More
    <3> QED
      BY <2>1, <2>2, <2>4, <3>2
  <2> QED
    BY <2>3, <2>4
<1>8. a \o more = b
  BY <1>5, <1>6, <1>7, SeqEqual
<1> QED
  BY <1>0, <1>3, <1>4, <1>5, <1>8 DEF Grows

(* The bytes of a file are its stretch as far as it has come.               *)
LEMMA RealStretch ==
  ASSUME TypeInv, WholeSkip, ContentInv, NEW k \in JobIds, RunsForward(k)
  PROVE  /\ FileLength(k) \in Nat
         /\ Real(k) = Stretch(jobs[k].start, FileLength(k), img.size)
<1>1. /\ jobs[k].start \in Nat /\ jobs[k].stop \in Nat /\ img.size \in Nat
      /\ jobs[k].start <= jobs[k].stop
  BY JobFacts DEF TypeInv, TypeOK, InputTypes, RunsForward
<1>2. Len(content[k]) \in Nat
  <2>1. content[k] \in Seq(Offsets)
    BY ElementOfSeq DEF TypeInv, TypeOK, FileTypes, JobIds
  <2> QED
    BY <2>1, LenProperties
<1>3. FileLength(k) \in Nat
  BY <1>1, <1>2 DEF FileLength
<1>4. Faithful(k)
  BY DEF ContentInv, Forward
<1>5. PICK s : s = jobs[k].start
  OBVIOUS
<1>6. ASSUME NEW i \in 1..FileLength(k)
      PROVE  (IF s + i - 1 >= img.size THEN -1
                ELSE IF opt.preview THEN s + i - 1 ELSE content[k][i])
               = IF s + i - 1 < img.size THEN s + i - 1 ELSE -1
  <2>1. CASE s + i - 1 >= img.size
    BY <1>1, <1>5, <2>1
  <2>2. CASE ~(s + i - 1 >= img.size) /\ opt.preview
    BY <1>1, <1>5, <2>2
  <2>3. CASE ~(s + i - 1 >= img.size) /\ ~opt.preview
    <3>1. i \in 1..Len(content[k])
      BY <2>3 DEF FileLength
    <3>2. s + i - 1 < img.size
      BY <1>1, <1>5, <2>3, <3>1
    <3>3. content[k][i] = s + i - 1
      BY <1>4, <1>5, <3>1, <3>2 DEF Faithful
    <3> QED
      BY <2>3, <3>2, <3>3
  <2> QED
    BY <2>1, <2>2, <2>3
<1>7. Real(k) = [i \in 1..FileLength(k) |->
                   IF s + i - 1 >= img.size THEN -1
                     ELSE IF opt.preview THEN s + i - 1 ELSE content[k][i]]
  BY <1>5 DEF Real
<1>8. Stretch(s, FileLength(k), img.size)
        = [i \in 1..FileLength(k) |-> IF s + i - 1 < img.size THEN s + i - 1 ELSE -1]
  BY DEF Stretch
<1> QED
  BY <1>3, <1>5, <1>6, <1>7, <1>8, Zenon

(* What a file has so far is its stretch of the image, as far as it is.     *)
SoFarRight ==
  WholeSkip =>
    \A k \in JobIds : /\ FileLength(k) \in Nat
                      /\ Real(k) = Stretch(jobs[k].start, FileLength(k), img.size)

(* A step that lengthens the file of one job by n bytes.                    *)
LEMMA ExtendsOne ==
  ASSUME TypeInv, WholeSkip, SoFarRight, SoFarRight',
         UNCHANGED <<img, opt, jobs>>, pc \notin Ended,
         NEW k \in JobIds, ~Audited(k),
         \A j \in JobIds : j # k => /\ FileLength(j)' = FileLength(j)
                                    /\ Audited(j)' <=> Audited(j),
         NEW n \in Nat, FileLength(k)' = FileLength(k) + n,
         FileLength(k) + n <= Length(k),
         Audited(k)' => FileLength(k) + n = Length(k)
  PROVE  Promise!Extend(k)
<1>1. JobIds' = JobIds /\ WholeSkip'
  BY DEF JobIds, WholeSkip
<1>2. PICK len : len = [j \in JobIds |-> FileLength(j)]
  OBVIOUS
<1>3. PICK new : new = [j \in JobIds |-> FileLength(j)']
  OBVIOUS
<1>4. \A j \in JobIds : Real(j) = Stretch(jobs[j].start, len[j], img.size) /\ len[j] \in Nat
  BY <1>2 DEF SoFarRight
<1>5. \A j \in JobIds : Real(j)' = Stretch(jobs[j].start, new[j], img.size)
  <2>1. \A j \in JobIds' : Real(j)' = Stretch(jobs[j].start, FileLength(j), img.size)'
    BY <1>1 DEF SoFarRight
  <2> QED
    BY <1>1, <1>3, <2>1 DEF Stretch
<1>6. new[k] = len[k] + n /\ \A j \in JobIds : j # k => new[j] = len[j]
  BY <1>2, <1>3
<1>7. PICK got : got = [j \in JobIds |-> Real(j)]
  OBVIOUS
<1>8. PICK s : s = jobs[k].start
  OBVIOUS
<1>9. PICK more : more = More(s, len[k], n, img.size)
  OBVIOUS
<1>10. s \in Nat /\ img.size \in Nat /\ len[k] \in Nat /\ Length(k) \in Int
  BY <1>4, <1>8, JobFacts DEF TypeInv, TypeOK, InputTypes, Length
<1>11. Len(got[k]) = len[k] /\ got[k] \o more = Stretch(s, len[k] + n, img.size)
  <2>1. got[k] = Stretch(s, len[k], img.size)
    BY <1>4, <1>7, <1>8
  <2>2. /\ Len(Stretch(s, len[k], img.size)) = len[k]
        /\ Stretch(s, len[k], img.size) \o More(s, len[k], n, img.size)
             = Stretch(s, len[k] + n, img.size)
    <3>1. PICK c : c = len[k]
      OBVIOUS
    <3>2. PICK z : z = img.size
      OBVIOUS
    <3>3. s \in Nat /\ c \in Nat /\ z \in Nat
      BY <1>10, <3>1, <3>2
    <3>4. Grows(s, c, n, z)
      BY <3>3, StretchGrows
    <3>5. Stretch(s, c, z) \o More(s, c, n, z) = Stretch(s, c + n, z)
      BY <3>4 DEF Grows
    <3>6. Len(Stretch(s, c, z)) = c
      BY <3>3, StretchLength
    <3> QED
      BY <3>1, <3>2, <3>5, <3>6
  <2> QED
    BY <1>9, <2>1, <2>2
<1>12. [j \in JobIds |-> Real(j)'] = [got EXCEPT ![k] = got[k] \o more]
  <2>1. \A j \in JobIds : Real(j)' = IF j = k THEN got[k] \o more ELSE got[j]
    BY <1>4, <1>5, <1>6, <1>7, <1>8, <1>11
  <2> QED
    BY <1>7, <2>1
<1>13. [i \in 1..n |-> Promise!Byte(s + Len(got[k]) + i - 1)] = more
  BY <1>9, <1>11 DEF More, Promise!Byte, Promise!NoByte
<1>14. Promise!Length(k) = Length(k)
  BY DEF Promise!Length, Length
<1>15. n \in 0..(Promise!Length(k) - Len(got[k]))
  BY <1>2, <1>10, <1>11, <1>14
<1>16. /\ \A j \in JobIds : j # k => (Audited(j)' <=> Audited(j))
       /\ \/ {j \in JobIds : Audited(j)'} = {j \in JobIds : Audited(j)}
          \/ /\ Len(got[k]) + n = Promise!Length(k)
             /\ {j \in JobIds : Audited(j)'} = {j \in JobIds : Audited(j)} \cup {k}
  <2>1. CASE Audited(k)'
    BY <1>2, <1>11, <1>14, <2>1
  <2>2. CASE ~Audited(k)'
    BY <2>2
  <2> QED
    BY <2>1, <2>2
<1>17. (pc' \in Ended) \in BOOLEAN
  OBVIOUS
<1>18. Promise!Extended(k, n) = [got EXCEPT ![k] = got[k] \o more]
  BY <1>7, <1>8, <1>13 DEF Promise!Extended
<1> QED
  BY <1>1, <1>7, <1>12, <1>15, <1>16, <1>17, <1>18 DEF Promise!Extend

(* No file changes: the step stutters, or the run is over.                  *)
LEMMA ExtendsNone ==
  ASSUME UNCHANGED <<img, opt, jobs, content, audit>>,
         pc \in Ended => pc' \in Ended
  PROVE  Promise!Stop \/ UNCHANGED Promise!vars
<1>1. JobIds' = JobIds
  BY DEF JobIds
<1>2. \A k : Audited(k)' <=> Audited(k)
  BY DEF Audited
<1>3. \A k \in JobIds : Real(k)' = Real(k)
  BY <1>2 DEF Real, FileLength
<1>4. [k \in JobIds |-> Real(k)]' = [k \in JobIds |-> Real(k)]
  BY <1>1, <1>3
<1>5. [k \in JobIds |-> [start |-> jobs[k].start, stop |-> jobs[k].stop]]'
        = [k \in JobIds |-> [start |-> jobs[k].start, stop |-> jobs[k].stop]]
  BY <1>1
<1>6. {k \in JobIds : Audited(k)}' = {k \in JobIds : Audited(k)}
  BY <1>1, <1>2
<1>7. CASE (pc' \in Ended) = (pc \in Ended)
  BY <1>4, <1>5, <1>6, <1>7 DEF Promise!vars
<1>8. CASE pc' \in Ended /\ pc \notin Ended
  BY <1>4, <1>5, <1>6, <1>8 DEF Promise!Stop
<1> QED
  BY <1>7, <1>8

(* Planning a file asks for it.                                             *)
LEMMA PlanAsks ==
  TypeInv /\ Planned /\ PlanSound' /\ NoneBackward' /\ PlanCarve => Promise!Want
<1> SUFFICES ASSUME TypeInv, Planned, PlanSound', NoneBackward', PlanCarve
             PROVE  Promise!Want
  OBVIOUS
<1>1. /\ pc = "plan" /\ pc' = "plan" /\ img' = img /\ opt' = opt /\ audit' = audit
      /\ content' = Append(content, <<>>) /\ audit = <<>>
      /\ \A j \in JobIds : content[j] = <<>>
  BY DEF PlanCarve, inVars, Planned
<1>2. /\ jobs \in Seq(JobType) /\ Len(jobs) \in Nat /\ img.size \in Nat
      /\ content \in Seq(Seq(Offsets)) /\ Len(content) = Len(jobs)
      /\ jobs' \in Seq(JobType)
  <2>1. TypeInv'
    BY TypePlanCarve
  <2> QED
    BY <2>1, LenProperties DEF TypeInv, TypeOK, PlanTypes, InputTypes, FileTypes
<1>3. PICK m : m = Len(jobs)
  OBVIOUS
<1>4. /\ m \in Nat /\ Len(jobs') = m + 1 /\ JobIds = 1..m /\ JobIds' = 1..(m + 1)
      /\ \A j \in 1..m : jobs'[j] = jobs[j]
      /\ \A j \in 1..m : content'[j] = <<>>
      /\ content'[m + 1] = <<>>
  BY <1>1, <1>2, <1>3 DEF PlanCarve, JobIds
<1>5. \A j \in 1..(m + 1) : content'[j] = <<>>
  BY <1>4
<1>6. \A j : ~Audited(j) /\ ~Audited(j)'
  <2>1. DOMAIN audit = {}
    BY <1>1
  <2> QED
    BY <1>1, <2>1 DEF Audited
<1>7. /\ \A j \in 1..m : Real(j) = <<>>
      /\ \A j \in 1..(m + 1) : Real(j)' = <<>>
  <2>1. \A j \in 1..m : FileLength(j) = 0
    BY <1>1, <1>4, <1>6 DEF FileLength
  <2>2. \A j \in 1..(m + 1) : FileLength(j)' = 0
    <3> SUFFICES ASSUME NEW j \in 1..(m + 1) PROVE FileLength(j)' = 0
      OBVIOUS
    <3>1. content'[j] = <<>> /\ ~Audited(j)'
      BY <1>5, <1>6
    <3>2. Len(content'[j]) = 0
      BY <3>1
    <3> QED
      BY <3>1, <3>2 DEF FileLength
  <2> QED
    BY <2>1, <2>2 DEF Real
<1>8. PICK s : s = jobs'[m + 1].start
  OBVIOUS
<1>9. PICK e : e = jobs'[m + 1].stop
  OBVIOUS
<1>10. s \in 0..(img.size - 1) /\ e \in s..img.size
  <2>1. m + 1 \in JobIds'
    BY <1>4
  <2>2. jobs'[m + 1] \in JobType
    BY <1>2, <1>4, ElementOfSeq
  <2>3. JobInside(jobs[m + 1])'
    BY <2>1 DEF PlanSound
  <2>4. s <= e
    BY <1>8, <1>9, <2>1 DEF NoneBackward, RunsForward
  <2> QED
    BY <1>1, <1>2, <1>8, <1>9, <2>2, <2>3, <2>4 DEF JobInside, JobType
<1>11. PICK w : w = [k \in JobIds |-> [start |-> jobs[k].start, stop |-> jobs[k].stop]]
  OBVIOUS
<1>12. PICK v : v = [k \in JobIds' |-> [start |-> jobs'[k].start, stop |-> jobs'[k].stop]]
  OBVIOUS
<1>13. v = Append(w, [start |-> s, stop |-> e])
  <2>1. w \in Seq([start : Nat, stop : Nat]) /\ Len(w) = m
    <3>1. \A k \in 1..m : jobs[k] \in JobType
      BY <1>2, <1>3, ElementOfSeq
    <3>2. w = [k \in 1..m |-> [start |-> jobs[k].start, stop |-> jobs[k].stop]]
      BY <1>4, <1>11
    <3>3. w \in [1..m -> [start : Nat, stop : Nat]]
      BY <3>1, <3>2 DEF JobType
    <3> QED
      BY <1>4, <3>3, FunctionSeq
  <2>2. v \in Seq([start : Nat, stop : Nat]) /\ Len(v) = m + 1
    <3>1. \A k \in 1..(m + 1) : jobs'[k] \in JobType
      BY <1>2, <1>4, ElementOfSeq
    <3>2. v = [k \in 1..(m + 1) |-> [start |-> jobs'[k].start, stop |-> jobs'[k].stop]]
      BY <1>4, <1>12
    <3>3. v \in [1..(m + 1) -> [start : Nat, stop : Nat]]
      BY <3>1, <3>2 DEF JobType
    <3>4. m + 1 \in Nat
      BY <1>4
    <3> QED
      BY <3>3, <3>4, FunctionSeq
  <2>3. PICK x : x = Append(w, [start |-> s, stop |-> e])
    OBVIOUS
  <2>4. /\ x \in Seq([start : Nat, stop : Nat]) /\ Len(x) = m + 1
        /\ \A i \in 1..m : x[i] = w[i]
        /\ x[m + 1] = [start |-> s, stop |-> e]
    BY <1>2, <1>10, <2>1, <2>3
  <2>5. \A i \in 1..(m + 1) : x[i] = v[i]
    <3> SUFFICES ASSUME NEW i \in 1..(m + 1) PROVE x[i] = v[i]
      OBVIOUS
    <3>1. v[i] = [start |-> jobs'[i].start, stop |-> jobs'[i].stop]
      BY <1>4, <1>12
    <3>2. CASE i \in 1..m
      <4>1. w[i] = [start |-> jobs[i].start, stop |-> jobs[i].stop] /\ jobs'[i] = jobs[i]
        BY <1>4, <1>11, <3>2
      <4> QED
        BY <2>4, <3>1, <3>2, <4>1
    <3>3. CASE i = m + 1
      BY <1>8, <1>9, <2>4, <3>1, <3>3
    <3> QED
      BY <1>4, <3>2, <3>3
  <2> QED
    BY <2>2, <2>3, <2>4, <2>5, SeqEqual
<1>14. PICK g : g = [k \in JobIds |-> Real(k)]
  OBVIOUS
<1>15. PICK h : h = [k \in JobIds' |-> Real(k)']
  OBVIOUS
<1>16. h = Append(g, <<>>)
  <2>1. g \in Seq({<<>>}) /\ Len(g) = m
    BY <1>4, <1>7, <1>14
  <2>2. h \in Seq({<<>>}) /\ Len(h) = m + 1
    BY <1>4, <1>7, <1>15
  <2>3. Append(g, <<>>) \in Seq({<<>>}) /\ Len(Append(g, <<>>)) = m + 1
    BY <1>4, <2>1
  <2>4. \A i \in 1..(m + 1) : Append(g, <<>>)[i] = h[i]
    <3>1. \A i \in 1..(m + 1) : Append(g, <<>>)[i] \in {<<>>} /\ h[i] \in {<<>>}
      BY <1>4, <2>2, <2>3, ElementOfSeq
    <3> QED
      BY <3>1
  <2> QED
    BY <2>2, <2>3, <2>4, SeqEqual
<1>17. {k \in JobIds : Audited(k)}' = {k \in JobIds : Audited(k)}
  BY <1>6
<1> QED
  BY <1>1, <1>10, <1>11, <1>12, <1>13, <1>14, <1>15, <1>16, <1>17 DEF Promise!Want, Ended

(* What is left of a file when a piece of it is about to be written.        *)
LEMMA PieceFits ==
  ASSUME AllInv, ContentInv, WholeSkip, HasPiece, ~opt.preview, RunsForward(Job)
  PROVE  /\ JobSpan.bytes \in Nat
         /\ Len(content[Job]) + JobSpan.bytes <= Length(Job)
         /\ IsLast(Op) => Len(content[Job]) + JobSpan.bytes = Length(Job)
<1>a. PICK p : p = Base
  OBVIOUS
<1>b. PICK s : s = jobs[Job].start
  OBVIOUS
<1>c. PICK e : e = jobs[Job].stop
  OBVIOUS
<1>d. PICK l : l = Len(content[Job]) + JobSpan.bytes
  OBVIOUS
<1>0. TypeInv /\ Filed /\ Progress /\ pc = "work"
  BY DEF AllInv, HasPiece
<1>1. TypeInv /\ Filed /\ Progress /\ pc = "work" /\ Job \in Forward
  BY <1>0, PieceFacts DEF Forward
<1>2. /\ p \in Nat /\ s \in Nat /\ e \in Nat /\ Job \in JobIds /\ cursor \in 1..Len(Work)
      /\ Block(p) \in Nat /\ Block(e) \in Nat /\ BufSize \in Nat
  BY <1>1, <1>a, <1>b, <1>c, PieceFacts, BlockType, SizeAssumption
<1>3. Aligned(p)
  BY <1>1, <1>a DEF ContentInv
<1>4. Reached(Job, Base)
  <2>1. cursor \in cursor..Len(Work)
    BY <1>2
  <2>2. Pending(Job)
    BY <2>1 DEF Pending, Job
  <2> QED
    BY <1>1, <1>2, <2>2 DEF Progress
<1>5. /\ JobSpan.bytes \in Nat
      /\ Block(e) = Block(p) => l = e - s + 1
      /\ Block(e) > Block(p) => l = p + BufSize - s \/ p + BufSize > e + 1
  <2>1. Aligned(Base) /\ JobSpan.bytes \in Nat /\ JobSpan.bytes >= 0
    BY <1>1, <1>3, <1>a, PieceHasBytes
  <2> QED
    BY <1>1, <1>4, <1>a, <1>b, <1>c, <1>d, <2>1, LengthAfter
<1>6. Block(e) >= Block(p)
  <2>1. Block(Base) \in Block(jobs[Job].start)..Block(jobs[Job].stop)
    BY <1>1, PieceHere
  <2>2. Block(s) \in Nat
    BY <1>2, BlockType
  <2> QED
    BY <1>2, <2>1, <2>2, <1>a, <1>b, <1>c
<1>7. IsLast(Op) <=> Block(e) = Block(p)
  BY <1>1, <1>a, <1>c, LastPiece
<1>8. Length(Job) = e - s + 1
  BY <1>b, <1>c DEF Length
<1>9. CASE Block(e) = Block(p)
  BY <1>2, <1>5, <1>7, <1>8, <1>9, <1>d
<1>10. CASE Block(e) > Block(p)
  <2>1. p + BufSize <= e
    <3>1. Block(p + BufSize) = Block(p) + 1 /\ p + BufSize \in Nat
      BY <1>2, NextBlock
    <3>2. ~(e < p + BufSize)
      <4> SUFFICES ASSUME e < p + BufSize PROVE FALSE
        OBVIOUS
      <4>1. BufSize * Block(p) <= e
        <5>1. CASE p <= e
          BY <1>2, <1>3, <5>1 DEF Aligned
        <5>2. CASE ~(p <= e)
          <6>1. Block(e) <= Block(p)
            BY <1>2, <5>2, BlockMonotone
          <6> QED
            BY <1>2, <1>10, <6>1
        <5> QED
          BY <5>1, <5>2
      <4>2. e < BufSize * Block(p) + BufSize
        BY <1>2, <1>3 DEF Aligned
      <4>3. Block(e) = Block(p)
        BY <1>2, <4>1, <4>2, BlockUnique
      <4> QED
        BY <1>2, <1>10, <4>3
    <3> QED
      BY <1>2, <3>1, <3>2
  <2>2. l = p + BufSize - s
    BY <1>2, <1>5, <1>10, <2>1
  <2> QED
    BY <1>2, <1>5, <1>7, <1>8, <1>10, <1>d, <2>1, <2>2
<1> QED
  BY <1>2, <1>6, <1>9, <1>10

(* n bytes of the piece are written, and with the last of them the file may *)
(* be recorded.                                                             *)
LEMMA WriteExtends ==
  ASSUME AllInv, NoneBackward, ContentInv, WholeSkip, SoFarRight, SoFarRight',
         HasPiece, ~opt.preview, UNCHANGED <<img, opt, jobs>>, NEW k, k = Job,
         NEW n \in Nat, n \in WrittenInPart \/ n = JobSpan.bytes, content' = Written(n),
         \A j : Audited(j) => Audited(j)',
         \A j : Audited(j)' => \/ Audited(j)
                               \/ j = k /\ IsLast(Op) /\ n = JobSpan.bytes
  PROVE  k \in JobIds /\ Promise!Extend(k)
<1>1. TypeInv /\ Filed /\ AuditInv /\ pc = "work"
  BY DEF AllInv, HasPiece
<1>2. k \in JobIds /\ ~Audited(k)
  <2>1. k \in JobIds /\ RunsForward(k)
    BY <1>1, PieceFacts DEF NoneBackward
  <2> QED
    BY <1>1, <2>1, NotAudited DEF Forward
<1>3. /\ JobSpan.bytes \in Nat
      /\ Len(content[k]) + JobSpan.bytes <= Length(k)
      /\ IsLast(Op) => Len(content[k]) + JobSpan.bytes = Length(k)
  <2>1. RunsForward(Job)
    BY <1>2 DEF NoneBackward
  <2> QED
    BY <2>1, PieceFits
<1>0. n <= JobSpan.bytes
  BY <1>3 DEF WrittenInPart
<1>4. /\ \A j \in JobIds : j # k => content'[j] = content[j]
      /\ Len(content[k]) \in Nat
      /\ Len(content'[k]) = Len(content[k]) + n
  BY <1>1, WrittenPoints
<1>5. /\ FileLength(k) = Len(content[k])
      /\ FileLength(k)' = Len(content[k]) + n
      /\ \A j \in JobIds : j # k => FileLength(j)' = FileLength(j)
  BY <1>4 DEF FileLength
<1>6. \A j \in JobIds : j # k => (Audited(j)' <=> Audited(j))
  OBVIOUS
<1>7. Audited(k)' => IsLast(Op) /\ n = JobSpan.bytes
  BY <1>2
<1>8. Length(k) \in Int
  BY <1>1, <1>2, JobFacts DEF Length
<1>9. PICK z : z = JobSpan.bytes
  OBVIOUS
<1>10. PICK l : l = Len(content[k])
  OBVIOUS
<1>11. PICK t : t = Length(k)
  OBVIOUS
<1>12. l + n <= t /\ (Audited(k)' => l + n = t)
  BY <1>0, <1>3, <1>4, <1>7, <1>8, <1>9, <1>10, <1>11
<1>13. FileLength(k) + n <= Length(k) /\ (Audited(k)' => FileLength(k) + n = Length(k))
  BY <1>5, <1>10, <1>11, <1>12
<1>14. FileLength(k)' = FileLength(k) + n
  BY <1>5
<1>15. pc \notin Ended
  BY <1>1 DEF Ended
<1> QED
  BY <1>1, <1>2, <1>5, <1>6, <1>13, <1>14, <1>15, ExtendsOne

(* What CarvePiece writes lengthens one file of the promise.                *)
LEMMA ExtendsCarvePiece ==
  ASSUME AllInv, NoneBackward, ContentInv, WholeSkip, SoFarRight, SoFarRight', CarvePiece
  PROVE  \E k \in JobIds : Promise!Extend(k)
<1>1. /\ HasPiece /\ pc = "work" /\ img' = img /\ opt' = opt /\ jobs' = jobs
      /\ opt.preview \/ JobSpan.bytes >= 0
      /\ content' = IF opt.preview THEN content ELSE Written(JobSpan.bytes)
  BY DEF CarvePiece, HasPiece, inVars, planVars
<1>2. TypeInv /\ Filed /\ AuditInv
  BY DEF AllInv
<1>k. PICK k : k = Job
  OBVIOUS
<1>3. \A j : Audited(j)' <=> Audited(j) \/ (IsLast(Op) /\ j = k)
  BY <1>2, <1>k, PieceAudits
<1>4. CASE ~opt.preview
  <2>1. PICK n : n = JobSpan.bytes
    OBVIOUS
  <2>2. n \in Nat /\ n = JobSpan.bytes
    <3>1. JobSpan.bytes \in Int
      BY <1>1, <1>2, SpanType
    <3> QED
      BY <1>1, <1>4, <2>1, <3>1
  <2>3. /\ content' = Written(n)
        /\ \A j : Audited(j) => Audited(j)'
        /\ \A j : Audited(j)' => \/ Audited(j)
                                 \/ j = k /\ IsLast(Op) /\ n = JobSpan.bytes
    BY <1>1, <1>3, <1>4, <2>1
  <2> QED
    BY <1>1, <1>4, <1>k, <2>2, <2>3, WriteExtends
<1>5. CASE opt.preview
  <2>1. k \in JobIds /\ RunsForward(k) /\ ~Audited(k)
    <3>1. k \in JobIds /\ RunsForward(k)
      BY <1>1, <1>2, <1>k, PieceFacts DEF NoneBackward
    <3> QED
      BY <1>1, <1>2, <1>k, <3>1, NotAudited DEF Forward
  <2>2. PICK n : n = IF IsLast(Op) THEN Length(k) ELSE 0
    OBVIOUS
  <2>3. Length(k) \in Nat
    BY <1>2, <2>1, JobFacts DEF Length, RunsForward
  <2>4. \A j \in JobIds : j # k => (Audited(j)' <=> Audited(j))
    BY <1>3
  <2>5. /\ FileLength(k) = 0
        /\ FileLength(k)' = n
        /\ \A j \in JobIds : j # k => FileLength(j)' = FileLength(j)
    BY <1>1, <1>3, <1>5, <2>1, <2>2, <2>4 DEF FileLength, Length
  <2>6. n \in Nat /\ n <= Length(k) /\ (Audited(k)' => n = Length(k))
    BY <1>3, <2>1, <2>2, <2>3
  <2>7. pc \notin Ended
    BY <1>1 DEF Ended
  <2>8. /\ FileLength(k)' = FileLength(k) + n
        /\ FileLength(k) + n <= Length(k)
        /\ Audited(k)' => FileLength(k) + n = Length(k)
    BY <2>5, <2>6
  <2> QED
    BY <1>1, <1>2, <2>1, <2>4, <2>5, <2>6, <2>7, <2>8, ExtendsOne
<1> QED
  BY <1>4, <1>5

(* A write that fails has written a part, and that part fits the promise.   *)
LEMMA ExtendsFailedWrite ==
  ASSUME AllInv, NoneBackward, ContentInv, WholeSkip, SoFarRight, SoFarRight',
         WriteFails \/ CloseFails
  PROVE  \E k \in JobIds : Promise!Extend(k)
<1>1. /\ HasPiece /\ ~opt.preview /\ img' = img /\ opt' = opt /\ jobs' = jobs
      /\ audit' = audit
  BY DEF WriteFails, CloseFails, inVars, planVars
<1>2. JobSpan.bytes \in Int /\ WrittenInPart \subseteq Nat
  BY <1>1, SpanType, WrittenNumber DEF AllInv
<1>3. PICK n \in Nat :
        (n \in WrittenInPart \/ n = JobSpan.bytes) /\ content' = Written(n)
  <2>1. CASE WriteFails
    <3>1. PICK n \in WrittenInPart : content' = Written(n)
      BY <2>1 DEF WriteFails
    <3> QED
      BY <1>2, <3>1
  <2>2. CASE CloseFails
    BY <1>2, <2>2 DEF CloseFails
  <2> QED
    BY <2>1, <2>2
<1>k. PICK k : k = Job
  OBVIOUS
<1>4. \A j : Audited(j)' <=> Audited(j)
  BY <1>1 DEF Audited
<1> QED
  BY <1>1, <1>3, <1>4, <1>k, WriteExtends

(* The initial states carve nothing of anything wanted.                     *)
LEMMA PromiseInit == Init => Promise!Init
<1> SUFFICES ASSUME Init PROVE Promise!Init
  OBVIOUS
<1>1. JobIds = {}
  BY DEF Init, JobIds
<1>2. img.size \in Nat
  <2>1. PICK im \in Images : img = [size |-> im.size]
    BY DEF Init
  <2> QED
    BY <2>1, ImageAssumption
<1>3. /\ [k \in JobIds |-> [start |-> jobs[k].start, stop |-> jobs[k].stop]] = <<>>
      /\ [k \in JobIds |-> Real(k)] = <<>>
      /\ {k \in JobIds : Audited(k)} = {}
  BY <1>1
<1>4. (pc \in Ended) = FALSE
  BY DEF Init, Ended
<1> QED
  BY <1>2, <1>3, <1>4 DEF Promise!Init

(* Every step is a step of the promise, or changes nothing of it.           *)
LEMMA PromiseNext ==
  ASSUME AllInv, PlanSound', NoneBackward, NoneBackward', ContentInv, WholeSkip,
         SoFarRight, SoFarRight', [Next]_vars
  PROVE  [Promise!Next]_(Promise!vars)
<1>0. TypeInv /\ Planned
  BY DEF AllInv
<1>1. CASE PlanCarve
  BY <1>0, <1>1, PlanAsks DEF Promise!Next
<1>2. ASSUME \E k \in JobIds : Promise!Extend(k) PROVE Promise!Next
  <2>1. DOMAIN [k \in JobIds |-> [start |-> jobs[k].start, stop |-> jobs[k].stop]] = JobIds
    OBVIOUS
  <2> QED
    BY <1>2, <2>1 DEF Promise!Next
<1>3. CASE CarvePiece
  BY <1>2, <1>3, ExtendsCarvePiece
<1>4. CASE WriteFails \/ CloseFails
  BY <1>2, <1>4, ExtendsFailedWrite
<1>5. ASSUME UNCHANGED <<img, opt, jobs, content, audit>>, pc \in Ended => pc' \in Ended
      PROVE  [Promise!Next]_(Promise!vars)
  BY <1>5, ExtendsNone DEF Promise!Next
<1>6. CASE OpenImage \/ OpenImageFails \/ SkipUnaligned \/ PlanNothing \/ NextNeedle
  <2>1. UNCHANGED <<img, opt, jobs, content, audit>> /\ pc \notin Ended
    BY <1>6
       DEF OpenImage, OpenImageFails, SkipUnaligned, PlanNothing, NextNeedle, Ended,
           inVars, planVars, fileVars
  <2> QED
    BY <1>5, <2>1
<1>7. CASE Seek \/ Read
  <2>1. UNCHANGED <<img, opt, jobs, content, audit>> /\ pc \notin Ended
    BY <1>7
       DEF Seek, SeekWork, NoMoreWork, SeekOverrun, Read, ReadBlock, EndOfImage, ReadFails,
           Ended, inVars, planVars, fileVars
  <2> QED
    BY <1>5, <2>1
<1>8. CASE OpenFails \/ CarveOverrun \/ EndOfQueue \/ Finish \/ FinishFails
  <2>1. UNCHANGED <<img, opt, jobs, content, audit>> /\ pc \notin Ended
    BY <1>8
       DEF OpenFails, CarveOverrun, EndOfQueue, Finish, FinishFails, HasPiece, Ended,
           inVars, planVars, fileVars
  <2> QED
    BY <1>5, <2>1
<1>9. CASE CatchSignal \/ UNCHANGED vars
  <2>1. UNCHANGED <<img, opt, jobs, content, audit, pc>>
    BY <1>9 DEF CatchSignal, vars, inVars, planVars, fileVars
  <2> QED
    BY <1>5, <2>1
<1> QED
  BY <1>1, <1>3, <1>4, <1>6, <1>7, <1>8, <1>9 DEF Next, Step, Plan, Carve, Halted

(* The image is one of the images.                                          *)
ImageGiven == \E im \in Images : img.size = im.size

(* No file ends before it begins when every length is proper.               *)
LEMMA ProperRuns ==
  ASSUME ProperLengths, TypeInv, PlanSound, ImageGiven
  PROVE  NoneBackward
<1> SUFFICES ASSUME NEW k \in JobIds PROVE RunsForward(k)
  BY DEF NoneBackward
<1>1. jobs[k].needle \in Needles
  <2>1. jobs[k] \in JobType
    BY ElementOfSeq DEF JobIds, TypeInv, TypeOK, PlanTypes
  <2> QED
    BY <2>1 DEF JobType
<1>2. ProperLength(jobs[k].needle)
  BY <1>1 DEF ProperLengths, ProperLength, ImageGiven
<1> QED
  BY <1>2 DEF PlanSound, ForwardIfProper

(* The second pass implements the extraction it promises, step by step: a   *)
(* call with a whole skip asks for files, lengthens each one by the next    *)
(* bytes of its stretch of the image, delivers it with its last byte, and   *)
(* stops, at any moment, for good.  The lengths of the types are such that  *)
(* no file ends before it begins: at least 1 and at most 2^64 less the size *)
(* of the image (scalpel.c:263 checks neither).                             *)
THEOREM CarvingKeepsPromise ==
  ProperLengths => (Spec /\ WholeSkip => KeepsPromise)
<1> SUFFICES ASSUME ProperLengths PROVE Spec /\ WholeSkip => KeepsPromise
  OBVIOUS
<1>0. [Next]_vars => img' = img /\ opt' = opt
  BY DEF Next, Step, Plan, Seek, Read, Carve, OpenImage, OpenImageFails, SkipUnaligned,
         PlanNothing, PlanCarve, NextNeedle, SeekWork, NoMoreWork, SeekOverrun, ReadBlock,
         EndOfImage, ReadFails, CarvePiece, OpenFails, WriteFails, CloseFails, CarveOverrun,
         EndOfQueue, Finish, FinishFails, CatchSignal, Halted, vars, inVars
<1>1. WholeSkip /\ [Next]_vars => WholeSkip'
  BY <1>0 DEF WholeSkip
<1>2. ImageGiven /\ [Next]_vars => ImageGiven'
  BY <1>0 DEF ImageGiven
<1>3. Init => ImageGiven
  BY DEF Init, ImageGiven
<1>4. AllInv /\ PlanSound /\ ImageGiven => NoneBackward
  BY ProperRuns DEF AllInv
<1>5. AllInv /\ NoneBackward /\ ContentInv => SoFarRight
  BY RealStretch DEF SoFarRight, NoneBackward, AllInv
<1>6. /\ AllInv /\ PlanSound' /\ NoneBackward /\ NoneBackward' /\ ContentInv /\ WholeSkip
      /\ SoFarRight /\ SoFarRight' /\ [Next]_vars
      => [Promise!Next]_(Promise!vars)
  BY PromiseNext
<1> QED
  BY <1>1, <1>2, <1>3, <1>4, <1>5, <1>6, PromiseInit, AllInvariant, PlanSoundInvariant,
     ContentInvariant, PTL
     DEF Spec, KeepsPromise, Promise!Spec

=============================================================================
