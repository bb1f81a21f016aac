------------------------- MODULE QueuePackageProofs -------------------------
(***************************************************************************)
(* Theorems about the queue package: whatever the threads call, in         *)
(* whatever order, the linked lists stay disjoint, complete, in order and  *)
(* counted, and to its callers every queue is a sequence with a position,  *)
(* as QueueSequences has it: for any number of threads, queues, elements   *)
(* and nodes.                                                              *)
(***************************************************************************)
EXTENDS QueuePackage, SequenceTheorems, FiniteSetTheorems, WellFoundedInduction, TLAPS

-----------------------------------------------------------------------------
(***************************************************************************)
(* Linked lists.                                                           *)
(***************************************************************************)

(* A set of naturals that is not empty has a least element.                *)
LEMMA LeastExists ==
  ASSUME NEW S \in SUBSET Nat, S # {}
  PROVE  \E m \in S : \A x \in S : m <= x
<1>1. IsWellFoundedOn(OpToRel(<, Nat), Nat)
  BY NatLessThanWellFounded
<1>2. PICK m \in S : \A x \in S : <<x, m>> \notin OpToRel(<, Nat)
  BY <1>1, WFMin
<1>3. \A x \in S : ~(x < m)
  BY <1>2 DEF OpToRel
<1> QED
  BY <1>3

(* What follows element i of l, and what l begins with (i = 0).            *)
After(l, i) == IF i < Len(l) THEN l[i + 1] ELSE NULL

(* l is the list that begins at a.                                         *)
IsList(h, a, l) ==
  /\ l \in Seq(Addr) /\ Len(l) <= MaxNodes
  /\ a = After(l, 0)
  /\ \A i \in 1..Len(l) : l[i] \in DOMAIN h /\ h[l[i]].next = After(l, i)
  /\ \A i, j \in 1..Len(l) : l[i] = l[j] => i = j

(* Following the pointers from a finds the list that begins there.         *)
LEMMA ListIs ==
  ASSUME NEW h, DOMAIN h \subseteq Addr, NEW a, NEW l, IsList(h, a, l)
  PROVE  ListFrom(h, a) = l
<1>0. MaxNodes \in Nat /\ NULL \notin Addr
  BY QueueAssumption DEF Addr, NULL
<1>1. PICK n \in 0..MaxNodes : n = Len(l)
  BY <1>0, LenProperties DEF IsList
<1>2. /\ l \in [1..n -> Addr] /\ l = [i \in 1..n |-> l[i]]
      /\ a = IF 0 < n THEN l[1] ELSE NULL
      /\ \A i \in 1..n : h[l[i]].next = (IF i < n THEN l[i + 1] ELSE NULL) /\ l[i] \in DOMAIN h
  <2>1. l \in [1..n -> Addr]
    BY <1>1, LenProperties DEF IsList
  <2> QED
    BY <1>1, <2>1 DEF IsList, After
<1> DEFINE w == [i \in 0..MaxNodes |-> IF i < n THEN l[i + 1] ELSE NULL]
           Walk(g) == [i \in 0..MaxNodes |-> IF i = 0 THEN a ELSE Follow(h, g[i - 1])]
<1>3. w = Walk(w)
  <2>1. ASSUME NEW i \in 0..MaxNodes PROVE w[i] = Walk(w)[i]
    <3>1. CASE i = 0
      BY <1>0, <1>1, <1>2, <3>1
    <3>2. CASE i # 0 /\ i <= n
      <4>1. i - 1 \in 0..MaxNodes /\ i - 1 < n /\ (i - 1) + 1 = i /\ i \in 1..n
        BY <1>0, <1>1, <3>2
      <4>2. w[i - 1] = l[i]
        BY <4>1
      <4>3. Follow(h, l[i]) = w[i]
        BY <1>2, <4>1 DEF Follow
      <4> QED
        BY <3>2, <4>2, <4>3
    <3>3. CASE i # 0 /\ i > n
      <4>1. i - 1 \in 0..MaxNodes /\ ~(i - 1 < n) /\ ~(i < n)
        BY <1>0, <1>1, <3>3
      <4>2. w[i - 1] = NULL /\ w[i] = NULL
        BY <4>1
      <4>3. Follow(h, NULL) = NULL
        BY <1>0 DEF Follow
      <4> QED
        BY <3>3, <4>2, <4>3
    <3> QED
      BY <1>0, <1>1, <3>1, <3>2, <3>3
  <2> HIDE DEF w
  <2>2. DOMAIN w = 0..MaxNodes /\ w = [i \in 0..MaxNodes |-> w[i]]
    BY DEF w
  <2> QED
    BY <2>1, <2>2
<1>4. ASSUME NEW g, g = Walk(g) PROVE g = w
  <2> DEFINE Wrong == {i \in 0..MaxNodes : g[i] # w[i]}
  <2>1. Wrong = {}
    <3> SUFFICES ASSUME Wrong # {} PROVE FALSE
      OBVIOUS
    <3>1. Wrong \in SUBSET Nat
      BY <1>0
    <3>2. PICK i \in Wrong : \A j \in Wrong : i <= j
      BY <3>1, LeastExists
    <3>3. CASE i = 0
      BY <1>3, <1>4, <3>2, <3>3, <1>0
    <3>4. CASE i # 0
      <4>1. i - 1 \in 0..MaxNodes /\ i - 1 \notin Wrong
        BY <1>0, <3>2, <3>4
      <4>2. g[i - 1] = w[i - 1]
        BY <4>1
      <4>3. g[i] = Follow(h, g[i - 1]) /\ w[i] = Follow(h, w[i - 1])
        <5> HIDE DEF w
        <5> QED
          BY <1>3, <1>4, <3>2, <3>4
      <4> QED
        BY <3>2, <4>2, <4>3
    <3> QED
      BY <3>3, <3>4
  <2>2. \A i \in 0..MaxNodes : g[i] = w[i]
    BY <2>1
  <2>3. g = [i \in 0..MaxNodes |-> g[i]]
    <3> HIDE DEF w
    <3> QED
      BY <1>4
  <2> QED
    BY <2>2, <2>3
<1> DEFINE node == CHOOSE g : g = Walk(g)
<1>5. node = w
  <2> HIDE DEF w, Walk
  <2> QED
    BY <1>3, <1>4
<1>6. ListFrom(h, a) = [i \in {j \in 1..MaxNodes : node[j - 1] # NULL} |-> node[i - 1]]
  BY DEF ListFrom
<1>7. {j \in 1..MaxNodes : w[j - 1] # NULL} = 1..n
  <2>1. ASSUME NEW j \in 1..MaxNodes PROVE w[j - 1] # NULL <=> j <= n
    BY <1>0, <1>1, <1>2
  <2> HIDE DEF w
  <2> QED
    BY <1>0, <1>1, <2>1
<1>8. \A i \in 1..n : w[i - 1] = l[i]
  BY <1>0, <1>1
<1> QED
  <2> HIDE DEF w, node
  <2>1. ListFrom(h, a) = [i \in 1..n |-> w[i - 1]]
    BY <1>5, <1>6, <1>7
  <2> QED
    BY <1>2, <1>8, <2>1

-----------------------------------------------------------------------------
(***************************************************************************)
(* What is in memory.                                                      *)
(***************************************************************************)
Node      == [info : Items, priority : Priorities, next : 0..MaxNodes]
Heaps     == UNION {[A -> Node] : A \in SUBSET Addr}
QueueRecs == [queue : 0..MaxNodes, current : 0..MaxNodes, previous : 0..MaxNodes,
              queuelength : Int, duplicates : BOOLEAN]
Memories  == [heap : Heaps, queue : [Queues -> QueueRecs], failed : BOOLEAN]

NodesOf(l) == {l[i] : i \in 1..Len(l)}

(* l is the list of a queue r: counted, in order of priority.              *)
Chain(h, r, l) ==
  /\ IsList(h, r.queue, l) /\ r.queuelength = Len(l)
  /\ \A i, j \in 1..Len(l) : i < j => h[l[i]].priority <= h[l[j]].priority

(* The position of r is nowhere or at a node of l, with the node before.   *)
Standing(r, l) ==
  \/ r.current = NULL
  \/ \E i \in 1..Len(l) : /\ r.current = l[i]
                          /\ r.previous = IF i = 1 THEN NULL ELSE l[i - 1]

(* The lists L are those in memory m, and the positions of the queues in P *)
(* are sound.                                                              *)
Holds(m, L, P) ==
  /\ m \in Memories /\ L \in [Queues -> Seq(Addr)] /\ P \subseteq Queues
  /\ \A q \in Queues : Chain(m.heap, m.queue[q], L[q])
  /\ DOMAIN m.heap = UNION {NodesOf(L[q]) : q \in Queues}
  /\ \A q, r \in Queues : q # r => NodesOf(L[q]) \cap NodesOf(L[r]) = {}
  /\ \A q \in P : Standing(m.queue[q], L[q])

(* Heaps, by their addresses and nodes.                                    *)
LEMMA HeapType ==
  /\ \A h \in Heaps : DOMAIN h \subseteq Addr /\ \A a \in DOMAIN h : h[a] \in Node
  /\ \A h : /\ h = [a \in DOMAIN h |-> h[a]] /\ DOMAIN h \subseteq Addr
            /\ \A a \in DOMAIN h : h[a] \in Node
            => h \in Heaps
<1>1. ASSUME NEW h \in Heaps
      PROVE  DOMAIN h \subseteq Addr /\ \A a \in DOMAIN h : h[a] \in Node
  <2>1. PICK A \in SUBSET Addr : h \in [A -> Node]
    BY DEF Heaps
  <2> QED
    BY <2>1
<1>2. ASSUME NEW h, h = [a \in DOMAIN h |-> h[a]], DOMAIN h \subseteq Addr,
             \A a \in DOMAIN h : h[a] \in Node
      PROVE  h \in Heaps
  <2>1. h \in [DOMAIN h -> Node]
    BY <1>2
  <2> QED
    BY <1>2, <2>1 DEF Heaps
<1> QED
  BY <1>1, <1>2

(* What there is to know of one queue.                                     *)
LEMMA OneList ==
  ASSUME NEW m, NEW L, NEW P, Holds(m, L, P), NEW q \in Queues
  PROVE  /\ List(m, q) = L[q]
         /\ Len(L[q]) \in Nat /\ Len(L[q]) <= MaxNodes /\ DOMAIN L[q] = 1..Len(L[q])
         /\ \A i \in 1..Len(L[q]) :
              /\ L[q][i] \in Addr /\ L[q][i] \in DOMAIN m.heap
              /\ m.heap[L[q][i]] \in Node
              /\ m.heap[L[q][i]].next = After(L[q], i)
         /\ m.queue[q] \in QueueRecs
         /\ m.queue[q].queue = After(L[q], 0)
         /\ m.queue[q].queuelength = Len(L[q])
<1>1. m.heap \in Heaps /\ m.queue[q] \in QueueRecs
  BY DEF Holds, Memories
<1>2. DOMAIN m.heap \subseteq Addr /\ \A a \in DOMAIN m.heap : m.heap[a] \in Node
  BY <1>1, HeapType
<1>3. IsList(m.heap, m.queue[q].queue, L[q]) /\ m.queue[q].queuelength = Len(L[q])
  BY DEF Holds, Chain
<1>4. List(m, q) = L[q]
  BY <1>2, <1>3, ListIs DEF List
<1>5. L[q] \in Seq(Addr)
  BY <1>3 DEF IsList
<1> QED
  BY <1>1, <1>2, <1>3, <1>4, <1>5, LenProperties, ElementOfSeq DEF IsList

(* A list of nodes each of which is in it once is no longer than the heap. *)
LEMMA ListFits ==
  ASSUME NEW l \in Seq(Addr), \A i, j \in 1..Len(l) : l[i] = l[j] => i = j
  PROVE  Len(l) <= MaxNodes
<1>1. PICK n \in Nat : n = Len(l)
  BY LenProperties
<1>2. l \in Injection(1..n, Addr)
  <2>1. l \in [1..n -> Addr]
    BY <1>1, LenProperties
  <2> QED
    BY <1>1, <2>1 DEF Injection, IsInjective
<1>3. IsFiniteSet(Addr) /\ Cardinality(Addr) = MaxNodes
  BY FS_Interval, QueueAssumption DEF Addr
<1>4. Cardinality(1..n) = n
  BY FS_Interval
<1>5. Cardinality(1..n) <= Cardinality(Addr)
  BY <1>2, <1>3, FS_Injection
<1> QED
  BY <1>1, <1>3, <1>4, <1>5

(* The heap changes, and the head and the length of one queue.             *)
Changed(m, q, h, u, k) ==
  [m EXCEPT !.heap = h, !.queue[q].queue = u, !.queue[q].queuelength = k]

(* n has what Changed() writes, and else what m has.                        *)
Wrote(n, m, q, h, u, k) ==
  /\ n \in Memories /\ n.heap = h
  /\ n.queue[q].queue = u /\ n.queue[q].queuelength = k
  /\ \A r \in Queues \ {q} : n.queue[r] = m.queue[r]

(* What Changed() leaves as it was.                                        *)
LEMMA MemoryChanges ==
  ASSUME NEW m \in Memories, NEW q \in Queues, NEW h \in Heaps,
         NEW u \in 0..MaxNodes, NEW k \in Int
  PROVE  Wrote(Changed(m, q, h, u, k), m, q, h, u, k)
<1> DEFINE r == [m.queue[q] EXCEPT !.queue = u, !.queuelength = k]
           Q == [m.queue EXCEPT ![q] = r]
           n == Changed(m, q, h, u, k)
<1>1. r \in QueueRecs /\ r.queue = u /\ r.queuelength = k
  BY DEF Memories, QueueRecs
<1>2. Q \in [Queues -> QueueRecs] /\ Q[q] = r /\ \A s \in Queues \ {q} : Q[s] = m.queue[s]
  BY <1>1 DEF Memories
<1>3. n = [m EXCEPT !.heap = h, !.queue = Q]
  BY DEF Changed, Memories
<1> HIDE DEF r, Q, n
<1>4. n \in Memories /\ n.heap = h /\ n.queue = Q
  BY <1>2, <1>3 DEF Memories
<1> QED
  BY <1>1, <1>2, <1>4 DEF n, Wrote

(* From m to n only the queue q changes, and of the heap only what was in  *)
(* its old list or is in its new one.                                      *)
OnlyList(m, n, q, old, new) ==
  /\ \A r \in Queues \ {q} : n.queue[r] = m.queue[r]
  /\ \A a \in DOMAIN m.heap \ NodesOf(old) :
       a \in DOMAIN n.heap /\ a \notin NodesOf(new) /\ n.heap[a] = m.heap[a]
  /\ \A a \in DOMAIN n.heap : \/ a \in NodesOf(new)
                              \/ a \in DOMAIN m.heap /\ a \notin NodesOf(old)

(* One queue gets another list, and what is in the others stays there.     *)
LEMMA OneListChanges ==
  ASSUME NEW m, NEW L, NEW P, Holds(m, L, P), NEW q \in Queues,
         NEW n \in Memories, NEW l, Chain(n.heap, n.queue[q], l), OnlyList(m, n, q, L[q], l)
  PROVE  Holds(n, [L EXCEPT ![q] = l], P \ {q})
<1> USE DEF OnlyList
<1> DEFINE K == [L EXCEPT ![q] = l]
<1>1. K \in [Queues -> Seq(Addr)] /\ K[q] = l /\ \A r \in Queues \ {q} : K[r] = L[r]
  BY DEF Holds, Chain, IsList
<1> HIDE DEF K
<1>2. ASSUME NEW r \in Queues \ {q}
      PROVE  NodesOf(L[r]) \subseteq DOMAIN m.heap \ NodesOf(L[q])
  BY DEF Holds
<1>3. ASSUME NEW r \in Queues PROVE Chain(n.heap, n.queue[r], K[r])
  <2>1. CASE r = q
    BY <1>1, <2>1
  <2>2. CASE r # q
    <3>1. PICK k : k = L[r]
      OBVIOUS
    <3>2. Chain(m.heap, m.queue[r], k)
      BY <3>1 DEF Holds
    <3>3. \A i \in 1..Len(k) : k[i] \in DOMAIN n.heap /\ n.heap[k[i]] = m.heap[k[i]]
      <4>1. \A i \in 1..Len(k) : k[i] \in NodesOf(k)
        BY DEF NodesOf
      <4> QED
        BY <1>2, <2>2, <3>1, <4>1
    <3>4. Chain(n.heap, m.queue[r], k)
      BY <3>2, <3>3 DEF Chain, IsList
    <3> QED
      BY <1>1, <2>2, <3>1, <3>4
  <2> QED
    BY <2>1, <2>2
<1>4. \A r, s \in Queues : r # s => NodesOf(K[r]) \cap NodesOf(K[s]) = {}
  <2>1. \A r \in Queues \ {q} : NodesOf(l) \cap NodesOf(L[r]) = {}
    BY <1>2
  <2>2. \A r, s \in Queues : r # s => NodesOf(L[r]) \cap NodesOf(L[s]) = {}
    BY DEF Holds
  <2>3. ASSUME NEW r \in Queues, NEW s \in Queues, r # s
        PROVE  NodesOf(K[r]) \cap NodesOf(K[s]) = {}
    <3>1. CASE r = q
      <4>1. NodesOf(K[r]) = NodesOf(l) /\ K[s] = L[s]
        BY <1>1, <2>3, <3>1
      <4> QED
        BY <2>1, <2>3, <3>1, <4>1
    <3>2. CASE s = q
      <4>1. NodesOf(K[s]) = NodesOf(l) /\ K[r] = L[r]
        BY <1>1, <2>3, <3>2
      <4> QED
        BY <2>1, <2>3, <3>2, <4>1
    <3>3. CASE r # q /\ s # q
      BY <1>1, <2>2, <2>3, <3>3
    <3> QED
      BY <3>1, <3>2, <3>3
  <2> QED
    BY <2>3
<1>5. DOMAIN n.heap = UNION {NodesOf(K[r]) : r \in Queues}
  <2>1. ASSUME NEW a \in DOMAIN n.heap PROVE \E r \in Queues : a \in NodesOf(K[r])
    <3>1. CASE a \in NodesOf(l)
      BY <1>1, <3>1
    <3>2. CASE a \in DOMAIN m.heap /\ a \notin NodesOf(L[q])
      <4>1. PICK r \in Queues : a \in NodesOf(L[r])
        BY <3>2 DEF Holds
      <4> QED
        BY <1>1, <3>2, <4>1
    <3> QED
      BY <3>1, <3>2
  <2>2. ASSUME NEW r \in Queues, NEW a \in NodesOf(K[r]) PROVE a \in DOMAIN n.heap
    BY <1>3, <2>2 DEF Chain, IsList, NodesOf
  <2> QED
    BY <2>1, <2>2
<1>6. \A r \in P \ {q} : Standing(n.queue[r], K[r])
  BY <1>1 DEF Holds
<1> QED
  BY <1>1, <1>3, <1>4, <1>5, <1>6 DEF Holds, K

(* Only positions change.                                                  *)
LEMMA ListsStay ==
  ASSUME NEW m, NEW L, NEW P, Holds(m, L, P), NEW n \in Memories, n.heap = m.heap,
         \A q \in Queues : /\ n.queue[q].queue = m.queue[q].queue
                           /\ n.queue[q].queuelength = m.queue[q].queuelength,
         NEW R \in SUBSET Queues, \A q \in R : Standing(n.queue[q], L[q])
  PROVE  Holds(n, L, R)
<1>1. \A q \in Queues : Chain(n.heap, n.queue[q], L[q])
  BY DEF Holds, Chain
<1> QED
  BY <1>1 DEF Holds

-----------------------------------------------------------------------------
(***************************************************************************)
(* The functions between lock and unlock.                                  *)
(***************************************************************************)
LEMMA Fewer ==
  ASSUME NEW m, NEW L, NEW P, Holds(m, L, P), NEW R \in SUBSET P
  PROVE  Holds(m, L, R)
BY DEF Holds

(* The position of q moves to c, behind p.                                 *)
LEMMA PositionMoves ==
  ASSUME NEW m, NEW L, NEW P, Holds(m, L, P), NEW q \in Queues,
         NEW c \in 0..MaxNodes, NEW p \in 0..MaxNodes,
         Standing([m.queue[q] EXCEPT !.current = c, !.previous = p], L[q])
  PROVE  Holds([m EXCEPT !.queue[q].current = c, !.queue[q].previous = p], L, P \cup {q})
<1> DEFINE n == [m EXCEPT !.queue[q].current = c, !.queue[q].previous = p]
<1>1. m \in Memories /\ P \subseteq Queues /\ m.queue \in [Queues -> QueueRecs]
  BY DEF Holds, Memories
<1>2. /\ n.heap = m.heap
      /\ n.queue = [m.queue EXCEPT ![q] = [m.queue[q] EXCEPT !.current = c, !.previous = p]]
  BY <1>1 DEF Memories
<1>3. n \in Memories
  <2> DEFINE r == [m.queue[q] EXCEPT !.current = c, !.previous = p]
             Q == [m.queue EXCEPT ![q] = r]
  <2>1. r \in QueueRecs
    BY <1>1 DEF QueueRecs
  <2>2. n = [m EXCEPT !.queue = Q]
    BY <1>1, <1>2 DEF Memories
  <2> HIDE DEF r
  <2>3. Q \in [Queues -> QueueRecs]
    BY <1>1, <2>1
  <2> HIDE DEF Q, n
  <2> QED
    BY <1>1, <2>2, <2>3 DEF Memories
<1> HIDE DEF n
<1>4. ASSUME NEW r \in Queues
      PROVE  /\ n.queue[r].queue = m.queue[r].queue
             /\ n.queue[r].queuelength = m.queue[r].queuelength
             /\ r # q => n.queue[r] = m.queue[r]
  BY <1>1, <1>2 DEF QueueRecs
<1>5. \A r \in P \cup {q} : Standing(n.queue[r], L[r])
  <2>1. Standing(n.queue[q], L[q])
    BY <1>1, <1>2
  <2> QED
    BY <1>1, <1>4, <2>1 DEF Holds
<1>6. Holds(n, L, P \cup {q})
  BY <1>1, <1>2, <1>3, <1>4, <1>5, ListsStay
<1> QED
  BY <1>6 DEF n

(* nolock_rewind_queue(): the position of q is sound after it.             *)
LEMMA RewindHolds ==
  ASSUME NEW m, NEW L, NEW P, Holds(m, L, P), NEW q \in Queues
  PROVE  Holds(Rewind(m, q), L, P \cup {q})
<1> DEFINE c == m.queue[q].queue
           r == [m.queue[q] EXCEPT !.current = c, !.previous = NULL]
<1>1. /\ c = After(L[q], 0) /\ c \in 0..MaxNodes /\ NULL \in 0..MaxNodes
      /\ Len(L[q]) \in Nat
      /\ m.queue[q] \in QueueRecs
  BY OneList, QueueAssumption DEF QueueRecs, NULL
<1>2. r.current = c /\ r.previous = NULL
  BY <1>1 DEF QueueRecs
<1>3. Standing(r, L[q])
  <2> HIDE DEF r
  <2>1. CASE Len(L[q]) = 0
    BY <1>1, <1>2, <2>1 DEF Standing, After
  <2>2. CASE Len(L[q]) > 0
    <3>1. 1 \in 1..Len(L[q]) /\ c = L[q][1]
      BY <1>1, <2>2 DEF After
    <3> QED
      BY <1>2, <3>1 DEF Standing
  <2> QED
    BY <1>1, <2>1, <2>2
<1>4. Holds([m EXCEPT !.queue[q].current = c, !.queue[q].previous = NULL], L, P \cup {q})
  BY <1>1, <1>3, PositionMoves
<1> QED
  BY <1>4 DEF Rewind

(* nolock_element_in_queue().                                              *)
LEMMA FindHolds ==
  ASSUME NEW m, NEW L, NEW P, Holds(m, L, P), NEW q \in Queues, NEW x
  PROVE  Holds(ElementInQueue(m, q, x), L, P \cup {q})
<1>1. PICK l : l = L[q]
  OBVIOUS
<1>2. /\ List(m, q) = l /\ Len(l) \in Nat /\ DOMAIN l = 1..Len(l)
      /\ \A i \in 1..Len(l) : l[i] \in Addr
      /\ m.queue[q] \in QueueRecs
  BY <1>1, OneList
<1>3. PICK i : i = Match(m, q, x)
  OBVIOUS
<1>4. CASE i = 0
  BY <1>3, <1>4, RewindHolds DEF ElementInQueue
<1>5. CASE i # 0
  <2> DEFINE found == {j \in 1..Len(l) : m.heap[l[j]].info = x}
  <2>1. i = IF found = {} THEN 0 ELSE CHOOSE j \in found : \A k \in found : j <= k
    BY <1>2, <1>3 DEF Match
  <2>2. found # {} /\ found \in SUBSET Nat
    BY <1>2, <1>5, <2>1
  <2>3. i \in found
    <3> HIDE DEF found
    <3>1. \E j \in found : \A k \in found : j <= k
      BY <2>2, LeastExists
    <3> QED
      BY <2>1, <2>2, <3>1
  <2>4. i \in 1..Len(l)
    BY <2>3
  <2> DEFINE p == IF i = 1 THEN NULL ELSE l[i - 1]
             r == [m.queue[q] EXCEPT !.current = l[i], !.previous = p]
  <2>5. l[i] \in 0..MaxNodes /\ p \in 0..MaxNodes
    <3>1. i # 1 => i - 1 \in 1..Len(l)
      BY <1>2, <2>4
    <3> QED
      BY <1>2, <2>4, <3>1, QueueAssumption DEF Addr, NULL
  <2>6. r.current = l[i] /\ r.previous = p
    BY <1>2 DEF QueueRecs
  <2>7. Standing(r, l)
    <3> HIDE DEF r
    <3> QED
      BY <2>4, <2>6 DEF Standing
  <2>8. Holds([m EXCEPT !.queue[q].current = l[i], !.queue[q].previous = p], L, P \cup {q})
    BY <1>1, <2>5, <2>7, PositionMoves
  <2>9. ElementInQueue(m, q, x)
          = [m EXCEPT !.queue[q].current = l[i], !.queue[q].previous = p]
    BY <1>2, <1>3, <1>5 DEF ElementInQueue
  <2> QED
    BY <2>8, <2>9
<1> QED
  BY <1>4, <1>5

(* nolock_next_element().                                                  *)
LEMMA AdvanceHolds ==
  ASSUME NEW m, NEW L, NEW P, Holds(m, L, P), NEW q \in Queues,
         m.queue[q].current \in NodesOf(L[q])
  PROVE  Holds(Advance(m, q), L, P \cup {q})
<1>0. m \in Memories
  BY DEF Holds
<1>1. PICK l : l = L[q]
  OBVIOUS
<1>2. /\ Len(l) \in Nat
      /\ \A i \in 1..Len(l) : l[i] \in Addr /\ m.heap[l[i]] \in Node
                              /\ m.heap[l[i]].next = After(l, i)
      /\ m.queue[q] \in QueueRecs
  BY <1>1, OneList
<1>3. PICK i \in 1..Len(l) : m.queue[q].current = l[i]
  BY <1>1 DEF NodesOf
<1> DEFINE c == m.heap[m.queue[q].current].next
           p == m.queue[q].current
           r == [m.queue[q] EXCEPT !.current = c, !.previous = p]
<1>4. c \in 0..MaxNodes /\ p \in 0..MaxNodes /\ c = After(l, i) /\ p = l[i]
  BY <1>2, <1>3, QueueAssumption DEF Node, Addr
<1>5. r.current = c /\ r.previous = p
  BY <1>2 DEF QueueRecs
<1>6. Standing(r, l)
  <2> HIDE DEF r
  <2>1. CASE i = Len(l)
    BY <1>4, <1>5, <2>1, <1>2 DEF Standing, After
  <2>2. CASE i < Len(l)
    <3>1. i + 1 \in 1..Len(l) /\ i + 1 # 1 /\ (i + 1) - 1 = i
      BY <1>2, <2>2
    <3>2. c = l[i + 1]
      BY <1>4, <2>2 DEF After
    <3> QED
      BY <1>4, <1>5, <3>1, <3>2 DEF Standing
  <2> QED
    BY <1>2, <2>1, <2>2
<1>7. Holds([m EXCEPT !.queue[q].current = c, !.queue[q].previous = p], L, P \cup {q})
  BY <1>1, <1>4, <1>6, PositionMoves
<1>8. Advance(m, q) = [m EXCEPT !.queue[q].current = c, !.queue[q].previous = p]
  BY <1>0 DEF Advance, Memories, QueueRecs
<1> QED
  BY <1>7, <1>8

(* Node j of the list l is taken out of it.                                *)
Cut(l, j) == [i \in 1..(Len(l) - 1) |-> IF i < j THEN l[i] ELSE l[i + 1]]

(* The list without node j: what is in it, and what follows what.          *)
LEMMA CutIs ==
  ASSUME NEW l \in Seq(Addr), NEW j \in 1..Len(l),
         \A i, k \in 1..Len(l) : l[i] = l[k] => i = k
  PROVE  /\ Cut(l, j) \in Seq(Addr) /\ Len(Cut(l, j)) = Len(l) - 1
         /\ \A i \in 1..(Len(l) - 1) : Cut(l, j)[i] = IF i < j THEN l[i] ELSE l[i + 1]
         /\ \A i, k \in 1..(Len(l) - 1) : Cut(l, j)[i] = Cut(l, j)[k] => i = k
         /\ NodesOf(Cut(l, j)) = NodesOf(l) \ {l[j]}
         /\ After(Cut(l, j), 0) = IF j = 1 THEN After(l, 1) ELSE After(l, 0)
         /\ \A i \in 1..(Len(l) - 1) :
              After(Cut(l, j), i) = IF i < j - 1 THEN After(l, i) ELSE After(l, i + 1)
<1>1. PICK n \in Nat : n = Len(l)
  BY LenProperties
<1>2. n > 0 /\ j \in 1..n /\ \A i \in 1..n : l[i] \in Addr
  BY <1>1, ElementOfSeq
<1> DEFINE c == Cut(l, j)
<1>3. c = [i \in 1..(n - 1) |-> IF i < j THEN l[i] ELSE l[i + 1]]
  BY <1>1 DEF Cut
<1>4. \A i \in 1..(n - 1) : c[i] = (IF i < j THEN l[i] ELSE l[i + 1]) /\ c[i] \in Addr
  BY <1>1, <1>2, <1>3
<1>5. DOMAIN c = 1..(n - 1) /\ n - 1 \in Nat
  BY <1>2, <1>3
<1>6. c \in [1..(n - 1) -> Addr]
  BY <1>3, <1>4, <1>5
<1>7. c \in Seq(Addr)
  BY <1>5, <1>6, SeqDef
<1>8. Len(c) = n - 1
  BY <1>5, <1>7, LenProperties
<1> HIDE DEF c
<1>9. \A i, k \in 1..(n - 1) : c[i] = c[k] => i = k
  BY <1>1, <1>2, <1>4
<1>10. NodesOf(c) = NodesOf(l) \ {l[j]}
  <2>1. ASSUME NEW i \in 1..(n - 1) PROVE c[i] \in NodesOf(l) /\ c[i] # l[j]
    <3>1. CASE i < j
      BY <1>1, <1>2, <1>4, <3>1 DEF NodesOf
    <3>2. CASE i >= j
      <4>1. i + 1 \in 1..n /\ i + 1 # j /\ c[i] = l[i + 1]
        BY <1>2, <1>4, <3>2
      <4> QED
        BY <1>1, <1>2, <4>1 DEF NodesOf
    <3> QED
      BY <1>2, <3>1, <3>2
  <2>2. ASSUME NEW i \in 1..n, i # j PROVE \E k \in 1..(n - 1) : l[i] = c[k]
    <3>1. CASE i < j
      <4>1. i \in 1..(n - 1)
        BY <1>2, <3>1
      <4> QED
        BY <1>4, <3>1, <4>1
    <3>2. CASE i > j
      <4>1. i - 1 \in 1..(n - 1) /\ ~(i - 1 < j) /\ (i - 1) + 1 = i
        BY <1>2, <3>2
      <4>2. c[i - 1] = l[i]
        BY <1>4, <4>1
      <4> QED
        BY <4>1, <4>2
    <3> QED
      BY <1>2, <2>2, <3>1, <3>2
  <2>3. NodesOf(c) = {c[i] : i \in 1..(n - 1)} /\ NodesOf(l) = {l[i] : i \in 1..n}
    BY <1>1, <1>8 DEF NodesOf
  <2>4. NodesOf(c) \subseteq NodesOf(l) \ {l[j]}
    BY <2>1, <2>3, Zenon
  <2>5. ASSUME NEW a \in NodesOf(l), a # l[j] PROVE a \in NodesOf(c)
    <3>1. PICK i \in 1..n : a = l[i]
      BY <2>3, <2>5, Zenon
    <3>2. i # j
      BY <2>5, <3>1, Zenon
    <3>3. PICK k \in 1..(n - 1) : l[i] = c[k]
      BY <2>2, <3>2, Zenon
    <3> QED
      BY <2>3, <3>1, <3>3, Zenon
  <2> QED
    BY <2>4, <2>5, Zenon
<1>11. After(c, 0) = IF j = 1 THEN After(l, 1) ELSE After(l, 0)
  BY <1>1, <1>2, <1>4, <1>8 DEF After
<1>12. ASSUME NEW i \in 1..(n - 1)
       PROVE  After(c, i) = IF i < j - 1 THEN After(l, i) ELSE After(l, i + 1)
  <2>1. CASE i = n - 1
    BY <1>1, <1>2, <1>8, <2>1 DEF After
  <2>2. CASE i < n - 1
    <3>1. i + 1 \in 1..(n - 1) /\ i < n /\ i + 1 < n
      BY <1>2, <2>2
    <3>2. c[i + 1] = IF i + 1 < j THEN l[i + 1] ELSE l[(i + 1) + 1]
      BY <1>4, <3>1
    <3>3. After(c, i) = c[i + 1] /\ After(l, i) = l[i + 1] /\ After(l, i + 1) = l[(i + 1) + 1]
      BY <1>1, <1>8, <2>2, <3>1 DEF After
    <3>4. i + 1 < j <=> i < j - 1
      BY <1>2
    <3> QED
      BY <3>2, <3>3, <3>4
  <2> QED
    BY <1>2, <2>1, <2>2
<1> QED
  BY <1>1, <1>4, <1>7, <1>8, <1>9, <1>10, <1>11, <1>12 DEF c

(* Unlinking a node behind the one before it takes it out of its list.     *)
LEMMA UnlinkHolds ==
  ASSUME NEW m, NEW L, NEW P, Holds(m, L, P), NEW q \in Queues, NEW j \in 1..Len(L[q]),
         NEW p, p = (IF j = 1 THEN NULL ELSE L[q][j - 1])
  PROVE  Holds(Unlink(m, q, p, L[q][j]), [L EXCEPT ![q] = Cut(L[q], j)], P \ {q})
<1>1. PICK l : l = L[q]
  OBVIOUS
<1>2. PICK h : h = m.heap
  OBVIOUS
<1>3. PICK n \in Nat : n = Len(l)
  BY <1>1, OneList
<1>4. /\ n <= MaxNodes /\ j \in 1..n /\ MaxNodes \in Nat
      /\ \A i \in 1..n : l[i] \in Addr /\ l[i] \in DOMAIN h /\ h[l[i]] \in Node
                         /\ h[l[i]].next = After(l, i)
      /\ m.queue[q].queue = After(l, 0) /\ m.queue[q].queuelength = n
  BY <1>1, <1>2, <1>3, OneList, QueueAssumption
<1>5. /\ l \in Seq(Addr) /\ \A i, k \in 1..n : l[i] = l[k] => i = k
      /\ \A i, k \in 1..n : i < k => h[l[i]].priority <= h[l[k]].priority
  BY <1>1, <1>2, <1>3 DEF Holds, Chain, IsList
<1>6. m \in Memories /\ h \in Heaps /\ m.queue \in [Queues -> QueueRecs]
  BY <1>2 DEF Holds, Memories
<1>7. DOMAIN h \subseteq Addr /\ \A a \in DOMAIN h : h[a] \in Node
  BY <1>6, HeapType
<1> DEFINE c  == l[j]
           h2 == Free(IF p = NULL THEN h ELSE [h EXCEPT ![p].next = h[c].next], {c})
           u  == IF j = 1 THEN After(l, 1) ELSE After(l, 0)
           k  == Cut(l, j)
           N  == Unlink(m, q, p, c)
<1>8. p = NULL <=> j = 1
  <2>1. j # 1 => j - 1 \in 1..n
    BY <1>4
  <2> QED
    BY <1>1, <1>4, <2>1 DEF Addr, NULL
<1>9. /\ DOMAIN h2 = DOMAIN h \ {c}
      /\ \A a \in DOMAIN h2 :
           h2[a] = IF j # 1 /\ a = l[j - 1] THEN [h[a] EXCEPT !.next = After(l, j)] ELSE h[a]
  <2>1. j # 1 => j - 1 \in 1..n /\ p = l[j - 1]
    BY <1>1, <1>4
  <2>2. h[c].next = After(l, j)
    BY <1>4
  <2> QED
    BY <1>7, <1>8, <2>1, <2>2 DEF Free
<1>10. After(l, j) \in 0..MaxNodes /\ u \in 0..MaxNodes
  <2>1. \A i \in 0..n : After(l, i) \in 0..MaxNodes
    <3>1. ASSUME NEW i \in 0..n PROVE After(l, i) \in 0..MaxNodes
      <4>1. i < n => i + 1 \in 1..n
        OBVIOUS
      <4> QED
        BY <1>3, <1>4, <4>1 DEF After, Addr, NULL
    <3> QED
      BY <3>1
  <2> QED
    BY <1>4, <2>1
<1>11. h2 \in Heaps
  <2>1. h2 = [a \in DOMAIN h2 |-> h2[a]]
    BY DEF Free
  <2> HIDE DEF h2
  <2>2. \A a \in DOMAIN h2 : h2[a] \in Node
    BY <1>7, <1>9, <1>10 DEF Node
  <2> QED
    BY <1>7, <1>9, <2>1, <2>2, HeapType
<1>12. N = Changed(m, q, h2, u, n - 1)
  <2>1. (IF p = NULL THEN h[m.queue[q].queue].next ELSE m.queue[q].queue) = u
    BY <1>3, <1>4, <1>8 DEF After
  <2> QED
    BY <1>2, <1>4, <1>6, <2>1 DEF Unlink, Changed, Memories, QueueRecs
<1> HIDE DEF h2, u, N
<1>13. /\ N \in Memories /\ N.heap = h2
       /\ N.queue[q].queue = u /\ N.queue[q].queuelength = n - 1
       /\ \A r \in Queues \ {q} : N.queue[r] = m.queue[r]
  <2>1. PICK less \in Int : less = n - 1
    OBVIOUS
  <2>2. N = Changed(m, q, h2, u, less)
    BY <1>12, <2>1
  <2>3. /\ N \in Memories /\ N.heap = h2
        /\ N.queue[q].queue = u /\ N.queue[q].queuelength = less
        /\ \A r \in Queues \ {q} : N.queue[r] = m.queue[r]
    <3>1. m \in Memories
      BY <1>6
    <3>2. h2 \in Heaps
      BY <1>11
    <3>3. u \in 0..MaxNodes
      BY <1>10
    <3>4. Wrote(N, m, q, h2, u, less)
      BY <2>2, <3>1, <3>2, <3>3, MemoryChanges
    <3> QED
      BY <3>4 DEF Wrote
  <2> QED
    BY <2>1, <2>3
<1>14. /\ k \in Seq(Addr) /\ Len(k) = n - 1
       /\ \A i \in 1..(n - 1) : k[i] = IF i < j THEN l[i] ELSE l[i + 1]
       /\ \A i, g \in 1..(n - 1) : k[i] = k[g] => i = g
       /\ NodesOf(k) = NodesOf(l) \ {l[j]}
       /\ After(k, 0) = u
       /\ \A i \in 1..(n - 1) : After(k, i) = IF i < j - 1 THEN After(l, i) ELSE After(l, i + 1)
  <2>1. /\ k \in Seq(Addr) /\ Len(k) = Len(l) - 1
        /\ \A i \in 1..(Len(l) - 1) : k[i] = IF i < j THEN l[i] ELSE l[i + 1]
        /\ \A i, g \in 1..(Len(l) - 1) : k[i] = k[g] => i = g
        /\ NodesOf(k) = NodesOf(l) \ {l[j]}
        /\ After(k, 0) = IF j = 1 THEN After(l, 1) ELSE After(l, 0)
        /\ \A i \in 1..(Len(l) - 1) :
             After(k, i) = IF i < j - 1 THEN After(l, i) ELSE After(l, i + 1)
    <3>1. l \in Seq(Addr) /\ j \in 1..Len(l) /\ \A i, g \in 1..Len(l) : l[i] = l[g] => i = g
      BY <1>3, <1>4, <1>5, Zenon
    <3> QED
      BY <3>1, CutIs
  <2> HIDE DEF k
  <2> QED
    BY <1>3, <2>1 DEF u
<1> HIDE DEF k
<1>15. ASSUME NEW i \in 1..(n - 1)
       PROVE  /\ k[i] \in DOMAIN h2 /\ h2[k[i]].next = After(k, i)
              /\ h2[k[i]].priority = h[k[i]].priority
  <2>1. i \in 1..n /\ i + 1 \in 1..n
    BY <1>4
  <2>2. CASE i < j
    <3>1. k[i] = l[i] /\ l[i] # c
      BY <1>4, <1>5, <1>14, <2>1, <2>2
    <3>2. CASE i = j - 1
      <4>1. j # 1 /\ i + 1 = j
        BY <1>4, <2>1, <3>2
      <4>2. h2[k[i]] = [h[k[i]] EXCEPT !.next = After(l, j)]
        BY <1>4, <1>9, <2>1, <3>1, <3>2, <4>1
      <4>3. h[k[i]] \in Node
        BY <1>4, <2>1, <3>1
      <4>4. After(k, i) = After(l, j)
        BY <1>14, <3>2, <4>1
      <4> QED
        BY <1>4, <1>9, <2>1, <3>1, <4>2, <4>3, <4>4 DEF Node
    <3>3. CASE i < j - 1
      <4>1. j # 1 => l[i] # l[j - 1]
        <5>1. j # 1 => j - 1 \in 1..n
          BY <1>4
        <5> QED
          BY <1>4, <1>5, <2>1, <3>3, <5>1
      <4>2. h2[k[i]] = h[l[i]]
        BY <1>4, <1>9, <2>1, <3>1, <4>1
      <4> QED
        BY <1>4, <1>9, <1>14, <2>1, <3>1, <3>3, <4>2
    <3> QED
      BY <1>4, <2>2, <3>2, <3>3
  <2>3. CASE i >= j
    <3>1. k[i] = l[i + 1] /\ l[i + 1] # c
      BY <1>4, <1>5, <1>14, <2>1, <2>3
    <3>2. j # 1 => l[i + 1] # l[j - 1]
      <4>1. j # 1 => j - 1 \in 1..n /\ j - 1 # i + 1
        BY <1>4, <2>3
      <4> QED
        BY <1>5, <2>1, <4>1
    <3>3. h2[k[i]] = h[l[i + 1]]
      BY <1>4, <1>9, <2>1, <3>1, <3>2
    <3>4. ~(i < j - 1)
      BY <1>4, <2>3
    <3> QED
      BY <1>4, <1>9, <1>14, <2>1, <3>1, <3>3, <3>4
  <2> QED
    BY <1>4, <2>2, <2>3
<1>16. Chain(h2, N.queue[q], k)
  <2>1. IsList(h2, u, k)
    BY <1>4, <1>14, <1>15 DEF IsList
  <2>2. ASSUME NEW i \in 1..(n - 1), NEW g \in 1..(n - 1), i < g
        PROVE  h2[k[i]].priority <= h2[k[g]].priority
    <3> DEFINE s(x) == IF x < j THEN x ELSE x + 1
    <3>1. s(i) \in 1..n /\ s(g) \in 1..n /\ s(i) < s(g)
      BY <1>4, <2>2
    <3>2. k[i] = l[s(i)] /\ k[g] = l[s(g)]
      BY <1>14
    <3> QED
      BY <1>5, <1>15, <3>1, <3>2
  <2> QED
    BY <1>13, <1>14, <2>1, <2>2 DEF Chain
<1>17. \A a \in DOMAIN h \ NodesOf(l) : a \in DOMAIN h2 /\ a \notin NodesOf(k) /\ h2[a] = h[a]
  <2>1. c \in NodesOf(l) /\ (j # 1 => l[j - 1] \in NodesOf(l))
    <3>1. j # 1 => j - 1 \in 1..n
      BY <1>4
    <3> QED
      BY <1>3, <1>4, <3>1 DEF NodesOf
  <2> QED
    BY <1>9, <1>14, <2>1
<1>18. \A a \in DOMAIN h2 : a \in NodesOf(k) \/ (a \in DOMAIN h /\ a \notin NodesOf(l))
  BY <1>9, <1>14
<1>19. Holds(N, [L EXCEPT ![q] = k], P \ {q})
  <2>1. OnlyList(m, N, q, L[q], k)
    BY <1>1, <1>2, <1>13, <1>17, <1>18 DEF OnlyList
  <2> QED
    BY <1>13, <1>16, <2>1, OneListChanges
<1> QED
  BY <1>1, <1>19 DEF N, k

(* remove_from_front() of a queue that is not empty.                       *)
LEMMA RemoveFrontHolds ==
  ASSUME NEW m, NEW L, NEW P, Holds(m, L, P), NEW q \in Queues, m.queue[q].queue # NULL
  PROVE  \E K : Holds(RemoveFront(m, q), K, P \cup {q})
<1>1. /\ Len(L[q]) \in Nat /\ m.queue[q].queue = After(L[q], 0)
      /\ \A i \in 1..Len(L[q]) : L[q][i] \in Addr
  BY OneList
<1>2. 1 \in 1..Len(L[q]) /\ m.queue[q].queue = L[q][1]
  BY <1>1 DEF After
<1>3. PICK a : a = L[q][1]
  OBVIOUS
<1>4. m \in Memories
  BY DEF Holds
<1> DEFINE n == Unlink(m, q, NULL, a)
           K == [L EXCEPT ![q] = Cut(L[q], 1)]
<1>5. Holds(n, K, P \ {q})
  BY <1>2, <1>3, UnlinkHolds
<1>6. RemoveFront(m, q) = Rewind(n, q)
  <2>1. n = [m EXCEPT !.heap = Free(m.heap, {a}), !.queue[q].queue = m.heap[a].next,
                      !.queue[q].queuelength = @ - 1]
    BY <1>2, <1>3, <1>4 DEF Unlink, Memories, QueueRecs
  <2> QED
    BY <1>2, <1>3, <2>1 DEF RemoveFront
<1>7. Holds(Rewind(n, q), K, (P \ {q}) \cup {q})
  <2> HIDE DEF n, K
  <2> QED
    BY <1>5, RewindHolds
<1>8. (P \ {q}) \cup {q} = P \cup {q}
  OBVIOUS
<1> QED
  BY <1>6, <1>7, <1>8

(* nolock_destroy_queue().                                                 *)
LEMMA DestroyHolds ==
  ASSUME NEW m, NEW L, NEW P, Holds(m, L, P), NEW q \in Queues
  PROVE  Holds(DestroyQueue(m, q), [L EXCEPT ![q] = <<>>], P \cup {q})
<1>1. PICK l : l = L[q]
  OBVIOUS
<1>2. PICK h : h = m.heap
  OBVIOUS
<1>3. /\ List(m, q) = l /\ Len(l) \in Nat /\ DOMAIN l = 1..Len(l)
      /\ m.queue[q] \in QueueRecs /\ m.queue[q].queuelength = Len(l)
  BY <1>1, OneList
<1>4. m \in Memories /\ h \in Heaps
  BY <1>2 DEF Holds, Memories
<1>5. DOMAIN h \subseteq Addr /\ \A a \in DOMAIN h : h[a] \in Node
  BY <1>4, HeapType
<1> DEFINE h2 == Free(h, ToSet(l))
           n  == Changed(m, q, h2, NULL, 0)
<1>6. ToSet(l) = NodesOf(l)
  BY <1>3 DEF ToSet, NodesOf
<1>7. DOMAIN h2 = DOMAIN h \ NodesOf(l) /\ \A a \in DOMAIN h2 : h2[a] = h[a]
  BY <1>6 DEF Free
<1>8. h2 \in Heaps
  <2>1. h2 = [a \in DOMAIN h2 |-> h2[a]]
    BY DEF Free
  <2> HIDE DEF h2
  <2> QED
    BY <1>5, <1>7, <2>1, HeapType
<1>9. DestroyQueue(m, q) = Rewind(n, q)
  <2>1. m.queue[q].queuelength - Len(l) = 0
    BY <1>3
  <2>2. n = [m EXCEPT !.heap = h2, !.queue[q].queue = NULL,
                      !.queue[q].queuelength = m.queue[q].queuelength - Len(l)]
    BY <1>4, <2>1 DEF Changed, Memories, QueueRecs
  <2>3. n = [m EXCEPT !.heap = h2, !.queue[q].queue = NULL,
                      !.queue[q].queuelength = @ - Len(l)]
    BY <1>4, <2>2 DEF Memories, QueueRecs
  <2> QED
    BY <1>2, <1>3, <2>3 DEF DestroyQueue
<1> HIDE DEF h2
<1>10. /\ n \in Memories /\ n.heap = h2
       /\ n.queue[q].queue = NULL /\ n.queue[q].queuelength = 0
       /\ \A r \in Queues \ {q} : n.queue[r] = m.queue[r]
  <2>1. NULL \in 0..MaxNodes /\ 0 \in Int
    BY QueueAssumption DEF NULL
  <2>2. Wrote(Changed(m, q, h2, NULL, 0), m, q, h2, NULL, 0)
    BY <1>4, <1>8, <2>1, MemoryChanges
  <2> QED
    BY <2>2 DEF Wrote
<1> HIDE DEF n
<1>11. Chain(h2, n.queue[q], <<>>)
  <2>1. <<>> \in Seq(Addr) /\ Len(<<>>) = 0 /\ 1..0 = {} /\ 0 <= MaxNodes
    BY QueueAssumption
  <2> QED
    BY <1>10, <2>1 DEF Chain, IsList, After
<1>12. NodesOf(<<>>) = {}
  BY DEF NodesOf
<1>13. Holds(n, [L EXCEPT ![q] = <<>>], P \ {q})
  <2>1. OnlyList(m, n, q, L[q], <<>>)
    BY <1>1, <1>2, <1>7, <1>10, <1>12 DEF OnlyList
  <2> QED
    BY <1>10, <1>11, <2>1, OneListChanges
<1>14. Holds(Rewind(n, q), [L EXCEPT ![q] = <<>>], (P \ {q}) \cup {q})
  BY <1>13, RewindHolds
<1>15. (P \ {q}) \cup {q} = P \cup {q}
  OBVIOUS
<1> QED
  BY <1>9, <1>14, <1>15

(* update_current(): the priorities and the links stay.                    *)
LEMMA UpdateHolds ==
  ASSUME NEW m, NEW L, NEW P, Holds(m, L, P), NEW c \in DOMAIN m.heap, NEW x \in Items
  PROVE  Holds([m EXCEPT !.heap[c].info = x], L, P)
<1>1. m \in Memories /\ m.heap \in Heaps
  BY DEF Holds, Memories
<1>2. DOMAIN m.heap \subseteq Addr /\ \A a \in DOMAIN m.heap : m.heap[a] \in Node
  BY <1>1, HeapType
<1> DEFINE e == [m.heap[c] EXCEPT !.info = x]
           h == [m.heap EXCEPT ![c] = e]
           n == [m EXCEPT !.heap[c].info = x]
<1>3. e \in Node /\ e.next = m.heap[c].next /\ e.priority = m.heap[c].priority
  BY <1>2 DEF Node
<1> HIDE DEF e
<1>4. /\ h = [a \in DOMAIN h |-> h[a]] /\ DOMAIN h = DOMAIN m.heap
      /\ \A a \in DOMAIN h : h[a] = IF a = c THEN e ELSE m.heap[a]
  OBVIOUS
<1> HIDE DEF h
<1>5. h \in Heaps
  BY <1>2, <1>3, <1>4, HeapType
<1>6. n \in Memories /\ n.heap = h /\ n.queue = m.queue
  <2>1. n = [m EXCEPT !.heap = h]
    BY <1>1 DEF Memories, h, e
  <2> QED
    BY <1>1, <1>5, <2>1 DEF Memories
<1> HIDE DEF n
<1>7. ASSUME NEW q \in Queues PROVE Chain(h, m.queue[q], L[q])
  <2>1. PICK l : l = L[q]
    OBVIOUS
  <2>2. Chain(m.heap, m.queue[q], l)
    BY <2>1 DEF Holds
  <2>3. \A a \in DOMAIN m.heap : /\ h[a].next = m.heap[a].next
                                 /\ h[a].priority = m.heap[a].priority
    BY <1>3, <1>4
  <2>4. Chain(h, m.queue[q], l)
    BY <1>4, <2>2, <2>3 DEF Chain, IsList
  <2> QED
    BY <2>1, <2>4
<1>8. Holds(n, L, P)
  BY <1>4, <1>6, <1>7 DEF Holds
<1> QED
  BY <1>8 DEF n

(* Node a is put into the list l behind k others.                          *)
Grown(l, k, a) ==
  [i \in 1..(Len(l) + 1) |-> IF i <= k THEN l[i] ELSE IF i = k + 1 THEN a ELSE l[i - 1]]

(* The list with node a: what is in it, and what follows what.             *)
LEMMA GrownIs ==
  ASSUME NEW l \in Seq(Addr), NEW k \in 0..Len(l), NEW a \in Addr, a \notin NodesOf(l),
         \A i, j \in 1..Len(l) : l[i] = l[j] => i = j
  PROVE  LET g == Grown(l, k, a)
         IN  /\ g \in Seq(Addr) /\ Len(g) = Len(l) + 1
             /\ \A i \in 1..(Len(l) + 1) :
                  g[i] = IF i <= k THEN l[i] ELSE IF i = k + 1 THEN a ELSE l[i - 1]
             /\ \A i, j \in 1..(Len(l) + 1) : g[i] = g[j] => i = j
             /\ NodesOf(g) = NodesOf(l) \cup {a}
             /\ After(g, 0) = IF k = 0 THEN a ELSE After(l, 0)
             /\ \A i \in 1..(Len(l) + 1) :
                  After(g, i) = IF i < k THEN After(l, i)
                                ELSE IF i = k THEN a ELSE After(l, i - 1)
<1>1. PICK n \in Nat : n = Len(l)
  BY LenProperties
<1>2. k \in 0..n /\ \A i \in 1..n : l[i] \in Addr /\ l[i] # a
  <2>1. \A i \in 1..n : l[i] \in NodesOf(l)
    BY <1>1 DEF NodesOf
  <2> QED
    BY <1>1, <2>1, ElementOfSeq
<1> DEFINE g == Grown(l, k, a)
<1>3. g = [i \in 1..(n + 1) |-> IF i <= k THEN l[i] ELSE IF i = k + 1 THEN a ELSE l[i - 1]]
  BY <1>1 DEF Grown
<1>4. ASSUME NEW i \in 1..(n + 1)
      PROVE  /\ g[i] = IF i <= k THEN l[i] ELSE IF i = k + 1 THEN a ELSE l[i - 1]
             /\ g[i] \in Addr
  <2>1. g[i] = IF i <= k THEN l[i] ELSE IF i = k + 1 THEN a ELSE l[i - 1]
    BY <1>3
  <2>2. i <= k => i \in 1..n
    BY <1>2
  <2>3. i > k + 1 => i - 1 \in 1..n
    BY <1>2
  <2> HIDE DEF g
  <2> QED
    BY <1>2, <2>1, <2>2, <2>3
<1>5. DOMAIN g = 1..(n + 1) /\ n + 1 \in Nat
  BY <1>3
<1>6. g \in [1..(n + 1) -> Addr]
  BY <1>3, <1>4, <1>5
<1>7. g \in Seq(Addr)
  BY <1>5, <1>6, SeqDef
<1>8. Len(g) = n + 1
  BY <1>5, <1>7, LenProperties
<1> HIDE DEF g
<1>9. ASSUME NEW i \in 1..(n + 1), NEW j \in 1..(n + 1), g[i] = g[j] PROVE i = j
  <2> DEFINE s(x) == IF x <= k THEN x ELSE x - 1
  <2>1. \A x \in 1..(n + 1) : x # k + 1 => s(x) \in 1..n /\ g[x] = l[s(x)]
    BY <1>2, <1>4
  <2>2. g[k + 1] = a
    BY <1>2, <1>4
  <2>3. CASE i = k + 1 \/ j = k + 1
    BY <1>2, <1>9, <2>1, <2>2, <2>3
  <2>4. CASE i # k + 1 /\ j # k + 1
    <3>1. s(i) = s(j)
      <4>1. l[s(i)] = l[s(j)] /\ s(i) \in 1..n /\ s(j) \in 1..n
        BY <1>9, <2>1, <2>4
      <4> HIDE DEF s
      <4> QED
        BY <1>1, <4>1
    <3> QED
      BY <1>2, <2>4, <3>1
  <2> QED
    BY <2>3, <2>4
<1>10. NodesOf(g) = NodesOf(l) \cup {a}
  <2>1. ASSUME NEW i \in 1..(n + 1) PROVE g[i] = a \/ \E j \in 1..n : g[i] = l[j]
    <3>1. i <= k => i \in 1..n
      BY <1>2
    <3>2. i > k + 1 => i - 1 \in 1..n
      BY <1>2
    <3> QED
      BY <1>2, <1>4, <3>1, <3>2
  <2>2. ASSUME NEW j \in 1..n PROVE \E i \in 1..(n + 1) : l[j] = g[i]
    <3>1. CASE j <= k
      <4>1. j \in 1..(n + 1)
        OBVIOUS
      <4> QED
        BY <1>4, <3>1, <4>1
    <3>2. CASE j > k
      <4>1. j + 1 \in 1..(n + 1) /\ ~(j + 1 <= k) /\ j + 1 # k + 1 /\ (j + 1) - 1 = j
        BY <1>2, <3>2
      <4>2. g[j + 1] = l[j]
        BY <1>4, <4>1
      <4> QED
        BY <4>1, <4>2
    <3> QED
      BY <1>2, <3>1, <3>2
  <2>3. k + 1 \in 1..(n + 1) /\ g[k + 1] = a
    BY <1>2, <1>4
  <2>4. NodesOf(g) = {g[i] : i \in 1..(n + 1)} /\ NodesOf(l) = {l[i] : i \in 1..n}
    BY <1>1, <1>8 DEF NodesOf
  <2>5. NodesOf(g) \subseteq NodesOf(l) \cup {a}
    BY <2>1, <2>4
  <2>6. NodesOf(l) \cup {a} \subseteq NodesOf(g)
    <3>1. a \in NodesOf(g)
      BY <2>3, <2>4
    <3>2. NodesOf(l) \subseteq NodesOf(g)
      BY <2>2, <2>4
    <3> QED
      BY <3>1, <3>2
  <2> QED
    BY <2>5, <2>6
<1>11. After(g, 0) = IF k = 0 THEN a ELSE After(l, 0)
  <2>1. 1 \in 1..(n + 1) /\ 0 + 1 = 1
    OBVIOUS
  <2>2. After(g, 0) = g[1]
    BY <1>8, <2>1 DEF After
  <2>3. k # 0 => g[1] = l[1] /\ After(l, 0) = l[1]
    BY <1>1, <1>2, <1>4, <2>1 DEF After
  <2>4. k = 0 => g[1] = a
    BY <1>4, <2>1
  <2> QED
    BY <2>2, <2>3, <2>4
<1>12. ASSUME NEW i \in 1..(n + 1)
       PROVE  After(g, i) = IF i < k THEN After(l, i)
                            ELSE IF i = k THEN a ELSE After(l, i - 1)
  <2>1. CASE i = n + 1
    <3>1. After(g, i) = NULL /\ After(l, i - 1) = NULL /\ i > k
      BY <1>1, <1>2, <1>8, <2>1 DEF After
    <3> QED
      BY <1>2, <3>1
  <2>2. CASE i < n + 1
    <3>1. i + 1 \in 1..(n + 1) /\ i \in 1..n
      BY <2>2
    <3>2. After(g, i) = g[i + 1]
      BY <1>8, <2>2 DEF After
    <3>3. CASE i < k
      <4>1. After(l, i) = l[i + 1] /\ i + 1 <= k
        BY <1>1, <1>2, <3>3 DEF After
      <4> QED
        BY <1>4, <3>1, <3>2, <3>3, <4>1
    <3>4. CASE i = k
      BY <1>2, <1>4, <3>1, <3>2, <3>4
    <3>5. CASE i > k
      <4>1. After(l, i - 1) = l[i] /\ ~(i + 1 <= k) /\ i + 1 # k + 1 /\ (i + 1) - 1 = i
        BY <1>1, <1>2, <2>2, <3>5 DEF After
      <4>2. g[i + 1] = l[i]
        BY <1>4, <3>1, <4>1
      <4> QED
        BY <1>2, <3>2, <3>5, <4>1, <4>2
    <3> QED
      BY <1>2, <3>3, <3>4, <3>5
  <2> QED
    BY <2>1, <2>2
<1> QED
  BY <1>1, <1>4, <1>7, <1>8, <1>9, <1>10, <1>11, <1>12 DEF g

(* No node of l is behind priority c.                                      *)
Below(m, l, c) == \A i \in 1..Len(l) : m.heap[l[i]].priority <= c

(* The heap with a new node, linked behind k others of the list l.         *)
Linked(m, l, k, a, node) ==
  Put(IF k = 0 THEN m.heap ELSE [m.heap EXCEPT ![l[k]].next = a], a, node)

(* Linking a new node where its priority allows it keeps the lists.        *)
LEMMA LinkHolds ==
  ASSUME NEW m, NEW L, NEW P, Holds(m, L, P), NEW q \in Queues, NEW k \in 0..Len(L[q]),
         NEW a \in Addr \ DOMAIN m.heap, NEW node \in Node, node.next = After(L[q], k),
         \A i \in 1..Len(L[q]) :
           IF i <= k THEN m.heap[L[q][i]].priority <= node.priority
           ELSE node.priority <= m.heap[L[q][i]].priority,
         NEW n, n = Changed(m, q, Linked(m, L[q], k, a, node),
                            IF k = 0 THEN a ELSE m.queue[q].queue, Len(L[q]) + 1)
  PROVE  /\ Holds(n, [L EXCEPT ![q] = Grown(L[q], k, a)], P \ {q})
         /\ Below(m, L[q], node.priority) => Below(n, Grown(L[q], k, a), node.priority)
<1>1. PICK l : l = L[q]
  OBVIOUS
<1>2. PICK h : h = m.heap
  OBVIOUS
<1>3. PICK len \in Nat : len = Len(l)
  BY <1>1, OneList
<1>4. /\ len <= MaxNodes /\ k \in 0..len /\ MaxNodes \in Nat
      /\ \A i \in 1..len : l[i] \in Addr /\ l[i] \in DOMAIN h /\ h[l[i]] \in Node
                           /\ h[l[i]].next = After(l, i)
      /\ m.queue[q].queue = After(l, 0) /\ m.queue[q] \in QueueRecs
  BY <1>1, <1>2, <1>3, OneList, QueueAssumption
<1>5. /\ l \in Seq(Addr) /\ \A i, j \in 1..len : l[i] = l[j] => i = j
      /\ \A i, j \in 1..len : i < j => h[l[i]].priority <= h[l[j]].priority
  <2>1. Chain(h, m.queue[q], l)
    BY <1>1, <1>2 DEF Holds
  <2> QED
    BY <1>3, <2>1 DEF Chain, IsList
<1>6. m \in Memories /\ h \in Heaps
  BY <1>2 DEF Holds, Memories
<1>7. DOMAIN h \subseteq Addr /\ \A b \in DOMAIN h : h[b] \in Node
  BY <1>6, HeapType
<1>8. a \in Addr /\ a \notin DOMAIN h /\ a \notin NodesOf(l) /\ a \in 0..MaxNodes
  BY <1>2, <1>3, <1>4, QueueAssumption DEF NodesOf, Addr
<1> DEFINE h2 == Linked(m, l, k, a, node)
           u  == IF k = 0 THEN a ELSE m.queue[q].queue
           g  == Grown(l, k, a)
<1>9. k # 0 => k \in 1..len
  BY <1>4
<1>10. /\ DOMAIN h2 = DOMAIN h \cup {a} /\ h2[a] = node
       /\ \A b \in DOMAIN h :
            h2[b] = IF k # 0 /\ b = l[k] THEN [h[b] EXCEPT !.next = a] ELSE h[b]
  BY <1>2, <1>4, <1>7, <1>8, <1>9 DEF Linked, Put
<1>11. h2 \in Heaps
  <2>1. h2 = [b \in DOMAIN h2 |-> h2[b]]
    BY DEF Linked, Put
  <2> HIDE DEF h2
  <2>2. \A b \in DOMAIN h2 : h2[b] \in Node
    BY <1>7, <1>8, <1>10 DEF Node
  <2> QED
    BY <1>7, <1>8, <1>10, <2>1, <2>2, HeapType
<1>12. u \in 0..MaxNodes
  BY <1>4, <1>8 DEF QueueRecs
<1>13. /\ n \in Memories /\ n.heap = h2
       /\ n.queue[q].queue = u /\ n.queue[q].queuelength = len + 1
       /\ \A r \in Queues \ {q} : n.queue[r] = m.queue[r]
  <2>1. PICK more \in Int : more = len + 1
    OBVIOUS
  <2>2. n = Changed(m, q, h2, u, more)
    BY <1>1, <1>3, <2>1
  <2> HIDE DEF h2, u
  <2>3. /\ n \in Memories /\ n.heap = h2
        /\ n.queue[q].queue = u /\ n.queue[q].queuelength = more
        /\ \A r \in Queues \ {q} : n.queue[r] = m.queue[r]
    <3>1. m \in Memories
      BY <1>6
    <3>2. Wrote(n, m, q, h2, u, more)
      BY <1>11, <1>12, <2>2, <3>1, MemoryChanges
    <3> QED
      BY <3>2 DEF Wrote
  <2> QED
    BY <2>1, <2>3
<1>14. /\ g \in Seq(Addr) /\ Len(g) = len + 1
       /\ \A i \in 1..(len + 1) :
            g[i] = IF i <= k THEN l[i] ELSE IF i = k + 1 THEN a ELSE l[i - 1]
       /\ \A i, j \in 1..(len + 1) : g[i] = g[j] => i = j
       /\ NodesOf(g) = NodesOf(l) \cup {a}
       /\ After(g, 0) = IF k = 0 THEN a ELSE After(l, 0)
       /\ \A i \in 1..(len + 1) :
            After(g, i) = IF i < k THEN After(l, i)
                          ELSE IF i = k THEN a ELSE After(l, i - 1)
  BY <1>3, <1>4, <1>5, <1>8, GrownIs
<1> HIDE DEF h2, g
<1> DEFINE s(x) == IF x <= k THEN x ELSE x - 1
<1>15. \A x \in 1..(len + 1) : x # k + 1 => /\ s(x) \in 1..len /\ g[x] = l[s(x)]
                                            /\ (x <= k <=> s(x) <= k)
  BY <1>4, <1>14
<1>16. k + 1 \in 1..(len + 1) /\ g[k + 1] = a
  BY <1>4, <1>14
<1>17. ASSUME NEW i \in 1..(len + 1)
       PROVE  /\ g[i] \in DOMAIN h2 /\ h2[g[i]].next = After(g, i)
              /\ h2[g[i]].priority = IF g[i] = a THEN node.priority ELSE h[g[i]].priority
              /\ g[i] = a <=> i = k + 1
  <2>1. CASE i = k + 1
    <3>1. After(g, i) = After(l, k)
      BY <1>4, <1>14, <2>1
    <3> QED
      BY <1>1, <1>10, <1>16, <2>1, <3>1
  <2>2. CASE i # k + 1
    <3>1. s(i) \in 1..len /\ g[i] = l[s(i)]
      BY <1>15, <2>2
    <3>2. g[i] \in DOMAIN h /\ h[g[i]] \in Node /\ h[g[i]].next = After(l, s(i)) /\ g[i] # a
      <4> HIDE DEF s
      <4> QED
        BY <1>4, <1>8, <3>1
    <3>3. CASE i = k
      <4>1. h2[g[i]] = [h[g[i]] EXCEPT !.next = a]
        BY <1>4, <1>10, <3>1, <3>2, <3>3
      <4>2. After(g, i) = a
        BY <1>4, <1>14, <3>3
      <4> QED
        BY <1>10, <2>2, <3>2, <4>1, <4>2 DEF Node
    <3>4. CASE i # k
      <4>1. k # 0 => g[i] # l[k]
        BY <1>4, <1>5, <1>9, <2>2, <3>1, <3>4
      <4>2. h2[g[i]] = h[g[i]]
        BY <1>10, <3>2, <4>1
      <4>3. After(g, i) = After(l, s(i))
        BY <1>4, <1>14, <2>2, <3>4
      <4> QED
        BY <1>10, <2>2, <3>2, <4>2, <4>3
    <3> QED
      BY <3>3, <3>4
  <2> QED
    BY <2>1, <2>2
<1>18. Chain(h2, n.queue[q], g)
  <2>1. len + 1 <= MaxNodes
    BY <1>14, ListFits
  <2>2. IsList(h2, u, g)
    BY <1>4, <1>14, <1>17, <2>1 DEF IsList
  <2>3. ASSUME NEW i \in 1..(len + 1), NEW j \in 1..(len + 1), i < j
        PROVE  h2[g[i]].priority <= h2[g[j]].priority
    <3>1. \A x \in 1..len : IF x <= k THEN h[l[x]].priority <= node.priority
                            ELSE node.priority <= h[l[x]].priority
      BY <1>1, <1>2, <1>3
    <3>2. CASE i # k + 1 /\ j # k + 1
      <4>1. s(i) \in 1..len /\ s(j) \in 1..len /\ s(i) < s(j)
        BY <1>4, <1>15, <2>3, <3>2
      <4>2. g[i] = l[s(i)] /\ g[j] = l[s(j)] /\ g[i] # a /\ g[j] # a
        BY <1>15, <1>17, <3>2
      <4> HIDE DEF s
      <4> QED
        BY <1>5, <1>17, <4>1, <4>2
    <3>3. CASE i = k + 1
      <4>1. j # k + 1 /\ ~(j <= k) /\ s(j) \in 1..len /\ ~(s(j) <= k)
        BY <1>4, <1>15, <2>3, <3>3
      <4>2. g[i] = a /\ g[j] # a /\ g[j] = l[s(j)]
        BY <1>15, <1>16, <1>17, <3>3, <4>1
      <4> HIDE DEF s
      <4> QED
        BY <1>17, <3>1, <4>1, <4>2
    <3>4. CASE j = k + 1
      <4>1. i # k + 1 /\ i <= k /\ s(i) \in 1..len /\ s(i) <= k
        BY <1>4, <1>15, <2>3, <3>4
      <4>2. g[j] = a /\ g[i] # a /\ g[i] = l[s(i)]
        BY <1>15, <1>16, <1>17, <3>4, <4>1
      <4> HIDE DEF s
      <4> QED
        BY <1>17, <3>1, <4>1, <4>2
    <3> QED
      BY <3>2, <3>3, <3>4
  <2> QED
    BY <1>13, <1>14, <2>2, <2>3 DEF Chain
<1>19. \A b \in DOMAIN h \ NodesOf(l) : b \in DOMAIN h2 /\ b \notin NodesOf(g) /\ h2[b] = h[b]
  <2>1. k # 0 => l[k] \in NodesOf(l)
    BY <1>3, <1>9 DEF NodesOf
  <2> QED
    BY <1>8, <1>10, <1>14, <2>1
<1>20. \A b \in DOMAIN h2 : b \in NodesOf(g) \/ (b \in DOMAIN h /\ b \notin NodesOf(l))
  BY <1>10, <1>14
<1>21. Holds(n, [L EXCEPT ![q] = g], P \ {q})
  <2>1. n \in Memories /\ Chain(n.heap, n.queue[q], g)
    BY <1>13, <1>18, Zenon
  <2>2. OnlyList(m, n, q, L[q], g)
    BY <1>1, <1>2, <1>13, <1>19, <1>20 DEF OnlyList
  <2> QED
    BY <2>1, <2>2, OneListChanges
<1>22. ASSUME Below(m, l, node.priority) PROVE Below(n, g, node.priority)
  <2>1. ASSUME NEW i \in 1..(len + 1) PROVE h2[g[i]].priority <= node.priority
    <3>1. CASE i = k + 1
      <4>1. node.priority \in Int
        BY QueueAssumption DEF Node
      <4> QED
        BY <1>17, <3>1, <4>1
    <3>2. CASE i # k + 1
      <4>1. s(i) \in 1..len /\ g[i] = l[s(i)] /\ g[i] # a
        BY <1>15, <1>17, <3>2
      <4> HIDE DEF s
      <4> QED
        BY <1>2, <1>3, <1>17, <1>22, <4>1 DEF Below
    <3> QED
      BY <3>1, <3>2
  <2> QED
    BY <1>13, <1>14, <2>1 DEF Below
<1> QED
  BY <1>1, <1>21, <1>22 DEF g

(* malloc() returns a node that is not in use.                             *)
LEMMA MallocIs ==
  ASSUME NEW h, Unused(h) # {}
  PROVE  Malloc(h) \in Addr \ DOMAIN h
<1>1. Unused(h) \in SUBSET Nat
  BY QueueAssumption DEF Unused, Addr
<1>2. \E a \in Unused(h) : \A b \in Unused(h) : a <= b
  BY <1>1, LeastExists
<1> QED
  BY <1>2 DEF Malloc, Unused

(* malloc() fails.                                                         *)
LEMMA FailureHolds ==
  ASSUME NEW m, NEW L, NEW P, Holds(m, L, P)
  PROVE  Holds([m EXCEPT !.failed = TRUE], L, P)
<1> DEFINE n == [m EXCEPT !.failed = TRUE]
<1>1. m \in Memories /\ P \subseteq Queues /\ \A q \in P : Standing(m.queue[q], L[q])
  BY DEF Holds
<1>2. n \in Memories /\ n.heap = m.heap /\ n.queue = m.queue
  BY <1>1 DEF Memories
<1> HIDE DEF n
<1>3. Holds(n, L, P)
  BY <1>1, <1>2, ListsStay
<1> QED
  BY <1>3 DEF n

(* A new node goes behind those of lower and equal priority, but in front  *)
(* of an equal head: the list stays in order.                              *)
LEMMA BehindAt ==
  ASSUME NEW m, NEW L, NEW P, Holds(m, L, P), NEW q \in Queues, NEW p \in Int,
         NEW k, k = Behind(m, q, p)
  PROVE  IF L[q] = <<>> \/ m.heap[L[q][1]].priority >= p THEN k = 0
         ELSE /\ k \in 1..Len(L[q])
              /\ \A i \in 1..k : p >= m.heap[L[q][i]].priority
              /\ k < Len(L[q]) => p < m.heap[L[q][k + 1]].priority
<1>1. PICK l : l = L[q]
  OBVIOUS
<1>2. PICK n \in Nat : n = Len(l)
  BY <1>1, OneList
<1>3. /\ List(m, q) = l /\ DOMAIN l = 1..n
      /\ \A i \in 1..n : m.heap[l[i]] \in Node
  BY <1>1, <1>2, OneList
<1> DEFINE pri(i) == m.heap[l[i]].priority
<1>4. \A i \in 1..n : pri(i) \in Int
  BY <1>3, QueueAssumption DEF Node
<1>5. l = <<>> <=> n = 0
  <2>1. l \in Seq(Addr)
    BY <1>1 DEF Holds
  <2> QED
    BY <1>2, <2>1, EmptySeq
<1>6. CASE l = <<>> \/ pri(1) >= p
  <2>1. k = 0
    BY <1>3, <1>6 DEF Behind
  <2> QED
    BY <1>1, <1>6, <2>1
<1>7. CASE ~(l = <<>> \/ pri(1) >= p)
  <2>0. n > 0 /\ pri(1) < p
    <3>1. n > 0
      BY <1>2, <1>5, <1>7
    <3>2. pri(1) \in Int
      BY <1>4, <3>1
    <3> HIDE DEF pri
    <3> QED
      BY <1>7, <3>1, <3>2
  <2> DEFINE Good(j) == (\A i \in 1..j : p >= pri(i)) /\ (j < n => p < pri(j + 1))
             above == {i \in 1..n : pri(i) > p}
  <2>1. k = CHOOSE j \in 1..n : Good(j)
    BY <1>2, <1>3, <1>7 DEF Behind
  <2>2. \E j \in 1..n : Good(j)
    <3>1. CASE above = {}
      <4>1. \A i \in 1..n : p >= pri(i)
        <5>1. ASSUME NEW i \in 1..n PROVE p >= pri(i)
          <6>1. pri(i) \in Int /\ ~(pri(i) > p)
            BY <1>4, <3>1
          <6> HIDE DEF pri
          <6> QED
            BY <6>1
        <5> QED
          BY <5>1
      <4> HIDE DEF pri
      <4>2. Good(n) /\ n \in 1..n
        BY <2>0, <4>1
      <4> QED
        BY <4>2
    <3>2. CASE above # {}
      <4>1. above \in SUBSET Nat
        OBVIOUS
      <4>2. PICK f \in above : \A i \in above : f <= i
        <5> HIDE DEF above
        <5> QED
          BY <3>2, <4>1, LeastExists
      <4>3. f \in 1..n /\ pri(f) > p /\ f # 1
        <5>1. 1 \in 1..n /\ pri(1) \in Int
          BY <1>4, <2>0
        <5> HIDE DEF pri
        <5> QED
          BY <2>0, <4>2, <5>1
      <4>4. f - 1 \in 1..n /\ (f - 1) + 1 = f
        BY <4>3
      <4>5. \A i \in 1..(f - 1) : p >= pri(i)
        <5>1. ASSUME NEW i \in 1..(f - 1) PROVE p >= pri(i)
          <6>1. i \in 1..n /\ i \notin above
            BY <4>2, <4>3
          <6>2. pri(i) \in Int /\ ~(pri(i) > p)
            BY <1>4, <6>1
          <6> HIDE DEF pri
          <6> QED
            BY <6>2
        <5> QED
          BY <5>1
      <4>6. Good(f - 1)
        <5>1. pri(f) \in Int
          BY <1>4, <4>3
        <5> HIDE DEF pri
        <5> QED
          BY <4>3, <4>4, <4>5, <5>1
      <4> QED
        BY <4>4, <4>6
    <3> QED
      BY <3>1, <3>2
  <2>3. k \in 1..n /\ Good(k)
    <3> HIDE DEF Good
    <3> QED
      BY <2>1, <2>2
  <2> QED
    BY <1>1, <1>2, <1>7, <2>3
<1> QED
  BY <1>6, <1>7

(* The list stays in order.                                                *)
LEMMA BehindIs ==
  ASSUME NEW m, NEW L, NEW P, Holds(m, L, P), NEW q \in Queues, NEW p \in Int
  PROVE  /\ Behind(m, q, p) \in 0..Len(L[q])
         /\ \A i \in 1..Len(L[q]) :
              IF i <= Behind(m, q, p) THEN m.heap[L[q][i]].priority <= p
              ELSE p <= m.heap[L[q][i]].priority
<1>1. PICK l : l = L[q]
  OBVIOUS
<1>2. PICK n \in Nat : n = Len(l)
  BY <1>1, OneList
<1>3. \A i \in 1..n : m.heap[l[i]] \in Node
  BY <1>1, <1>2, OneList
<1> DEFINE pri(i) == m.heap[l[i]].priority
<1>4. \A i \in 1..n : pri(i) \in Int
  BY <1>3, QueueAssumption DEF Node
<1>5. \A i, j \in 1..n : i < j => pri(i) <= pri(j)
  BY <1>1, <1>2 DEF Holds, Chain
<1>6. PICK k : k = Behind(m, q, p)
  OBVIOUS
<1>7. IF l = <<>> \/ pri(1) >= p THEN k = 0
      ELSE k \in 1..n /\ (\A i \in 1..k : p >= pri(i)) /\ (k < n => p < pri(k + 1))
  BY <1>1, <1>2, <1>6, BehindAt
<1>8. l = <<>> => n = 0
  BY <1>2
<1>9. CASE n = 0
  <2>1. k = 0
    BY <1>7, <1>9
  <2> QED
    BY <1>1, <1>2, <1>6, <1>9, <2>1
<1>10. CASE n > 0 /\ pri(1) >= p
  <2>1. k = 0
    BY <1>7, <1>10
  <2>2. \A i \in 1..n : p <= pri(i)
    <3>1. ASSUME NEW i \in 1..n PROVE p <= pri(i)
      <4>1. pri(1) <= pri(i) /\ pri(1) \in Int /\ pri(i) \in Int
        <5>1. 1 \in 1..n /\ (i = 1 \/ 1 < i)
          BY <1>10
        <5> QED
          BY <1>4, <1>5, <5>1
      <4> HIDE DEF pri
      <4> QED
        BY <1>10, <4>1
    <3> QED
      BY <3>1
  <2> QED
    BY <1>1, <1>2, <1>6, <2>1, <2>2
<1>11. CASE n > 0 /\ ~(pri(1) >= p)
  <2>1. k \in 1..n /\ (\A i \in 1..k : p >= pri(i)) /\ (k < n => p < pri(k + 1))
    BY <1>7, <1>8, <1>11
  <2>2. ASSUME NEW i \in 1..n PROVE IF i <= k THEN pri(i) <= p ELSE p <= pri(i)
    <3>1. CASE i <= k
      <4>1. i \in 1..k /\ pri(i) \in Int
        BY <1>4, <2>1, <3>1
      <4>2. p >= pri(i)
        BY <2>1, <4>1
      <4> HIDE DEF pri
      <4> QED
        BY <3>1, <4>1, <4>2
    <3>2. CASE i > k
      <4>1. k + 1 \in 1..n /\ (i = k + 1 \/ k + 1 < i) /\ k < n
        BY <2>1, <3>2
      <4>2. p < pri(k + 1) /\ pri(k + 1) \in Int /\ pri(i) \in Int
        BY <1>4, <2>1, <4>1
      <4>3. pri(k + 1) <= pri(i)
        BY <1>5, <4>1, <4>2
      <4> HIDE DEF pri
      <4> QED
        BY <2>1, <3>2, <4>2, <4>3
    <3> QED
      BY <2>1, <3>1, <3>2
  <2> QED
    BY <1>1, <1>2, <1>6, <2>1, <2>2
<1> QED
  BY <1>2, <1>9, <1>10, <1>11

(* A new node a is linked behind k others of the list l of q.              *)
Chained(m, l, q, k, a, node) ==
  Changed(m, q, Linked(m, l, k, a, node), IF k = 0 THEN a ELSE m.queue[q].queue, Len(l) + 1)

(* n is m with a new node a, that holds x of priority p, in the list of q. *)
Gains(m, L, P, q, x, p, n, k, a, node) ==
  /\ k \in 0..Len(L[q])
  /\ a \in Addr \ DOMAIN m.heap /\ node \in Node
  /\ node.info = x /\ node.priority = p
  /\ n = Chained(m, L[q], q, k, a, node)
  /\ Holds(n, [L EXCEPT ![q] = Grown(L[q], k, a)], P \ {q})

(* nolock_add_to_queue() of an element that goes in.                       *)
LEMMA InsertIs ==
  ASSUME NEW m, NEW L, NEW P, Holds(m, L, P), NEW q \in Queues,
         NEW x \in Items, NEW p \in Priorities, Unused(m.heap) # {}
  PROVE  \E n, k, a, node : /\ Insert(m, q, x, p) = Rewind(n, q) /\ k = Behind(m, q, p)
                            /\ Gains(m, L, P, q, x, p, n, k, a, node)
<1>1. PICK a \in Addr \ DOMAIN m.heap : a = Malloc(m.heap)
  BY MallocIs
<1>2. PICK l : l = L[q]
  OBVIOUS
<1>3. p \in Int
  BY QueueAssumption
<1>4. PICK k \in 0..Len(l) : k = Behind(m, q, p)
  BY <1>2, <1>3, BehindIs
<1>5. \A i \in 1..Len(l) : IF i <= k THEN m.heap[l[i]].priority <= p
                           ELSE p <= m.heap[l[i]].priority
  BY <1>2, <1>3, <1>4, BehindIs
<1>6. /\ List(m, q) = l /\ m.queue[q].queuelength = Len(l) /\ Len(l) \in Nat
      /\ m.queue[q].queue = After(l, 0)
      /\ \A i \in 1..Len(l) : l[i] \in Addr /\ m.heap[l[i]].next = After(l, i)
  BY <1>2, OneList
<1>7. k # 0 => k \in 1..Len(l)
  BY <1>4, <1>6
<1>8. (IF k = 0 THEN m.queue[q].queue ELSE m.heap[l[k]].next) = After(l, k)
  BY <1>6, <1>7
<1>9. After(l, k) \in 0..MaxNodes
  <2>1. k < Len(l) => k + 1 \in 1..Len(l)
    BY <1>4, <1>6
  <2> QED
    BY <1>6, <2>1, QueueAssumption DEF After, Addr, NULL
<1>10. PICK node \in Node : node = [info |-> x, priority |-> p, next |-> After(l, k)]
  BY <1>9 DEF Node
<1>11. node.next = After(l, k) /\ node.priority = p /\ node.info = x
  BY <1>10
<1> DEFINE linked == Linked(m, l, k, a, node)
           n == Changed(m, q, linked, IF k = 0 THEN a ELSE m.queue[q].queue, Len(l) + 1)
<1>12. Insert(m, q, x, p) = Rewind(n, q)
  <2>1. m \in Memories
    BY DEF Holds
  <2>2. n = [m EXCEPT !.heap = linked,
                      !.queue[q].queue = IF k = 0 THEN a ELSE @,
                      !.queue[q].queuelength = @ + 1]
    <3> HIDE DEF linked
    <3> QED
      BY <1>6, <2>1 DEF Changed, Memories, QueueRecs
  <2>3. linked = IF k = 0 THEN Put(m.heap, a, node)
                 ELSE Put([m.heap EXCEPT ![l[k]].next = a], a, node)
    BY DEF Linked
  <2> HIDE DEF n, linked
  <2> QED
    BY <1>1, <1>4, <1>6, <1>8, <1>10, <2>2, <2>3 DEF Insert
<1>13. Holds(n, [L EXCEPT ![q] = Grown(l, k, a)], P \ {q})
  BY <1>2, <1>5, <1>11, LinkHolds
<1>14. n = Chained(m, l, q, k, a, node)
  BY DEF Chained
<1> HIDE DEF n
<1>15. Gains(m, L, P, q, x, p, n, k, a, node)
  BY <1>2, <1>11, <1>13, <1>14 DEF Gains
<1> QED
  BY <1>4, <1>12, <1>15

(* It keeps the lists, also when malloc() fails.                           *)
LEMMA InsertHolds ==
  ASSUME NEW m, NEW L, NEW P, Holds(m, L, P), NEW q \in Queues,
         NEW x \in Items, NEW p \in Priorities
  PROVE  \E K : Holds(Insert(m, q, x, p), K, P)
<1>1. CASE Unused(m.heap) = {}
  BY <1>1, FailureHolds DEF Insert
<1>2. CASE Unused(m.heap) # {}
  <2>1. PICK n, k, a, node : /\ Insert(m, q, x, p) = Rewind(n, q)
                             /\ Gains(m, L, P, q, x, p, n, k, a, node)
    BY <1>2, InsertIs
  <2> DEFINE K == [L EXCEPT ![q] = Grown(L[q], k, a)]
  <2>2. Holds(n, K, P \ {q})
    BY <2>1 DEF Gains
  <2> HIDE DEF K
  <2>3. Holds(Rewind(n, q), K, (P \ {q}) \cup {q})
    BY <2>2, RewindHolds
  <2>4. Holds(Rewind(n, q), K, P)
    BY <2>3, Fewer
  <2> QED
    BY <2>1, <2>4
<1> QED
  BY <1>1, <1>2

(* add_to_queue(): an element that may not be there twice is found.        *)
LEMMA AddHolds ==
  ASSUME NEW m, NEW L, NEW P, Holds(m, L, P), NEW q \in Queues,
         NEW x \in Items, NEW p \in Priorities
  PROVE  \E K : Holds(AddToQueue(m, q, x, p), K, P)
<1>1. CASE m.queue[q].duplicates \/ Match(m, q, x) = 0
  BY <1>1, InsertHolds DEF AddToQueue
<1>2. CASE ~(m.queue[q].duplicates \/ Match(m, q, x) = 0)
  <2>1. Holds(ElementInQueue(m, q, x), L, P \cup {q})
    BY FindHolds
  <2>2. Holds(ElementInQueue(m, q, x), L, P)
    BY <2>1, Fewer
  <2> QED
    BY <1>2, <2>2 DEF AddToQueue
<1> QED
  BY <1>1, <1>2

-----------------------------------------------------------------------------
(***************************************************************************)
(* The loops over the elements of another queue.                           *)
(***************************************************************************)
Added(S, e) ==
  {AddToQueue(n, d.queue, d.info, d.priority) : n \in S, d \in {e}}

AddRun(f, m, s, len) ==
  f[0] = {m} /\ \A i \in 1..len : f[i] = Added(f[i - 1], s[i])

(* The loop of merge_queues() has its memories before and after each step. *)
LEMMA AddAllIs ==
  ASSUME NEW m, NEW s, NEW len \in Nat, len = Len(s)
  PROVE  \E f : AddAll(m, s) = f[len] /\ AddRun(f, m, s, len)
<1> DEFINE Loop(g, k) == [i \in 0..k |-> IF i = 0 THEN {m} ELSE Added(g[i - 1], s[i])]
           Runs(k) == \E g : g = Loop(g, k)
           stuck == {k \in 0..len : ~Runs(k)}
<1>1. Runs(0)
  <2> DEFINE g == [i \in 0..0 |-> {m}]
  <2>1. g = Loop(g, 0)
    OBVIOUS
  <2> QED
    BY <2>1
<1>2. ASSUME NEW k \in 1..len, Runs(k - 1) PROVE Runs(k)
  <2>1. PICK g : g = Loop(g, k - 1)
    BY <1>2
  <2> DEFINE w == [i \in 0..k |-> IF i < k THEN g[i] ELSE Added(g[k - 1], s[k])]
  <2>2. ASSUME NEW i \in 0..k
        PROVE  w[i] = IF i = 0 THEN {m} ELSE Added(w[i - 1], s[i])
    <3>1. CASE i = 0
      <4>1. w[0] = g[0] /\ 0 \in 0..(k - 1)
        OBVIOUS
      <4>2. g[0] = {m}
        BY <2>1, <4>1
      <4> QED
        BY <3>1, <4>1, <4>2
    <3>2. CASE i # 0 /\ i < k
      <4>1. w[i] = g[i] /\ w[i - 1] = g[i - 1] /\ i \in 0..(k - 1)
        BY <3>2
      <4>2. g[i] = Added(g[i - 1], s[i])
        BY <2>1, <3>2, <4>1
      <4> HIDE DEF w
      <4> QED
        BY <3>2, <4>1, <4>2
    <3>3. CASE i = k
      <4>1. w[k] = Added(g[k - 1], s[k]) /\ w[k - 1] = g[k - 1] /\ k # 0
        OBVIOUS
      <4> HIDE DEF w
      <4> QED
        BY <3>3, <4>1
    <3> QED
      BY <3>1, <3>2, <3>3
  <2>3. w = [i \in 0..k |-> w[i]]
    OBVIOUS
  <2> HIDE DEF w
  <2>4. w = Loop(w, k)
    BY <2>2, <2>3
  <2> HIDE DEF Loop
  <2> QED
    BY <2>4
<1>3. stuck = {}
  <2> SUFFICES ASSUME stuck # {} PROVE FALSE
    OBVIOUS
  <2> HIDE DEF Runs
  <2>1. stuck \in SUBSET Nat
    OBVIOUS
  <2>2. PICK k \in stuck : \A j \in stuck : k <= j
    BY <2>1, LeastExists
  <2>3. k # 0 /\ k - 1 \in 0..len /\ k - 1 \notin stuck
    BY <1>1, <2>2
  <2> QED
    BY <1>2, <2>2, <2>3
<1>4. \E g : g = Loop(g, len)
  <2>1. Runs(len)
    <3> HIDE DEF Runs
    <3> QED
      BY <1>3
  <2> HIDE DEF Loop
  <2> QED
    BY <2>1
<1> DEFINE after == CHOOSE g : g = Loop(g, len)
<1>5. after = Loop(after, len)
  <2> HIDE DEF Loop
  <2> QED
    BY <1>4
<1>6. AddAll(m, s) = after[len]
  BY DEF AddAll, Added
<1>7. PICK f : f = after
  OBVIOUS
<1> HIDE DEF after
<1>8. f = Loop(f, len)
  BY <1>5, <1>7
<1>9. f[0] = {m}
  BY <1>8
<1>10. ASSUME NEW i \in 1..len PROVE f[i] = Added(f[i - 1], s[i])
  <2>1. i \in 0..len /\ i # 0
    OBVIOUS
  <2> QED
    BY <1>8, <2>1
<1>11. AddAll(m, s) = f[len]
  BY <1>6, <1>7
<1> HIDE DEF Loop, Runs, stuck
<1>12. AddRun(f, m, s, len)
  BY <1>9, <1>10 DEF AddRun
<1> QED
  BY <1>11, <1>12

(* Adding elements one after the other keeps the lists.                    *)
LEMMA AddAllHolds ==
  ASSUME NEW m, NEW L, NEW P, Holds(m, L, P),
         NEW s \in Seq([queue : Queues, info : Items, priority : Priorities]),
         NEW n \in AddAll(m, s)
  PROVE  \E K : Holds(n, K, P)
<1>1. PICK len \in Nat : len = Len(s)
  BY LenProperties
<1>2. PICK f : AddAll(m, s) = f[len] /\ AddRun(f, m, s, len)
  BY <1>1, AddAllIs
<1> DEFINE Fine(i) == \A x \in f[i] : \E K : Holds(x, K, P)
           bad == {i \in 0..len : ~Fine(i)}
<1>3. Fine(0)
  BY <1>2 DEF AddRun
<1>4. ASSUME NEW i \in 1..len, Fine(i - 1) PROVE Fine(i)
  <2> SUFFICES ASSUME NEW x \in f[i] PROVE \E K : Holds(x, K, P)
    OBVIOUS
  <2>1. PICK e : e = s[i]
    OBVIOUS
  <2>2. e.queue \in Queues /\ e.info \in Items /\ e.priority \in Priorities
    <3>1. s[i] \in [queue : Queues, info : Items, priority : Priorities]
      BY <1>1, ElementOfSeq
    <3> QED
      BY <2>1, <3>1
  <2>3. x \in Added(f[i - 1], e)
    BY <1>2, <2>1 DEF AddRun
  <2>4. PICK y \in f[i - 1] : x = AddToQueue(y, e.queue, e.info, e.priority)
    BY <2>3 DEF Added
  <2>5. PICK K : Holds(y, K, P)
    BY <1>4, <2>4
  <2> QED
    BY <2>2, <2>4, <2>5, AddHolds
<1>5. bad = {}
  <2> SUFFICES ASSUME bad # {} PROVE FALSE
    OBVIOUS
  <2> HIDE DEF Fine
  <2>1. bad \in SUBSET Nat
    OBVIOUS
  <2>2. PICK i \in bad : \A j \in bad : i <= j
    BY <2>1, LeastExists
  <2>3. i # 0 /\ i - 1 \in 0..len /\ i - 1 \notin bad
    BY <1>3, <2>2
  <2> QED
    BY <1>4, <2>2, <2>3
<1>6. Fine(len)
  <2> HIDE DEF Fine
  <2> QED
    BY <1>5
<1> QED
  BY <1>2, <1>6

(* merge_queues().                                                         *)
LEMMA MergeHolds ==
  ASSUME NEW m, NEW L, NEW P, Holds(m, L, P), NEW q1 \in Queues, NEW q2 \in Queues,
         NEW n \in MergeQueues(m, q1, q2)
  PROVE  \E K : Holds(n, K, P)
<1>1. PICK l : l = L[q2]
  OBVIOUS
<1>2. PICK len \in Nat : len = Len(l)
  BY <1>1, OneList
<1>3. /\ List(m, q2) = l /\ DOMAIN l = 1..len
      /\ \A i \in 1..len : m.heap[l[i]] \in Node
  BY <1>1, <1>2, OneList
<1> DEFINE s == [i \in 1..len |-> [queue |-> q1, info |-> m.heap[l[i]].info,
                                   priority |-> m.heap[l[i]].priority]]
<1>4. s \in Seq([queue : Queues, info : Items, priority : Priorities])
  <2> DEFINE R == [queue : Queues, info : Items, priority : Priorities]
  <2>1. \A i \in 1..len : s[i] \in R
    BY <1>3 DEF Node
  <2>2. s = [i \in 1..len |-> s[i]]
    OBVIOUS
  <2> HIDE DEF s, R
  <2>3. s \in [1..len -> R]
    BY <2>1, <2>2, Zenon
  <2>4. s \in Seq(R)
    BY <2>3, SeqDef
  <2> QED
    BY <2>4 DEF R
<1>5. PICK x \in AddAll(m, s) : n = Rewind(x, q1)
  BY <1>3 DEF MergeQueues
<1> HIDE DEF s
<1>6. PICK K : Holds(x, K, P)
  BY <1>4, <1>5, AddAllHolds
<1>7. Holds(n, K, P)
  <2>1. Holds(n, K, P \cup {q1})
    BY <1>5, <1>6, RewindHolds
  <2> QED
    BY <2>1, Fewer
<1> QED
  BY <1>7

(* A clone of a node goes to the end of the list.                          *)
LEMMA AppendIs ==
  ASSUME NEW m, NEW L, NEW P, Holds(m, L, P), NEW q \in Queues, NEW node \in Node,
         Below(m, L[q], node.priority), Unused(m.heap) # {}
  PROVE  \E a, e : /\ Gains(m, L, P, q, node.info, node.priority,
                            Append1(m, q, node), Len(L[q]), a, e)
                   /\ Below(Append1(m, q, node), Grown(L[q], Len(L[q]), a), node.priority)
<1>0. m \in Memories
  BY DEF Holds
<1>1. PICK a \in Addr \ DOMAIN m.heap : a = Malloc(m.heap)
  BY MallocIs
<1>2. PICK l \in Seq(Addr) : l = L[q]
  BY DEF Holds
<1>3. PICK k \in Nat : k = Len(l)
  BY LenProperties
<1>4. /\ List(m, q) = l /\ m.queue[q].queuelength = k
      /\ \A i \in 1..k : l[i] \in DOMAIN m.heap /\ m.heap[l[i]] \in Node
  BY <1>2, <1>3, OneList
<1>5. (l = <<>> <=> k = 0) /\ Last(l) = l[k] /\ After(l, k) = NULL
  <2>1. l = <<>> <=> k = 0
    BY <1>3, EmptySeq
  <2> QED
    BY <1>3, <2>1 DEF Last, After
<1>6. PICK e \in Node : e = [node EXCEPT !.next = NULL]
  <2>1. NULL \in 0..MaxNodes
    BY QueueAssumption DEF NULL
  <2> QED
    BY <2>1 DEF Node
<1>7. e.next = NULL /\ e.priority = node.priority /\ e.info = node.info
  BY <1>6 DEF Node
<1> DEFINE linked == Linked(m, l, k, a, e)
           u == IF k = 0 THEN a ELSE m.queue[q].queue
           n == Changed(m, q, linked, u, Len(l) + 1)
           g == Grown(l, k, a)
<1>8. Append1(m, q, node) = n
  <2>1. n = [m EXCEPT !.heap = linked, !.queue[q].queue = IF k = 0 THEN a ELSE @,
                      !.queue[q].queuelength = @ + 1]
    <3> HIDE DEF linked
    <3> QED
      BY <1>0, <1>3, <1>4 DEF Changed, Memories, QueueRecs
  <2>2. linked = Put(IF k = 0 THEN m.heap ELSE [m.heap EXCEPT ![l[k]].next = a], a, e)
    BY DEF Linked
  <2> HIDE DEF n, linked
  <2> QED
    BY <1>1, <1>4, <1>5, <1>6, <2>1, <2>2 DEF Append1
<1>9. \A i \in 1..Len(l) : IF i <= k THEN m.heap[l[i]].priority <= e.priority
                           ELSE e.priority <= m.heap[l[i]].priority
  BY <1>2, <1>3, <1>7 DEF Below
<1>10. Holds(n, [L EXCEPT ![q] = g], P \ {q}) /\ Below(n, g, node.priority)
  <2>1. k \in 0..Len(L[q]) /\ e.next = After(L[q], k)
    BY <1>2, <1>3, <1>5, <1>7
  <2> HIDE DEF n, linked, u, g
  <2>2. n = Changed(m, q, Linked(m, L[q], k, a, e),
                    IF k = 0 THEN a ELSE m.queue[q].queue, Len(L[q]) + 1)
    BY <1>2 DEF n, linked, u
  <2>3. \A i \in 1..Len(L[q]) : IF i <= k THEN m.heap[L[q][i]].priority <= e.priority
                                ELSE e.priority <= m.heap[L[q][i]].priority
    BY <1>2, <1>9
  <2>4. Below(m, L[q], e.priority)
    BY <1>7
  <2>5. /\ Holds(n, [L EXCEPT ![q] = Grown(L[q], k, a)], P \ {q})
        /\ Below(n, Grown(L[q], k, a), e.priority)
    BY <2>1, <2>2, <2>3, <2>4, LinkHolds
  <2> QED
    BY <1>2, <1>7, <2>5 DEF g
<1>11. n = Chained(m, L[q], q, Len(L[q]), a, e)
  BY <1>2, <1>3 DEF Chained
<1> HIDE DEF n
<1>12. Len(L[q]) \in 0..Len(L[q]) /\ g = Grown(L[q], Len(L[q]), a)
  BY <1>2, <1>3
<1> HIDE DEF g
<1>13. Gains(m, L, P, q, node.info, node.priority, n, Len(L[q]), a, e)
  BY <1>7, <1>10, <1>11, <1>12 DEF Gains
<1> QED
  BY <1>8, <1>10, <1>12, <1>13

(* A clone of a node at the end of a list no node of which is behind it.   *)
LEMMA AppendHolds ==
  ASSUME NEW m, NEW L, NEW P, Holds(m, L, P), NEW q \in Queues, NEW node \in Node,
         Below(m, L[q], node.priority)
  PROVE  \E K : /\ Holds(Append1(m, q, node), K, P \ {q})
                /\ Below(Append1(m, q, node), K[q], node.priority)
<1>0. m \in Memories
  BY DEF Holds
<1>1. CASE Unused(m.heap) = {}
  <2> DEFINE n == [m EXCEPT !.failed = TRUE]
  <2>1. Holds(n, L, P) /\ n.heap = m.heap
    BY <1>0, FailureHolds DEF Memories
  <2>2. Append1(m, q, node) = n
    BY <1>1 DEF Append1
  <2> HIDE DEF n
  <2>3. Holds(n, L, P \ {q}) /\ Below(n, L[q], node.priority)
    BY <2>1, Fewer DEF Below
  <2> QED
    BY <2>2, <2>3
<1>2. CASE Unused(m.heap) # {}
  <2>1. PICK a, e : /\ Gains(m, L, P, q, node.info, node.priority,
                             Append1(m, q, node), Len(L[q]), a, e)
                    /\ Below(Append1(m, q, node), Grown(L[q], Len(L[q]), a), node.priority)
    BY <1>2, AppendIs
  <2> DEFINE g == Grown(L[q], Len(L[q]), a)
             K == [L EXCEPT ![q] = g]
  <2>2. Holds(Append1(m, q, node), K, P \ {q})
    BY <2>1 DEF Gains
  <2>3. K[q] = g
    BY DEF Holds
  <2> HIDE DEF K
  <2> QED
    BY <2>1, <2>2, <2>3
<1> QED
  BY <1>1, <1>2

Cloned(S, q, node) == {Append1(n, q, node) : n \in S}

CloneRun(f, m, q, s, len) ==
  f[0] = {m} /\ \A i \in 1..len : f[i] = Cloned(f[i - 1], q, s[i])

(* The loop of copy_queue() has its memories before and after each step.   *)
LEMMA CloneIs ==
  ASSUME NEW m, NEW q, NEW s, NEW len \in Nat, len = Len(s)
  PROVE  \E f : Clone(m, q, s) = f[len] /\ CloneRun(f, m, q, s, len)
<1> DEFINE Loop(g, k) == [i \in 0..k |-> IF i = 0 THEN {m} ELSE Cloned(g[i - 1], q, s[i])]
           Runs(k) == \E g : g = Loop(g, k)
           stuck == {k \in 0..len : ~Runs(k)}
<1>1. Runs(0)
  <2> DEFINE g == [i \in 0..0 |-> {m}]
  <2>1. g = Loop(g, 0)
    OBVIOUS
  <2> QED
    BY <2>1
<1>2. ASSUME NEW k \in 1..len, Runs(k - 1) PROVE Runs(k)
  <2>1. PICK g : g = Loop(g, k - 1)
    BY <1>2
  <2> DEFINE w == [i \in 0..k |-> IF i < k THEN g[i] ELSE Cloned(g[k - 1], q, s[k])]
  <2>2. ASSUME NEW i \in 0..k
        PROVE  w[i] = IF i = 0 THEN {m} ELSE Cloned(w[i - 1], q, s[i])
    <3>1. CASE i = 0
      <4>1. w[0] = g[0] /\ 0 \in 0..(k - 1)
        OBVIOUS
      <4>2. g[0] = {m}
        BY <2>1, <4>1
      <4> QED
        BY <3>1, <4>1, <4>2
    <3>2. CASE i # 0 /\ i < k
      <4>1. w[i] = g[i] /\ w[i - 1] = g[i - 1] /\ i \in 0..(k - 1)
        BY <3>2
      <4>2. g[i] = Cloned(g[i - 1], q, s[i])
        BY <2>1, <3>2, <4>1
      <4> HIDE DEF w
      <4> QED
        BY <3>2, <4>1, <4>2
    <3>3. CASE i = k
      <4>1. w[k] = Cloned(g[k - 1], q, s[k]) /\ w[k - 1] = g[k - 1] /\ k # 0
        OBVIOUS
      <4> HIDE DEF w
      <4> QED
        BY <3>3, <4>1
    <3> QED
      BY <3>1, <3>2, <3>3
  <2>3. w = [i \in 0..k |-> w[i]]
    OBVIOUS
  <2> HIDE DEF w
  <2>4. w = Loop(w, k)
    BY <2>2, <2>3
  <2> HIDE DEF Loop
  <2> QED
    BY <2>4
<1>3. stuck = {}
  <2> SUFFICES ASSUME stuck # {} PROVE FALSE
    OBVIOUS
  <2> HIDE DEF Runs
  <2>1. stuck \in SUBSET Nat
    OBVIOUS
  <2>2. PICK k \in stuck : \A j \in stuck : k <= j
    BY <2>1, LeastExists
  <2>3. k # 0 /\ k - 1 \in 0..len /\ k - 1 \notin stuck
    BY <1>1, <2>2
  <2> QED
    BY <1>2, <2>2, <2>3
<1>4. \E g : g = Loop(g, len)
  <2>1. Runs(len)
    <3> HIDE DEF Runs
    <3> QED
      BY <1>3
  <2> HIDE DEF Loop
  <2> QED
    BY <2>1
<1> DEFINE after == CHOOSE g : g = Loop(g, len)
<1>5. after = Loop(after, len)
  <2> HIDE DEF Loop
  <2> QED
    BY <1>4
<1>6. Clone(m, q, s) = after[len]
  BY DEF Clone, Cloned
<1>7. PICK f : f = after
  OBVIOUS
<1> HIDE DEF after
<1>8. f = Loop(f, len)
  BY <1>5, <1>7
<1>9. f[0] = {m}
  BY <1>8
<1>10. ASSUME NEW i \in 1..len PROVE f[i] = Cloned(f[i - 1], q, s[i])
  <2>1. i \in 0..len /\ i # 0
    OBVIOUS
  <2> QED
    BY <1>8, <2>1
<1>11. Clone(m, q, s) = f[len]
  BY <1>6, <1>7
<1> HIDE DEF Loop, Runs, stuck
<1>12. CloneRun(f, m, q, s, len)
  BY <1>9, <1>10 DEF CloneRun
<1> QED
  BY <1>11, <1>12

(* A list in order that is cloned behind an empty one keeps the lists.     *)
LEMMA CloneHolds ==
  ASSUME NEW m, NEW L, NEW P, Holds(m, L, P), NEW q \in Queues, L[q] = <<>>,
         NEW s \in Seq(Node),
         \A i, j \in 1..Len(s) : i < j => s[i].priority <= s[j].priority,
         NEW n \in Clone(m, q, s)
  PROVE  \E K : Holds(n, K, P \ {q})
<1>1. PICK len \in Nat : len = Len(s)
  BY LenProperties
<1>2. PICK f : Clone(m, q, s) = f[len] /\ CloneRun(f, m, q, s, len)
  BY <1>1, CloneIs
<1> DEFINE Sound(x, i) ==
             \E K : /\ Holds(x, K, P \ {q})
                    /\ IF i = 0 THEN K[q] = <<>> ELSE Below(x, K[q], s[i].priority)
           Fine(i) == \A x \in f[i] : Sound(x, i)
           bad == {i \in 0..len : ~Fine(i)}
<1>3. Fine(0)
  <2>1. Holds(m, L, P \ {q})
    BY Fewer
  <2> QED
    BY <1>2, <2>1 DEF CloneRun
<1>4. ASSUME NEW i \in 1..len, Fine(i - 1) PROVE Fine(i)
  <2> SUFFICES ASSUME NEW x \in f[i] PROVE Sound(x, i)
    OBVIOUS
  <2>1. PICK e \in Node : e = s[i]
    BY <1>1, ElementOfSeq
  <2>2. x \in Cloned(f[i - 1], q, e)
    BY <1>2, <2>1 DEF CloneRun
  <2>3. PICK y \in f[i - 1] : x = Append1(y, q, e)
    BY <2>2 DEF Cloned
  <2>4. PICK K : /\ Holds(y, K, P \ {q})
                 /\ IF i - 1 = 0 THEN K[q] = <<>> ELSE Below(y, K[q], s[i - 1].priority)
    BY <1>4, <2>3
  <2>5. Below(y, K[q], e.priority)
    <3>1. CASE i = 1
      <4>1. Len(K[q]) = 0 /\ 1..0 = {}
        BY <2>4, <3>1
      <4> QED
        BY <4>1 DEF Below
    <3>2. CASE i # 1
      <4>1. i - 1 \in 1..len /\ i - 1 < i
        BY <3>2
      <4>2. s[i - 1].priority <= e.priority
        BY <1>1, <2>1, <4>1
      <4>3. s[i - 1].priority \in Int /\ e.priority \in Int
        <5>1. s[i - 1] \in Node
          BY <1>1, <4>1, ElementOfSeq
        <5> QED
          BY <5>1, QueueAssumption DEF Node
      <4>4. \A j \in 1..Len(K[q]) : y.heap[K[q][j]].priority \in Int
        <5>1. \A j \in 1..Len(K[q]) : y.heap[K[q][j]] \in Node
          BY <2>4, OneList
        <5> QED
          BY <5>1, QueueAssumption DEF Node
      <4>5. Below(y, K[q], s[i - 1].priority)
        BY <2>4, <3>2
      <4> QED
        BY <4>2, <4>3, <4>4, <4>5 DEF Below
    <3> QED
      BY <3>1, <3>2
  <2>6. PICK J : Holds(x, J, (P \ {q}) \ {q}) /\ Below(x, J[q], e.priority)
    BY <2>3, <2>4, <2>5, AppendHolds
  <2>7. (P \ {q}) \ {q} = P \ {q}
    OBVIOUS
  <2>8. Holds(x, J, P \ {q}) /\ Below(x, J[q], s[i].priority)
    BY <2>1, <2>6, <2>7
  <2> QED
    BY <2>8
<1> HIDE DEF Sound
<1>5. bad = {}
  <2> SUFFICES ASSUME bad # {} PROVE FALSE
    OBVIOUS
  <2> HIDE DEF Fine
  <2>1. bad \in SUBSET Nat
    OBVIOUS
  <2>2. PICK i \in bad : \A j \in bad : i <= j
    BY <2>1, LeastExists
  <2>3. i # 0 /\ i - 1 \in 0..len /\ i - 1 \notin bad
    BY <1>3, <2>2
  <2> QED
    BY <1>4, <2>2, <2>3
<1>6. Fine(len)
  <2> HIDE DEF Fine
  <2> QED
    BY <1>5
<1>7. Sound(n, len)
  BY <1>2, <1>6
<1> QED
  BY <1>7 DEF Sound

(* copy_queue() empties its queue first.                                   *)
Emptied(m, q, d) == [DestroyQueue(m, q) EXCEPT !.queue[q].queuelength = 0,
                                               !.queue[q].duplicates = d]

(* n is o, but for the count and the duplicates of q.                      *)
OnlyMarked(n, o, q, d) ==
  /\ n.heap = o.heap /\ n.failed = o.failed /\ n.queue[q].duplicates = d
  /\ \A r \in Queues \ {q} : n.queue[r] = o.queue[r]

(* The other queues keep what they have.                                   *)
LEMMA EmptiedHolds ==
  ASSUME NEW m, NEW L, NEW P, Holds(m, L, P), NEW q \in Queues, NEW d \in BOOLEAN,
         NEW n, n = Emptied(m, q, d)
  PROVE  /\ Holds(n, [L EXCEPT ![q] = <<>>], P \cup {q})
         /\ OnlyMarked(n, DestroyQueue(m, q), q, d)
<1> DEFINE emptied == DestroyQueue(m, q)
           E == [L EXCEPT ![q] = <<>>]
<1>1. Holds(emptied, E, P \cup {q})
  BY DestroyHolds
<1>2. E[q] = <<>>
  BY DEF Holds
<1>3. n = [emptied EXCEPT !.queue[q].queuelength = 0, !.queue[q].duplicates = d]
  BY DEF Emptied
<1> HIDE DEF emptied, E
<1>4. emptied \in Memories /\ emptied.queue[q].queuelength = 0 /\ P \cup {q} \subseteq Queues
  <2>1. emptied.queue[q].queuelength = Len(E[q])
    BY <1>1, OneList
  <2> QED
    BY <1>1, <1>2, <2>1 DEF Holds
<1>5. /\ n \in Memories /\ n.heap = emptied.heap /\ n.failed = emptied.failed
      /\ n.queue[q].duplicates = d
      /\ \A r \in Queues \ {q} : n.queue[r] = emptied.queue[r]
      /\ \A r \in Queues : /\ n.queue[r].queue = emptied.queue[r].queue
                           /\ n.queue[r].queuelength = emptied.queue[r].queuelength
                           /\ n.queue[r].current = emptied.queue[r].current
                           /\ n.queue[r].previous = emptied.queue[r].previous
  <2> DEFINE r == [emptied.queue[q] EXCEPT !.queuelength = 0, !.duplicates = d]
             Q == [emptied.queue EXCEPT ![q] = r]
  <2>1. emptied.queue \in [Queues -> QueueRecs] /\ emptied.queue[q] \in QueueRecs
    BY <1>4 DEF Memories
  <2>2. /\ r \in QueueRecs /\ r.queuelength = emptied.queue[q].queuelength
        /\ r.queue = emptied.queue[q].queue /\ r.current = emptied.queue[q].current
        /\ r.previous = emptied.queue[q].previous /\ r.duplicates = d
    BY <1>4, <2>1 DEF QueueRecs
  <2>3. n = [emptied EXCEPT !.queue = Q]
    BY <1>3, <1>4 DEF Memories
  <2> HIDE DEF r
  <2>4. Q \in [Queues -> QueueRecs] /\ Q[q] = r /\ \A t \in Queues \ {q} : Q[t] = emptied.queue[t]
    BY <2>1, <2>2
  <2> HIDE DEF Q
  <2>5. n \in Memories /\ n.heap = emptied.heap /\ n.queue = Q /\ n.failed = emptied.failed
    BY <1>4, <2>3, <2>4 DEF Memories
  <2> QED
    BY <2>2, <2>4, <2>5
<1>6. Holds(n, E, P \cup {q})
  <2>1. \A r \in P \cup {q} : Standing(n.queue[r], E[r])
    <3>1. \A r \in P \cup {q} : Standing(emptied.queue[r], E[r]) /\ r \in Queues
      BY <1>1 DEF Holds
    <3> QED
      BY <1>5, <3>1 DEF Standing
  <2> QED
    BY <1>1, <1>4, <1>5, <2>1, ListsStay
<1> QED
  BY <1>5, <1>6 DEF OnlyMarked, emptied, E

(* copy_queue() clones the nodes s of another queue.                       *)
Copying(m, L, q1, q2, d, s, n) ==
  /\ \E x \in Clone(Emptied(m, q1, d), q1, s) : n = Rewind(x, q1)
  /\ d = m.queue[q2].duplicates /\ d \in BOOLEAN
  /\ s \in Seq(Node) /\ Len(s) = Len(L[q2])
  /\ \A i, j \in 1..Len(s) : i < j => s[i].priority <= s[j].priority

(* Every outcome of it is such a clone, rewound.                           *)
LEMMA CopyIs ==
  ASSUME NEW m, NEW L, NEW P, Holds(m, L, P), NEW q1 \in Queues, NEW q2 \in Queues,
         NEW s, s = [i \in 1..Len(L[q2]) |-> m.heap[L[q2][i]]],
         NEW n \in CopyQueue(m, q1, q2)
  PROVE  \E d : Copying(m, L, q1, q2, d, s, n)
<1>1. PICK l : l = L[q2]
  OBVIOUS
<1>2. PICK len \in Nat : len = Len(l)
  BY <1>1, OneList
<1>3. /\ List(m, q2) = l /\ DOMAIN l = 1..len
      /\ \A i \in 1..len : m.heap[l[i]] \in Node
      /\ m.queue[q2].duplicates \in BOOLEAN
  BY <1>1, <1>2, OneList DEF QueueRecs
<1>4. /\ s \in Seq(Node) /\ Len(s) = len
      /\ \A i, j \in 1..Len(s) : i < j => s[i].priority <= s[j].priority
  <2>1. s \in [1..len -> Node] /\ DOMAIN s = 1..len
    BY <1>1, <1>2, <1>3
  <2>2. s \in Seq(Node)
    BY <2>1, SeqDef
  <2>3. Len(s) = len
    BY <2>1, <2>2, LenProperties
  <2>4. \A i, j \in 1..len : i < j => m.heap[l[i]].priority <= m.heap[l[j]].priority
    BY <1>1, <1>2 DEF Holds, Chain
  <2>5. \A i \in 1..len : s[i] = m.heap[l[i]]
    BY <1>1, <1>2
  <2> QED
    BY <2>2, <2>3, <2>4, <2>5
<1>5. \E x \in Clone(Emptied(m, q1, m.queue[q2].duplicates), q1, s) : n = Rewind(x, q1)
  BY <1>1, <1>2, <1>3 DEF CopyQueue, Emptied
<1>6. PICK d \in BOOLEAN : d = m.queue[q2].duplicates
  BY <1>3
<1>7. \E x \in Clone(Emptied(m, q1, d), q1, s) : n = Rewind(x, q1)
  BY <1>5, <1>6, Zenon
<1> QED
  BY <1>1, <1>2, <1>4, <1>6, <1>7 DEF Copying

(* copy_queue() keeps the lists.                                           *)
LEMMA CopyHolds ==
  ASSUME NEW m, NEW L, NEW P, Holds(m, L, P), NEW q1 \in Queues, NEW q2 \in Queues,
         NEW n \in CopyQueue(m, q1, q2)
  PROVE  \E K : Holds(n, K, P)
<1>1. PICK s : s = [i \in 1..Len(L[q2]) |-> m.heap[L[q2][i]]]
  OBVIOUS
<1>2. PICK d : Copying(m, L, q1, q2, d, s, n)
  BY <1>1, CopyIs
<1>3. /\ \E x \in Clone(Emptied(m, q1, d), q1, s) : n = Rewind(x, q1)
      /\ d \in BOOLEAN /\ s \in Seq(Node)
      /\ \A i, j \in 1..Len(s) : i < j => s[i].priority <= s[j].priority
  BY <1>2 DEF Copying
<1>4. PICK clone : clone = Emptied(m, q1, d)
  OBVIOUS
<1> DEFINE E == [L EXCEPT ![q1] = <<>>]
<1>5. E[q1] = <<>>
  BY DEF Holds
<1>6. Holds(clone, E, P \cup {q1})
  BY <1>3, <1>4, EmptiedHolds
<1> HIDE DEF E
<1>7. PICK x \in Clone(clone, q1, s) : n = Rewind(x, q1)
  BY <1>3, <1>4
<1>8. PICK K : Holds(x, K, (P \cup {q1}) \ {q1})
  BY <1>3, <1>5, <1>6, CloneHolds
<1>9. Holds(n, K, ((P \cup {q1}) \ {q1}) \cup {q1})
  BY <1>7, <1>8, RewindHolds
<1>10. Holds(n, K, P)
  BY <1>9, Fewer
<1> QED
  BY <1>10

(* delete_current(): the node behind the deleted one is the position.      *)
LEMMA DeleteHolds ==
  ASSUME NEW m, NEW L, NEW P, Holds(m, L, P), NEW q \in Queues, NEW j \in 1..Len(L[q]),
         m.queue[q].current = L[q][j],
         m.queue[q].previous = IF j = 1 THEN NULL ELSE L[q][j - 1]
  PROVE  \E K : Holds(DeleteCurrent(m, q), K, P \cup {q})
<1>1. PICK l : l = L[q]
  OBVIOUS
<1>2. PICK len \in Nat : len = Len(l)
  BY <1>1, OneList
<1>3. /\ m \in Memories /\ l \in Seq(Addr) /\ m.queue[q] \in QueueRecs /\ j \in 1..len
      /\ L \in [Queues -> Seq(Addr)]
      /\ \A i, k \in 1..len : l[i] = l[k] => i = k
      /\ \A i \in 1..len : l[i] \in Addr /\ m.heap[l[i]].next = After(l, i)
  BY <1>1, <1>2, OneList DEF Holds, Chain, IsList, Memories
<1> DEFINE p == m.queue[q].previous
           c == m.heap[l[j]].next
           n == Unlink(m, q, p, l[j])
           k == Cut(l, j)
           K == [L EXCEPT ![q] = k]
           r == [n.queue[q] EXCEPT !.current = c, !.previous = p]
<1>4. Holds(n, K, P \ {q})
  BY <1>1, UnlinkHolds
<1>5. n.queue[q].previous = p /\ K[q] = k
  BY <1>3 DEF Unlink, Memories, QueueRecs
<1>6. /\ Len(k) = len - 1
      /\ \A i \in 1..(len - 1) : k[i] = IF i < j THEN l[i] ELSE l[i + 1]
  <2>1. /\ Len(k) = Len(l) - 1
        /\ \A i \in 1..(Len(l) - 1) : k[i] = IF i < j THEN l[i] ELSE l[i + 1]
    <3>1. l \in Seq(Addr) /\ j \in 1..Len(l) /\ \A i, h \in 1..Len(l) : l[i] = l[h] => i = h
      BY <1>2, <1>3, Zenon
    <3> HIDE DEF n, K, c, p, r
    <3> QED
      BY <3>1, CutIs
  <2> HIDE DEF k
  <2> QED
    BY <1>2, <2>1
<1>7. c = (IF j < len THEN l[j + 1] ELSE NULL) /\ p = IF j = 1 THEN NULL ELSE l[j - 1]
  BY <1>1, <1>2, <1>3 DEF After
<1>8. c \in 0..MaxNodes /\ p \in 0..MaxNodes
  <2>1. (j < len => j + 1 \in 1..len) /\ (j # 1 => j - 1 \in 1..len)
    BY <1>3
  <2> QED
    <3>1. NULL \in 0..MaxNodes /\ \A a \in Addr : a \in 0..MaxNodes
      BY QueueAssumption DEF Addr, NULL
    <3> HIDE DEF c, p
    <3> QED
      BY <1>3, <1>7, <2>1, <3>1, Zenon
<1> HIDE DEF n, K, k, c, p
<1>9. n \in Memories /\ n.queue[q] \in QueueRecs
  BY <1>4, OneList DEF Holds
<1>10. r.current = c /\ r.previous = p
  BY <1>9 DEF QueueRecs
<1> HIDE DEF r
<1>11. Standing(r, k)
  <2>1. CASE j < len
    <3>1. j \in 1..Len(k) /\ k[j] = l[j + 1]
      BY <1>3, <1>6, <2>1
    <3>2. j # 1 => k[j - 1] = l[j - 1]
      BY <1>3, <1>6, <2>1
    <3> QED
      BY <1>7, <1>10, <2>1, <3>1, <3>2 DEF Standing
  <2>2. CASE ~(j < len)
    BY <1>7, <1>10, <2>2 DEF Standing
  <2> QED
    BY <2>1, <2>2
<1>12. Holds([n EXCEPT !.queue[q].current = c, !.queue[q].previous = p], K, (P \ {q}) \cup {q})
  BY <1>4, <1>5, <1>8, <1>11, PositionMoves DEF r
<1>13. DeleteCurrent(m, q) = [n EXCEPT !.queue[q].current = c, !.queue[q].previous = p]
  <2>1. DeleteCurrent(m, q) = [n EXCEPT !.queue[q].current = c]
    BY <1>1 DEF DeleteCurrent, n, c, p
  <2> QED
    BY <1>5, <1>9, <2>1 DEF Memories, QueueRecs
<1>14. (P \ {q}) \cup {q} = P \cup {q}
  OBVIOUS
<1> QED
  BY <1>12, <1>13, <1>14

-----------------------------------------------------------------------------
(***************************************************************************)
(* The invariant.  A Context is never given up, and while there is one no  *)
(* position of a queue is safe; the lists always are.  A thread in a call  *)
(* on two queues has two queues.  What a queue passes through are heads,   *)
(* lengths and ends.                                                       *)
(***************************************************************************)
NoContext == \A t \in Threads : ctx[t].queue = NoQueue
Safe      == IF NoContext THEN Queues ELSE {}

MemoryOK == \E L : Holds(Memory, L, Safe)
HaltedOK == NoContext => halted # "stray"
Contexts == [queue : Queues \cup {NoQueue}, current : 0..MaxNodes, previous : 0..MaxNodes]
CtxOK    == ctx \in [Threads -> Contexts]
InCall   == [fn : {"copy", "merge", "equal"}, q1 : Queues, q2 : Queues,
             at : {"global", "first", "second", "body"}]
CallOK   == call \in [Threads -> InCall \cup {Idle}]
Ways     == [heads : SUBSET (0..MaxNodes), lengths : SUBSET Nat, ends : SUBSET BOOLEAN]
PassedOK == passed \in [Queues -> Ways]

WorkOK == MemoryOK /\ HaltedOK /\ CtxOK
Inv    == WorkOK /\ CallOK

(* What is in memory does not depend on what was not.                      *)
LEMMA MemoryIs ==
  ASSUME NEW m, NEW L, NEW P, Holds(m, L, P)
  PROVE  Holds([heap |-> m.heap, queue |-> m.queue, failed |-> FALSE], L, P)
<1> DEFINE n == [heap |-> m.heap, queue |-> m.queue, failed |-> FALSE]
<1>1. n \in Memories /\ n.heap = m.heap /\ n.queue = m.queue
  BY DEF Holds, Memories
<1> HIDE DEF n
<1>2. \A q \in P : q \in Queues /\ Standing(n.queue[q], L[q])
  BY <1>1 DEF Holds
<1>3. Holds(n, L, P)
  BY <1>1, <1>2, ListsStay
<1> QED
  BY <1>3 DEF n

(* InList() by the lists in memory.                                        *)
LEMMA InListIs ==
  ASSUME NEW L, NEW P, Holds(Memory, L, P), NEW q \in Queues, NEW c
  PROVE  InList(q, c) <=> c \in NodesOf(L[q])
<1>1. List(Memory, q) = L[q] /\ DOMAIN L[q] = 1..Len(L[q])
  BY OneList
<1> QED
  BY <1>1 DEF InList, ToSet, NodesOf

(* The node before node j.                                                 *)
Before(l, j) == IF j = 1 THEN NULL ELSE l[j - 1]

(* A position with the node before it is that of a node of the list.       *)
LEMMA AdjacentIs ==
  ASSUME NEW L, NEW P, Holds(Memory, L, P), NEW q \in Queues,
         NEW p, NEW c, c # NULL, Adjacent(q, p, c)
  PROVE  \E j \in 1..Len(L[q]) : c = L[q][j] /\ p = Before(L[q], j)
<1>0. Memory.queue = queue /\ Memory.heap = heap
  BY DEF Memory
<1>1. /\ Len(L[q]) \in Nat /\ queue[q].queue = After(L[q], 0)
      /\ \A i \in 1..Len(L[q]) : heap[L[q][i]].next = After(L[q], i)
  BY <1>0, OneList
<1>2. CASE p = NULL
  <2>1. 1 \in 1..Len(L[q]) /\ c = L[q][1]
    BY <1>1, <1>2 DEF Adjacent, After
  <2> QED
    BY <1>2, <2>1 DEF Before
<1>3. CASE p # NULL
  <2>1. InList(q, p) /\ heap[p].next = c
    BY <1>3 DEF Adjacent
  <2>2. PICK i \in 1..Len(L[q]) : p = L[q][i]
    BY <2>1, InListIs DEF NodesOf
  <2>3. c = After(L[q], i)
    BY <1>1, <2>1, <2>2
  <2>4. i + 1 \in 1..Len(L[q]) /\ c = L[q][i + 1] /\ i + 1 # 1 /\ (i + 1) - 1 = i
    BY <1>1, <2>3 DEF After
  <2> QED
    BY <2>2, <2>4 DEF Before
<1> QED
  BY <1>2, <1>3

(* While no thread has a Context, a queue's position is in its list.       *)
LEMMA PositionSafe ==
  ASSUME MemoryOK, NoContext, NEW q \in Queues, queue[q].current # NULL
  PROVE  /\ InList(q, queue[q].current)
         /\ Adjacent(q, queue[q].previous, queue[q].current)
<1>1. PICK L : Holds(Memory, L, Queues)
  BY DEF MemoryOK, Safe
<1>2. Memory.queue = queue /\ Memory.heap = heap
  BY DEF Memory
<1>3. Standing(queue[q], L[q])
  BY <1>1, <1>2 DEF Holds
<1>4. PICK i \in 1..Len(L[q]) : /\ queue[q].current = L[q][i]
                                /\ queue[q].previous = IF i = 1 THEN NULL ELSE L[q][i - 1]
  BY <1>3 DEF Standing
<1>5. /\ Len(L[q]) \in Nat
      /\ \A j \in 1..Len(L[q]) : L[q][j] # NULL /\ heap[L[q][j]].next = After(L[q], j)
      /\ queue[q].queue = After(L[q], 0)
  <2>1. /\ Len(L[q]) \in Nat
        /\ \A j \in 1..Len(L[q]) : L[q][j] \in Addr /\ heap[L[q][j]].next = After(L[q], j)
        /\ queue[q].queue = After(L[q], 0)
    BY <1>1, <1>2, OneList
  <2> QED
    BY <2>1 DEF Addr, NULL
<1>6. InList(q, queue[q].current)
  BY <1>1, <1>4, InListIs DEF NodesOf
<1>7. CASE i = 1
  <2>1. queue[q].previous = NULL /\ queue[q].current = queue[q].queue
    BY <1>4, <1>5, <1>7 DEF After
  <2> QED
    BY <1>6, <2>1 DEF Adjacent
<1>8. CASE i # 1
  <2>1. i - 1 \in 1..Len(L[q]) /\ (i - 1) + 1 = i /\ i - 1 < Len(L[q])
    BY <1>4, <1>5, <1>8
  <2>2. queue[q].previous = L[q][i - 1] /\ queue[q].previous # NULL
    BY <1>4, <1>5, <1>8, <2>1
  <2>3. heap[queue[q].previous].next = queue[q].current
    BY <1>4, <1>5, <2>1, <2>2 DEF After
  <2>4. InList(q, queue[q].previous)
    BY <1>1, <2>1, <2>2, InListIs DEF NodesOf
  <2> QED
    BY <1>6, <2>2, <2>3, <2>4 DEF Adjacent
<1> QED
  BY <1>7, <1>8

(* A call after which memory has sound lists leaves them sound, also when  *)
(* malloc() failed in it.                                                  *)
LEMMA BecomesKeeps ==
  ASSUME NEW P, NEW L, Holds(Memory, L, P), NEW m, NEW K, Holds(m, K, P), Becomes(m)
  PROVE  /\ \E J : Holds(Memory', J, P)
         /\ halted' # "stray"
<1>1. CASE m.failed
  <2>1. heap' = heap /\ queue' = queue /\ halted' = "exit"
    BY <1>1 DEF Becomes
  <2>2. Memory' = Memory
    BY <2>1 DEF Memory
  <2>3. Holds(Memory', L, P)
    BY <2>2
  <2> QED
    BY <2>1, <2>3
<1>2. CASE ~m.failed
  <2>1. heap' = m.heap /\ queue' = m.queue /\ halted' = "no"
    BY <1>2 DEF Becomes
  <2>2. Memory' = [heap |-> m.heap, queue |-> m.queue, failed |-> FALSE]
    BY <2>1 DEF Memory
  <2>3. Holds(Memory', K, P)
    BY <2>2, MemoryIs
  <2> QED
    BY <2>1, <2>3
<1> QED
  BY <1>1, <1>2

(* Such a call keeps the invariant.                                        *)
LEMMA DoesKeeps ==
  ASSUME WorkOK, NEW m, NEW r, Does(m, r), \E K : Holds(m, K, Safe)
  PROVE  WorkOK'
<1>1. PICK P : P = Safe
  OBVIOUS
<1>2. Becomes(m) /\ ctx' = ctx
  BY DEF Does
<1>3. PICK L : Holds(Memory, L, P)
  BY <1>1 DEF WorkOK, MemoryOK
<1>4. PICK K : Holds(m, K, P)
  BY <1>1
<1>5. (\E J : Holds(Memory', J, P)) /\ halted' # "stray"
  BY <1>2, <1>3, <1>4, BecomesKeeps
<1>6. Safe' = P
  BY <1>1, <1>2 DEF Safe, NoContext
<1> QED
  BY <1>2, <1>5, <1>6 DEF WorkOK, MemoryOK, HaltedOK, CtxOK

(* A call that only answers keeps it.                                      *)
LEMMA TellsKeeps ==
  ASSUME WorkOK, NEW r, Tells(r)
  PROVE  WorkOK'
BY DEF WorkOK, MemoryOK, HaltedOK, CtxOK, Tells, Memory, Safe, NoContext

(* A call that ends the run keeps it, if it strays only with a Context.    *)
LEMMA StopsKeeps ==
  ASSUME WorkOK, NEW how, Stops(how), how = "exit" \/ ~NoContext
  PROVE  WorkOK'
BY DEF WorkOK, MemoryOK, HaltedOK, CtxOK, Stops, Memory, Safe, NoContext

(* A position of a thread's own changes: it has a Context.                 *)
LEMMA OwnKeeps ==
  ASSUME WorkOK, NEW t \in Threads, NEW q \in Queues,
         NEW r \in Contexts, r.queue = q, ctx' = [ctx EXCEPT ![t] = r],
         \E L : Holds(Memory', L, {})
  PROVE  WorkOK'
<1>1. CtxOK'
  BY DEF WorkOK, CtxOK
<1>2. ctx'[t].queue = q
  BY DEF WorkOK, CtxOK
<1>3. ~NoContext'
  BY <1>2, QueueAssumption DEF NoContext
<1>4. Safe' = {}
  BY <1>3 DEF Safe
<1>5. MemoryOK' /\ HaltedOK'
  BY <1>3, <1>4 DEF MemoryOK, HaltedOK
<1> QED
  BY <1>1, <1>5 DEF WorkOK

-----------------------------------------------------------------------------
(***************************************************************************)
(* What one thread does.                                                   *)
(***************************************************************************)
(* SECTION 1, and the beginning of a call on two queues.                   *)
LEMMA Section1Keeps ==
  ASSUME Inv, NEW t \in Threads, NEW q \in Queues, Section1(t, q)
  PROVE  Inv'
<1>1. PICK L : Holds(Memory, L, Safe)
  BY DEF Inv, WorkOK, MemoryOK
<1>2. Memory.queue = queue /\ Memory.heap = heap /\ WorkOK
  BY DEF Memory, Inv
<1>3. call' = call => CallOK'
  BY DEF Inv, CallOK
<1>4. ASSUME Destroy(t, q) PROVE WorkOK' /\ call' = call
  <2>1. \E K : Holds(DestroyQueue(Memory, q), K, Safe)
    <3>1. \E K : Holds(DestroyQueue(Memory, q), K, Safe \cup {q})
      BY <1>1, DestroyHolds
    <3> QED
      BY <3>1, Fewer
  <2>2. Does(DestroyQueue(Memory, q), Nothing) /\ call' = call
    BY <1>4 DEF Destroy, Locks, Calls
  <2> QED
    BY <1>2, <2>1, <2>2, DoesKeeps
<1>5. ASSUME RemoveFromFront(t, q) PROVE WorkOK' /\ call' = call
  <2>0. call' = call
    BY <1>5 DEF RemoveFromFront, Locks, Calls
  <2>1. CASE queue[q].queue = NULL
    <3>1. Stops("exit")
      BY <1>5, <2>1 DEF RemoveFromFront
    <3> QED
      BY <1>2, <2>0, <3>1, StopsKeeps
  <2>2. CASE queue[q].queue # NULL
    <3>1. PICK K : Holds(RemoveFront(Memory, q), K, Safe \cup {q})
      BY <1>1, <1>2, <2>2, RemoveFrontHolds
    <3>2. Holds(RemoveFront(Memory, q), K, Safe)
      BY <3>1, Fewer
    <3>3. PICK r : Does(RemoveFront(Memory, q), r)
      BY <1>5, <2>2 DEF RemoveFromFront
    <3> QED
      BY <1>2, <2>0, <3>2, <3>3, DoesKeeps
  <2> QED
    BY <2>1, <2>2
<1>6. ASSUME Empty(t, q) \/ Length(t, q) PROVE WorkOK' /\ call' = call
  <2>1. \E r : Tells(r)
    BY <1>6 DEF Empty, Length
  <2>2. call' = call
    BY <1>6 DEF Empty, Length, Reads, Calls
  <2> QED
    BY <1>2, <2>1, <2>2, TellsKeeps
<1>7. ASSUME NEW x \in Items, Find(t, q, x) PROVE WorkOK' /\ call' = call
  <2>1. \E r : Does(ElementInQueue(Memory, q, x), r)
    BY <1>7 DEF Find
  <2>2. call' = call
    BY <1>7 DEF Find, Locks, Calls
  <2>3. Holds(ElementInQueue(Memory, q, x), L, Safe \cup {q})
    BY <1>1, FindHolds
  <2>4. Holds(ElementInQueue(Memory, q, x), L, Safe)
    BY <2>3, Fewer
  <2> QED
    BY <1>2, <2>1, <2>2, <2>4, DoesKeeps
<1>8. ASSUME NEW x \in Items, NEW p \in Priorities, Add(t, q, x, p)
      PROVE  WorkOK' /\ call' = call
  <2>1. Does(AddToQueue(Memory, q, x, p), Nothing) /\ call' = call
    BY <1>8 DEF Add, Locks, Calls
  <2>2. \E K : Holds(AddToQueue(Memory, q, x, p), K, Safe)
    BY <1>1, AddHolds
  <2> QED
    BY <1>2, <2>1, <2>2, DoesKeeps
<1>9. ASSUME NEW fn \in {"copy", "merge", "equal"}, NEW r \in Queues, Enter(t, fn, q, r)
      PROVE  WorkOK' /\ CallOK'
  <2>1. WorkOK'
    BY <1>2, <1>9 DEF Enter, WorkOK, MemoryOK, HaltedOK, CtxOK, Memory, Safe, NoContext
  <2>2. CallOK'
    <3> DEFINE e == [fn |-> fn, q1 |-> q, q2 |-> r, at |-> "global"]
    <3>1. CallOK /\ call' = [call EXCEPT ![t] = e]
      BY <1>9 DEF Enter, Inv
    <3>2. e \in InCall
      BY DEF InCall
    <3> HIDE DEF e
    <3> QED
      BY <3>1, <3>2 DEF CallOK
  <2> QED
    BY <2>1, <2>2
<1> QED
  BY <1>3, <1>4, <1>5, <1>6, <1>7, <1>8, <1>9 DEF Section1, Inv

(* SECTION 2: what is done at the position of the queue.                   *)
LEMMA Section2Keeps ==
  ASSUME Inv, NEW t \in Threads, NEW q \in Queues, Section2(t, q)
  PROVE  Inv'
<1>1. PICK L : Holds(Memory, L, Safe)
  BY DEF Inv, WorkOK, MemoryOK
<1>2. Memory.queue = queue /\ Memory.heap = heap /\ WorkOK /\ MemoryOK
  BY DEF Memory, Inv, WorkOK
<1>3. call' = call => CallOK'
  BY DEF Inv, CallOK
<1>4. ASSUME RewindQueue(t, q) PROVE WorkOK' /\ call' = call
  <2>1. Does(Rewind(Memory, q), Nothing) /\ call' = call
    BY <1>4 DEF RewindQueue, Locks, Calls
  <2>2. Holds(Rewind(Memory, q), L, Safe \cup {q})
    BY <1>1, RewindHolds
  <2>3. Holds(Rewind(Memory, q), L, Safe)
    BY <2>2, Fewer
  <2> QED
    BY <1>2, <2>1, <2>3, DoesKeeps
<1>5. ASSUME End(t, q) PROVE WorkOK' /\ call' = call
  <2>1. \E r : Tells(r)
    BY <1>5 DEF End
  <2>2. call' = call
    BY <1>5 DEF End, Reads, Calls
  <2> QED
    BY <1>2, <2>1, <2>2, TellsKeeps
<1>6. queue[q].current # NULL /\ NoContext =>
        /\ InList(q, queue[q].current)
        /\ Adjacent(q, queue[q].previous, queue[q].current)
  BY <1>2, PositionSafe
<1>7. InList(q, queue[q].current) <=> queue[q].current \in NodesOf(L[q])
  BY <1>1, InListIs
<1>8. ASSUME Stops("exit") \/ (Stops("stray") /\ ~NoContext) PROVE WorkOK'
  BY <1>2, <1>8, StopsKeeps
<1>9. ASSUME Peek(t, q) PROVE WorkOK' /\ call' = call
  <2>1. call' = call
    BY <1>9 DEF Peek, AtCurrent, Locks, Calls
  <2>2. \/ Stops("exit") \/ (Stops("stray") /\ ~NoContext)
        \/ \E r : Tells(r)
    BY <1>6, <1>9 DEF Peek, AtCurrent
  <2> QED
    BY <1>2, <1>8, <2>1, <2>2, TellsKeeps
<1>10. ASSUME NEW x \in Items, UpdateCurrent(t, q, x) PROVE WorkOK' /\ call' = call
  <2> DEFINE m == [Memory EXCEPT !.heap[queue[q].current].info = x]
  <2>1. call' = call
    BY <1>10 DEF UpdateCurrent, AtCurrent, Locks, Calls
  <2>2. \/ Stops("exit") \/ (Stops("stray") /\ ~NoContext)
        \/ InList(q, queue[q].current) /\ Does(m, <<"updated", 0>>)
    BY <1>6, <1>10 DEF UpdateCurrent, AtCurrent
  <2>3. InList(q, queue[q].current) => Holds(m, L, Safe)
    <3>1. NodesOf(L[q]) \subseteq DOMAIN Memory.heap
      BY <1>1, OneList DEF NodesOf
    <3> QED
      BY <1>1, <1>7, <3>1, UpdateHolds
  <2> HIDE DEF m
  <2> QED
    BY <1>2, <1>8, <2>1, <2>2, <2>3, DoesKeeps
<1>11. ASSUME DeleteAtCurrent(t, q) PROVE WorkOK' /\ call' = call
  <2>1. call' = call
    BY <1>11 DEF DeleteAtCurrent, AtCurrent, Locks, Calls
  <2>2. \/ Stops("exit") \/ (Stops("stray") /\ ~NoContext)
        \/ /\ queue[q].current # NULL
           /\ Adjacent(q, queue[q].previous, queue[q].current)
           /\ Does(DeleteCurrent(Memory, q), Nothing)
    BY <1>6, <1>11 DEF DeleteAtCurrent, AtCurrent
  <2>3. ASSUME queue[q].current # NULL, Adjacent(q, queue[q].previous, queue[q].current)
        PROVE  \E K : Holds(DeleteCurrent(Memory, q), K, Safe)
    <3>1. PICK j \in 1..Len(L[q]) :
            queue[q].current = L[q][j] /\ queue[q].previous = Before(L[q], j)
      BY <1>1, <2>3, AdjacentIs
    <3>2. queue[q].previous = IF j = 1 THEN NULL ELSE L[q][j - 1]
      BY <3>1 DEF Before
    <3>4. PICK K : Holds(DeleteCurrent(Memory, q), K, Safe \cup {q})
      BY <1>1, <1>2, <3>1, <3>2, DeleteHolds
    <3> QED
      BY <3>4, Fewer
  <2> QED
    BY <1>2, <1>8, <2>1, <2>2, <2>3, DoesKeeps
<1>12. ASSUME Next_Element(t, q) PROVE WorkOK' /\ call' = call
  <2>1. call' = call
    BY <1>12 DEF Next_Element, AtCurrent, Locks, Calls
  <2>2. \/ Stops("exit") \/ (Stops("stray") /\ ~NoContext)
        \/ InList(q, queue[q].current) /\ Does(Advance(Memory, q), Nothing)
    BY <1>6, <1>12 DEF Next_Element, AtCurrent
  <2>3. ASSUME InList(q, queue[q].current) PROVE Holds(Advance(Memory, q), L, Safe)
    <3>1. Holds(Advance(Memory, q), L, Safe \cup {q})
      BY <1>1, <1>2, <1>7, <2>3, AdvanceHolds
    <3> QED
      BY <3>1, Fewer
  <2> QED
    BY <1>2, <1>8, <2>1, <2>2, <2>3, DoesKeeps
<1> QED
  BY <1>3, <1>4, <1>5, <1>9, <1>10, <1>11, <1>12 DEF Section2, Inv

(* SECTION 3: what is done at the position of the thread's Context.        *)
LEMMA Section3Keeps ==
  ASSUME Inv, PassedOK, NEW t \in Threads, Section3(t)
  PROVE  Inv'
<1>1. PICK L : Holds(Memory, L, {})
  <2>1. PICK L : Holds(Memory, L, Safe)
    BY DEF Inv, WorkOK, MemoryOK
  <2>2. Holds(Memory, L, {})
    BY <2>1, Fewer
  <2> QED
    BY <2>2
<1>2. Memory.queue = queue /\ Memory.heap = heap /\ WorkOK
  BY DEF Memory, Inv
<1>3. call' = call => CallOK'
  BY DEF Inv, CallOK
<1>4. ctx[t] \in Contexts /\ ctx \in [Threads -> Contexts]
  BY DEF Inv, WorkOK, CtxOK
<1>5. NULL \in 0..MaxNodes
  BY QueueAssumption DEF NULL
<1>6. Own(t) # NoQueue => Own(t) \in Queues /\ ~NoContext
  BY <1>4 DEF Own, NoContext, Contexts
<1>7. \A q \in Queues : queue[q].queue \in 0..MaxNodes
  <2>1. \A q \in Queues : Memory.queue[q] \in QueueRecs
    BY <1>1, OneList
  <2> QED
    BY <1>2, <2>1 DEF QueueRecs
<1>8. \A q \in Queues : \A c \in NodesOf(L[q]) : c \in DOMAIN heap /\ heap[c].next \in 0..MaxNodes
  <2>1. \A q \in Queues : \A i \in 1..Len(L[q]) :
          L[q][i] \in DOMAIN Memory.heap /\ Memory.heap[L[q][i]] \in Node
    BY <1>1, OneList
  <2> QED
    BY <1>2, <2>1 DEF NodesOf, Node
<1>9. heap' = heap /\ queue' = queue => Holds(Memory', L, {})
  BY <1>1 DEF Memory
<1>10. ASSUME Stops("exit") \/ (Stops("stray") /\ Own(t) # NoQueue) PROVE WorkOK'
  BY <1>2, <1>6, <1>10, StopsKeeps
<1>11. ASSUME NEW q \in Queues, LocalInit(t, q) PROVE WorkOK' /\ call' = call
  <2>0. PICK h \in Heads(q) :
          ctx' = [ctx EXCEPT ![t] = [queue |-> q, current |-> h, previous |-> NULL]]
    BY <1>11 DEF LocalInit
  <2> DEFINE r == [queue |-> q, current |-> h, previous |-> NULL]
  <2>1. ctx' = [ctx EXCEPT ![t] = r] /\ heap' = heap /\ queue' = queue /\ call' = call
    BY <1>11, <2>0 DEF LocalInit, Reads, Calls
  <2>2. r \in Contexts /\ r.queue = q
    <3>1. passed[q].heads \subseteq 0..MaxNodes
      BY DEF PassedOK, Ways
    <3>2. h \in 0..MaxNodes
      BY <1>7, <2>0, <3>1 DEF Heads
    <3> QED
      BY <1>5, <3>2 DEF Contexts
  <2> HIDE DEF r
  <2> QED
    BY <1>2, <1>9, <2>1, <2>2, OwnKeeps
<1>12. ASSUME LocalRewind(t) PROVE WorkOK' /\ call' = call
  <2> DEFINE r == [ctx[t] EXCEPT !.current = queue[Own(t)].queue, !.previous = NULL]
  <2>1. /\ Own(t) # NoQueue /\ heap' = heap /\ queue' = queue /\ call' = call
        /\ ctx' = [ctx EXCEPT ![t].current = queue[Own(t)].queue, ![t].previous = NULL]
    BY <1>12 DEF LocalRewind, Locks, Calls
  <2>2. ctx' = [ctx EXCEPT ![t] = r]
    BY <1>4, <2>1
  <2>3. Own(t) \in Queues /\ queue[Own(t)].queue \in 0..MaxNodes
    BY <1>6, <1>7, <2>1
  <2>4. r \in Contexts /\ r.queue = Own(t)
    BY <1>4, <1>5, <2>3 DEF Contexts, Own
  <2> HIDE DEF r
  <2> QED
    BY <1>2, <1>9, <2>1, <2>2, <2>3, <2>4, OwnKeeps
<1>13. ASSUME LocalEnd(t) PROVE WorkOK' /\ call' = call
  <2>1. \E r : Tells(r)
    BY <1>13 DEF LocalEnd
  <2>2. call' = call
    BY <1>13 DEF LocalEnd, Reads, Calls
  <2> QED
    BY <1>2, <2>1, <2>2, TellsKeeps
<1>14. ASSUME LocalPeek(t) PROVE WorkOK' /\ call' = call
  <2>1. call' = call
    BY <1>14 DEF LocalPeek, AtLocal, Locks, Calls
  <2>2. \/ Stops("exit") \/ (Stops("stray") /\ Own(t) # NoQueue)
        \/ \E r : Tells(r)
    BY <1>14 DEF LocalPeek, AtLocal
  <2> QED
    BY <1>2, <1>10, <2>1, <2>2, TellsKeeps
<1>15. ASSUME NEW x \in Items, LocalUpdate(t, x) PROVE WorkOK' /\ call' = call
  <2> DEFINE m == [Memory EXCEPT !.heap[ctx[t].current].info = x]
  <2>1. call' = call /\ Own(t) # NoQueue
    BY <1>15 DEF LocalUpdate, AtLocal, Locks, Calls
  <2>2. \/ Stops("exit") \/ (Stops("stray") /\ Own(t) # NoQueue)
        \/ InList(Own(t), ctx[t].current) /\ Does(m, Nothing)
    BY <1>15 DEF LocalUpdate, AtLocal
  <2>3. InList(Own(t), ctx[t].current) => \E K : Holds(m, K, Safe)
    <3>1. Safe = {}
      BY <1>6, <2>1 DEF Safe
    <3>2. InList(Own(t), ctx[t].current) => ctx[t].current \in DOMAIN Memory.heap
      BY <1>1, <1>2, <1>6, <1>8, <2>1, InListIs
    <3> QED
      BY <1>1, <3>1, <3>2, UpdateHolds
  <2> HIDE DEF m
  <2> QED
    BY <1>2, <1>10, <2>1, <2>2, <2>3, DoesKeeps
<1>16. ASSUME LocalNext(t) PROVE WorkOK' /\ call' = call
  <2> DEFINE c == ctx[t].current
  <2>1. call' = call /\ Own(t) # NoQueue
    BY <1>16 DEF LocalNext, AtLocal, Locks, Calls
  <2>2. \/ Stops("exit") \/ (Stops("stray") /\ Own(t) # NoQueue)
        \/ /\ InList(Own(t), c) /\ heap' = heap /\ queue' = queue
           /\ ctx' = [ctx EXCEPT ![t].previous = c, ![t].current = heap[c].next]
    BY <1>16 DEF LocalNext, AtLocal
  <2>3. ASSUME InList(Own(t), c), heap' = heap, queue' = queue,
               ctx' = [ctx EXCEPT ![t].previous = c, ![t].current = heap[c].next]
        PROVE  WorkOK'
    <3> DEFINE r == [ctx[t] EXCEPT !.previous = c, !.current = heap[c].next]
    <3>1. Own(t) \in Queues /\ c \in 0..MaxNodes
      BY <1>4, <1>6, <2>1 DEF Contexts
    <3>2. heap[c].next \in 0..MaxNodes
      BY <1>1, <1>8, <2>3, <3>1, InListIs
    <3>3. ctx' = [ctx EXCEPT ![t] = r]
      BY <1>4, <2>3
    <3>4. r \in Contexts /\ r.queue = Own(t)
      BY <1>4, <3>1, <3>2 DEF Contexts, Own
    <3> HIDE DEF r
    <3> QED
      BY <1>2, <1>9, <2>3, <3>1, <3>3, <3>4, OwnKeeps
  <2> QED
    BY <1>10, <2>1, <2>2, <2>3
<1>17. ASSUME LocalDelete(t) PROVE WorkOK' /\ call' = call
  <2> DEFINE c == ctx[t].current
             p == ctx[t].previous
             n == Unlink(Memory, Own(t), p, c)
  <2>1. call' = call /\ Own(t) # NoQueue
    BY <1>17 DEF LocalDelete, AtLocal, Locks, Calls
  <2>2. \/ Stops("exit") \/ (Stops("stray") /\ Own(t) # NoQueue)
        \/ /\ c # NULL /\ Adjacent(Own(t), p, c) /\ Becomes(n)
           /\ ctx' = [ctx EXCEPT ![t].current = heap[c].next]
    BY <1>17 DEF LocalDelete, AtLocal
  <2>3. ASSUME c # NULL, Adjacent(Own(t), p, c), Becomes(n),
               ctx' = [ctx EXCEPT ![t].current = heap[c].next]
        PROVE  WorkOK'
    <3> DEFINE r == [ctx[t] EXCEPT !.current = heap[c].next]
    <3>1. Own(t) \in Queues /\ p \in 0..MaxNodes
      BY <1>4, <1>6, <2>1 DEF Contexts
    <3>2. PICK q \in Queues : q = Own(t)
      BY <3>1
    <3>3. PICK j \in 1..Len(L[q]) : c = L[q][j] /\ p = Before(L[q], j)
      BY <1>1, <2>3, <3>2, AdjacentIs
    <3>4. p = IF j = 1 THEN NULL ELSE L[q][j - 1]
      BY <3>3 DEF Before
    <3>5. Holds(n, [L EXCEPT ![q] = Cut(L[q], j)], {})
      <4>1. Holds(Unlink(Memory, q, p, L[q][j]), [L EXCEPT ![q] = Cut(L[q], j)], {} \ {q})
        BY <1>1, <3>3, <3>4, UnlinkHolds
      <4>2. {} \ {q} = {}
        OBVIOUS
      <4> QED
        BY <3>2, <3>3, <4>1, <4>2
    <3>6. \E J : Holds(Memory', J, {})
      BY <1>1, <2>3, <3>5, BecomesKeeps
    <3>7. heap[c].next \in 0..MaxNodes
      BY <1>8, <3>3 DEF NodesOf
    <3>8. ctx' = [ctx EXCEPT ![t] = r]
      BY <1>4, <2>3
    <3>9. r \in Contexts /\ r.queue = Own(t)
      BY <1>4, <3>1, <3>7 DEF Contexts, Own
    <3> HIDE DEF r
    <3> QED
      BY <1>2, <3>1, <3>6, <3>8, <3>9, OwnKeeps
  <2> QED
    BY <1>10, <2>1, <2>2, <2>3
<1> QED
  BY <1>3, <1>11, <1>12, <1>13, <1>14, <1>15, <1>16, <1>17 DEF Section3, Inv

(* A call takes its locks, works and gives them back.                      *)
LEMMA ProceedKeeps ==
  ASSUME Inv, NEW t \in Threads, Proceed(t)
  PROVE  Inv'
<1>1. PICK L : Holds(Memory, L, Safe)
  BY DEF Inv, WorkOK, MemoryOK
<1>2. WorkOK /\ CallOK
  BY DEF Inv
<1>3. ASSUME NEW l, NEW before, before # "idle",
             NEW after \in {"first", "second", "body"}, Takes(t, l, before, after)
      PROVE  WorkOK' /\ CallOK'
  <2>1. WorkOK'
    BY <1>2, <1>3 DEF Takes, WorkOK, MemoryOK, HaltedOK, CtxOK, Memory, Safe, NoContext
  <2> DEFINE e == [call[t] EXCEPT !.at = after]
  <2>2. call[t] \in InCall
    BY <1>2, <1>3 DEF Takes, CallOK, Idle
  <2>3. call' = [call EXCEPT ![t] = e]
    BY <1>2, <1>3 DEF Takes, CallOK
  <2>4. e \in InCall
    BY <2>2 DEF InCall
  <2> HIDE DEF e
  <2>5. CallOK'
    BY <1>2, <2>3, <2>4 DEF CallOK
  <2> QED
    BY <2>1, <2>5
<1>4. ASSUME LockGlobal(t) \/ LockFirst(t) \/ LockSecond(t) PROVE WorkOK' /\ CallOK'
  <2>1. ASSUME LockGlobal(t) PROVE WorkOK' /\ CallOK'
    BY <1>3, <2>1 DEF LockGlobal
  <2>2. ASSUME LockFirst(t) PROVE WorkOK' /\ CallOK'
    BY <1>3, <2>2 DEF LockFirst
  <2>3. ASSUME LockSecond(t) PROVE WorkOK' /\ CallOK'
    BY <1>3, <2>3 DEF LockSecond
  <2> QED
    BY <1>4, <2>1, <2>2, <2>3
<1>5. ASSUME Body(t) PROVE WorkOK' /\ CallOK'
  <2> DEFINE q1 == call[t].q1
             q2 == call[t].q2
  <2>1. /\ \/ \E m \in CopyQueue(Memory, q1, q2) : Does(m, Nothing)
           \/ \E m \in MergeQueues(Memory, q1, q2) : Does(m, Nothing)
           \/ \E r : Tells(r)
        /\ call' = [call EXCEPT ![t] = Idle] /\ call[t].at = "body"
    BY <1>5 DEF Body
  <2>2. q1 \in Queues /\ q2 \in Queues
    <3>1. call[t] \in InCall
      BY <1>2, <2>1 DEF CallOK, Idle
    <3> QED
      BY <3>1 DEF InCall
  <2>3. CallOK'
    BY <1>2, <2>1 DEF CallOK
  <2>4. \A m \in CopyQueue(Memory, q1, q2) : \E K : Holds(m, K, Safe)
    BY <1>1, <2>2, CopyHolds
  <2>5. \A m \in MergeQueues(Memory, q1, q2) : \E K : Holds(m, K, Safe)
    BY <1>1, <2>2, MergeHolds
  <2> HIDE DEF q1, q2
  <2> QED
    BY <1>2, <2>1, <2>3, <2>4, <2>5, DoesKeeps, TellsKeeps
<1>6. ASSUME Leave(t) PROVE WorkOK' /\ CallOK'
  BY <1>2, <1>6 DEF Leave, WorkOK, MemoryOK, HaltedOK, CtxOK, CallOK, Memory, Safe, NoContext
<1> QED
  BY <1>4, <1>5, <1>6 DEF Proceed, Inv

(* What the queues pass through.                                           *)
LEMMA WaysAre ==
  ASSUME NEW L, NEW P, Holds(Memory, L, P), NEW q \in Queues
  PROVE  /\ Was(q) \in Ways /\ Freed(q) \in Ways /\ Unseen \in Ways
         /\ \A x : Walked(q, x) \in Ways
<1>1. /\ List(Memory, q) = L[q] /\ DOMAIN L[q] = 1..Len(L[q])
      /\ \A i \in 1..Len(L[q]) : L[q][i] \in Addr
      /\ queue[q] \in QueueRecs /\ queue[q].queuelength = Len(L[q]) /\ Len(L[q]) \in Nat
  BY OneList DEF Memory
<1>2. queue[q].queue \in 0..MaxNodes /\ queue[q].queuelength \in Nat /\ NULL \in 0..MaxNodes
  BY <1>1, QueueAssumption DEF QueueRecs, NULL
<1>3. ToSet(List(Memory, q)) \subseteq 0..MaxNodes
  BY <1>1 DEF ToSet, Addr
<1>4. Was(q) \in Ways
  BY <1>2 DEF Was, Ways
<1>5. Freed(q) \in Ways
  BY <1>2, <1>3 DEF Freed, Ways
<1>6. ASSUME NEW x PROVE Walked(q, x) \in Ways
  BY <1>4, <1>6 DEF Walked, Ways
<1> QED
  BY <1>4, <1>5, <1>6 DEF Unseen, Ways

(* So do copies and merges.                                                *)
LEMMA BodyWays ==
  ASSUME NEW L, NEW P, Holds(Memory, L, P), NEW q \in Queues,
         NEW m, NEW K, Holds(m, K, P)
  PROVE  Copied(m, q) \in Ways /\ Filled(m, q) \in Ways
<1>1. Was(q) \in Ways /\ Freed(q) \in Ways /\ queue[q].queuelength \in Nat
  <2>1. Was(q) \in Ways /\ Freed(q) \in Ways
    BY WaysAre
  <2>2. Memory.queue[q].queuelength = Len(L[q]) /\ Len(L[q]) \in Nat
    BY OneList
  <2> QED
    BY <2>1, <2>2 DEF Memory
<1>2. /\ List(m, q) = K[q] /\ DOMAIN K[q] = 1..Len(K[q])
      /\ \A i \in 1..Len(K[q]) : K[q][i] \in Addr
      /\ m.queue[q].queuelength \in Nat
  BY OneList
<1>3. 0..m.queue[q].queuelength \subseteq Nat
      /\ queue[q].queuelength..m.queue[q].queuelength \subseteq Nat
  BY <1>1, <1>2
<1>4. Copied(m, q) \in Ways
  BY <1>1, <1>3 DEF Copied, Ways
<1>5. Filled(m, q) \in Ways
  <2>1. \A i \in DOMAIN List(m, q) : List(m, q)[i] \in 0..MaxNodes
    BY <1>2 DEF Addr
  <2>2. Filled(m, q).heads \subseteq 0..MaxNodes
    BY <1>1, <2>1 DEF Filled, Ways
  <2>3. Filled(m, q).ends \subseteq BOOLEAN
    BY <1>1 DEF Filled, Ways
  <2>4. Filled(m, q).lengths \subseteq Nat
    BY <1>3 DEF Filled
  <2>5. Filled(m, q) = [heads |-> Filled(m, q).heads, lengths |-> Filled(m, q).lengths,
                       ends |-> Filled(m, q).ends]
    BY DEF Filled
  <2> QED
    BY <2>2, <2>3, <2>4, <2>5 DEF Ways
<1> QED
  BY <1>4, <1>5

(* A call on one queue leaves what it passed through, or reads.            *)
Enters(t) == \/ UNCHANGED <<lock, passed>>
             \/ \E q \in Queues, way \in Ways : Locks(t, q, way)
Enterings(t, q) == Section1(t, q) \/ Section2(t, q) \/ Section3(t)

(* Every call but those on two queues.                                     *)
LEMMA SectionsEnter ==
  ASSUME Inv, NEW t \in Threads, NEW q \in Queues, Enterings(t, q)
  PROVE  Enters(t)
<1>1. PICK L : Holds(Memory, L, Safe)
  BY DEF Inv, WorkOK, MemoryOK
<1>2. /\ Was(q) \in Ways /\ Freed(q) \in Ways
      /\ \A x : Walked(q, x) \in Ways
  BY <1>1, WaysAre
<1>3. ASSUME Section1(t, q) PROVE Enters(t)
  BY <1>2, <1>3 DEF Enters, Section1, Destroy, RemoveFromFront, Empty, Length, Find, Add, Enter,
                    Reads
<1>4. ASSUME Section2(t, q) PROVE Enters(t)
  BY <1>2, <1>4 DEF Enters, Section2, RewindQueue, End, Peek, DeleteAtCurrent, Next_Element,
                    UpdateCurrent, AtCurrent, Reads
<1>5. ASSUME Section3(t) PROVE Enters(t)
  <2>1. Own(t) # NoQueue => Own(t) \in Queues
    BY DEF Inv, WorkOK, CtxOK, Own, Contexts
  <2>2. Own(t) # NoQueue => Was(Own(t)) \in Ways
    BY <1>1, <2>1, WaysAre
  <2> QED
    BY <1>5, <2>1, <2>2 DEF Enters, Section3, LocalInit, LocalRewind, LocalEnd, LocalPeek,
                            LocalNext, LocalDelete, LocalUpdate, AtLocal, Reads
<1> QED
  BY <1>3, <1>4, <1>5 DEF Enterings

(* Every step leaves what the queues passed through.                       *)
LEMMA PassedKeeps ==
  ASSUME Inv, PassedOK, NEW t \in Threads,
         Proceed(t) \/ Section3(t) \/ \E q \in Queues : Section1(t, q) \/ Section2(t, q)
  PROVE  PassedOK'
<1>1. PICK L : Holds(Memory, L, Safe)
  BY DEF Inv, WorkOK, MemoryOK
<1>2. CASE UNCHANGED passed
  BY <1>2 DEF PassedOK
<1>3. ASSUME NEW q \in Queues, NEW way \in Ways, passed' = [passed EXCEPT ![q] = way]
      PROVE  PassedOK'
  BY <1>3 DEF PassedOK
<1>4. ASSUME Enters(t) PROVE PassedOK'
  BY <1>2, <1>3, <1>4 DEF Enters, Locks
<1>5. ASSUME Body(t) PROVE PassedOK'
  <2>1. PICK q1 : q1 = call[t].q1
    OBVIOUS
  <2>2. PICK q2 : q2 = call[t].q2
    OBVIOUS
  <2>3. q1 \in Queues /\ q2 \in Queues
    <3>1. call[t] \in InCall
      BY <1>5 DEF Body, Inv, CallOK, Idle
    <3> QED
      BY <2>1, <2>2, <3>1 DEF InCall
  <2>4. \/ UNCHANGED passed
        \/ \E m \in CopyQueue(Memory, q1, q2) : passed' = [passed EXCEPT ![q1] = Copied(m, q1)]
        \/ \E m \in MergeQueues(Memory, q1, q2) : passed' = [passed EXCEPT ![q1] = Filled(m, q1)]
    BY <1>5, <2>1, <2>2 DEF Body
  <2>5. \A m \in CopyQueue(Memory, q1, q2) : Copied(m, q1) \in Ways
    BY <1>1, <2>3, CopyHolds, BodyWays
  <2>6. \A m \in MergeQueues(Memory, q1, q2) : Filled(m, q1) \in Ways
    BY <1>1, <2>3, MergeHolds, BodyWays
  <2> QED
    BY <1>2, <1>3, <2>3, <2>4, <2>5, <2>6
<1>6. ASSUME Leave(t) PROVE PassedOK'
  <2>1. Unseen \in Ways
    BY DEF Unseen, Ways
  <2> QED
    BY <1>6, <2>1 DEF Leave, PassedOK
<1>7. ASSUME Proceed(t) PROVE PassedOK'
  BY <1>2, <1>5, <1>6, <1>7 DEF Proceed, LockGlobal, LockFirst, LockSecond, Takes
<1>8. ASSUME NEW q \in Queues, Enterings(t, q) PROVE PassedOK'
  BY <1>4, <1>8, SectionsEnter
<1>9. ASSUME Section3(t) PROVE PassedOK'
  <2>1. CASE Queues = {}
    BY <1>9, <2>1 DEF PassedOK, Section3, LocalInit, LocalRewind, LocalEnd, LocalPeek,
                      LocalNext, LocalDelete, LocalUpdate, AtLocal, Inv, WorkOK, CtxOK, Own, Contexts
  <2>2. CASE Queues # {}
    BY <1>8, <1>9, <2>2 DEF Enterings
  <2> QED
    BY <2>1, <2>2
<1> QED
  BY <1>7, <1>8, <1>9 DEF Enterings

-----------------------------------------------------------------------------
(***************************************************************************)
(* The specification.                                                      *)
(***************************************************************************)
(* Queues without elements.                                                *)
LEMMA BlankHolds ==
  ASSUME NEW m, m = [heap |-> <<>>, failed |-> FALSE,
                     queue |-> [q \in Queues |-> InitQueue(Twice[q])]]
  PROVE  /\ \E L : Holds(m, L, Queues)
         /\ \A q \in Queues : m.queue[q].queue = NULL
<1> DEFINE Q == [q \in Queues |-> InitQueue(Twice[q])]
           L0 == [q \in Queues |-> <<>>]
<1>1. 0 \in 0..MaxNodes /\ 0 <= MaxNodes
  BY QueueAssumption
<1>2. \A q \in Queues : /\ Q[q] \in QueueRecs /\ Q[q].queue = NULL /\ Q[q].current = NULL
                        /\ Q[q].queuelength = 0
  BY <1>1, QueueAssumption DEF InitQueue, QueueRecs, NULL
<1>3. <<>> \in Heaps /\ DOMAIN <<>> = {}
  <2>1. <<>> \in [1..0 -> Node] /\ DOMAIN <<>> = 1..0 /\ 1..0 = {}
    BY LenProperties, EmptySeq
  <2> QED
    BY <2>1 DEF Heaps
<1>4. m \in Memories /\ m.heap = <<>> /\ m.queue = Q
  <2>1. Q \in [Queues -> QueueRecs]
    BY <1>2
  <2> HIDE DEF Q
  <2>2. m = [heap |-> <<>>, failed |-> FALSE, queue |-> Q]
    BY DEF Q
  <2> QED
    BY <1>3, <2>1, <2>2 DEF Memories
<1> HIDE DEF Q
<1>5. <<>> \in Seq(Addr) /\ Len(<<>>) = 0 /\ 1..0 = {} /\ NodesOf(<<>>) = {}
  BY DEF NodesOf
<1>6. \A q \in Queues : Chain(<<>>, Q[q], <<>>) /\ Standing(Q[q], <<>>)
  BY <1>1, <1>2, <1>5 DEF Chain, IsList, After, Standing
<1>7. Holds(m, L0, Queues)
  <2>1. L0 \in [Queues -> Seq(Addr)] /\ \A q \in Queues : L0[q] = <<>>
    BY <1>5
  <2> HIDE DEF L0
  <2> QED
    BY <1>3, <1>4, <1>5, <1>6, <2>1 DEF Holds
<1>8. \A q \in Queues : m.queue[q].queue = NULL
  BY <1>2, <1>4
<1> QED
  BY <1>7, <1>8

(* The threads begin with sound lists.                                     *)
LEMMA InitHolds ==
  Init => Inv /\ PassedOK
<1> SUFFICES ASSUME Init PROVE Inv /\ PassedOK
  OBVIOUS
<1>1. PICK m0 : m0 = [heap |-> <<>>, failed |-> FALSE,
                      queue |-> [q \in Queues |-> InitQueue(Twice[q])]]
  OBVIOUS
<1>2. PICK filling \in Fillings :
        \E m \in AddAll(m0, filling) : heap = m.heap /\ queue = m.queue
  BY <1>1 DEF Init
<1>3. PICK m \in AddAll(m0, filling) : heap = m.heap /\ queue = m.queue
  BY <1>2
<1>4. PICK L : Holds(m0, L, Queues)
  BY <1>1, BlankHolds
<1>5. filling \in Seq([queue : Queues, info : Items, priority : Priorities])
  BY QueueAssumption
<1>6. PICK K : Holds(m, K, Queues)
  BY <1>3, <1>4, <1>5, AddAllHolds
<1>7. Holds(Memory, K, Queues)
  BY <1>3, <1>6, MemoryIs DEF Memory
<1>8. NoContext /\ CtxOK /\ CallOK /\ HaltedOK
  <2>1. /\ ctx = [t \in Threads |-> [queue |-> NoQueue, current |-> NULL, previous |-> NULL]]
        /\ call = [t \in Threads |-> Idle] /\ halted = "no"
    BY DEF Init
  <2>2. [queue |-> NoQueue, current |-> NULL, previous |-> NULL] \in Contexts
    BY QueueAssumption DEF Contexts, NULL
  <2>3. NoContext /\ CtxOK
    BY <2>1, <2>2 DEF NoContext, CtxOK
  <2>4. CallOK /\ HaltedOK
    BY <2>1 DEF CallOK, HaltedOK
  <2> QED
    BY <2>3, <2>4
<1>9. PassedOK
  <2>1. passed = [q \in Queues |-> Unseen]
    BY DEF Init
  <2>2. Unseen \in Ways
    BY DEF Unseen, Ways
  <2> QED
    BY <2>1, <2>2 DEF PassedOK
<1> QED
  BY <1>7, <1>8, <1>9 DEF Inv, WorkOK, MemoryOK, Safe

(* Every step of the program keeps the invariant.                          *)
LEMMA NextHolds ==
  Inv /\ PassedOK /\ [Next]_vars => Inv' /\ PassedOK'
<1> SUFFICES ASSUME Inv, PassedOK, [Next]_vars PROVE Inv' /\ PassedOK'
  OBVIOUS
<1>1. CASE UNCHANGED vars
  BY <1>1 DEF vars, Inv, WorkOK, MemoryOK, HaltedOK, CtxOK, CallOK, PassedOK, Memory, Safe, NoContext
<1>2. CASE Next
  <2>1. PICK t \in Threads : \/ Proceed(t) \/ Section3(t)
                             \/ \E q \in Queues : Section1(t, q) \/ Section2(t, q)
    BY <1>2 DEF Next
  <2> QED
    BY <2>1, PassedKeeps, ProceedKeeps, Section1Keeps, Section2Keeps, Section3Keeps
<1> QED
  BY <1>1, <1>2

(* The invariant says of the lists what QueuesSound promises.              *)
LEMMA InvSound ==
  Inv => QueuesSound
<1> SUFFICES ASSUME Inv PROVE QueuesSound
  OBVIOUS
<1>1. PICK L : Holds(Memory, L, Safe)
  BY DEF Inv, WorkOK, MemoryOK
<1>2. Memory.queue = queue /\ Memory.heap = heap
  BY DEF Memory
<1>3. ASSUME NEW q \in Queues
      PROVE  /\ List(Memory, q) = L[q] /\ ToSet(L[q]) = NodesOf(L[q])
             /\ DOMAIN L[q] = 1..Len(L[q])
             /\ queue[q].queuelength = Len(L[q])
             /\ \A i, j \in 1..Len(L[q]) :
                  i < j => heap[L[q][i]].priority <= heap[L[q][j]].priority
  <2>1. /\ List(Memory, q) = L[q] /\ DOMAIN L[q] = 1..Len(L[q])
        /\ queue[q].queuelength = Len(L[q])
    BY <1>1, <1>2, OneList
  <2>2. \A i, j \in 1..Len(L[q]) : i < j => heap[L[q][i]].priority <= heap[L[q][j]].priority
    BY <1>1, <1>2 DEF Holds, Chain
  <2> QED
    BY <2>1, <2>2 DEF ToSet, NodesOf
<1> DEFINE l == [q \in Queues |-> List(Memory, q)]
<1>4. \A q \in Queues : l[q] = L[q]
  BY <1>3
<1> HIDE DEF l
<1>5. DOMAIN heap = UNION {ToSet(l[q]) : q \in Queues}
  <2>1. DOMAIN heap = UNION {NodesOf(L[q]) : q \in Queues}
    BY <1>1, <1>2 DEF Holds
  <2>2. \A q \in Queues : ToSet(l[q]) = NodesOf(L[q])
    BY <1>3, <1>4
  <2> QED
    BY <2>1, <2>2
<1>6. \A q, r \in Queues : q # r => ToSet(l[q]) \cap ToSet(l[r]) = {}
  <2>1. \A q, r \in Queues : q # r => NodesOf(L[q]) \cap NodesOf(L[r]) = {}
    BY <1>1 DEF Holds
  <2> QED
    BY <1>3, <1>4, <2>1
<1>7. NoContext =>
        /\ halted # "stray"
        /\ \A q \in Queues : \/ queue[q].current = NULL
                            \/ /\ InList(q, queue[q].current)
                               /\ Adjacent(q, queue[q].previous, queue[q].current)
  BY PositionSafe DEF Inv, WorkOK, HaltedOK
<1> QED
  BY <1>3, <1>4, <1>5, <1>6, <1>7 DEF QueuesSound, NoContext, l

(* Whatever the threads call in whatever order, the lists are disjoint, in *)
(* order, complete and counted, and while no thread has a Context the      *)
(* position of every queue stays in its list (prioque.c).                  *)
THEOREM QueuesAreSound == Spec => []QueuesSound
<1>1. Spec => [](Inv /\ PassedOK)
  BY InitHolds, NextHolds, PTL DEF Spec
<1> QED
  BY <1>1, InvSound, PTL

-----------------------------------------------------------------------------
(***************************************************************************)
(* What the callers see of a queue.                                        *)
(***************************************************************************)
Entry(node)  == [op |-> node.priority, info |-> node.info]
Elems(h, l)  == [i \in 1..Len(l) |-> Entry(h[l[i]])]
Spot(c, l)   == IF c = NULL THEN Len(l) + 1
                ELSE IF c \in NodesOf(l) THEN CHOOSE i \in 1..Len(l) : l[i] = c ELSE 0
Loose(r, l)  == \E j \in 1..Len(l) : r.current = l[j] /\ r.previous # Before(l, j)

Shown(s, p, d, b) == [seq |-> s, pos |-> p, dup |-> d, loose |-> b]
View(m, L, q) == Shown(Elems(m.heap, L[q]), Spot(m.queue[q].current, L[q]),
                       m.queue[q].duplicates, Loose(m.queue[q], L[q]))

(* A node of a list is next to the one before it.                          *)
LEMMA AdjacentAt ==
  ASSUME NEW L, NEW P, Holds(Memory, L, P), NEW q \in Queues, NEW j \in 1..Len(L[q])
  PROVE  Adjacent(q, Before(L[q], j), L[q][j])
<1>0. Memory.queue = queue /\ Memory.heap = heap
  BY DEF Memory
<1>1. /\ Len(L[q]) \in Nat
      /\ \A i \in 1..Len(L[q]) : L[q][i] \in Addr /\ heap[L[q][i]].next = After(L[q], i)
      /\ queue[q].queue = After(L[q], 0)
  BY <1>0, OneList
<1>2. CASE j = 1
  BY <1>1, <1>2 DEF Before, Adjacent, After
<1>3. CASE j # 1
  <2>1. j - 1 \in 1..Len(L[q]) /\ (j - 1) + 1 = j /\ j - 1 < Len(L[q])
    BY <1>1, <1>3
  <2>2. L[q][j - 1] # NULL
    BY <1>1, <2>1 DEF Addr, NULL
  <2>3. heap[L[q][j - 1]].next = L[q][j]
    BY <1>1, <2>1 DEF After
  <2>4. InList(q, L[q][j - 1])
    BY <2>1, InListIs DEF NodesOf
  <2> QED
    BY <1>3, <2>2, <2>3, <2>4 DEF Before, Adjacent
<1> QED
  BY <1>2, <1>3

(* The abstract content of a queue, by the lists in memory.                *)
LEMMA ContentIs ==
  ASSUME NEW L, NEW P, Holds(Memory, L, P), NEW q \in Queues
  PROVE  Content(q) = View(Memory, L, q)
<1>0. Memory.queue = queue /\ Memory.heap = heap
  BY DEF Memory
<1>1. PICK l : l = L[q]
  OBVIOUS
<1>2. /\ List(Memory, q) = l /\ DOMAIN l = 1..Len(l) /\ Len(l) \in Nat
      /\ \A i \in 1..Len(l) : l[i] \in Addr
      /\ \A i, j \in 1..Len(l) : l[i] = l[j] => i = j
  <2>1. \A i, j \in 1..Len(l) : l[i] = l[j] => i = j
    BY <1>1 DEF Holds, Chain, IsList
  <2> QED
    BY <1>1, <2>1, OneList
<1>3. PICK c : c = queue[q].current
  OBVIOUS
<1>4. InList(q, c) <=> c \in NodesOf(l)
  BY <1>1, InListIs
<1>5. Sequence(q) = Elems(heap, l)
  BY <1>2 DEF Sequence, Elems, Entry
<1>6. PosOf(q) = Spot(c, l)
  BY <1>2, <1>3, <1>4 DEF PosOf, Spot
<1>7. (InList(q, c) /\ ~Adjacent(q, queue[q].previous, c)) = Loose(queue[q], l)
  <2>1. ASSUME NEW j \in 1..Len(l), c = l[j]
        PROVE  Adjacent(q, queue[q].previous, c) <=> queue[q].previous = Before(l, j)
    <3>1. c # NULL
      BY <1>2, <2>1 DEF Addr, NULL
    <3>2. Adjacent(q, Before(l, j), c)
      BY <1>1, <2>1, AdjacentAt
    <3>3. ASSUME Adjacent(q, queue[q].previous, c) PROVE queue[q].previous = Before(l, j)
      <4>1. PICK i \in 1..Len(l) : c = l[i] /\ queue[q].previous = Before(l, i)
        BY <1>1, <3>1, <3>3, AdjacentIs
      <4> QED
        BY <1>2, <2>1, <4>1
    <3> QED
      BY <3>2, <3>3
  <2>2. InList(q, c) <=> \E j \in 1..Len(l) : c = l[j]
    BY <1>4 DEF NodesOf
  <2> QED
    BY <1>3, <2>1, <2>2 DEF Loose
<1> QED
  BY <1>0, <1>1, <1>3, <1>5, <1>6, <1>7 DEF Content, View, Shown

(* Nothing changes for the callers of the queue r.                         *)
Same(m, L, n, K, r) ==
  /\ n.queue[r] = m.queue[r] /\ K[r] = L[r]
  /\ Elems(n.heap, K[r]) = Elems(m.heap, L[r])

(* Only q changes for its callers, and to v.                               *)
Aside(m, L, n, K, q)    == \A r \in Queues \ {q} : Same(m, L, n, K, r)
Turns(m, L, n, K, q, v) == View(n, K, q) = v /\ Aside(m, L, n, K, q)

(* Nodes keep what is in them.                                             *)
Values(h, g) == \A a \in DOMAIN h \cap DOMAIN g : Entry(g[a]) = Entry(h[a])

(* Then the callers of r see what they saw.                                *)
LEMMA SameView ==
  ASSUME NEW m, NEW L, NEW n, NEW K, NEW r, Same(m, L, n, K, r)
  PROVE  View(n, K, r) = View(m, L, r)
BY DEF Same, View

(* What two memories have in common looks the same in both.                *)
LEMMA ElemsStay ==
  ASSUME NEW h, NEW g, Values(h, g), NEW l,
         \A i \in 1..Len(l) : l[i] \in DOMAIN h /\ l[i] \in DOMAIN g
  PROVE  Elems(g, l) = Elems(h, l)
BY DEF Values, Elems

(* Another list for one queue.                                             *)
LEMMA OthersSame ==
  ASSUME NEW m, NEW L, NEW P, Holds(m, L, P), NEW q \in Queues, NEW l,
         NEW n, NEW R, Holds(n, [L EXCEPT ![q] = l], R),
         Values(m.heap, n.heap), \A r \in Queues \ {q} : n.queue[r] = m.queue[r]
  PROVE  Aside(m, L, n, [L EXCEPT ![q] = l], q)
<1> DEFINE K == [L EXCEPT ![q] = l]
<1> SUFFICES ASSUME NEW r \in Queues \ {q} PROVE Same(m, L, n, K, r)
  BY DEF Aside
<1>1. K[r] = L[r]
  BY DEF Holds
<1> HIDE DEF K
<1>2. \A i \in 1..Len(L[r]) : L[r][i] \in DOMAIN m.heap
  BY OneList
<1>3. \A i \in 1..Len(K[r]) : K[r][i] \in DOMAIN n.heap
  BY OneList DEF K
<1>4. Elems(n.heap, L[r]) = Elems(m.heap, L[r])
  BY <1>1, <1>2, <1>3, ElemsStay
<1> QED
  BY <1>1, <1>4 DEF Same

(* Where c is in the list l, behind p: i is behind the end for NULL.       *)
Stands(l, i, c, p) ==
  i \in 1..(Len(l) + 1) /\ c = After(l, i - 1) /\ (i <= Len(l) => p = Before(l, i))

(* There the callers see the position.                                     *)
LEMMA StandsIs ==
  ASSUME NEW l, Len(l) \in Nat, \A i \in 1..Len(l) : l[i] \in Addr,
         \A i, j \in 1..Len(l) : l[i] = l[j] => i = j,
         NEW i, NEW r, Stands(l, i, r.current, r.previous)
  PROVE  Spot(r.current, l) = i /\ ~Loose(r, l)
<1>1. i \in 1..(Len(l) + 1) /\ (i - 1) + 1 = i
  BY DEF Stands
<1>2. CASE i <= Len(l)
  <2>1. i \in 1..Len(l) /\ r.current = l[i] /\ r.previous = Before(l, i)
    BY <1>1, <1>2 DEF Stands, After
  <2>2. r.current # NULL /\ r.current \in NodesOf(l)
    BY <2>1 DEF NodesOf, Addr, NULL
  <2>3. (CHOOSE j \in 1..Len(l) : l[j] = r.current) = i
    BY <2>1
  <2> QED
    BY <2>1, <2>2, <2>3 DEF Spot, Loose
<1>3. CASE i > Len(l)
  <2>1. r.current = NULL /\ i = Len(l) + 1
    BY <1>1, <1>3 DEF Stands, After
  <2>2. \A j \in 1..Len(l) : l[j] # NULL
    BY DEF Addr, NULL
  <2> QED
    BY <2>1, <2>2 DEF Spot, Loose
<1> QED
  BY <1>1, <1>2, <1>3

-----------------------------------------------------------------------------
(***************************************************************************)
(* The functions between lock and unlock, as the callers see them.         *)
(***************************************************************************)
(* The position of q moves to element i.                                   *)
LEMMA PositionTurns ==
  ASSUME NEW m, NEW L, NEW P, Holds(m, L, P), NEW q \in Queues, NEW c, NEW p,
         NEW i, Stands(L[q], i, c, p)
  PROVE  Turns(m, L, [m EXCEPT !.queue[q].current = c, !.queue[q].previous = p], L, q,
               Shown(Elems(m.heap, L[q]), i, m.queue[q].duplicates, FALSE))
<1> DEFINE n == [m EXCEPT !.queue[q].current = c, !.queue[q].previous = p]
<1>1. m \in Memories /\ m.queue \in [Queues -> QueueRecs] /\ m.queue[q] \in QueueRecs
  BY DEF Holds, Memories
<1>2. /\ n.heap = m.heap
      /\ n.queue = [m.queue EXCEPT ![q] = [m.queue[q] EXCEPT !.current = c, !.previous = p]]
  BY <1>1 DEF Memories
<1>3. /\ n.queue[q].current = c /\ n.queue[q].previous = p
      /\ n.queue[q].duplicates = m.queue[q].duplicates
      /\ \A r \in Queues \ {q} : n.queue[r] = m.queue[r]
  BY <1>1, <1>2 DEF QueueRecs
<1> HIDE DEF n
<1>4. Spot(n.queue[q].current, L[q]) = i /\ ~Loose(n.queue[q], L[q])
  <2>1. /\ Len(L[q]) \in Nat /\ \A j \in 1..Len(L[q]) : L[q][j] \in Addr
        /\ \A j, k \in 1..Len(L[q]) : L[q][j] = L[q][k] => j = k
    BY OneList DEF Holds, Chain, IsList
  <2>2. Stands(L[q], i, n.queue[q].current, n.queue[q].previous)
    BY <1>3
  <2> QED
    BY <2>1, <2>2, StandsIs
<1>5. View(n, L, q) = Shown(Elems(m.heap, L[q]), i, m.queue[q].duplicates, FALSE)
  <2>1. Loose(n.queue[q], L[q]) = FALSE
    BY <1>4 DEF Loose
  <2> QED
    BY <1>2, <1>3, <1>4, <2>1 DEF View
<1>6. Turns(m, L, n, L, q, Shown(Elems(m.heap, L[q]), i, m.queue[q].duplicates, FALSE))
  BY <1>2, <1>3, <1>5 DEF Turns, Aside, Same
<1> QED
  BY <1>6 DEF n

(* nolock_rewind_queue().                                                  *)
LEMMA RewindTurns ==
  ASSUME NEW m, NEW L, NEW P, Holds(m, L, P), NEW q \in Queues
  PROVE  Turns(m, L, Rewind(m, q), L, q,
               Shown(Elems(m.heap, L[q]), 1, m.queue[q].duplicates, FALSE))
<1>1. Len(L[q]) \in Nat /\ m.queue[q].queue = After(L[q], 0) /\ 1 - 1 = 0
  BY OneList
<1>2. Stands(L[q], 1, m.queue[q].queue, NULL)
  BY <1>1 DEF Stands, Before
<1> QED
  BY <1>2, PositionTurns DEF Rewind

(* nolock_next_element().                                                  *)
LEMMA AdvanceTurns ==
  ASSUME NEW m, NEW L, NEW P, Holds(m, L, P), NEW q \in Queues, NEW i \in 1..Len(L[q]),
         m.queue[q].current = L[q][i]
  PROVE  Turns(m, L, Advance(m, q), L, q,
               Shown(Elems(m.heap, L[q]), i + 1, m.queue[q].duplicates, FALSE))
<1>0. m \in Memories
  BY DEF Holds
<1>1. Len(L[q]) \in Nat /\ m.heap[L[q][i]].next = After(L[q], i)
  BY OneList
<1>2. i + 1 # 1 /\ (i + 1) - 1 = i /\ i + 1 \in 1..(Len(L[q]) + 1)
  BY <1>1
<1>3. Stands(L[q], i + 1, m.heap[L[q][i]].next, L[q][i])
  BY <1>1, <1>2 DEF Stands, Before
<1>4. Advance(m, q) = [m EXCEPT !.queue[q].current = m.heap[L[q][i]].next,
                                !.queue[q].previous = L[q][i]]
  BY <1>0 DEF Advance, Memories, QueueRecs
<1>5. Turns(m, L, [m EXCEPT !.queue[q].current = m.heap[L[q][i]].next,
                            !.queue[q].previous = L[q][i]], L, q,
            Shown(Elems(m.heap, L[q]), i + 1, m.queue[q].duplicates, FALSE))
  BY <1>3, PositionTurns
<1> QED
  BY <1>4, <1>5

(* The elements of a queue are a sequence.                                 *)
LEMMA ElemsType ==
  ASSUME NEW m, NEW L, NEW P, Holds(m, L, P), NEW q \in Queues
  PROVE  /\ Elems(m.heap, L[q]) \in Seq(Promise!Elements)
         /\ Len(Elems(m.heap, L[q])) = Len(L[q])
         /\ DOMAIN Elems(m.heap, L[q]) = 1..Len(L[q])
         /\ \A i \in 1..Len(L[q]) : Elems(m.heap, L[q])[i] = Entry(m.heap[L[q][i]])
<1> DEFINE s == Elems(m.heap, L[q])
<1>1. Len(L[q]) \in Nat /\ \A i \in 1..Len(L[q]) : m.heap[L[q][i]] \in Node
  BY OneList
<1>2. \A i \in 1..Len(L[q]) : Entry(m.heap[L[q][i]]) \in Promise!Elements
  BY <1>1 DEF Node, Entry, Promise!Elements
<1>3. /\ s \in [1..Len(L[q]) -> Promise!Elements] /\ DOMAIN s = 1..Len(L[q])
      /\ \A i \in 1..Len(L[q]) : s[i] = Entry(m.heap[L[q][i]])
  BY <1>2 DEF Elems
<1> HIDE DEF s
<1>4. s \in Seq(Promise!Elements)
  BY <1>1, <1>3, SeqDef
<1>5. Len(s) = Len(L[q])
  BY <1>1, <1>3, <1>4, LenProperties
<1> QED
  BY <1>3, <1>4, <1>5 DEF s

(* s is the queue with the list l.                                         *)
HasElems(h, l, s) ==
  /\ s \in Seq(Promise!Elements) /\ Len(s) = Len(l)
  /\ \A i \in 1..Len(l) : s[i] = Entry(h[l[i]])

(* Every queue has its elements.                                           *)
LEMMA ElemsAre ==
  ASSUME NEW m, NEW L, NEW P, Holds(m, L, P), NEW q \in Queues
  PROVE  HasElems(m.heap, L[q], Elems(m.heap, L[q]))
<1>1. PICK s : s = Elems(m.heap, L[q])
  OBVIOUS
<1>2. s \in Seq(Promise!Elements) /\ Len(s) = Len(L[q])
  BY <1>1, ElemsType
<1>3. \A i \in 1..Len(L[q]) : s[i] = Entry(m.heap[L[q][i]])
  BY <1>1, ElemsType
<1> QED
  BY <1>1, <1>2, <1>3 DEF HasElems

(* RemoveAt() and InsertAt(), element by element.                          *)
Inserted(s, k, e, t) ==
  /\ Len(t) = Len(s) + 1
  /\ \A i \in 1..(Len(s) + 1) : t[i] = IF i < k THEN s[i] ELSE IF i = k THEN e ELSE s[i - 1]

(* RemoveAt() leaves one element out.                                      *)
LEMMA RemoveAtIs ==
  ASSUME NEW S, NEW s \in Seq(S), NEW j \in 1..Len(s)
  PROVE  /\ Promise!RemoveAt(s, j) \in Seq(S)
         /\ Len(Promise!RemoveAt(s, j)) = Len(s) - 1
         /\ \A i \in 1..(Len(s) - 1) :
              Promise!RemoveAt(s, j)[i] = IF i < j THEN s[i] ELSE s[i + 1]
<1> DEFINE a == SubSeq(s, 1, j - 1)
           b == SubSeq(s, j + 1, Len(s))
           d == a \o b
<1>0. Len(s) \in Nat /\ \A i \in 1..Len(s) : s[i] \in S
  BY ElementOfSeq
<1>1. /\ a \in Seq(S) /\ Len(a) = j - 1
      /\ \A i \in 1..(j - 1) : a[i] = s[i]
  <2>1. \A i \in 1..(j - 1) : s[i] \in S
    BY <1>0
  <2>2. /\ a \in Seq(S)
        /\ Len(a) = IF 1 <= j - 1 THEN ((j - 1) - 1) + 1 ELSE 0
        /\ \A i \in 1..(((j - 1) - 1) + 1) : a[i] = s[(1 + i) - 1]
    BY <2>1, SubSeqProperties
  <2> HIDE DEF a
  <2> QED
    BY <2>2
<1>2. /\ b \in Seq(S) /\ Len(b) = Len(s) - j
      /\ \A i \in 1..(Len(s) - j) : b[i] = s[j + i]
  <2>1. \A i \in (j + 1)..Len(s) : s[i] \in S
    BY <1>0
  <2>2. /\ b \in Seq(S)
        /\ Len(b) = IF j + 1 <= Len(s) THEN (Len(s) - (j + 1)) + 1 ELSE 0
        /\ \A i \in 1..((Len(s) - (j + 1)) + 1) : b[i] = s[((j + 1) + i) - 1]
    BY <1>0, <2>1, SubSeqProperties
  <2> HIDE DEF b
  <2>3. \A i \in 1..(Len(s) - j) : ((j + 1) + i) - 1 = j + i
    BY <1>0
  <2>4. (Len(s) - (j + 1)) + 1 = Len(s) - j /\ (j + 1 <= Len(s) <=> Len(s) - j # 0)
    BY <1>0
  <2> QED
    BY <1>0, <2>2, <2>3, <2>4
<1> HIDE DEF a, b
<1>3. /\ d \in Seq(S) /\ Len(d) = Len(a) + Len(b)
      /\ \A i \in 1..(Len(a) + Len(b)) : d[i] = IF i <= Len(a) THEN a[i] ELSE b[i - Len(a)]
  BY <1>1, <1>2, ConcatProperties
<1>4. Promise!RemoveAt(s, j) = d
  BY DEF Promise!RemoveAt, a, b
<1> HIDE DEF d
<1>5. Len(a) + Len(b) = Len(s) - 1
  BY <1>0, <1>1, <1>2
<1>6. ASSUME NEW i \in 1..(Len(s) - 1) PROVE d[i] = IF i < j THEN s[i] ELSE s[i + 1]
  <2>1. CASE i < j
    BY <1>0, <1>1, <1>3, <1>5, <2>1
  <2>2. CASE ~(i < j)
    <3>1. i - (j - 1) \in 1..(Len(s) - j) /\ j + (i - (j - 1)) = i + 1 /\ ~(i <= j - 1)
      BY <1>0, <2>2
    <3>2. d[i] = b[i - (j - 1)]
      BY <1>1, <1>3, <1>5, <3>1
    <3> QED
      BY <1>2, <2>2, <3>1, <3>2
  <2> QED
    BY <2>1, <2>2
<1> QED
  BY <1>3, <1>4, <1>5, <1>6

(* InsertAt() puts one in.                                                 *)
LEMMA InsertAtIs ==
  ASSUME NEW S, NEW s \in Seq(S), NEW k \in 1..(Len(s) + 1), NEW e \in S
  PROVE  /\ Promise!InsertAt(s, k, e) \in Seq(S)
         /\ Inserted(s, k, e, Promise!InsertAt(s, k, e))
<1> DEFINE a == SubSeq(s, 1, k - 1)
           b == SubSeq(s, k, Len(s))
           c == a \o <<e>>
           d == c \o b
<1>0. Len(s) \in Nat /\ \A i \in 1..Len(s) : s[i] \in S
  BY ElementOfSeq
<1>1. /\ a \in Seq(S) /\ Len(a) = k - 1
      /\ \A i \in 1..(k - 1) : a[i] = s[i]
  <2>1. \A i \in 1..(k - 1) : s[i] \in S
    BY <1>0
  <2>2. /\ a \in Seq(S)
        /\ Len(a) = IF 1 <= k - 1 THEN ((k - 1) - 1) + 1 ELSE 0
        /\ \A i \in 1..(((k - 1) - 1) + 1) : a[i] = s[(1 + i) - 1]
    BY <2>1, SubSeqProperties
  <2> HIDE DEF a
  <2> QED
    BY <1>0, <2>2
<1>2. /\ b \in Seq(S) /\ Len(b) = (Len(s) + 1) - k
      /\ \A i \in 1..((Len(s) + 1) - k) : b[i] = s[(k + i) - 1]
  <2>1. \A i \in k..Len(s) : s[i] \in S
    BY <1>0
  <2>2. /\ b \in Seq(S)
        /\ Len(b) = IF k <= Len(s) THEN (Len(s) - k) + 1 ELSE 0
        /\ \A i \in 1..((Len(s) - k) + 1) : b[i] = s[(k + i) - 1]
    BY <1>0, <2>1, SubSeqProperties
  <2> HIDE DEF b
  <2>3. (Len(s) - k) + 1 = (Len(s) + 1) - k /\ (k <= Len(s) <=> (Len(s) + 1) - k # 0)
    BY <1>0
  <2> QED
    BY <1>0, <2>2, <2>3
<1>3. <<e>> \in Seq(S) /\ Len(<<e>>) = 1 /\ <<e>>[1] = e
  OBVIOUS
<1> HIDE DEF a, b
<1>4. /\ c \in Seq(S) /\ Len(c) = k
      /\ \A i \in 1..k : c[i] = IF i < k THEN s[i] ELSE e
  <2>1. /\ c \in Seq(S) /\ Len(c) = Len(a) + Len(<<e>>)
        /\ \A i \in 1..(Len(a) + Len(<<e>>)) :
             c[i] = IF i <= Len(a) THEN a[i] ELSE <<e>>[i - Len(a)]
    BY <1>1, <1>3, ConcatProperties
  <2> HIDE DEF c
  <2> QED
    BY <1>0, <2>1, <1>1, <1>3
<1> HIDE DEF c
<1>5. /\ d \in Seq(S) /\ Len(d) = Len(c) + Len(b)
      /\ \A i \in 1..(Len(c) + Len(b)) : d[i] = IF i <= Len(c) THEN c[i] ELSE b[i - Len(c)]
  BY <1>2, <1>4, ConcatProperties
<1>6. Promise!InsertAt(s, k, e) = d
  BY DEF Promise!InsertAt, a, b, c
<1> HIDE DEF d
<1>7. Len(c) + Len(b) = Len(s) + 1
  BY <1>0, <1>2, <1>4
<1>8. ASSUME NEW i \in 1..(Len(s) + 1)
      PROVE  d[i] = IF i < k THEN s[i] ELSE IF i = k THEN e ELSE s[i - 1]
  <2>1. CASE i <= k
    BY <1>0, <1>4, <1>5, <1>7, <2>1
  <2>2. CASE ~(i <= k)
    <3>1. i - k \in 1..((Len(s) + 1) - k) /\ (k + (i - k)) - 1 = i - 1
      BY <1>0, <2>2
    <3>2. d[i] = b[i - k]
      BY <1>4, <1>5, <1>7, <2>2
    <3> QED
      BY <1>0, <1>2, <2>2, <3>1, <3>2
  <2> QED
    BY <2>1, <2>2
<1> QED
  BY <1>5, <1>6, <1>7, <1>8 DEF Inserted

(* Where x is first in a queue.                                            *)
LEMMA MatchIs ==
  ASSUME NEW m, NEW L, NEW P, Holds(m, L, P), NEW q \in Queues, NEW x
  PROVE  /\ Match(m, q, x) = Promise!IndexOf(Elems(m.heap, L[q]), x)
         /\ Match(m, q, x) \in 0..Len(L[q])
<1>1. PICK l : l = L[q]
  OBVIOUS
<1>2. PICK s : s = Elems(m.heap, l)
  OBVIOUS
<1> DEFINE found == {i \in 1..Len(l) : m.heap[l[i]].info = x}
           I == {i \in 1..Len(s) : s[i].info = x}
<1>3. List(m, q) = l /\ DOMAIN l = 1..Len(l) /\ Len(l) \in Nat
  BY <1>1, OneList
<1>4. Len(s) = Len(l) /\ \A i \in 1..Len(l) : s[i].info = m.heap[l[i]].info
  <2>1. /\ Len(s) = Len(l)
        /\ \A i \in 1..Len(l) : s[i] = Entry(m.heap[l[i]])
    BY <1>1, <1>2, ElemsType
  <2>2. \A node : Entry(node).info = node.info
    BY DEF Entry
  <2> QED
    BY <2>1, <2>2, Zenon
<1>5. I = found
  BY <1>4
<1>6. Match(m, q, x) = IF found = {} THEN 0 ELSE CHOOSE i \in found : \A j \in found : i <= j
  BY <1>3 DEF Match
<1>7. Promise!IndexOf(s, x) = IF I # {} THEN CHOOSE i \in I : \A j \in I : i <= j ELSE 0
  BY DEF Promise!IndexOf, Promise!SelectInSeq, Promise!Min
<1>8. found # {} => (CHOOSE i \in found : \A j \in found : i <= j) \in found
  <2>1. found \in SUBSET Nat
    BY <1>3
  <2> HIDE DEF found
  <2> QED
    BY <2>1, LeastExists
<1>9. found \subseteq 1..Len(l)
  OBVIOUS
<1> HIDE DEF found, I
<1>10. Match(m, q, x) = Promise!IndexOf(s, x)
  BY <1>5, <1>6, <1>7, Zenon
<1>11. Match(m, q, x) \in 0..Len(l)
  <2>1. CASE found = {}
    BY <1>3, <1>6, <2>1
  <2>2. CASE found # {}
    <3>1. Match(m, q, x) \in 1..Len(l)
      BY <1>6, <1>8, <1>9, <2>2, Zenon
    <3> QED
      BY <1>3, <3>1
  <2> QED
    BY <2>1, <2>2
<1> QED
  BY <1>1, <1>2, <1>10, <1>11, Zenon

(* nolock_element_in_queue().                                              *)
LEMMA FindTurns ==
  ASSUME NEW m, NEW L, NEW P, Holds(m, L, P), NEW q \in Queues, NEW x
  PROVE  Turns(m, L, ElementInQueue(m, q, x), L, q,
               Shown(Elems(m.heap, L[q]), IF Match(m, q, x) = 0 THEN 1 ELSE Match(m, q, x),
                     m.queue[q].duplicates, FALSE))
<1>1. PICK i \in 0..Len(L[q]) : i = Match(m, q, x)
  BY MatchIs
<1>2. List(m, q) = L[q] /\ Len(L[q]) \in Nat
  BY OneList
<1>3. CASE i = 0
  BY <1>1, <1>3, RewindTurns DEF ElementInQueue
<1>4. CASE i # 0
  <2> DEFINE p == IF i = 1 THEN NULL ELSE L[q][i - 1]
             n == [m EXCEPT !.queue[q].current = L[q][i], !.queue[q].previous = p]
  <2>1. ElementInQueue(m, q, x) = n
    BY <1>1, <1>2, <1>4 DEF ElementInQueue
  <2>2. Stands(L[q], i, L[q][i], p)
    BY <1>1, <1>2, <1>4 DEF Stands, After, Before
  <2> HIDE DEF p
  <2>3. Turns(m, L, n, L, q, Shown(Elems(m.heap, L[q]), i, m.queue[q].duplicates, FALSE))
    BY <2>2, PositionTurns
  <2> HIDE DEF n
  <2> QED
    BY <1>1, <1>4, <2>1, <2>3
<1> QED
  BY <1>3, <1>4

(* Steps that concern one queue, one after the other.                      *)
LEMMA TurnsOn ==
  ASSUME NEW m, NEW L, NEW n, NEW K, NEW o, NEW J, NEW q, NEW v,
         Aside(m, L, n, K, q), Turns(n, K, o, J, q, v)
  PROVE  Turns(m, L, o, J, q, v)
<1>1. Aside(n, K, o, J, q) /\ View(o, J, q) = v
  BY DEF Turns
<1>2. Aside(m, L, o, J, q)
  BY <1>1 DEF Aside, Same
<1> QED
  BY <1>1, <1>2 DEF Turns

(* A node is unlinked: what the other nodes and queues keep.               *)
LEMMA UnlinkIs ==
  ASSUME NEW m, NEW L, NEW P, Holds(m, L, P), NEW q \in Queues, NEW j \in 1..Len(L[q]),
         NEW n, n = Unlink(m, q, Before(L[q], j), L[q][j])
  PROVE  /\ Values(m.heap, n.heap)
         /\ \A r \in Queues \ {q} : n.queue[r] = m.queue[r]
         /\ n.queue[q].current = m.queue[q].current
         /\ n.queue[q].previous = m.queue[q].previous
         /\ n.queue[q].duplicates = m.queue[q].duplicates
         /\ n.failed = m.failed
<1>1. m \in Memories
  BY DEF Holds
<1>2. PICK p : p = Before(L[q], j)
  OBVIOUS
<1>3. PICK c : c = L[q][j]
  OBVIOUS
<1>4. PICK g : g = IF p = NULL THEN m.heap ELSE [m.heap EXCEPT ![p].next = m.heap[c].next]
  OBVIOUS
<1>5. /\ n.heap = Free(g, {c}) /\ n.failed = m.failed
      /\ \A r \in Queues \ {q} : n.queue[r] = m.queue[r]
      /\ n.queue[q].current = m.queue[q].current
      /\ n.queue[q].previous = m.queue[q].previous
      /\ n.queue[q].duplicates = m.queue[q].duplicates
  <2>1. PICK o : o = [m EXCEPT !.heap = Free(g, {c}),
                               !.queue[q].queue = IF p = NULL THEN m.heap[@].next ELSE @,
                               !.queue[q].queuelength = @ - 1]
    OBVIOUS
  <2>2. n = o
    BY <1>2, <1>3, <1>4, <2>1 DEF Unlink
  <2>3. o.heap = Free(g, {c}) /\ o.failed = m.failed
    BY <1>1, <2>1 DEF Memories
  <2>4. \A r \in Queues \ {q} : o.queue[r] = m.queue[r]
    BY <1>1, <2>1 DEF Memories
  <2>5. /\ o.queue[q].current = m.queue[q].current
        /\ o.queue[q].previous = m.queue[q].previous
        /\ o.queue[q].duplicates = m.queue[q].duplicates
    <3>1. PICK r : r = m.queue[q]
      OBVIOUS
    <3>2. PICK u : u = IF p = NULL THEN m.heap[r.queue].next ELSE r.queue
      OBVIOUS
    <3>3. PICK k : k = r.queuelength - 1
      OBVIOUS
    <3>4. o.queue[q] = [r EXCEPT !.queue = u, !.queuelength = k]
      BY <1>1, <2>1, <3>1, <3>2, <3>3 DEF Memories, QueueRecs
    <3>5. r \in QueueRecs
      BY <1>1, <3>1 DEF Memories
    <3> QED
      BY <3>1, <3>4, <3>5 DEF QueueRecs
  <2> QED
    BY <2>2, <2>3, <2>4, <2>5
<1>6. DOMAIN m.heap \subseteq Addr /\ \A a \in DOMAIN m.heap : m.heap[a] \in Node
  BY <1>1, HeapType DEF Memories
<1>7. DOMAIN g = DOMAIN m.heap /\ \A a \in DOMAIN m.heap : Entry(g[a]) = Entry(m.heap[a])
  BY <1>4, <1>6 DEF Node, Entry
<1>8. Values(m.heap, n.heap)
  BY <1>5, <1>7 DEF Values, Free
<1> QED
  BY <1>5, <1>8

(* The queue without the element.                                          *)
LEMMA CutElems ==
  ASSUME NEW m, NEW L, NEW P, Holds(m, L, P), NEW q \in Queues, NEW j \in 1..Len(L[q]),
         NEW n, NEW R, Holds(n, [L EXCEPT ![q] = Cut(L[q], j)], R), Values(m.heap, n.heap)
  PROVE  Elems(n.heap, Cut(L[q], j)) = Promise!RemoveAt(Elems(m.heap, L[q]), j)
<1> DEFINE K == [L EXCEPT ![q] = Cut(L[q], j)]
<1>0. PICK l \in Seq(Addr) : l = L[q]
  BY DEF Holds
<1>1. PICK k : k = Cut(l, j)
  OBVIOUS
<1>2. K[q] = k
  BY <1>0, <1>1 DEF Holds
<1>3. /\ Len(l) \in Nat /\ j \in 1..Len(l)
      /\ \A i \in 1..Len(l) : l[i] \in DOMAIN m.heap
  BY <1>0, OneList
<1>4. /\ Len(k) = Len(l) - 1
      /\ \A i \in 1..(Len(l) - 1) : k[i] = IF i < j THEN l[i] ELSE l[i + 1]
  <2>1. \A i, h \in 1..Len(l) : l[i] = l[h] => i = h
    BY <1>0 DEF Holds, Chain, IsList
  <2> QED
    BY <1>1, <1>3, <2>1, CutIs
<1> HIDE DEF K
<1>5. /\ Elems(n.heap, k) \in Seq(Promise!Elements) /\ Len(Elems(n.heap, k)) = Len(k)
      /\ \A i \in 1..Len(k) : Elems(n.heap, k)[i] = Entry(n.heap[k[i]])
      /\ \A i \in 1..Len(k) : k[i] \in DOMAIN n.heap
  <2>1. Holds(n, K, R)
    BY DEF K
  <2> QED
    BY <1>2, <2>1, ElemsType, OneList
<1>6. PICK s \in Seq(Promise!Elements) : s = Elems(m.heap, l)
  BY <1>0, ElemsType
<1>7. Len(s) = Len(l) /\ \A i \in 1..Len(l) : s[i] = Entry(m.heap[l[i]])
  BY <1>0, <1>6, ElemsType
<1>8. /\ Promise!RemoveAt(s, j) \in Seq(Promise!Elements)
      /\ Len(Promise!RemoveAt(s, j)) = Len(s) - 1
      /\ \A i \in 1..(Len(s) - 1) :
           Promise!RemoveAt(s, j)[i] = IF i < j THEN s[i] ELSE s[i + 1]
  BY <1>3, <1>7, RemoveAtIs
<1>9. ASSUME NEW i \in 1..Len(k) PROVE Elems(n.heap, k)[i] = Promise!RemoveAt(s, j)[i]
  <2>1. i \in 1..(Len(l) - 1) /\ i \in 1..Len(l) /\ i + 1 \in 1..Len(l)
    BY <1>3, <1>4
  <2>2. PICK h \in 1..Len(l) : h = IF i < j THEN i ELSE i + 1
    BY <2>1
  <2>3. k[i] = l[h] /\ Promise!RemoveAt(s, j)[i] = s[h]
    BY <1>4, <1>7, <1>8, <2>1, <2>2
  <2>4. Entry(n.heap[l[h]]) = Entry(m.heap[l[h]])
    BY <1>3, <1>5, <2>3 DEF Values
  <2> QED
    BY <1>5, <1>7, <2>3, <2>4
<1>10. Elems(n.heap, k) = Promise!RemoveAt(s, j)
  <2>1. Len(Elems(n.heap, k)) = Len(Promise!RemoveAt(s, j))
    BY <1>4, <1>5, <1>7, <1>8
  <2>2. \A i \in 1..Len(Elems(n.heap, k)) : Elems(n.heap, k)[i] = Promise!RemoveAt(s, j)[i]
    BY <1>5, <1>9
  <2> QED
    BY <1>5, <1>8, <2>1, <2>2, SeqEqual
<1> QED
  BY <1>0, <1>1, <1>6, <1>10

(* remove_from_front() of a queue that is not empty.                       *)
LEMMA RemoveFrontTurns ==
  ASSUME NEW m, NEW L, NEW P, Holds(m, L, P), NEW q \in Queues, m.queue[q].queue # NULL
  PROVE  /\ L[q] # <<>> /\ m.queue[q].queue = L[q][1] /\ 1 \in 1..Len(L[q])
         /\ RemoveFront(m, q).failed = m.failed
         /\ \E K : /\ Holds(RemoveFront(m, q), K, {})
                   /\ Turns(m, L, RemoveFront(m, q), K, q,
                            Shown(Tail(Elems(m.heap, L[q])), 1, m.queue[q].duplicates, FALSE))
<1>0. m \in Memories
  BY DEF Holds
<1>1. /\ Len(L[q]) \in Nat /\ m.queue[q].queue = After(L[q], 0)
      /\ \A i \in 1..Len(L[q]) : L[q][i] \in Addr
  BY OneList
<1>2. 1 \in 1..Len(L[q]) /\ m.queue[q].queue = L[q][1] /\ L[q] # <<>>
  BY <1>1 DEF After
<1>3. PICK a : a = L[q][1]
  OBVIOUS
<1> DEFINE n == Unlink(m, q, Before(L[q], 1), a)
           K == [L EXCEPT ![q] = Cut(L[q], 1)]
           s == Elems(m.heap, L[q])
<1>4. Before(L[q], 1) = NULL
  BY DEF Before
<1>5. Holds(n, K, P \ {q})
  BY <1>2, <1>3, <1>4, UnlinkHolds
<1>6. RemoveFront(m, q) = Rewind(n, q)
  <2>1. n = [m EXCEPT !.heap = Free(m.heap, {a}), !.queue[q].queue = m.heap[a].next,
                      !.queue[q].queuelength = @ - 1]
    BY <1>0, <1>2, <1>3, <1>4 DEF Unlink, Memories, QueueRecs
  <2> QED
    BY <1>2, <1>3, <2>1 DEF RemoveFront
<1>7. K[q] = Cut(L[q], 1)
  BY DEF Holds
<1> HIDE DEF n
<1>8. /\ Values(m.heap, n.heap) /\ \A r \in Queues \ {q} : n.queue[r] = m.queue[r]
      /\ n.queue[q].duplicates = m.queue[q].duplicates
      /\ n.failed = m.failed
  BY <1>2, <1>3, UnlinkIs DEF n
<1>9. Elems(n.heap, K[q]) = Promise!RemoveAt(s, 1)
  <2>1. Elems(n.heap, Cut(L[q], 1)) = Promise!RemoveAt(Elems(m.heap, L[q]), 1)
    <3>1. 1 \in 1..Len(L[q]) /\ Values(m.heap, n.heap)
      BY <1>2, <1>8
    <3> QED
      BY <1>5, <3>1, CutElems, Zenon
  <2> QED
    BY <1>7, <2>1
<1>10. Promise!RemoveAt(s, 1) = Tail(s)
  <2>1. s \in Seq(Promise!Elements) /\ Len(s) = Len(L[q])
    BY ElemsType
  <2> HIDE DEF s
  <2>2. s # <<>> /\ 1 \in 1..Len(s) /\ Len(s) \in Nat
    BY <1>1, <1>2, <2>1
  <2>3. /\ Tail(s) \in Seq(Promise!Elements) /\ Len(Tail(s)) = Len(s) - 1
        /\ \A i \in 1..Len(Tail(s)) : Tail(s)[i] = s[i + 1]
    BY <2>1, <2>2, HeadTailProperties
  <2>4. /\ Promise!RemoveAt(s, 1) \in Seq(Promise!Elements)
        /\ Len(Promise!RemoveAt(s, 1)) = Len(s) - 1
        /\ \A i \in 1..(Len(s) - 1) :
             Promise!RemoveAt(s, 1)[i] = IF i < 1 THEN s[i] ELSE s[i + 1]
    BY <2>1, <2>2, RemoveAtIs
  <2>5. \A i \in 1..(Len(s) - 1) : Promise!RemoveAt(s, 1)[i] = Tail(s)[i]
    BY <2>2, <2>3, <2>4
  <2> QED
    BY <2>3, <2>4, <2>5, SeqEqual
<1>11. Aside(m, L, n, K, q)
  BY <1>5, <1>8, OthersSame
<1> HIDE DEF K, s
<1>12. Holds(Rewind(n, q), K, (P \ {q}) \cup {q})
  BY <1>5, RewindHolds
<1>13. Turns(n, K, Rewind(n, q), K, q,
             Shown(Elems(n.heap, K[q]), 1, n.queue[q].duplicates, FALSE))
  BY <1>5, RewindTurns
<1>14. Turns(m, L, Rewind(n, q), K, q,
             Shown(Elems(n.heap, K[q]), 1, n.queue[q].duplicates, FALSE))
  BY <1>11, <1>13, TurnsOn
<1>15. Turns(m, L, Rewind(n, q), K, q, Shown(Tail(s), 1, m.queue[q].duplicates, FALSE))
  BY <1>8, <1>9, <1>10, <1>14
<1>16. Holds(Rewind(n, q), K, {})
  BY <1>12, Fewer
<1>17. Rewind(n, q).failed = n.failed
  <2>1. n \in Memories
    BY <1>5 DEF Holds
  <2> QED
    BY <2>1 DEF Rewind, Memories
<1>18. RemoveFront(m, q).failed = m.failed
  BY <1>6, <1>8, <1>17
<1> QED
  BY <1>2, <1>6, <1>15, <1>16, <1>18 DEF s

(* nolock_destroy_queue().                                                 *)
LEMMA DestroyTurns ==
  ASSUME NEW m, NEW L, NEW P, Holds(m, L, P), NEW q \in Queues
  PROVE  /\ DestroyQueue(m, q).failed = m.failed
         /\ Turns(m, L, DestroyQueue(m, q), [L EXCEPT ![q] = <<>>], q,
                  Shown(<<>>, 1, m.queue[q].duplicates, FALSE))
<1> DEFINE n == DestroyQueue(m, q)
           K == [L EXCEPT ![q] = <<>>]
<1>0. m \in Memories
  BY DEF Holds
<1>1. Holds(n, K, P \cup {q})
  BY DestroyHolds
<1>2. /\ n.heap = Free(m.heap, ToSet(List(m, q))) /\ n.failed = m.failed
      /\ n.queue[q].current = NULL /\ n.queue[q].duplicates = m.queue[q].duplicates
      /\ \A r \in Queues \ {q} : n.queue[r] = m.queue[r]
  BY <1>0 DEF DestroyQueue, Rewind, Memories, QueueRecs
<1> HIDE DEF n
<1>3. Values(m.heap, n.heap)
  BY <1>2 DEF Values, Free
<1>4. Aside(m, L, n, K, q)
  BY <1>1, <1>2, <1>3, OthersSame
<1>5. K[q] = <<>>
  BY DEF Holds
<1>6. View(n, K, q) = Shown(<<>>, 1, m.queue[q].duplicates, FALSE)
  <2>1. Len(<<>>) = 0 /\ 1..0 = {}
    OBVIOUS
  <2>2. Elems(n.heap, <<>>) = <<>> /\ Loose(n.queue[q], <<>>) = FALSE
    BY <2>1 DEF Elems, Loose
  <2>3. Spot(NULL, <<>>) = 1
    BY <2>1 DEF Spot
  <2> QED
    BY <1>2, <1>5, <2>2, <2>3 DEF View
<1> QED
  BY <1>2, <1>4, <1>6 DEF Turns, n

(* update_current(): of a node of q.                                       *)
LEMMA UpdateTurns ==
  ASSUME NEW m, NEW L, NEW P, Holds(m, L, P), NEW q \in Queues, NEW i \in 1..Len(L[q]),
         NEW x \in Items
  PROVE  /\ [m EXCEPT !.heap[L[q][i]].info = x].failed = m.failed
         /\ Turns(m, L, [m EXCEPT !.heap[L[q][i]].info = x], L, q,
                  [View(m, L, q) EXCEPT !.seq[i].info = x])
<1> DEFINE c == L[q][i]
           n == [m EXCEPT !.heap[c].info = x]
<1>0. m \in Memories /\ m.heap \in Heaps
  BY DEF Holds, Memories
<1>1. c \in DOMAIN m.heap
  BY OneList
<1>2. \A a \in DOMAIN m.heap : m.heap[a] \in Node
  BY <1>0, HeapType
<1>3. /\ n.queue = m.queue /\ n.failed = m.failed /\ DOMAIN n.heap = DOMAIN m.heap
      /\ \A a \in DOMAIN m.heap \ {c} : n.heap[a] = m.heap[a]
      /\ n.heap[c] = [m.heap[c] EXCEPT !.info = x]
  BY <1>0, <1>1 DEF Memories
<1> HIDE DEF n
<1>4. Entry(n.heap[c]) = [Entry(m.heap[c]) EXCEPT !.info = x]
  BY <1>1, <1>2, <1>3 DEF Entry, Node
<1>5. \A r \in Queues : \A j \in 1..Len(L[r]) : L[r][j] = c <=> r = q /\ j = i
  <2>1. ASSUME NEW r \in Queues, NEW j \in 1..Len(L[r]), L[r][j] = c PROVE r = q /\ j = i
    <3>1. r = q
      <4>1. c \in NodesOf(L[r]) /\ c \in NodesOf(L[q])
        BY <2>1 DEF NodesOf
      <4> QED
        BY <4>1 DEF Holds
    <3>2. \A k, h \in 1..Len(L[q]) : L[q][k] = L[q][h] => k = h
      BY DEF Holds, Chain, IsList
    <3> QED
      BY <2>1, <3>1, <3>2
  <2> QED
    BY <2>1
<1>6. Aside(m, L, n, L, q)
  <2> SUFFICES ASSUME NEW r \in Queues \ {q} PROVE Same(m, L, n, L, r)
    BY DEF Aside
  <2>1. \A j \in 1..Len(L[r]) : L[r][j] \in DOMAIN m.heap \ {c}
    BY <1>5, OneList
  <2>2. Elems(n.heap, L[r]) = Elems(m.heap, L[r])
    BY <1>3, <2>1 DEF Elems
  <2> QED
    BY <1>3, <2>2 DEF Same
<1>7. Elems(n.heap, L[q]) = [Elems(m.heap, L[q]) EXCEPT ![i].info = x]
  <2>1. \A j \in 1..Len(L[q]) : j # i => L[q][j] \in DOMAIN m.heap \ {c}
    BY <1>5, OneList
  <2>2. \A j \in 1..Len(L[q]) :
          Entry(n.heap[L[q][j]]) = IF j = i THEN [Entry(m.heap[c]) EXCEPT !.info = x]
                                   ELSE Entry(m.heap[L[q][j]])
    BY <1>3, <1>4, <2>1
  <2> HIDE DEF c
  <2> DEFINE s == Elems(m.heap, L[q])
  <2>3. s = [j \in 1..Len(L[q]) |-> Entry(m.heap[L[q][j]])] /\ s[i] = Entry(m.heap[c])
    BY DEF Elems, c
  <2>4. [s EXCEPT ![i].info = x]
          = [j \in 1..Len(L[q]) |-> IF j = i THEN [Entry(m.heap[c]) EXCEPT !.info = x]
                                    ELSE Entry(m.heap[L[q][j]])]
    BY <2>3
  <2> HIDE DEF s
  <2> QED
    BY <2>2, <2>4 DEF Elems, s
<1>8. View(n, L, q) = [View(m, L, q) EXCEPT !.seq[i].info = x]
  BY <1>3, <1>7 DEF View, Shown
<1> QED
  BY <1>3, <1>6, <1>8 DEF Turns, n

(* delete_current(): the node behind the deleted one is the position.      *)
LEMMA DeleteTurns ==
  ASSUME NEW m, NEW L, NEW P, Holds(m, L, P), NEW q \in Queues, NEW j \in 1..Len(L[q]),
         m.queue[q].current = L[q][j], m.queue[q].previous = Before(L[q], j)
  PROVE  /\ DeleteCurrent(m, q).failed = m.failed
         /\ \E K : /\ Holds(DeleteCurrent(m, q), K, {})
                   /\ Turns(m, L, DeleteCurrent(m, q), K, q,
                            Shown(Promise!RemoveAt(Elems(m.heap, L[q]), j), j,
                                  m.queue[q].duplicates, FALSE))
<1>0. m \in Memories
  BY DEF Holds
<1>1. PICK l \in Seq(Addr) : l = L[q]
  BY DEF Holds
<1>2. PICK len \in Nat : len = Len(l)
  BY <1>1, OneList
<1>3. /\ j \in 1..len /\ m.heap[l[j]].next = After(l, j)
      /\ \A i, k \in 1..len : l[i] = l[k] => i = k
      /\ \A i \in 1..len : l[i] \in Addr
  BY <1>1, <1>2, OneList DEF Holds, Chain, IsList
<1> DEFINE n == Unlink(m, q, Before(l, j), l[j])
           k == Cut(l, j)
           K == [L EXCEPT ![q] = k]
           c == m.heap[l[j]].next
           o == [n EXCEPT !.queue[q].current = c, !.queue[q].previous = Before(l, j)]
<1>4. Holds(n, K, P \ {q})
  BY <1>1, UnlinkHolds DEF Before
<1>5. K[q] = k
  BY DEF Holds
<1> HIDE DEF n
<1>6. /\ Values(m.heap, n.heap) /\ \A r \in Queues \ {q} : n.queue[r] = m.queue[r]
      /\ n.queue[q].duplicates = m.queue[q].duplicates
      /\ n.queue[q].previous = Before(l, j)
      /\ n.failed = m.failed
  BY <1>1, UnlinkIs DEF n
<1>7. Elems(n.heap, k) = Promise!RemoveAt(Elems(m.heap, l), j)
  <2>1. Holds(n, [L EXCEPT ![q] = Cut(L[q], j)], P \ {q})
    BY <1>1, <1>4
  <2>2. Elems(n.heap, Cut(L[q], j)) = Promise!RemoveAt(Elems(m.heap, L[q]), j)
    <3>1. j \in 1..Len(L[q]) /\ Values(m.heap, n.heap)
      BY <1>6
    <3> QED
      BY <2>1, <3>1, CutElems, SMTT(30)
  <2> QED
    BY <1>1, <2>2
<1>8. Aside(m, L, n, K, q)
  BY <1>4, <1>6, OthersSame
<1>9. Stands(k, j, c, Before(l, j))
  <2>1. /\ Len(k) = len - 1
        /\ \A i \in 1..(len - 1) : k[i] = IF i < j THEN l[i] ELSE l[i + 1]
    BY <1>2, <1>3, CutIs, ZenonT(60)
  <2> HIDE DEF k
  <2>2. j \in 1..(Len(k) + 1) /\ (j - 1) + 1 = j /\ len = Len(k) + 1
    BY <1>3, <2>1
  <2>3. c = After(k, j - 1)
    BY <1>2, <1>3, <2>1, <2>2 DEF After
  <2>4. j <= Len(k) => Before(l, j) = Before(k, j)
    BY <1>3, <2>1, <2>2 DEF Before
  <2> QED
    BY <2>2, <2>3, <2>4 DEF Stands
<1>10. DeleteCurrent(m, q) = o /\ o.failed = m.failed
  <2>1. DeleteCurrent(m, q) = [n EXCEPT !.queue[q].current = c]
    BY <1>1 DEF DeleteCurrent, n
  <2>2. n \in Memories /\ n.queue \in [Queues -> QueueRecs]
    BY <1>4 DEF Holds, Memories
  <2> HIDE DEF c
  <2> QED
    BY <1>6, <2>1, <2>2, ZenonT(60) DEF Memories, QueueRecs
<1> HIDE DEF K, k, c
<1>11. Turns(n, K, o, K, q, Shown(Elems(n.heap, K[q]), j, n.queue[q].duplicates, FALSE))
  BY <1>4, <1>5, <1>9, PositionTurns
<1>12. Holds(o, K, {})
  <2>1. \E J : Holds(DeleteCurrent(m, q), J, P \cup {q})
    BY DeleteHolds DEF Before
  <2>2. o \in Memories
    BY <1>10, <2>1 DEF Holds
  <2>3. n \in Memories /\ n.queue \in [Queues -> QueueRecs]
    BY <1>4 DEF Holds, Memories
  <2>4. o.heap = n.heap /\ \A r \in Queues : /\ o.queue[r].queue = n.queue[r].queue
                                       /\ o.queue[r].queuelength = n.queue[r].queuelength
    BY <2>3 DEF Memories, QueueRecs
  <2> HIDE DEF o
  <2>5. \A r \in {} : Standing(o.queue[r], K[r])
    OBVIOUS
  <2>6. {} \in SUBSET Queues
    OBVIOUS
  <2> QED
    BY <1>4, <2>2, <2>4, <2>5, <2>6, ListsStay
<1> HIDE DEF o
<1>13. Turns(m, L, o, K, q, Shown(Elems(n.heap, K[q]), j, n.queue[q].duplicates, FALSE))
  BY <1>8, <1>11, TurnsOn
<1> QED
  BY <1>1, <1>5, <1>6, <1>7, <1>10, <1>12, <1>13

(* A position that is no longer next to the node before it has lost that   *)
(* node to another thread: what r calls previous is not in the list.       *)
Apart(r, l) == \A j \in 1..Len(l) : r.current = l[j] =>
                 r.previous = Before(l, j) \/ r.previous \notin NodesOf(l) \cup {NULL}

(* Where a position is when a Context has taken node i out of the list.    *)
LEMMA PositionLeft ==
  ASSUME NEW l \in Seq(Addr), \A j, k \in 1..Len(l) : l[j] = l[k] => j = k,
         NEW i \in 1..Len(l), NEW r, Apart(r, l), NEW p, p = Spot(r.current, l),
         NEW o, o = IF p < i THEN p ELSE IF p = i THEN 0 ELSE p - 1
  PROVE  /\ Spot(r.current, Cut(l, i)) = o /\ Apart(r, Cut(l, i))
         /\ Loose(r, Cut(l, i)) <=> (o \in 1..(Len(l) - 1) /\ (Loose(r, l) \/ i = o))
<1>1. PICK len \in Nat : len = Len(l)
  BY LenProperties
<1>2. PICK g : g = Cut(l, i)
  OBVIOUS
<1>3. /\ Len(g) = len - 1 /\ NodesOf(g) = NodesOf(l) \ {l[i]}
      /\ \A j \in 1..(len - 1) : g[j] = IF j < i THEN l[j] ELSE l[j + 1]
      /\ \A j, k \in 1..(len - 1) : g[j] = g[k] => j = k
  <2>1. /\ Len(g) = Len(l) - 1 /\ NodesOf(g) = NodesOf(l) \ {l[i]}
        /\ \A j \in 1..(Len(l) - 1) : g[j] = IF j < i THEN l[j] ELSE l[j + 1]
        /\ \A j, k \in 1..(Len(l) - 1) : g[j] = g[k] => j = k
    <3>1. \A j, k \in 1..Len(l) : l[j] = l[k] => j = k
      OBVIOUS
    <3>2. /\ Len(Cut(l, i)) = Len(l) - 1 /\ NodesOf(Cut(l, i)) = NodesOf(l) \ {l[i]}
          /\ \A j \in 1..(Len(l) - 1) : Cut(l, i)[j] = IF j < i THEN l[j] ELSE l[j + 1]
          /\ \A j, k \in 1..(Len(l) - 1) : Cut(l, i)[j] = Cut(l, i)[k] => j = k
      BY <3>1, CutIs
    <3> QED
      BY <1>2, <3>2, Zenon
  <2> QED
    BY <1>1, <2>1
<1>4. /\ i \in 1..len
      /\ \A j \in 1..len : l[j] \in NodesOf(l) /\ l[j] # NULL /\ (l[j] = l[i] => j = i)
  <2>1. \A j \in 1..len : l[j] \in Addr
    BY <1>1, ElementOfSeq
  <2> QED
    BY <1>1, <2>1 DEF NodesOf, Addr, NULL
<1>5. CASE r.current = NULL
  <2>1. p = len + 1 /\ Spot(r.current, g) = len
    BY <1>1, <1>3, <1>5 DEF Spot
  <2>2. o = len
    BY <1>4, <2>1
  <2>3. \A j \in 1..(len - 1) : g[j] # r.current
    <3>1. ASSUME NEW j \in 1..(len - 1) PROVE g[j] # NULL
      <4>1. j \in 1..len /\ j + 1 \in 1..len
        OBVIOUS
      <4> QED
        BY <1>3, <1>4, <4>1
    <3> QED
      BY <1>5, <3>1
  <2> QED
    BY <1>1, <1>2, <1>3, <2>1, <2>2, <2>3 DEF Loose, Apart
<1>6. CASE r.current # NULL /\ r.current \notin NodesOf(l)
  <2>1. p = 0 /\ Spot(r.current, g) = 0 /\ o = 0
    BY <1>3, <1>4, <1>6 DEF Spot
  <2>2. \A j \in 1..(len - 1) : g[j] # r.current
    BY <1>3, <1>6 DEF NodesOf
  <2> QED
    BY <1>1, <1>2, <1>3, <2>1, <2>2 DEF Loose, Apart
<1>7. CASE r.current = l[i]
  <2>1. p = i
    <3>1. (CHOOSE j \in 1..Len(l) : l[j] = r.current) = i
      BY <1>1, <1>4, <1>7
    <3> QED
      BY <1>4, <1>7, <3>1 DEF Spot
  <2>2. o = 0 /\ r.current \notin NodesOf(g) /\ r.current # NULL
    BY <1>3, <1>4, <1>7, <2>1
  <2>3. Spot(r.current, g) = 0
    BY <2>2 DEF Spot
  <2>4. \A j \in 1..(len - 1) : g[j] # r.current
    BY <1>3, <2>2 DEF NodesOf
  <2> QED
    BY <1>1, <1>2, <1>3, <2>2, <2>3, <2>4 DEF Loose, Apart
<1>8. ASSUME NEW j \in 1..len, r.current = l[j], j # i
      PROVE  /\ Spot(r.current, g) = o /\ Apart(r, g)
             /\ Loose(r, g) <=> (o \in 1..(Len(l) - 1) /\ (Loose(r, l) \/ i = o))
  <2>1. p = j /\ (Loose(r, l) <=> r.previous # Before(l, j))
    <3>1. \A k \in 1..len : l[k] = r.current => k = j
      BY <1>1, <1>8
    <3>2. (CHOOSE k \in 1..Len(l) : l[k] = r.current) = j
      BY <1>1, <1>8, <3>1
    <3> QED
      BY <1>1, <1>4, <1>8, <3>1, <3>2 DEF Spot, Loose
  <2>2. o = (IF j < i THEN j ELSE j - 1) /\ o \in 1..(len - 1) /\ o = IF j < i THEN j ELSE j - 1
    BY <1>4, <1>8, <2>1
  <2>3. g[o] = r.current
    <3>1. CASE j < i
      BY <1>3, <1>8, <2>2, <3>1
    <3>2. CASE ~(j < i)
      <4>1. o = j - 1 /\ ~(o < i) /\ o + 1 = j
        BY <1>4, <1>8, <2>2, <3>2
      <4> QED
        BY <1>3, <1>8, <2>2, <4>1
    <3> QED
      BY <3>1, <3>2
  <2>4. \A k \in 1..(len - 1) : g[k] = r.current => k = o
    BY <1>3, <2>2, <2>3
  <2>5. Spot(r.current, g) = o
    <3>1. (CHOOSE k \in 1..Len(g) : g[k] = r.current) = o
      BY <1>3, <2>2, <2>3, <2>4
    <3>2. r.current # NULL /\ r.current \in NodesOf(g)
      BY <1>3, <1>4, <1>8, <2>2, <2>3 DEF NodesOf
    <3> QED
      BY <3>1, <3>2 DEF Spot
  <2>6. Loose(r, g) <=> r.previous # Before(g, o)
    BY <1>3, <2>2, <2>3, <2>4 DEF Loose
  <2>7. r.previous = Before(l, j) \/ r.previous \notin NodesOf(l) \cup {NULL}
    BY <1>1, <1>8 DEF Apart
  <2>8. CASE o # i
    <3>1. Before(g, o) = Before(l, j)
      <4>1. CASE o = 1
        BY <1>4, <1>8, <2>2, <2>8, <4>1 DEF Before
      <4>2. CASE o # 1
        <5>1. o - 1 \in 1..(len - 1) /\ j # 1
          BY <2>2, <4>2
        <5>2. g[o - 1] = l[j - 1]
          BY <1>3, <1>4, <1>8, <2>2, <2>8, <5>1
        <5> QED
          BY <4>2, <5>1, <5>2 DEF Before
      <4> QED
        BY <4>1, <4>2
    <3>2. Apart(r, g)
      BY <1>3, <2>4, <2>7, <3>1 DEF Apart
    <3> QED
      BY <1>1, <2>1, <2>2, <2>5, <2>6, <2>8, <3>1, <3>2 DEF Loose
  <2>9. CASE o = i
    <3>1. j = i + 1 /\ Before(l, j) = l[i] /\ Before(g, i) = Before(l, i)
      <4>1. j = i + 1 /\ j # 1 /\ j - 1 = i
        BY <1>4, <2>2, <2>9
      <4>2. i # 1 => i - 1 \in 1..(len - 1) /\ i - 1 < i
        BY <1>4, <1>8
      <4>3. i # 1 => g[i - 1] = l[i - 1]
        BY <1>3, <4>2
      <4> QED
        BY <4>1, <4>3 DEF Before
    <3>2. Before(l, i) \in (NodesOf(l) \cup {NULL}) /\ Before(l, i) # l[i]
      <4>1. i # 1 => i - 1 \in 1..len /\ i - 1 # i
        BY <1>4
      <4> QED
        BY <1>4, <4>1 DEF Before
    <3>3. r.previous \notin NodesOf(g) \cup {NULL}
      BY <1>3, <1>4, <2>7, <3>1
    <3>4. r.previous # Before(g, o)
      BY <2>7, <2>9, <3>1, <3>2
    <3>5. Apart(r, g)
      BY <3>3 DEF Apart
    <3> QED
      BY <1>1, <2>2, <2>5, <2>6, <2>9, <3>4, <3>5 DEF Loose
  <2> QED
    BY <2>8, <2>9
<1> QED
  <2>1. r.current \in NodesOf(l) => \E j \in 1..len : r.current = l[j]
    BY <1>1 DEF NodesOf
  <2> QED
    BY <1>2, <1>5, <1>6, <1>7, <1>8, <2>1

(* Fields that change.                                                     *)
Moved(c, t, o, w) == [c EXCEPT !.seq = t, !.pos = o, !.loose = w]
(* Moved() changes nothing else.                                           *)
LEMMA MovedIs ==
  ASSUME NEW s, NEW p, NEW d, NEW b, NEW t, NEW o, NEW w
  PROVE  Moved(Shown(s, p, d, b), t, o, w) = Shown(t, o, d, w)
<1> DEFINE c == Shown(s, p, d, b)
<1>1. [c EXCEPT !.seq = t, !.pos = o, !.loose = w]
        = [f \in DOMAIN c |-> IF f = "loose" THEN w ELSE IF f = "pos" THEN o
                              ELSE IF f = "seq" THEN t ELSE c[f]]
  BY DEF Shown
<1> QED
  BY <1>1 DEF Shown, Moved

-----------------------------------------------------------------------------
(***************************************************************************)
(* A Context takes a node away, elements go in, queues are copied.         *)
(***************************************************************************)
(* local_delete_current(): the position of the queue stays where it is.    *)
LEMMA UnlinkTurns ==
  ASSUME NEW m, NEW L, NEW P, Holds(m, L, P), NEW q \in Queues, NEW i \in 1..Len(L[q]),
         Apart(m.queue[q], L[q]), NEW n, n = Unlink(m, q, Before(L[q], i), L[q][i])
  PROVE  /\ n.failed = m.failed
         /\ \E K : /\ Holds(n, K, {}) /\ Apart(n.queue[q], K[q])
                   /\ Turns(m, L, n, K, q, Promise!Without(View(m, L, q), i))
<1>1. PICK l \in Seq(Addr) : l = L[q]
  BY DEF Holds
<1>2. PICK len \in Nat : len = Len(l)
  BY <1>1, OneList
<1> DEFINE K == [L EXCEPT ![q] = Cut(l, i)]
<1>3. Holds(n, K, P \ {q})
  BY <1>1, UnlinkHolds DEF Before
<1>4. K[q] = Cut(l, i)
  BY DEF Holds
<1>5. /\ Values(m.heap, n.heap) /\ \A r \in Queues \ {q} : n.queue[r] = m.queue[r]
      /\ n.queue[q].duplicates = m.queue[q].duplicates
      /\ n.queue[q].current = m.queue[q].current
      /\ n.queue[q].previous = m.queue[q].previous
      /\ n.failed = m.failed
  BY UnlinkIs
<1>6. Elems(n.heap, Cut(l, i)) = Promise!RemoveAt(Elems(m.heap, l), i)
  <2>1. Holds(n, [L EXCEPT ![q] = Cut(L[q], i)], P \ {q})
    BY <1>1, <1>3
  <2>2. i \in 1..Len(L[q]) /\ Values(m.heap, n.heap)
    BY <1>5
  <2>3. Elems(n.heap, Cut(L[q], i)) = Promise!RemoveAt(Elems(m.heap, L[q]), i)
    BY <2>1, <2>2, CutElems, SMTT(30)
  <2> QED
    BY <1>1, <2>3
<1>7. Aside(m, L, n, K, q)
  BY <1>3, <1>5, OthersSame
<1>8. PICK r : r = m.queue[q]
  OBVIOUS
<1>9. PICK p : p = Spot(r.current, l)
  OBVIOUS
<1>10. PICK o : o = IF p < i THEN p ELSE IF p = i THEN 0 ELSE p - 1
  OBVIOUS
<1>11. /\ Spot(r.current, Cut(l, i)) = o /\ Apart(r, Cut(l, i))
       /\ Loose(r, Cut(l, i)) <=> (o \in 1..(len - 1) /\ (Loose(r, l) \/ i = o))
  <2>1. \A j, k \in 1..Len(l) : l[j] = l[k] => j = k
    BY <1>1 DEF Holds, Chain, IsList
  <2> QED
    BY <1>1, <1>2, <1>8, <1>9, <1>10, <2>1, PositionLeft, SMTT(30)
<1>12. PICK s : s = Promise!RemoveAt(Elems(m.heap, l), i)
  OBVIOUS
<1>13. DOMAIN s = 1..(len - 1)
  <2>1. Elems(m.heap, l) \in Seq(Promise!Elements) /\ Len(Elems(m.heap, l)) = Len(l)
    BY <1>1, ElemsType
  <2>2. s \in Seq(Promise!Elements) /\ Len(s) = len - 1
    BY <1>1, <1>2, <1>12, <2>1, RemoveAtIs
  <2> QED
    BY <2>2, LenProperties
<1>14. PICK g : g = Cut(l, i)
  OBVIOUS
<1>15. /\ Spot(n.queue[q].current, g) = o /\ Apart(n.queue[q], g)
       /\ Loose(n.queue[q], g) = (o \in 1..(len - 1) /\ (Loose(r, l) \/ i = o))
  <2>1. Loose(n.queue[q], g) = Loose(r, g)
    BY <1>5, <1>8 DEF Loose
  <2>2. Loose(r, g) \in BOOLEAN
    BY DEF Loose
  <2>3. Apart(n.queue[q], g)
    BY <1>5, <1>8, <1>11, <1>14 DEF Apart
  <2>4. Spot(n.queue[q].current, g) = o
    BY <1>5, <1>8, <1>11, <1>14
  <2>5. Loose(r, g) <=> (o \in 1..(len - 1) /\ (Loose(r, l) \/ i = o))
    BY <1>11, <1>14
  <2> QED
    BY <2>1, <2>2, <2>3, <2>4, <2>5
<1>16. View(n, K, q) = Shown(s, o, r.duplicates, o \in 1..(len - 1) /\ (Loose(r, l) \/ i = o))
  BY <1>4, <1>5, <1>6, <1>8, <1>11, <1>12, <1>14, <1>15 DEF View
<1>17. Promise!Without(View(m, L, q), i)
         = Shown(s, o, r.duplicates, o \in 1..(len - 1) /\ (Loose(r, l) \/ i = o))
  <2>1. PICK b : b = Loose(r, l)
    OBVIOUS
  <2>2. PICK e : e = Elems(m.heap, l)
    OBVIOUS
  <2>3. View(m, L, q) = [seq |-> e, pos |-> p, dup |-> r.duplicates, loose |-> b]
    BY <1>1, <1>8, <1>9, <2>1, <2>2 DEF View, Shown
  <2>4. Promise!RemoveAt(e, i) = s
    BY <1>12, <2>2
  <2>5. PICK c : c = View(m, L, q)
    OBVIOUS
  <2>6. c.seq = e /\ c.pos = p /\ c.loose = b
    BY <2>3, <2>5
  <2>7. Promise!Without(c, i) = [c EXCEPT !.seq = s, !.pos = o,
                                 !.loose = o \in DOMAIN s /\ (b \/ i = o)]
    BY <1>10, <2>4, <2>6 DEF Promise!Without, Promise!Nowhere
  <2>8. PICK w : w = (o \in DOMAIN s /\ (b \/ i = o))
    OBVIOUS
  <2>9. c = Shown(e, p, r.duplicates, b)
    BY <2>3, <2>5 DEF Shown
  <2>10. Moved(Shown(e, p, r.duplicates, b), s, o, w) = Shown(s, o, r.duplicates, w)
    BY MovedIs
  <2>11. Promise!Without(c, i) = Moved(c, s, o, w)
    BY <2>7, <2>8 DEF Moved
  <2>12. Promise!Without(c, i) = Shown(s, o, r.duplicates, w)
    BY <2>9, <2>10, <2>11
  <2> QED
    BY <1>13, <2>1, <2>5, <2>8, <2>12
<1>18. Holds(n, K, {})
  BY <1>3, Fewer
<1>19. Turns(m, L, n, K, q, Promise!Without(View(m, L, q), i))
  BY <1>7, <1>16, <1>17 DEF Turns
<1>20. Apart(n.queue[q], K[q])
  BY <1>4, <1>14, <1>15
<1> HIDE DEF K
<1> QED
  BY <1>5, <1>18, <1>19, <1>20

(* A queue with other elements, and its position at o.                     *)
LEMMA AtIs ==
  ASSUME NEW m, NEW L, NEW q, NEW s, NEW o
  PROVE  Promise!At(View(m, L, q), s, o) = Shown(s, o, m.queue[q].duplicates, FALSE)
<1>1. PICK e, p, d, b : /\ e = Elems(m.heap, L[q]) /\ p = Spot(m.queue[q].current, L[q])
                        /\ d = m.queue[q].duplicates /\ b = Loose(m.queue[q], L[q])
  OBVIOUS
<1>2. View(m, L, q) = Shown(e, p, d, b)
  BY <1>1 DEF View
<1>3. PICK c : c = View(m, L, q)
  OBVIOUS
<1>4. Promise!At(c, s, o) = Moved(c, s, o, FALSE)
  BY DEF Promise!At, Moved
<1>5. PICK w : w = FALSE
  OBVIOUS
<1>6. Moved(Shown(e, p, d, b), s, o, w) = Shown(s, o, d, w)
  BY MovedIs
<1> QED
  BY <1>1, <1>2, <1>3, <1>4, <1>5, <1>6

(* A new node: what the other nodes and queues keep.                       *)
LEMMA ChainedIs ==
  ASSUME NEW m, NEW L, NEW P, Holds(m, L, P), NEW q \in Queues, NEW x, NEW p,
         NEW n, NEW k, NEW a, NEW node, Gains(m, L, P, q, x, p, n, k, a, node)
  PROVE  /\ Values(m.heap, n.heap) /\ \A r \in Queues \ {q} : n.queue[r] = m.queue[r]
         /\ n.queue[q].duplicates = m.queue[q].duplicates /\ n.failed = m.failed
         /\ n.heap[a] = node
<1>1. m \in Memories /\ m.heap \in Heaps
  BY DEF Holds, Memories
<1>2. PICK h : h = Linked(m, L[q], k, a, node)
  OBVIOUS
<1>3. n.heap = h /\ n.failed = m.failed
  <2>1. n = Changed(m, q, h, IF k = 0 THEN a ELSE m.queue[q].queue, Len(L[q]) + 1)
    BY <1>2 DEF Gains, Chained
  <2> QED
    BY <1>1, <2>1 DEF Changed, Memories
<1>4. /\ \A r \in Queues \ {q} : n.queue[r] = m.queue[r]
      /\ n.queue[q].duplicates = m.queue[q].duplicates
  <2>1. n = Changed(m, q, h, IF k = 0 THEN a ELSE m.queue[q].queue, Len(L[q]) + 1)
    BY <1>2 DEF Gains, Chained
  <2> QED
    BY <1>1, <2>1 DEF Changed, Memories, QueueRecs
<1>5. PICK g : g = IF k = 0 THEN m.heap ELSE [m.heap EXCEPT ![L[q][k]].next = a]
  OBVIOUS
<1>6. h = Put(g, a, node)
  BY <1>2, <1>5 DEF Linked
<1>7. \A b \in DOMAIN m.heap : m.heap[b] \in Node
  BY <1>1, HeapType
<1>8. DOMAIN g = DOMAIN m.heap /\ \A b \in DOMAIN m.heap : Entry(g[b]) = Entry(m.heap[b])
  BY <1>5, <1>7 DEF Node, Entry
<1>9. a \notin DOMAIN m.heap
  BY DEF Gains
<1>10. \A b \in DOMAIN m.heap : h[b] = g[b]
  BY <1>6, <1>8, <1>9 DEF Put
<1>11. Values(m.heap, h)
  BY <1>8, <1>10 DEF Values
<1>12. h[a] = node
  BY <1>6 DEF Put
<1> QED
  BY <1>3, <1>4, <1>11, <1>12

(* The queue with the new element.                                         *)
Gained(m, L, n, K, q, k, e) ==
  /\ Holds(n, K, {}) /\ Aside(m, L, n, K, q) /\ n.failed = m.failed
  /\ n.queue[q].duplicates = m.queue[q].duplicates
  /\ Elems(n.heap, K[q]) = Promise!InsertAt(Elems(m.heap, L[q]), k + 1, e)

(* A new node is a new element.                                            *)
LEMMA GainsTurns ==
  ASSUME NEW m, NEW L, NEW P, Holds(m, L, P), NEW q \in Queues,
         NEW x \in Items, NEW p \in Priorities,
         NEW n, NEW k, NEW a, NEW node, Gains(m, L, P, q, x, p, n, k, a, node),
         NEW K, K = [L EXCEPT ![q] = Grown(L[q], k, a)],
         NEW e, e = [op |-> p, info |-> x]
  PROVE  Gained(m, L, n, K, q, k, e)
<1>0. PICK l \in Seq(Addr) : l = L[q]
  BY DEF Holds
<1>1. PICK g : g = Grown(l, k, a)
  OBVIOUS
<1>2. K[q] = g
  BY <1>0, <1>1 DEF Holds
<1>3. Holds(n, K, P \ {q})
  BY <1>0 DEF Gains
<1>4. /\ Values(m.heap, n.heap) /\ \A r \in Queues \ {q} : n.queue[r] = m.queue[r]
      /\ n.queue[q].duplicates = m.queue[q].duplicates /\ n.failed = m.failed
      /\ n.heap[a] = node
  BY ChainedIs
<1>5. Aside(m, L, n, K, q)
  BY <1>3, <1>4, OthersSame
<1>6. /\ Len(l) \in Nat /\ k \in 0..Len(l) /\ a \in Addr
      /\ \A i \in 1..Len(l) : l[i] \in DOMAIN m.heap /\ l[i] # a
  BY <1>0, OneList DEF Gains
<1>7. /\ Len(g) = Len(l) + 1
      /\ \A i \in 1..(Len(l) + 1) :
           g[i] = IF i <= k THEN l[i] ELSE IF i = k + 1 THEN a ELSE l[i - 1]
  <2>1. \A i, h \in 1..Len(l) : l[i] = l[h] => i = h
    BY <1>0 DEF Holds, Chain, IsList
  <2>2. a \notin NodesOf(l)
    BY <1>6 DEF NodesOf
  <2> QED
    BY <1>1, <1>6, <2>1, <2>2, GrownIs
<1>8. /\ Elems(n.heap, g) \in Seq(Promise!Elements) /\ Len(Elems(n.heap, g)) = Len(g)
      /\ \A i \in 1..Len(g) : Elems(n.heap, g)[i] = Entry(n.heap[g[i]])
      /\ \A i \in 1..Len(g) : g[i] \in DOMAIN n.heap
  <2>1. \A i \in 1..Len(g) : g[i] \in DOMAIN n.heap
    BY <1>2, <1>3, OneList
  <2>2. HasElems(n.heap, K[q], Elems(n.heap, K[q]))
    BY <1>3, ElemsAre
  <2> QED
    BY <1>2, <2>1, <2>2 DEF HasElems
<1>9. PICK s \in Seq(Promise!Elements) : s = Elems(m.heap, l)
  BY <1>0, ElemsType
<1>10. Len(s) = Len(l) /\ \A i \in 1..Len(l) : s[i] = Entry(m.heap[l[i]])
  BY <1>0, <1>9, ElemsType
<1>11. e \in Promise!Elements
  BY DEF Promise!Elements
<1>12. PICK t : t = Promise!InsertAt(s, k + 1, e)
  OBVIOUS
<1>13. /\ t \in Seq(Promise!Elements) /\ Len(t) = Len(s) + 1
       /\ \A i \in 1..(Len(s) + 1) :
            t[i] = IF i < k + 1 THEN s[i] ELSE IF i = k + 1 THEN e ELSE s[i - 1]
  <2>1. PICK h \in 1..(Len(s) + 1) : h = k + 1
    BY <1>6, <1>10
  <2>2. t \in Seq(Promise!Elements) /\ Inserted(s, h, e, t)
    BY <1>11, <1>12, <2>1, InsertAtIs
  <2> QED
    BY <2>1, <2>2 DEF Inserted
<1>14. Entry(node) = e
  BY <1>11 DEF Gains, Entry
<1>15. ASSUME NEW i \in 1..Len(g) PROVE Elems(n.heap, g)[i] = t[i]
  <2>0. i \in 1..(Len(l) + 1)
    BY <1>7
  <2>1. CASE i = k + 1
    <3>1. g[i] = a /\ t[i] = e
      BY <1>6, <1>7, <1>10, <1>13, <2>0, <2>1
    <3> QED
      BY <1>4, <1>8, <1>14, <3>1
  <2>2. CASE i # k + 1
    <3>1. PICK h : h = IF i <= k THEN i ELSE i - 1
      OBVIOUS
    <3>2. h \in 1..Len(l) /\ (i < k + 1 <=> i <= k)
      BY <1>6, <2>0, <2>2, <3>1
    <3>3. g[i] = l[h]
      BY <1>7, <2>0, <2>2, <3>1
    <3>4. t[i] = s[h]
      BY <1>10, <1>13, <2>0, <2>2, <3>1, <3>2
    <3>5. Entry(n.heap[l[h]]) = Entry(m.heap[l[h]])
      BY <1>4, <1>6, <1>8, <3>2, <3>3 DEF Values
    <3> QED
      BY <1>8, <1>10, <3>2, <3>3, <3>4, <3>5
  <2> QED
    BY <2>1, <2>2
<1>16. Elems(n.heap, g) = t
  <2>1. Len(Elems(n.heap, g)) = Len(t)
    BY <1>7, <1>8, <1>10, <1>13
  <2>2. \A i \in 1..Len(Elems(n.heap, g)) : Elems(n.heap, g)[i] = t[i]
    BY <1>8, <1>15
  <2> QED
    BY <1>8, <1>13, <2>1, <2>2, SeqEqual
<1>17. Holds(n, K, {})
  BY <1>3, Fewer
<1> QED
  BY <1>0, <1>2, <1>4, <1>5, <1>9, <1>12, <1>16, <1>17 DEF Gained

(* The place of a new node is that of its element.                         *)
LEMMA PlaceIs ==
  ASSUME NEW m, NEW L, NEW P, Holds(m, L, P), NEW q \in Queues, NEW p \in Int
  PROVE  Promise!Place(Elems(m.heap, L[q]), p) = Behind(m, q, p) + 1
<1>1. PICK l \in Seq(Addr) : l = L[q]
  BY DEF Holds
<1>2. PICK len \in Nat : len = Len(l)
  BY LenProperties
<1>3. PICK s \in Seq(Promise!Elements) : s = Elems(m.heap, l)
  BY <1>1, ElemsType
<1>4. Len(s) = len /\ \A i \in 1..len : s[i].op = m.heap[l[i]].priority
  <2>1. Len(s) = Len(l) /\ \A i \in 1..Len(l) : s[i] = Entry(m.heap[l[i]])
    BY <1>1, <1>3, ElemsType
  <2>2. \A node : Entry(node).op = node.priority
    BY DEF Entry
  <2> QED
    BY <1>2, <2>1, <2>2
<1>5. (s = <<>> <=> len = 0) /\ (l = <<>> <=> len = 0)
  BY <1>2, <1>3, <1>4, EmptySeq
<1>6. PICK k : k = Behind(m, q, p)
  OBVIOUS
<1>7. IF l = <<>> \/ m.heap[l[1]].priority >= p THEN k = 0
      ELSE /\ k \in 1..len
           /\ \A i \in 1..k : p >= m.heap[l[i]].priority
           /\ k < len => p < m.heap[l[k + 1]].priority
  BY <1>1, <1>2, <1>6, BehindAt
<1>8. CASE l = <<>> \/ m.heap[l[1]].priority >= p
  <2>1. s = <<>> \/ s[1].op >= p
    BY <1>2, <1>4, <1>5, <1>8
  <2> QED
    BY <1>1, <1>3, <1>6, <1>7, <1>8, <2>1 DEF Promise!Place
<1>9. CASE ~(l = <<>> \/ m.heap[l[1]].priority >= p)
  <2> DEFINE Fits(i) == /\ \A j \in 2..(i - 1) : s[j].op <= p
                        /\ i <= Len(s) => s[i].op > p
  <2>0. len > 0 /\ s # <<>> /\ ~(s[1].op >= p)
    BY <1>2, <1>4, <1>5, <1>9
  <2>1. Promise!Place(s, p) = CHOOSE i \in 2..(Len(s) + 1) : Fits(i)
    BY <2>0 DEF Promise!Place
  <2>2. \A i \in 1..len : s[i].op \in Int
    <3>1. \A i \in 1..len : s[i] \in Promise!Elements
      BY <1>4, ElementOfSeq
    <3> QED
      BY <3>1, QueueAssumption DEF Promise!Elements
  <2>3. k \in 1..len /\ k + 1 \in 2..(len + 1) /\ (k + 1) - 1 = k
    BY <1>7, <1>9
  <2>4. Fits(k + 1)
    <3>1. ASSUME NEW j \in 2..k PROVE s[j].op <= p
      <4>1. j \in 1..len /\ j \in 1..k
        BY <2>3
      <4>2. p >= s[j].op /\ s[j].op \in Int
        BY <1>4, <1>7, <1>9, <2>2, <4>1
      <4> QED
        BY <4>2
    <3>2. ASSUME k + 1 <= len PROVE s[k + 1].op > p
      <4>1. k + 1 \in 1..len
        BY <2>3, <3>2
      <4>2. p < s[k + 1].op /\ s[k + 1].op \in Int
        BY <1>4, <1>7, <1>9, <2>2, <4>1, <3>2
      <4> QED
        BY <4>2
    <3> QED
      BY <1>4, <2>3, <3>1, <3>2
  <2>5. ASSUME NEW i \in 2..(len + 1), Fits(i) PROVE i = k + 1
    <3>1. ASSUME i < k + 1 PROVE FALSE
      <4>1. i \in 2..k /\ i \in 1..len
        BY <2>3, <3>1
      <4>2. s[i].op <= p /\ s[i].op > p /\ s[i].op \in Int
        BY <1>4, <2>2, <2>3, <2>4, <2>5, <4>1
      <4> QED
        BY <4>2
    <3>2. ASSUME k + 1 < i PROVE FALSE
      <4>1. k + 1 \in 2..(i - 1) /\ k + 1 \in 1..len
        BY <2>3, <3>2
      <4>2. s[k + 1].op <= p /\ s[k + 1].op > p /\ s[k + 1].op \in Int
        BY <1>4, <2>2, <2>3, <2>4, <2>5, <4>1
      <4> QED
        BY <4>2
    <3> QED
      BY <2>3, <3>1, <3>2
  <2> HIDE DEF Fits
  <2>6. Promise!Place(s, p) = k + 1
    BY <1>4, <2>1, <2>3, <2>4, <2>5
  <2> QED
    BY <1>1, <1>3, <1>6, <2>6
<1> QED
  BY <1>8, <1>9

(* From m to n a call on q gives its callers v, unless malloc() failed.    *)
Goes(m, L, n, q, v) ==
  /\ m.failed => n.failed
  /\ n.failed \/ \E K : Holds(n, K, {}) /\ Turns(m, L, n, K, q, v)

(* nolock_add_to_queue() of an element that goes in.                       *)
LEMMA InsertTurns ==
  ASSUME NEW m, NEW L, NEW P, Holds(m, L, P), NEW q \in Queues,
         NEW x \in Items, NEW p \in Priorities, NEW e, e = [op |-> p, info |-> x]
  PROVE  Goes(m, L, Insert(m, q, x, p), q,
              Shown(Promise!AddToQueue(Elems(m.heap, L[q]), e), 1,
                    m.queue[q].duplicates, FALSE))
<1>0. m \in Memories
  BY DEF Holds
<1>1. CASE Unused(m.heap) = {}
  <2>1. Insert(m, q, x, p) = [m EXCEPT !.failed = TRUE]
    BY <1>1 DEF Insert
  <2>2. [m EXCEPT !.failed = TRUE].failed = TRUE
    BY <1>0 DEF Memories
  <2> QED
    BY <2>1, <2>2 DEF Goes
<1>2. CASE Unused(m.heap) # {}
  <2>1. PICK n, k, a, node : /\ Insert(m, q, x, p) = Rewind(n, q) /\ k = Behind(m, q, p)
                             /\ Gains(m, L, P, q, x, p, n, k, a, node)
    BY <1>2, InsertIs
  <2>2. PICK K : K = [L EXCEPT ![q] = Grown(L[q], k, a)]
    OBVIOUS
  <2>3. /\ Holds(n, K, {}) /\ Aside(m, L, n, K, q) /\ n.failed = m.failed
        /\ n.queue[q].duplicates = m.queue[q].duplicates
        /\ Elems(n.heap, K[q])
             = Promise!InsertAt(Elems(m.heap, L[q]), k + 1, e)
    <3>1. Gained(m, L, n, K, q, k, e)
      BY <2>1, <2>2, GainsTurns
    <3> QED
      BY <3>1 DEF Gained
  <2>4. Promise!Place(Elems(m.heap, L[q]), p) = k + 1
    <3>1. p \in Int
      BY QueueAssumption
    <3> QED
      BY <2>1, <3>1, PlaceIs
  <2>5. Elems(n.heap, K[q]) = Promise!AddToQueue(Elems(m.heap, L[q]), e)
    <3>1. e.op = p
      OBVIOUS
    <3> QED
      BY <2>3, <2>4, <3>1 DEF Promise!AddToQueue
  <2>6. Turns(n, K, Rewind(n, q), K, q,
              Shown(Elems(n.heap, K[q]), 1, n.queue[q].duplicates, FALSE))
    BY <2>3, RewindTurns
  <2>7. Turns(m, L, Rewind(n, q), K, q,
              Shown(Elems(n.heap, K[q]), 1, n.queue[q].duplicates, FALSE))
    BY <2>3, <2>6, TurnsOn
  <2>8. Holds(Rewind(n, q), K, {} \cup {q})
    BY <2>3, RewindHolds
  <2>9. Holds(Rewind(n, q), K, {})
    BY <2>8, Fewer
  <2>10. Rewind(n, q).failed = n.failed
    <3>1. n \in Memories
      BY <2>3 DEF Holds
    <3> QED
      BY <3>1 DEF Rewind, Memories
  <2> QED
    BY <2>1, <2>3, <2>5, <2>7, <2>9, <2>10 DEF Goes
<1> QED
  BY <1>1, <1>2

(* add_to_queue().                                                         *)
LEMMA AddTurns ==
  ASSUME NEW m, NEW L, NEW P, Holds(m, L, P), NEW q \in Queues,
         NEW x \in Items, NEW p \in Priorities, NEW e, e = [op |-> p, info |-> x]
  PROVE  Goes(m, L, AddToQueue(m, q, x, p), q, Promise!Added(View(m, L, q), e))
<1>0. m \in Memories /\ m.queue[q] \in QueueRecs
  BY OneList DEF Holds
<1>1. PICK s : s = Elems(m.heap, L[q])
  OBVIOUS
<1>2. PICK d \in BOOLEAN : d = m.queue[q].duplicates
  BY <1>0 DEF QueueRecs
<1>3. PICK i \in 0..Len(L[q]) : i = Match(m, q, x)
  BY MatchIs
<1>4. i = Promise!IndexOf(s, x)
  BY <1>1, <1>3, MatchIs
<1>5. PICK c : c = View(m, L, q)
  OBVIOUS
<1>6. c.seq = s /\ c.dup = d
  BY <1>1, <1>2, <1>5 DEF View, Shown
<1>7. PICK o : o = IF d \/ i = 0 THEN 1 ELSE i
  OBVIOUS
<1>8. PICK t : t = IF d \/ i = 0 THEN Promise!AddToQueue(s, e) ELSE s
  OBVIOUS
<1>9. Promise!Added(c, e) = Promise!At(c, t, o)
  <2>1. e.info = x
    OBVIOUS
  <2>2. Promise!With(s, e, d) = t
    BY <1>4, <1>8, <2>1 DEF Promise!With
  <2> QED
    BY <1>4, <1>6, <1>7, <2>1, <2>2 DEF Promise!Added
<1>10. Promise!At(c, t, o) = Shown(t, o, d, FALSE)
  BY <1>2, <1>5, AtIs
<1>11. CASE d \/ i = 0
  <2>1. AddToQueue(m, q, x, p) = Insert(m, q, x, p)
    BY <1>2, <1>3, <1>11 DEF AddToQueue
  <2>2. Goes(m, L, Insert(m, q, x, p), q, Shown(Promise!AddToQueue(s, e), 1, d, FALSE))
    BY <1>1, <1>2, InsertTurns
  <2> QED
    BY <1>5, <1>7, <1>8, <1>9, <1>10, <1>11, <2>1, <2>2
<1>12. CASE ~(d \/ i = 0)
  <2>1. AddToQueue(m, q, x, p) = ElementInQueue(m, q, x)
    BY <1>2, <1>3, <1>12 DEF AddToQueue
  <2>2. Turns(m, L, ElementInQueue(m, q, x), L, q, Shown(s, i, d, FALSE))
    <3>1. Turns(m, L, ElementInQueue(m, q, x), L, q,
                Shown(s, IF Match(m, q, x) = 0 THEN 1 ELSE Match(m, q, x), d, FALSE))
      BY <1>1, <1>2, FindTurns
    <3> QED
      BY <1>3, <1>12, <3>1
  <2>3. Holds(ElementInQueue(m, q, x), L, {})
    <3>1. Holds(ElementInQueue(m, q, x), L, P \cup {q})
      BY FindHolds
    <3> QED
      BY <3>1, Fewer
  <2>4. ElementInQueue(m, q, x).failed = m.failed
    BY <1>0 DEF ElementInQueue, Rewind, Memories
  <2>5. t = s /\ o = i
    BY <1>7, <1>8, <1>12
  <2> QED
    BY <1>5, <1>9, <1>10, <2>1, <2>2, <2>3, <2>4, <2>5 DEF Goes
<1> QED
  BY <1>11, <1>12

MergeRun(f, c, s, len) ==
  f[0] = c.seq /\ \A i \in 1..len : f[i] = Promise!With(f[i - 1], s[i], c.dup)

(* What the queue promises of a merge, before and after each element.      *)
LEMMA MergedIs ==
  ASSUME NEW c, NEW d, NEW s, s = d.seq, NEW len \in Nat, len = Len(s)
  PROVE  \E f : Promise!Merged(c, d) = f[len] /\ MergeRun(f, c, s, len)
<1> DEFINE Loop(g, k) ==
         [i \in 0..k |-> IF i = 0 THEN c.seq ELSE Promise!With(g[i - 1], s[i], c.dup)]
           Runs(k) == \E g : g = Loop(g, k)
           stuck == {k \in 0..len : ~Runs(k)}
<1>1. Runs(0)
  <2> DEFINE g == [i \in 0..0 |-> c.seq]
  <2>1. g = Loop(g, 0)
    OBVIOUS
  <2> QED
    BY <2>1
<1>2. ASSUME NEW k \in 1..len, Runs(k - 1) PROVE Runs(k)
  <2>1. PICK g : g = Loop(g, k - 1)
    BY <1>2
  <2> DEFINE w == [i \in 0..k |-> IF i < k THEN g[i] ELSE Promise!With(g[k - 1], s[k], c.dup)]
  <2>2. ASSUME NEW i \in 0..k
        PROVE  w[i] = IF i = 0 THEN c.seq ELSE Promise!With(w[i - 1], s[i], c.dup)
    <3>1. CASE i = 0
      <4>1. w[0] = g[0] /\ 0 \in 0..(k - 1)
        OBVIOUS
      <4>2. g[0] = c.seq
        BY <2>1, <4>1
      <4> QED
        BY <3>1, <4>1, <4>2
    <3>2. CASE i # 0 /\ i < k
      <4>1. w[i] = g[i] /\ w[i - 1] = g[i - 1] /\ i \in 0..(k - 1)
        BY <3>2
      <4>2. g[i] = Promise!With(g[i - 1], s[i], c.dup)
        BY <2>1, <3>2, <4>1
      <4> HIDE DEF w
      <4> QED
        BY <3>2, <4>1, <4>2
    <3>3. CASE i = k
      <4>1. w[k] = Promise!With(g[k - 1], s[k], c.dup) /\ w[k - 1] = g[k - 1] /\ k # 0
        OBVIOUS
      <4> HIDE DEF w
      <4> QED
        BY <3>3, <4>1
    <3> QED
      BY <3>1, <3>2, <3>3
  <2>3. w = [i \in 0..k |-> w[i]]
    OBVIOUS
  <2> HIDE DEF w
  <2>4. w = Loop(w, k)
    BY <2>2, <2>3
  <2> HIDE DEF Loop
  <2> QED
    BY <2>4
<1>3. stuck = {}
  <2> SUFFICES ASSUME stuck # {} PROVE FALSE
    OBVIOUS
  <2> HIDE DEF Runs
  <2>1. stuck \in SUBSET Nat
    OBVIOUS
  <2>2. PICK k \in stuck : \A j \in stuck : k <= j
    BY <2>1, LeastExists
  <2>3. k # 0 /\ k - 1 \in 0..len /\ k - 1 \notin stuck
    BY <1>1, <2>2
  <2> QED
    BY <1>2, <2>2, <2>3
<1>4. \E g : g = Loop(g, len)
  <2>1. Runs(len)
    <3> HIDE DEF Runs
    <3> QED
      BY <1>3
  <2> HIDE DEF Loop
  <2> QED
    BY <2>1
<1> DEFINE after == CHOOSE g : g = Loop(g, len)
<1>5. after = Loop(after, len)
  <2> HIDE DEF Loop
  <2> QED
    BY <1>4
<1>6. Promise!Merged(c, d) = after[len]
  BY DEF Promise!Merged
<1>7. PICK f : f = after
  OBVIOUS
<1> HIDE DEF after
<1>8. f = Loop(f, len)
  BY <1>5, <1>7
<1>9. f[0] = c.seq
  BY <1>8
<1>10. ASSUME NEW i \in 1..len PROVE f[i] = Promise!With(f[i - 1], s[i], c.dup)
  <2>1. i \in 0..len /\ i # 0
    OBVIOUS
  <2> QED
    BY <1>8, <2>1
<1>11. Promise!Merged(c, d) = f[len]
  BY <1>6, <1>7
<1> HIDE DEF Loop, Runs, stuck
<1>12. MergeRun(f, c, s, len)
  BY <1>9, <1>10 DEF MergeRun
<1> QED
  BY <1>11, <1>12

(* The queue after an element was added.                                   *)
LEMMA AddedIs ==
  ASSUME NEW m, NEW L, NEW q, NEW n, NEW K, NEW e,
         View(n, K, q) = Promise!Added(View(m, L, q), e)
  PROVE  /\ Elems(n.heap, K[q])
              = Promise!With(Elems(m.heap, L[q]), e, m.queue[q].duplicates)
         /\ n.queue[q].duplicates = m.queue[q].duplicates
<1>1. PICK c : c = View(m, L, q)
  OBVIOUS
<1>2. c.seq = Elems(m.heap, L[q]) /\ c.dup = m.queue[q].duplicates
  BY <1>1 DEF View, Shown
<1>3. PICK t : t = Promise!With(Elems(m.heap, L[q]), e, m.queue[q].duplicates)
  OBVIOUS
<1>4. PICK o : Promise!Added(c, e) = Promise!At(c, t, o)
  <2>1. Promise!Added(c, e)
          = Promise!At(c, t, IF c.dup \/ Promise!IndexOf(c.seq, e.info) = 0 THEN 1
                             ELSE Promise!IndexOf(c.seq, e.info))
    BY <1>2, <1>3 DEF Promise!Added
  <2> QED
    BY <2>1
<1>5. View(n, K, q) = Shown(t, o, m.queue[q].duplicates, FALSE)
  BY <1>1, <1>4, AtIs
<1>6. /\ View(n, K, q).seq = Elems(n.heap, K[q])
      /\ View(n, K, q).dup = n.queue[q].duplicates
  BY DEF View, Shown
<1>7. /\ View(n, K, q).seq = t /\ View(n, K, q).dup = m.queue[q].duplicates
  BY <1>5 DEF Shown
<1> QED
  BY <1>3, <1>6, <1>7, Zenon

(* While the elements s go into q: memory x has those that went in.        *)
Gathers(m, L, q, x, K, s) ==
  /\ Aside(m, L, x, K, q) /\ Elems(x.heap, K[q]) = s
  /\ x.queue[q].duplicates = m.queue[q].duplicates

(* So it is, unless malloc() failed.                                       *)
Gathered(m, L, q, x, s) ==
  \E K : Holds(x, K, {}) /\ (x.failed \/ Gathers(m, L, q, x, K, s))

(* One more element.                                                       *)
LEMMA GatherOn ==
  ASSUME NEW m, NEW L, NEW q \in Queues, NEW y, NEW s, Gathered(m, L, q, y, s),
         NEW x \in Items, NEW p \in Priorities, NEW e, e = [op |-> p, info |-> x],
         NEW n, n = AddToQueue(y, q, x, p),
         NEW t, t = Promise!With(s, e, m.queue[q].duplicates)
  PROVE  Gathered(m, L, q, n, t)
<1>0. PICK K : Holds(y, K, {}) /\ (y.failed \/ Gathers(m, L, q, y, K, s))
  BY DEF Gathered
<1>1. Goes(y, K, n, q, Promise!Added(View(y, K, q), e))
  BY <1>0, AddTurns
<1>2. \E J : Holds(n, J, {})
  BY <1>0, AddHolds
<1>3. CASE n.failed
  BY <1>2, <1>3 DEF Gathered
<1>4. CASE ~n.failed
  <2>1. Gathers(m, L, q, y, K, s)
    BY <1>0, <1>1, <1>4 DEF Goes
  <2>2. PICK J : Holds(n, J, {}) /\ Turns(y, K, n, J, q, Promise!Added(View(y, K, q), e))
    BY <1>1, <1>4 DEF Goes
  <2>3. /\ Elems(n.heap, J[q])
             = Promise!With(Elems(y.heap, K[q]), e, y.queue[q].duplicates)
        /\ n.queue[q].duplicates = y.queue[q].duplicates
    <3>1. View(n, J, q) = Promise!Added(View(y, K, q), e)
      BY <2>2 DEF Turns
    <3> QED
      BY <3>1, AddedIs
  <2>4. Aside(m, L, n, J, q)
    BY <2>1, <2>2, TurnsOn DEF Turns, Gathers
  <2>5. Gathers(m, L, q, n, J, t)
    BY <2>1, <2>3, <2>4 DEF Gathers
  <2> QED
    BY <2>2, <2>5 DEF Gathered
<1> QED
  BY <1>3, <1>4

(* The position of q is rewound when all are in.                           *)
LEMMA GatheredTurns ==
  ASSUME NEW m, NEW L, NEW q \in Queues, NEW x, NEW s, Gathered(m, L, q, x, s),
         m.failed => x.failed
  PROVE  Goes(m, L, Rewind(x, q), q, Shown(s, 1, m.queue[q].duplicates, FALSE))
<1>0. PICK K : Holds(x, K, {}) /\ (x.failed \/ Gathers(m, L, q, x, K, s))
  BY DEF Gathered
<1>1. Rewind(x, q).failed = x.failed
  <2>1. x \in Memories
    BY <1>0 DEF Holds
  <2> QED
    BY <2>1 DEF Rewind, Memories
<1>2. CASE x.failed
  BY <1>1, <1>2 DEF Goes
<1>3. CASE ~x.failed
  <2>1. Gathers(m, L, q, x, K, s)
    BY <1>0, <1>3
  <2>2. Turns(x, K, Rewind(x, q), K, q,
              Shown(Elems(x.heap, K[q]), 1, x.queue[q].duplicates, FALSE))
    BY <1>0, RewindTurns
  <2>3. Turns(m, L, Rewind(x, q), K, q, Shown(s, 1, m.queue[q].duplicates, FALSE))
    BY <2>1, <2>2, TurnsOn DEF Gathers
  <2>4. Holds(Rewind(x, q), K, {})
    <3>1. Holds(Rewind(x, q), K, {} \cup {q})
      BY <1>0, RewindHolds
    <3> QED
      BY <3>1, Fewer
  <2> QED
    BY <1>1, <2>3, <2>4 DEF Goes
<1> QED
  BY <1>2, <1>3

(* merge_queues() of two queues.                                           *)
LEMMA MergeTurns ==
  ASSUME NEW m, NEW L, NEW P, Holds(m, L, P), NEW q1 \in Queues, NEW q2 \in Queues,
         ~m.failed, NEW n \in MergeQueues(m, q1, q2), NEW c, c = View(m, L, q1)
  PROVE  Goes(m, L, n, q1, Promise!At(c, Promise!Merged(c, View(m, L, q2)), 1))
<1>1. PICK l : l = L[q2]
  OBVIOUS
<1>2. PICK len \in Nat : len = Len(l)
  BY <1>1, OneList
<1>3. /\ List(m, q2) = l /\ DOMAIN l = 1..len
      /\ \A i \in 1..len : m.heap[l[i]] \in Node
  BY <1>1, <1>2, OneList
<1> DEFINE s == [i \in 1..len |-> [queue |-> q1, info |-> m.heap[l[i]].info,
                                   priority |-> m.heap[l[i]].priority]]
<1>4. Len(s) = len
  <2>1. s = [i \in 1..len |-> s[i]]
    OBVIOUS
  <2> HIDE DEF s
  <2> QED
    BY <2>1, LenProperties
<1>5. PICK x \in AddAll(m, s) : n = Rewind(x, q1)
  BY <1>3 DEF MergeQueues
<1>6. \A i \in 1..len : s[i] = [queue |-> q1, info |-> m.heap[l[i]].info,
                                priority |-> m.heap[l[i]].priority]
  OBVIOUS
<1> HIDE DEF s
<1>7. PICK f : AddAll(m, s) = f[len] /\ AddRun(f, m, s, len)
  BY <1>4, AddAllIs
<1>8. PICK d : d = View(m, L, q2)
  OBVIOUS
<1>9. PICK t : t = Elems(m.heap, l)
  OBVIOUS
<1>10. d.seq = t /\ Len(t) = len /\ \A i \in 1..len : t[i] = Entry(m.heap[l[i]])
  <2>1. HasElems(m.heap, l, t)
    BY <1>1, <1>9, ElemsAre
  <2>2. d.seq = t
    BY <1>1, <1>8, <1>9 DEF View, Shown
  <2> QED
    BY <1>2, <2>1, <2>2 DEF HasElems
<1>11. PICK g : Promise!Merged(c, d) = g[len] /\ MergeRun(g, c, t, len)
  BY <1>10, MergedIs
<1>12. c.seq = Elems(m.heap, L[q1]) /\ c.dup = m.queue[q1].duplicates
  BY DEF View, Shown
<1> DEFINE Fine(i) == \A y \in f[i] : Gathered(m, L, q1, y, g[i])
           bad == {i \in 0..len : ~Fine(i)}
<1>13. Fine(0)
  <2>1. f[0] = {m} /\ g[0] = Elems(m.heap, L[q1])
    BY <1>7, <1>11, <1>12 DEF AddRun, MergeRun
  <2>2. Holds(m, L, {})
    BY Fewer
  <2>3. Gathers(m, L, q1, m, L, g[0])
    BY <2>1 DEF Gathers, Aside, Same
  <2> QED
    BY <2>1, <2>2, <2>3 DEF Gathered
<1>14. ASSUME NEW i \in 1..len, Fine(i - 1) PROVE Fine(i)
  <2> SUFFICES ASSUME NEW z \in f[i] PROVE Gathered(m, L, q1, z, g[i])
    OBVIOUS
  <2>1. PICK e : e = s[i]
    OBVIOUS
  <2>2. PICK h : h = m.heap[l[i]]
    OBVIOUS
  <2>3. e.queue = q1 /\ e.info = h.info /\ e.priority = h.priority
    <3>1. e = [queue |-> q1, info |-> m.heap[l[i]].info, priority |-> m.heap[l[i]].priority]
      BY <1>6, <2>1
    <3> QED
      BY <2>2, <3>1
  <2>4. h.info \in Items /\ h.priority \in Priorities
    BY <1>3, <2>2 DEF Node
  <2>5. z \in Added(f[i - 1], e)
    BY <1>7, <2>1 DEF AddRun
  <2>6. PICK y \in f[i - 1] : z = AddToQueue(y, q1, h.info, h.priority)
    BY <2>3, <2>5 DEF Added
  <2>7. Gathered(m, L, q1, y, g[i - 1])
    BY <1>14, <2>6
  <2>8. PICK w : w = [op |-> h.priority, info |-> h.info]
    OBVIOUS
  <2>9. g[i] = Promise!With(g[i - 1], w, m.queue[q1].duplicates)
    <3>1. t[i] = w
      BY <1>10, <2>2, <2>8 DEF Entry
    <3> QED
      BY <1>11, <1>12, <3>1 DEF MergeRun
  <2>10. PICK a \in Items : a = h.info
    BY <2>4
  <2>11. PICK b \in Priorities : b = h.priority
    BY <2>4
  <2> HIDE DEF Fine
  <2>12. Gathered(m, L, q1, z, Promise!With(g[i - 1], w, m.queue[q1].duplicates))
    BY <2>6, <2>7, <2>8, <2>10, <2>11, GatherOn
  <2> QED
    BY <2>9, <2>12
<1>15. bad = {}
  <2> SUFFICES ASSUME bad # {} PROVE FALSE
    OBVIOUS
  <2> HIDE DEF Fine
  <2>1. bad \in SUBSET Nat
    OBVIOUS
  <2>2. PICK i \in bad : \A j \in bad : i <= j
    BY <2>1, LeastExists
  <2>3. i # 0 /\ i - 1 \in 0..len /\ i - 1 \notin bad
    BY <1>13, <2>2
  <2> QED
    BY <1>14, <2>2, <2>3
<1>16. Fine(len)
  <2> HIDE DEF Fine
  <2> QED
    BY <1>15
<1>17. Gathered(m, L, q1, x, g[len])
  BY <1>5, <1>7, <1>16
<1> HIDE DEF Fine, bad
<1>18. Goes(m, L, n, q1, Shown(g[len], 1, m.queue[q1].duplicates, FALSE))
  BY <1>5, <1>17, GatheredTurns
<1>19. Promise!At(c, Promise!Merged(c, d), 1)
         = Shown(g[len], 1, m.queue[q1].duplicates, FALSE)
  <2>1. PICK a, b : a = Promise!Merged(c, d) /\ b = 1
    OBVIOUS
  <2>2. Promise!At(View(m, L, q1), a, b) = Shown(a, b, m.queue[q1].duplicates, FALSE)
    BY AtIs
  <2> QED
    BY <1>11, <2>1, <2>2, Zenon
<1> QED
  BY <1>8, <1>18, <1>19

(* The element in a node.                                                   *)
LEMMA EntryIs ==
  \A node : Entry(node).op = node.priority /\ Entry(node).info = node.info
BY DEF Entry

(* The first i elements of t.                                              *)
Upto(t, i) == [j \in 1..i |-> t[j]]

(* One more.                                                               *)
LEMMA InsertLast ==
  ASSUME NEW S, NEW t \in Seq(S), NEW i \in 1..Len(t), NEW s, s = Upto(t, i - 1)
  PROVE  /\ s \in Seq(S) /\ Len(s) = i - 1
         /\ Promise!InsertAt(s, i, t[i]) = Upto(t, i)
<1>1. Len(t) \in Nat /\ \A j \in 1..Len(t) : t[j] \in S
  BY ElementOfSeq
<1>2. s \in [1..(i - 1) -> S] /\ \A j \in 1..(i - 1) : s[j] = t[j]
  BY <1>1 DEF Upto
<1>3. s \in Seq(S) /\ i - 1 \in Nat
  BY <1>1, <1>2, SeqDef
<1>4. Len(s) = i - 1
  BY <1>2, <1>3, LenProperties
<1>5. PICK u : u = Upto(t, i)
  OBVIOUS
<1>6. u \in [1..i -> S] /\ \A j \in 1..i : u[j] = t[j]
  BY <1>1, <1>5 DEF Upto
<1>7. u \in Seq(S) /\ i \in Nat
  BY <1>1, <1>6, SeqDef
<1>8. Len(u) = i
  BY <1>6, <1>7, LenProperties
<1>9. PICK e \in S : e = t[i]
  BY <1>1
<1>10. PICK v : v = Promise!InsertAt(s, i, e)
  OBVIOUS
<1>11. v \in Seq(S) /\ Inserted(s, i, e, v)
  <2>1. i \in 1..(Len(s) + 1)
    BY <1>4, <1>7
  <2> QED
    BY <1>3, <1>9, <1>10, <2>1, InsertAtIs
<1>12. Len(v) = i
  BY <1>4, <1>7, <1>11 DEF Inserted
<1>13. \A j \in 1..i : v[j] = u[j]
  BY <1>2, <1>4, <1>6, <1>7, <1>9, <1>11 DEF Inserted
<1>14. v = u
  BY <1>7, <1>8, <1>11, <1>12, <1>13, SeqEqual
<1> QED
  BY <1>3, <1>4, <1>5, <1>9, <1>10, <1>14

(* While the nodes of another queue are cloned; there is no room for more  *)
(* when malloc() failed.                                                   *)
Cloning(m, L, q, x, s) == /\ Gathered(m, L, q, x, s)
                          /\ x.failed => Unused(x.heap) = {}

(* One more node.                                                          *)
LEMMA CloneOn ==
  ASSUME NEW m, NEW L, NEW q \in Queues, NEW t \in Seq(Promise!Elements),
         NEW i \in 1..Len(t), NEW y, Cloning(m, L, q, y, Upto(t, i - 1)),
         NEW node \in Node, t[i] = Entry(node),
         \A j \in 1..(i - 1) : t[j].op <= node.priority,
         NEW n, n = Append1(y, q, node)
  PROVE  Cloning(m, L, q, n, Upto(t, i))
<1>1. PICK s : s = Upto(t, i - 1)
  OBVIOUS
<1>2. PICK K : Holds(y, K, {}) /\ (y.failed \/ Gathers(m, L, q, y, K, s))
  BY <1>1 DEF Cloning, Gathered
<1>3. CASE Unused(y.heap) = {}
  <2>1. n = [y EXCEPT !.failed = TRUE]
    BY <1>3 DEF Append1
  <2>2. n.heap = y.heap /\ n.failed
    BY <1>2, <2>1 DEF Holds, Memories
  <2>3. Holds(n, K, {})
    BY <1>2, <2>1, FailureHolds
  <2> QED
    BY <1>3, <2>2, <2>3 DEF Cloning, Gathered
<1>4. CASE Unused(y.heap) # {}
  <2>1. ~y.failed /\ Gathers(m, L, q, y, K, s)
    BY <1>2, <1>4 DEF Cloning
  <2>2. PICK l \in Seq(Addr) : l = K[q]
    BY <1>2 DEF Holds
  <2>3. HasElems(y.heap, l, s)
    BY <1>2, <2>1, <2>2, ElemsAre DEF Gathers
  <2>4. s \in Seq(Promise!Elements) /\ Len(s) = i - 1
        /\ Promise!InsertAt(s, i, t[i]) = Upto(t, i)
    BY <1>1, InsertLast, SMTT(30)
  <2>5. Len(l) = i - 1 /\ \A j \in 1..(i - 1) : t[j] = Entry(y.heap[l[j]])
    BY <1>1, <2>3, <2>4 DEF HasElems, Upto
  <2>6. Below(y, l, node.priority)
    <3>1. \A j \in 1..(i - 1) : t[j].op = y.heap[l[j]].priority
      BY <2>5, EntryIs
    <3> QED
      BY <2>5, <3>1 DEF Below
  <2>7. PICK a, e : Gains(y, K, {}, q, node.info, node.priority, n, Len(l), a, e)
    BY <1>2, <1>4, <2>2, <2>6, AppendIs
  <2>8. PICK x \in Items : x = node.info
    BY DEF Node
  <2>9. PICK p \in Priorities : p = node.priority
    BY DEF Node
  <2>10. PICK w : w = [op |-> p, info |-> x]
    OBVIOUS
  <2>11. PICK k : k = Len(l)
    OBVIOUS
  <2>12. PICK J : J = [K EXCEPT ![q] = Grown(K[q], k, a)]
    OBVIOUS
  <2>13. Gained(y, K, n, J, q, k, w)
    <3>1. Gains(y, K, {}, q, x, p, n, k, a, e)
      BY <2>7, <2>8, <2>9, <2>11
    <3> QED
      BY <1>2, <2>10, <2>12, <3>1, GainsTurns
  <2>14. w = t[i] /\ k + 1 = i
    BY <2>5, <2>8, <2>9, <2>10, <2>11 DEF Entry
  <2>15. Elems(n.heap, J[q]) = Upto(t, i)
    BY <2>1, <2>4, <2>13, <2>14 DEF Gained, Gathers
  <2>16. Aside(m, L, n, J, q)
    <3>1. Aside(m, L, y, K, q) /\ Aside(y, K, n, J, q)
      BY <2>1, <2>13 DEF Gained, Gathers
    <3> QED
      BY <3>1, TurnsOn DEF Turns
  <2>17. Gathers(m, L, q, n, J, Upto(t, i)) /\ Holds(n, J, {}) /\ ~n.failed
    BY <2>1, <2>13, <2>15, <2>16 DEF Gained, Gathers
  <2> QED
    BY <2>17 DEF Cloning, Gathered
<1> QED
  BY <1>3, <1>4

(* All of them.                                                            *)
LEMMA CloneTurns ==
  ASSUME NEW m, NEW L, NEW P, Holds(m, L, P), NEW q \in Queues, L[q] = <<>>, ~m.failed,
         NEW s \in Seq(Node),
         \A i, j \in 1..Len(s) : i < j => s[i].priority <= s[j].priority,
         NEW t \in Seq(Promise!Elements), Len(t) = Len(s),
         \A i \in 1..Len(s) : t[i] = Entry(s[i]),
         NEW x \in Clone(m, q, s)
  PROVE  Gathered(m, L, q, x, t)
<1>1. PICK len \in Nat : len = Len(s)
  BY LenProperties
<1>2. PICK f : Clone(m, q, s) = f[len] /\ CloneRun(f, m, q, s, len)
  BY <1>1, CloneIs
<1> DEFINE Fine(i) == \A y \in f[i] : Cloning(m, L, q, y, Upto(t, i))
           bad == {i \in 0..len : ~Fine(i)}
<1>3. Fine(0)
  <2>1. f[0] = {m} /\ Holds(m, L, {})
    BY <1>2, Fewer DEF CloneRun
  <2>2. Elems(m.heap, L[q]) = Upto(t, 0)
    <3>1. Len(<<>>) = 0 /\ 1..0 = {}
      OBVIOUS
    <3> QED
      BY <3>1 DEF Elems, Upto
  <2>3. Gathers(m, L, q, m, L, Upto(t, 0))
    BY <2>2 DEF Gathers, Aside, Same
  <2> QED
    BY <2>1, <2>3 DEF Cloning, Gathered
<1>4. ASSUME NEW i \in 1..len, Fine(i - 1) PROVE Fine(i)
  <2> SUFFICES ASSUME NEW z \in f[i] PROVE Cloning(m, L, q, z, Upto(t, i))
    OBVIOUS
  <2>1. PICK e \in Node : e = s[i]
    BY <1>1, ElementOfSeq
  <2>2. z \in Cloned(f[i - 1], q, e)
    BY <1>2, <2>1 DEF CloneRun
  <2>3. PICK y \in f[i - 1] : z = Append1(y, q, e)
    BY <2>2 DEF Cloned
  <2>4. Cloning(m, L, q, y, Upto(t, i - 1))
    BY <1>4, <2>3
  <2>5. t[i] = Entry(e) /\ i \in 1..Len(t)
    BY <1>1, <2>1
  <2>6. \A j \in 1..(i - 1) : t[j].op <= e.priority
    <3>1. ASSUME NEW j \in 1..(i - 1) PROVE t[j].op <= e.priority
      <4>1. j \in 1..len /\ i \in 1..len /\ j < i
        OBVIOUS
      <4>2. t[j].op = s[j].priority
        <5>1. t[j] = Entry(s[j])
          BY <1>1, <4>1
        <5> QED
          BY <5>1, EntryIs
      <4> QED
        BY <1>1, <2>1, <4>1, <4>2
    <3> QED
      BY <3>1
  <2> HIDE DEF Fine
  <2> QED
    BY <2>3, <2>4, <2>5, <2>6, CloneOn
<1>5. bad = {}
  <2> SUFFICES ASSUME bad # {} PROVE FALSE
    OBVIOUS
  <2> HIDE DEF Fine
  <2>1. bad \in SUBSET Nat
    OBVIOUS
  <2>2. PICK i \in bad : \A j \in bad : i <= j
    BY <2>1, LeastExists
  <2>3. i # 0 /\ i - 1 \in 0..len /\ i - 1 \notin bad
    BY <1>3, <2>2
  <2> QED
    BY <1>4, <2>2, <2>3
<1>6. Fine(len)
  <2> HIDE DEF Fine
  <2> QED
    BY <1>5
<1>7. Cloning(m, L, q, x, Upto(t, len))
  BY <1>2, <1>6
<1>8. Upto(t, len) = t
  <2>1. t \in [1..len -> Promise!Elements]
    BY <1>1, LenProperties
  <2> QED
    BY <2>1 DEF Upto
<1> QED
  BY <1>7, <1>8 DEF Cloning

(* What goes on for q alone.                                               *)
LEMMA GoesOn ==
  ASSUME NEW m, NEW L, NEW n, NEW K, NEW o, NEW q, NEW v,
         Aside(m, L, n, K, q), m.failed => n.failed, Goes(n, K, o, q, v)
  PROVE  Goes(m, L, o, q, v)
<1>1. CASE o.failed
  BY <1>1 DEF Goes
<1>2. CASE ~o.failed
  <2>1. PICK J : Holds(o, J, {}) /\ Turns(n, K, o, J, q, v)
    BY <1>2 DEF Goes
  <2>2. Turns(m, L, o, J, q, v)
    BY <2>1, TurnsOn
  <2> QED
    BY <1>2, <2>1, <2>2 DEF Goes
<1> QED
  BY <1>1, <1>2

(* copy_queue() empties its queue first.                                   *)
LEMMA EmptiedIs ==
  \A m, L, P, q, d, n :
    Holds(m, L, P) /\ q \in Queues /\ d \in BOOLEAN /\ n = Emptied(m, q, d)
    => /\ Holds(n, [L EXCEPT ![q] = <<>>], P \cup {q})
       /\ OnlyMarked(n, DestroyQueue(m, q), q, d)
<1> SUFFICES ASSUME NEW m, NEW L, NEW P, NEW q \in Queues, NEW d \in BOOLEAN, NEW n,
                    Holds(m, L, P), n = Emptied(m, q, d)
             PROVE  /\ Holds(n, [L EXCEPT ![q] = <<>>], P \cup {q})
                    /\ OnlyMarked(n, DestroyQueue(m, q), q, d)
  OBVIOUS
<1> QED
  BY EmptiedHolds

(* copy_queue() of two queues.                                             *)
LEMMA CopyTurns ==
  ASSUME NEW m, NEW L, NEW P, Holds(m, L, P), NEW q1 \in Queues, NEW q2 \in Queues,
         ~m.failed, NEW n \in CopyQueue(m, q1, q2)
  PROVE  Goes(m, L, n, q1, Shown(Elems(m.heap, L[q2]), 1, m.queue[q2].duplicates, FALSE))
<1>1. PICK s : s = [i \in 1..Len(L[q2]) |-> m.heap[L[q2][i]]]
  OBVIOUS
<1>2. PICK d : Copying(m, L, q1, q2, d, s, n)
  BY <1>1, CopyIs
<1>3. /\ \E x \in Clone(Emptied(m, q1, d), q1, s) : n = Rewind(x, q1)
      /\ d \in BOOLEAN /\ s \in Seq(Node) /\ Len(s) = Len(L[q2])
      /\ \A i, j \in 1..Len(s) : i < j => s[i].priority <= s[j].priority
  BY <1>2 DEF Copying
<1>4. PICK clone : clone = Emptied(m, q1, d)
  OBVIOUS
<1>5. PICK E : E = [L EXCEPT ![q1] = <<>>]
  OBVIOUS
<1>6. E[q1] = <<>>
  BY <1>5 DEF Holds
<1>7. /\ Holds(clone, E, P \cup {q1})
      /\ clone.heap = DestroyQueue(m, q1).heap /\ clone.failed = DestroyQueue(m, q1).failed
      /\ clone.queue[q1].duplicates = d
      /\ \A r \in Queues \ {q1} : clone.queue[r] = DestroyQueue(m, q1).queue[r]
  <2>1. q1 \in Queues /\ d \in BOOLEAN /\ clone = Emptied(m, q1, d)
    BY <1>3, <1>4
  <2>2. /\ Holds(clone, [L EXCEPT ![q1] = <<>>], P \cup {q1})
        /\ OnlyMarked(clone, DestroyQueue(m, q1), q1, d)
    BY <2>1, EmptiedIs, Zenon
  <2> QED
    BY <1>5, <2>2 DEF OnlyMarked
<1>8. /\ DestroyQueue(m, q1).failed = m.failed
      /\ Aside(m, L, DestroyQueue(m, q1), E, q1)
  BY <1>5, DestroyTurns DEF Turns
<1>9. ~clone.failed /\ Aside(m, L, clone, E, q1)
  BY <1>7, <1>8 DEF Aside, Same
<1>10. PICK x \in Clone(clone, q1, s) : n = Rewind(x, q1)
  BY <1>3, <1>4
<1>11. PICK t : t = Elems(m.heap, L[q2])
  OBVIOUS
<1>12. t \in Seq(Promise!Elements) /\ Len(t) = Len(s) /\ \A i \in 1..Len(s) : t[i] = Entry(s[i])
  <2>1. HasElems(m.heap, L[q2], t)
    BY <1>11, ElemsAre
  <2>2. \A i \in 1..Len(L[q2]) : s[i] = m.heap[L[q2][i]]
    BY <1>1
  <2> QED
    BY <1>3, <2>1, <2>2 DEF HasElems
<1>13. Gathered(clone, E, q1, x, t)
  BY <1>3, <1>6, <1>7, <1>9, <1>10, <1>12, CloneTurns
<1>14. Goes(clone, E, n, q1, Shown(t, 1, d, FALSE))
  <2>1. Goes(clone, E, Rewind(x, q1), q1, Shown(t, 1, clone.queue[q1].duplicates, FALSE))
    BY <1>9, <1>13, GatheredTurns
  <2> QED
    BY <1>7, <1>10, <2>1
<1>15. Goes(m, L, n, q1, Shown(t, 1, d, FALSE))
  BY <1>9, <1>14, GoesOn
<1>16. d = m.queue[q2].duplicates
  BY <1>2 DEF Copying
<1> QED
  BY <1>11, <1>15, <1>16

(* equal_queues(): the same elements in the same order.                    *)
LEMMA EqualIs ==
  ASSUME NEW m, NEW L, NEW P, Holds(m, L, P), NEW q1 \in Queues, NEW q2 \in Queues
  PROVE  EqualQueues(m, q1, q2) <=> Elems(m.heap, L[q1]) = Elems(m.heap, L[q2])
<1>1. PICK s : s = Elems(m.heap, L[q1])
  OBVIOUS
<1>2. PICK t : t = Elems(m.heap, L[q2])
  OBVIOUS
<1>3. HasElems(m.heap, L[q1], s) /\ HasElems(m.heap, L[q2], t)
  BY <1>1, <1>2, ElemsAre
<1>4. /\ List(m, q1) = L[q1] /\ List(m, q2) = L[q2]
      /\ Len(L[q1]) \in Nat /\ Len(L[q2]) \in Nat
      /\ DOMAIN L[q1] = 1..Len(L[q1])
      /\ m.queue[q1].queuelength = Len(L[q1]) /\ m.queue[q2].queuelength = Len(L[q2])
  BY OneList
<1>5. PICK len \in Nat : len = Len(L[q1])
  BY <1>4
<1>6. PICK other \in Nat : other = Len(L[q2])
  BY <1>4
<1> DEFINE x(i) == m.heap[L[q1][i]]  y(i) == m.heap[L[q2][i]]
<1>7. EqualQueues(m, q1, q2)
        <=> /\ len = other
            /\ \A i \in 1..len : x(i).info = y(i).info /\ x(i).priority = y(i).priority
  BY <1>4, <1>5, <1>6 DEF EqualQueues
<1>8. s = t <=> len = other /\ \A i \in 1..len : s[i] = t[i]
  BY <1>3, <1>5, <1>6 DEF HasElems
<1>9. len = other => \A i \in 1..len :
        s[i] = t[i] <=> x(i).info = y(i).info /\ x(i).priority = y(i).priority
  <2> SUFFICES ASSUME len = other, NEW i \in 1..len
               PROVE  s[i] = t[i] <=> x(i).info = y(i).info /\ x(i).priority = y(i).priority
    OBVIOUS
  <2>1. s[i] = Entry(x(i)) /\ t[i] = Entry(y(i))
    BY <1>3, <1>5, <1>6 DEF HasElems
  <2> QED
    BY <2>1 DEF Entry
<1> QED
  BY <1>1, <1>2, <1>7, <1>8, <1>9

(* In every state, the queues are as their lists are.                      *)
LEMMA ContentAlways ==
  \A L, P : Holds(Memory, L, P) => \A q \in Queues : Content(q) = View(Memory, L, q)
  BY ContentIs

(* In the next state, too.                                                 *)
LEMMA ContentNext ==
  (\A L, P : Holds(Memory, L, P) => \A q \in Queues : Content(q) = View(Memory, L, q))'
  BY ContentAlways, PTL

(* Any queue after a step.                                                 *)
LEMMA ContentThen ==
  ASSUME NEW L, NEW P, Holds(Memory', L, P), NEW q \in Queues
  PROVE  Content(q)' = View(Memory', L, q)
  BY ContentNext

-----------------------------------------------------------------------------
(***************************************************************************)
(* The promise of the calls: every step is a step of QueueSequences.       *)
(***************************************************************************)
(* The lists in memory, with positions that are left by whole nodes.       *)
Fits(m, L) == Holds(m, L, {}) /\ \A q \in Queues : Apart(m.queue[q], L[q])
ApartOK    == \E L : Fits(Memory, L)

(* What a call on q (and r) may come to.                                   *)
Outcomes(L, q, r) ==
  IF q = r THEN Promise!OneQueue(View(Memory, L, q))
  ELSE Promise!TwoQueues(View(Memory, L, q), View(Memory, L, r))

(* Who works on q has just taken its lock, and who works on q and r has    *)
(* both.                                                                   *)
LockOK == lock \in [Queues \cup {Global} -> Threads \cup {NoThread}]
Attends(q, r) == IF q = r THEN q \notin Busy /\ Busy' = Busy \cup {q}
                 ELSE q \in Busy /\ r \in Busy /\ Busy' = Busy

(* A step does what is promised.                                           *)
Shows == ApartOK' /\ [Promise!Next]_(Promise!vars)

(* A call on one queue takes its lock.                                     *)
LEMMA LocksAttends ==
  ASSUME LockOK, NEW t \in Threads, NEW q \in Queues, NEW way, Locks(t, q, way)
  PROVE  Attends(q, q)
<1>1. lock[q] = NoThread /\ lock' = [lock EXCEPT ![q] = t] /\ t # NoThread
  BY QueueAssumption DEF Locks
<1>2. lock'[q] = t /\ \A r \in Queues \ {q} : lock'[r] = lock[r]
  BY <1>1 DEF LockOK
<1> QED
  BY <1>1, <1>2 DEF Attends, Busy

(* Memory m is reached when the call on q gives its callers v.             *)
Reaches(L, m, q, v) ==
  m.failed \/ \E K : /\ Holds(m, K, {}) /\ Apart(m.queue[q], K[q])
                     /\ Turns(Memory, L, m, K, q, v)

(* A position that is not loose is next to the node before it.             *)
LEMMA ApartWhen ==
  ASSUME NEW m, NEW K, NEW q, NEW s, NEW p, NEW d, View(m, K, q) = Shown(s, p, d, FALSE)
  PROVE  Apart(m.queue[q], K[q])
<1>1. View(m, K, q).loose <=> Loose(m.queue[q], K[q])
  BY DEF View, Shown
<1>2. ~Loose(m.queue[q], K[q])
  BY <1>1 DEF Shown
<1> QED
  BY <1>2 DEF Loose, Apart

(* A call that leaves the position sound reaches its memory.               *)
LEMMA GoesReaches ==
  ASSUME NEW L, NEW m, NEW q, NEW s, NEW p, NEW d,
         Goes(Memory, L, m, q, Shown(s, p, d, FALSE))
  PROVE  Reaches(L, m, q, Shown(s, p, d, FALSE))
<1>1. CASE m.failed
  BY <1>1 DEF Reaches
<1>2. CASE ~m.failed
  <2>1. PICK K : Holds(m, K, {}) /\ Turns(Memory, L, m, K, q, Shown(s, p, d, FALSE))
    BY <1>2 DEF Goes
  <2>2. Apart(m.queue[q], K[q])
    BY <2>1, ApartWhen DEF Turns
  <2> QED
    BY <2>1, <2>2 DEF Reaches
<1> QED
  BY <1>1, <1>2

(* The abstract state before and after.                                    *)
LEMMA ContentsAre ==
  ASSUME NEW L, Fits(Memory, L), NEW K, Holds(Memory', K, {})
  PROVE  /\ [q \in Queues |-> Content(q)] = [q \in Queues |-> View(Memory, L, q)]
         /\ [q \in Queues |-> Content(q)]' = [q \in Queues |-> View(Memory', K, q)]
<1>1. \A q \in Queues : Content(q) = View(Memory, L, q)
  BY ContentIs DEF Fits
<1>2. \A q \in Queues : Content(q)' = View(Memory', K, q)
  BY ContentThen
<1> QED
  BY <1>1, <1>2

(* A step that gives q what an abstract call may come to is promised.      *)
LEMMA StepShows ==
  ASSUME NEW L, Fits(Memory, L), NEW K, Holds(Memory', K, {}),
         NEW q \in Queues, NEW r \in Queues, NEW v, Turns(Memory, L, Memory', K, q, v),
         halted = "no", halted' = "no", Attends(q, r), <<v, returned'>> \in Outcomes(L, q, r)
  PROVE  Promise!Next
<1> DEFINE before == [s \in Queues |-> View(Memory, L, s)]
           after  == [s \in Queues |-> View(Memory', K, s)]
<1>1. [s \in Queues |-> Content(s)] = before /\ [s \in Queues |-> Content(s)]' = after
  BY ContentsAre
<1>2. \A other \in Queues \ {q} : after[other] = before[other]
  BY SameView DEF Turns, Aside
<1>3. after[q] = v /\ before[q] = View(Memory, L, q) /\ before[r] = View(Memory, L, r)
  BY DEF Turns
<1>4. <<after[q], returned'>>
        \in IF q = r THEN Promise!OneQueue(before[q])
            ELSE Promise!TwoQueues(before[q], before[r])
  BY <1>3 DEF Outcomes
<1> HIDE DEF before, after
<1>5. UNCHANGED (halted # "no")
  OBVIOUS
<1>6. \/ /\ q = r /\ q \notin Busy /\ Busy' = Busy \cup {q}
         /\ <<after[q], returned'>> \in Promise!OneQueue(before[q])
      \/ /\ q # r /\ q \in Busy /\ r \in Busy /\ Busy' = Busy
         /\ <<after[q], returned'>> \in Promise!TwoQueues(before[q], before[r])
  BY <1>4 DEF Attends
<1> QED
  BY <1>1, <1>2, <1>5, <1>6 DEF Promise!Next, Promise!Working

(* What only q's callers see leaves the other positions as they were.      *)
LEMMA FitsOn ==
  ASSUME NEW m, NEW L, Fits(m, L), NEW n, NEW K, Holds(n, K, {}), NEW q \in Queues,
         Aside(m, L, n, K, q), Apart(n.queue[q], K[q])
  PROVE  Fits(n, K)
<1>1. ASSUME NEW r \in Queues PROVE Apart(n.queue[r], K[r])
  <2>1. CASE r = q
    BY <2>1
  <2>2. CASE r # q
    BY <2>2 DEF Aside, Same, Fits
  <2> QED
    BY <2>1, <2>2
<1> QED
  BY <1>1 DEF Fits

(* Lists and elements are those of the heap and the queues.                *)
LEMMA TurnsAre ==
  ASSUME NEW m, NEW L, NEW n, NEW K, NEW o, o.heap = n.heap, o.queue = n.queue,
         NEW q, NEW v, Turns(m, L, n, K, q, v)
  PROVE  Turns(m, L, o, K, q, v)
  BY DEF Turns, Aside, Same, View

(* A call that reaches memory m and answers r.                             *)
LEMMA DoesShows ==
  ASSUME NEW L, Fits(Memory, L), halted = "no", NEW q \in Queues, NEW r \in Queues,
         NEW m, NEW v, NEW a, Reaches(L, m, q, v), <<v, a>> \in Outcomes(L, q, r), Attends(q, r),
         Becomes(m), returned' = IF m.failed THEN returned ELSE a
  PROVE  Shows
<1>1. /\ halted' = IF m.failed THEN "exit" ELSE "no"
      /\ heap' = IF m.failed THEN heap ELSE m.heap
      /\ queue' = IF m.failed THEN queue ELSE m.queue
  BY DEF Becomes
<1>2. CASE m.failed
  <2>1. Memory' = Memory
    BY <1>1, <1>2 DEF Memory
  <2>2. Fits(Memory', L) /\ Holds(Memory', L, {})
    BY <2>1 DEF Fits
  <2>3. [s \in Queues |-> Content(s)]' = [s \in Queues |-> Content(s)]
    BY <2>1, <2>2, ContentsAre
  <2>4. returned' = returned /\ (halted # "no")' = TRUE
    BY <1>1, <1>2
  <2>5. Promise!Next
    BY <2>3, <2>4 DEF Promise!Next, Promise!Locking, Busy
  <2>6. ApartOK'
    BY <2>2 DEF ApartOK
  <2> QED
    BY <2>5, <2>6 DEF Shows
<1>3. CASE ~m.failed
  <2>1. PICK K : /\ Holds(m, K, {}) /\ Apart(m.queue[q], K[q])
                 /\ Turns(Memory, L, m, K, q, v)
    BY <1>3 DEF Reaches
  <2>2. Memory' = [heap |-> m.heap, queue |-> m.queue, failed |-> FALSE]
    BY <1>1, <1>3 DEF Memory
  <2>3. Holds(Memory', K, {})
    BY <2>1, <2>2, MemoryIs
  <2>4. Memory'.heap = m.heap /\ Memory'.queue = m.queue
    BY <2>2
  <2>5. Turns(Memory, L, Memory', K, q, v)
    BY <2>1, <2>4, TurnsAre
  <2>6. Fits(Memory', K)
    BY <2>1, <2>3, <2>4, <2>5, FitsOn DEF Turns
  <2>7. halted' = "no" /\ returned' = a
    BY <1>1, <1>3
  <2>8. Promise!Next
    BY <2>3, <2>5, <2>7, StepShows
  <2> QED
    BY <2>6, <2>8 DEF Shows, ApartOK
<1> QED
  BY <1>2, <1>3

(* A call that only answers.                                               *)
LEMMA TellsShows ==
  ASSUME NEW L, Fits(Memory, L), halted = "no", NEW q \in Queues, NEW r \in Queues,
         NEW a, <<View(Memory, L, q), a>> \in Outcomes(L, q, r), Attends(q, r),
         UNCHANGED <<heap, queue, halted>>, returned' = a
  PROVE  Shows
<1>1. Memory' = Memory
  BY DEF Memory
<1>2. Fits(Memory', L) /\ Holds(Memory', L, {})
  BY <1>1 DEF Fits
<1>3. Turns(Memory, L, Memory', L, q, View(Memory, L, q))
  BY <1>1 DEF Turns, Aside, Same
<1>4. Promise!Next
  BY <1>2, <1>3, StepShows
<1> QED
  BY <1>2, <1>4 DEF Shows, ApartOK

(* A call that ends the run.                                               *)
LEMMA StopsShows ==
  ASSUME ApartOK, NEW how, how # "no", Stops(how)
  PROVE  Shows
<1>1. PICK L : Fits(Memory, L)
  BY DEF ApartOK
<1>2. Memory' = Memory
  BY DEF Memory, Stops
<1>3. Fits(Memory', L) /\ Holds(Memory', L, {})
  BY <1>1, <1>2 DEF Fits
<1>4. [s \in Queues |-> Content(s)]' = [s \in Queues |-> Content(s)]
  BY <1>1, <1>2, <1>3, ContentsAre
<1>5. returned' = returned /\ (halted # "no")' = TRUE
  BY DEF Stops
<1>6. Promise!Next
  BY <1>4, <1>5 DEF Promise!Next, Promise!Locking, Busy
<1> QED
  BY <1>3, <1>6 DEF Shows, ApartOK

(* A step the callers do not see.                                          *)
LEMMA RestShows ==
  ASSUME ApartOK, UNCHANGED <<heap, queue, returned, halted>>
  PROVE  Shows
<1>1. PICK L : Fits(Memory, L)
  BY DEF ApartOK
<1>2. Memory' = Memory
  BY DEF Memory
<1>3. Fits(Memory', L) /\ Holds(Memory', L, {})
  BY <1>1, <1>2 DEF Fits
<1>4. [s \in Queues |-> Content(s)]' = [s \in Queues |-> Content(s)]
  BY <1>1, <1>2, <1>3, ContentsAre
<1>5. UNCHANGED (halted # "no")
  OBVIOUS
<1>6. Promise!Next
  BY <1>4, <1>5 DEF Promise!Next, Promise!Locking, Busy
<1> QED
  BY <1>3, <1>6 DEF Shows, ApartOK

-----------------------------------------------------------------------------
(***************************************************************************)
(* SECTION 1.                                                              *)
(***************************************************************************)
(* The abstract calls, one by one.                                         *)
LEMMA OneQueueOffers ==
  ASSUME NEW c
  PROVE  /\ <<Promise!At(c, <<>>, 1), Nothing>> \in Promise!OneQueue(c)
         /\ <<Promise!At(c, c.seq, 1), Nothing>> \in Promise!OneQueue(c)
         /\ <<c, Nothing>> \in Promise!OneQueue(c)
         /\ \A e \in Promise!Elements : <<Promise!Added(c, e), Nothing>> \in Promise!OneQueue(c)
         /\ \A x \in Items : Promise!Found(c, x) \in Promise!OneQueue(c)
         /\ c.seq # <<>> => <<Promise!At(c, Tail(c.seq), 1), <<"info", c.seq[1].info>>>>
                              \in Promise!OneQueue(c)
         /\ Promise!Here(c) => Promise!AtPosition(c) \subseteq Promise!OneQueue(c)
         /\ \A i \in DOMAIN c.seq : Promise!AtContext(c, i) \subseteq Promise!OneQueue(c)
<1>1. Promise!Nothing = Nothing
  BY DEF Promise!Nothing, Nothing
<1> QED
  BY <1>1 DEF Promise!OneQueue

(* The parts of what the callers see.                                      *)
LEMMA ViewIs ==
  ASSUME NEW m, NEW L, NEW q
  PROVE  /\ View(m, L, q).seq = Elems(m.heap, L[q])
         /\ View(m, L, q).pos = Spot(m.queue[q].current, L[q])
         /\ View(m, L, q).dup = m.queue[q].duplicates
         /\ View(m, L, q).loose = Loose(m.queue[q], L[q])
  BY DEF View, Shown

(* A queue that nobody works on has nothing passed through.                *)
StillOK == \A q \in Queues : lock[q] = NoThread => passed[q] = Unseen

(* What a call without a lock may answer of q.                             *)
Glimpsed(L, q) == IF q \in Busy THEN Promise!Glimpses ELSE Promise!Answers(View(Memory, L, q))

(* A call without a lock.                                                  *)
LEMMA LookShows ==
  ASSUME NEW L, Fits(Memory, L), halted = "no", NEW t, Reads(t),
         UNCHANGED <<heap, queue, halted>>, NEW a, returned' = a,
         \/ a = Nothing \/ (\E b : a = <<"local end", Truth(b)>>)
         \/ \E q \in Queues : a \in Glimpsed(L, q)
  PROVE  Shows
<1>1. Memory' = Memory /\ Busy' = Busy
  BY DEF Memory, Busy, Reads
<1>2. Fits(Memory', L) /\ Holds(Memory', L, {})
  BY <1>1 DEF Fits
<1> DEFINE content == [s \in Queues |-> Content(s)]
<1>3. content' = content /\ \A q \in Queues : content[q] = View(Memory, L, q)
  <2>1. /\ content = [q \in Queues |-> View(Memory, L, q)]
        /\ content' = [q \in Queues |-> View(Memory', L, q)]
    BY <1>2, ContentsAre
  <2> HIDE DEF content
  <2>2. [q \in Queues |-> View(Memory', L, q)] = [q \in Queues |-> View(Memory, L, q)]
    BY <1>1
  <2>3. content' = content
    BY <2>1, <2>2
  <2> QED
    BY <2>1, <2>3
<1> HIDE DEF content
<1>4. \/ a \in {Promise!Nothing} \cup ({"local end"} \X {0, 1})
      \/ \E q \in Queues :
           a \in IF q \in Busy THEN Promise!Glimpses ELSE Promise!Answers(content[q])
  <2>1. CASE a = Nothing
    BY <2>1 DEF Nothing, Promise!Nothing
  <2>2. ASSUME NEW b, a = <<"local end", Truth(b)>> PROVE a \in {"local end"} \X {0, 1}
    BY <2>2 DEF Truth
  <2>3. ASSUME NEW q \in Queues, a \in Glimpsed(L, q)
        PROVE  a \in IF q \in Busy THEN Promise!Glimpses ELSE Promise!Answers(content[q])
    BY <1>3, <2>3 DEF Glimpsed
  <2> QED
    BY <2>1, <2>2, <2>3
<1>5. Promise!Next
  BY <1>1, <1>3, <1>4 DEF Promise!Next, Promise!Looking, content
<1> QED
  BY <1>2, <1>5 DEF Shows, ApartOK

(* Where nobody works there is nothing else to be seen; otherwise a length *)
(* is a length and a truth is one.                                         *)
LEMMA GlimpsesAre ==
  ASSUME StillOK, PassedOK, NEW q \in Queues
  PROVE  /\ q \notin Busy => /\ passed[q].heads = {} /\ passed[q].lengths = {}
                             /\ passed[q].ends = {}
         /\ passed[q].lengths \subseteq Nat
         /\ \A b : /\ <<"empty", Truth(b)>> \in Promise!Glimpses
                   /\ <<"end", Truth(b)>> \in Promise!Glimpses
         /\ \A n \in Nat : <<"length", n>> \in Promise!Glimpses
  BY DEF StillOK, PassedOK, Ways, Busy, Unseen, Promise!Glimpses, Truth

(* A call on q alone that does its work or answers.                        *)
LEMMA OneDoes ==
  ASSUME NEW L, Fits(Memory, L), halted = "no", NEW q \in Queues, Attends(q, q),
         NEW m, NEW s, NEW p, NEW a, NEW d, d = Memory.queue[q].duplicates,
         Goes(Memory, L, m, q, Shown(s, p, d, FALSE)),
         <<Promise!At(View(Memory, L, q), s, p), a>> \in Promise!OneQueue(View(Memory, L, q)),
         Does(m, a)
  PROVE  Shows
<1>1. Reaches(L, m, q, Shown(s, p, d, FALSE))
  BY GoesReaches
<1>2. <<Shown(s, p, d, FALSE), a>> \in Outcomes(L, q, q)
  BY AtIs DEF Outcomes
<1>3. Becomes(m) /\ returned' = IF m.failed THEN returned ELSE a
  BY DEF Does
<1> QED
  BY <1>1, <1>2, <1>3, DoesShows

(* A call on q alone that only answers.                                    *)
LEMMA OneTells ==
  ASSUME NEW L, Fits(Memory, L), halted = "no", NEW q \in Queues, NEW a,
         Attends(q, q),
         <<View(Memory, L, q), a>> \in Promise!OneQueue(View(Memory, L, q)),
         UNCHANGED <<heap, queue, halted>>, returned' = a
  PROVE  Shows
  BY TellsShows DEF Outcomes

(* destroy_queue()                                                         *)
LEMMA DestroyShows ==
  ASSUME ApartOK, LockOK, NEW t \in Threads, NEW q \in Queues, Destroy(t, q)
  PROVE  Shows
<1>0. Attends(q, q)
  BY LocksAttends DEF Destroy
<1>1. PICK L : Fits(Memory, L)
  BY DEF ApartOK
<1>2. Holds(Memory, L, {})
  BY <1>1 DEF Fits
<1>3. PICK m : m = DestroyQueue(Memory, q)
  OBVIOUS
<1>4. PICK d : d = Memory.queue[q].duplicates
  OBVIOUS
<1>5. Goes(Memory, L, m, q, Shown(<<>>, 1, d, FALSE))
  <2>1. /\ m.failed = Memory.failed
        /\ Turns(Memory, L, m, [L EXCEPT ![q] = <<>>], q, Shown(<<>>, 1, d, FALSE))
    BY <1>2, <1>3, <1>4, DestroyTurns
  <2>2. Holds(m, [L EXCEPT ![q] = <<>>], {})
    <3>1. Holds(m, [L EXCEPT ![q] = <<>>], {q})
      BY <1>2, <1>3, DestroyHolds
    <3> QED
      BY <3>1, Fewer
  <2> QED
    BY <2>1, <2>2 DEF Goes
<1>6. halted = "no" /\ Does(m, Nothing)
  BY <1>3 DEF Destroy, Locks, Calls
<1> QED
  BY <1>1, <1>4, <1>5, <1>6, <1>0, OneDoes, OneQueueOffers

(* element_in_queue()                                                      *)
LEMMA FindShows ==
  ASSUME ApartOK, LockOK, NEW t \in Threads, NEW q \in Queues, NEW x \in Items, Find(t, q, x)
  PROVE  Shows
<1>0. Attends(q, q)
  BY LocksAttends DEF Find
<1>1. PICK L : Fits(Memory, L)
  BY DEF ApartOK
<1>2. Holds(Memory, L, {})
  BY <1>1 DEF Fits
<1>3. PICK m : m = ElementInQueue(Memory, q, x)
  OBVIOUS
<1>4. PICK d : d = Memory.queue[q].duplicates
  OBVIOUS
<1>5. PICK s : s = Elems(Memory.heap, L[q])
  OBVIOUS
<1>6. PICK i : i = Match(Memory, q, x)
  OBVIOUS
<1>7. PICK p : p = IF i = 0 THEN 1 ELSE i
  OBVIOUS
<1>8. Goes(Memory, L, m, q, Shown(s, p, d, FALSE))
  <2>1. Turns(Memory, L, m, L, q, Shown(s, p, d, FALSE))
    BY <1>2, <1>3, <1>4, <1>5, <1>6, <1>7, FindTurns
  <2>2. Holds(m, L, {})
    <3>1. Holds(m, L, {} \cup {q})
      BY <1>2, <1>3, FindHolds
    <3> QED
      BY <3>1, Fewer
  <2>3. ~Memory.failed
    BY DEF Memory
  <2> QED
    BY <2>1, <2>2, <2>3 DEF Goes
<1>9. PICK c : c = View(Memory, L, q)
  OBVIOUS
<1>10. PICK a : a = <<"found", Truth(i # 0)>>
  OBVIOUS
<1>11. Promise!IndexOf(c.seq, x) = i /\ c.seq = s
  BY <1>2, <1>5, <1>6, <1>9, MatchIs, ViewIs
<1>12. Promise!Found(c, x) = <<Promise!At(c, s, p), a>>
  BY <1>7, <1>10, <1>11 DEF Promise!Found, Promise!Truth, Truth
<1>13. <<Promise!At(c, s, p), a>> \in Promise!OneQueue(c)
  BY <1>12, OneQueueOffers
<1>14. halted = "no" /\ Does(m, a)
  BY <1>3, <1>6, <1>10 DEF Find, Locks, Calls
<1> QED
  BY <1>1, <1>4, <1>8, <1>9, <1>13, <1>14, <1>0, OneDoes

(* add_to_queue()                                                          *)
LEMMA AddShows ==
  ASSUME ApartOK, LockOK, NEW t \in Threads, NEW q \in Queues, NEW x \in Items, NEW p \in Priorities,
         Add(t, q, x, p)
  PROVE  Shows
<1>0. Attends(q, q)
  BY LocksAttends DEF Add
<1>1. PICK L : Fits(Memory, L)
  BY DEF ApartOK
<1>2. Holds(Memory, L, {})
  BY <1>1 DEF Fits
<1>3. PICK m : m = AddToQueue(Memory, q, x, p)
  OBVIOUS
<1>4. PICK d : d = Memory.queue[q].duplicates
  OBVIOUS
<1>5. PICK e : e = [op |-> p, info |-> x]
  OBVIOUS
<1>6. PICK c : c = View(Memory, L, q)
  OBVIOUS
<1>7. PICK s : s = Promise!With(c.seq, e, c.dup)
  OBVIOUS
<1>8. PICK o : o = IF c.dup \/ Promise!IndexOf(c.seq, e.info) = 0 THEN 1
                   ELSE Promise!IndexOf(c.seq, e.info)
  OBVIOUS
<1>9. Promise!Added(c, e) = Promise!At(c, s, o)
  BY <1>7, <1>8 DEF Promise!Added
<1>10. Promise!At(c, s, o) = Shown(s, o, d, FALSE)
  BY <1>4, <1>6, AtIs
<1>11. Goes(Memory, L, m, q, Shown(s, o, d, FALSE))
  <2>1. Goes(Memory, L, m, q, Promise!Added(c, e))
    BY <1>2, <1>3, <1>5, <1>6, AddTurns
  <2> QED
    BY <1>9, <1>10, <2>1
<1>12. <<Promise!At(c, s, o), Nothing>> \in Promise!OneQueue(c)
  <2>1. e \in Promise!Elements
    BY <1>5 DEF Promise!Elements
  <2> QED
    BY <1>9, <2>1, OneQueueOffers
<1>13. halted = "no" /\ Does(m, Nothing)
  BY <1>3 DEF Add, Locks, Calls
<1> QED
  BY <1>1, <1>4, <1>6, <1>11, <1>12, <1>13, <1>0, OneDoes

(* remove_from_front()                                                     *)
LEMMA RemoveShows ==
  ASSUME ApartOK, LockOK, NEW t \in Threads, NEW q \in Queues, RemoveFromFront(t, q)
  PROVE  Shows
<1>0. Attends(q, q)
  BY LocksAttends DEF RemoveFromFront
<1>1. PICK L : Fits(Memory, L)
  BY DEF ApartOK
<1>2. Holds(Memory, L, {})
  BY <1>1 DEF Fits
<1>3. CASE queue[q].queue = NULL
  BY <1>3, StopsShows DEF RemoveFromFront
<1>4. CASE queue[q].queue # NULL
  <2>1. PICK m : m = RemoveFront(Memory, q)
    OBVIOUS
  <2>2. PICK d : d = Memory.queue[q].duplicates
    OBVIOUS
  <2>3. PICK c : c = View(Memory, L, q)
    OBVIOUS
  <2>4. PICK s : s = Tail(c.seq)
    OBVIOUS
  <2>5. PICK a : a = <<"info", heap[queue[q].queue].info>>
    OBVIOUS
  <2>6. Memory.queue = queue /\ Memory.heap = heap /\ ~Memory.failed
    BY DEF Memory
  <2>7. c.seq = Elems(heap, L[q])
    BY <2>3, <2>6, ViewIs
  <2>8. /\ queue[q].queue = L[q][1] /\ 1 \in 1..Len(L[q])
        /\ m.failed = Memory.failed
        /\ \E K : Holds(m, K, {}) /\ Turns(Memory, L, m, K, q, Shown(s, 1, d, FALSE))
    BY <1>2, <1>4, <2>1, <2>2, <2>4, <2>6, <2>7, RemoveFrontTurns
  <2>9. Goes(Memory, L, m, q, Shown(s, 1, d, FALSE))
    BY <2>8 DEF Goes
  <2>10. <<Promise!At(c, s, 1), a>> \in Promise!OneQueue(c)
    <3>1. HasElems(heap, L[q], c.seq)
      BY <1>2, <2>6, <2>7, ElemsAre
    <3>2. c.seq[1] = Entry(heap[L[q][1]]) /\ Len(c.seq) = Len(L[q])
      BY <2>8, <3>1 DEF HasElems
    <3>3. c.seq # <<>>
      <4>1. Len(<<>>) = 0
        OBVIOUS
      <4>2. Len(L[q]) # 0
        BY <2>8
      <4> QED
        BY <3>2, <4>1, <4>2
    <3>4. a = <<"info", c.seq[1].info>>
      BY <2>5, <2>8, <3>2, EntryIs
    <3> QED
      BY <2>4, <3>3, <3>4, OneQueueOffers
  <2>11. halted = "no" /\ Does(m, a)
    BY <1>4, <2>1, <2>5 DEF RemoveFromFront, Locks, Calls
  <2> QED
    BY <1>1, <2>2, <2>3, <2>9, <2>10, <2>11, <1>0, OneDoes
<1> QED
  BY <1>3, <1>4

(* A list that begins with NULL is empty, for the callers too.             *)
LEMMA EmptyIs ==
  ASSUME NEW L, Holds(Memory, L, {}), NEW q \in Queues
  PROVE  /\ queue[q].queue = NULL <=> Elems(heap, L[q]) = <<>>
         /\ queue[q].queuelength = Len(Elems(heap, L[q]))
<1>1. Memory.queue = queue /\ Memory.heap = heap
  BY DEF Memory
<1>2. HasElems(heap, L[q], Elems(heap, L[q]))
  BY <1>1, ElemsAre
<1>3. /\ Len(L[q]) \in Nat /\ queue[q].queue = After(L[q], 0)
      /\ queue[q].queuelength = Len(L[q])
      /\ \A i \in 1..Len(L[q]) : L[q][i] \in Addr
  BY <1>1, OneList
<1>4. queue[q].queue = NULL <=> Len(L[q]) = 0
  <2>1. CASE Len(L[q]) = 0
    BY <1>3, <2>1 DEF After, NULL
  <2>2. CASE Len(L[q]) # 0
    <3>1. 0 < Len(L[q]) /\ 1 \in 1..Len(L[q])
      BY <1>3, <2>2
    <3>2. queue[q].queue = L[q][1] /\ L[q][1] \in Addr
      BY <1>3, <3>1 DEF After
    <3> QED
      BY <2>2, <3>2 DEF NULL, Addr
  <2> QED
    BY <2>1, <2>2
<1>5. Len(Elems(heap, L[q])) = Len(L[q]) /\ Elems(heap, L[q]) \in Seq(Promise!Elements)
  BY <1>2 DEF HasElems
<1> QED
  BY <1>3, <1>4, <1>5

(* queue_length() and empty_queue()                                        *)
LEMMA CountShows ==
  ASSUME ApartOK, StillOK, PassedOK, NEW t \in Threads, NEW q \in Queues,
         Empty(t, q) \/ Length(t, q)
  PROVE  Shows
<1>1. PICK L : Fits(Memory, L)
  BY DEF ApartOK
<1>2. Holds(Memory, L, {})
  BY <1>1 DEF Fits
<1>3. PICK c : c = View(Memory, L, q)
  OBVIOUS
<1>4. c.seq = Elems(heap, L[q])
  BY <1>3, ViewIs DEF Memory
<1>5. (queue[q].queue = NULL) = (c.seq = <<>>) /\ queue[q].queuelength = Len(c.seq)
  BY <1>2, <1>4, EmptyIs
<1>6. queue[q].queuelength \in Nat
  BY <1>2, OneList DEF Memory
<1>7. \A b : Promise!Truth(b) = Truth(b)
  BY DEF Promise!Truth, Truth
<1>8. ASSUME NEW h \in Heads(q) PROVE <<"empty", Truth(h = NULL)>> \in Glimpsed(L, q)
  <2>1. CASE q \in Busy
    BY <2>1, GlimpsesAre DEF Glimpsed
  <2>2. CASE q \notin Busy
    <3>1. h = queue[q].queue
      BY <2>2, GlimpsesAre DEF Heads
    <3>2. Truth(h = NULL) = Promise!Truth(c.seq = <<>>)
      BY <1>5, <1>7, <3>1
    <3> QED
      BY <1>3, <2>2, <3>2 DEF Glimpsed, Promise!Answers
  <2> QED
    BY <2>1, <2>2
<1>9. ASSUME NEW n \in passed[q].lengths \cup {queue[q].queuelength}
      PROVE  <<"length", n>> \in Glimpsed(L, q)
  <2>1. CASE q \in Busy
    BY <1>6, <2>1, GlimpsesAre DEF Glimpsed
  <2>2. CASE q \notin Busy
    <3>1. n = Len(c.seq)
      BY <1>5, <2>2, GlimpsesAre
    <3> QED
      BY <1>3, <2>2, <3>1 DEF Glimpsed, Promise!Answers
  <2> QED
    BY <2>1, <2>2
<1>10. Reads(t) /\ halted = "no" /\ UNCHANGED <<heap, queue, halted>>
  BY DEF Empty, Length, Reads, Calls, Tells
<1>11. \/ \E h \in Heads(q) : returned' = <<"empty", Truth(h = NULL)>>
       \/ \E n \in passed[q].lengths \cup {queue[q].queuelength} : returned' = <<"length", n>>
  BY DEF Empty, Length, Tells
<1>12. returned' \in Glimpsed(L, q)
  BY <1>8, <1>9, <1>11
<1>13. PICK a : a = returned'
  OBVIOUS
<1> QED
  BY <1>1, <1>10, <1>12, <1>13, LookShows

(* All of SECTION 1.                                                       *)
LEMMA Section1Shows ==
  ASSUME ApartOK, LockOK, StillOK, PassedOK, NEW t \in Threads, NEW q \in Queues, Section1(t, q)
  PROVE  Shows
<1>1. ASSUME NEW fn, NEW r \in Queues, Enter(t, fn, q, r) PROVE Shows
  BY <1>1, RestShows DEF Enter
<1> QED
  BY <1>1, DestroyShows, FindShows, AddShows, RemoveShows, CountShows DEF Section1

-----------------------------------------------------------------------------
(***************************************************************************)
(* SECTION 2.                                                              *)
(***************************************************************************)
(* rewind_queue()                                                          *)
LEMMA RewindShows ==
  ASSUME ApartOK, LockOK, NEW t \in Threads, NEW q \in Queues, RewindQueue(t, q)
  PROVE  Shows
<1>0. Attends(q, q)
  BY LocksAttends DEF RewindQueue
<1>1. PICK L : Fits(Memory, L)
  BY DEF ApartOK
<1>2. Holds(Memory, L, {})
  BY <1>1 DEF Fits
<1>3. PICK m : m = Rewind(Memory, q)
  OBVIOUS
<1>4. PICK d : d = Memory.queue[q].duplicates
  OBVIOUS
<1>5. PICK c : c = View(Memory, L, q)
  OBVIOUS
<1>6. PICK s : s = c.seq
  OBVIOUS
<1>7. Goes(Memory, L, m, q, Shown(s, 1, d, FALSE))
  <2>1. s = Elems(Memory.heap, L[q])
    BY <1>5, <1>6, ViewIs
  <2>2. Turns(Memory, L, m, L, q, Shown(s, 1, d, FALSE))
    BY <1>2, <1>3, <1>4, <2>1, RewindTurns
  <2>3. Holds(m, L, {})
    <3>1. Holds(m, L, {} \cup {q})
      BY <1>2, <1>3, RewindHolds
    <3> QED
      BY <3>1, Fewer
  <2>4. ~Memory.failed
    BY DEF Memory
  <2> QED
    BY <2>2, <2>3, <2>4 DEF Goes
<1>8. <<Promise!At(c, s, 1), Nothing>> \in Promise!OneQueue(c)
  BY <1>6, OneQueueOffers
<1>9. halted = "no" /\ Does(m, Nothing)
  BY <1>3 DEF RewindQueue, Locks, Calls
<1> QED
  BY <1>1, <1>4, <1>5, <1>7, <1>8, <1>9, <1>0, OneDoes

(* Where the position is, for the callers.                                 *)
LEMMA SpotIs ==
  ASSUME NEW m, NEW L, NEW P, Holds(m, L, P), NEW q \in Queues
  PROVE  /\ \A i \in 1..Len(L[q]) : Spot(L[q][i], L[q]) = i
         /\ \A c : Spot(c, L[q]) = Len(L[q]) + 1 <=> c = NULL
<1>1. PICK l : l = L[q]
  OBVIOUS
<1>2. /\ Len(l) \in Nat /\ \A i \in 1..Len(l) : l[i] \in Addr
      /\ \A i, j \in 1..Len(l) : l[i] = l[j] => i = j
  <2>1. Len(l) \in Nat /\ \A i \in 1..Len(l) : l[i] \in Addr
    BY <1>1, OneList
  <2>2. IsList(m.heap, m.queue[q].queue, l)
    BY <1>1 DEF Holds, Chain
  <2> QED
    BY <2>1, <2>2 DEF IsList
<1>3. PICK len \in Nat : len = Len(l)
  BY <1>2
<1>4. ASSUME NEW i \in 1..len PROVE Spot(l[i], l) = i
  <2>1. l[i] # NULL /\ l[i] \in NodesOf(l)
    BY <1>2, <1>3 DEF NULL, Addr, NodesOf
  <2>2. (CHOOSE j \in 1..len : l[j] = l[i]) = i
    BY <1>2, <1>3
  <2> QED
    BY <1>3, <2>1, <2>2 DEF Spot
<1>5. ASSUME NEW c, c # NULL PROVE Spot(c, l) # len + 1
  <2>1. CASE c \in NodesOf(l)
    <3>1. PICK i \in 1..len : c = l[i]
      BY <1>3, <2>1 DEF NodesOf
    <3>2. Spot(c, l) = i
      BY <1>4, <3>1
    <3> QED
      BY <3>2
  <2>2. CASE c \notin NodesOf(l)
    BY <1>5, <2>2 DEF Spot
  <2> QED
    BY <2>1, <2>2
<1>6. Spot(NULL, l) = len + 1
  BY <1>3 DEF Spot
<1> QED
  BY <1>1, <1>3, <1>4, <1>5, <1>6

(* end_of_queue()                                                          *)
LEMMA EndShows ==
  ASSUME ApartOK, StillOK, PassedOK, NEW t \in Threads, NEW q \in Queues, End(t, q)
  PROVE  Shows
<1>1. PICK L : Fits(Memory, L)
  BY DEF ApartOK
<1>2. Holds(Memory, L, {})
  BY <1>1 DEF Fits
<1>3. PICK c : c = View(Memory, L, q)
  OBVIOUS
<1>4. c.pos = Spot(queue[q].current, L[q]) /\ c.seq = Elems(Memory.heap, L[q])
  BY <1>3, ViewIs DEF Memory
<1>5. Len(c.seq) = Len(L[q])
  BY <1>2, <1>4, ElemsAre DEF HasElems
<1>6. queue[q].current = NULL <=> c.pos = Len(c.seq) + 1
  <2>1. \A a : Spot(a, L[q]) = Len(L[q]) + 1 <=> a = NULL
    BY <1>2, SpotIs
  <2> QED
    BY <1>4, <1>5, <2>1
<1>7. ASSUME NEW e \in passed[q].ends \cup {queue[q].current = NULL}
      PROVE  <<"end", Truth(e)>> \in Glimpsed(L, q)
  <2>1. CASE q \in Busy
    BY <2>1, GlimpsesAre DEF Glimpsed
  <2>2. CASE q \notin Busy
    <3>1. e = (queue[q].current = NULL)
      BY <2>2, GlimpsesAre
    <3>2. Truth(e) = Promise!Truth(c.pos = Len(c.seq) + 1)
      BY <1>6, <3>1 DEF Truth, Promise!Truth
    <3> QED
      BY <1>3, <2>2, <3>2 DEF Glimpsed, Promise!Answers
  <2> QED
    BY <2>1, <2>2
<1>8. /\ Reads(t) /\ halted = "no" /\ UNCHANGED <<heap, queue, halted>>
      /\ \E e \in passed[q].ends \cup {queue[q].current = NULL} :
           returned' = <<"end", Truth(e)>>
  BY DEF End, Reads, Calls, Tells
<1>9. returned' \in Glimpsed(L, q)
  BY <1>7, <1>8
<1>10. PICK a : a = returned'
  OBVIOUS
<1> QED
  BY <1>1, <1>8, <1>9, <1>10, LookShows

(* Element i for the callers, and what they may do there.                  *)
LEMMA ElementIs ==
  ASSUME NEW L, Holds(Memory, L, {}), NEW q \in Queues, NEW i \in 1..Len(L[q]),
         NEW c, c = View(Memory, L, q)
  PROVE  /\ i \in DOMAIN c.seq
         /\ c.seq[i].info = heap[L[q][i]].info /\ c.seq[i].op = heap[L[q][i]].priority
         /\ queue[q].current = L[q][i] => c.pos = i /\ Promise!Here(c)
<1>1. /\ c.seq = Elems(Memory.heap, L[q]) /\ Memory.heap = heap
      /\ c.pos = Spot(queue[q].current, L[q])
  BY ViewIs DEF Memory
<1>2. HasElems(heap, L[q], c.seq)
  BY <1>1, ElemsAre
<1>3. i \in DOMAIN c.seq /\ c.seq[i] = Entry(heap[L[q][i]])
  BY <1>2 DEF HasElems
<1>4. queue[q].current = L[q][i] => c.pos = i
  BY <1>1, SpotIs
<1> QED
  BY <1>3, <1>4, EntryIs DEF Promise!Here

(* The abstract calls at an element.                                       *)
LEMMA PositionOffers ==
  ASSUME NEW c, NEW i, i = c.pos
  PROVE  /\ <<c, <<"info", c.seq[i].info>>>> \in Promise!AtPosition(c)
         /\ <<c, <<"priority", c.seq[i].op>>>> \in Promise!AtPosition(c)
         /\ <<Promise!At(c, c.seq, i + 1), Nothing>> \in Promise!AtPosition(c)
         /\ \A x \in Items : <<Promise!Updated(c, i, x), <<"updated", 0>>>>
                               \in Promise!AtPosition(c)
         /\ ~c.loose => <<Promise!At(c, Promise!RemoveAt(c.seq, i), i), Nothing>>
                          \in Promise!AtPosition(c)
<1>1. Promise!Nothing = Nothing
  BY DEF Promise!Nothing, Nothing
<1> QED
  BY <1>1 DEF Promise!AtPosition

(* The position of q is in its list: at element i for the callers.         *)
LEMMA AtPositionShows ==
  ASSUME NEW L, Fits(Memory, L), halted = "no", NEW q \in Queues, NEW i \in 1..Len(L[q]),
         queue[q].current = L[q][i], NEW c, c = View(Memory, L, q),
         NEW a, <<c, a>> \in Promise!AtPosition(c), Tells(a), Attends(q, q)
  PROVE  Shows
<1>1. Holds(Memory, L, {})
  BY DEF Fits
<1>2. Promise!Here(c)
  BY <1>1, ElementIs
<1>3. <<c, a>> \in Promise!OneQueue(c)
  BY <1>2, OneQueueOffers
<1>4. UNCHANGED <<heap, queue, halted>> /\ returned' = a
  BY DEF Tells
<1> QED
  BY <1>3, <1>4, OneTells

(* Elements of a list.                                                     *)
LEMMA InListAt ==
  ASSUME NEW L, Holds(Memory, L, {}), NEW q \in Queues, NEW c, InList(q, c)
  PROVE  \E i \in 1..Len(L[q]) : c = L[q][i]
<1>1. c \in NodesOf(L[q])
  BY InListIs
<1> QED
  BY <1>1 DEF NodesOf

(* peek_at_current() and current_priority()                                *)
LEMMA PeekShows ==
  ASSUME ApartOK, LockOK, NEW t \in Threads, NEW q \in Queues, Peek(t, q)
  PROVE  Shows
<1>0. Attends(q, q)
  BY LocksAttends DEF Peek, AtCurrent
<1>1. PICK L : Fits(Memory, L)
  BY DEF ApartOK
<1>2. Holds(Memory, L, {}) /\ halted = "no"
  BY <1>1 DEF Fits, Peek, AtCurrent, Locks, Calls
<1>3. CASE Stops("exit") \/ Stops("stray")
  BY <1>3, StopsShows
<1>4. ASSUME InList(q, queue[q].current), NEW a,
             a \in {<<"info", heap[queue[q].current].info>>,
                    <<"priority", heap[queue[q].current].priority>>},
             Tells(a)
      PROVE  Shows
  <2>1. PICK i \in 1..Len(L[q]) : queue[q].current = L[q][i]
    BY <1>2, <1>4, InListAt
  <2>2. PICK c : c = View(Memory, L, q)
    OBVIOUS
  <2>3. /\ c.seq[i].info = heap[L[q][i]].info /\ c.seq[i].op = heap[L[q][i]].priority
        /\ c.pos = i
    BY <1>2, <2>1, <2>2, ElementIs
  <2>4. <<c, a>> \in Promise!AtPosition(c)
    BY <1>4, <2>1, <2>3, PositionOffers
  <2> QED
    BY <1>1, <1>2, <1>4, <2>1, <2>2, <2>4, <1>0, AtPositionShows
<1> QED
  BY <1>3, <1>4 DEF Peek, AtCurrent

(* update_current()                                                        *)
LEMMA UpdateShows ==
  ASSUME ApartOK, LockOK, NEW t \in Threads, NEW q \in Queues, NEW x \in Items,
         UpdateCurrent(t, q, x)
  PROVE  Shows
<1>0. Attends(q, q)
  BY LocksAttends DEF UpdateCurrent, AtCurrent
<1>1. PICK L : Fits(Memory, L)
  BY DEF ApartOK
<1>2. Holds(Memory, L, {}) /\ halted = "no" /\ Apart(Memory.queue[q], L[q])
  BY <1>1 DEF Fits, UpdateCurrent, AtCurrent, Locks, Calls
<1>3. CASE Stops("exit") \/ Stops("stray")
  BY <1>3, StopsShows
<1>4. PICK m : m = [Memory EXCEPT !.heap[queue[q].current].info = x]
  OBVIOUS
<1>5. ASSUME InList(q, queue[q].current), Does(m, <<"updated", 0>>)
      PROVE  Shows
  <2>1. PICK i \in 1..Len(L[q]) : queue[q].current = L[q][i]
    BY <1>2, <1>5, InListAt
  <2>2. PICK c : c = View(Memory, L, q)
    OBVIOUS
  <2>3. PICK v : v = Promise!Updated(c, i, x)
    OBVIOUS
  <2>4. m = [Memory EXCEPT !.heap[L[q][i]].info = x]
    BY <1>4, <2>1
  <2>5. Turns(Memory, L, m, L, q, v)
    <3>1. v = [View(Memory, L, q) EXCEPT !.seq[i].info = x]
      BY <2>2, <2>3 DEF Promise!Updated
    <3> QED
      BY <1>2, <2>4, <3>1, UpdateTurns
  <2>6. Reaches(L, m, q, v)
    <3>1. Holds(m, L, {})
      <4>1. L[q][i] \in DOMAIN Memory.heap
        BY <1>2, OneList
      <4> QED
        BY <1>2, <2>4, <4>1, UpdateHolds
    <3>2. m.queue[q] = Memory.queue[q]
      BY <1>4 DEF Memory
    <3> QED
      BY <1>2, <2>5, <3>1, <3>2 DEF Reaches
  <2>7. PICK a : a = <<"updated", 0>>
    OBVIOUS
  <2>8. <<v, a>> \in Outcomes(L, q, q)
    <3>1. c.pos = i /\ Promise!Here(c)
      BY <1>2, <2>1, <2>2, ElementIs
    <3>2. <<v, a>> \in Promise!AtPosition(c)
      BY <2>3, <2>7, <3>1, PositionOffers
    <3>3. <<v, a>> \in Promise!OneQueue(c)
      BY <3>1, <3>2, OneQueueOffers
    <3> QED
      BY <2>2, <3>3 DEF Outcomes
  <2>9. Becomes(m) /\ returned' = IF m.failed THEN returned ELSE a
    BY <1>5, <2>7 DEF Does
  <2> QED
    BY <1>1, <1>2, <2>6, <2>8, <2>9, <1>0, DoesShows
<1> QED
  BY <1>3, <1>4, <1>5 DEF UpdateCurrent, AtCurrent

(* delete_current()                                                        *)
LEMMA DeleteShows ==
  ASSUME ApartOK, LockOK, NEW t \in Threads, NEW q \in Queues, DeleteAtCurrent(t, q)
  PROVE  Shows
<1>0. Attends(q, q)
  BY LocksAttends DEF DeleteAtCurrent, AtCurrent
<1>1. PICK L : Fits(Memory, L)
  BY DEF ApartOK
<1>2. Holds(Memory, L, {}) /\ halted = "no" /\ Memory.queue = queue
  BY <1>1 DEF Fits, DeleteAtCurrent, AtCurrent, Locks, Calls, Memory
<1>3. CASE Stops("exit") \/ Stops("stray")
  BY <1>3, StopsShows
<1>4. PICK m : m = DeleteCurrent(Memory, q)
  OBVIOUS
<1>5. ASSUME Adjacent(q, queue[q].previous, queue[q].current), queue[q].current # NULL,
             Does(m, Nothing)
      PROVE  Shows
  <2>1. PICK i \in 1..Len(L[q]) : /\ queue[q].current = L[q][i]
                                  /\ queue[q].previous = Before(L[q], i)
    BY <1>2, <1>5, AdjacentIs
  <2>2. PICK c : c = View(Memory, L, q)
    OBVIOUS
  <2>3. PICK d : d = Memory.queue[q].duplicates
    OBVIOUS
  <2>4. PICK s : s = Promise!RemoveAt(c.seq, i)
    OBVIOUS
  <2>5. c.pos = i /\ Promise!Here(c) /\ c.seq = Elems(Memory.heap, L[q])
    BY <1>2, <2>1, <2>2, ElementIs, ViewIs
  <2>6. Goes(Memory, L, m, q, Shown(s, i, d, FALSE))
    <3>1. /\ m.failed = Memory.failed
          /\ \E K : Holds(m, K, {}) /\ Turns(Memory, L, m, K, q, Shown(s, i, d, FALSE))
      BY <1>2, <1>4, <2>1, <2>3, <2>4, <2>5, DeleteTurns
    <3> QED
      BY <3>1 DEF Goes
  <2>7. ~c.loose
    <3>1. \A j \in 1..Len(L[q]) : L[q][i] = L[q][j] => i = j
      BY <1>2 DEF Holds, Chain, IsList
    <3>2. ~Loose(queue[q], L[q])
      BY <2>1, <3>1 DEF Loose
    <3> QED
      BY <1>2, <2>2, <3>2, ViewIs
  <2>8. <<Promise!At(c, s, i), Nothing>> \in Promise!OneQueue(c)
    <3>1. <<Promise!At(c, s, i), Nothing>> \in Promise!AtPosition(c)
      BY <2>4, <2>5, <2>7, PositionOffers
    <3> QED
      BY <2>5, <3>1, OneQueueOffers
  <2> QED
    BY <1>1, <1>2, <1>5, <2>2, <2>3, <2>6, <2>8, <1>0, OneDoes
<1> QED
  BY <1>3, <1>4, <1>5 DEF DeleteAtCurrent, AtCurrent

(* next_element()                                                          *)
LEMMA NextShows ==
  ASSUME ApartOK, LockOK, NEW t \in Threads, NEW q \in Queues, Next_Element(t, q)
  PROVE  Shows
<1>0. Attends(q, q)
  BY LocksAttends DEF Next_Element, AtCurrent
<1>1. PICK L : Fits(Memory, L)
  BY DEF ApartOK
<1>2. Holds(Memory, L, {}) /\ halted = "no" /\ Memory.queue = queue
  BY <1>1 DEF Fits, Next_Element, AtCurrent, Locks, Calls, Memory
<1>3. CASE Stops("exit") \/ Stops("stray")
  BY <1>3, StopsShows
<1>4. PICK m : m = Advance(Memory, q)
  OBVIOUS
<1>5. ASSUME InList(q, queue[q].current), Does(m, Nothing)
      PROVE  Shows
  <2>1. PICK i \in 1..Len(L[q]) : queue[q].current = L[q][i]
    BY <1>2, <1>5, InListAt
  <2>2. PICK c : c = View(Memory, L, q)
    OBVIOUS
  <2>3. PICK d : d = Memory.queue[q].duplicates
    OBVIOUS
  <2>4. c.pos = i /\ Promise!Here(c) /\ c.seq = Elems(Memory.heap, L[q])
    BY <1>2, <2>1, <2>2, ElementIs, ViewIs
  <2>5. PICK s : s = c.seq
    OBVIOUS
  <2>6. PICK p : p = i + 1
    OBVIOUS
  <2>7. Goes(Memory, L, m, q, Shown(s, p, d, FALSE))
    <3>1. Turns(Memory, L, m, L, q, Shown(s, p, d, FALSE))
      BY <1>2, <1>4, <2>1, <2>3, <2>4, <2>5, <2>6, AdvanceTurns
    <3>2. Holds(m, L, {})
      <4>1. Memory.queue[q].current \in NodesOf(L[q])
        BY <1>2, <2>1 DEF NodesOf
      <4>2. Holds(m, L, {} \cup {q})
        BY <1>2, <1>4, <4>1, AdvanceHolds
      <4> QED
        BY <4>2, Fewer
    <3>3. ~Memory.failed
      BY DEF Memory
    <3> QED
      BY <3>1, <3>2, <3>3 DEF Goes
  <2>8. <<Promise!At(c, s, p), Nothing>> \in Promise!OneQueue(c)
    <3>1. <<Promise!At(c, s, p), Nothing>> \in Promise!AtPosition(c)
      BY <2>4, <2>5, <2>6, PositionOffers
    <3> QED
      BY <2>4, <3>1, OneQueueOffers
  <2> QED
    BY <1>1, <1>2, <1>5, <2>2, <2>3, <2>7, <2>8, <1>0, OneDoes
<1> QED
  BY <1>3, <1>4, <1>5 DEF Next_Element, AtCurrent

(* All of SECTION 2.                                                       *)
LEMMA Section2Shows ==
  ASSUME ApartOK, LockOK, StillOK, PassedOK, NEW t \in Threads, NEW q \in Queues, Section2(t, q)
  PROVE  Shows
  BY RewindShows, EndShows, PeekShows, DeleteShows, NextShows, UpdateShows DEF Section2

-----------------------------------------------------------------------------
(***************************************************************************)
(* SECTION 3.                                                              *)
(***************************************************************************)
(* The abstract calls at a Context.                                        *)
LEMMA ContextOffers ==
  ASSUME NEW c, NEW i
  PROVE  /\ <<c, <<"local info", c.seq[i].info>>>> \in Promise!AtContext(c, i)
         /\ <<c, <<"local priority", c.seq[i].op>>>> \in Promise!AtContext(c, i)
         /\ <<Promise!Without(c, i), Nothing>> \in Promise!AtContext(c, i)
         /\ \A x \in Items : <<Promise!Updated(c, i, x), Nothing>> \in Promise!AtContext(c, i)
<1>1. Promise!Nothing = Nothing
  BY DEF Promise!Nothing, Nothing
<1> QED
  BY <1>1 DEF Promise!AtContext

(* A thread's Context is one of a queue.                                   *)
LEMMA OwnQueue ==
  ASSUME CtxOK, NEW t \in Threads, Own(t) # NoQueue
  PROVE  Own(t) \in Queues
  BY DEF CtxOK, Own, Contexts

(* What only the thread itself sees.                                       *)
LEMMA SilentShows ==
  ASSUME ApartOK, NEW q \in Queues, halted = "no", Attends(q, q),
         UNCHANGED <<heap, queue, halted>>, returned' = Nothing
  PROVE  Shows
<1>1. PICK L : Fits(Memory, L)
  BY DEF ApartOK
<1>2. <<View(Memory, L, q), Nothing>> \in Promise!OneQueue(View(Memory, L, q))
  BY OneQueueOffers
<1> QED
  BY <1>1, <1>2, OneTells

(* local_end_of_queue()                                                    *)
LEMMA LocalEndShows ==
  ASSUME ApartOK, NEW t \in Threads, LocalEnd(t)
  PROVE  Shows
<1>1. PICK L : Fits(Memory, L)
  BY DEF ApartOK
<1>2. PICK a : a = <<"local end", Truth(ctx[t].current = NULL)>>
  OBVIOUS
<1>3. /\ Reads(t) /\ halted = "no" /\ UNCHANGED <<heap, queue, halted>> /\ returned' = a
  BY <1>2 DEF LocalEnd, Reads, Calls, Tells
<1>4. \E b : a = <<"local end", Truth(b)>>
  BY <1>2
<1> QED
  BY <1>1, <1>3, <1>4, LookShows

(* local_init_context()                                                    *)
LEMMA LocalInitShows ==
  ASSUME ApartOK, NEW t \in Threads, NEW q \in Queues, LocalInit(t, q)
  PROVE  Shows
<1>1. PICK L : Fits(Memory, L)
  BY DEF ApartOK
<1>2. PICK a : a = Nothing
  OBVIOUS
<1>3. /\ Reads(t) /\ halted = "no" /\ UNCHANGED <<heap, queue, halted>> /\ returned' = a
  BY <1>2 DEF LocalInit, Reads, Calls
<1> QED
  BY <1>1, <1>2, <1>3, LookShows

(* local_peek_at_current() and local_current_priority()                    *)
LEMMA LocalPeekShows ==
  ASSUME ApartOK, LockOK, CtxOK, NEW t \in Threads, LocalPeek(t)
  PROVE  Shows
<1>1. PICK L : Fits(Memory, L)
  BY DEF ApartOK
<1>2. Holds(Memory, L, {}) /\ halted = "no" /\ Own(t) # NoQueue
  BY <1>1 DEF Fits, LocalPeek, AtLocal, Locks, Calls
<1>3. PICK q \in Queues : q = Own(t)
  BY <1>2, OwnQueue
<1>0. Attends(q, q)
  BY <1>3, LocksAttends DEF LocalPeek, AtLocal
<1>4. CASE Stops("exit") \/ Stops("stray")
  BY <1>4, StopsShows
<1>5. ASSUME InList(q, ctx[t].current), NEW a,
             a \in {<<"local info", heap[ctx[t].current].info>>,
                    <<"local priority", heap[ctx[t].current].priority>>},
             Tells(a)
      PROVE  Shows
  <2>1. PICK i \in 1..Len(L[q]) : ctx[t].current = L[q][i]
    <3>1. InList(q, ctx[t].current) /\ Holds(Memory, L, {})
      BY <1>2, <1>5
    <3>2. PICK n : n = ctx[t].current
      OBVIOUS
    <3> QED
      BY <3>1, <3>2, InListAt
  <2>2. PICK c : c = View(Memory, L, q)
    OBVIOUS
  <2>3. /\ c.seq[i].info = heap[L[q][i]].info /\ c.seq[i].op = heap[L[q][i]].priority
        /\ i \in DOMAIN c.seq
    BY <1>2, <2>2, ElementIs
  <2>4. <<c, a>> \in Promise!AtContext(c, i)
    BY <1>5, <2>1, <2>3, ContextOffers
  <2>5. <<c, a>> \in Promise!OneQueue(c)
    BY <2>3, <2>4, OneQueueOffers
  <2>6. UNCHANGED <<heap, queue, halted>> /\ returned' = a
    BY <1>5 DEF Tells
  <2> QED
    BY <1>1, <1>2, <2>2, <2>5, <2>6, <1>0, OneTells
<1> QED
  BY <1>3, <1>4, <1>5 DEF LocalPeek, AtLocal

(* local_update_current()                                                  *)
LEMMA LocalUpdateShows ==
  ASSUME ApartOK, LockOK, CtxOK, NEW t \in Threads, NEW x \in Items, LocalUpdate(t, x)
  PROVE  Shows
<1>1. PICK L : Fits(Memory, L)
  BY DEF ApartOK
<1>2. Holds(Memory, L, {}) /\ halted = "no" /\ Own(t) # NoQueue
  BY <1>1 DEF Fits, LocalUpdate, AtLocal, Locks, Calls
<1>3. PICK q \in Queues : q = Own(t)
  BY <1>2, OwnQueue
<1>0. Attends(q, q)
  BY <1>3, LocksAttends DEF LocalUpdate, AtLocal
<1>4. CASE Stops("exit") \/ Stops("stray")
  BY <1>4, StopsShows
<1>5. PICK m : m = [Memory EXCEPT !.heap[ctx[t].current].info = x]
  OBVIOUS
<1>6. ASSUME InList(q, ctx[t].current), Does(m, Nothing)
      PROVE  Shows
  <2>1. PICK i \in 1..Len(L[q]) : ctx[t].current = L[q][i]
    BY <1>2, <1>6, InListAt
  <2>2. PICK c : c = View(Memory, L, q)
    OBVIOUS
  <2>3. PICK v : v = Promise!Updated(c, i, x)
    OBVIOUS
  <2>4. m = [Memory EXCEPT !.heap[L[q][i]].info = x]
    BY <1>5, <2>1
  <2>5. Turns(Memory, L, m, L, q, v)
    <3>1. v = [View(Memory, L, q) EXCEPT !.seq[i].info = x]
      BY <2>2, <2>3 DEF Promise!Updated
    <3> QED
      BY <1>2, <2>4, <3>1, UpdateTurns
  <2>6. Reaches(L, m, q, v)
    <3>1. Holds(m, L, {})
      <4>1. L[q][i] \in DOMAIN Memory.heap
        BY <1>2, OneList
      <4> QED
        BY <1>2, <2>4, <4>1, UpdateHolds
    <3>2. m.queue[q] = Memory.queue[q] /\ Apart(Memory.queue[q], L[q])
      BY <1>1, <1>5 DEF Memory, Fits
    <3> QED
      BY <2>5, <3>1, <3>2 DEF Reaches
  <2>7. <<v, Nothing>> \in Outcomes(L, q, q)
    <3>1. i \in DOMAIN c.seq
      BY <1>2, <2>2, ElementIs
    <3>2. <<v, Nothing>> \in Promise!AtContext(c, i)
      BY <2>3, ContextOffers
    <3>3. <<v, Nothing>> \in Promise!OneQueue(c)
      BY <3>1, <3>2, OneQueueOffers
    <3> QED
      BY <2>2, <3>3 DEF Outcomes
  <2>8. Becomes(m) /\ returned' = IF m.failed THEN returned ELSE Nothing
    BY <1>6 DEF Does
  <2> QED
    BY <1>1, <1>2, <2>6, <2>7, <2>8, <1>0, DoesShows
<1> QED
  BY <1>3, <1>4, <1>5, <1>6 DEF LocalUpdate, AtLocal

(* local_delete_current()                                                  *)
LEMMA LocalDeleteShows ==
  ASSUME ApartOK, LockOK, CtxOK, NEW t \in Threads, LocalDelete(t)
  PROVE  Shows
<1>1. PICK L : Fits(Memory, L)
  BY DEF ApartOK
<1>2. Holds(Memory, L, {}) /\ halted = "no" /\ Own(t) # NoQueue
  BY <1>1 DEF Fits, LocalDelete, AtLocal, Locks, Calls
<1>3. PICK q \in Queues : q = Own(t)
  BY <1>2, OwnQueue
<1>0. Attends(q, q)
  BY <1>3, LocksAttends DEF LocalDelete, AtLocal
<1>4. CASE Stops("exit") \/ Stops("stray")
  BY <1>4, StopsShows
<1>5. PICK m : m = Unlink(Memory, q, ctx[t].previous, ctx[t].current)
  OBVIOUS
<1>6. ASSUME Adjacent(q, ctx[t].previous, ctx[t].current), ctx[t].current # NULL,
             Becomes(m), returned' = Nothing
      PROVE  Shows
  <2>1. PICK i \in 1..Len(L[q]) : /\ ctx[t].current = L[q][i]
                                  /\ ctx[t].previous = Before(L[q], i)
    BY <1>2, <1>6, AdjacentIs
  <2>2. PICK c : c = View(Memory, L, q)
    OBVIOUS
  <2>3. PICK v : v = Promise!Without(c, i)
    OBVIOUS
  <2>4. /\ m.failed = Memory.failed
        /\ \E K : /\ Holds(m, K, {}) /\ Apart(m.queue[q], K[q])
                  /\ Turns(Memory, L, m, K, q, v)
    <3>1. Apart(Memory.queue[q], L[q])
      BY <1>1 DEF Fits
    <3> QED
      BY <1>2, <1>5, <2>1, <2>2, <2>3, <3>1, UnlinkTurns
  <2>5. Reaches(L, m, q, v)
    BY <2>4 DEF Reaches
  <2>6. <<v, Nothing>> \in Outcomes(L, q, q)
    <3>1. i \in DOMAIN c.seq
      BY <1>2, <2>2, ElementIs
    <3>2. <<v, Nothing>> \in Promise!AtContext(c, i)
      BY <2>3, ContextOffers
    <3>3. <<v, Nothing>> \in Promise!OneQueue(c)
      BY <3>1, <3>2, OneQueueOffers
    <3> QED
      BY <2>2, <3>3 DEF Outcomes
  <2>7. ~m.failed
    BY <2>4 DEF Memory
  <2>8. returned' = IF m.failed THEN returned ELSE Nothing
    BY <1>6, <2>7
  <2> QED
    BY <1>1, <1>2, <1>6, <2>5, <2>6, <2>8, <1>0, DoesShows
<1> QED
  BY <1>3, <1>4, <1>5, <1>6 DEF LocalDelete, AtLocal

(* All of SECTION 3.                                                       *)
LEMMA Section3Shows ==
  ASSUME ApartOK, LockOK, CtxOK, NEW t \in Threads, Section3(t)
  PROVE  Shows
<1>1. ASSUME NEW q \in Queues, q = Own(t), Locks(t, q, Was(q)) PROVE Attends(q, q)
  BY <1>1, LocksAttends
<1>2. CASE LocalRewind(t)
  <2>1. PICK q \in Queues : q = Own(t)
    BY <1>2, OwnQueue DEF LocalRewind
  <2>2. Attends(q, q)
    BY <1>1, <1>2, <2>1 DEF LocalRewind
  <2>3. halted = "no" /\ UNCHANGED <<heap, queue, halted>> /\ returned' = Nothing
    BY <1>2 DEF LocalRewind, Locks, Calls
  <2> QED
    BY <2>2, <2>3, SilentShows
<1>3. CASE LocalNext(t)
  <2>1. PICK q \in Queues : q = Own(t)
    BY <1>3, OwnQueue DEF LocalNext, AtLocal
  <2>2. Attends(q, q) /\ halted = "no"
    BY <1>1, <1>3, <2>1 DEF LocalNext, AtLocal, Locks, Calls
  <2>3. CASE Stops("exit") \/ Stops("stray")
    BY <2>3, StopsShows
  <2>4. CASE UNCHANGED <<heap, queue, halted>> /\ returned' = Nothing
    BY <2>2, <2>4, SilentShows
  <2> QED
    BY <1>3, <2>3, <2>4 DEF LocalNext, AtLocal
<1> QED
  BY <1>2, <1>3, LocalInitShows, LocalEndShows, LocalPeekShows, LocalUpdateShows,
     LocalDeleteShows DEF Section3

-----------------------------------------------------------------------------
(***************************************************************************)
(* Calls on two queues.                                                    *)
(***************************************************************************)
(* A thread in a call has the lock of the first queue when it takes that   *)
(* of the second, so the queues are two, and its own, when it works.       *)
HasBoth(t) ==
  /\ call[t].at \in {"second", "body"} => lock[call[t].q1] = t
  /\ call[t].at = "body" => call[t].q1 # call[t].q2 /\ lock[call[t].q2] = t
TwoOK   == \A t \in Threads : HasBoth(t)
LocksOK == LockOK /\ TwoOK

(* The locks a thread in a call has are of queues.                         *)
LEMMA HeldAre ==
  ASSUME CallOK, LocksOK, NEW u \in Threads
  PROVE  /\ call[u].at \in {"second", "body"} =>
              call[u].q1 \in Queues /\ call[u].q2 \in Queues /\ lock[call[u].q1] = u
         /\ call[u].at = "body" => call[u].q1 # call[u].q2 /\ lock[call[u].q2] = u
  BY DEF CallOK, InCall, Idle, LocksOK, TwoOK, HasBoth

(* A step that leaves the locks and the calls alone.                       *)
LEMMA LocksStay ==
  ASSUME LocksOK, UNCHANGED <<lock, call>>
  PROVE  LocksOK'
  BY DEF LocksOK, LockOK, TwoOK, HasBoth

(* Another call on two queues begins: it has no lock yet.                  *)
LEMMA EnterLocks ==
  ASSUME CallOK, LocksOK, NEW t \in Threads, NEW fn, NEW q \in Queues, NEW r \in Queues,
         Enter(t, fn, q, r)
  PROVE  LocksOK'
<1>1. /\ lock' = lock
      /\ call' = [call EXCEPT ![t] = [fn |-> fn, q1 |-> q, q2 |-> r, at |-> "global"]]
  BY DEF Enter
<1>2. call'[t].at = "global" /\ \A u \in Threads \ {t} : call'[u] = call[u]
  BY <1>1 DEF CallOK
<1> QED
  BY <1>1, <1>2 DEF LocksOK, LockOK, TwoOK, HasBoth

(* A call on one queue has a lock that was free.                           *)
LEMMA OneLocks ==
  ASSUME CallOK, LocksOK, NEW t \in Threads, NEW q \in Queues, NEW way, Locks(t, q, way)
  PROVE  LocksOK'
<1>1. lock[q] = NoThread /\ lock' = [lock EXCEPT ![q] = t] /\ call' = call
  BY DEF Locks, Calls
<1>2. LockOK' /\ \A l \in Queues \ {q} : lock'[l] = lock[l]
  BY <1>1 DEF LocksOK, LockOK
<1>3. NoThread \notin Threads
  BY QueueAssumption
<1>4. ASSUME NEW u \in Threads PROVE HasBoth(u)'
  <2>1. /\ call[u].at \in {"second", "body"} =>
             call[u].q1 \in Queues /\ call[u].q2 \in Queues /\ lock[call[u].q1] = u
        /\ call[u].at = "body" => call[u].q1 # call[u].q2 /\ lock[call[u].q2] = u
    BY HeldAre
  <2> QED
    BY <1>1, <1>2, <1>3, <2>1 DEF HasBoth
<1> QED
  BY <1>2, <1>4 DEF LocksOK, TwoOK

(* A lock that is taken was free.                                          *)
LEMMA TakesLocks ==
  ASSUME CallOK, LocksOK, NEW t \in Threads, NEW l \in Queues \cup {Global},
         NEW before, NEW after, Takes(t, l, before, after),
         after = "second" => l = call[t].q1,
         after = "body" => before = "second" /\ l = call[t].q2 /\ call[t].q1 \in Queues
  PROVE  LocksOK'
<1>1. /\ call[t].at = before /\ lock[l] = NoThread
      /\ lock' = [lock EXCEPT ![l] = t] /\ call' = [call EXCEPT ![t].at = after]
  BY DEF Takes
<1>2. NoThread \notin Threads
  BY QueueAssumption
<1>3. lock'[l] = t /\ \A k \in Queues \cup {Global} : k # l => lock'[k] = lock[k]
  BY <1>1 DEF LocksOK, LockOK
<1>4. /\ call'[t] = [call[t] EXCEPT !.at = after]
      /\ \A u \in Threads \ {t} : call'[u] = call[u]
  BY <1>1 DEF CallOK
<1>5. call'[t].at = after /\ call'[t].q1 = call[t].q1 /\ call'[t].q2 = call[t].q2
  <2>1. call[t] \in InCall \cup {Idle}
    BY DEF CallOK
  <2> QED
    BY <1>4, <2>1 DEF InCall, Idle
<1>6. LockOK'
  BY <1>1 DEF LocksOK, LockOK
<1>7. ASSUME NEW u \in Threads \ {t} PROVE HasBoth(u)'
  <2>1. /\ call[u].at \in {"second", "body"} =>
             call[u].q1 \in Queues /\ call[u].q2 \in Queues /\ lock[call[u].q1] = u
        /\ call[u].at = "body" => call[u].q1 # call[u].q2 /\ lock[call[u].q2] = u
    BY HeldAre
  <2>2. call[u].at \in {"second", "body"} => call[u].q1 # l
    BY <1>1, <1>2, <2>1
  <2>3. call[u].at = "body" => call[u].q2 # l
    BY <1>1, <1>2, <2>1
  <2> QED
    BY <1>3, <1>4, <2>1, <2>2, <2>3 DEF HasBoth
<1>8. HasBoth(t)'
  <2>1. CASE after = "second"
    BY <1>3, <1>5, <2>1 DEF HasBoth
  <2>2. CASE after = "body"
    <3>1. lock[call[t].q1] = t
      BY <1>1, <2>2, HeldAre
    <3>2. call[t].q1 # l
      BY <1>1, <1>2, <3>1
    <3> QED
      BY <1>3, <1>5, <2>2, <3>1, <3>2 DEF HasBoth
  <2>3. CASE after \notin {"second", "body"}
    BY <1>5, <2>3 DEF HasBoth
  <2> QED
    BY <2>1, <2>2, <2>3
<1> QED
  BY <1>6, <1>7, <1>8 DEF LocksOK, TwoOK

(* A call that has worked keeps its locks for one more step.               *)
LEMMA BodyLocks ==
  ASSUME CallOK, LocksOK, NEW t \in Threads, Body(t)
  PROVE  LocksOK'
<1>1. lock' = lock /\ call' = [call EXCEPT ![t] = Idle]
  BY DEF Body
<1>2. call'[t].at = "idle" /\ \A u \in Threads \ {t} : call'[u] = call[u]
  BY <1>1 DEF CallOK, Idle
<1> QED
  BY <1>1, <1>2 DEF LocksOK, LockOK, TwoOK, HasBoth

(* A call gives up its own locks.                                          *)
LEMMA LeaveLocks ==
  ASSUME CallOK, LocksOK, NEW t \in Threads, Leave(t)
  PROVE  LocksOK'
<1>1. /\ lock' = [l \in DOMAIN lock |-> IF lock[l] = t THEN NoThread ELSE lock[l]]
      /\ call' = call /\ call[t] = Idle
  BY DEF Leave
<1>2. LockOK' /\ \A l \in Queues : lock'[l] = IF lock[l] = t THEN NoThread ELSE lock[l]
  BY <1>1 DEF LocksOK, LockOK
<1>3. ASSUME NEW u \in Threads \ {t} PROVE HasBoth(u)'
  <2>1. /\ call[u].at \in {"second", "body"} =>
             call[u].q1 \in Queues /\ call[u].q2 \in Queues /\ lock[call[u].q1] = u
        /\ call[u].at = "body" => call[u].q1 # call[u].q2 /\ lock[call[u].q2] = u
    BY HeldAre
  <2> QED
    BY <1>1, <1>2, <2>1 DEF HasBoth
<1>4. HasBoth(t)'
  BY <1>1 DEF HasBoth, Idle
<1> QED
  BY <1>2, <1>3, <1>4 DEF LocksOK, TwoOK

(* Every step of a call keeps to the locks.                                *)
LEMMA ProceedLocks ==
  ASSUME CallOK, LocksOK, NEW t \in Threads, Proceed(t)
  PROVE  LocksOK'
<1>1. call[t] \in InCall \cup {Idle}
  BY DEF CallOK
<1>2. CASE LockGlobal(t)
  BY <1>2, TakesLocks DEF LockGlobal
<1>3. CASE LockFirst(t)
  <2>1. call[t].q1 \in Queues /\ Takes(t, call[t].q1, "first", "second")
    BY <1>1, <1>3 DEF LockFirst, InCall, Idle
  <2> QED
    BY <2>1, TakesLocks
<1>4. CASE LockSecond(t)
  <2>1. /\ call[t].q1 \in Queues /\ call[t].q2 \in Queues
        /\ Takes(t, call[t].q2, "second", "body")
    BY <1>1, <1>4 DEF LockSecond, InCall, Idle
  <2> QED
    BY <2>1, TakesLocks
<1> QED
  BY <1>2, <1>3, <1>4, BodyLocks, LeaveLocks DEF Proceed

(* What a queue passes through is there while a call has its lock.         *)
LEMMA StillKeeps ==
  ASSUME PassedOK, CallOK, LocksOK, StillOK, NEW t \in Threads, Proceed(t) \/ Enters(t)
  PROVE  StillOK'
<1>1. t # NoThread
  BY QueueAssumption
<1>2. CASE UNCHANGED <<lock, passed>>
  BY <1>2 DEF StillOK
<1>3. ASSUME NEW q \in Queues, NEW way, Locks(t, q, way) PROVE StillOK'
  <2>1. lock' = [lock EXCEPT ![q] = t] /\ passed' = [passed EXCEPT ![q] = way]
    BY <1>3 DEF Locks
  <2>2. lock'[q] = t
    BY <2>1 DEF LocksOK, LockOK
  <2>3. \A r \in Queues \ {q} : lock'[r] = lock[r] /\ passed'[r] = passed[r]
    BY <2>1 DEF LocksOK, LockOK, PassedOK
  <2> QED
    BY <1>1, <2>2, <2>3 DEF StillOK
<1>4. ASSUME NEW l, NEW before, NEW after, Takes(t, l, before, after) PROVE StillOK'
  <2>1. lock' = [lock EXCEPT ![l] = t] /\ passed' = passed
    BY <1>4 DEF Takes
  <2>2. \A r \in Queues : lock'[r] = t \/ lock'[r] = lock[r]
    BY <2>1 DEF LocksOK, LockOK
  <2> QED
    BY <1>1, <2>1, <2>2 DEF StillOK
<1>5. ASSUME Body(t) PROVE StillOK'
  <2>1. PICK q1 : q1 = call[t].q1
    OBVIOUS
  <2>2. q1 \in Queues /\ lock[q1] = t /\ lock' = lock
    BY <1>5, <2>1, HeldAre DEF Body
  <2>3. passed' = passed \/ \E way : passed' = [passed EXCEPT ![q1] = way]
    BY <1>5, <2>1 DEF Body
  <2>4. \A r \in Queues \ {q1} : passed'[r] = passed[r]
    BY <2>3 DEF PassedOK
  <2> QED
    BY <1>1, <2>2, <2>4 DEF StillOK
<1>6. ASSUME Leave(t) PROVE StillOK'
  <2>1. \A r \in Queues : /\ lock'[r] = IF lock[r] = t THEN NoThread ELSE lock[r]
                          /\ passed'[r] = IF lock[r] = t THEN Unseen ELSE passed[r]
    BY <1>6 DEF Leave, LocksOK, LockOK
  <2> QED
    BY <1>1, <2>1 DEF StillOK
<1> QED
  BY <1>2, <1>3, <1>4, <1>5, <1>6 DEF Proceed, LockGlobal, LockFirst, LockSecond, Enters

(* The queue with whether the other one lets duplicates in.                *)
Duped(c, e) == [c EXCEPT !.dup = e]
(* Nothing else changes.                                                   *)
LEMMA DupedIs ==
  \A s, p, d, b, e : Duped(Shown(s, p, d, b), e) = Shown(s, p, e, b)
  BY DEF Duped, Shown

(* The abstract calls on two queues.                                       *)
LEMMA TwoOffer ==
  ASSUME NEW L, NEW q, NEW r, q # r, NEW c, c = View(Memory, L, q),
         NEW d, d = View(Memory, L, r)
  PROVE  /\ <<Duped(Promise!At(c, d.seq, 1), d.dup), Nothing>> \in Outcomes(L, q, r)
         /\ <<Promise!At(c, Promise!Merged(c, d), 1), Nothing>> \in Outcomes(L, q, r)
         /\ <<c, <<"equal", Truth(c.seq = d.seq)>>>> \in Outcomes(L, q, r)
<1>1. Promise!Nothing = Nothing /\ \A b : Promise!Truth(b) = Truth(b)
  BY DEF Promise!Nothing, Nothing, Promise!Truth, Truth
<1> QED
  BY <1>1 DEF Outcomes, Promise!TwoQueues, Duped

(* copy_queue(), merge_queues() and equal_queues()                         *)
LEMMA BodyShows ==
  ASSUME ApartOK, CallOK, LocksOK, NEW t \in Threads, Body(t)
  PROVE  Shows
<1>1. PICK L : Fits(Memory, L)
  BY DEF ApartOK
<1>2. Holds(Memory, L, {}) /\ halted = "no" /\ ~Memory.failed
  BY <1>1 DEF Fits, Body, Memory
<1>3. PICK q1 : q1 = call[t].q1
  OBVIOUS
<1>4. PICK q2 : q2 = call[t].q2
  OBVIOUS
<1>5. q1 \in Queues /\ q2 \in Queues /\ q1 # q2 /\ lock[q1] = t /\ lock[q2] = t
  BY <1>3, <1>4, HeldAre DEF Body
<1>0. Attends(q1, q2)
  BY <1>5, QueueAssumption DEF Attends, Busy, Body
<1>6. PICK c : c = View(Memory, L, q1)
  OBVIOUS
<1>7. PICK d : d = View(Memory, L, q2)
  OBVIOUS
<1>8. ASSUME NEW m \in CopyQueue(Memory, q1, q2), Does(m, Nothing) PROVE Shows
  <2>1. PICK s : s = d.seq
    OBVIOUS
  <2>2. PICK b : b = d.dup
    OBVIOUS
  <2>3. s = Elems(Memory.heap, L[q2]) /\ b = Memory.queue[q2].duplicates
    BY <1>7, <2>1, <2>2, ViewIs
  <2>4. PICK v : v = Shown(s, 1, b, FALSE)
    OBVIOUS
  <2>5. Goes(Memory, L, m, q1, Shown(s, 1, b, FALSE))
    BY <1>2, <1>5, <1>8, <2>3, CopyTurns
  <2>6. Reaches(L, m, q1, v)
    BY <2>4, <2>5, GoesReaches
  <2>7. v = Duped(Promise!At(c, s, 1), b)
    <3>1. PICK a : a = Memory.queue[q1].duplicates
      OBVIOUS
    <3>2. PICK y : y = Promise!At(c, s, 1)
      OBVIOUS
    <3>3. y = Shown(s, 1, a, FALSE)
      BY <1>6, <3>1, <3>2, AtIs
    <3>4. Duped(Shown(s, 1, a, FALSE), b) = Shown(s, 1, b, FALSE)
      BY DupedIs, ZenonT(60)
    <3>5. Duped(y, b) = v
      BY <2>4, <3>3, <3>4
    <3> QED
      BY <3>2, <3>5
  <2>8. <<v, Nothing>> \in Outcomes(L, q1, q2)
    BY <1>5, <1>6, <1>7, <2>1, <2>2, <2>7, TwoOffer
  <2>9. Becomes(m) /\ returned' = IF m.failed THEN returned ELSE Nothing
    BY <1>8 DEF Does
  <2> QED
    BY <1>1, <1>2, <1>5, <2>6, <2>8, <2>9, <1>0, DoesShows
<1>9. ASSUME NEW m \in MergeQueues(Memory, q1, q2), Does(m, Nothing) PROVE Shows
  <2>1. PICK s : s = Promise!Merged(c, d)
    OBVIOUS
  <2>2. PICK a : a = Memory.queue[q1].duplicates
    OBVIOUS
  <2>3. PICK v : v = Promise!At(c, s, 1)
    OBVIOUS
  <2>4. v = Shown(s, 1, a, FALSE)
    BY <1>6, <2>2, <2>3, AtIs
  <2>5. Goes(Memory, L, m, q1, v)
    BY <1>2, <1>5, <1>6, <1>7, <1>9, <2>1, <2>3, MergeTurns
  <2>6. Reaches(L, m, q1, v)
    BY <2>4, <2>5, GoesReaches
  <2>7. <<v, Nothing>> \in Outcomes(L, q1, q2)
    BY <1>5, <1>6, <1>7, <2>1, <2>3, TwoOffer
  <2>8. Becomes(m) /\ returned' = IF m.failed THEN returned ELSE Nothing
    BY <1>9 DEF Does
  <2> QED
    BY <1>1, <1>2, <1>5, <2>6, <2>7, <2>8, <1>0, DoesShows
<1>10. ASSUME Tells(<<"equal", Truth(EqualQueues(Memory, q1, q2))>>) PROVE Shows
  <2>1. PICK a : a = <<"equal", Truth(EqualQueues(Memory, q1, q2))>>
    OBVIOUS
  <2>2. EqualQueues(Memory, q1, q2) <=> c.seq = d.seq
    BY <1>2, <1>5, <1>6, <1>7, EqualIs, ViewIs
  <2>3. a = <<"equal", Truth(c.seq = d.seq)>>
    BY <2>1, <2>2 DEF Truth
  <2>4. <<c, a>> \in Outcomes(L, q1, q2)
    BY <1>5, <1>6, <1>7, <2>3, TwoOffer
  <2>5. UNCHANGED <<heap, queue, halted>> /\ returned' = a
    BY <1>10, <2>1 DEF Tells
  <2> QED
    BY <1>1, <1>2, <1>5, <1>6, <2>4, <2>5, <1>0, TellsShows
<1> QED
  BY <1>3, <1>4, <1>8, <1>9, <1>10 DEF Body

(* Taking a lock or giving it back changes nothing for the callers.        *)
LEMMA ProceedShows ==
  ASSUME ApartOK, CallOK, LocksOK, NEW t \in Threads, Proceed(t)
  PROVE  Shows
<1>1. ASSUME NEW l, NEW before, NEW after, Takes(t, l, before, after) PROVE Shows
  BY <1>1, RestShows DEF Takes
<1>2. ASSUME Leave(t) PROVE Shows
  BY <1>2, RestShows DEF Leave
<1> QED
  BY <1>1, <1>2, BodyShows DEF Proceed, LockGlobal, LockFirst, LockSecond

-----------------------------------------------------------------------------
(***************************************************************************)
(* The beginning: every position is at the first or another element.       *)
(***************************************************************************)
Rewound(m) == \A q \in Queues : m.queue[q].current = NULL => m.queue[q].queue = NULL

(* A queue that was rewound is at its first element.                       *)
LEMMA RewindRewound ==
  ASSUME NEW m, NEW L, NEW P, Holds(m, L, P), NEW q \in Queues,
         \A r \in Queues \ {q} : m.queue[r].current = NULL => m.queue[r].queue = NULL
  PROVE  Rewound(Rewind(m, q))
<1>1. PICK n : n = Rewind(m, q)
  OBVIOUS
<1>2. m \in Memories /\ m.queue \in [Queues -> QueueRecs] /\ m.queue[q] \in QueueRecs
  BY DEF Holds, Memories
<1>3. \A r \in Queues \ {q} : n.queue[r] = m.queue[r]
  BY <1>1, <1>2 DEF Rewind, Memories
<1>4. n.queue[q].current = m.queue[q].queue /\ n.queue[q].queue = m.queue[q].queue
  BY <1>1, <1>2 DEF Rewind, Memories, QueueRecs
<1>5. ASSUME NEW r \in Queues, n.queue[r].current = NULL PROVE n.queue[r].queue = NULL
  BY <1>3, <1>4, <1>5
<1> QED
  BY <1>1, <1>5 DEF Rewound

(* add_to_queue() leaves no queue past its end.                            *)
LEMMA AddRewound ==
  ASSUME NEW m, NEW L, NEW P, Holds(m, L, P), Rewound(m), NEW q \in Queues,
         NEW x \in Items, NEW p \in Priorities
  PROVE  Rewound(AddToQueue(m, q, x, p))
<1>1. CASE AddToQueue(m, q, x, p) = Insert(m, q, x, p)
  <2>1. CASE Unused(m.heap) = {}
    <3>1. m \in Memories
      BY DEF Holds
    <3>2. Insert(m, q, x, p) = [m EXCEPT !.failed = TRUE]
      BY <2>1 DEF Insert
    <3>3. [m EXCEPT !.failed = TRUE].queue = m.queue
      BY <3>1 DEF Memories
    <3> QED
      BY <1>1, <3>2, <3>3 DEF Rewound
  <2>2. CASE Unused(m.heap) # {}
    <3>1. PICK n, k, a, node : /\ Insert(m, q, x, p) = Rewind(n, q)
                               /\ Gains(m, L, P, q, x, p, n, k, a, node)
      BY <2>2, InsertIs
    <3>2. Holds(n, [L EXCEPT ![q] = Grown(L[q], k, a)], P \ {q})
      BY <3>1 DEF Gains
    <3>3. \A r \in Queues \ {q} : n.queue[r] = m.queue[r]
      BY <3>1, ChainedIs
    <3>4. \A r \in Queues \ {q} : n.queue[r].current = NULL => n.queue[r].queue = NULL
      BY <3>3 DEF Rewound
    <3>5. Rewound(Rewind(n, q))
      BY <3>2, <3>4, RewindRewound
    <3> QED
      BY <1>1, <3>1, <3>5
  <2> QED
    BY <2>1, <2>2
<1>2. CASE AddToQueue(m, q, x, p) = ElementInQueue(m, q, x)
  <2>1. PICK i : i = Match(m, q, x)
    OBVIOUS
  <2>2. CASE i = 0
    <3>1. ElementInQueue(m, q, x) = Rewind(m, q)
      BY <2>1, <2>2 DEF ElementInQueue
    <3>2. Rewound(Rewind(m, q))
      BY RewindRewound DEF Rewound
    <3> QED
      BY <1>2, <3>1, <3>2
  <2>3. CASE i # 0
    <3>1. i \in 1..Len(L[q]) /\ List(m, q) = L[q] /\ L[q][i] \in Addr
      <4>1. i \in 0..Len(L[q]) /\ Len(L[q]) \in Nat
        BY <2>1, MatchIs, OneList
      <4>2. i \in 1..Len(L[q])
        BY <2>3, <4>1
      <4> QED
        BY <4>2, OneList
    <3>2. PICK b : b = IF i = 1 THEN NULL ELSE L[q][i - 1]
      OBVIOUS
    <3>3. PICK n : n = [m EXCEPT !.queue[q].current = L[q][i], !.queue[q].previous = b]
      OBVIOUS
    <3>4. ElementInQueue(m, q, x) = n
      BY <2>1, <2>3, <3>1, <3>2, <3>3 DEF ElementInQueue
    <3>5. m \in Memories /\ m.queue \in [Queues -> QueueRecs]
      BY DEF Holds, Memories
    <3>6. n.queue[q].current = L[q][i] /\ \A r \in Queues \ {q} : n.queue[r] = m.queue[r]
      BY <3>3, <3>5 DEF Memories, QueueRecs
    <3>7. L[q][i] # NULL
      BY <3>1 DEF Addr, NULL
    <3> QED
      BY <1>2, <3>4, <3>6, <3>7 DEF Rewound
  <2> QED
    BY <2>2, <2>3
<1> QED
  BY <1>1, <1>2 DEF AddToQueue

(* Filling the queues.                                                     *)
LEMMA AddAllRewound ==
  ASSUME NEW m, NEW L, NEW P, Holds(m, L, P), Rewound(m),
         NEW s \in Seq([queue : Queues, info : Items, priority : Priorities]),
         NEW n \in AddAll(m, s)
  PROVE  \E K : Holds(n, K, P) /\ Rewound(n)
<1>1. PICK len \in Nat : len = Len(s)
  BY LenProperties
<1>2. PICK f : AddAll(m, s) = f[len] /\ AddRun(f, m, s, len)
  BY <1>1, AddAllIs
<1> DEFINE Fine(i) == \A x \in f[i] : \E K : Holds(x, K, P) /\ Rewound(x)
           bad == {i \in 0..len : ~Fine(i)}
<1>3. Fine(0)
  BY <1>2 DEF AddRun
<1>4. ASSUME NEW i \in 1..len, Fine(i - 1) PROVE Fine(i)
  <2> SUFFICES ASSUME NEW x \in f[i] PROVE \E K : Holds(x, K, P) /\ Rewound(x)
    OBVIOUS
  <2>1. PICK e : e = s[i]
    OBVIOUS
  <2>2. e.queue \in Queues /\ e.info \in Items /\ e.priority \in Priorities
    <3>1. s[i] \in [queue : Queues, info : Items, priority : Priorities]
      BY <1>1, ElementOfSeq
    <3> QED
      BY <2>1, <3>1
  <2>3. x \in Added(f[i - 1], e)
    BY <1>2, <2>1 DEF AddRun
  <2>4. PICK y \in f[i - 1] : x = AddToQueue(y, e.queue, e.info, e.priority)
    BY <2>3 DEF Added
  <2>5. PICK K : Holds(y, K, P) /\ Rewound(y)
    BY <1>4, <2>4
  <2>6. \E J : Holds(x, J, P)
    BY <2>2, <2>4, <2>5, AddHolds
  <2>7. Rewound(x)
    BY <2>2, <2>4, <2>5, AddRewound
  <2> QED
    BY <2>6, <2>7
<1>5. bad = {}
  <2> SUFFICES ASSUME bad # {} PROVE FALSE
    OBVIOUS
  <2> HIDE DEF Fine
  <2>1. bad \in SUBSET Nat
    OBVIOUS
  <2>2. PICK i \in bad : \A j \in bad : i <= j
    BY <2>1, LeastExists
  <2>3. i # 0 /\ i - 1 \in 0..len /\ i - 1 \notin bad
    BY <1>3, <2>2
  <2> QED
    BY <1>4, <2>2, <2>3
<1>6. Fine(len)
  <2> HIDE DEF Fine
  <2> QED
    BY <1>5
<1> QED
  BY <1>2, <1>6

(* What is in memory when the threads begin.                               *)
LEMMA StartHolds ==
  ASSUME Init
  PROVE  \E L : Holds(Memory, L, Queues) /\ Rewound(Memory)
<1>1. PICK m0 : m0 = [heap |-> <<>>, failed |-> FALSE,
                      queue |-> [q \in Queues |-> InitQueue(Twice[q])]]
  OBVIOUS
<1>2. PICK filling \in Fillings :
        \E m \in AddAll(m0, filling) : heap = m.heap /\ queue = m.queue
  BY <1>1 DEF Init
<1>3. PICK m \in AddAll(m0, filling) : heap = m.heap /\ queue = m.queue
  BY <1>2
<1>4. filling \in Seq([queue : Queues, info : Items, priority : Priorities])
  BY QueueAssumption
<1>5. PICK L : Holds(m0, L, Queues) /\ Rewound(m0)
  BY <1>1, BlankHolds DEF Rewound
<1>6. PICK K : Holds(m, K, Queues) /\ Rewound(m)
  BY <1>3, <1>4, <1>5, AddAllRewound
<1>7. Holds(Memory, K, Queues)
  BY <1>3, <1>6, MemoryIs DEF Memory
<1>8. Rewound(Memory)
  BY <1>3, <1>6 DEF Rewound, Memory
<1> QED
  BY <1>7, <1>8

(* A sound position that is not past the end of a queue.                   *)
LEMMA StartIs ==
  ASSUME NEW m, NEW L, Holds(m, L, Queues), Rewound(m), NEW q \in Queues
  PROVE  /\ Apart(m.queue[q], L[q]) /\ ~Loose(m.queue[q], L[q])
         /\ Spot(m.queue[q].current, L[q]) \in 1..Len(L[q]) \cup {1}
<1>1. PICK l : l = L[q]
  OBVIOUS
<1>2. PICK r : r = m.queue[q]
  OBVIOUS
<1>3. /\ \A i, j \in 1..Len(l) : l[i] = l[j] => i = j
      /\ Standing(r, l)
  BY <1>1, <1>2 DEF Holds, Chain, IsList
<1>4. /\ Len(l) \in Nat /\ r.queue = After(l, 0)
      /\ \A i \in 1..Len(l) : l[i] \in Addr /\ l[i] # NULL
  <2>1. /\ Len(l) \in Nat /\ r.queue = After(l, 0)
        /\ \A i \in 1..Len(l) : l[i] \in Addr
    BY <1>1, <1>2, OneList
  <2> QED
    BY <2>1 DEF Addr, NULL
<1>5. CASE r.current = NULL
  <2>1. r.queue = NULL
    BY <1>2, <1>5 DEF Rewound
  <2>2. Len(l) = 0
    <3>1. SUFFICES ASSUME Len(l) # 0 PROVE FALSE
      OBVIOUS
    <3>2. 0 < Len(l) /\ 1 \in 1..Len(l)
      BY <1>4, <3>1
    <3> QED
      BY <1>4, <2>1, <3>2 DEF After
  <2>3. Spot(r.current, l) = 1
    BY <1>5, <2>2 DEF Spot
  <2>4. Apart(r, l) /\ ~Loose(r, l)
    BY <1>4, <1>5 DEF Apart, Loose
  <2> QED
    BY <1>1, <1>2, <2>3, <2>4
<1>6. CASE r.current # NULL
  <2>1. PICK i \in 1..Len(l) : /\ r.current = l[i]
                               /\ r.previous = IF i = 1 THEN NULL ELSE l[i - 1]
    BY <1>3, <1>6 DEF Standing
  <2>2. r.previous = Before(l, i)
    BY <2>1 DEF Before
  <2>3. Spot(r.current, l) = i
    BY <1>1, <2>1, SpotIs
  <2>4. Apart(r, l) /\ ~Loose(r, l)
    BY <1>3, <2>1, <2>2 DEF Apart, Loose
  <2> QED
    BY <1>1, <1>2, <2>1, <2>3, <2>4
<1> QED
  BY <1>5, <1>6

(* The invariant behind the promise.                                       *)
PromiseInv == Inv /\ PassedOK /\ ApartOK /\ LocksOK /\ StillOK

(* The program begins as QueueSequences does.                              *)
LEMMA InitPromise ==
  Init => PromiseInv /\ Promise!Init
<1> SUFFICES ASSUME Init PROVE PromiseInv /\ Promise!Init
  OBVIOUS
<1>1. PICK L : Holds(Memory, L, Queues) /\ Rewound(Memory)
  BY StartHolds
<1>2. Holds(Memory, L, {})
  BY <1>1, Fewer
<1>3. Fits(Memory, L)
  BY <1>1, <1>2, StartIs DEF Fits
<1>4. LocksOK
  <2>1. /\ lock = [l \in Queues \cup {Global} |-> NoThread]
        /\ call = [t \in Threads |-> Idle]
    BY DEF Init
  <2>2. \A t \in Threads : call[t].at = "idle"
    BY <2>1 DEF Idle
  <2> QED
    BY <2>1, <2>2 DEF LocksOK, LockOK, TwoOK, HasBoth
<1>5. PromiseInv
  <2>1. StillOK
    BY DEF Init, StillOK
  <2> QED
    BY <1>3, <1>4, <2>1, InitHolds DEF PromiseInv, ApartOK
<1> DEFINE content == [q \in Queues |-> Content(q)]
<1>6. ASSUME NEW q \in Queues
      PROVE  /\ Promise!InOrder(content[q].seq) /\ ~content[q].loose
             /\ content[q].pos \in DOMAIN content[q].seq \cup {1}
  <2>1. content[q] = View(Memory, L, q)
    BY <1>2, ContentIs
  <2> HIDE DEF content
  <2>2. PICK c : c = content[q]
    OBVIOUS
  <2>3. /\ c.seq = Elems(Memory.heap, L[q]) /\ c.loose = Loose(Memory.queue[q], L[q])
        /\ c.pos = Spot(Memory.queue[q].current, L[q])
    BY <2>1, <2>2, ViewIs
  <2>4. ~c.loose /\ c.pos \in 1..Len(L[q]) \cup {1}
    BY <1>1, <2>3, StartIs
  <2>5. /\ DOMAIN c.seq = 1..Len(L[q])
        /\ \A i \in 1..Len(L[q]) : c.seq[i].op = Memory.heap[L[q][i]].priority
    <3>1. HasElems(Memory.heap, L[q], c.seq)
      BY <1>2, <2>3, ElemsAre
    <3>2. DOMAIN c.seq = 1..Len(L[q])
      BY <3>1 DEF HasElems
    <3>3. \A i \in 1..Len(L[q]) : c.seq[i] = Entry(Memory.heap[L[q][i]])
      BY <3>1 DEF HasElems
    <3> QED
      BY <3>2, <3>3, EntryIs
  <2>6. Promise!InOrder(c.seq)
    <3>1. \A i, j \in 1..Len(L[q]) : i < j =>
            Memory.heap[L[q][i]].priority <= Memory.heap[L[q][j]].priority
      BY <1>2 DEF Holds, Chain
    <3>2. \A i \in 1..Len(L[q]) : Memory.heap[L[q][i]].priority \in Int
      <4>1. \A i \in 1..Len(L[q]) : Memory.heap[L[q][i]] \in Node
        BY <1>2, OneList
      <4> QED
        BY <4>1, QueueAssumption DEF Node
    <3>3. PICK len \in Nat : len = Len(L[q])
      BY <1>2, OneList
    <3>4. ASSUME NEW i \in 1..len, NEW j \in 1..len, i <= j
          PROVE  c.seq[i].op <= c.seq[j].op
      <4>1. CASE i = j
        BY <2>5, <3>2, <3>3, <4>1
      <4>2. CASE i # j
        BY <2>5, <3>1, <3>3, <3>4, <4>2
      <4> QED
        BY <4>1, <4>2
    <3> QED
      BY <2>5, <3>3, <3>4 DEF Promise!InOrder
  <2> QED
    BY <2>2, <2>4, <2>5, <2>6
<1>7. returned = Promise!Nothing /\ (halted # "no") = FALSE /\ Busy = {}
  BY DEF Init, Nothing, Promise!Nothing, Busy
<1>8. Promise!Init
  <2> HIDE DEF content
  <2>1. \A q \in Queues :
          /\ Promise!InOrder(content[q].seq) /\ ~content[q].loose
          /\ content[q].pos \in DOMAIN content[q].seq \cup {1}
    BY <1>6
  <2> QED
    BY <1>7, <2>1 DEF Promise!Init, content
<1> QED
  BY <1>5, <1>8

(* What the calls do with the locks.                                       *)
LEMMA SectionsLock ==
  ASSUME CtxOK, NEW t \in Threads, NEW q \in Queues, Enterings(t, q)
  PROVE  \/ UNCHANGED <<lock, call>>
         \/ \E fn \in {"copy", "merge", "equal"}, r \in Queues : Enter(t, fn, q, r)
         \/ \E r \in Queues : \E way : Locks(t, r, way)
<1>1. ASSUME Section1(t, q)
      PROVE  \/ UNCHANGED <<lock, call>>
             \/ \E fn \in {"copy", "merge", "equal"}, r \in Queues : Enter(t, fn, q, r)
             \/ \E way : Locks(t, q, way)
  BY <1>1 DEF Section1, Destroy, RemoveFromFront, Empty, Length, Find, Add, Reads, Calls
<1>2. ASSUME Section2(t, q)
      PROVE  UNCHANGED <<lock, call>> \/ \E way : Locks(t, q, way)
  BY <1>2 DEF Section2, RewindQueue, End, Peek, DeleteAtCurrent, Next_Element, UpdateCurrent,
              AtCurrent, Reads, Calls
<1>3. ASSUME Section3(t)
      PROVE  \/ UNCHANGED <<lock, call>>
             \/ Own(t) \in Queues /\ \E way : Locks(t, Own(t), way)
  BY <1>3, OwnQueue DEF Section3, LocalInit, LocalRewind, LocalEnd, LocalPeek, LocalNext,
                        LocalDelete, LocalUpdate, AtLocal, Reads, Calls
<1> QED
  BY <1>1, <1>2, <1>3 DEF Enterings

(* Every step of the program keeps the invariant and the promise.          *)
LEMMA NextPromise ==
  PromiseInv /\ [Next]_vars => PromiseInv' /\ [Promise!Next]_(Promise!vars)
<1> SUFFICES ASSUME PromiseInv, [Next]_vars PROVE PromiseInv' /\ [Promise!Next]_(Promise!vars)
  OBVIOUS
<1>1. /\ Inv /\ PassedOK /\ CtxOK /\ CallOK /\ ApartOK
      /\ LocksOK /\ LockOK /\ StillOK
  BY DEF PromiseInv, Inv, WorkOK, LocksOK
<1>2. Inv' /\ PassedOK'
  BY <1>1, NextHolds
<1>3. ASSUME Shows, LocksOK', StillOK' PROVE PromiseInv' /\ [Promise!Next]_(Promise!vars)
  BY <1>2, <1>3 DEF Shows, PromiseInv
<1>4. ASSUME NEW t \in Threads, NEW q \in Queues, Enterings(t, q)
      PROVE  Shows /\ LocksOK' /\ StillOK'
  <2>1. Enters(t)
    BY <1>1, <1>4, SectionsEnter
  <2>2. StillOK'
    BY <1>1, <2>1, StillKeeps
  <2>3. Shows
    BY <1>1, <1>4, Section1Shows, Section2Shows, Section3Shows DEF Enterings
  <2>4. ASSUME NEW fn, NEW r \in Queues, Enter(t, fn, q, r) PROVE LocksOK'
    BY <1>1, <2>4, EnterLocks
  <2>5. ASSUME NEW r \in Queues, NEW way, Locks(t, r, way) PROVE LocksOK'
    BY <1>1, <2>5, OneLocks
  <2>6. \/ UNCHANGED <<lock, call>>
        \/ \E fn \in {"copy", "merge", "equal"}, r \in Queues : Enter(t, fn, q, r)
        \/ \E r \in Queues : \E way : Locks(t, r, way)
    BY <1>1, <1>4, SectionsLock
  <2> QED
    BY <1>1, <2>2, <2>3, <2>4, <2>5, <2>6, LocksStay
<1>5. ASSUME NEW t \in Threads, Proceed(t) PROVE Shows /\ LocksOK' /\ StillOK'
  BY <1>1, <1>5, ProceedLocks, ProceedShows, StillKeeps
<1>6. CASE UNCHANGED vars
  <2>1. UNCHANGED <<lock, call, passed>> /\ UNCHANGED <<heap, queue, returned, halted>>
    BY <1>6 DEF vars
  <2>2. StillOK'
    BY <1>1, <2>1 DEF StillOK
  <2> QED
    BY <1>1, <1>3, <2>1, <2>2, LocksStay, RestShows
<1>7. ASSUME NEW t \in Threads, Section3(t) PROVE Shows /\ LocksOK' /\ StillOK'
  <2>1. \E q \in Queues : TRUE
    BY <1>1, <1>7, OwnQueue DEF Section3, LocalRewind, LocalEnd, LocalPeek, LocalNext, LocalDelete,
                                LocalUpdate, AtLocal
  <2> QED
    BY <1>4, <1>7, <2>1 DEF Enterings
<1>8. CASE Next
  BY <1>3, <1>4, <1>5, <1>7, <1>8 DEF Next, Enterings
<1> QED
  BY <1>6, <1>8

(* To its callers a queue is a sequence and a position: every call that    *)
(* takes its lock changes them at once and answers from them, and so does  *)
(* a call without a lock while no call is at work on the queue, as         *)
(* QueueSequences has it (prioque.c).                                      *)
THEOREM QueuesKeepPromise == Spec => KeepsPromise
<1>1. Init => PromiseInv /\ Promise!Init
  BY InitPromise
<1>2. PromiseInv /\ [Next]_vars => PromiseInv' /\ [Promise!Next]_(Promise!vars)
  BY NextPromise
<1> QED
  BY <1>1, <1>2, PTL DEF Spec, KeepsPromise, Promise!Spec
=============================================================================
