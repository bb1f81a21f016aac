--------------------------- MODULE CoverageProofs ---------------------------
(***************************************************************************)
(* Theorems about CoverageMap: where the coverage layer stays in step, the *)
(* passes see the image without the covered blocks, the addresses of the   *)
(* log and the counts of the blockmap are right, and pass 1 moves on, for  *)
(* any image, blockmap, buffer and overlap.                                *)
(***************************************************************************)
EXTENDS CoverageMap, SequenceTheorems, FiniteSetTheorems, WellFoundedInduction, TLAPS

-----------------------------------------------------------------------------
(***************************************************************************)
(* Numbers.                                                                *)
(***************************************************************************)

(* A set of naturals that is not empty has a least element.                *)
LEMMA LeastExists ==
  ASSUME NEW S \in SUBSET Nat, S # {}
  PROVE  \E m \in S : \A x \in S : m <= x
<1>1. IsWellFoundedOn(OpToRel(<, Nat), Nat)
  BY NatLessThanWellFounded
<1>2. PICK m \in S : \A x \in S : <<x, m>> \notin OpToRel(<, Nat)
  BY <1>1, WFMin
<1>3. \A x \in S : ~(x < m)
  BY <1>2 DEF OpToRel
<1> QED
  BY <1>3

(* Division by a positive number.                                          *)
LEMMA Division ==
  ASSUME NEW p \in Nat \ {0}, NEW x \in Nat
  PROVE  /\ x \div p \in Nat /\ x % p \in 0..(p - 1)
         /\ p * (x \div p) \in Nat
         /\ x = (p * (x \div p)) + (x % p)
<1>1. x \div p \in Nat
  OBVIOUS
<1>2. x % p \in 0..(p - 1)
  OBVIOUS
<1>3. x = (p * (x \div p)) + (x % p)
  OBVIOUS
<1>4. p * (x \div p) \in Nat
  BY <1>1
<1> QED
  BY <1>1, <1>2, <1>3, <1>4

(* Multiples of a positive number are in the order of their factors.       *)
LEMMA Multiples ==
  ASSUME NEW p \in Nat, NEW x \in Nat, NEW y \in Nat, x <= y
  PROVE  p * x \in Nat /\ p * y \in Nat /\ p * x <= p * y
<1>1. PICK d \in Nat : y = x + d
  <2>1. y - x \in Nat /\ y = x + (y - x)
    OBVIOUS
  <2> QED
    BY <2>1
<1>2. p * y = p * x + p * d
  BY <1>1
<1>3. p * x \in Nat /\ p * d \in Nat
  BY <1>1
<1> QED
  BY <1>2, <1>3

(* A multiple of p and the next one.                                       *)
LEMMA NextMultiple ==
  ASSUME NEW p \in Nat, NEW x \in Nat
  PROVE  p * x \in Nat /\ p * (x + 1) = p * x + p
OBVIOUS

(* Multiples are added and subtracted as their factors are.                *)
LEMMA Distributes ==
  ASSUME NEW p \in Int, NEW x \in Int, NEW y \in Int
  PROVE  /\ p * (x + y) = (p * x) + (p * y) /\ p * (x - y) = (p * x) - (p * y)
         /\ p * x = x * p /\ p * x \in Int
OBVIOUS

(* A number between two multiples of p is in the block before the second.  *)
LEMMA QuotientIs ==
  ASSUME NEW p \in Nat \ {0}, NEW x \in Nat, NEW k \in Nat,
         p * k <= x, x < (p * k) + p
  PROVE  x \div p = k /\ x % p = x - (p * k)
<1>1. PICK d \in Nat : d = x \div p
  BY Division
<1>2. PICK r \in 0..(p - 1) : r = x % p
  BY Division
<1>3. p * d \in Nat /\ x = (p * d) + r
  BY <1>1, <1>2, Division
<1>4. p * k \in Nat
  BY NextMultiple
<1>5. ~(d < k)
  <2>1. SUFFICES ASSUME d + 1 <= k PROVE FALSE
    OBVIOUS
  <2>2. p * (d + 1) <= p * k /\ p * (d + 1) = p * d + p
    BY <2>1, Multiples, NextMultiple
  <2> QED
    BY <1>2, <1>3, <1>4, <2>2
<1>6. ~(k < d)
  <2>1. SUFFICES ASSUME k + 1 <= d PROVE FALSE
    OBVIOUS
  <2>2. p * (k + 1) <= p * d /\ p * (k + 1) = p * k + p
    BY <2>1, Multiples, NextMultiple
  <2> QED
    BY <1>2, <1>3, <1>4, <2>2
<1>7. d = k
  BY <1>5, <1>6
<1> QED
  BY <1>1, <1>2, <1>3, <1>4, <1>7

(* Which block a number is in, told by multiples.                          *)
LEMMA QuotientBounds ==
  ASSUME NEW p \in Nat \ {0}, NEW x \in Nat, NEW k \in Nat
  PROVE  /\ x < p * k <=> x \div p < k
         /\ p * k <= x <=> k <= x \div p
<1>1. PICK d \in Nat : d = x \div p
  BY Division
<1>2. PICK r \in 0..(p - 1) : r = x % p
  BY Division
<1>3. p * d \in Nat /\ x = (p * d) + r
  BY <1>1, <1>2, Division
<1>4. p * k \in Nat
  BY NextMultiple
<1>5. CASE d < k
  <2>1. p * (d + 1) <= p * k /\ p * (d + 1) = p * d + p
    BY <1>5, Multiples, NextMultiple
  <2> QED
    BY <1>1, <1>2, <1>3, <1>4, <1>5, <2>1
<1>6. CASE k <= d
  <2>1. p * k <= p * d
    BY <1>6, Multiples
  <2> QED
    BY <1>1, <1>2, <1>3, <1>4, <1>6, <2>1
<1> QED
  BY <1>5, <1>6

(* f[i] comes of f[i - 1] by a step.                                       *)
IsRun(f, n, S, a, step) ==
  /\ f \in [0..n -> S] /\ f[0] = a
  /\ \A i \in 1..n : f[i] = step[<<i, f[i - 1]>>]

(* There is a function defined by recursion over 0..n.                     *)
LEMMA Iterates ==
  ASSUME NEW n \in Nat, NEW S, NEW a \in S, NEW step \in [(1..n) \X S -> S]
  PROVE  \E f : IsRun(f, n, S, a, step)
<1> DEFINE Good(f, k) == /\ f \in [0..n -> S] /\ f[0] = a
                         /\ \A i \in 1..k : f[i] = step[<<i, f[i - 1]>>]
           Bad == {k \in 0..n : ~\E f : Good(f, k)}
<1>1. Bad = {}
  <2> SUFFICES ASSUME Bad # {} PROVE FALSE
    OBVIOUS
  <2>1. PICK k \in Bad : \A j \in Bad : k <= j
    <3>1. Bad \in SUBSET Nat
      OBVIOUS
    <3> QED
      BY <3>1, LeastExists
  <2>2. CASE k = 0
    <3> DEFINE f == [i \in 0..n |-> a]
    <3>1. Good(f, 0)
      OBVIOUS
    <3> QED
      BY <2>1, <2>2, <3>1
  <2>3. CASE k # 0
    <3>0. k \in 1..n /\ k - 1 \in 0..n /\ ~(k <= k - 1)
      BY <2>1, <2>3
    <3>1. k \in 1..n /\ k - 1 \in 0..n /\ k - 1 \notin Bad
      <4> HIDE DEF Bad
      <4> QED
        BY <2>1, <3>0
    <3>2. PICK f : Good(f, k - 1)
      BY <3>1
    <3> DEFINE g == [f EXCEPT ![k] = step[<<k, f[k - 1]>>]]
    <3>3. f[k - 1] \in S /\ step[<<k, f[k - 1]>>] \in S
      BY <3>1, <3>2
    <3>4. g \in [0..n -> S] /\ g[0] = a
      BY <3>1, <3>2, <3>3
    <3>5. ASSUME NEW i \in 1..k PROVE g[i] = step[<<i, g[i - 1]>>]
      <4>1. i \in 0..n /\ i - 1 \in 0..n /\ i - 1 # k
        BY <3>1
      <4>2. g[i - 1] = f[i - 1]
        BY <3>2, <4>1
      <4>3. CASE i = k
        BY <3>2, <4>1, <4>2, <4>3
      <4>4. CASE i # k
        <5>1. i \in 1..(k - 1) /\ g[i] = f[i]
          BY <3>1, <3>2, <4>1, <4>4
        <5> QED
          BY <3>2, <4>2, <5>1
      <4> QED
        BY <4>3, <4>4
    <3>6. Good(g, k)
      BY <3>4, <3>5
    <3> QED
      BY <2>1, <3>6
  <2> QED
    BY <2>2, <2>3
<1>2. n \in 0..n
  OBVIOUS
<1>3. PICK f : Good(f, n)
  BY <1>1, <1>2
<1> QED
  BY <1>3 DEF IsRun

-----------------------------------------------------------------------------
(***************************************************************************)
(* Stretches of bytes.                                                     *)
(***************************************************************************)
Stretch == [op : {0}, start : Nat, length : Nat]

Piece(t) == [j \in 1..t.length |-> (t.start + j) - 1]

(* The bytes in a sequence of stretches.                                   *)
Spread(w) == {x \in Nat : \E i \in DOMAIN w : w[i].start <= x /\ x < End(w[i])}

(* Every stretch begins where the ones before it have ended, or later.     *)
Rising(w) ==
  /\ w \in Seq(Stretch)
  /\ \A i, j \in DOMAIN w : i < j => End(w[i]) <= w[j].start

(* A list has as many elements as there are numbers in it.                 *)
LEMMA ListsCount ==
  ASSUME NEW s \in Seq(Nat), NEW S, Lists(s, S)
  PROVE  IsFiniteSet(S) /\ Cardinality(S) = Len(s)
<1>1. PICK n \in Nat : n = Len(s)
  BY LenProperties
<1>2. DOMAIN s = 1..n /\ s \in [1..n -> Nat]
  BY <1>1, LenProperties
<1>3. /\ \A i, j \in 1..n : i < j => s[i] < s[j]
      /\ {s[i] : i \in 1..n} = S
  BY <1>2 DEF Lists
<1>4. \A i, j \in 1..n : s[i] = s[j] => i = j
  <2> SUFFICES ASSUME NEW i \in 1..n, NEW j \in 1..n, s[i] = s[j], i # j PROVE FALSE
    OBVIOUS
  <2>1. s[i] \in Nat
    BY <1>2
  <2>2. i < j \/ j < i
    OBVIOUS
  <2> QED
    BY <1>3, <2>1, <2>2
<1>5. s \in [1..n -> S]
  BY <1>2, <1>3
<1>6. s \in Bijection(1..n, S)
  BY <1>3, <1>4, <1>5 DEF Bijection, Injection, Surjection, IsInjective
<1>7. ExistsBijection(1..n, S)
  BY <1>6 DEF ExistsBijection
<1>8. Cardinality(S) = n
  BY <1>7, FS_CountingElements
<1>9. IsFiniteSet(S)
  BY <1>7, FS_NatBijection
<1> QED
  BY <1>1, <1>8, <1>9

(* A list goes on with a stretch that begins behind it.                    *)
LEMMA ListsGoOn ==
  ASSUME NEW s \in Seq(Nat), NEW S \in SUBSET Nat, Lists(s, S), NEW t \in Stretch,
         \A x \in S : x < t.start
  PROVE  /\ s \o Piece(t) \in Seq(Nat)
         /\ Lists(s \o Piece(t), S \cup {x \in Nat : t.start <= x /\ x < End(t)})
<1>1. PICK n \in Nat : n = Len(s)
  BY LenProperties
<1>2. PICK a \in Nat : a = t.start
  BY DEF Stretch
<1>3. PICK l \in Nat : l = t.length
  BY DEF Stretch
<1>4. DOMAIN s = 1..n /\ s \in [1..n -> Nat]
  BY <1>1, LenProperties
<1>5. /\ \A i, j \in 1..n : i < j => s[i] < s[j]
      /\ {s[i] : i \in 1..n} = S
  BY <1>4 DEF Lists
<1> DEFINE p == [j \in 1..l |-> (a + j) - 1]
           u == s \o p
           T == {x \in Nat : a <= x /\ x < a + l}
<1>6. p = Piece(t) /\ p \in Seq(Nat) /\ Len(p) = l
  BY <1>2, <1>3 DEF Piece
<1>7. u \in Seq(Nat) /\ Len(u) = n + l
  BY <1>1, <1>6
<1>8. \A i \in 1..n : u[i] = s[i]
  BY <1>1, <1>6
<1>9. \A i \in (n + 1)..(n + l) : u[i] = (a + (i - n)) - 1
  BY <1>1, <1>6
<1>10. DOMAIN u = 1..(n + l)
  BY <1>7, LenProperties
<1>11. \A i \in 1..n : s[i] < a /\ s[i] \in Nat
  BY <1>2, <1>4, <1>5
<1>12. ASSUME NEW i \in 1..(n + l), NEW j \in 1..(n + l), i < j PROVE u[i] < u[j]
  <2> HIDE DEF u
  <2>1. CASE j <= n
    BY <1>5, <1>8, <1>12, <2>1
  <2>2. CASE i <= n /\ j > n
    <3>1. u[i] = s[i] /\ u[j] = (a + (j - n)) - 1 /\ s[i] < a /\ s[i] \in Nat
      BY <1>8, <1>9, <1>11, <2>2
    <3> QED
      BY <2>2, <3>1
  <2>3. CASE i > n
    <3>1. u[i] = (a + (i - n)) - 1 /\ u[j] = (a + (j - n)) - 1
      BY <1>9, <1>12, <2>3
    <3> QED
      BY <1>12, <3>1
  <2> QED
    BY <2>1, <2>2, <2>3
<1>13. {u[i] : i \in 1..(n + l)} = S \cup T
  <2> HIDE DEF u
  <2>1. ASSUME NEW i \in 1..(n + l) PROVE u[i] \in S \cup T
    <3>1. CASE i <= n
      BY <1>5, <1>8, <3>1
    <3>2. CASE i > n
      BY <1>9, <3>2
    <3> QED
      BY <3>1, <3>2
  <2>2. ASSUME NEW x \in S PROVE \E i \in 1..(n + l) : u[i] = x
    BY <1>5, <1>8
  <2>3. ASSUME NEW x \in T PROVE \E i \in 1..(n + l) : u[i] = x
    <3>1. PICK i \in (n + 1)..(n + l) : i = ((x - a) + 1) + n
      OBVIOUS
    <3>2. u[i] = x
      BY <1>9, <3>1
    <3> QED
      BY <3>2
  <2> HIDE DEF T
  <2> QED
    BY <2>1, <2>2, <2>3
<1>14. Lists(u, S \cup T)
  <2> HIDE DEF u, T
  <2> QED
    BY <1>10, <1>12, <1>13 DEF Lists
<1>15. End(t) = a + l
  BY <1>2, <1>3 DEF End
<1> QED
  BY <1>2, <1>6, <1>7, <1>14, <1>15

(* Bytes puts the stretches together.                                      *)
LEMMA BytesAre ==
  ASSUME NEW w \in Seq(Stretch)
  PROVE  \E f \in [0..Len(w) -> Seq(Nat)] :
           /\ f[0] = <<>> /\ Bytes(w) = f[Len(w)]
           /\ \A i \in 1..Len(w) : f[i] = f[i - 1] \o Piece(w[i])
<1>1. PICK n \in Nat : n = Len(w)
  BY LenProperties
<1> DEFINE step == [c \in (1..n) \X Seq(Nat) |-> c[2] \o Piece(w[c[1]])]
           Run(g) == [i \in 0..n |-> IF i = 0 THEN <<>>
                        ELSE g[i - 1] \o Piece(w[i])]
<1>2. \A i \in 1..n : Piece(w[i]) \in Seq(Nat)
  <2> SUFFICES ASSUME NEW i \in 1..n PROVE Piece(w[i]) \in Seq(Nat)
    OBVIOUS
  <2>1. w[i] \in Stretch
    BY <1>1, ElementOfSeq
  <2>2. PICK a \in Nat, l \in Nat : a = w[i].start /\ l = w[i].length
    BY <2>1 DEF Stretch
  <2> QED
    BY <2>2 DEF Piece
<1>3. step \in [(1..n) \X Seq(Nat) -> Seq(Nat)]
  BY <1>2
<1>4. <<>> \in Seq(Nat)
  OBVIOUS
<1>5. PICK f \in [0..n -> Seq(Nat)] : f[0] = <<>> /\ \A i \in 1..n : f[i] = step[<<i, f[i - 1]>>]
  <2> HIDE DEF step
  <2>1. PICK f : IsRun(f, n, Seq(Nat), <<>>, step)
    BY <1>3, <1>4, Iterates
  <2> QED
    BY <2>1 DEF IsRun
<1>6. ASSUME NEW g \in [0..n -> Seq(Nat)], NEW i \in 1..n
      PROVE  step[<<i, g[i - 1]>>] = g[i - 1] \o Piece(w[i])
  <2>1. g[i - 1] \in Seq(Nat)
    BY <1>6
  <2>2. <<i, g[i - 1]>> \in (1..n) \X Seq(Nat)
    BY <2>1
  <2> QED
    BY <2>2
<1>7. f = Run(f)
  <2>1. \A i \in 1..n : f[i] = f[i - 1] \o Piece(w[i])
    <3> HIDE DEF step
    <3> QED
      BY <1>5, <1>6
  <2>2. ASSUME NEW i \in 0..n PROVE f[i] = Run(f)[i]
    <3>1. f[0] = <<>>
      BY <1>5
    <3> HIDE DEF step
    <3>2. i = 0 \/ i \in 1..n
      OBVIOUS
    <3> QED
      BY <2>1, <3>1, <3>2
  <2> QED
    BY <2>2
<1> DEFINE b == CHOOSE g : g = Run(g)
<1>8. b = Run(b)
  <2> HIDE DEF Run
  <2> QED
    BY <1>7
<1>9. Bytes(w) = b[n]
  BY <1>1 DEF Bytes, Piece
<1>10. DOMAIN b = 0..n /\ b[0] = <<>> /\ \A i \in 1..n : b[i] = b[i - 1] \o Piece(w[i])
  <2> HIDE DEF b
  <2>1. ASSUME NEW g, g = Run(g)
        PROVE  DOMAIN g = 0..n /\ g[0] = <<>> /\ \A i \in 1..n : g[i] = g[i - 1] \o Piece(w[i])
    <3>1. DOMAIN g = 0..n
      BY <2>1
    <3>2. ASSUME NEW i \in 0..n
          PROVE  g[i] = IF i = 0 THEN <<>> ELSE g[i - 1] \o Piece(w[i])
      BY <2>1, Zenon
    <3>3. g[0] = <<>>
      BY <3>2
    <3>4. ASSUME NEW i \in 1..n PROVE g[i] = g[i - 1] \o Piece(w[i])
      <4>1. i \in 0..n /\ ~(i = 0)
        OBVIOUS
      <4>2. g[i] = IF i = 0 THEN <<>> ELSE g[i - 1] \o Piece(w[i])
        BY <3>2, <4>1
      <4> QED
        BY <4>1, <4>2, Zenon
    <3> QED
      BY <3>1, <3>3, <3>4
  <2> QED
    BY <1>8, <2>1
<1> HIDE DEF b
<1>11. \A i \in 0..n : b[i] = f[i]
  <2> DEFINE Wrong == {i \in 0..n : b[i] # f[i]}
  <2> SUFFICES ASSUME Wrong # {} PROVE FALSE
    OBVIOUS
  <2>1. PICK k \in Wrong : \A j \in Wrong : k <= j
    <3>1. Wrong \in SUBSET Nat
      OBVIOUS
    <3> QED
      BY <3>1, LeastExists
  <2>2. k # 0
    BY <1>5, <1>10, <2>1
  <2>3. k \in 1..n /\ k - 1 \in 0..n /\ ~(k <= k - 1)
    BY <2>1, <2>2
  <2>4. b[k - 1] = f[k - 1]
    BY <2>1, <2>3
  <2>5. f[k] = f[k - 1] \o Piece(w[k])
    <3> HIDE DEF step
    <3> QED
      BY <1>5, <1>6, <2>3
  <2> QED
    BY <1>10, <2>1, <2>3, <2>4, <2>5
<1>12. \A i \in 1..n : f[i] = f[i - 1] \o Piece(w[i])
  <2> HIDE DEF step
  <2> QED
    BY <1>5, <1>6
<1>13. n \in 0..n
  OBVIOUS
<1> QED
  BY <1>1, <1>5, <1>9, <1>11, <1>12, <1>13

(* A stretch begins and ends at a byte.                                    *)
LEMMA StretchIs ==
  ASSUME NEW t \in Stretch
  PROVE  t.start \in Nat /\ End(t) \in Nat
BY DEF Stretch, End

(* Stretches that rise make an ascending list.                             *)
LEMMA BytesList ==
  ASSUME NEW w, Rising(w)
  PROVE  /\ Bytes(w) \in Seq(Nat) /\ Lists(Bytes(w), Spread(w))
         /\ IsFiniteSet(Spread(w)) /\ Cardinality(Spread(w)) = Len(Bytes(w))
<1>1. w \in Seq(Stretch)
  BY DEF Rising
<1>2. PICK n \in Nat : n = Len(w)
  BY <1>1, LenProperties
<1>3. PICK f \in [0..n -> Seq(Nat)] :
           /\ f[0] = <<>> /\ Bytes(w) = f[n]
           /\ \A i \in 1..n : f[i] = f[i - 1] \o Piece(w[i])
  BY <1>1, <1>2, BytesAre
<1> DEFINE Part(k) == {x \in Nat : \E i \in 1..k : w[i].start <= x /\ x < End(w[i])}
           Wrong == {k \in 0..n : ~Lists(f[k], Part(k))}
<1>4. Wrong = {}
  <2> SUFFICES ASSUME Wrong # {} PROVE FALSE
    OBVIOUS
  <2>1. PICK k \in Wrong : \A j \in Wrong : k <= j
    <3>1. Wrong \in SUBSET Nat
      OBVIOUS
    <3> QED
      BY <3>1, LeastExists
  <2>2. CASE k = 0
    <3>1. Part(0) = {}
      OBVIOUS
    <3>2. Lists(<<>>, {})
      BY DEF Lists
    <3> QED
      BY <1>3, <2>1, <2>2, <3>1, <3>2
  <2>3. CASE k # 0
    <3>1. k \in 1..n /\ k - 1 \in 0..n /\ ~(k <= k - 1)
      BY <2>1, <2>3
    <3>2. Lists(f[k - 1], Part(k - 1))
      BY <2>1, <3>1
    <3>3. w[k] \in Stretch
      BY <1>1, <1>2, <3>1, ElementOfSeq
    <3>4. ASSUME NEW x \in Part(k - 1) PROVE x < w[k].start
      <4>1. PICK i \in 1..(k - 1) : w[i].start <= x /\ x < End(w[i])
        OBVIOUS
      <4>2. i \in DOMAIN w /\ k \in DOMAIN w /\ i < k
        BY <1>1, <1>2, <3>1, LenProperties
      <4>3. End(w[i]) <= w[k].start
        BY <4>2 DEF Rising
      <4>4. w[i] \in Stretch
        BY <1>1, <4>2
      <4>5. x \in Nat
        OBVIOUS
      <4>6. w[k].start \in Nat
        BY <3>3, StretchIs
      <4>7. End(w[i]) \in Nat
        BY <4>4, StretchIs
      <4> HIDE DEF Part, Wrong
      <4> QED
        BY <4>1, <4>3, <4>5, <4>6, <4>7
    <3>5. f[k - 1] \in Seq(Nat) /\ Part(k - 1) \in SUBSET Nat
      BY <3>1
    <3>6. Lists(f[k - 1] \o Piece(w[k]),
                Part(k - 1) \cup {x \in Nat : w[k].start <= x /\ x < End(w[k])})
      <4> HIDE DEF Part
      <4> QED
        BY <3>2, <3>3, <3>4, <3>5, ListsGoOn
    <3>7. Part(k) = Part(k - 1) \cup {x \in Nat : w[k].start <= x /\ x < End(w[k])}
      <4>1. \A i : i \in 1..k <=> i \in 1..(k - 1) \/ i = k
        BY <3>1
      <4> QED
        BY <4>1
    <3>8. Lists(f[k], Part(k))
      BY <1>3, <3>1, <3>6, <3>7
    <3> QED
      BY <2>1, <3>8
  <2> QED
    BY <2>2, <2>3
<1>5. Part(n) = Spread(w)
  <2>1. DOMAIN w = 1..n
    BY <1>1, <1>2, LenProperties
  <2> QED
    BY <2>1 DEF Spread
<1>6. n \in 0..n
  OBVIOUS
<1>7. Lists(Bytes(w), Spread(w)) /\ Bytes(w) \in Seq(Nat)
  BY <1>3, <1>4, <1>5, <1>6
<1> QED
  BY <1>7, ListsCount

-----------------------------------------------------------------------------
(***************************************************************************)
(* The bitmap, and a turn of the walk.                                     *)
(***************************************************************************)
Sound == bs \in Nat \ {0} /\ nb \in Nat /\ bitmap \in [0..(nb - 1) -> BOOLEAN]

(* From block b on, n blocks are covered, or not, and the next is otherwise. *)
RunIs(b, covered, sign, n) ==
  /\ n \in 0..nb
  /\ \A i \in 0..(n - 1) : b + sign * i \in 0..(nb - 1) /\ Covered(b + sign * i) = covered
  /\ b + sign * n \in 0..(nb - 1) => Covered(b + sign * n) # covered

(* RunLength finds the end of such a run.                                  *)
LEMMA RunLengthIs ==
  ASSUME Sound, NEW b \in Int, NEW covered \in BOOLEAN, NEW sign \in {1, -1}
  PROVE  RunIs(b, covered, sign, RunLength(b, covered, sign))
<1> DEFINE On(i) == b + sign * i \in 0..(nb - 1) /\ Covered(b + sign * i) = covered
           Off == {n \in Nat : ~On(n)}
<1>0. nb \in Nat
  BY DEF Sound
<1>1. nb \in Off \/ 0 \in Off
  BY <1>0
<1>2. PICK n \in Off : \A i \in Off : n <= i
  <2>1. Off \in SUBSET Nat /\ Off # {}
    BY <1>1
  <2> QED
    BY <2>1, LeastExists
<1>3. n \in 0..nb
  BY <1>0, <1>1, <1>2
<1>4. \A i \in 0..(n - 1) : On(i)
  <2> SUFFICES ASSUME NEW i \in 0..(n - 1) PROVE On(i)
    OBVIOUS
  <2>1. i \in Nat /\ ~(n <= i)
    BY <1>2
  <2> HIDE DEF On
  <2> QED
    BY <1>2, <2>1
<1>5. ~On(n)
  BY <1>2
<1>6. RunIs(b, covered, sign, n)
  BY <1>3, <1>4, <1>5 DEF RunIs
<1>7. RunLength(b, covered, sign)
        = CHOOSE m \in 0..nb :
            /\ \A i \in 0..(m - 1) : On(i)
            /\ b + sign * m \in 0..(nb - 1) => Covered(b + sign * m) # covered
  BY DEF RunLength
<1> QED
  BY <1>6, <1>7 DEF RunIs

(* A run upwards, block by block.                                          *)
LEMMA RunUp ==
  ASSUME Sound, NEW b \in Nat, NEW covered \in BOOLEAN
  PROVE  /\ RunLength(b, covered, 1) \in 0..nb
         /\ \A k \in b..((b + RunLength(b, covered, 1)) - 1) :
              k < nb /\ Covered(k) = covered
         /\ b + RunLength(b, covered, 1) < nb
              => Covered(b + RunLength(b, covered, 1)) # covered
<1>0. nb \in Nat
  BY DEF Sound
<1>1. PICK n : n = RunLength(b, covered, 1)
  OBVIOUS
<1>2. RunIs(b, covered, 1, n)
  BY <1>1, RunLengthIs
<1>3. n \in 0..nb
  BY <1>2 DEF RunIs
<1>4. ASSUME NEW k \in b..((b + n) - 1) PROVE k < nb /\ Covered(k) = covered
  <2>1. PICK i \in 0..(n - 1) : i = k - b
    BY <1>3
  <2>2. b + 1 * i = k
    BY <2>1
  <2>3. b + 1 * i \in 0..(nb - 1) /\ Covered(b + 1 * i) = covered
    BY <1>2 DEF RunIs
  <2> QED
    BY <1>0, <2>2, <2>3
<1>5. b + n < nb => Covered(b + n) # covered
  <2>1. b + 1 * n = b + n
    BY <1>3
  <2>2. b + 1 * n \in 0..(nb - 1) => Covered(b + 1 * n) # covered
    BY <1>2 DEF RunIs
  <2> QED
    BY <1>0, <1>3, <2>1, <2>2
<1> QED
  BY <1>1, <1>3, <1>4, <1>5

(* A run downwards, block by block.                                        *)
Downs(b, covered, n) ==
  /\ n \in 0..nb
  /\ \A k \in ((b - n) + 1)..b : k \in 0..(nb - 1) /\ Covered(k) = covered
  /\ b - n \in 0..(nb - 1) => Covered(b - n) # covered

(* Downwards RunLength() finds such a run: the walk of the code over the   *)
(* bitmap stops where the bits change or end.                              *)
LEMMA RunDown ==
  ASSUME Sound, NEW b \in Int, NEW covered \in BOOLEAN
  PROVE  Downs(b, covered, RunLength(b, covered, -1))
<1>0. nb \in Nat
  BY DEF Sound
<1>1. PICK n : n = RunLength(b, covered, -1)
  OBVIOUS
<1>2. RunIs(b, covered, -1, n)
  BY <1>1, RunLengthIs
<1>3. n \in 0..nb
  BY <1>2 DEF RunIs
<1>4. ASSUME NEW k \in ((b - n) + 1)..b PROVE k \in 0..(nb - 1) /\ Covered(k) = covered
  <2>1. PICK i \in 0..(n - 1) : i = b - k
    BY <1>3
  <2>2. b + (-1) * i = k
    BY <2>1
  <2>3. b + (-1) * i \in 0..(nb - 1) /\ Covered(b + (-1) * i) = covered
    BY <1>2 DEF RunIs
  <2> QED
    BY <1>0, <2>2, <2>3
<1>5. b - n \in 0..(nb - 1) => Covered(b - n) # covered
  <2>1. b + (-1) * n = b - n
    BY <1>3
  <2>2. b + (-1) * n \in 0..(nb - 1) => Covered(b + (-1) * n) # covered
    BY <1>2 DEF RunIs
  <2> QED
    BY <1>0, <1>3, <2>1, <2>2
<1> QED
  BY <1>1, <1>3, <1>4, <1>5 DEF Downs

(* What remains of a block from p on.                                      *)
LEMMA ContributionIs ==
  ASSUME Sound, NEW p \in Nat
  PROVE  /\ Contribution(p) \in 1..bs
         /\ p + Contribution(p) = bs * ((p \div bs) + 1)
         /\ p % bs = 0 => Contribution(p) = bs /\ p = bs * (p \div bs)
<1>0. bs \in Nat \ {0}
  BY DEF Sound
<1>1. PICK d \in Nat : d = p \div bs
  BY <1>0, Division
<1>2. PICK r \in 0..(bs - 1) : r = p % bs
  BY <1>0, Division
<1>3. bs * d \in Nat /\ p = (bs * d) + r
  BY <1>0, <1>1, <1>2, Division
<1>4. bs * (d + 1) = (bs * d) + bs
  BY <1>0, NextMultiple
<1>5. Contribution(p) = bs - r
  BY <1>2 DEF Contribution
<1> QED
  BY <1>0, <1>1, <1>2, <1>3, <1>4, <1>5

(* Blocks enough for n bytes.                                              *)
LEMMA CeilIs ==
  ASSUME NEW n \in Nat, NEW c \in Nat \ {0}
  PROVE  /\ Ceil(n, c) \in Nat
         /\ n <= c * Ceil(n, c) /\ c * Ceil(n, c) < n + c
         /\ n > 0 => Ceil(n, c) >= 1
<1>1. PICK m \in Nat : m = (n + c) - 1
  OBVIOUS
<1>2. PICK k \in Nat : k = m \div c
  BY <1>1, Division
<1>3. Ceil(n, c) = k
  BY <1>1, <1>2 DEF Ceil
<1>4. PICK r \in 0..(c - 1) : r = m % c
  BY <1>1, Division
<1>5. c * k \in Nat /\ m = (c * k) + r
  BY <1>1, <1>2, <1>4, Division
<1>6. n <= c * k /\ c * k < n + c
  BY <1>1, <1>4, <1>5
<1>7. ASSUME n > 0, k = 0 PROVE FALSE
  <2>1. c * 0 = 0
    OBVIOUS
  <2> QED
    BY <1>6, <1>7, <2>1
<1> QED
  BY <1>2, <1>3, <1>6, <1>7

(* The parts of a turn of the walk.                                        *)
Walking == [p : Nat, b : Nat, n : Nat, taken : Seq(Stretch)]

Skipped(w)  == RunLength(w.b, TRUE, 1)
Begins(w)   == w.p + Skipped(w) * Contribution(w.p)
Kept(w)     == Least(RunLength(w.b + Skipped(w), FALSE, 1), Ceil(w.n, Contribution(Begins(w))))
Taken(w)    == Least(w.n, Kept(w) * Contribution(Begins(w)))
Leaves(w)   == (w.b + Skipped(w)) + Kept(w)
TakenPiece(w) == [op |-> 0, start |-> Begins(w), length |-> Taken(w)]
GoesOn(w)   == w.n # 0 /\ w.b < nb
AfterTurn(w) == [p |-> Begins(w) + Taken(w), b |-> Leaves(w), n |-> w.n - Taken(w),
                 taken |-> Append(w.taken, TakenPiece(w))]

(* A turn takes a piece, or the walk has come to its end.                  *)
LEMMA TurnIs ==
  ASSUME Sound, NEW w \in Walking
  PROVE  Turn(w) = IF GoesOn(w) THEN AfterTurn(w) ELSE w
<1>1. w.b \in Nat /\ w.n \in Nat /\ nb \in Nat
  BY DEF Walking, Sound
<1>2. CASE GoesOn(w)
  <2>1. ~(w.n = 0 \/ w.b >= nb)
    BY <1>1, <1>2 DEF GoesOn
  <2> QED
    BY <1>2, <2>1 DEF Turn, AfterTurn, Begins, Taken, Leaves, TakenPiece, Kept, Skipped
<1>3. CASE ~GoesOn(w)
  <2>1. w.n = 0 \/ w.b >= nb
    BY <1>1, <1>3 DEF GoesOn
  <2> QED
    BY <1>3, <2>1 DEF Turn
<1> QED
  BY <1>2, <1>3

(* The numbers of a turn, whether it is in step or not.                    *)
LEMMA TurnNumbers ==
  ASSUME Sound, NEW w \in Walking, GoesOn(w)
  PROVE  /\ Skipped(w) \in Nat /\ Begins(w) \in Nat /\ Kept(w) \in Nat
         /\ Taken(w) \in 0..w.n /\ Leaves(w) \in Nat /\ w.b < Leaves(w)
         /\ Contribution(Begins(w)) \in 1..bs /\ Contribution(w.p) \in 1..bs
         /\ Begins(w) >= w.p
<1>0. bs \in Nat \ {0} /\ nb \in Nat /\ bitmap \in [0..(nb - 1) -> BOOLEAN]
  BY DEF Sound
<1>a. PICK p \in Nat : p = w.p
  BY DEF Walking
<1>b. PICK b \in 0..(nb - 1) : b = w.b
  BY <1>0 DEF Walking, GoesOn
<1>c. PICK n \in Nat \ {0} : n = w.n
  BY DEF Walking, GoesOn
<1>1. b \in Nat
  BY <1>0
<1>2. PICK k \in 0..nb : k = RunLength(b, TRUE, 1)
  BY <1>1, RunUp
<1>d. Skipped(w) = k
  BY <1>b, <1>2 DEF Skipped
<1>3. PICK c \in 1..bs : c = Contribution(p)
  BY ContributionIs
<1>4. k * c \in Nat
  <2>1. k \in Nat /\ c \in Nat
    BY <1>0
  <2> QED
    BY <2>1
<1>5. PICK s \in Nat : s = p + k * c /\ s >= p
  BY <1>4
<1>e. Begins(w) = s
  BY <1>a, <1>d, <1>3, <1>5 DEF Begins
<1>6. PICK d \in 1..bs : d = Contribution(s)
  BY ContributionIs
<1>7. PICK e \in Nat : e = Ceil(n, d) /\ e >= 1
  <2>1. d \in Nat \ {0} /\ n \in Nat /\ n > 0
    BY <1>0
  <2>2. Ceil(n, d) \in Nat /\ (n > 0 => Ceil(n, d) >= 1)
    BY <2>1, CeilIs
  <2> QED
    BY <2>1, <2>2
<1>f. PICK q \in Nat : q = b + k
  BY <1>0, <1>1
<1>8. PICK r \in 0..nb : r = RunLength(q, FALSE, 1)
  BY RunUp
<1>9. Kept(w) = Least(r, e)
  BY <1>b, <1>c, <1>d, <1>e, <1>f, <1>6, <1>7, <1>8 DEF Kept
<1>10. PICK t \in Nat : t = Kept(w) /\ (t = r \/ t = e) /\ t <= r /\ t <= e
  <2>1. r \in Nat
    BY <1>0
  <2>2. CASE r < e
    BY <1>9, <2>1, <2>2 DEF Least
  <2>3. CASE ~(r < e)
    BY <1>9, <2>1, <2>3 DEF Least
  <2> QED
    BY <2>2, <2>3
<1>11. t * d \in Nat
  BY <1>0, <1>6, <1>10
<1>12. Taken(w) \in 0..n
  BY <1>c, <1>e, <1>6, <1>10, <1>11 DEF Taken, Least
<1>13. k = 0 => r >= 1
  <2> SUFFICES ASSUME k = 0, r = 0 PROVE FALSE
    BY <1>0
  <2>1. RunLength(b, TRUE, 1) = 0 /\ RunLength(b, FALSE, 1) = 0
    <3>1. q = b
      BY <1>1, <1>f
    <3> QED
      BY <1>2, <1>8, <3>1
  <2>2. b + 0 = b /\ b < nb
    BY <1>0, <1>1
  <2>3. b + RunLength(b, TRUE, 1) < nb => Covered(b + RunLength(b, TRUE, 1)) # TRUE
    BY <1>1, RunUp
  <2>4. b + RunLength(b, FALSE, 1) < nb => Covered(b + RunLength(b, FALSE, 1)) # FALSE
    BY <1>1, RunUp
  <2>5. Covered(b) # TRUE /\ Covered(b) # FALSE
    BY <2>1, <2>2, <2>3, <2>4
  <2>6. Covered(b) \in BOOLEAN
    BY <1>0, <1>1 DEF Covered
  <2> QED
    BY <2>5, <2>6
<1>14. Leaves(w) = (b + k) + t
  BY <1>b, <1>d, <1>10 DEF Leaves
<1>15. k + t >= 1
  <2>1. r \in Nat /\ k \in Nat
    BY <1>0
  <2>2. k >= 1 \/ r >= 1
    BY <1>13, <2>1
  <2> QED
    BY <1>7, <1>10, <2>1, <2>2
<1>16. Leaves(w) \in Nat /\ b < Leaves(w)
  <2>1. k \in Nat
    BY <1>0
  <2> QED
    BY <1>1, <1>10, <1>14, <1>15, <2>1
<1> QED
  BY <1>0, <1>a, <1>b, <1>c, <1>d, <1>e, <1>3, <1>5, <1>6, <1>10, <1>12, <1>16

(* A turn leads from one state of a walk to another.                       *)
LEMMA TurnWalks ==
  ASSUME Sound, NEW w \in Walking
  PROVE  /\ Turn(w) \in Walking /\ Turn(w).n <= w.n
         /\ GoesOn(w) => w.b < Turn(w).b
         /\ ~GoesOn(w) => Turn(w) = w
<1>1. CASE GoesOn(w)
  <2>1. Turn(w) = AfterTurn(w)
    BY <1>1, TurnIs
  <2>2. TakenPiece(w) \in Stretch
    BY <1>1, TurnNumbers DEF TakenPiece, Stretch, Walking
  <2>3. w.taken \in Seq(Stretch) /\ w.n \in Nat
    BY DEF Walking
  <2>4. PICK l \in 0..w.n : l = Taken(w)
    BY <1>1, TurnNumbers
  <2>5. Begins(w) + l \in Nat /\ Leaves(w) \in Nat /\ w.n - l \in Nat /\ w.n - l <= w.n
    BY <1>1, <2>3, TurnNumbers
  <2>6. Append(w.taken, TakenPiece(w)) \in Seq(Stretch)
    BY <2>2, <2>3
  <2> QED
    BY <1>1, <2>1, <2>4, <2>5, <2>6, TurnNumbers DEF AfterTurn, Walking
<1>2. CASE ~GoesOn(w)
  <2>1. Turn(w) = w /\ w.n \in Nat
    BY <1>2, TurnIs DEF Walking
  <2> QED
    BY <1>2, <2>1
<1> QED
  BY <1>1, <1>2

(* What the bitmap says of a byte.                                         *)
Clear(x)  == x \div bs < nb /\ Covered(x \div bs) = FALSE
Hidden(x) == x \div bs < nb /\ Covered(x \div bs) = TRUE

(* The bytes of a run of blocks.                                           *)
LEMMA BytesOfRun ==
  ASSUME Sound, NEW b \in Nat, NEW k \in Nat, NEW covered \in BOOLEAN,
         \A j \in b..((b + k) - 1) : j < nb /\ Covered(j) = covered,
         NEW x \in Nat, b <= x \div bs, x < bs * (b + k)
  PROVE  x \div bs < nb /\ Covered(x \div bs) = covered
<1>0. bs \in Nat \ {0}
  BY DEF Sound
<1>1. PICK d \in Nat : d = x \div bs
  BY <1>0, Division
<1>2. PICK m \in Nat : m = b + k
  OBVIOUS
<1>3. d < m
  BY <1>0, <1>1, <1>2, QuotientBounds
<1>4. d \in b..((b + k) - 1)
  BY <1>1, <1>2, <1>3
<1> QED
  BY <1>1, <1>4

(* Where n times the rest of a block ends at the latest.                   *)
LEMMA RestsEnd ==
  ASSUME Sound, NEW p \in Nat, NEW r \in Nat \ {0}
  PROVE  p + r * Contribution(p) <= bs * ((p \div bs) + r)
<1>0. bs \in Nat \ {0}
  BY DEF Sound
<1>1. PICK d \in Nat : d = p \div bs
  BY <1>0, Division
<1>2. PICK c \in 1..bs : c = Contribution(p)
  BY ContributionIs
<1>3. p + c = bs * (d + 1)
  BY <1>1, <1>2, ContributionIs
<1>4. PICK m \in Nat : m = r - 1
  OBVIOUS
<1>5. r * c = c + (m * c)
  BY <1>0, <1>4
<1>6. bs * (d + r) = (bs * (d + 1)) + (bs * m)
  <2>1. d + r = (d + 1) + m
    BY <1>4
  <2>2. bs * ((d + 1) + m) = (bs * (d + 1)) + (bs * m)
    BY <1>0
  <2> QED
    BY <2>1, <2>2
<1>7. m * c <= bs * m /\ m * c \in Nat /\ bs * m \in Nat
  <2>1. c \in Nat /\ c <= bs /\ bs \in Nat
    BY <1>0
  <2>2. m * c <= m * bs /\ m * c \in Nat /\ m * bs \in Nat
    BY <2>1, Multiples
  <2>3. m * bs = bs * m
    BY <1>0
  <2> QED
    BY <2>2, <2>3
<1>8. bs * (d + 1) \in Nat
  BY <1>0
<1> QED
  BY <1>1, <1>2, <1>3, <1>5, <1>6, <1>7, <1>8

(* What a turn in step does: it passes covered bytes, takes clear ones,    *)
(* and has all it needs or is at the beginning of the next block.          *)
TakesInStep(w) ==
  /\ \A x \in w.p..(Begins(w) - 1) : Hidden(x)
  /\ \A x \in Begins(w)..((Begins(w) + Taken(w)) - 1) : Clear(x)
  /\ Taken(w) = w.n \/ Begins(w) + Taken(w) = bs * Leaves(w)
  /\ Leaves(w) <= nb
  /\ Begins(w) = w.p \/ Begins(w) % bs = 0

(* A turn that begins to take at a block boundary.                         *)
LEMMA TakesFromBoundary ==
  ASSUME Sound, NEW w \in Walking, GoesOn(w), Begins(w) = bs * (w.b + Skipped(w)),
         \A x \in w.p..(Begins(w) - 1) : Hidden(x)
  PROVE  TakesInStep(w)
<1>0. bs \in Nat \ {0} /\ nb \in Nat
  BY DEF Sound
<1>1. PICK b \in 0..(nb - 1) : b = w.b
  BY <1>0 DEF Walking, GoesOn
<1>2. PICK k \in 0..nb : k = Skipped(w) /\ k = RunLength(b, TRUE, 1)
  <2>1. b \in Nat
    BY <1>0
  <2> QED
    BY <1>1, <2>1, RunUp DEF Skipped
<1>3. PICK s \in Nat : s = Begins(w)
  BY TurnNumbers
<1>4. PICK q \in Nat : q = b + k
  BY <1>0
<1>5. s = bs * q /\ q <= nb
  <2>1. k = 0 \/ (b + k) - 1 \in b..((b + k) - 1)
    BY <1>0
  <2>2. b \in Nat /\ k \in Nat
    BY <1>0
  <2>3. \A j \in b..((b + RunLength(b, TRUE, 1)) - 1) : j < nb
    BY <2>2, RunUp
  <2>4. k = 0 \/ (b + k) - 1 < nb
    BY <1>2, <2>1, <2>3
  <2>5. q <= nb
    BY <1>0, <1>4, <2>2, <2>4
  <2>6. s = bs * q
    BY <1>1, <1>2, <1>3, <1>4
  <2> QED
    BY <2>5, <2>6
<1>6. Contribution(s) = bs /\ s \div bs = q /\ s % bs = 0
  <2>1. bs * q \in Nat /\ bs * q <= s /\ s < (bs * q) + bs
    BY <1>0, <1>5
  <2>2. s \div bs = q /\ s % bs = s - (bs * q)
    BY <1>0, <2>1, QuotientIs
  <2>3. s % bs = 0
    BY <1>5, <2>1, <2>2
  <2> QED
    BY <2>2, <2>3, ContributionIs
<1>7. PICK r \in 0..nb : r = RunLength(q, FALSE, 1)
  BY RunUp
<1>8. \A j \in q..((q + r) - 1) : j < nb /\ Covered(j) = FALSE
  BY <1>7, RunUp
<1>9. q + r <= nb
  <2>1. r = 0 \/ (q + r) - 1 \in q..((q + r) - 1)
    BY <1>0
  <2> QED
    BY <1>0, <1>5, <1>8, <2>1
<1>10. PICK t \in Nat : t = Kept(w) /\ t <= r
  <2>1. PICK n \in Nat \ {0} : n = w.n
    BY DEF Walking, GoesOn
  <2>2. PICK e \in Nat : e = Ceil(n, bs)
    BY <1>0, <2>1, CeilIs
  <2>3. Kept(w) = Least(r, e)
    BY <1>1, <1>2, <1>3, <1>4, <1>6, <1>7, <2>1, <2>2 DEF Kept
  <2>4. r \in Nat
    BY <1>0
  <2> QED
    BY <2>2, <2>3, <2>4 DEF Least
<1>11. PICK l \in 0..w.n : l = Taken(w) /\ (l = w.n \/ l = bs * t) /\ l <= bs * t
  <2>1. PICK n \in Nat \ {0} : n = w.n
    BY DEF Walking, GoesOn
  <2>2. PICK m \in Nat : m = t * bs /\ m = bs * t
    BY <1>0, <1>10
  <2>3. Taken(w) = Least(n, m)
    BY <1>3, <1>6, <1>10, <2>1, <2>2 DEF Taken
  <2> QED
    BY <2>1, <2>2, <2>3 DEF Least
<1>12. Leaves(w) = q + t /\ q + t <= nb
  <2>1. Leaves(w) = q + t
    BY <1>1, <1>2, <1>4, <1>10 DEF Leaves
  <2>2. r \in Nat
    BY <1>0
  <2> QED
    BY <1>0, <1>9, <1>10, <2>1, <2>2
<1>13. bs * (q + t) = s + (bs * t) /\ bs * t \in Nat
  BY <1>0, <1>5, <1>10
<1>14. ASSUME NEW x \in s..((s + l) - 1) PROVE Clear(x)
  <2>1. w.n \in Nat
    BY DEF Walking
  <2>2. x \in Nat /\ bs * q <= x /\ x < bs * (q + t)
    BY <1>0, <1>3, <1>5, <1>11, <1>13, <2>1
  <2>3. q <= x \div bs
    BY <1>0, <2>2, QuotientBounds
  <2>4. ASSUME NEW j \in q..((q + t) - 1) PROVE j < nb /\ Covered(j) = FALSE
    <3>1. r \in Nat
      BY <1>0
    <3>2. j \in q..((q + r) - 1)
      BY <1>10, <3>1
    <3> QED
      BY <1>8, <3>2
  <2>5. x \div bs < nb /\ Covered(x \div bs) = FALSE
    BY <1>10, <2>2, <2>3, <2>4, BytesOfRun
  <2> QED
    BY <2>5 DEF Clear
<1>15. l = w.n \/ s + l = bs * Leaves(w)
  BY <1>11, <1>12, <1>13
<1> QED
  BY <1>3, <1>6, <1>11, <1>12, <1>14, <1>15 DEF TakesInStep

(* A turn that begins at a block boundary is in step.                      *)
LEMMA TakesAtBoundary ==
  ASSUME Sound, NEW w \in Walking, GoesOn(w), w.p = bs * w.b
  PROVE  TakesInStep(w)
<1>0. bs \in Nat \ {0} /\ nb \in Nat
  BY DEF Sound
<1>1. PICK b \in 0..(nb - 1) : b = w.b
  BY <1>0 DEF Walking, GoesOn
<1>2. PICK k \in 0..nb : k = Skipped(w) /\ k = RunLength(b, TRUE, 1)
  <2>1. b \in Nat
    BY <1>0
  <2> QED
    BY <1>1, <2>1, RunUp DEF Skipped
<1>3. PICK p \in Nat : p = w.p
  BY DEF Walking
<1>4. Contribution(p) = bs /\ p \div bs = b
  <2>0. b \in Nat
    BY <1>0
  <2>1. bs * b \in Nat /\ p = bs * b
    BY <1>0, <1>1, <1>3, <2>0
  <2>2. bs * b <= p /\ p < (bs * b) + bs
    BY <1>0, <2>1
  <2>3. p \div bs = b /\ p % bs = p - (bs * b)
    BY <1>0, <2>0, <2>2, QuotientIs
  <2>4. p % bs = 0
    BY <2>1, <2>3
  <2> QED
    BY <2>3, <2>4, ContributionIs
<1>5. Begins(w) = bs * (b + k)
  <2>1. b \in Nat /\ k \in Nat
    BY <1>0
  <2>2. bs * (b + k) = (bs * b) + (bs * k) /\ bs * k = k * bs
    BY <1>0, <2>1
  <2> QED
    BY <1>1, <1>2, <1>3, <1>4, <2>2 DEF Begins
<1>6. ASSUME NEW x \in w.p..(Begins(w) - 1) PROVE Hidden(x)
  <2>0. b \in Nat /\ k \in Nat
    BY <1>0
  <2>1. bs * (b + k) \in Nat
    BY <1>0, <2>0
  <2>2. x \in Nat /\ p <= x /\ x < bs * (b + k)
    BY <1>3, <1>5, <1>6, <2>1
  <2>3. b <= x \div bs
    <3>1. bs * b <= x
      BY <1>1, <1>3, <2>2
    <3> QED
      BY <1>0, <2>0, <2>2, <3>1, QuotientBounds
  <2>4. \A j \in b..((b + k) - 1) : j < nb /\ Covered(j) = TRUE
    BY <1>2, <2>0, RunUp
  <2>5. x \div bs < nb /\ Covered(x \div bs) = TRUE
    BY <2>0, <2>2, <2>3, <2>4, BytesOfRun
  <2> QED
    BY <2>5 DEF Hidden
<1> QED
  BY <1>1, <1>2, <1>5, <1>6, TakesFromBoundary

(* The walk is in the block of its position.                               *)
Together(w) == w.b = w.p \div bs

(* Only one block before the next covered one, or no more is needed than   *)
(* there is before it.                                                     *)
Enough(w) ==
  \/ RunLength(w.b, FALSE, 1) = 1
  \/ RunLength(w.b, FALSE, 1) * Contribution(w.p) >= w.n

(* A turn that skips nothing, and has enough.                              *)
LEMMA TakesAtOnce ==
  ASSUME Sound, NEW w \in Walking, GoesOn(w), Together(w), Covered(w.b) = FALSE, Enough(w)
  PROVE  TakesInStep(w)
<1>0. bs \in Nat \ {0} /\ nb \in Nat
  BY DEF Sound
<1>1. PICK b \in 0..(nb - 1) : b = w.b
  BY <1>0 DEF Walking, GoesOn
<1>2. PICK p \in Nat : p = w.p
  BY DEF Walking
<1>3. PICK n \in Nat \ {0} : n = w.n
  BY DEF Walking, GoesOn
<1>4. PICK c \in 1..bs : c = Contribution(p)
  BY ContributionIs
<1>d. b = p \div bs
  BY <1>1, <1>2 DEF Together
<1>b. b \in Nat /\ b < nb /\ c \in Nat \ {0}
  BY <1>0
<1>e. PICK r \in 0..nb : RunLength(b, FALSE, 1) = r
  BY <1>b, RunUp
<1>r. r \in Nat
  BY <1>0
<1>a. r = 1 \/ r * c >= n
  BY <1>1, <1>2, <1>3, <1>4, <1>e DEF Enough
<1>5. \A j \in b..((b + r) - 1) : j < nb /\ Covered(j) = FALSE
  BY <1>b, <1>e, RunUp
<1>6. Skipped(w) = 0
  <2>1. PICK k \in 0..nb : k = RunLength(b, TRUE, 1)
    BY <1>b, RunUp
  <2>2. \A j \in b..((b + k) - 1) : Covered(j) = TRUE
    BY <1>b, <2>1, RunUp
  <2>3. k \in Nat /\ (k # 0 => b \in b..((b + k) - 1))
    BY <1>0, <1>b
  <2>4. k = 0
    BY <1>1, <2>2, <2>3
  <2> QED
    BY <1>1, <2>1, <2>4 DEF Skipped
<1>7. Begins(w) = p
  <2>1. 0 * c = 0 /\ p + 0 = p
    BY <1>b
  <2> QED
    BY <1>2, <1>4, <1>6, <2>1 DEF Begins
<1>8. r >= 1
  <2>1. b + RunLength(b, FALSE, 1) < nb => Covered(b + RunLength(b, FALSE, 1)) # FALSE
    BY <1>b, RunUp
  <2>2. b + r < nb => Covered(b + r) # FALSE
    BY <1>e, <2>1
  <2>3. r = 0 => b + r = b
    BY <1>b, <1>r
  <2>4. Covered(b) = FALSE
    BY <1>1
  <2>5. ASSUME r = 0 PROVE FALSE
    <3>1. b + r = b /\ b + r < nb
      BY <1>b, <2>3, <2>5
    <3> QED
      BY <2>2, <2>4, <3>1, Zenon
  <2> QED
    BY <1>r, <2>5
<1>9. PICK e \in Nat : e = Ceil(n, c) /\ e >= 1 /\ n <= c * e
  <2>1. n \in Nat /\ n > 0
    OBVIOUS
  <2> QED
    BY <1>b, <2>1, CeilIs
<1>10. PICK t \in Nat : t = Kept(w) /\ (t = r \/ t = e) /\ t <= r /\ t <= e
  <2>1. Kept(w) = Least(RunLength(b + 0, FALSE, 1), Ceil(n, c))
    BY <1>1, <1>3, <1>4, <1>6, <1>7 DEF Kept
  <2>2. b + 0 = b
    BY <1>b
  <2>3. Kept(w) = Least(r, e)
    BY <1>9, <1>e, <2>1, <2>2
  <2> QED
    BY <1>9, <1>r, <2>3 DEF Least
<1>11. t >= 1
  BY <1>8, <1>9, <1>10
<1>12. PICK m \in Nat : m = t * c
  BY <1>b, <1>10
<1>13. PICK l \in 0..n : l = Taken(w) /\ (l = n \/ l = m) /\ l <= m
  <2>1. Taken(w) = Least(n, m)
    BY <1>3, <1>4, <1>7, <1>10, <1>12 DEF Taken
  <2> QED
    BY <1>12, <2>1 DEF Least
<1>14. Leaves(w) = b + t
  <2>1. b + 0 = b
    BY <1>b
  <2> QED
    BY <1>1, <1>6, <1>10, <2>1 DEF Leaves
<1>15. b + t <= nb
  <2>1. (b + t) - 1 \in b..((b + r) - 1)
    BY <1>b, <1>r, <1>10, <1>11
  <2>2. (b + t) - 1 < nb
    BY <1>5, <2>1
  <2> QED
    BY <1>0, <1>b, <2>2
<1>16. p + m <= bs * (b + t)
  <2>1. t \in Nat \ {0}
    BY <1>11
  <2> QED
    BY <1>b, <1>d, <1>4, <1>12, <2>1, RestsEnd
<1>17. ASSUME NEW x \in p..((p + l) - 1) PROVE Clear(x)
  <2>1. bs * (b + t) \in Nat
    BY <1>0, <1>b, <1>10
  <2>2. x \in Nat /\ p <= x /\ x < bs * (b + t)
    BY <1>12, <1>13, <1>16, <2>1
  <2>3. b <= x \div bs
    <3>1. bs * b <= p
      BY <1>0, <1>b, <1>d, QuotientBounds
    <3>2. bs * b \in Nat
      BY <1>0, <1>b
    <3>3. bs * b <= x
      BY <2>2, <3>1, <3>2
    <3> QED
      BY <1>0, <1>b, <2>2, <3>3, QuotientBounds
  <2>4. ASSUME NEW j \in b..((b + t) - 1) PROVE j < nb /\ Covered(j) = FALSE
    <3>1. j \in b..((b + r) - 1)
      BY <1>b, <1>r, <1>10
    <3> QED
      BY <1>5, <3>1
  <2>5. x \div bs < nb /\ Covered(x \div bs) = FALSE
    BY <1>b, <1>10, <2>2, <2>3, <2>4, BytesOfRun
  <2> QED
    BY <2>5 DEF Clear
<1>18. l = n \/ p + l = bs * (b + t)
  <2>1. CASE r = 1
    <3>1. t = 1 /\ m = c
      BY <1>r, <1>b, <1>10, <1>11, <1>12, <2>1
    <3>2. p + c = bs * (b + 1)
      BY <1>b, <1>d, <1>4, ContributionIs
    <3> QED
      BY <1>13, <3>1, <3>2
  <2>2. CASE r * c >= n
    <3>1. e * c = c * e
      BY <1>b, <1>9
    <3>2. t * c >= n
      BY <1>9, <1>10, <2>2, <3>1
    <3> QED
      BY <1>12, <1>13, <3>2
  <2> QED
    BY <1>a, <2>1, <2>2
<1>19. \A x \in p..(p - 1) : Hidden(x)
  OBVIOUS
<1> QED
  BY <1>2, <1>3, <1>7, <1>13, <1>14, <1>15, <1>17, <1>18, <1>19 DEF TakesInStep

(* A turn that begins where reading stays in step is in step.              *)
LEMMA TurnInStep ==
  ASSUME Sound, opt.use = TRUE, NEW w \in Walking, GoesOn(w), Together(w),
         ReadsInStep(w.p, w.n)
  PROVE  TakesInStep(w)
<1>0. bs \in Nat \ {0} /\ nb \in Nat /\ bitmap \in [0..(nb - 1) -> BOOLEAN]
  BY DEF Sound
<1>1. PICK b \in 0..(nb - 1) : b = w.b
  BY <1>0 DEF Walking, GoesOn
<1>2. PICK p \in Nat : p = w.p
  BY DEF Walking
<1>b. b \in Nat /\ b < nb /\ b = p \div bs /\ Covered(b) \in BOOLEAN
  BY <1>0, <1>1, <1>2 DEF Covered, Together
<1>3. CASE p % bs = 0
  <2>1. p = bs * b
    BY <1>b, <1>3, ContributionIs
  <2> QED
    BY <1>1, <1>2, <2>1, TakesAtBoundary
<1>4. PICK r : r = RunLength(b, Covered(b), 1)
  OBVIOUS
<1>5. r \in 0..nb
  BY <1>b, <1>4, RunUp
<1>r. r \in Nat
  BY <1>0, <1>5
<1>6. p % bs = 0 \/ r = 1 \/ (~Covered(b) /\ r * Contribution(p) >= w.n)
  BY <1>0, <1>2, <1>b, <1>4 DEF ReadsInStep
<1>7. CASE Covered(b) = FALSE /\ (r = 1 \/ r * Contribution(p) >= w.n)
  <2>1. Enough(w)
    BY <1>1, <1>2, <1>4, <1>7 DEF Enough
  <2> QED
    BY <1>1, <1>7, <2>1, TakesAtOnce
<1>8. CASE Covered(b) = TRUE /\ r = 1
  <2>1. Skipped(w) = 1
    BY <1>1, <1>4, <1>8 DEF Skipped
  <2>2. PICK c \in 1..bs : c = Contribution(p) /\ p + c = bs * (b + 1)
    BY <1>b, ContributionIs
  <2>3. 1 * c = c
    BY <1>0
  <2>4. Begins(w) = p + c
    BY <1>2, <2>1, <2>2, <2>3 DEF Begins
  <2>5. ASSUME NEW x \in p..((p + c) - 1) PROVE Hidden(x)
    <3>1. x \in Nat /\ p <= x /\ x < bs * (b + 1) /\ bs * (b + 1) \in Nat
      BY <1>0, <2>2
    <3>2. bs * b <= p /\ bs * b \in Nat
      BY <1>0, <1>b, QuotientBounds
    <3>3. bs * b <= x
      BY <3>1, <3>2
    <3>4. b <= x \div bs
      BY <1>0, <1>b, <3>1, <3>3, QuotientBounds
    <3>5. \A j \in b..((b + 1) - 1) : j < nb /\ Covered(j) = TRUE
      BY <1>b, <1>8
    <3>6. x \div bs < nb /\ Covered(x \div bs) = TRUE
      BY <1>b, <3>1, <3>4, <3>5, BytesOfRun
    <3> QED
      BY <3>6 DEF Hidden
  <2> QED
    BY <1>1, <1>2, <2>1, <2>2, <2>4, <2>5, TakesFromBoundary
<1>9. Covered(b) = TRUE \/ Covered(b) = FALSE
  BY <1>b
<1> QED
  BY <1>3, <1>6, <1>7, <1>8, <1>9

-----------------------------------------------------------------------------
(***************************************************************************)
(* The walk.                                                               *)
(***************************************************************************)
Start(from, needed) == [p |-> from, b |-> from \div bs, n |-> needed, taken |-> <<>>]

(* f goes through the turns of a walk.                                     *)
WalkRun(f, from, needed) ==
  /\ f \in [0..nb -> Walking] /\ f[0] = Start(from, needed)
  /\ \A i \in 1..nb : f[i] = Turn(f[i - 1])

(* The walk starts as the loops of the code do, with nothing taken.        *)
LEMMA StartWalks ==
  ASSUME Sound, NEW from \in Nat, NEW needed \in Nat
  PROVE  Start(from, needed) \in Walking
<1>1. from \div bs \in Nat
  BY Division DEF Sound
<1>2. <<>> \in Seq(Stretch)
  OBVIOUS
<1> QED
  BY <1>1, <1>2 DEF Start, Walking

(* What Walk() takes is what the last turn of its run has taken.           *)
LEMMA WalkIs ==
  ASSUME Sound, NEW from \in Nat, NEW needed \in Nat
  PROVE  \E f : WalkRun(f, from, needed) /\ Walk(from, needed) = f[nb].taken
<1>0. nb \in Nat
  BY DEF Sound
<1> DEFINE a == Start(from, needed)
           step == [c \in (1..nb) \X Walking |-> Turn(c[2])]
           Run(g) == [i \in 0..nb |-> IF i = 0 THEN Start(from, needed) ELSE Turn(g[i - 1])]
<1>1. a \in Walking
  BY StartWalks
<1>2. step \in [(1..nb) \X Walking -> Walking]
  <2>1. \A c \in (1..nb) \X Walking : Turn(c[2]) \in Walking
    BY TurnWalks
  <2> QED
    BY <2>1
<1>3. PICK f : IsRun(f, nb, Walking, a, step)
  <2> HIDE DEF a, step
  <2> QED
    BY <1>0, <1>1, <1>2, Iterates
<1>4. f \in [0..nb -> Walking] /\ f[0] = a
  BY <1>3 DEF IsRun
<1>5. ASSUME NEW i \in 1..nb PROVE f[i] = Turn(f[i - 1])
  <2>1. f[i] = step[<<i, f[i - 1]>>]
    <3> HIDE DEF step
    <3> QED
      BY <1>3 DEF IsRun
  <2>2. f[i - 1] \in Walking
    BY <1>0, <1>4
  <2>3. <<i, f[i - 1]>> \in (1..nb) \X Walking
    BY <2>2
  <2> QED
    BY <2>1, <2>3
<1>6. f = Run(f)
  <2>1. ASSUME NEW i \in 0..nb PROVE f[i] = Run(f)[i]
    <3>1. i = 0 \/ i \in 1..nb
      OBVIOUS
    <3> QED
      BY <1>4, <1>5, <3>1
  <2> QED
    BY <1>4, <2>1
<1> DEFINE g == CHOOSE g : g = Run(g)
<1>7. g = Run(g)
  <2> HIDE DEF Run
  <2> QED
    BY <1>6
<1>8. Walk(from, needed) = g[nb].taken
  BY DEF Walk, Start
<1>9. ASSUME NEW h, h = Run(h)
      PROVE  h[0] = Start(from, needed) /\ \A i \in 1..nb : h[i] = Turn(h[i - 1])
  <2>1. ASSUME NEW i \in 0..nb
        PROVE  h[i] = IF i = 0 THEN Start(from, needed) ELSE Turn(h[i - 1])
    BY <1>9, Zenon
  <2>2. h[0] = Start(from, needed)
    BY <1>0, <2>1
  <2>3. ASSUME NEW i \in 1..nb PROVE h[i] = Turn(h[i - 1])
    <3>1. i \in 0..nb /\ ~(i = 0)
      BY <1>0
    <3>2. h[i] = IF i = 0 THEN Start(from, needed) ELSE Turn(h[i - 1])
      BY <2>1, <3>1
    <3> QED
      BY <3>1, <3>2, Zenon
  <2> QED
    BY <2>2, <2>3
<1> HIDE DEF g
<1>10. g[0] = Start(from, needed) /\ \A i \in 1..nb : g[i] = Turn(g[i - 1])
  <2> HIDE DEF Run
  <2> QED
    BY <1>7, <1>9
<1>11. \A i \in 0..nb : g[i] = f[i]
  <2> DEFINE Wrong == {i \in 0..nb : g[i] # f[i]}
  <2> SUFFICES ASSUME Wrong # {} PROVE FALSE
    OBVIOUS
  <2>1. PICK k \in Wrong : \A j \in Wrong : k <= j
    <3>1. Wrong \in SUBSET Nat
      OBVIOUS
    <3> QED
      BY <3>1, LeastExists
  <2>2. k # 0
    BY <1>4, <1>10, <2>1
  <2>3. k \in 1..nb /\ k - 1 \in 0..nb /\ ~(k <= k - 1)
    BY <1>0, <2>1, <2>2
  <2>4. g[k - 1] = f[k - 1]
    BY <2>1, <2>3
  <2>5. f[k] = Turn(f[k - 1]) /\ g[k] = Turn(g[k - 1])
    BY <1>5, <1>10, <2>3
  <2> QED
    BY <2>1, <2>4, <2>5
<1>12. nb \in 0..nb
  BY <1>0
<1>13. WalkRun(f, from, needed)
  BY <1>4, <1>5 DEF WalkRun
<1> QED
  BY <1>8, <1>11, <1>12, <1>13

(* The turns lead to the end: every one leaves a block behind.             *)
LEMMA WalkEnds ==
  ASSUME Sound, NEW from \in Nat, NEW needed \in Nat, NEW f, WalkRun(f, from, needed)
  PROVE  ~GoesOn(f[nb])
<1>0. nb \in Nat
  BY DEF Sound
<1> DEFINE Slow == {i \in 0..nb : GoesOn(f[i]) /\ f[i].b < i}
<1>1. Slow = {}
  <2> SUFFICES ASSUME Slow # {} PROVE FALSE
    OBVIOUS
  <2>1. PICK k \in Slow : \A j \in Slow : k <= j
    <3>1. Slow \in SUBSET Nat
      OBVIOUS
    <3> QED
      BY <3>1, LeastExists
  <2>2. k \in 0..nb /\ GoesOn(f[k]) /\ f[k].b < k
    BY <2>1
  <2>3. f[k] \in Walking
    BY <2>2 DEF WalkRun
  <2>4. k # 0
    BY <2>2, <2>3 DEF Walking
  <2>5. k \in 1..nb /\ k - 1 \in 0..nb /\ ~(k <= k - 1)
    BY <1>0, <2>2, <2>4
  <2>6. PICK w \in Walking : w = f[k - 1]
    BY <2>5 DEF WalkRun
  <2>7. f[k] = Turn(w)
    BY <2>5, <2>6 DEF WalkRun
  <2>8. GoesOn(w)
    BY <2>2, <2>6, <2>7, TurnWalks
  <2>9. w.b < f[k].b
    BY <2>7, <2>8, TurnWalks
  <2>10. ~(w.b < k - 1)
    BY <2>1, <2>5, <2>6, <2>8
  <2> QED
    BY <2>2, <2>3, <2>5, <2>9, <2>10 DEF Walking
<1>2. nb \in 0..nb
  BY <1>0
<1>3. f[nb] \in Walking
  BY <1>2 DEF WalkRun
<1>4. GoesOn(f[nb]) => f[nb].b < nb
  BY DEF GoesOn
<1> QED
  BY <1>1, <1>2, <1>4

(* One more stretch.                                                       *)
LEMMA SpreadAppend ==
  ASSUME NEW w, Rising(w), NEW t \in Stretch,
         \A i \in DOMAIN w : End(w[i]) <= t.start
  PROVE  /\ Rising(Append(w, t))
         /\ Spread(Append(w, t)) = Spread(w) \cup {x \in Nat : t.start <= x /\ x < End(t)}
         /\ Len(Append(w, t)) = Len(w) + 1
         /\ \A i \in DOMAIN w : Append(w, t)[i] = w[i]
         /\ Append(w, t)[Len(w) + 1] = t
<1>1. w \in Seq(Stretch)
  BY DEF Rising
<1>2. PICK n \in Nat : n = Len(w)
  BY <1>1, LenProperties
<1>3. DOMAIN w = 1..n
  BY <1>1, <1>2, LenProperties
<1> DEFINE u == Append(w, t)
<1>4. u \in Seq(Stretch) /\ Len(u) = n + 1 /\ DOMAIN u = 1..(n + 1)
  BY <1>1, <1>2, AppendProperties
<1>5. (\A i \in 1..n : u[i] = w[i]) /\ u[n + 1] = t
  BY <1>1, <1>2, AppendProperties
<1> HIDE DEF u
<1>6. ASSUME NEW i \in 1..(n + 1), NEW j \in 1..(n + 1), i < j PROVE End(u[i]) <= u[j].start
  <2>1. i \in 1..n /\ u[i] = w[i]
    BY <1>5, <1>6
  <2>2. CASE j = n + 1
    BY <1>3, <1>5, <2>1, <2>2
  <2>3. CASE j # n + 1
    <3>1. j \in 1..n /\ u[j] = w[j]
      BY <1>5, <2>3
    <3> QED
      BY <1>3, <1>6, <2>1, <3>1 DEF Rising
  <2> QED
    BY <2>2, <2>3
<1>7. Rising(u)
  BY <1>4, <1>6 DEF Rising
<1>8. ASSUME NEW x \in Nat
      PROVE  x \in Spread(u) <=> x \in Spread(w) \/ (t.start <= x /\ x < End(t))
  <2>1. ASSUME x \in Spread(u) PROVE x \in Spread(w) \/ (t.start <= x /\ x < End(t))
    <3>1. PICK i \in 1..(n + 1) : u[i].start <= x /\ x < End(u[i])
      BY <1>4, <2>1 DEF Spread
    <3>2. CASE i = n + 1
      BY <1>5, <3>1, <3>2
    <3>3. CASE i # n + 1
      <4>1. i \in 1..n /\ u[i] = w[i]
        BY <1>5, <3>3
      <4> QED
        BY <1>3, <3>1, <4>1 DEF Spread
    <3> QED
      BY <3>2, <3>3
  <2>2. ASSUME x \in Spread(w) PROVE x \in Spread(u)
    <3>1. PICK i \in 1..n : w[i].start <= x /\ x < End(w[i])
      BY <1>3, <2>2 DEF Spread
    <3>2. i \in 1..(n + 1) /\ u[i] = w[i]
      BY <1>5
    <3> QED
      BY <1>4, <3>1, <3>2 DEF Spread
  <2>3. ASSUME t.start <= x, x < End(t) PROVE x \in Spread(u)
    <3>1. n + 1 \in 1..(n + 1)
      OBVIOUS
    <3> QED
      BY <1>4, <1>5, <2>3, <3>1 DEF Spread
  <2> QED
    BY <2>1, <2>2, <2>3
<1>9. Spread(u) = Spread(w) \cup {x \in Nat : t.start <= x /\ x < End(t)}
  <2>1. Spread(u) \in SUBSET Nat /\ Spread(w) \in SUBSET Nat
    BY DEF Spread
  <2> QED
    BY <1>8, <2>1
<1> QED
  BY <1>2, <1>3, <1>4, <1>5, <1>7, <1>9 DEF u

(* A stretch begins where the walk does, and is not empty, or at the       *)
(* beginning of a block.                                                   *)
BeginsWell(t, from) ==
  from <= t.start /\ (t.start % bs = 0 \/ (t.start = from /\ t.length # 0))

(* What a walk has taken so far: all the clear bytes it has passed.        *)
TakenSoFar(w, from) ==
  /\ Rising(w.taken)
  /\ from <= w.p
  /\ Spread(w.taken) = {x \in from..(w.p - 1) : Clear(x)}
  /\ \A i \in DOMAIN w.taken : End(w.taken[i]) <= w.p
  /\ \A i \in DOMAIN w.taken : BeginsWell(w.taken[i], from)
  /\ w.taken # <<>> => End(w.taken[Len(w.taken)]) = w.p

(* It has taken as many bytes as it needs no longer, and unless that is    *)
(* the end it is at the beginning of a block.                              *)
Counts(w, needed) ==
  /\ w.n <= needed
  /\ IsFiniteSet(Spread(w.taken)) /\ Cardinality(Spread(w.taken)) = needed - w.n
  /\ w.n = 0 \/ w.p = bs * w.b
  /\ w.b <= nb
  /\ w.taken # <<>>

(* A turn that takes nothing has come to the beginning of a block.         *)
LEMMA TakesSome ==
  ASSUME Sound, NEW w \in Walking, GoesOn(w), TakesInStep(w)
  PROVE  Taken(w) # 0 \/ Begins(w) % bs = 0
<1> SUFFICES ASSUME Taken(w) = 0 PROVE Begins(w) % bs = 0
  OBVIOUS
<1>0. nb \in Nat
  BY DEF Sound
<1>1. PICK p \in Nat : w.p = p
  BY DEF Walking
<1>2. PICK b \in Nat : w.b = b /\ b < nb
  BY DEF Walking, GoesOn
<1>3. PICK n \in Nat : w.n = n /\ n # 0
  BY DEF Walking, GoesOn
<1>4. PICK c \in Nat : Contribution(Begins(w)) = c /\ c # 0
  <2>1. Contribution(Begins(w)) \in 1..bs /\ bs \in Nat
    BY TurnNumbers DEF Sound
  <2> QED
    BY <2>1
<1>5. PICK k \in Nat : Kept(w) = k
  BY TurnNumbers
<1>6. k = 0
  <2>1. Taken(w) = Least(n, k * c)
    BY <1>3, <1>4, <1>5 DEF Taken
  <2>2. k * c = 0
    <3>1. k * c \in Nat
      BY <1>4, <1>5
    <3>2. PICK z \in Nat : z = k * c
      BY <3>1
    <3>3. Least(n, z) = 0
      BY <2>1, <3>2
    <3>4. z = 0
      BY <1>3, <3>3 DEF Least
    <3> QED
      BY <3>2, <3>4
  <2> QED
    BY <1>4, <1>5, <2>2
<1>7. PICK j \in Nat : Skipped(w) = j
  BY TurnNumbers
<1>8. PICK d \in Nat : d = b + j
  OBVIOUS
<1>9. RunLength(d, FALSE, 1) = 0
  <2>1. RunLength(d, FALSE, 1) \in 0..nb
    BY RunUp
  <2>2. PICK r \in 0..nb : RunLength(d, FALSE, 1) = r
    BY <2>1
  <2>3. r \in Nat
    BY <1>0
  <2>4. PICK m \in Nat : Ceil(n, c) = m /\ m >= 1
    BY <1>3, <1>4, CeilIs
  <2>5. Kept(w) = Least(r, m)
    BY <1>2, <1>3, <1>4, <1>7, <1>8, <2>2, <2>4 DEF Kept
  <2>6. r = 0
    BY <1>5, <1>6, <2>3, <2>4, <2>5 DEF Least
  <2> QED
    BY <2>2, <2>6
<1>10. ~(d < nb)
  <2> SUFFICES ASSUME d < nb PROVE FALSE
    OBVIOUS
  <2>1. Covered(d) # TRUE
    <3>1. RunLength(b, TRUE, 1) = j
      BY <1>2, <1>7 DEF Skipped
    <3>2. b + RunLength(b, TRUE, 1) < nb => Covered(b + RunLength(b, TRUE, 1)) # TRUE
      BY RunUp
    <3> QED
      BY <1>8, <3>1, <3>2
  <2>2. Covered(d) # FALSE
    <3>1. d + RunLength(d, FALSE, 1) < nb => Covered(d + RunLength(d, FALSE, 1)) # FALSE
      BY RunUp
    <3>2. d + 0 = d
      OBVIOUS
    <3> QED
      BY <1>9, <3>1, <3>2
  <2>3. Covered(d) \in BOOLEAN
    <3>1. d \in 0..(nb - 1) /\ bitmap \in [0..(nb - 1) -> BOOLEAN]
      BY <1>0 DEF Sound
    <3> QED
      BY <3>1 DEF Covered
  <2> QED
    BY <2>1, <2>2, <2>3
<1>11. j >= 1
  BY <1>0, <1>2, <1>8, <1>10
<1>12. PICK a \in Nat : Contribution(p) = a /\ a >= 1
  <2>1. Contribution(w.p) \in 1..bs /\ bs \in Nat
    BY TurnNumbers DEF Sound
  <2> QED
    BY <1>1, <2>1
<1>13. j * a >= 1 /\ j * a \in Nat
  BY <1>11, <1>12
<1>14. Begins(w) = p + j * a
  BY <1>1, <1>7, <1>12 DEF Begins
<1>15. Begins(w) # w.p
  BY <1>1, <1>13, <1>14
<1> QED
  BY <1>15 DEF TakesInStep

(* The bytes of the part that a turn takes.                                *)
LEMMA TurnTakes ==
  ASSUME Sound, NEW w \in Walking, GoesOn(w), TakesInStep(w), NEW from \in Nat,
         TakenSoFar(w, from), w.p = from \/ w.p % bs = 0
  PROVE  /\ TakenSoFar(Turn(w), from)
         /\ Spread(Turn(w).taken)
              = Spread(w.taken) \cup (Begins(w)..((Begins(w) + Taken(w)) - 1))
         /\ Turn(w).taken # <<>>
<1>0. bs \in Nat \ {0} /\ nb \in Nat
  BY DEF Sound
<1>1. PICK p \in Nat : w.p = p
  BY DEF Walking
<1>2. PICK s \in Nat : Begins(w) = s /\ s >= p
  BY <1>1, TurnNumbers
<1>3. PICK l \in Nat : Taken(w) = l
  <2>1. Taken(w) \in 0..w.n /\ w.n \in Nat
    BY TurnNumbers DEF Walking
  <2> QED
    BY <2>1
<1>4. PICK t \in Stretch : t = TakenPiece(w)
  BY <1>2, <1>3 DEF TakenPiece, Stretch
<1>5. t.start = s /\ End(t) = s + l
  BY <1>2, <1>3, <1>4 DEF TakenPiece, End
<1>6. PICK v : v = Turn(w)
  OBVIOUS
<1>7. v.p = s + l /\ v.taken = Append(w.taken, t)
  BY <1>2, <1>3, <1>4, <1>6, TurnIs DEF AfterTurn
<1>8. Rising(w.taken) /\ from <= p /\ w.taken \in Seq(Stretch)
  BY <1>1 DEF TakenSoFar, Rising
<1>9. ASSUME NEW i \in DOMAIN w.taken PROVE End(w.taken[i]) \in Nat /\ End(w.taken[i]) <= s
  <2>1. w.taken[i] \in Stretch
    BY <1>8
  <2>2. End(w.taken[i]) \in Nat
    BY <2>1 DEF End, Stretch
  <2>3. End(w.taken[i]) <= p
    BY <1>1 DEF TakenSoFar
  <2> QED
    BY <1>2, <2>2, <2>3
<1>10. PICK u : u = w.taken
  OBVIOUS
<1>11. /\ Rising(Append(u, t))
       /\ Spread(Append(u, t)) = Spread(u) \cup {x \in Nat : t.start <= x /\ x < End(t)}
       /\ Len(Append(u, t)) = Len(u) + 1
       /\ \A i \in DOMAIN u : Append(u, t)[i] = u[i]
       /\ Append(u, t)[Len(u) + 1] = t
  BY <1>5, <1>8, <1>9, <1>10, SpreadAppend
<1>12. Spread(v.taken) = Spread(w.taken) \cup (s..((s + l) - 1))
  <2>1. {x \in Nat : s <= x /\ x < s + l} = s..((s + l) - 1)
    BY <1>2, <1>3
  <2> QED
    BY <1>5, <1>7, <1>10, <1>11, <2>1
<1>13. ASSUME NEW x \in s..((s + l) - 1) PROVE Clear(x)
  BY <1>2, <1>3 DEF TakesInStep
<1>14. ASSUME NEW x \in p..(s - 1) PROVE ~Clear(x)
  <2>1. Hidden(x)
    BY <1>1, <1>2 DEF TakesInStep
  <2> QED
    BY <2>1 DEF Hidden, Clear
<1>15. Spread(v.taken) = {x \in from..(v.p - 1) : Clear(x)}
  <2>1. Spread(w.taken) = {x \in from..(p - 1) : Clear(x)}
    BY <1>1 DEF TakenSoFar
  <2>2. ASSUME NEW x \in from..((s + l) - 1), Clear(x)
        PROVE  x \in {y \in from..(p - 1) : Clear(y)} \cup (s..((s + l) - 1))
    <3>1. x \notin p..(s - 1)
      BY <1>14, <2>2
    <3>2. x \in from..(p - 1) \/ x \in s..((s + l) - 1)
      BY <1>2, <1>3, <1>8, <3>1
    <3> QED
      BY <2>2, <3>2
  <2>3. ASSUME NEW x \in {y \in from..(p - 1) : Clear(y)} \cup (s..((s + l) - 1))
        PROVE  x \in from..((s + l) - 1) /\ Clear(x)
    <3>1. CASE x \in from..(p - 1) /\ Clear(x)
      BY <1>2, <1>3, <3>1
    <3>2. CASE x \in s..((s + l) - 1)
      BY <1>2, <1>3, <1>8, <1>13, <3>2
    <3> QED
      BY <2>3, <3>1, <3>2
  <2>4. {y \in from..(p - 1) : Clear(y)} \cup (s..((s + l) - 1))
          = {x \in from..((s + l) - 1) : Clear(x)}
    BY <2>2, <2>3
  <2> QED
    BY <1>7, <1>12, <2>1, <2>4
<1>16. PICK n \in Nat : n = Len(u) /\ DOMAIN u = 1..n
  BY <1>8, <1>10, LenProperties
<1>17. Append(u, t) \in Seq(Stretch) /\ DOMAIN Append(u, t) = 1..(n + 1)
  BY <1>8, <1>10, <1>16, AppendProperties
<1>18. \A i \in DOMAIN v.taken : End(v.taken[i]) <= v.p
  <2> SUFFICES ASSUME NEW i \in 1..(n + 1) PROVE End(Append(u, t)[i]) <= s + l
    BY <1>7, <1>10, <1>17
  <2>1. CASE i \in 1..n
    <3>1. End(u[i]) \in Nat /\ End(u[i]) <= s
      BY <1>9, <1>10, <1>16, <2>1
    <3>2. Append(u, t)[i] = u[i]
      BY <1>11, <1>16, <2>1
    <3> QED
      BY <1>2, <1>3, <3>1, <3>2
  <2>2. CASE i = n + 1
    <3>1. Append(u, t)[i] = t
      BY <1>11, <1>16, <2>2
    <3> QED
      BY <1>2, <1>3, <1>5, <3>1
  <2>3. i \in 1..n \/ i = n + 1
    OBVIOUS
  <2> QED
    BY <2>1, <2>2, <2>3
<1>19. v.taken # <<>> /\ End(v.taken[Len(v.taken)]) = v.p
  <2>1. Len(Append(u, t)) = n + 1 /\ Append(u, t)[n + 1] = t
    BY <1>11, <1>16
  <2>2. Append(u, t) # <<>>
    <3>1. Len(<<>>) = 0 /\ n + 1 # 0
      BY <1>16
    <3> QED
      BY <2>1, <3>1, Zenon
  <2> QED
    BY <1>5, <1>7, <1>10, <2>1, <2>2
<1>20. from <= v.p /\ Rising(v.taken)
  BY <1>2, <1>3, <1>7, <1>8, <1>10, <1>11
<1>21. BeginsWell(t, from)
  <2>1. s = from \/ s % bs = 0
    BY <1>1, <1>2 DEF TakesInStep
  <2>2. l # 0 \/ s % bs = 0
    BY <1>2, <1>3, TakesSome
  <2>3. from <= s
    BY <1>2, <1>8
  <2>4. t.start = s /\ t.length = l
    BY <1>2, <1>3, <1>4 DEF TakenPiece
  <2> QED
    BY <2>1, <2>2, <2>3, <2>4 DEF BeginsWell
<1>22. \A i \in DOMAIN v.taken : BeginsWell(v.taken[i], from)
  <2> SUFFICES ASSUME NEW i \in 1..(n + 1) PROVE BeginsWell(Append(u, t)[i], from)
    BY <1>7, <1>10, <1>17
  <2>1. CASE i \in 1..n
    <3>1. BeginsWell(u[i], from)
      BY <1>10, <1>16, <2>1 DEF TakenSoFar
    <3>2. Append(u, t)[i] = u[i]
      BY <1>11, <1>16, <2>1
    <3> QED
      BY <3>1, <3>2
  <2>2. CASE i = n + 1
    <3>1. Append(u, t)[i] = t
      BY <1>11, <1>16, <2>2
    <3> QED
      BY <1>21, <3>1
  <2>3. i \in 1..n \/ i = n + 1
    OBVIOUS
  <2> QED
    BY <2>1, <2>2, <2>3
<1> QED
  BY <1>2, <1>3, <1>6, <1>12, <1>15, <1>18, <1>19, <1>20, <1>22 DEF TakenSoFar

(* The bytes are counted.                                                  *)
LEMMA TurnCounts ==
  ASSUME Sound, NEW w \in Walking, GoesOn(w), TakesInStep(w), NEW from \in Nat,
         TakenSoFar(w, from), w.p = from \/ w.p % bs = 0,
         NEW needed \in Nat, w.n <= needed,
         IsFiniteSet(Spread(w.taken)), Cardinality(Spread(w.taken)) = needed - w.n
  PROVE  Counts(Turn(w), needed)
<1>1. PICK p \in Nat : w.p = p
  BY DEF Walking
<1>2. PICK s \in Nat : Begins(w) = s /\ s >= p
  BY <1>1, TurnNumbers
<1>3. PICK n \in Nat : w.n = n
  BY DEF Walking
<1>4. PICK l \in Nat : Taken(w) = l /\ l <= n
  <2>1. Taken(w) \in 0..n
    BY <1>3, TurnNumbers
  <2> QED
    BY <1>3, <2>1
<1>5. PICK v : v = Turn(w)
  OBVIOUS
<1>6. v.p = s + l /\ v.n = n - l /\ v.b = Leaves(w)
  BY <1>2, <1>3, <1>4, <1>5, TurnIs DEF AfterTurn
<1> DEFINE S == Spread(w.taken)
           T == s..((s + l) - 1)
<1>7. Spread(v.taken) = S \cup T /\ v.taken # <<>>
  BY <1>2, <1>4, <1>5, TurnTakes
<1>8. S \cap T = {}
  <2>1. \A x \in S : x \in from..(p - 1)
    BY <1>1 DEF TakenSoFar
  <2> HIDE DEF S
  <2> QED
    BY <1>2, <1>4, <2>1
<1>9. IsFiniteSet(T) /\ Cardinality(T) = l
  <2>1. PICK e \in Int : e = (s + l) - 1
    BY <1>2, <1>4
  <2>2. IsFiniteSet(s..e) /\ Cardinality(s..e) = IF s > e THEN 0 ELSE (e - s) + 1
    BY <1>2, FS_Interval
  <2> QED
    BY <1>2, <1>4, <2>1, <2>2
<1>10. IsFiniteSet(S \cup T)
       /\ Cardinality(S \cup T) = Cardinality(S) + Cardinality(T) - Cardinality(S \cap T)
  <2> HIDE DEF S, T
  <2>1. IsFiniteSet(S)
    BY DEF S
  <2> QED
    BY <1>9, <2>1, FS_Union
<1>11. Cardinality(S \cap T) = 0
  BY <1>8, FS_EmptySet
<1>12. Cardinality(S) = needed - n
  BY <1>3
<1>13. Cardinality(S \cup T) = needed - (n - l)
  <2> HIDE DEF S, T
  <2> QED
    BY <1>4, <1>9, <1>10, <1>11, <1>12
<1>14. v.n <= needed
  BY <1>3, <1>4, <1>6
<1>15. v.n = 0 \/ v.p = bs * v.b
  <2>1. l = n \/ s + l = bs * Leaves(w)
    BY <1>2, <1>3, <1>4 DEF TakesInStep
  <2> QED
    BY <1>3, <1>4, <1>6, <2>1
<1>16. v.b <= nb
  BY <1>6 DEF TakesInStep
<1> QED
  BY <1>5, <1>6, <1>7, <1>10, <1>13, <1>14, <1>15, <1>16 DEF Counts

(* Every turn of a walk in step has this.                                  *)
WalksWell(w, from, needed) ==
  /\ TakenSoFar(w, from)
  /\ w = Start(from, needed) \/ Counts(w, needed)

(* A walk that has not begun has this.                                     *)
LEMMA StartsWell ==
  ASSUME Sound, NEW from \in Nat, NEW needed \in Nat
  PROVE  /\ WalksWell(Start(from, needed), from, needed)
         /\ Spread(<<>>) = {} /\ IsFiniteSet({}) /\ Cardinality({}) = 0
<1>1. Spread(<<>>) = {}
  BY DEF Spread
<1>2. Rising(<<>>)
  <2>1. <<>> \in Seq(Stretch) /\ DOMAIN <<>> = {}
    OBVIOUS
  <2> QED
    BY <2>1 DEF Rising
<1>3. from..(from - 1) = {}
  OBVIOUS
<1>4. TakenSoFar(Start(from, needed), from)
  <2>1. Start(from, needed).taken = <<>> /\ Start(from, needed).p = from
    BY DEF Start
  <2>2. from <= from /\ DOMAIN <<>> = {}
    OBVIOUS
  <2>3. {x \in {} : Clear(x)} = {}
    OBVIOUS
  <2> QED
    BY <1>1, <1>2, <1>3, <2>1, <2>2, <2>3 DEF TakenSoFar
<1> QED
  BY <1>1, <1>4, FS_EmptySet DEF WalksWell

(* A turn of a walk in step keeps it: the stretch taken follows on the     *)
(* covered blocks that are skipped, and nothing is counted twice.          *)
LEMMA TurnWell ==
  ASSUME Sound, opt.use = TRUE, NEW from \in Nat, NEW needed \in Nat,
         ReadsInStep(from, needed), NEW w \in Walking, WalksWell(w, from, needed)
  PROVE  WalksWell(Turn(w), from, needed)
<1>1. CASE ~GoesOn(w)
  BY <1>1, TurnWalks
<1>2. CASE GoesOn(w) /\ w = Start(from, needed)
  <2>1. w.p = from /\ w.n = needed /\ w.taken = <<>> /\ Together(w)
    BY <1>2 DEF Start, Together
  <2>2. TakesInStep(w)
    BY <1>2, <2>1, TurnInStep
  <2>3. w.n <= needed /\ needed - w.n = 0
    BY <2>1
  <2>4. IsFiniteSet(Spread(w.taken)) /\ Cardinality(Spread(w.taken)) = needed - w.n
    BY <2>1, <2>3, StartsWell
  <2>5. w.p = from \/ w.p % bs = 0
    BY <2>1
  <2>6. TakenSoFar(w, from)
    BY DEF WalksWell
  <2>7. Counts(Turn(w), needed)
    BY <1>2, <2>2, <2>3, <2>4, <2>5, <2>6, TurnCounts
  <2>8. TakenSoFar(Turn(w), from)
    BY <1>2, <2>2, <2>5, <2>6, TurnTakes
  <2> QED
    BY <2>7, <2>8 DEF WalksWell
<1>3. CASE GoesOn(w) /\ Counts(w, needed)
  <2>1. w.p = bs * w.b
    BY <1>3 DEF Counts, GoesOn
  <2>2. TakesInStep(w)
    BY <1>3, <2>1, TakesAtBoundary
  <2>3. w.p % bs = 0
    <3>1. PICK b \in Nat : w.b = b
      BY DEF Walking
    <3>2. PICK p \in Nat : w.p = p
      BY DEF Walking
    <3>3. bs \in Nat \ {0}
      BY DEF Sound
    <3>4. p = bs * b
      BY <2>1, <3>1, <3>2
    <3>5. bs * b <= p /\ p < (bs * b) + bs /\ p - (bs * b) = 0
      BY <3>3, <3>4
    <3>6. p % bs = p - (bs * b)
      BY <3>3, <3>5, QuotientIs
    <3> QED
      BY <3>2, <3>5, <3>6
  <2>4. Counts(Turn(w), needed)
    BY <1>3, <2>2, <2>3, TurnCounts DEF WalksWell, Counts
  <2> QED
    BY <1>3, <2>2, <2>3, <2>4, TurnTakes DEF WalksWell
<1> QED
  BY <1>1, <1>2, <1>3 DEF WalksWell

(* Where a walk ends.                                                      *)
Reached(w, from) == IF w = <<>> THEN from ELSE End(w[Len(w)])

(* A walk takes the clear bytes from its beginning to its end, as many as  *)
(* are needed or all there are.                                            *)
WalkGives(w, from, needed) ==
  /\ Rising(w)
  /\ Reached(w, from) \in Nat /\ from <= Reached(w, from)
  /\ Spread(w) = {x \in from..(Reached(w, from) - 1) : Clear(x)}
  /\ IsFiniteSet(Spread(w)) /\ Cardinality(Spread(w)) <= needed
  /\ \/ Cardinality(Spread(w)) = needed
     \/ \A x \in Nat : x >= Reached(w, from) => ~Clear(x)
  /\ w = <<>> <=> needed = 0 \/ from \div bs >= nb
  /\ \A i \in DOMAIN w : BeginsWell(w[i], from)

(* The walk from a place where the layer is in step takes the bytes meant. *)
LEMMA WalkInStep ==
  ASSUME Sound, opt.use = TRUE, NEW from \in Nat, NEW needed \in Nat,
         ReadsInStep(from, needed)
  PROVE  WalkGives(Walk(from, needed), from, needed)
<1>0. bs \in Nat \ {0} /\ nb \in Nat
  BY DEF Sound
<1>1. PICK f : WalkRun(f, from, needed) /\ Walk(from, needed) = f[nb].taken
  BY WalkIs
<1> DEFINE Wrong == {i \in 0..nb : ~WalksWell(f[i], from, needed)}
<1>2. Wrong = {}
  <2> SUFFICES ASSUME Wrong # {} PROVE FALSE
    OBVIOUS
  <2>1. PICK k \in Wrong : \A j \in Wrong : k <= j
    <3>1. Wrong \in SUBSET Nat
      OBVIOUS
    <3> QED
      BY <3>1, LeastExists
  <2>2. k # 0
    BY <1>1, <2>1, StartsWell DEF WalkRun
  <2>3. k \in 1..nb /\ k - 1 \in 0..nb /\ ~(k <= k - 1)
    BY <1>0, <2>1, <2>2
  <2>4. WalksWell(f[k - 1], from, needed)
    BY <2>1, <2>3
  <2>5. PICK w \in Walking : w = f[k - 1] /\ f[k] = Turn(w)
    BY <1>1, <2>3 DEF WalkRun
  <2>6. WalksWell(f[k], from, needed)
    BY <2>4, <2>5, TurnWell
  <2> QED
    BY <2>1, <2>6
<1>3. nb \in 0..nb
  BY <1>0
<1>4. PICK w \in Walking : w = f[nb]
  BY <1>1, <1>3 DEF WalkRun
<1>5. WalksWell(w, from, needed) /\ ~GoesOn(w)
  BY <1>1, <1>2, <1>3, <1>4, WalkEnds
<1>6. PICK n \in Nat : w.n = n
  BY DEF Walking
<1>7. PICK b \in Nat : w.b = b
  BY DEF Walking
<1>8. PICK p \in Nat : w.p = p
  BY DEF Walking
<1>9. n = 0 \/ b >= nb
  BY <1>0, <1>5, <1>6, <1>7 DEF GoesOn
<1>10. PICK t : t = w.taken
  OBVIOUS
<1>11. /\ Rising(t) /\ from <= p
       /\ Spread(t) = {x \in from..(p - 1) : Clear(x)}
       /\ t # <<>> => End(t[Len(t)]) = p
       /\ \A i \in DOMAIN t : BeginsWell(t[i], from)
  BY <1>5, <1>8, <1>10 DEF WalksWell, TakenSoFar
<1>12. CASE w = Start(from, needed)
  <2>1. t = <<>> /\ n = needed /\ b = from \div bs /\ p = from
    BY <1>6, <1>7, <1>8, <1>10, <1>12 DEF Start
  <2>2. Reached(t, from) = p
    BY <2>1 DEF Reached
  <2>3. IsFiniteSet(Spread(t)) /\ Cardinality(Spread(t)) = 0
    BY <2>1, StartsWell
  <2>4. ASSUME needed # 0, NEW x \in Nat, x >= p PROVE ~Clear(x)
    <3>1. b >= nb
      BY <1>9, <2>1, <2>4
    <3>2. bs * nb <= p
      BY <1>0, <2>1, <3>1, QuotientBounds
    <3>3. bs * nb \in Nat
      BY <1>0
    <3>4. bs * nb <= x
      BY <2>4, <3>2, <3>3
    <3>5. nb <= x \div bs /\ x \div bs \in Nat
      BY <1>0, <3>4, QuotientBounds, Division
    <3> QED
      BY <1>0, <3>5 DEF Clear
  <2>5. t = <<>> <=> needed = 0 \/ from \div bs >= nb
    BY <1>9, <2>1
  <2>6. WalkGives(t, from, needed)
    BY <1>11, <2>2, <2>3, <2>4, <2>5 DEF WalkGives
  <2> QED
    BY <1>1, <1>4, <1>10, <2>6
<1>13. CASE w # Start(from, needed)
  <2>1. Counts(w, needed)
    BY <1>5, <1>13 DEF WalksWell
  <2>2. /\ n <= needed /\ b <= nb /\ t # <<>>
        /\ IsFiniteSet(Spread(t)) /\ Cardinality(Spread(t)) = needed - n
        /\ n = 0 \/ p = bs * b
    BY <1>6, <1>7, <1>8, <1>10, <2>1 DEF Counts
  <2>3. Reached(t, from) = p
    BY <1>11, <2>2 DEF Reached
  <2>4. ASSUME n # 0, NEW x \in Nat, x >= p PROVE ~Clear(x)
    <3>1. b = nb /\ p = bs * nb
      BY <1>0, <1>9, <2>2, <2>4
    <3>2. nb <= x \div bs /\ x \div bs \in Nat
      BY <1>0, <2>4, <3>1, QuotientBounds, Division
    <3> QED
      BY <1>0, <3>2 DEF Clear
  <2>5. Cardinality(Spread(t)) <= needed
    BY <2>2
  <2>6. Cardinality(Spread(t)) = needed \/ \A x \in Nat : x >= p => ~Clear(x)
    BY <2>2, <2>4
  <2>7. ~(needed = 0 \/ from \div bs >= nb)
    <3> SUFFICES ASSUME needed = 0 \/ from \div bs >= nb PROVE FALSE
      OBVIOUS
    <3> DEFINE Moved == {i \in 0..nb : f[i] # Start(from, needed)}
    <3>1. PICK k \in Moved : \A j \in Moved : k <= j
      <4>1. Moved \in SUBSET Nat /\ nb \in Moved
        BY <1>3, <1>4, <1>13
      <4> QED
        BY <4>1, LeastExists
    <3>2. k # 0
      BY <1>1, <3>1 DEF WalkRun
    <3>3. k \in 1..nb /\ k - 1 \in 0..nb /\ ~(k <= k - 1)
      BY <1>0, <3>1, <3>2
    <3>4. f[k - 1] = Start(from, needed) /\ f[k] = Turn(Start(from, needed))
      BY <1>1, <3>1, <3>3 DEF WalkRun
    <3>5. ~GoesOn(Start(from, needed))
      <4>1. from \div bs \in Nat
        BY <1>0, Division
      <4> QED
        BY <1>0, <4>1 DEF GoesOn, Start
    <3>6. Turn(Start(from, needed)) = Start(from, needed)
      BY <3>5, StartWalks, TurnWalks
    <3> QED
      BY <3>1, <3>4, <3>6
  <2>8. WalkGives(t, from, needed)
    BY <1>11, <2>2, <2>3, <2>5, <2>6, <2>7 DEF WalkGives
  <2> QED
    BY <1>1, <1>4, <1>10, <2>8
<1> QED
  BY <1>12, <1>13

-----------------------------------------------------------------------------
(***************************************************************************)
(* Reading.                                                                *)
(***************************************************************************)
Geometry ==
  /\ Sound /\ size \in Nat \ {0} /\ opt.use \in BOOLEAN
  /\ opt.use => nb = Ceil(size, bs)

(* Bytes that the program is to see.                                       *)
Open(x) == opt.use => Clear(x)

(* What is wanted by a read at p.                                          *)
WantedGives(w, p) ==
  /\ Rising(w)
  /\ Reached(w, p) \in Nat /\ p <= Reached(w, p)
  /\ Spread(w) = {x \in p..(Reached(w, p) - 1) : Open(x)}
  /\ IsFiniteSet(Spread(w)) /\ Cardinality(Spread(w)) <= BufSize
  /\ \/ Cardinality(Spread(w)) = BufSize
     \/ \A x \in Nat : x >= Reached(w, p) => ~Open(x)
  /\ \A i \in DOMAIN w : w[i].start = p \/ (opt.use /\ w[i].start % bs = 0)

(* In step, fread_use_coverage_map() wants the next open bytes, as many as *)
(* the buffer holds.                                                       *)
LEMMA WantedInStep ==
  ASSUME Geometry, NEW p \in Nat, ReadsInStep(p, BufSize)
  PROVE  WantedGives(Wanted(p), p)
<1>0. Sound /\ BufSize \in Nat \ {0}
  BY CoverageAssumption DEF Geometry
<1>1. CASE opt.use = TRUE
  <2>1. Wanted(p) = Walk(p, BufSize)
    BY <1>1 DEF Wanted
  <2>2. WalkGives(Walk(p, BufSize), p, BufSize)
    BY <1>0, <1>1, WalkInStep
  <2> QED
    BY <1>1, <2>1, <2>2 DEF WalkGives, WantedGives, Open, BeginsWell
<1>2. CASE opt.use = FALSE
  <2> DEFINE t == [op |-> 0, start |-> p, length |-> BufSize]
             w == <<t>>
  <2>1. Wanted(p) = w
    BY <1>2 DEF Wanted
  <2>2. t \in Stretch /\ t.start = p /\ End(t) = p + BufSize
    BY <1>0 DEF Stretch, End
  <2>3. w \in Seq(Stretch) /\ DOMAIN w = {1} /\ Len(w) = 1 /\ w[1] = t /\ w # <<>>
    <3> HIDE DEF t
    <3> QED
      BY <2>2
  <2> HIDE DEF t, w
  <2>4. Rising(w)
    BY <2>3 DEF Rising
  <2>5. PICK e \in Nat : e = p + BufSize
    BY <1>0
  <2>6. Reached(w, p) = e /\ p <= e
    BY <1>0, <2>2, <2>3, <2>5 DEF Reached
  <2>7. Spread(w) = p..(e - 1)
    <3>1. Spread(w) = {x \in Nat : p <= x /\ x < e}
      BY <2>2, <2>3, <2>5 DEF Spread
    <3> QED
      BY <3>1
  <2>8. IsFiniteSet(Spread(w)) /\ Cardinality(Spread(w)) = BufSize
    <3>1. PICK d \in Int : d = e - 1
      OBVIOUS
    <3>2. IsFiniteSet(p..d) /\ Cardinality(p..d) = IF p > d THEN 0 ELSE (d - p) + 1
      BY FS_Interval
    <3> QED
      BY <1>0, <2>5, <2>7, <3>1, <3>2
  <2>9. Spread(w) = {x \in p..(e - 1) : Open(x)}
    BY <1>2, <2>7 DEF Open
  <2>10. BufSize <= BufSize /\ \A i \in DOMAIN w : w[i].start = p
    BY <1>0, <2>2, <2>3
  <2> QED
    BY <1>2, <2>1, <2>4, <2>6, <2>8, <2>9, <2>10 DEF WantedGives
<1> QED
  BY <1>1, <1>2 DEF Geometry

(* The part of stretches that lies in the file.                            *)
LEMMA ClippedRise ==
  ASSUME size \in Nat, NEW w, Rising(w), NEW c, c = [i \in DOMAIN w |-> Clipped(w[i])]
  PROVE  Rising(c) /\ Spread(c) = {x \in Spread(w) : x < size}
<1>1. PICK n \in Nat : DOMAIN w = 1..n
  BY LenProperties DEF Rising
<1>2. ASSUME NEW t \in Stretch
      PROVE  /\ Clipped(t) \in Stretch /\ Clipped(t).start = t.start
             /\ End(Clipped(t)) <= End(t)
             /\ End(Clipped(t)) \in Nat /\ End(t) \in Nat /\ t.start \in Nat
             /\ \A x \in Nat : t.start <= x /\ x < End(Clipped(t))
                                 <=> t.start <= x /\ x < End(t) /\ x < size
  <2>1. PICK s \in Nat : t.start = s
    BY DEF Stretch
  <2>2. PICK l \in Nat : t.length = l
    BY DEF Stretch
  <2>3. PICK m \in Nat : m = IF s >= size THEN 0 ELSE IF l < size - s THEN l ELSE size - s
    <3>1. CASE s >= size
      BY <3>1
    <3>2. CASE ~(s >= size)
      <4>1. size - s \in Nat
        BY <3>2
      <4>2. CASE l < size - s
        BY <3>2, <4>2
      <4>3. CASE ~(l < size - s)
        BY <3>2, <4>1, <4>3
      <4> QED
        BY <4>2, <4>3
    <3> QED
      BY <3>1, <3>2
  <2>4. Clipped(t) = [t EXCEPT !.length = m]
    BY <2>1, <2>2, <2>3 DEF Clipped, Least
  <2>5. t = [op |-> 0, start |-> s, length |-> l]
    BY <2>1, <2>2 DEF Stretch
  <2>6. Clipped(t) = [op |-> 0, start |-> s, length |-> m]
    BY <2>4, <2>5
  <2>7. Clipped(t) \in Stretch /\ End(Clipped(t)) = s + m /\ End(t) = s + l
    BY <2>1, <2>2, <2>6 DEF End, Stretch
  <2>8. m <= l
    BY <2>3
  <2>9. \A x \in Nat : s <= x /\ x < s + m <=> s <= x /\ x < s + l /\ x < size
    BY <2>3
  <2> QED
    BY <2>1, <2>6, <2>7, <2>8, <2>9
<1>3. \A i \in 1..n : w[i] \in Stretch
  BY <1>1 DEF Rising
<1>4. c \in Seq(Stretch) /\ DOMAIN c = 1..n
  <2>1. c = [i \in 1..n |-> Clipped(w[i])]
    BY <1>1
  <2>2. \A i \in 1..n : Clipped(w[i]) \in Stretch
    BY <1>2, <1>3
  <2> QED
    BY <2>1, <2>2
<1>5. \A i \in 1..n : c[i] = Clipped(w[i])
  BY <1>1
<1>6. ASSUME NEW i \in 1..n, NEW j \in 1..n, i < j PROVE End(c[i]) <= c[j].start
  <2>1. End(w[i]) <= w[j].start
    BY <1>1, <1>6 DEF Rising
  <2>2. c[i] = Clipped(w[i]) /\ c[j] = Clipped(w[j]) /\ w[i] \in Stretch /\ w[j] \in Stretch
    BY <1>3, <1>5
  <2>3. /\ End(c[i]) <= End(w[i]) /\ c[j].start = w[j].start
        /\ End(c[i]) \in Nat /\ End(w[i]) \in Nat /\ w[j].start \in Nat
    BY <1>2, <2>2
  <2> QED
    BY <2>1, <2>3
<1>7. Rising(c)
  BY <1>4, <1>6 DEF Rising
<1>8. ASSUME NEW x \in Nat PROVE x \in Spread(c) <=> x \in Spread(w) /\ x < size
  <2>1. ASSUME NEW i \in 1..n
        PROVE  c[i].start <= x /\ x < End(c[i])
                 <=> w[i].start <= x /\ x < End(w[i]) /\ x < size
    <3>1. c[i] = Clipped(w[i]) /\ w[i] \in Stretch
      BY <1>3, <1>5
    <3>2. c[i].start = w[i].start
      BY <1>2, <3>1
    <3> QED
      BY <1>2, <3>1, <3>2
  <2> QED
    BY <1>1, <1>4, <2>1 DEF Spread
<1> QED
  BY <1>7, <1>8 DEF Spread

(* A read in step returns the open bytes it passes, as many as there is    *)
(* room for or all there are, and does not go beyond the file.             *)
ReadGives(r, a, p) ==
  /\ r \in Seq(Nat) /\ a \in Nat /\ p <= a
  /\ Lists(r, {x \in p..(a - 1) : Open(x) /\ x < size})
  /\ Len(r) <= BufSize
  /\ Len(r) = BufSize \/ \A x \in Nat : x >= a /\ x < size => ~Open(x)
  /\ r # <<>> /\ Open(a) => a <= size

(* A block that is not the last begins before the end of the file.         *)
LEMMA BlockBeginsInside ==
  ASSUME Geometry, opt.use = TRUE, NEW s \in Nat, s % bs = 0, s \div bs < nb
  PROVE  s < size
<1>0. bs \in Nat \ {0} /\ nb \in Nat /\ size \in Nat
  BY DEF Geometry, Sound
<1>1. PICK k \in Nat : k = s \div bs
  BY <1>0, Division
<1>2. s = bs * k
  BY <1>0, <1>1, Division
<1>3. bs * nb < size + bs
  <2>1. nb = Ceil(size, bs)
    BY DEF Geometry
  <2>2. bs * Ceil(size, bs) < size + bs
    BY <1>0, CeilIs
  <2> QED
    BY <2>1, <2>2
<1>4. bs * (k + 1) <= bs * nb
  <2>1. k + 1 <= nb
    BY <1>0, <1>1
  <2> QED
    BY <1>0, <2>1, Multiples
<1>5. bs * (k + 1) = bs * k + bs /\ bs * k \in Nat /\ bs * nb \in Nat
  BY <1>0, NextMultiple
<1> QED
  BY <1>0, <1>2, <1>3, <1>4, <1>5

(* In step, a read brings these bytes as far as the image goes, and leaves *)
(* the position behind them.                                               *)
LEMMA ReadInStep ==
  ASSUME Geometry, NEW p \in Nat, ReadsInStep(p, BufSize)
  PROVE  ReadGives(Read(p), AfterRead(p), p)
<1>0. size \in Nat \ {0} /\ BufSize \in Nat \ {0}
  BY CoverageAssumption DEF Geometry
<1>1. PICK w : w = Wanted(p)
  OBVIOUS
<1>2. WantedGives(w, p)
  BY <1>1, WantedInStep
<1>3. PICK e \in Nat : e = Reached(w, p) /\ p <= e
  BY <1>2 DEF WantedGives
<1>4. Rising(w) /\ w \in Seq(Stretch) /\ Spread(w) = {x \in p..(e - 1) : Open(x)}
  BY <1>2, <1>3 DEF WantedGives, Rising
<1>5. PICK c : c = [i \in DOMAIN w |-> Clipped(w[i])]
  OBVIOUS
<1>6. Rising(c) /\ Spread(c) = {x \in Spread(w) : x < size}
  BY <1>0, <1>4, <1>5, ClippedRise
<1>7. PICK r : r = Read(p)
  OBVIOUS
<1>8. r = Bytes(c)
  BY <1>1, <1>5, <1>7 DEF Read
<1>9. /\ r \in Seq(Nat) /\ Lists(r, Spread(c))
      /\ IsFiniteSet(Spread(c)) /\ Cardinality(Spread(c)) = Len(r)
  BY <1>6, <1>8, BytesList
<1>10. PICK n \in Nat : n = Len(w) /\ DOMAIN w = 1..n
  BY <1>4, LenProperties
<1>11. w # <<>> => n \in 1..n
  BY <1>4, <1>10
<1>12. ASSUME w # <<>>
       PROVE  /\ w[n].start \in Nat /\ End(w[n]) = e /\ w[n].start <= e
              /\ w[n].start >= p
              /\ w[n].start = p \/ (opt.use /\ w[n].start % bs = 0)
  <2>1. w[n] \in Stretch
    BY <1>4, <1>11, <1>10, <1>12
  <2>2. End(w[n]) = e
    BY <1>3, <1>10, <1>12 DEF Reached
  <2>3. PICK s \in Nat : w[n].start = s
    BY <2>1 DEF Stretch
  <2>4. PICK l \in Nat : w[n].length = l
    BY <2>1 DEF Stretch
  <2>5. e = s + l
    BY <2>2, <2>3, <2>4 DEF End
  <2>6. s >= p
    <3>1. CASE s = e
      BY <1>3, <3>1
    <3>2. CASE s # e
      <4>1. s <= s /\ s < e
        BY <2>5, <3>2
      <4>2. s \in Spread(w)
        BY <1>10, <1>11, <1>12, <2>2, <2>3, <4>1 DEF Spread
      <4> QED
        BY <1>4, <4>2
    <3> QED
      BY <3>1, <3>2
  <2>7. s = p \/ (opt.use /\ s % bs = 0)
    BY <1>2, <1>10, <1>11, <1>12, <2>3 DEF WantedGives
  <2> QED
    BY <2>2, <2>3, <2>5, <2>6, <2>7
<1>13. PICK a : a = AfterRead(p)
  OBVIOUS
<1>14. a = IF w = <<>> THEN p
           ELSE IF w[n].start >= size THEN w[n].start ELSE Least(e, size)
  BY <1>1, <1>10, <1>12, <1>13 DEF AfterRead, Last
<1>15. /\ a \in Nat /\ p <= a /\ a <= e /\ (a < e => a >= size)
       /\ a < size => a = e
  <2>1. CASE w = <<>>
    <3>1. e = p /\ a = p
      BY <1>3, <1>14, <2>1 DEF Reached
    <3> QED
      BY <3>1
  <2>2. CASE w # <<>> /\ w[n].start >= size
    <3>1. a = w[n].start
      BY <1>14, <2>2
    <3> QED
      BY <1>0, <1>12, <2>2, <3>1
  <2>3. CASE w # <<>> /\ ~(w[n].start >= size)
    <3>1. a = IF e < size THEN e ELSE size
      BY <1>14, <2>3 DEF Least
    <3> QED
      BY <1>0, <1>3, <1>12, <2>3, <3>1
  <2> QED
    BY <2>1, <2>2, <2>3
<1>16. Spread(c) = {x \in p..(a - 1) : Open(x) /\ x < size}
  <2>1. ASSUME NEW x \in Nat, x < size PROVE x \in p..(e - 1) <=> x \in p..(a - 1)
    BY <1>0, <1>15, <2>1
  <2>2. ASSUME NEW x \in Spread(c) PROVE x \in p..(a - 1) /\ Open(x) /\ x < size
    <3>1. x \in p..(e - 1) /\ Open(x) /\ x < size /\ x \in Nat
      BY <1>4, <1>6
    <3> QED
      BY <2>1, <3>1
  <2>3. ASSUME NEW x \in p..(a - 1), Open(x), x < size PROVE x \in Spread(c)
    <3>1. x \in Nat
      OBVIOUS
    <3>2. x \in p..(e - 1)
      BY <2>1, <2>3, <3>1
    <3> QED
      BY <1>4, <1>6, <2>3, <3>2
  <2> QED
    BY <2>2, <2>3
<1>17. IsFiniteSet(Spread(w)) /\ Cardinality(Spread(w)) \in Nat /\ Cardinality(Spread(w)) <= BufSize
  BY <1>2, FS_CardinalityType DEF WantedGives
<1>18. Len(r) <= BufSize
  <2>1. Spread(c) \in SUBSET Spread(w)
    BY <1>6
  <2>2. Cardinality(Spread(c)) <= Cardinality(Spread(w))
    BY <1>17, <2>1, FS_Subset
  <2>3. Len(r) \in Nat
    BY <1>9, LenProperties
  <2> QED
    BY <1>0, <1>9, <1>17, <2>2, <2>3
<1>19. ASSUME NEW x \in Nat, x >= a, x < size, Open(x) PROVE Len(r) = BufSize
  <2>1. a < size /\ a = e /\ x >= e
    BY <1>0, <1>15, <1>19
  <2>2. Cardinality(Spread(w)) = BufSize
    BY <1>2, <1>3, <1>19, <2>1 DEF WantedGives
  <2>3. Spread(c) = Spread(w)
    BY <1>4, <1>16, <2>1, <1>0
  <2> QED
    BY <1>9, <2>2, <2>3
<1>20. ASSUME r # <<>>, Open(a) PROVE a <= size
  <2> SUFFICES ASSUME a > size PROVE FALSE
    BY <1>0, <1>15
  <2>1. p < size
    <3> SUFFICES ASSUME p >= size PROVE FALSE
      BY <1>0
    <3>1. Spread(c) = {}
      BY <1>0, <1>15, <1>16
    <3>2. Len(r) = 0
      BY <1>9, <3>1, FS_EmptySet
    <3> QED
      BY <1>9, <1>20, <3>2
  <2>2. w # <<>> /\ w[n].start >= size /\ a = w[n].start
    BY <1>0, <1>14, <1>15, <2>1 DEF Least
  <2>3. opt.use /\ a % bs = 0
    BY <1>0, <1>12, <1>15, <2>1, <2>2
  <2>4. opt.use = TRUE /\ Clear(a)
    BY <1>20, <2>3 DEF Open, Geometry
  <2>5. a < size
    BY <1>15, <2>3, <2>4, BlockBeginsInside DEF Clear
  <2> QED
    BY <1>0, <1>15, <2>5
<1>21. Lists(r, {x \in p..(a - 1) : Open(x) /\ x < size})
  BY <1>9, <1>16
<1>22. Len(r) = BufSize \/ \A x \in Nat : x >= a /\ x < size => ~Open(x)
  BY <1>19
<1> QED
  BY <1>7, <1>9, <1>13, <1>15, <1>18, <1>20, <1>21, <1>22 DEF ReadGives

-----------------------------------------------------------------------------
(***************************************************************************)
(* Positions and bytes are numbers, in step or not.                        *)
(***************************************************************************)

(* A walk takes stretches.                                                 *)
LEMMA WalkType ==
  ASSUME Sound, NEW from \in Nat, NEW needed \in Nat
  PROVE  Walk(from, needed) \in Seq(Stretch)
<1>1. PICK f : WalkRun(f, from, needed) /\ Walk(from, needed) = f[nb].taken
  BY WalkIs
<1>2. f[nb] \in Walking
  BY <1>1 DEF WalkRun, Sound
<1> QED
  BY <1>1, <1>2 DEF Walking

(* So does a read.                                                         *)
LEMMA WantedType ==
  ASSUME Geometry, NEW p \in Nat
  PROVE  Wanted(p) \in Seq(Stretch)
<1>0. Sound /\ BufSize \in Nat /\ opt.use \in BOOLEAN
  BY CoverageAssumption DEF Geometry
<1>1. CASE opt.use = TRUE
  BY <1>0, <1>1, WalkType DEF Wanted
<1>2. CASE opt.use = FALSE
  <2>1. [op |-> 0, start |-> p, length |-> BufSize] \in Stretch
    BY <1>0 DEF Stretch
  <2> QED
    BY <1>2, <2>1 DEF Wanted
<1> QED
  BY <1>0, <1>1, <1>2

(* What a read returns, and the position after it.                         *)
LEMMA ReadType ==
  ASSUME Geometry, NEW p \in Nat
  PROVE  Read(p) \in Seq(Nat) /\ AfterRead(p) \in Nat
<1>0. size \in Nat
  BY DEF Geometry
<1>1. PICK w \in Seq(Stretch) : w = Wanted(p)
  BY WantedType
<1>2. PICK n \in Nat : DOMAIN w = 1..n /\ Len(w) = n
  BY LenProperties
<1>3. \A i \in 1..n : w[i] \in Stretch
  BY <1>2
<1>4. ASSUME NEW t \in Stretch PROVE Clipped(t) \in Stretch
  <2>1. PICK s \in Nat : t.start = s
    BY DEF Stretch
  <2>2. PICK l \in Nat : t.length = l
    BY DEF Stretch
  <2>3. t = [op |-> 0, start |-> s, length |-> l]
    BY <2>1, <2>2 DEF Stretch
  <2>4. (IF s >= size THEN 0 ELSE Least(l, size - s)) \in Nat
    BY <1>0 DEF Least
  <2>5. PICK m \in Nat : m = IF s >= size THEN 0 ELSE Least(l, size - s)
    BY <2>4
  <2>6. Clipped(t) = [t EXCEPT !.length = m]
    BY <2>1, <2>2, <2>5 DEF Clipped
  <2>7. Clipped(t) = [op |-> 0, start |-> s, length |-> m]
    BY <2>3, <2>6
  <2> QED
    BY <2>7 DEF Stretch
<1>5. [i \in DOMAIN w |-> Clipped(w[i])] \in Seq(Stretch)
  <2>1. \A i \in 1..n : Clipped(w[i]) \in Stretch
    BY <1>3, <1>4
  <2> QED
    BY <1>2, <2>1
<1>6. Read(p) \in Seq(Nat)
  <2>1. PICK c \in Seq(Stretch) : c = [i \in DOMAIN w |-> Clipped(w[i])]
    BY <1>5
  <2>2. Bytes(c) \in Seq(Nat)
    <3>1. PICK f \in [0..Len(c) -> Seq(Nat)] : Bytes(c) = f[Len(c)]
      BY BytesAre
    <3> QED
      BY <3>1
  <2> QED
    BY <1>1, <2>1, <2>2 DEF Read
<1>7. AfterRead(p) \in Nat
  <2>1. CASE w = <<>>
    BY <1>1, <2>1 DEF AfterRead
  <2>2. CASE w # <<>>
    <3>1. Last(w) = w[n] /\ w[n] \in Stretch
      BY <1>2, <1>3, <2>2 DEF Last
    <3>2. PICK t \in Stretch : t = Last(w)
      BY <3>1
    <3>3. t.start \in Nat /\ End(t) \in Nat
      BY DEF Stretch, End
    <3>4. AfterRead(p) = IF t.start >= size THEN t.start ELSE Least(End(t), size)
      BY <1>1, <2>2, <3>2 DEF AfterRead
    <3> QED
      BY <1>0, <3>3, <3>4 DEF Least
  <2> QED
    BY <2>1, <2>2
<1> QED
  BY <1>6, <1>7

(* What ftello says.                                                       *)
LEMMA TellType ==
  ASSUME Sound, NEW p \in Nat, NEW t \in Tell(p)
  PROVE  t \in Int
<1>0. bs \in Nat \ {0}
  BY DEF Sound
<1>1. CASE ~opt.use
  BY <1>1 DEF Tell
<1>2. CASE opt.use
  <2>1. PICK last \in Nat : last = p \div bs
    BY <1>0, Division
  <2>2. PICK junk \in SUBSET (nb..last) :
          LET cov == {b \in 0..last : IF b < nb THEN Covered(b) ELSE b \in junk}
          IN  t = p - bs * Cardinality(cov) - (IF last \in cov THEN Contribution(p) ELSE 0)
    BY <1>2, <2>1 DEF Tell
  <2> DEFINE cov == {b \in 0..last : IF b < nb THEN Covered(b) ELSE b \in junk}
  <2>3. Cardinality(cov) \in Nat
    <3>1. cov \in SUBSET (0..last) /\ IsFiniteSet(0..last)
      BY FS_Interval
    <3>2. IsFiniteSet(cov)
      BY <3>1, FS_Subset
    <3> QED
      BY <3>2, FS_CardinalityType
  <2>4. Contribution(p) \in Int
    BY ContributionIs, <1>0
  <2>5. PICK c \in Nat : c = Cardinality(cov)
    BY <2>3
  <2>6. bs * c \in Int
    BY <1>0, Distributes
  <2>7. t = p - (bs * c) - (IF last \in cov THEN Contribution(p) ELSE 0)
    BY <2>2, <2>5
  <2> HIDE DEF cov
  <2> QED
    BY <2>4, <2>6, <2>7
<1> QED
  BY <1>1, <1>2

-----------------------------------------------------------------------------
(***************************************************************************)
(* Seeking.                                                                *)
(***************************************************************************)
Seeking == [q : Int, b : Int, kept : Int, o : Int]
Aims(p, offset) == [q |-> p, b |-> p \div bs, kept |-> 0, o |-> offset]
Sign(offset)    == IF offset > 0 THEN 1 ELSE -1
SeeksOn(s)      == ~(s.kept >= Abs(s.o)) /\ s.b \in 0..(nb - 1)

(* f goes through the turns of a seek.                                     *)
SeekRun(f, p, offset) ==
  /\ f \in [0..nb -> Seeking] /\ f[0] = Aims(p, offset)
  /\ \A i \in 1..nb : f[i] = SeekTurn(f[i - 1], Sign(offset))

(* The parts of a turn of a seek.                                          *)
Jumped(s, sign) == RunLength(s.b, TRUE, sign)
Skips(s, sign)  == sign * (Jumped(s, sign) * Contribution(s.q))
More(s, sign)   == RunLength(s.b + (sign * Jumped(s, sign)), FALSE, sign)
Keeps(s, sign)  == More(s, sign) * Contribution(s.q + Skips(s, sign))
AfterSeekTurn(s, sign) ==
  [q |-> (s.q + Skips(s, sign)) + (sign * Keeps(s, sign)),
   b |-> s.b + (sign * (Jumped(s, sign) + More(s, sign))),
   kept |-> s.kept + Keeps(s, sign), o |-> s.o + Skips(s, sign)]

(* A turn leads on, or the seek has come to its end.                       *)
LEMMA SeekTurnIs ==
  ASSUME NEW s \in Seeking, NEW sign \in {1, -1}
  PROVE  SeekTurn(s, sign) = IF SeeksOn(s) THEN AfterSeekTurn(s, sign) ELSE s
<1>1. CASE SeeksOn(s)
  <2>1. ~(s.kept >= Abs(s.o) \/ s.b \notin 0..(nb - 1))
    BY <1>1 DEF SeeksOn
  <2> QED
    BY <1>1, <2>1, Zenon DEF SeekTurn, AfterSeekTurn, Jumped, Skips, More, Keeps
<1>2. CASE ~SeeksOn(s)
  <2>1. s.kept >= Abs(s.o) \/ s.b \notin 0..(nb - 1)
    BY <1>2 DEF SeeksOn
  <2> QED
    BY <1>2, <2>1, Zenon DEF SeekTurn
<1> QED
  BY <1>1, <1>2

(* The numbers of a turn of a seek.                                        *)
LEMMA SeekTurnType ==
  ASSUME Sound, NEW s \in Seeking, NEW sign \in {1, -1}
  PROVE  /\ SeekTurn(s, sign) \in Seeking
         /\ SeeksOn(s) => /\ Jumped(s, sign) \in 0..nb /\ Skips(s, sign) \in Int
                          /\ More(s, sign) \in 0..nb /\ Keeps(s, sign) \in Int
<1>0. bs \in Nat \ {0} /\ nb \in Nat
  BY DEF Sound
<1>1. PICK q \in Int : s.q = q
  BY DEF Seeking
<1>2. PICK b \in Int : s.b = b
  BY DEF Seeking
<1>3. PICK kept \in Int : s.kept = kept
  BY DEF Seeking
<1>4. PICK o \in Int : s.o = o
  BY DEF Seeking
<1>5. ASSUME NEW x \in Int PROVE Contribution(x) \in Int
  <2>1. x % bs \in Int
    BY <1>0
  <2> QED
    BY <1>0, <2>1 DEF Contribution
<1>6. ASSUME NEW x \in Int, NEW y \in Int PROVE x * y \in Int
  BY <1>6
<1>7. ASSUME NEW x \in Int, NEW covered \in BOOLEAN
      PROVE  RunLength(x, covered, sign) \in 0..nb
  BY RunLengthIs DEF RunIs
<1>8. Jumped(s, sign) \in 0..nb
  BY <1>2, <1>7 DEF Jumped
<1>9. PICK j \in 0..nb : Jumped(s, sign) = j
  BY <1>8
<1>10. j \in Int /\ sign \in Int
  BY <1>9
<1>11. Skips(s, sign) \in Int
  BY <1>1, <1>5, <1>6, <1>9, <1>10 DEF Skips
<1>12. PICK k \in Int : Skips(s, sign) = k
  BY <1>11
<1>13. sign * j \in Int
  BY <1>6, <1>10
<1>14. More(s, sign) \in 0..nb
  <2>1. b + (sign * j) \in Int
    BY <1>13
  <2> QED
    BY <1>2, <1>7, <1>9, <2>1 DEF More
<1>15. PICK m \in 0..nb : More(s, sign) = m
  BY <1>14
<1>16. Keeps(s, sign) \in Int
  <2>1. q + k \in Int /\ m \in Int
    BY <1>15
  <2> QED
    BY <1>1, <1>5, <1>6, <1>12, <1>15, <2>1 DEF Keeps
<1>17. PICK l \in Int : Keeps(s, sign) = l
  BY <1>16
<1>18. sign * l \in Int /\ sign * (j + m) \in Int
  <2>1. j + m \in Int
    BY <1>9, <1>15
  <2> QED
    BY <1>6, <1>10, <2>1
<1>19. AfterSeekTurn(s, sign) \in Seeking
  <2>1. AfterSeekTurn(s, sign) = [q |-> (q + k) + (sign * l), b |-> b + (sign * (j + m)),
                                   kept |-> kept + l, o |-> o + k]
    BY <1>1, <1>2, <1>3, <1>4, <1>9, <1>12, <1>15, <1>17 DEF AfterSeekTurn
  <2>2. (q + k) + (sign * l) \in Int /\ b + (sign * (j + m)) \in Int
    BY <1>18
  <2>3. kept + l \in Int /\ o + k \in Int
    OBVIOUS
  <2> QED
    BY <2>1, <2>2, <2>3 DEF Seeking
<1>20. SeekTurn(s, sign) \in Seeking
  BY <1>19, SeekTurnIs
<1> QED
  BY <1>8, <1>11, <1>14, <1>16, <1>20

(* SeekOffset goes through these turns.                                    *)
LEMMA SeekOffsetIs ==
  ASSUME Sound, NEW p \in Nat, NEW offset \in Int
  PROVE  \E f : SeekRun(f, p, offset) /\ SeekOffset(p, offset) = f[nb].o
<1>0. nb \in Nat
  BY DEF Sound
<1> DEFINE sign == Sign(offset)
           a == Aims(p, offset)
           step == [c \in (1..nb) \X Seeking |-> SeekTurn(c[2], sign)]
           Run(g) == [i \in 0..nb |-> IF i = 0 THEN Aims(p, offset)
                                      ELSE SeekTurn(g[i - 1], sign)]
<1>s. sign \in {1, -1}
  BY DEF Sign
<1>1. a \in Seeking
  <2>1. p \div bs \in Int
    BY Division DEF Sound
  <2> QED
    BY <2>1 DEF Aims, Seeking
<1>z. SeekOffset(p, offset) = (CHOOSE g : g = Run(g))[nb].o
  BY DEF SeekOffset, Aims, Sign
<1> HIDE DEF sign
<1>2. step \in [(1..nb) \X Seeking -> Seeking]
  <2>1. \A c \in (1..nb) \X Seeking : SeekTurn(c[2], sign) \in Seeking
    BY <1>s, SeekTurnType
  <2> QED
    BY <2>1
<1>3. PICK f : IsRun(f, nb, Seeking, a, step)
  <2> HIDE DEF a, step
  <2> QED
    BY <1>0, <1>1, <1>2, Iterates
<1>4. f \in [0..nb -> Seeking] /\ f[0] = a
  BY <1>3 DEF IsRun
<1>5. ASSUME NEW i \in 1..nb PROVE f[i] = SeekTurn(f[i - 1], sign)
  <2>1. f[i] = step[<<i, f[i - 1]>>]
    <3> HIDE DEF step
    <3> QED
      BY <1>3 DEF IsRun
  <2>2. f[i - 1] \in Seeking
    BY <1>0, <1>4
  <2>3. <<i, f[i - 1]>> \in (1..nb) \X Seeking
    BY <2>2
  <2> QED
    BY <2>1, <2>3
<1>6. f = Run(f)
  <2>1. ASSUME NEW i \in 0..nb PROVE f[i] = Run(f)[i]
    <3>1. i = 0 \/ i \in 1..nb
      OBVIOUS
    <3> QED
      BY <1>4, <1>5, <3>1
  <2> QED
    BY <1>4, <2>1
<1> DEFINE g == CHOOSE g : g = Run(g)
<1>7. g = Run(g)
  <2> HIDE DEF Run
  <2> QED
    BY <1>6
<1>8. SeekOffset(p, offset) = g[nb].o
  BY <1>z
<1>9. ASSUME NEW h, h = Run(h)
      PROVE  h[0] = Aims(p, offset) /\ \A i \in 1..nb : h[i] = SeekTurn(h[i - 1], sign)
  <2>1. ASSUME NEW i \in 0..nb
        PROVE  h[i] = IF i = 0 THEN Aims(p, offset) ELSE SeekTurn(h[i - 1], sign)
    BY <1>9, Zenon
  <2>2. h[0] = Aims(p, offset)
    BY <1>0, <2>1
  <2>3. ASSUME NEW i \in 1..nb PROVE h[i] = SeekTurn(h[i - 1], sign)
    <3>1. i \in 0..nb /\ ~(i = 0)
      BY <1>0
    <3>2. h[i] = IF i = 0 THEN Aims(p, offset) ELSE SeekTurn(h[i - 1], sign)
      BY <2>1, <3>1
    <3> QED
      BY <3>1, <3>2, Zenon
  <2> QED
    BY <2>2, <2>3
<1> HIDE DEF g
<1>10. g[0] = Aims(p, offset) /\ \A i \in 1..nb : g[i] = SeekTurn(g[i - 1], sign)
  <2> HIDE DEF Run
  <2> QED
    BY <1>7, <1>9
<1>11. \A i \in 0..nb : g[i] = f[i]
  <2> DEFINE Wrong == {i \in 0..nb : g[i] # f[i]}
  <2> SUFFICES ASSUME Wrong # {} PROVE FALSE
    OBVIOUS
  <2>1. PICK k \in Wrong : \A j \in Wrong : k <= j
    <3>1. Wrong \in SUBSET Nat
      OBVIOUS
    <3> QED
      BY <3>1, LeastExists
  <2>2. k # 0
    BY <1>4, <1>10, <2>1
  <2>3. k \in 1..nb /\ k - 1 \in 0..nb /\ ~(k <= k - 1)
    BY <1>0, <2>1, <2>2
  <2>4. g[k - 1] = f[k - 1]
    BY <2>1, <2>3
  <2>5. f[k] = SeekTurn(f[k - 1], sign) /\ g[k] = SeekTurn(g[k - 1], sign)
    BY <1>5, <1>10, <2>3
  <2> QED
    BY <2>1, <2>4, <2>5
<1>12. nb \in 0..nb
  BY <1>0
<1>13. SeekRun(f, p, offset)
  BY <1>4, <1>5 DEF SeekRun, sign
<1> QED
  BY <1>8, <1>11, <1>12, <1>13

(* Where a seek leads to.                                                  *)
LEMMA SeekType ==
  ASSUME Geometry, NEW p \in Nat, NEW offset \in Int
  PROVE  Seek(p, offset) \in Nat
<1>0. Sound /\ opt.use \in BOOLEAN /\ nb \in Nat
  BY DEF Geometry, Sound
<1>1. SeekOffset(p, offset) \in Int
  <2>1. PICK f : SeekRun(f, p, offset) /\ SeekOffset(p, offset) = f[nb].o
    BY <1>0, SeekOffsetIs
  <2>2. f[nb] \in Seeking
    BY <1>0, <2>1 DEF SeekRun
  <2> QED
    BY <2>1, <2>2 DEF Seeking
<1> QED
  BY <1>0, <1>1 DEF Seek

(* A step back in step goes back by as many bytes as are asked for, over   *)
(* open bytes.                                                             *)
GoesBack(q, p, n) == q = p - n /\ q >= 0 /\ \A x \in q..(p - 1) : Open(x)

(* With no bitmap a position is an offset.                                 *)
LEMMA BackPlain ==
  ASSUME opt.use = FALSE, NEW p \in Nat, NEW n \in 0..p
  PROVE  GoesBack(Seek(p, 0 - n), p, n)
<1>1. Seek(p, 0 - n) = p - n /\ p - n >= 0
  BY DEF Seek
<1> QED
  BY <1>1 DEF GoesBack, Open

(* What a step back in step rests on: the run of blocks that ends where    *)
(* the step begins.                                                        *)
InBlock(p, b) == b = p \div bs

BackFacts(p, n, b, r) ==
  /\ b < nb /\ r >= 1 /\ Covered(b) = FALSE
  /\ r * Contribution(p) >= n
  /\ RunLength(b, TRUE, -1) = 0
  /\ p - n >= 0
  /\ \A x \in (p - n)..(p - 1) : Clear(x)

(* BackInStep says so of the block in which the step begins.               *)
LEMMA BackRests ==
  ASSUME Sound, opt.use = TRUE, NEW p \in Nat, NEW n \in Nat \ {0}, BackInStep(p, n),
         NEW b \in Nat, InBlock(p, b), NEW r \in 0..nb, RunLength(b, FALSE, -1) = r
  PROVE  BackFacts(p, n, b, r)
<1>0. bs \in Nat \ {0} /\ nb \in Nat
  BY DEF Sound
<1>1. b < nb /\ n <= p - bs * (b + 1 - r) /\ r * Contribution(p) >= n
  BY DEF BackInStep, InBlock
<1>2. r >= 1
  <2>1. Contribution(p) \in Int
    BY <1>0, ContributionIs
  <2>2. 0 * Contribution(p) = 0
    BY <2>1
  <2> QED
    BY <1>1, <2>2
<1>d. Downs(b, FALSE, r) /\ Downs(b, TRUE, RunLength(b, TRUE, -1))
  <2>1. b \in Int
    OBVIOUS
  <2> QED
    BY <2>1, RunDown
<1>3. \A k \in ((b - r) + 1)..b : k \in 0..(nb - 1) /\ Covered(k) = FALSE
  BY <1>d DEF Downs
<1>4. Covered(b) = FALSE
  <2>1. b \in ((b - r) + 1)..b
    BY <1>2
  <2> QED
    BY <1>3, <2>1
<1>5. RunLength(b, TRUE, -1) = 0
  <2>1. RunLength(b, TRUE, -1) \in 0..nb
    BY <1>d DEF Downs
  <2>2. PICK s \in 0..nb : RunLength(b, TRUE, -1) = s
    BY <2>1
  <2>3. \A k \in ((b - s) + 1)..b : Covered(k) = TRUE
    BY <1>d, <2>2 DEF Downs
  <2>4. ASSUME s >= 1 PROVE FALSE
    <3>1. b \in ((b - s) + 1)..b
      BY <2>4
    <3> QED
      BY <1>4, <2>3, <3>1
  <2>5. s \in Nat
    BY <1>0
  <2>6. s = 0
    BY <2>4, <2>5
  <2> QED
    BY <2>2, <2>6
<1>6. PICK k \in Int : k = (b - r) + 1
  OBVIOUS
<1>7. k \in Nat
  <2>1. k \in k..b
    BY <1>2, <1>6
  <2> QED
    BY <1>3, <1>6, <2>1
<1>8. b + 1 - r = k
  BY <1>6
<1>9. PICK z \in Nat : z = bs * k
  BY <1>0, <1>7
<1>10. n <= p - z
  BY <1>1, <1>8, <1>9
<1>11. p - n >= 0
  BY <1>9, <1>10
<1>12. ASSUME NEW x \in (p - n)..(p - 1) PROVE Clear(x)
  <2>1. x \in Nat /\ z <= x /\ x < p
    BY <1>9, <1>10, <1>12
  <2>2. k <= x \div bs
    BY <1>0, <1>7, <1>9, <2>1, QuotientBounds
  <2>3. x \div bs <= b
    <3>1. p < bs * (b + 1)
      <4>1. Contribution(p) \in 1..bs /\ p + Contribution(p) = bs * ((p \div bs) + 1)
        BY ContributionIs
      <4>2. p + Contribution(p) = bs * (b + 1)
        BY <4>1 DEF InBlock
      <4>3. p < p + Contribution(p)
        BY <1>0, <4>1
      <4> QED
        BY <4>2, <4>3
    <3>2. bs * (b + 1) \in Nat
      BY <1>0
    <3>3. x < bs * (b + 1)
      BY <2>1, <3>1, <3>2
    <3>4. x \div bs < b + 1
      BY <1>0, <2>1, <3>3, QuotientBounds
    <3>5. x \div bs \in Nat
      BY <1>0, <2>1, Division
    <3> QED
      BY <3>4, <3>5
  <2>4. x \div bs \in k..b
    BY <1>0, <2>1, <2>2, <2>3, Division
  <2>5. x \div bs \in 0..(nb - 1) /\ Covered(x \div bs) = FALSE
    BY <1>3, <1>6, <2>4
  <2>6. x \div bs < nb
    BY <1>0, <2>5
  <2> QED
    BY <2>5, <2>6 DEF Clear
<1> QED
  BY <1>1, <1>2, <1>4, <1>5, <1>11, <1>12 DEF BackFacts

(* A step back.                                                            *)
LEMMA BackSteps ==
  ASSUME Geometry, NEW p \in Nat, NEW n \in Nat, BackInStep(p, n),
         n <= p \/ opt.use = TRUE
  PROVE  GoesBack(Seek(p, 0 - n), p, n)
<1>0. Sound /\ bs \in Nat \ {0} /\ nb \in Nat /\ opt.use \in BOOLEAN
  BY DEF Geometry, Sound
<1>1. CASE opt.use = FALSE
  <2>1. n \in 0..p
    BY <1>1
  <2> QED
    BY <1>1, <2>1, BackPlain
<1>2. CASE opt.use = TRUE
  <2>1. PICK f : SeekRun(f, p, 0 - n) /\ SeekOffset(p, 0 - n) = f[nb].o
    BY <1>0, SeekOffsetIs
  <2>2. PICK b \in Nat : b = p \div bs
    BY <1>0, Division
  <2>3. /\ f \in [0..nb -> Seeking]
        /\ f[0] = [q |-> p, b |-> b, kept |-> 0, o |-> 0 - n]
        /\ \A i \in 1..nb : f[i] = SeekTurn(f[i - 1], -1)
    <3>1. Sign(0 - n) = -1
      BY DEF Sign
    <3> QED
      BY <2>1, <2>2, <3>1 DEF SeekRun, Aims
  <2> DEFINE Still == {i \in 0..nb : f[i].o # 0 - n}
  <2>4. nb \in 0..nb /\ 0 \in 0..nb
    BY <1>0
  <2>5. CASE n = 0
    <3> DEFINE Wrong == {i \in 0..nb : f[i] # f[0]}
    <3>1. Wrong = {}
      <4> SUFFICES ASSUME Wrong # {} PROVE FALSE
        OBVIOUS
      <4>1. PICK k \in Wrong : \A j \in Wrong : k <= j
        <5>1. Wrong \in SUBSET Nat
          OBVIOUS
        <5> QED
          BY <5>1, LeastExists
      <4>2. k \in 1..nb /\ k - 1 \in 0..nb /\ ~(k <= k - 1)
        BY <1>0, <4>1
      <4>3. f[k - 1] = f[0] /\ f[k] = SeekTurn(f[k - 1], -1)
        BY <2>3, <4>1, <4>2
      <4>4. f[0] \in Seeking /\ ~SeeksOn(f[0])
        BY <2>3, <2>4, <2>5 DEF SeeksOn, Abs
      <4> QED
        BY <4>1, <4>3, <4>4, SeekTurnIs
    <3>2. f[nb] = f[0]
      BY <2>4, <3>1
    <3>3. SeekOffset(p, 0 - n) = 0
      BY <2>1, <2>3, <2>5, <3>2
    <3>4. Seek(p, 0 - n) = p
      BY <1>2, <2>5, <3>3 DEF Seek
    <3> QED
      BY <2>5, <3>4 DEF GoesBack
  <2>6. CASE n # 0
    <3>1. PICK r \in 0..nb : RunLength(b, FALSE, -1) = r
      <4>1. b \in Int
        OBVIOUS
      <4>2. Downs(b, FALSE, RunLength(b, FALSE, -1))
        BY <1>0, <4>1, RunDown
      <4> QED
        BY <4>2 DEF Downs
    <3>a. BackFacts(p, n, b, r)
      <4>1. InBlock(p, b) /\ n \in Nat \ {0}
        BY <2>2, <2>6 DEF InBlock
      <4> QED
        BY <1>0, <1>2, <3>1, <4>1, BackRests
    <3>2. /\ b < nb /\ r >= 1 /\ r * Contribution(p) >= n /\ RunLength(b, TRUE, -1) = 0
          /\ p - n >= 0 /\ \A x \in (p - n)..(p - 1) : Clear(x)
      BY <3>a DEF BackFacts
    <3>3. PICK c \in Nat : Contribution(p) = c
      BY <1>0, ContributionIs
    <3>4. PICK l \in Nat : r * c = l /\ l >= n
      <4>1. r * c \in Nat
        <5>1. r \in Nat
          OBVIOUS
        <5> QED
          BY <5>1
      <4> QED
        BY <3>2, <3>3, <4>1
    <3>z. f[0].q = p /\ f[0].b = b /\ f[0].kept = 0 /\ f[0].o = 0 - n
      BY <2>3
    <3>5. Jumped(f[0], -1) = 0 /\ Skips(f[0], -1) = 0
      <4>1. Jumped(f[0], -1) = 0
        BY <3>2, <3>z DEF Jumped
      <4>2. 0 * c = 0 /\ (-1) * 0 = 0
        OBVIOUS
      <4> QED
        BY <2>3, <3>3, <4>1, <4>2 DEF Skips
    <3>6. More(f[0], -1) = r
      <4>1. b + ((-1) * 0) = b
        OBVIOUS
      <4> QED
        BY <3>1, <3>5, <3>z, <4>1, Zenon DEF More
    <3>7. Keeps(f[0], -1) = l
      <4>1. p + 0 = p
        OBVIOUS
      <4> QED
        BY <2>3, <3>3, <3>4, <3>5, <3>6, <4>1 DEF Keeps
    <3>8. f[0] \in Seeking /\ SeeksOn(f[0])
      BY <2>3, <2>4, <2>6, <3>2, <1>0 DEF SeeksOn, Abs
    <3>9. 1 \in 1..nb /\ nb \in 1..nb
      BY <1>0, <3>2
    <3>10. f[1] = SeekTurn(f[0], -1)
      BY <2>3, <3>9
    <3>11. f[1].kept = l /\ f[1].o = 0 - n /\ f[1] \in Seeking
      <4>1. f[1] = AfterSeekTurn(f[0], -1)
        BY <3>8, <3>10, SeekTurnIs
      <4>2. f[1].kept = 0 + l /\ f[1].o = (0 - n) + 0
        BY <2>3, <3>5, <3>7, <4>1 DEF AfterSeekTurn
      <4>3. f[1] \in Seeking
        <5>1. 1 \in 0..nb
          BY <1>0, <3>9
        <5> QED
          BY <2>3, <5>1
      <4> QED
        BY <4>2, <4>3
    <3>12. ~SeeksOn(f[1])
      BY <3>4, <3>11 DEF SeeksOn, Abs
    <3> DEFINE Wrong == {i \in 1..nb : f[i] # f[1]}
    <3>13. Wrong = {}
      <4> SUFFICES ASSUME Wrong # {} PROVE FALSE
        OBVIOUS
      <4>1. PICK k \in Wrong : \A j \in Wrong : k <= j
        <5>1. Wrong \in SUBSET Nat
          OBVIOUS
        <5> QED
          BY <5>1, LeastExists
      <4>2. k \in 1..nb /\ k - 1 \in 1..nb /\ ~(k <= k - 1)
        BY <1>0, <4>1
      <4>3. f[k - 1] = f[1] /\ f[k] = SeekTurn(f[k - 1], -1)
        BY <2>3, <4>1, <4>2
      <4> QED
        BY <3>11, <3>12, <4>1, <4>3, SeekTurnIs
    <3>14. f[nb] = f[1]
      BY <3>9, <3>13
    <3>15. SeekOffset(p, 0 - n) = 0 - n
      BY <2>1, <3>11, <3>14
    <3>16. Seek(p, 0 - n) = p - n
      BY <1>2, <3>2, <3>15 DEF Seek
    <3> QED
      BY <3>2, <3>16 DEF GoesBack, Open
  <2> QED
    BY <2>5, <2>6
<1> QED
  BY <1>0, <1>1, <1>2

-----------------------------------------------------------------------------
(***************************************************************************)
(* The bytes a run ought to see, and the bytes the bitmap leaves open.     *)
(***************************************************************************)

(* The bitmap, if there is one, has a bit for x.                           *)
Inside(x) == opt.use => x \div bs < nb

(* Inside, the run ought to see what the bitmap leaves open.               *)
Agree == \A x \in Nat : Inside(x) => (Free(x) <=> Open(x))

OpenIn(a, e) == {x \in a..(e - 1) : Open(x)}

(* A byte of the file is inside.                                           *)
LEMMA InsideFile ==
  ASSUME Geometry, NEW x \in Nat, x < size
  PROVE  Inside(x)
<1>0. bs \in Nat \ {0} /\ nb \in Nat /\ size \in Nat
  BY DEF Geometry, Sound
<1>1. ASSUME opt.use PROVE x \div bs < nb
  <2>1. nb = Ceil(size, bs)
    BY <1>1 DEF Geometry
  <2>2. size <= bs * Ceil(size, bs)
    BY <1>0, CeilIs
  <2>3. PICK z \in Nat : z = bs * nb
    BY <1>0
  <2>4. x < z
    BY <1>0, <2>1, <2>2, <2>3
  <2> QED
    BY <1>0, <2>3, <2>4, QuotientBounds
<1> QED
  BY <1>1 DEF Inside

(* Below a byte that is inside there are only such bytes.                  *)
LEMMA InsideBelow ==
  ASSUME Sound, NEW x \in Nat, Inside(x), NEW y \in Nat, y <= x
  PROVE  Inside(y)
<1>0. bs \in Nat \ {0} /\ nb \in Nat
  BY DEF Sound
<1>1. ASSUME opt.use PROVE y \div bs < nb
  <2>1. PICK z \in Nat : z = bs * nb
    BY <1>0
  <2>2. x \div bs < nb
    BY <1>1 DEF Inside
  <2>3. x < z
    BY <1>0, <2>1, <2>2, QuotientBounds
  <2>4. y < z
    BY <2>1, <2>3
  <2> QED
    BY <1>0, <2>1, <2>4, QuotientBounds
<1> QED
  BY <1>1 DEF Inside

(* A byte that a bitmap leaves open is inside.                             *)
LEMMA OpenInside ==
  ASSUME NEW x \in Nat, Open(x)
  PROVE  Inside(x)
BY DEF Open, Clear, Inside

(* The open bytes of a stretch are as many as those of its two parts.      *)
Splits(a, b, c) ==
  /\ IsFiniteSet(OpenIn(a, c)) /\ Cardinality(OpenIn(a, c)) \in Nat
  /\ Cardinality(OpenIn(a, b)) \in Nat /\ Cardinality(OpenIn(b, c)) \in Nat
  /\ Cardinality(OpenIn(a, c)) = Cardinality(OpenIn(a, b)) + Cardinality(OpenIn(b, c))
  /\ OpenIn(a, c) = OpenIn(a, b) \cup OpenIn(b, c)

(* Which holds wherever the stretch is divided.                            *)
LEMMA OpenSplit ==
  ASSUME NEW a \in Nat, NEW b \in Nat, NEW c \in Nat, a <= b, b <= c
  PROVE  Splits(a, b, c)
<1>1. ASSUME NEW x \in Nat, NEW y \in Nat
      PROVE  IsFiniteSet(OpenIn(x, y)) /\ Cardinality(OpenIn(x, y)) \in Nat
  <2>1. OpenIn(x, y) \in SUBSET (x..(y - 1)) /\ IsFiniteSet(x..(y - 1))
    BY FS_Interval DEF OpenIn
  <2>2. IsFiniteSet(OpenIn(x, y))
    BY <2>1, FS_Subset
  <2> QED
    BY <2>2, FS_CardinalityType
<1>2. OpenIn(a, c) = OpenIn(a, b) \cup OpenIn(b, c)
  BY DEF OpenIn
<1>3. OpenIn(a, b) \cap OpenIn(b, c) = {}
  BY DEF OpenIn
<1>4. Cardinality(OpenIn(a, b) \cup OpenIn(b, c))
        = Cardinality(OpenIn(a, b)) + Cardinality(OpenIn(b, c))
          - Cardinality(OpenIn(a, b) \cap OpenIn(b, c))
  BY <1>1, FS_Union
<1>5. Cardinality(OpenIn(a, b) \cap OpenIn(b, c)) = 0
  BY <1>3, FS_EmptySet
<1>6. PICK k \in Nat : Cardinality(OpenIn(a, b)) = k
  BY <1>1
<1>7. PICK l \in Nat : Cardinality(OpenIn(b, c)) = l
  BY <1>1
<1>8. Cardinality(OpenIn(a, c)) = k + l
  BY <1>2, <1>4, <1>5, <1>6, <1>7
<1>9. IsFiniteSet(OpenIn(a, c)) /\ Cardinality(OpenIn(a, c)) \in Nat
  BY <1>1
<1> QED
  BY <1>2, <1>6, <1>7, <1>8, <1>9 DEF Splits

(* An open byte more.                                                      *)
LEMMA OpenNext ==
  ASSUME NEW a \in Nat, NEW x \in Nat, a <= x, Open(x)
  PROVE  /\ Cardinality(OpenIn(a, x)) \in Nat
         /\ Cardinality(OpenIn(a, x + 1)) = Cardinality(OpenIn(a, x)) + 1
<1>1. OpenIn(x, x + 1) = {x}
  BY DEF OpenIn
<1>2. Cardinality(OpenIn(x, x + 1)) = 1
  BY <1>1, FS_Singleton
<1>3. PICK y \in Nat : y = x + 1
  OBVIOUS
<1>4. /\ Cardinality(OpenIn(a, x)) \in Nat
      /\ Cardinality(OpenIn(a, y)) = Cardinality(OpenIn(a, x)) + Cardinality(OpenIn(x, y))
  <2>1. x <= y
    BY <1>3
  <2>2. Splits(a, x, y)
    BY <2>1, OpenSplit
  <2> QED
    BY <2>2 DEF Splits
<1> QED
  BY <1>2, <1>3, <1>4

(* How many bytes there are to see below e.                                *)
LEMMA FreeBelowIs ==
  ASSUME Agree, NEW e \in Nat, \A x \in Nat : x < e => Inside(x)
  PROVE  FreeBelow(e) = Cardinality(OpenIn(0, e))
<1>1. \A x \in 0..(e - 1) : Free(x) <=> Open(x)
  BY DEF Agree
<1>2. {x \in 0..(e - 1) : Free(x)} = OpenIn(0, e)
  BY <1>1 DEF OpenIn
<1> QED
  BY <1>2 DEF FreeBelow

(* The first n bytes to see from p on are the open ones up to e, if these  *)
(* are n or all there are.                                                 *)
FirstOpen(p, n, e) ==
  /\ Cardinality(OpenIn(p, e)) <= n
  /\ Cardinality(OpenIn(p, e)) = n \/ \A x \in Nat : x >= e => ~Open(x)

(* FreeFrom() then names these bytes.                                      *)
LEMMA FreeFromIs ==
  ASSUME Sound, opt.use = TRUE, Agree, NEW p \in Nat, NEW n \in Nat, NEW e \in Nat, p <= e,
         FirstOpen(p, n, e)
  PROVE  FreeFrom(p, n) = OpenIn(p, e)
<1>0. bs \in Nat \ {0} /\ nb \in Nat
  BY DEF Sound
<1>1. PICK z \in Nat : z = nb * bs /\ z = bs * nb
  BY <1>0, Distributes
<1>2. ASSUME NEW x \in Nat PROVE x < z <=> Inside(x)
  BY <1>0, <1>1, QuotientBounds DEF Inside
<1>3. ASSUME NEW x \in Nat, p <= x, Inside(x)
      PROVE  /\ Cardinality(OpenIn(p, x)) \in Nat
             /\ FreeBelow(x) - FreeBelow(p) = Cardinality(OpenIn(p, x))
  <2>1. \A y \in Nat : y < x => Inside(y)
    BY <1>3, InsideBelow
  <2>2. \A y \in Nat : y < p => Inside(y)
    BY <1>3, <2>1
  <2>3. FreeBelow(x) = Cardinality(OpenIn(0, x)) /\ FreeBelow(p) = Cardinality(OpenIn(0, p))
    BY <2>1, <2>2, FreeBelowIs
  <2>4. /\ Cardinality(OpenIn(0, p)) \in Nat /\ Cardinality(OpenIn(p, x)) \in Nat
        /\ Cardinality(OpenIn(0, x)) = Cardinality(OpenIn(0, p)) + Cardinality(OpenIn(p, x))
    <3>1. Splits(0, p, x)
      BY <1>3, OpenSplit
    <3> QED
      BY <3>1 DEF Splits
  <2> QED
    BY <2>3, <2>4
<1>4. FreeFrom(p, n) = {x \in p..(z - 1) : Free(x) /\ FreeBelow(x) - FreeBelow(p) < n}
  BY <1>1 DEF FreeFrom
<1>5. ASSUME NEW x \in OpenIn(p, e) PROVE x \in FreeFrom(p, n)
  <2>1. x \in Nat /\ p <= x /\ x < e /\ Open(x)
    BY DEF OpenIn
  <2>2. Inside(x)
    BY <2>1, OpenInside
  <2>3. x < z /\ Free(x)
    BY <1>2, <2>1, <2>2 DEF Agree
  <2>4. PICK k \in Nat : /\ Cardinality(OpenIn(p, x)) = k
                         /\ Cardinality(OpenIn(p, x + 1)) = k + 1
    BY <2>1, OpenNext
  <2>5. PICK y \in Nat : y = x + 1
    BY <2>1
  <2>6. Splits(p, y, e)
    <3>1. p <= y /\ y <= e
      BY <2>1, <2>5
    <3> QED
      BY <3>1, OpenSplit
  <2>s. PICK l \in Nat : Cardinality(OpenIn(y, e)) = l
    BY <2>6 DEF Splits
  <2>7. Cardinality(OpenIn(p, e)) = (k + 1) + l
    BY <2>4, <2>5, <2>6, <2>s DEF Splits
  <2>8. k < n
    BY <2>7 DEF FirstOpen
  <2>9. FreeBelow(x) - FreeBelow(p) < n
    BY <1>3, <2>1, <2>2, <2>4, <2>8
  <2> QED
    BY <1>4, <2>1, <2>3, <2>9
<1>6. ASSUME NEW x \in FreeFrom(p, n) PROVE x \in OpenIn(p, e)
  <2>1. /\ x \in Nat /\ p <= x /\ x < z
        /\ Free(x) /\ FreeBelow(x) - FreeBelow(p) < n
    BY <1>4
  <2>2. Inside(x) /\ Open(x)
    BY <1>2, <2>1 DEF Agree
  <2>3. Cardinality(OpenIn(p, x)) < n
    BY <1>3, <2>1, <2>2
  <2>4. ASSUME x >= e PROVE FALSE
    <3>1. Cardinality(OpenIn(p, e)) = n
      BY <2>1, <2>2, <2>4 DEF FirstOpen
    <3>2. /\ Cardinality(OpenIn(p, e)) \in Nat /\ Cardinality(OpenIn(e, x)) \in Nat
          /\ Cardinality(OpenIn(p, x)) = Cardinality(OpenIn(p, e)) + Cardinality(OpenIn(e, x))
      <4>1. Splits(p, e, x)
        BY <2>1, <2>4, OpenSplit
      <4> QED
        BY <4>1 DEF Splits
    <3> QED
      BY <2>3, <3>1, <3>2
  <2> QED
    BY <2>1, <2>2, <2>4 DEF OpenIn
<1> QED
  BY <1>5, <1>6

(* A walk in step takes the first open bytes.                              *)
LEMMA WalkFirst ==
  ASSUME opt.use = TRUE, NEW w, NEW p \in Nat, NEW n \in Nat, WalkGives(w, p, n)
  PROVE  /\ Reached(w, p) \in Nat /\ p <= Reached(w, p)
         /\ Spread(w) = OpenIn(p, Reached(w, p))
         /\ FirstOpen(p, n, Reached(w, p))
<1>1. /\ Reached(w, p) \in Nat /\ p <= Reached(w, p)
      /\ Spread(w) = {x \in p..(Reached(w, p) - 1) : Clear(x)}
  BY DEF WalkGives
<1>2. Spread(w) = OpenIn(p, Reached(w, p))
  BY <1>1 DEF OpenIn, Open
<1>3. FirstOpen(p, n, Reached(w, p))
  BY <1>2 DEF WalkGives, FirstOpen, Open
<1> QED
  BY <1>1, <1>2, <1>3

(* Reading is in step at the beginning of the file.                        *)
LEMMA BeginsInStep ==
  ASSUME Sound, NEW n
  PROVE  ReadsInStep(0, n)
<1>1. bs \in Nat \ {0} /\ bs * 0 = 0
  BY DEF Sound
<1>2. 0 % bs = 0
  BY <1>1, QuotientIs
<1> QED
  BY <1>2 DEF ReadsInStep

(* positionUseCoverageBlockmap() finds the place of a logical offset: the  *)
(* open bytes before it are as many, or all there are.                     *)
LEMMA PositionIs ==
  ASSUME Sound, opt.use = TRUE, NEW m \in Nat
  PROVE  /\ Position(m) \in Nat
         /\ FirstOpen(0, m, Position(m))
<1>0. 0 \in Nat
  OBVIOUS
<1>1. PICK w : w = Walk(0, m)
  OBVIOUS
<1>2. WalkGives(w, 0, m)
  BY <1>0, <1>1, BeginsInStep, WalkInStep
<1>3. Position(m) = Reached(w, 0)
  BY <1>1 DEF Position, Reached, Last
<1> QED
  BY <1>0, <1>2, <1>3, WalkFirst

(* The place of a byte that the run ought to see: only covered bytes lie   *)
(* between it and the byte.                                                *)
PlaceOf(x, p) == p <= x /\ \A y \in p..(x - 1) : ~Free(y)

(* positionUseCoverageBlockmap() finds that place, for every byte of the   *)
(* image that is free.                                                     *)
LEMMA PlaceIs ==
  ASSUME Geometry, opt.use = TRUE, Agree, NEW x \in Nat, x < size, Free(x)
  PROVE  PlaceOf(x, Position(FreeBelow(x)))
<1>0. Sound /\ size \in Nat
  BY DEF Geometry
<1>1. \A y \in Nat : y <= x => Inside(y)
  <2>1. Inside(x)
    BY InsideFile
  <2> QED
    BY <1>0, <2>1, InsideBelow
<1>2. Open(x)
  BY <1>1 DEF Agree
<1>3. PICK m \in Nat : m = FreeBelow(x) /\ m = Cardinality(OpenIn(0, x))
  <2>1. FreeBelow(x) = Cardinality(OpenIn(0, x))
    BY <1>1, FreeBelowIs
  <2>2. Splits(0, x, x)
    BY OpenSplit
  <2> QED
    BY <2>1, <2>2 DEF Splits
<1>4. PICK p \in Nat : p = Position(m) /\ FirstOpen(0, m, p)
  BY <1>0, PositionIs
<1>5. p <= x
  <2> SUFFICES ASSUME x < p PROVE FALSE
    OBVIOUS
  <2>1. PICK y \in Nat : y = x + 1
    OBVIOUS
  <2>2. Cardinality(OpenIn(0, y)) = m + 1
    BY <1>2, <1>3, <2>1, OpenNext
  <2>3. Splits(0, y, p)
    BY <2>1, OpenSplit
  <2>4. Cardinality(OpenIn(0, p)) >= m + 1
    BY <2>2, <2>3 DEF Splits
  <2>5. Cardinality(OpenIn(0, p)) <= m
    BY <1>4 DEF FirstOpen
  <2>6. Cardinality(OpenIn(0, p)) \in Nat
    BY <2>3 DEF Splits
  <2> QED
    BY <2>4, <2>5, <2>6
<1>6. Splits(0, p, x)
  BY <1>5, OpenSplit
<1>7. Cardinality(OpenIn(0, p)) = m
  BY <1>2, <1>4, <1>5 DEF FirstOpen
<1>8. IsFiniteSet(OpenIn(p, x)) /\ Cardinality(OpenIn(p, x)) = 0
  <2>1. Splits(p, x, x)
    BY <1>5, OpenSplit
  <2> QED
    BY <1>3, <1>6, <1>7, <2>1 DEF Splits
<1>9. OpenIn(p, x) = {}
  BY <1>8, FS_EmptySet
<1>10. ASSUME NEW y \in p..(x - 1) PROVE ~Free(y)
  <2>1. y \in Nat /\ y <= x
    BY <1>10
  <2>2. ~Open(y)
    BY <1>9 DEF OpenIn
  <2> QED
    BY <1>1, <2>1, <2>2 DEF Agree
<1> QED
  BY <1>3, <1>4, <1>5, <1>10 DEF PlaceOf

(* The bytes of a logical stretch, and the walk over them.                 *)
LEMMA FreeFromWalk ==
  ASSUME Sound, opt.use = TRUE, Agree, NEW p \in Nat, NEW n \in Nat, ReadsInStep(p, n)
  PROVE  WalkGives(Walk(p, n), p, n) /\ FreeFrom(p, n) = Spread(Walk(p, n))
<1>1. WalkGives(Walk(p, n), p, n)
  BY WalkInStep
<1>2. PICK w : w = Walk(p, n)
  OBVIOUS
<1>3. /\ Reached(w, p) \in Nat /\ p <= Reached(w, p)
      /\ Spread(w) = OpenIn(p, Reached(w, p))
      /\ FirstOpen(p, n, Reached(w, p))
  BY <1>1, <1>2, WalkFirst
<1>4. FreeFrom(p, n) = OpenIn(p, Reached(w, p))
  BY <1>3, FreeFromIs
<1> QED
  BY <1>1, <1>2, <1>3, <1>4

-----------------------------------------------------------------------------
(***************************************************************************)
(* The fragments of a carved file.                                         *)
(***************************************************************************)

(* The stretches of a carved file in ascending order.                      *)
FileWalk(f) ==
  IF opt.use THEN Walk(Position(f.start), (f.stop - f.start) + 1)
  ELSE <<[op |-> 0, start |-> f.start, length |-> f.stop - f.start + 1]>>

(* The first n stretches of w, the last one first.                         *)
Turned(w, n) == [j \in 1..n |-> w[(n - j) + 1]]

(* A queue of stretches takes a further one in front.                      *)
LEMMA AddsInFront ==
  ASSUME NEW w \in Seq(Stretch), NEW i \in 1..Len(w)
  PROVE  AddToQueue(Turned(w, i - 1), w[i]) = Turned(w, i)
<1>1. PICK n \in Nat : Len(w) = n /\ DOMAIN w = 1..n
  BY LenProperties
<1>2. PICK k \in Nat : k = i - 1 /\ i = k + 1 /\ k <= n /\ i \in Nat
  BY <1>1
<1>3. PICK q : q = Turned(w, k)
  OBVIOUS
<1>4. \A j \in 1..n : w[j] \in Stretch /\ w[j].op = 0
  <2>1. \A t \in Stretch : t.op = 0
    BY DEF Stretch
  <2>2. \A j \in 1..n : w[j] \in Stretch
    BY <1>1
  <2> QED
    BY <2>1, <2>2
<1>5. q \in Seq(Stretch) /\ Len(q) = k /\ \A j \in 1..k : q[j] = w[(k - j) + 1]
  <2>1. \A j \in 1..k : (k - j) + 1 \in 1..n
    BY <1>2
  <2>2. \A j \in 1..k : w[(k - j) + 1] \in Stretch
    BY <1>4, <2>1
  <2> QED
    BY <1>3, <2>2 DEF Turned
<1>6. w[i] \in Stretch /\ w[i].op = 0
  BY <1>1, <1>4
<1>7. Place(q, w[i].op) = 1
  <2>1. CASE k = 0
    <3>1. q = <<>>
      BY <1>5, <2>1
    <3> QED
      BY <3>1 DEF Place
  <2>2. CASE k # 0
    <3>1. 1 \in 1..k /\ (k - 1) + 1 \in 1..n
      BY <1>2, <2>2
    <3>2. q[1].op = 0
      BY <1>4, <1>5, <3>1
    <3>3. q[1].op >= w[i].op
      BY <1>6, <3>2
    <3> QED
      BY <3>3 DEF Place
  <2> QED
    BY <2>1, <2>2
<1>8. AddToQueue(q, w[i]) = (SubSeq(q, 1, 0) \o <<w[i]>>) \o SubSeq(q, 1, k)
  BY <1>5, <1>7 DEF AddToQueue, InsertAt
<1>9. SubSeq(q, 1, 0) = <<>> /\ SubSeq(q, 1, k) = q
  BY <1>5
<1>10. AddToQueue(q, w[i]) = <<w[i]>> \o q
  BY <1>5, <1>6, <1>8, <1>9
<1>11. PICK e \in Stretch : e = w[i]
  BY <1>6
<1>12. <<e>> \o q = Turned(w, i)
  <2>1. Len(<<e>> \o q) = i /\ <<e>> \o q \in Seq(Stretch)
    BY <1>2, <1>5
  <2>2. ASSUME NEW j \in 1..i PROVE (<<e>> \o q)[j] = w[(i - j) + 1]
    <3>1. CASE j = 1
      BY <1>2, <1>5, <1>11, <3>1
    <3>2. CASE j # 1
      <4>1. j - 1 \in 1..k /\ (k - (j - 1)) + 1 = (i - j) + 1
        BY <1>2, <3>2
      <4>2. (<<e>> \o q)[j] = q[j - 1]
        BY <1>2, <1>5, <3>2
      <4>3. q[j - 1] = w[(k - (j - 1)) + 1]
        BY <1>5, <4>1
      <4> QED
        BY <4>1, <4>2, <4>3
    <3> QED
      BY <3>1, <3>2
  <2>3. <<e>> \o q = [j \in 1..i |-> (<<e>> \o q)[j]]
    BY <2>1
  <2> QED
    BY <2>2, <2>3 DEF Turned
<1> QED
  BY <1>2, <1>3, <1>10, <1>11, <1>12

(* generateFragments() leaves the stretches in descending order.           *)
LEMMA FragmentsTurned ==
  ASSUME NEW f, FileWalk(f) \in Seq(Stretch)
  PROVE  Fragments(f) = Turned(FileWalk(f), Len(FileWalk(f)))
<1>1. CASE ~opt.use
  <2>1. PICK t : t = [op |-> 0, start |-> f.start, length |-> f.stop - f.start + 1]
    OBVIOUS
  <2>2. FileWalk(f) = <<t>> /\ Fragments(f) = <<t>>
    BY <1>1, <2>1 DEF FileWalk, Fragments
  <2>3. Len(<<t>>) = 1 /\ Turned(<<t>>, 1) = <<t>>
    BY DEF Turned
  <2> QED
    BY <2>2, <2>3
<1>2. CASE opt.use
  <2>1. PICK w \in Seq(Stretch) : w = FileWalk(f)
    OBVIOUS
  <2>2. PICK n \in Nat : n = Len(w)
    BY LenProperties
  <2> DEFINE Run(q) == [i \in 0..n |-> IF i = 0 THEN <<>> ELSE AddToQueue(q[i - 1], w[i])]
             h == [i \in 0..n |-> Turned(w, i)]
             g == CHOOSE q : q = Run(q)
  <2>3. Fragments(f) = g[n]
    BY <1>2, <2>1, <2>2 DEF Fragments, FileWalk
  <2>4. Turned(w, 0) = <<>>
    BY DEF Turned
  <2>5. ASSUME NEW i \in 1..n PROVE Turned(w, i) = AddToQueue(Turned(w, i - 1), w[i])
    BY <2>2, <2>5, AddsInFront
  <2>6. h = Run(h)
    <3>1. ASSUME NEW i \in 0..n PROVE h[i] = Run(h)[i]
      <4>1. CASE i = 0
        BY <2>4, <4>1
      <4>2. CASE i # 0
        <5>1. i \in 1..n /\ i - 1 \in 0..n
          BY <4>2
        <5>2. h[i] = Turned(w, i) /\ h[i - 1] = Turned(w, i - 1)
          BY <5>1
        <5> QED
          BY <2>5, <4>2, <5>1, <5>2
      <4> QED
        BY <4>1, <4>2
    <3> QED
      BY <3>1
  <2>7. g = Run(g)
    <3> HIDE DEF Run, h
    <3> QED
      BY <2>6
  <2> HIDE DEF g
  <2>8. /\ g[0] = <<>>
        /\ \A i \in 1..n : g[i] = AddToQueue(g[i - 1], w[i])
    <3>1. ASSUME NEW i \in 0..n
          PROVE  g[i] = IF i = 0 THEN <<>> ELSE AddToQueue(g[i - 1], w[i])
      BY <2>7, Zenon
    <3>2. g[0] = <<>>
      BY <3>1
    <3>3. ASSUME NEW i \in 1..n PROVE g[i] = AddToQueue(g[i - 1], w[i])
      <4>1. i \in 0..n /\ ~(i = 0)
        OBVIOUS
      <4>2. g[i] = IF i = 0 THEN <<>> ELSE AddToQueue(g[i - 1], w[i])
        BY <3>1, <4>1
      <4> QED
        BY <4>1, <4>2, Zenon
    <3> QED
      BY <3>2, <3>3
  <2> DEFINE Wrong == {i \in 0..n : g[i] # Turned(w, i)}
  <2>9. Wrong = {}
    <3> SUFFICES ASSUME Wrong # {} PROVE FALSE
      OBVIOUS
    <3>1. PICK k \in Wrong : \A j \in Wrong : k <= j
      <4>1. Wrong \in SUBSET Nat
        OBVIOUS
      <4> QED
        BY <4>1, LeastExists
    <3>2. k # 0
      BY <2>4, <2>8, <3>1
    <3>3. k \in 1..n /\ k - 1 \in 0..n /\ ~(k <= k - 1)
      BY <3>1, <3>2
    <3>4. g[k - 1] = Turned(w, k - 1)
      BY <3>1, <3>3
    <3>5. g[k] = Turned(w, k)
      BY <2>5, <2>8, <3>3, <3>4
    <3> QED
      BY <3>1, <3>5
  <2>10. n \in 0..n
    OBVIOUS
  <2> QED
    BY <2>1, <2>2, <2>3, <2>9, <2>10
<1> QED
  BY <1>1, <1>2

-----------------------------------------------------------------------------
(***************************************************************************)
(* The blocks of a carved file.                                            *)
(***************************************************************************)
FirstBlock(t) == t.start \div bs
LastBlock(t)  == (End(t) - 1) \div bs
BlocksIn(t)   == FirstBlock(t)..LastBlock(t)

(* The blocks of a stretch are those of its bytes.                         *)
LEMMA BlocksOfBytes ==
  ASSUME Sound, NEW t \in Stretch, t.length # 0
  PROVE  /\ FirstBlock(t) \in Nat /\ LastBlock(t) \in Nat /\ FirstBlock(t) <= LastBlock(t)
         /\ \A b \in BlocksIn(t) :
              \E x \in Nat : t.start <= x /\ x < End(t) /\ x \div bs = b
         /\ \A x \in Nat : t.start <= x /\ x < End(t) => x \div bs \in BlocksIn(t)
<1>0. bs \in Nat \ {0}
  BY DEF Sound
<1>1. PICK s \in Nat : t.start = s
  BY DEF Stretch
<1>2. PICK l \in Nat : t.length = l /\ l # 0
  BY DEF Stretch
<1>3. PICK e \in Nat : End(t) = e + 1 /\ s <= e
  <2>1. End(t) = s + l
    BY <1>1, <1>2 DEF End
  <2>2. (s + l) - 1 \in Nat /\ s + l = ((s + l) - 1) + 1 /\ s <= (s + l) - 1
    BY <1>2
  <2> QED
    BY <2>1, <2>2
<1>4. PICK k \in Nat : k = s \div bs
  BY <1>0, Division
<1>5. PICK m \in Nat : m = e \div bs
  BY <1>0, Division
<1>6. FirstBlock(t) = k /\ LastBlock(t) = m
  <2>1. (e + 1) - 1 = e
    OBVIOUS
  <2> QED
    BY <1>1, <1>3, <1>4, <1>5, <2>1 DEF FirstBlock, LastBlock
<1>7. ASSUME NEW x \in Nat, s <= x, x <= e PROVE x \div bs \in k..m
  <2>1. PICK c \in Nat : c = x \div bs
    BY <1>0, Division
  <2>2. k <= c
    <3>1. PICK y \in Nat : y = bs * k
      BY <1>0
    <3>2. y <= s
      BY <1>0, <1>4, <3>1, QuotientBounds
    <3>3. y <= x
      BY <1>7, <3>1, <3>2
    <3> QED
      BY <1>0, <2>1, <3>1, <3>3, QuotientBounds
  <2>3. c <= m
    <3>1. PICK y \in Nat : y = bs * c
      BY <1>0
    <3>2. y <= x
      BY <1>0, <2>1, <3>1, QuotientBounds
    <3>3. y <= e
      BY <1>7, <3>1, <3>2
    <3> QED
      BY <1>0, <1>5, <3>1, <3>3, QuotientBounds
  <2> QED
    BY <2>1, <2>2, <2>3
<1>8. k <= m
  <2>1. s \div bs \in k..m
    BY <1>3, <1>7
  <2> QED
    BY <1>4, <2>1
<1>9. ASSUME NEW b \in k..m
      PROVE  \E x \in Nat : s <= x /\ x <= e /\ x \div bs = b
  <2>1. b \in Nat
    BY <1>9
  <2>2. CASE b = k
    <3>1. s \div bs = b
      BY <1>4, <2>2
    <3> QED
      BY <1>3, <3>1
  <2>3. CASE b # k
    <3>1. PICK y \in Nat : y = bs * b
      BY <1>0, <2>1
    <3>2. y <= e
      <4>1. b <= e \div bs
        BY <1>5
      <4> QED
        BY <1>0, <2>1, <3>1, <4>1, QuotientBounds
    <3>3. s < y
      <4>1. s \div bs < b
        BY <1>4, <2>3
      <4> QED
        BY <1>0, <2>1, <3>1, <4>1, QuotientBounds
    <3>4. y \div bs = b
      <4>1. bs * b <= y /\ y < (bs * b) + bs
        BY <1>0, <3>1
      <4> QED
        BY <1>0, <2>1, <4>1, QuotientIs
    <3>5. s <= y
      BY <3>3
    <3> QED
      BY <3>2, <3>4, <3>5
  <2> QED
    BY <2>2, <2>3
<1>10. \A x \in Nat : x < e + 1 <=> x <= e
  OBVIOUS
<1>11. BlocksIn(t) = k..m
  BY <1>6 DEF BlocksIn
<1> QED
  BY <1>1, <1>3, <1>6, <1>7, <1>8, <1>9, <1>10, <1>11

(* An empty stretch at the beginning of a block has none.                  *)
LEMMA BlocksOfNothing ==
  ASSUME Sound, NEW t \in Stretch, t.length = 0, t.start % bs = 0
  PROVE  /\ FirstBlock(t) \in Nat /\ LastBlock(t) = FirstBlock(t) - 1
         /\ BlocksIn(t) = {}
<1>0. bs \in Nat \ {0}
  BY DEF Sound
<1>1. PICK s \in Nat : t.start = s
  BY DEF Stretch
<1>2. PICK k \in Nat : k = s \div bs
  BY <1>0, Division
<1>3. s = bs * k
  BY <1>0, <1>1, <1>2, Division
<1>4. End(t) = s
  BY <1>1 DEF End
<1>5. (s - 1) \div bs = k - 1
  <2>1. CASE k = 0
    <3>1. s = 0
      BY <1>0, <1>3, <2>1
    <3>2. (0 - 1) \div bs = -1
      BY <1>0
    <3> QED
      BY <2>1, <3>1, <3>2
  <2>2. CASE k # 0
    <3>1. PICK j \in Nat : j = k - 1 /\ k = j + 1
      BY <2>2
    <3>2. PICK z \in Nat : z = bs * j /\ s = z + bs
      <4>1. bs * (j + 1) = bs * j + bs /\ bs * j \in Nat
        BY <1>0, NextMultiple
      <4> QED
        BY <1>3, <3>1, <4>1
    <3>3. s - 1 \in Nat /\ z <= s - 1 /\ s - 1 < z + bs
      BY <1>0, <3>2
    <3>4. (s - 1) \div bs = j
      BY <1>0, <3>2, <3>3, QuotientIs
    <3> QED
      BY <3>1, <3>4
  <2> QED
    BY <2>1, <2>2
<1>6. FirstBlock(t) = k /\ LastBlock(t) = k - 1
  BY <1>1, <1>2, <1>4, <1>5 DEF FirstBlock, LastBlock
<1>7. k..(k - 1) = {}
  OBVIOUS
<1> QED
  BY <1>6, <1>7 DEF BlocksIn

(* The blocks of a stretch of a walk.                                      *)
StretchHas(t, b) == \E x \in Nat : t.start <= x /\ x < End(t) /\ x \div bs = b

(* The blocks audited for a stretch, from its first byte to its last, are  *)
(* those with a byte of it.                                                *)
LEMMA BlocksOfStretch ==
  ASSUME Sound, NEW t \in Stretch, NEW p, BeginsWell(t, p)
  PROVE  /\ FirstBlock(t) \in Nat /\ LastBlock(t) \in Int /\ FirstBlock(t) <= LastBlock(t) + 1
         /\ \A b : b \in BlocksIn(t) <=> StretchHas(t, b)
<1>1. CASE t.length # 0
  <2>1. /\ FirstBlock(t) \in Nat /\ LastBlock(t) \in Nat /\ FirstBlock(t) <= LastBlock(t)
        /\ \A b \in BlocksIn(t) : StretchHas(t, b)
        /\ \A x \in Nat : t.start <= x /\ x < End(t) => x \div bs \in BlocksIn(t)
    BY <1>1, BlocksOfBytes DEF StretchHas
  <2>2. \A b : b \in BlocksIn(t) <=> StretchHas(t, b)
    BY <2>1 DEF StretchHas
  <2> QED
    BY <2>1, <2>2
<1>2. CASE t.length = 0
  <2>1. t.start % bs = 0
    BY <1>2 DEF BeginsWell
  <2>2. /\ FirstBlock(t) \in Nat /\ LastBlock(t) = FirstBlock(t) - 1
        /\ BlocksIn(t) = {}
    BY <1>2, <2>1, BlocksOfNothing
  <2>3. ASSUME NEW b PROVE ~StretchHas(t, b)
    <3>1. t.start \in Nat /\ End(t) = t.start
      BY <1>2 DEF Stretch, End
    <3> QED
      BY <3>1 DEF StretchHas
  <2> QED
    BY <2>2, <2>3
<1> QED
  BY <1>1, <1>2

(* Of two stretches of a walk, the later one has the later blocks.         *)
LEMMA BlocksRise ==
  ASSUME Sound, NEW p \in Nat, NEW t \in Stretch, NEW u \in Stretch,
         BeginsWell(t, p), BeginsWell(u, p), End(t) <= u.start,
         NEW b, StretchHas(t, b), NEW c, StretchHas(u, c)
  PROVE  b \in Nat /\ c \in Nat /\ b < c
<1>0. bs \in Nat \ {0}
  BY DEF Sound
<1>1. PICK x \in Nat : t.start <= x /\ x < End(t) /\ x \div bs = b
  BY DEF StretchHas
<1>2. PICK y \in Nat : u.start <= y /\ y < End(u) /\ y \div bs = c
  BY DEF StretchHas
<1>3. PICK e \in Nat : End(t) = e
  BY DEF Stretch, End
<1>4. PICK s \in Nat : t.start = s
  BY DEF Stretch
<1>5. PICK r \in Nat : u.start = r
  BY DEF Stretch
<1>6. s <= x /\ x < r /\ r <= y
  BY <1>1, <1>2, <1>3, <1>4, <1>5
<1>7. b \in Nat /\ c \in Nat
  BY <1>0, <1>1, <1>2, Division
<1>8. p <= s
  BY <1>4 DEF BeginsWell
<1>9. r % bs = 0
  BY <1>5, <1>6, <1>8 DEF BeginsWell
<1>10. PICK k \in Nat : k = r \div bs /\ r = bs * k
  <2>1. r \div bs \in Nat
    BY <1>0, Division
  <2>2. r = (bs * (r \div bs)) + (r % bs) /\ bs * (r \div bs) \in Nat
    BY <1>0, Division
  <2>3. PICK k \in Nat : k = r \div bs
    BY <2>1
  <2>4. PICK m \in Nat : m = bs * k
    BY <1>0
  <2>5. r = m + 0
    BY <1>9, <2>2, <2>3, <2>4
  <2>6. r = m
    BY <2>5
  <2> QED
    BY <2>3, <2>4, <2>6
<1>11. b < k
  <2>1. x < bs * k
    BY <1>6, <1>10
  <2> QED
    BY <1>0, <1>1, <2>1, QuotientBounds
<1>12. k <= c
  <2>1. bs * k <= y
    BY <1>6, <1>10
  <2> QED
    BY <1>0, <1>2, <2>1, QuotientBounds
<1> QED
  BY <1>7, <1>11, <1>12

(* f puts the blocks of the stretches of q together.                       *)
BlockRun(f, q) ==
  /\ f \in [0..Len(q) -> Seq(Int)] /\ f[0] = <<>>
  /\ \A i \in 1..Len(q) : f[i] = f[i - 1] \o BlocksOf(q[i])

(* The blocks of any stretch are numbers.                                  *)
LEMMA BlocksOfType ==
  ASSUME Sound, NEW t \in Stretch
  PROVE  BlocksOf(t) \in Seq(Int)
<1>1. PICK a \in Int : a = FirstBlock(t)
  <2>1. t.start \in Nat
    BY DEF Stretch
  <2> QED
    BY <2>1, Division DEF FirstBlock, Sound
<1>2. PICK z \in Int : z = LastBlock(t)
  <2>1. End(t) - 1 \in Int /\ bs \in Nat \ {0}
    BY DEF Stretch, End, Sound
  <2>2. (End(t) - 1) \div bs \in Int
    BY <2>1
  <2> QED
    BY <2>2 DEF LastBlock
<1>3. CASE opt.update
  <2>1. BlocksOf(t) = [i \in 1..(z - a + 1) |-> a + i - 1]
    BY <1>1, <1>2, <1>3 DEF BlocksOf, FirstBlock, LastBlock
  <2>2. PICK n \in Nat : 1..(z - a + 1) = 1..n
    <3>1. CASE z - a + 1 \in Nat
      BY <3>1
    <3>2. CASE z - a + 1 \notin Nat
      <4>1. 1..(z - a + 1) = 1..0
        BY <3>2
      <4> QED
        BY <4>1
    <3> QED
      BY <3>1, <3>2
  <2>3. BlocksOf(t) = [i \in 1..n |-> a + i - 1]
    BY <2>1, <2>2
  <2> QED
    BY <2>3
<1>4. CASE ~opt.update
  BY <1>4 DEF BlocksOf
<1> QED
  BY <1>3, <1>4

(* BlocksOfAll is such a run, and every run gives the same blocks.         *)
LEMMA BlocksAre ==
  ASSUME Sound, NEW q \in Seq(Stretch)
  PROVE  \E f : BlockRun(f, q) /\ BlocksOfAll(q) = f[Len(q)]
<1>1. PICK n \in Nat : n = Len(q) /\ DOMAIN q = 1..n
  BY LenProperties
<1>2. ASSUME NEW i \in 1..n PROVE BlocksOf(q[i]) \in Seq(Int)
  <2>1. q[i] \in Stretch
    BY <1>1
  <2> QED
    BY <2>1, BlocksOfType
<1> DEFINE step == [c \in (1..n) \X Seq(Int) |-> c[2] \o BlocksOf(q[c[1]])]
           Run(g) == [i \in 0..n |-> IF i = 0 THEN <<>> ELSE g[i - 1] \o BlocksOf(q[i])]
           g == CHOOSE g : g = Run(g)
<1>3. BlocksOfAll(q) = g[n]
  BY <1>1 DEF BlocksOfAll
<1>4. step \in [(1..n) \X Seq(Int) -> Seq(Int)]
  <2>1. ASSUME NEW c \in (1..n) \X Seq(Int) PROVE c[2] \o BlocksOf(q[c[1]]) \in Seq(Int)
    <3>1. c[1] \in 1..n /\ c[2] \in Seq(Int)
      OBVIOUS
    <3>2. BlocksOf(q[c[1]]) \in Seq(Int)
      BY <1>2, <3>1
    <3> QED
      BY <3>1, <3>2, ConcatProperties
  <2> QED
    BY <2>1
<1>5. PICK f : IsRun(f, n, Seq(Int), <<>>, step)
  <2>1. <<>> \in Seq(Int)
    OBVIOUS
  <2> HIDE DEF step
  <2> QED
    BY <1>4, <2>1, Iterates
<1>6. /\ f \in [0..n -> Seq(Int)] /\ f[0] = <<>>
      /\ \A i \in 1..n : f[i] = f[i - 1] \o BlocksOf(q[i])
  <2>1. f \in [0..n -> Seq(Int)] /\ f[0] = <<>>
    BY <1>5 DEF IsRun
  <2>2. ASSUME NEW i \in 1..n PROVE f[i] = f[i - 1] \o BlocksOf(q[i])
    <3>1. f[i] = step[<<i, f[i - 1]>>]
      <4> HIDE DEF step
      <4> QED
        BY <1>5 DEF IsRun
    <3>2. f[i - 1] \in Seq(Int)
      BY <2>1
    <3>3. <<i, f[i - 1]>> \in (1..n) \X Seq(Int)
      BY <3>2
    <3> QED
      BY <3>1, <3>3
  <2> QED
    BY <2>1, <2>2
<1>7. f = Run(f)
  <2>1. ASSUME NEW i \in 0..n PROVE f[i] = Run(f)[i]
    <3>1. i = 0 \/ i \in 1..n
      OBVIOUS
    <3> QED
      BY <1>6, <3>1
  <2> QED
    BY <1>6, <2>1
<1>8. g = Run(g)
  <2> HIDE DEF Run
  <2> QED
    BY <1>7
<1> HIDE DEF g
<1>9. g[0] = <<>> /\ \A i \in 1..n : g[i] = g[i - 1] \o BlocksOf(q[i])
  <2>1. ASSUME NEW i \in 0..n PROVE g[i] = IF i = 0 THEN <<>> ELSE g[i - 1] \o BlocksOf(q[i])
    BY <1>8, Zenon
  <2>2. g[0] = <<>>
    BY <2>1
  <2>3. ASSUME NEW i \in 1..n PROVE g[i] = g[i - 1] \o BlocksOf(q[i])
    <3>1. i \in 0..n /\ ~(i = 0)
      OBVIOUS
    <3>2. g[i] = IF i = 0 THEN <<>> ELSE g[i - 1] \o BlocksOf(q[i])
      BY <2>1, <3>1
    <3> QED
      BY <3>1, <3>2, Zenon
  <2> QED
    BY <2>2, <2>3
<1> DEFINE Wrong == {i \in 0..n : g[i] # f[i]}
<1>10. Wrong = {}
  <2> SUFFICES ASSUME Wrong # {} PROVE FALSE
    OBVIOUS
  <2>1. PICK k \in Wrong : \A j \in Wrong : k <= j
    <3>1. Wrong \in SUBSET Nat
      OBVIOUS
    <3> QED
      BY <3>1, LeastExists
  <2>2. k # 0
    BY <1>6, <1>9, <2>1
  <2>3. k \in 1..n /\ k - 1 \in 0..n /\ ~(k <= k - 1)
    BY <2>1, <2>2
  <2>4. g[k - 1] = f[k - 1]
    BY <2>1, <2>3
  <2>5. f[k] = f[k - 1] \o BlocksOf(q[k]) /\ g[k] = g[k - 1] \o BlocksOf(q[k])
    BY <1>6, <1>9, <2>3
  <2> QED
    BY <2>1, <2>4, <2>5
<1>11. n \in 0..n
  OBVIOUS
<1>12. BlockRun(f, q)
  BY <1>1, <1>6 DEF BlockRun
<1> QED
  BY <1>1, <1>3, <1>10, <1>11, <1>12

(* The blocks of the first stretches come first.                           *)
LEMMA BlocksPrefix ==
  ASSUME Sound, NEW q \in Seq(Stretch), NEW f, BlockRun(f, q), NEW k \in 0..Len(q)
  PROVE  BlocksOfAll(SubSeq(q, 1, k)) = f[k]
<1>1. PICK n \in Nat : n = Len(q) /\ DOMAIN q = 1..n
  BY LenProperties
<1>2. k \in 0..n /\ k \in Nat
  BY <1>1
<1>3. PICK r : r = SubSeq(q, 1, k)
  OBVIOUS
<1>4. r \in Seq(Stretch) /\ Len(r) = k /\ \A i \in 1..k : r[i] = q[i]
  BY <1>1, <1>2, <1>3
<1>5. PICK h : BlockRun(h, r) /\ BlocksOfAll(r) = h[k]
  BY <1>4, BlocksAre
<1>6. /\ h[0] = <<>> /\ f[0] = <<>>
      /\ \A i \in 1..k : h[i] = h[i - 1] \o BlocksOf(r[i])
      /\ \A i \in 1..n : f[i] = f[i - 1] \o BlocksOf(q[i])
  BY <1>1, <1>4, <1>5 DEF BlockRun
<1> DEFINE Wrong == {i \in 0..k : h[i] # f[i]}
<1>7. Wrong = {}
  <2> SUFFICES ASSUME Wrong # {} PROVE FALSE
    OBVIOUS
  <2>1. PICK m \in Wrong : \A j \in Wrong : m <= j
    <3>1. Wrong \in SUBSET Nat
      OBVIOUS
    <3> QED
      BY <3>1, LeastExists
  <2>2. m # 0
    BY <1>6, <2>1
  <2>3. m \in 1..k /\ m \in 1..n /\ m - 1 \in 0..k /\ ~(m <= m - 1)
    BY <1>2, <2>1, <2>2
  <2>4. h[m - 1] = f[m - 1]
    BY <2>1, <2>3
  <2>5. h[m] = h[m - 1] \o BlocksOf(q[m]) /\ f[m] = f[m - 1] \o BlocksOf(q[m])
    BY <1>4, <1>6, <2>3
  <2> QED
    BY <2>1, <2>4, <2>5
<1>8. k \in 0..k
  BY <1>2
<1> QED
  BY <1>3, <1>5, <1>7, <1>8

(* More stretches do not have fewer blocks.                                *)
LEMMA BlocksGrow ==
  ASSUME Sound, NEW q \in Seq(Stretch), NEW f, BlockRun(f, q), NEW k \in 0..Len(q)
  PROVE  Len(f[k]) \in Nat /\ Len(f[Len(q)]) \in Nat /\ Len(f[k]) <= Len(f[Len(q)])
<1>1. PICK n \in Nat : n = Len(q) /\ DOMAIN q = 1..n
  BY LenProperties
<1>2. k \in 0..n /\ k \in Nat /\ k <= n
  BY <1>1
<1>3. \A i \in 0..n : f[i] \in Seq(Int) /\ Len(f[i]) \in Nat
  <2>1. \A i \in 0..n : f[i] \in Seq(Int)
    BY <1>1 DEF BlockRun
  <2> QED
    BY <2>1, LenProperties
<1>4. ASSUME NEW i \in 1..n PROVE Len(f[i - 1]) <= Len(f[i])
  <2>1. q[i] \in Stretch
    BY <1>1
  <2>2. PICK b \in Seq(Int) : b = BlocksOf(q[i])
    BY <2>1, BlocksOfType
  <2>3. PICK c \in Seq(Int) : c = f[i - 1]
    <3>1. i - 1 \in 0..n
      OBVIOUS
    <3> QED
      BY <1>3, <3>1
  <2>4. f[i] = c \o b
    BY <1>1, <2>2, <2>3 DEF BlockRun
  <2>5. Len(c \o b) = Len(c) + Len(b) /\ Len(c) \in Nat /\ Len(b) \in Nat
    BY ConcatProperties, LenProperties
  <2> QED
    BY <2>3, <2>4, <2>5
<1> DEFINE Wrong == {i \in 0..n : k <= i /\ ~(Len(f[k]) <= Len(f[i]))}
<1>5. Wrong = {}
  <2> SUFFICES ASSUME Wrong # {} PROVE FALSE
    OBVIOUS
  <2>1. PICK m \in Wrong : \A j \in Wrong : m <= j
    <3>1. Wrong \in SUBSET Nat
      OBVIOUS
    <3> QED
      BY <3>1, LeastExists
  <2>2. m # k
    BY <1>2, <1>3, <2>1
  <2>3. m \in 1..n /\ m - 1 \in 0..n /\ ~(m <= m - 1) /\ k <= m - 1
    BY <1>2, <2>1, <2>2
  <2>4. Len(f[k]) <= Len(f[m - 1])
    BY <2>1, <2>3
  <2>5. Len(f[m - 1]) <= Len(f[m])
    BY <1>4, <2>3
  <2>6. Len(f[k]) \in Nat /\ Len(f[m - 1]) \in Nat /\ Len(f[m]) \in Nat
    BY <1>2, <1>3, <2>3, <2>1
  <2> QED
    BY <2>1, <2>4, <2>5, <2>6
<1>6. n \in 0..n
  OBVIOUS
<1>7. Len(f[k]) <= Len(f[n])
  BY <1>2, <1>5, <1>6
<1> QED
  BY <1>1, <1>2, <1>3, <1>6, <1>7

(* No element of s is there twice.                                         *)
OnceEach(s) == \A i, j \in DOMAIN s : s[i] = s[j] => i = j
Names(s, b) == \E i \in DOMAIN s : s[i] = b

(* The blocks of a stretch of a walk, each once.                           *)
LEMMA BlocksOfOnce ==
  ASSUME Sound, opt.update, NEW t \in Stretch, NEW p, BeginsWell(t, p)
  PROVE  /\ OnceEach(BlocksOf(t))
         /\ \A b : Names(BlocksOf(t), b) <=> StretchHas(t, b)
<1>1. PICK a \in Nat : a = FirstBlock(t)
  BY BlocksOfStretch
<1>2. PICK z \in Int : z = LastBlock(t) /\ a <= z + 1
  BY <1>1, BlocksOfStretch
<1>3. PICK n \in Nat : n = z - a + 1 /\ a + n = z + 1
  BY <1>2
<1>4. BlocksOf(t) = [i \in 1..n |-> a + i - 1]
  BY <1>1, <1>2, <1>3 DEF BlocksOf, FirstBlock, LastBlock
<1>5. PICK s : s = BlocksOf(t)
  OBVIOUS
<1>6. DOMAIN s = 1..n /\ \A i \in 1..n : s[i] = a + i - 1
  BY <1>4, <1>5
<1>7. OnceEach(s)
  BY <1>6 DEF OnceEach
<1>8. ASSUME NEW b PROVE Names(s, b) <=> StretchHas(t, b)
  <2>1. b \in a..z <=> StretchHas(t, b)
    BY <1>1, <1>2, BlocksOfStretch DEF BlocksIn
  <2>2. ASSUME Names(s, b) PROVE b \in a..z
    <3>1. PICK i \in 1..n : s[i] = b
      BY <1>6, <2>2 DEF Names
    <3> QED
      BY <1>3, <1>6, <3>1
  <2>3. ASSUME b \in a..z PROVE Names(s, b)
    <3>1. (b - a) + 1 \in 1..n /\ a + ((b - a) + 1) - 1 = b
      BY <1>3, <2>3
    <3>2. s[(b - a) + 1] = b
      BY <1>6, <3>1
    <3> QED
      BY <1>6, <3>1, <3>2 DEF Names
  <2> QED
    BY <2>1, <2>2, <2>3
<1> QED
  BY <1>5, <1>7, <1>8

(* Two sequences that have nothing in common.                              *)
LEMMA OnceTogether ==
  ASSUME NEW s \in Seq(Int), NEW t \in Seq(Int), OnceEach(s), OnceEach(t),
         \A b : ~(Names(s, b) /\ Names(t, b))
  PROVE  /\ OnceEach(s \o t)
         /\ \A b : Names(s \o t, b) <=> Names(s, b) \/ Names(t, b)
<1>1. PICK m \in Nat : Len(s) = m /\ DOMAIN s = 1..m
  BY LenProperties
<1>2. PICK n \in Nat : Len(t) = n /\ DOMAIN t = 1..n
  BY LenProperties
<1>3. PICK r : r = s \o t
  OBVIOUS
<1>4. /\ DOMAIN r = 1..(m + n)
      /\ \A i \in 1..m : r[i] = s[i]
      /\ \A i \in 1..n : r[m + i] = t[i]
  <2>1. r \in Seq(Int) /\ Len(r) = m + n
    BY <1>1, <1>2, <1>3, ConcatProperties
  <2>2. \A i \in 1..m : r[i] = s[i]
    BY <1>1, <1>2, <1>3
  <2>3. ASSUME NEW i \in 1..n PROVE r[m + i] = t[i]
    <3>1. m + i \in 1..(m + n) /\ ~(m + i <= m) /\ (m + i) - m = i
      OBVIOUS
    <3> QED
      BY <1>1, <1>2, <1>3, <3>1
  <2> QED
    BY <2>1, <2>2, <2>3, LenProperties
<1>5. ASSUME NEW i \in 1..(m + n) PROVE i \in 1..m \/ \E k \in 1..n : i = m + k
  <2>1. CASE i <= m
    BY <2>1
  <2>2. CASE ~(i <= m)
    <3>1. i - m \in 1..n /\ i = m + (i - m)
      BY <2>2
    <3> QED
      BY <3>1
  <2> QED
    BY <2>1, <2>2
<1>6. ASSUME NEW b PROVE Names(r, b) <=> Names(s, b) \/ Names(t, b)
  <2>1. ASSUME Names(r, b) PROVE Names(s, b) \/ Names(t, b)
    <3>1. PICK i \in 1..(m + n) : r[i] = b
      BY <1>4, <2>1 DEF Names
    <3>2. CASE i \in 1..m
      BY <1>1, <1>4, <3>1, <3>2 DEF Names
    <3>3. CASE \E k \in 1..n : i = m + k
      BY <1>2, <1>4, <3>1, <3>3 DEF Names
    <3> QED
      BY <1>5, <3>2, <3>3
  <2>2. ASSUME Names(s, b) PROVE Names(r, b)
    <3>1. PICK i \in 1..m : s[i] = b
      BY <1>1, <2>2 DEF Names
    <3>2. i \in 1..(m + n) /\ r[i] = b
      BY <1>4, <3>1
    <3> QED
      BY <1>4, <3>2 DEF Names
  <2>3. ASSUME Names(t, b) PROVE Names(r, b)
    <3>1. PICK i \in 1..n : t[i] = b
      BY <1>2, <2>3 DEF Names
    <3>2. m + i \in 1..(m + n) /\ r[m + i] = b
      BY <1>4, <3>1
    <3> QED
      BY <1>4, <3>2 DEF Names
  <2> QED
    BY <2>1, <2>2, <2>3
<1>7. ASSUME NEW i \in 1..(m + n), NEW j \in 1..(m + n), r[i] = r[j] PROVE i = j
  <2>1. CASE i \in 1..m /\ j \in 1..m
    <3>1. s[i] = s[j]
      BY <1>4, <1>7, <2>1
    <3> QED
      BY <1>1, <2>1, <3>1 DEF OnceEach
  <2>2. ASSUME NEW a \in 1..m, NEW k \in 1..n, r[a] = r[m + k] PROVE FALSE
    <3>1. s[a] = t[k]
      BY <1>4, <2>2
    <3>2. Names(s, s[a]) /\ Names(t, s[a])
      BY <1>1, <1>2, <3>1 DEF Names
    <3> QED
      BY <3>2
  <2>3. ASSUME NEW k \in 1..n, NEW l \in 1..n, i = m + k, j = m + l PROVE i = j
    <3>1. t[k] = t[l]
      BY <1>4, <1>7, <2>3
    <3>2. k = l
      BY <1>2, <3>1 DEF OnceEach
    <3> QED
      BY <2>3, <3>2
  <2>4. i \in 1..m \/ \E k \in 1..n : i = m + k
    BY <1>5
  <2>5. j \in 1..m \/ \E k \in 1..n : j = m + k
    BY <1>5
  <2> QED
    BY <1>7, <2>1, <2>2, <2>3, <2>4, <2>5
<1>8. OnceEach(r)
  BY <1>4, <1>7 DEF OnceEach
<1> QED
  BY <1>3, <1>6, <1>8

(* The stretches of a walk.                                                *)
WellLaid(w, p) == Rising(w) /\ \A i \in DOMAIN w : BeginsWell(w[i], p)

Touches(S, b) == \E x \in S : x \div bs = b

(* Turned() reverses a walk of any length.                                 *)
LEMMA TurnedIs ==
  ASSUME NEW w \in Seq(Stretch), NEW n, n = Len(w), NEW q, q = Turned(w, n)
  PROVE  /\ n \in Nat /\ DOMAIN w = 1..n /\ q \in Seq(Stretch) /\ Len(q) = n /\ DOMAIN q = 1..n
         /\ \A i \in 1..n : q[i] = w[(n - i) + 1] /\ (n - i) + 1 \in 1..n /\ w[i] \in Stretch
<1>1. n \in Nat /\ DOMAIN w = 1..n
  BY LenProperties
<1>2. \A i \in 1..n : (n - i) + 1 \in 1..n
  BY <1>1
<1>3. \A i \in 1..n : w[i] \in Stretch
  BY <1>1
<1>4. \A i \in 1..n : w[(n - i) + 1] \in Stretch
  BY <1>2, <1>3
<1>5. q \in Seq(Stretch) /\ Len(q) = n /\ DOMAIN q = 1..n
  BY <1>1, <1>4 DEF Turned
<1>6. \A i \in 1..n : q[i] = w[(n - i) + 1]
  BY DEF Turned
<1> QED
  BY <1>1, <1>2, <1>3, <1>5, <1>6

(* The blocks of a file are those of its bytes, and each is there once.    *)
LEMMA FileBlocks ==
  ASSUME Sound, opt.update, NEW p \in Nat, NEW w, WellLaid(w, p),
         NEW q, q = Turned(w, Len(w))
  PROVE  /\ OnceEach(BlocksOfAll(q))
         /\ \A b : Names(BlocksOfAll(q), b) <=> Touches(Spread(w), b)
<1>0. Rising(w) /\ w \in Seq(Stretch)
  BY DEF WellLaid, Rising
<1>1. PICK n : n = Len(w)
  OBVIOUS
<1>2. /\ n \in Nat /\ DOMAIN w = 1..n /\ q \in Seq(Stretch) /\ Len(q) = n /\ DOMAIN q = 1..n
      /\ \A i \in 1..n : q[i] = w[(n - i) + 1] /\ (n - i) + 1 \in 1..n /\ w[i] \in Stretch
  BY <1>0, <1>1, TurnedIs
<1>3. PICK f : BlockRun(f, q) /\ BlocksOfAll(q) = f[n]
  BY <1>2, BlocksAre
<1>4. /\ f[0] = <<>>
      /\ \A i \in 1..n : f[i] = f[i - 1] \o BlocksOf(q[i])
      /\ \A i \in 0..n : f[i] \in Seq(Int)
  BY <1>2, <1>3 DEF BlockRun
<1>5. \A i \in 1..n : q[i] \in Stretch /\ BeginsWell(q[i], p)
  BY <1>2 DEF WellLaid
<1> DEFINE Has(i, b) == \E k \in 1..i : StretchHas(q[k], b)
           Right(i) == OnceEach(f[i]) /\ \A b : Names(f[i], b) <=> Has(i, b)
           Wrong == {i \in 0..n : ~Right(i)}
<1>6. Wrong = {}
  <2> SUFFICES ASSUME Wrong # {} PROVE FALSE
    OBVIOUS
  <2>1. PICK m \in Wrong : \A j \in Wrong : m <= j
    <3>1. Wrong \in SUBSET Nat
      OBVIOUS
    <3> QED
      BY <3>1, LeastExists
  <2>2. Right(0)
    <3>1. DOMAIN f[0] = {}
      BY <1>4
    <3>2. OnceEach(f[0])
      BY <3>1 DEF OnceEach
    <3>3. \A b : ~Names(f[0], b)
      BY <3>1 DEF Names
    <3>4. \A b : ~Has(0, b)
      OBVIOUS
    <3> QED
      BY <3>2, <3>3, <3>4
  <2>3. m # 0
    BY <2>1, <2>2
  <2>4. m \in 1..n /\ m - 1 \in 0..n /\ ~(m <= m - 1)
    BY <1>2, <2>1, <2>3
  <2>5. Right(m - 1)
    <3> HIDE DEF Right
    <3> QED
      BY <2>1, <2>4
  <2>6. PICK s \in Seq(Int) : s = f[m - 1]
    BY <1>4, <2>4
  <2>7. PICK t \in Seq(Int) : t = BlocksOf(q[m])
    BY <1>5, <2>4, BlocksOfType
  <2>8. f[m] = s \o t
    BY <1>4, <2>4, <2>6, <2>7
  <2>9. OnceEach(t) /\ \A b : Names(t, b) <=> StretchHas(q[m], b)
    BY <1>5, <2>4, <2>7, BlocksOfOnce
  <2>10. OnceEach(s) /\ \A b : Names(s, b) <=> Has(m - 1, b)
    BY <2>5, <2>6
  <2>11. ASSUME NEW b, Has(m - 1, b), StretchHas(q[m], b) PROVE FALSE
    <3>1. PICK k \in 1..(m - 1) : StretchHas(q[k], b)
      BY <2>11
    <3>2. k \in 1..n /\ (n - m) + 1 < (n - k) + 1
      BY <1>2, <2>4
    <3>3. /\ q[k] = w[(n - k) + 1] /\ q[m] = w[(n - m) + 1]
          /\ (n - k) + 1 \in 1..n /\ (n - m) + 1 \in 1..n
      BY <1>2, <2>4, <3>2
    <3>4. End(q[m]) <= q[k].start
      <4>1. PICK i \in 1..n : i = (n - m) + 1
        BY <3>3
      <4>2. PICK j \in 1..n : j = (n - k) + 1
        BY <3>3
      <4>3. q[m] = w[i] /\ q[k] = w[j] /\ i < j
        BY <3>2, <3>3, <4>1, <4>2
      <4>4. End(w[i]) <= w[j].start
        BY <1>0, <1>2, <4>3 DEF Rising
      <4> QED
        BY <4>3, <4>4
    <3>5. q[m] \in Stretch /\ q[k] \in Stretch /\ BeginsWell(q[m], p) /\ BeginsWell(q[k], p)
      BY <1>5, <2>4, <3>2
    <3>6. b \in Nat /\ b < b
      BY <2>11, <3>1, <3>4, <3>5, BlocksRise
    <3> QED
      BY <3>6
  <2>12. \A b : ~(Names(s, b) /\ Names(t, b))
    BY <2>9, <2>10, <2>11
  <2>13. OnceEach(f[m]) /\ \A b : Names(f[m], b) <=> Names(s, b) \/ Names(t, b)
    BY <2>8, <2>9, <2>10, <2>12, OnceTogether
  <2>14. ASSUME NEW b PROVE Has(m, b) <=> Has(m - 1, b) \/ StretchHas(q[m], b)
    <3>1. \A k \in 1..m : k \in 1..(m - 1) \/ k = m
      BY <1>2, <2>4
    <3>2. m \in 1..m /\ \A k \in 1..(m - 1) : k \in 1..m
      BY <1>2, <2>4
    <3> QED
      BY <3>1, <3>2
  <2>15. Right(m)
    <3> HIDE DEF Has
    <3> QED
      BY <2>9, <2>10, <2>13, <2>14
  <2> QED
    BY <2>1, <2>15
<1>7. n \in 0..n
  BY <1>2
<1>8. Right(n)
  BY <1>6, <1>7
<1>9. ASSUME NEW b PROVE Has(n, b) <=> Touches(Spread(w), b)
  <2>1. ASSUME Has(n, b) PROVE Touches(Spread(w), b)
    <3>1. PICK k \in 1..n : StretchHas(q[k], b)
      BY <2>1
    <3>2. PICK i \in 1..n : q[k] = w[i]
      BY <1>2
    <3>3. PICK x \in Nat : w[i].start <= x /\ x < End(w[i]) /\ x \div bs = b
      BY <3>1, <3>2 DEF StretchHas
    <3>4. x \in Spread(w)
      BY <1>2, <3>3 DEF Spread
    <3> QED
      BY <3>3, <3>4 DEF Touches
  <2>2. ASSUME Touches(Spread(w), b) PROVE Has(n, b)
    <3>1. PICK x \in Spread(w) : x \div bs = b
      BY <2>2 DEF Touches
    <3>2. PICK i \in 1..n : x \in Nat /\ w[i].start <= x /\ x < End(w[i])
      BY <1>2, <3>1 DEF Spread
    <3>3. StretchHas(w[i], b)
      BY <3>1, <3>2 DEF StretchHas
    <3>4. PICK k \in 1..n : k = (n - i) + 1 /\ (n - k) + 1 = i
      BY <1>2
    <3>5. q[k] = w[i]
      BY <1>2, <3>4
    <3> QED
      BY <3>3, <3>5
  <2> QED
    BY <2>1, <2>2
<1> QED
  BY <1>3, <1>8, <1>9

(* The stretches of a carved file, in step or not.                         *)
LEMMA FileWalkType ==
  ASSUME Sound, opt.use \in BOOLEAN, NEW f \in Files
  PROVE  /\ FileWalk(f) \in Seq(Stretch) /\ Position(f.start) \in Nat
         /\ (f.stop - f.start) + 1 \in Nat \ {0}
         /\ ~opt.use => Position(f.start) = f.start
<1>1. f.start \in Nat /\ f.stop \in Nat /\ f.start <= f.stop
  BY CoverageAssumption
<1>2. PICK n \in Nat \ {0} : n = (f.stop - f.start) + 1 /\ n = f.stop - f.start + 1
  BY <1>1
<1>3. CASE opt.use = TRUE
  <2>1. Position(f.start) \in Nat
    BY <1>1, <1>3, PositionIs
  <2>2. Walk(Position(f.start), n) \in Seq(Stretch)
    BY <2>1, WalkType
  <2> QED
    BY <1>2, <1>3, <2>1, <2>2 DEF FileWalk
<1>4. CASE opt.use = FALSE
  <2>1. Position(f.start) = f.start
    BY <1>4 DEF Position
  <2>2. [op |-> 0, start |-> f.start, length |-> n] \in Stretch
    BY <1>1 DEF Stretch
  <2>3. FileWalk(f) = <<[op |-> 0, start |-> f.start, length |-> n]>>
    BY <1>2, <1>4 DEF FileWalk
  <2> QED
    BY <1>1, <1>2, <2>1, <2>2, <2>3
<1> QED
  BY <1>3, <1>4

(* The stretches of a file that is recorded in step are its bytes.         *)
FileGives(w, p, n) ==
  /\ WellLaid(w, p) /\ Spread(w) = FreeFrom(p, n)
  /\ opt.use => \A x \in Spread(w) : x \div bs < nb
  /\ ~opt.use => Len(w) = 1

(* generateFragments() finds these stretches when the file begins in step. *)
LEMMA FileInStep ==
  ASSUME Sound, opt.use \in BOOLEAN, Agree, NEW f \in Files,
         ReadsInStep(Position(f.start), f.stop - f.start + 1)
  PROVE  FileGives(FileWalk(f), Position(f.start), f.stop - f.start + 1)
<1>1. f.start \in Nat /\ f.stop \in Nat /\ f.start <= f.stop
  BY CoverageAssumption
<1>2. PICK n \in Nat \ {0} : n = (f.stop - f.start) + 1 /\ n = f.stop - f.start + 1
  BY <1>1
<1>3. PICK p \in Nat : p = Position(f.start) /\ (~opt.use => p = f.start)
  BY FileWalkType
<1>4. ReadsInStep(p, n)
  BY <1>2, <1>3
<1>5. CASE opt.use = TRUE
  <2>1. PICK w : w = FileWalk(f) /\ w = Walk(p, n)
    BY <1>2, <1>3, <1>5 DEF FileWalk
  <2>2. WalkGives(w, p, n) /\ FreeFrom(p, n) = Spread(w)
    BY <1>4, <1>5, <2>1, FreeFromWalk
  <2>3. \A x \in Spread(w) : x \div bs < nb
    BY <2>2 DEF WalkGives, Clear
  <2>4. WellLaid(w, p)
    BY <2>2 DEF WalkGives, WellLaid
  <2> QED
    BY <1>2, <1>3, <1>5, <2>1, <2>2, <2>3, <2>4 DEF FileGives
<1>6. CASE opt.use = FALSE
  <2>1. PICK t : t = [op |-> 0, start |-> p, length |-> n]
    OBVIOUS
  <2>2. PICK w : w = <<t>>
    OBVIOUS
  <2>3. FileWalk(f) = w
    BY <1>2, <1>3, <1>6, <2>1, <2>2 DEF FileWalk
  <2>4. t \in Stretch /\ t.start = p /\ t.length = n /\ End(t) = p + n
    BY <2>1 DEF Stretch, End
  <2>5. w \in Seq(Stretch) /\ DOMAIN w = {1} /\ Len(w) = 1 /\ w[1] = t
    BY <2>2, <2>4
  <2>6. Rising(w)
    BY <2>5 DEF Rising
  <2>7. BeginsWell(t, p)
    BY <2>4 DEF BeginsWell
  <2>8. WellLaid(w, p)
    BY <2>5, <2>6, <2>7 DEF WellLaid
  <2>9. Spread(w) = {x \in Nat : p <= x /\ x < p + n}
    BY <2>4, <2>5 DEF Spread
  <2>10. {x \in Nat : p <= x /\ x < p + n} = p..((p + n) - 1)
    OBVIOUS
  <2>11. Spread(w) = FreeFrom(p, n)
    BY <1>6, <2>9, <2>10 DEF FreeFrom
  <2> QED
    BY <1>2, <1>3, <1>6, <2>3, <2>5, <2>8, <2>11 DEF FileGives
<1> QED
  BY <1>5, <1>6

(* The lines that are written of a file when no update fails.              *)
Logged(q, n) == {i \in DOMAIN q : Len(BlocksOfAll(SubSeq(q, 1, i - 1))) <= n}

(* If no update fails, or there is one stretch only, every line is         *)
(* written.                                                                *)
LEMMA AllLogged ==
  ASSUME Sound, NEW q \in Seq(Stretch), NEW n \in Nat,
         n = Len(BlocksOfAll(q)) \/ Len(q) = 1
  PROVE  SubSeq(q, 1, Cardinality(Logged(q, n))) = q
<1>1. PICK k \in Nat : k = Len(q) /\ DOMAIN q = 1..k
  BY LenProperties
<1>2. PICK f : BlockRun(f, q) /\ BlocksOfAll(q) = f[k]
  BY <1>1, BlocksAre
<1>3. ASSUME NEW i \in 1..k PROVE Len(BlocksOfAll(SubSeq(q, 1, i - 1))) <= n
  <2>1. PICK j \in Nat : j = i - 1 /\ j \in 0..Len(q)
    BY <1>1
  <2>2. BlocksOfAll(SubSeq(q, 1, j)) = f[j]
    BY <1>2, <2>1, BlocksPrefix
  <2>3. CASE n = Len(BlocksOfAll(q))
    <3>1. Len(f[j]) <= Len(f[Len(q)])
      BY <1>2, <2>1, BlocksGrow
    <3> QED
      BY <1>1, <1>2, <2>1, <2>2, <2>3, <3>1
  <2>4. CASE Len(q) = 1
    <3>1. j = 0
      BY <1>1, <2>1, <2>4
    <3>2. f[0] = <<>>
      BY <1>2 DEF BlockRun
    <3>3. Len(f[j]) = 0
      BY <3>1, <3>2
    <3> QED
      BY <2>1, <2>2, <3>3
  <2> QED
    BY <2>3, <2>4
<1>4. Logged(q, n) = 1..k
  BY <1>1, <1>3 DEF Logged
<1>5. Cardinality(1..k) = k
  <2>1. Cardinality(1..k) = IF 1 > k THEN 0 ELSE (k - 1) + 1
    BY FS_Interval
  <2> QED
    BY <2>1
<1> QED
  BY <1>1, <1>4, <1>5

(* Turned around twice.                                                    *)
LEMMA TurnedBack ==
  ASSUME NEW w \in Seq(Stretch)
  PROVE  Reverse(Turned(w, Len(w))) = w
<1>1. PICK n : n = Len(w)
  OBVIOUS
<1>2. PICK q : q = Turned(w, n)
  OBVIOUS
<1>3. /\ n \in Nat /\ DOMAIN w = 1..n /\ Len(q) = n
      /\ \A i \in 1..n : q[i] = w[(n - i) + 1] /\ (n - i) + 1 \in 1..n
  BY <1>1, <1>2, TurnedIs
<1>4. Reverse(q) = [i \in 1..n |-> q[(n - i) + 1]]
  BY <1>3 DEF Reverse
<1>5. ASSUME NEW i \in 1..n PROVE q[(n - i) + 1] = w[i]
  <2>1. PICK j \in 1..n : j = (n - i) + 1 /\ (n - j) + 1 = i
    BY <1>3
  <2> QED
    BY <1>3, <2>1
<1>6. w = [i \in 1..n |-> w[i]]
  BY <1>3
<1> QED
  BY <1>1, <1>2, <1>4, <1>5, <1>6

(* How often the blocks that were done name a block.                       *)
CountsIn(d, b) == Cardinality({j \in DOMAIN d : d[j] = b})

(* Of blocks named once each, one that is among those done is counted      *)
(* once, and one that is named nowhere not at all.                         *)
LEMMA CountsOnce ==
  ASSUME NEW s \in Seq(Int), OnceEach(s), NEW n \in 0..Len(s),
         NEW b \in Int, \A i \in (n + 1)..Len(s) : s[i] # b
  PROVE  /\ Names(s, b) => CountsIn(SubSeq(s, 1, n), b) = 1
         /\ ~Names(s, b) => CountsIn(SubSeq(s, 1, n), b) = 0
<1>1. PICK k \in Nat : k = Len(s) /\ DOMAIN s = 1..k
  BY LenProperties
<1>2. n \in Nat /\ n <= k
  BY <1>1
<1>3. PICK d : d = SubSeq(s, 1, n)
  OBVIOUS
<1>4. DOMAIN d = 1..n /\ \A i \in 1..n : d[i] = s[i]
  BY <1>1, <1>2, <1>3
<1>5. CASE ~Names(s, b)
  <2>1. {j \in DOMAIN d : d[j] = b} = {}
    BY <1>1, <1>2, <1>4, <1>5 DEF Names
  <2> QED
    BY <1>3, <1>5, <2>1, FS_EmptySet DEF CountsIn
<1>6. CASE Names(s, b)
  <2>1. PICK i \in 1..k : s[i] = b
    BY <1>1, <1>6 DEF Names
  <2>2. i \in 1..n
    <3>1. i \notin (n + 1)..k
      BY <1>1, <2>1
    <3> QED
      BY <1>2, <3>1
  <2>3. {j \in DOMAIN d : d[j] = b} = {i}
    <3>1. ASSUME NEW j \in 1..n, d[j] = b PROVE j = i
      BY <1>1, <1>2, <1>4, <2>1, <3>1 DEF OnceEach
    <3> QED
      BY <1>4, <2>1, <2>2, <3>1
  <2> QED
    BY <1>3, <1>6, <2>3, FS_Singleton DEF CountsIn
<1> QED
  BY <1>5, <1>6

-----------------------------------------------------------------------------
(***************************************************************************)
(* Pass 1.                                                                 *)
(***************************************************************************)

(* Pass 1 has seen every open byte below p and in the overlap that follows *)
(* it, and the overlap lies in the file and is open.                       *)
SeenAt(p, S) ==
  /\ \A x \in Nat : x < p + opt.overlap /\ Open(x) /\ x < size => x \in S
  /\ \A x \in Nat : p <= x /\ x < p + opt.overlap => Open(x) /\ x < size

(* A list in a stretch is not longer than the stretch.                     *)
LEMMA ListInStretch ==
  ASSUME NEW r \in Seq(Nat), NEW p \in Nat, NEW a \in Nat, p <= a,
         NEW L \in SUBSET (p..(a - 1)), Lists(r, L)
  PROVE  /\ Len(r) \in Nat /\ Len(r) <= a - p
         /\ IsFiniteSet(L) /\ Cardinality(L) = Len(r)
<1>1. Len(r) \in Nat
  BY LenProperties
<1>2. L \in SUBSET Nat
  OBVIOUS
<1>3. IsFiniteSet(L) /\ Cardinality(L) = Len(r)
  BY <1>2, ListsCount
<1>4. PICK d \in Int : d = a - 1
  OBVIOUS
<1>5. IsFiniteSet(p..d) /\ Cardinality(p..d) = IF p > d THEN 0 ELSE (d - p) + 1
  BY FS_Interval
<1>6. Cardinality(L) <= Cardinality(p..d)
  BY <1>4, <1>5, FS_Subset
<1>7. Cardinality(p..d) = a - p
  BY <1>4, <1>5
<1> QED
  BY <1>1, <1>3, <1>6, <1>7

(* A chunk that is read, placed and left in step moves the file on, and    *)
(* leaves nothing out.                                                     *)
ChunkGives(p, q, S) == q \in Nat /\ q > p /\ SeenAt(q, S)
SeenWith(S, r) == S \cup {r[i] : i \in DOMAIN r}

(* A chunk of pass 1 does so: the step back lands overlap open bytes       *)
(* before the end of the chunk, never at its beginning.                    *)
LEMMA ChunkInStep ==
  ASSUME Geometry, NEW o \in Nat, opt.overlap = o,
         NEW p \in Nat, NEW r, r = Read(p), NEW a, a = AfterRead(p), Len(r) > o,
         ReadsInStep(p, BufSize), TellsInStep(a), BackInStep(a, o),
         NEW S, p = 0 \/ SeenAt(p, S)
  PROVE  ChunkGives(p, Seek(a, 0 - o), SeenWith(S, r))
<1>0. Sound /\ size \in Nat /\ opt.use \in BOOLEAN
  BY DEF Geometry
<1>1. ReadGives(r, a, p)
  BY ReadInStep
<1>2. r \in Seq(Nat) /\ a \in Nat /\ p <= a
  BY <1>1 DEF ReadGives
<1> DEFINE L == {x \in p..(a - 1) : Open(x) /\ x < size}
<1>3. Lists(r, L) /\ L \in SUBSET (p..(a - 1))
  BY <1>1 DEF ReadGives
<1>4. L = {r[i] : i \in DOMAIN r}
  BY <1>3 DEF Lists
<1>5. Len(r) \in Nat /\ Len(r) <= a - p
  <2> HIDE DEF L
  <2> QED
    BY <1>2, <1>3, ListInStretch
<1>6. o < a - p /\ o <= a
  BY <1>2, <1>5
<1>7. Open(a)
  <2>1. ASSUME opt.use PROVE Clear(a)
    <3>1. a \div bs < nb /\ ~Covered(a \div bs)
      BY <2>1 DEF TellsInStep
    <3>2. a \div bs \in Nat /\ bitmap \in [0..(nb - 1) -> BOOLEAN] /\ nb \in Nat
      BY <1>0, <1>2, Division DEF Sound
    <3>3. Covered(a \div bs) \in BOOLEAN
      <4>1. a \div bs \in 0..(nb - 1)
        BY <3>1, <3>2
      <4> QED
        BY <3>2, <4>1 DEF Covered
    <3> QED
      BY <3>1, <3>3 DEF Clear
  <2> QED
    BY <2>1 DEF Open
<1>8. a <= size
  <2>1. r # <<>>
    BY <1>5
  <2> QED
    BY <1>1, <1>7, <2>1 DEF ReadGives
<1>9. GoesBack(Seek(a, 0 - o), a, o)
  BY <1>2, <1>6, BackSteps
<1>10. PICK q : q = Seek(a, 0 - o)
  OBVIOUS
<1>11. q \in Nat /\ q + o = a /\ q > p /\ \A x \in q..(a - 1) : Open(x)
  BY <1>2, <1>6, <1>9, <1>10 DEF GoesBack
<1>12. ASSUME NEW x \in Nat, x < a, Open(x), x < size PROVE x \in S \cup L
  <2>1. CASE x >= p
    BY <1>2, <1>12, <2>1
  <2>2. CASE x < p
    <3>1. SeenAt(p, S) /\ x < p + o
      BY <2>2
    <3> QED
      BY <1>12, <3>1 DEF SeenAt
  <2> QED
    BY <2>1, <2>2
<1>13. ASSUME NEW x \in Nat, q <= x, x < a PROVE Open(x) /\ x < size
  <2>1. x \in q..(a - 1)
    BY <1>2, <1>11, <1>13
  <2> QED
    BY <1>0, <1>2, <1>8, <1>11, <1>13, <2>1
<1>14. SeenAt(q, S \cup L)
  <2> HIDE DEF L
  <2> QED
    BY <1>11, <1>12, <1>13 DEF SeenAt
<1> QED
  BY <1>4, <1>10, <1>11, <1>14 DEF ChunkGives, SeenWith

(* When a read brings no more than the overlap, everything has been seen,  *)
(* unless the whole image has no more.                                     *)
LEMMA EndsInStep ==
  ASSUME Geometry, Agree, NEW o \in Nat, opt.overlap = o, o < BufSize,
         NEW p \in Nat, ReadsInStep(p, BufSize), Len(Read(p)) <= o,
         FreeBelow(size) > o, NEW S, p = 0 \/ SeenAt(p, S),
         NEW x \in Nat, x < size, Free(x)
  PROVE  x \in S
<1>0. size \in Nat /\ BufSize \in Nat
  BY CoverageAssumption DEF Geometry
<1>1. PICK r : r = Read(p)
  OBVIOUS
<1>2. PICK a : a = AfterRead(p)
  OBVIOUS
<1>3. ReadGives(r, a, p)
  BY <1>1, <1>2, ReadInStep
<1>4. r \in Seq(Nat) /\ a \in Nat /\ p <= a
  BY <1>3 DEF ReadGives
<1> DEFINE L == {y \in p..(a - 1) : Open(y) /\ y < size}
<1>5. Lists(r, L) /\ L \in SUBSET (p..(a - 1))
  BY <1>3 DEF ReadGives
<1>6. Len(r) \in Nat /\ Len(r) <= o /\ IsFiniteSet(L) /\ Cardinality(L) = Len(r)
  <2> HIDE DEF L
  <2> QED
    BY <1>1, <1>4, <1>5, ListInStretch
<1>7. \A y \in Nat : y >= a /\ y < size => ~Open(y)
  <2>1. Len(r) # BufSize
    BY <1>0, <1>6
  <2> QED
    BY <1>3, <2>1 DEF ReadGives
<1>8. \A y \in Nat : y < size => Inside(y)
  BY InsideFile
<1>9. Open(x)
  BY <1>8 DEF Agree
<1>10. x < a
  BY <1>4, <1>7, <1>9
<1>11. CASE p = 0
  <2>1. OpenIn(0, size) \in SUBSET L
    <3>1. ASSUME NEW y \in OpenIn(0, size) PROVE y \in L
      <4>1. y \in Nat /\ y < size /\ Open(y)
        BY <1>0 DEF OpenIn
      <4>2. y < a
        BY <1>4, <1>7, <4>1
      <4> QED
        BY <1>4, <1>11, <4>1, <4>2
    <3> QED
      BY <3>1
  <2>2. Cardinality(OpenIn(0, size)) <= Cardinality(L) /\ IsFiniteSet(OpenIn(0, size))
    BY <1>6, <2>1, FS_Subset
  <2>3. FreeBelow(size) = Cardinality(OpenIn(0, size))
    BY <1>0, <1>8, FreeBelowIs
  <2>4. Cardinality(OpenIn(0, size)) \in Nat
    BY <2>2, FS_CardinalityType
  <2> HIDE DEF L
  <2> QED
    BY <1>6, <2>2, <2>3, <2>4
<1>12. CASE SeenAt(p, S)
  <2>1. p + o <= a
    <3> SUFFICES ASSUME ~(p + o <= a) PROVE FALSE
      OBVIOUS
    <3>1. p <= a /\ a < p + o
      BY <1>4
    <3>2. Open(a) /\ a < size
      BY <1>4, <1>12, <3>1 DEF SeenAt
    <3> QED
      BY <1>4, <1>7, <3>2
  <2> DEFINE W == p..((p + o) - 1)
  <2>2. W \in SUBSET L
    <3>1. ASSUME NEW y \in W PROVE y \in L
      <4>1. y \in Nat /\ p <= y /\ y < p + o
        OBVIOUS
      <4>2. Open(y) /\ y < size
        BY <1>12, <4>1 DEF SeenAt
      <4> QED
        BY <1>4, <2>1, <4>1, <4>2
    <3> QED
      BY <3>1
  <2>3. Cardinality(W) = o
    <3>1. PICK d \in Int : d = (p + o) - 1
      OBVIOUS
    <3>2. Cardinality(p..d) = IF p > d THEN 0 ELSE (d - p) + 1
      BY FS_Interval
    <3> QED
      BY <3>1, <3>2
  <2>4. W = L
    <3> HIDE DEF W, L
    <3>1. Cardinality(W) <= Cardinality(L) /\ (Cardinality(L) = Cardinality(W) => L = W)
      BY <1>6, <2>2, FS_Subset
    <3> QED
      BY <1>6, <2>3, <3>1
  <2>5. x < p + o
    <3>1. CASE x < p
      BY <3>1
    <3>2. CASE x >= p
      <4>1. x \in L
        BY <1>4, <1>9, <1>10, <3>2
      <4>2. x \in p..((p + o) - 1)
        BY <2>4, <4>1
      <4> QED
        BY <4>2
    <3> QED
      BY <3>1, <3>2
  <2> QED
    BY <1>9, <1>12, <2>5 DEF SeenAt
<1> QED
  BY <1>11, <1>12

-----------------------------------------------------------------------------
(***************************************************************************)
(* The invariant of the layer.  In a run the bitmap covers the blocks that *)
(* the blockmap counted, and, unless a bit was never cleared, no others.   *)
(***************************************************************************)
InRun      == pc \in Passes \cup {"done"}
MapWell(m) == m \in Seq(Nat) /\ (m # <<>> => m[1] > 0)
ChunkType  == [bytes : Seq(Nat), begin : Int, meant : Int]
GhostType  == [marked : SUBSET Nat, covers : [0..(nb - 1) -> Nat], seen : SUBSET Nat,
               astray : BOOLEAN, missed : BOOLEAN]

TypesOK ==
  /\ size \in Nat \ {0} /\ opt \in Options
  /\ map = NoFile \/ MapWell(map)
  /\ Sound /\ filepos \in Nat /\ audits \in Nat
  /\ chunk \in ChunkType /\ ghost \in GhostType

FreshOK ==
  /\ pc = "setup" => /\ filepos = 0 /\ chunk = NoChunk /\ ghost = NoGhost
                     /\ bs = 1 /\ nb = 0 /\ bitmap = <<>>
  /\ pc \in {"setup", "dig"} => audits = 0 /\ ~ghost.missed

LayerOK ==
  InRun =>
    /\ opt.use => nb = Ceil(size, bs)
    /\ opt.update => MapWell(map)
    /\ ghost.marked \subseteq 0..(nb - 1)
    /\ opt.use => \A b \in ghost.marked : Covered(b) = TRUE
    /\ opt.use /\ ~ghost.astray => \A b \in 0..(nb - 1) : Covered(b) = TRUE => b \in ghost.marked

LayerInv == TypesOK /\ FreshOK /\ LayerOK

(* The first run begins with nothing set up.                               *)
LEMMA LayerInit ==
  ASSUME Init
  PROVE  LayerInv
<1>1. size \in Nat \ {0} /\ opt \in Options /\ (map = NoFile \/ MapWell(map))
  BY CoverageAssumption DEF Init, MapWell
<1>2. Sound
  <2>1. <<>> \in [0..(0 - 1) -> BOOLEAN]
    OBVIOUS
  <2> QED
    BY <2>1 DEF Init, Sound
<1>3. chunk \in ChunkType
  BY DEF Init, NoChunk, ChunkType
<1>4. ghost \in GhostType
  <2>1. <<>> \in [0..(0 - 1) -> Nat]
    OBVIOUS
  <2> QED
    BY <2>1 DEF Init, NoGhost, GhostType
<1>5. FreshOK
  BY DEF Init, FreshOK, NoGhost
<1>6. LayerOK
  BY DEF Init, LayerOK, InRun, Passes
<1>7. filepos \in Nat /\ audits \in Nat
  BY DEF Init
<1> QED
  BY <1>1, <1>2, <1>3, <1>4, <1>5, <1>6, <1>7 DEF LayerInv, TypesOK

(* In a pass, with its options and the bitmap as they are.                 *)
PassGoesOn ==
  /\ pc \in Passes /\ pc' \in Passes \cup Ended
  /\ UNCHANGED <<size, opt, bs, nb, bitmap>>
  /\ map' = NoFile \/ MapWell(map')
  /\ opt.update => MapWell(map')
  /\ filepos' \in Nat /\ audits' \in Nat /\ chunk' \in ChunkType
  /\ ghost' \in GhostType /\ ghost'.marked = ghost.marked
  /\ ~ghost'.astray => \/ ~ghost.astray
                       \/ \A b \in 0..(nb - 1) : Covered(b) = TRUE => b \in ghost.marked
  /\ pc' = "dig" => audits' = 0 /\ ~ghost'.missed

(* Such a step keeps the invariant of the layer.                           *)
LEMMA LayerGoesOn ==
  ASSUME LayerInv, PassGoesOn
  PROVE  LayerInv'
<1>1. UNCHANGED <<size, opt, bs, nb, bitmap>>
  BY DEF PassGoesOn
<1>2. TypesOK'
  <2>1. Sound'
    BY <1>1 DEF LayerInv, TypesOK, Sound
  <2>2. ghost' \in GhostType'
    BY <1>1 DEF PassGoesOn, GhostType
  <2>3. map' = NoFile \/ MapWell(map)'
    BY DEF PassGoesOn, MapWell
  <2>4. chunk' \in ChunkType'
    BY DEF PassGoesOn, ChunkType
  <2> QED
    BY <1>1, <2>1, <2>2, <2>3, <2>4 DEF LayerInv, TypesOK, PassGoesOn
<1>3. pc' # "setup" /\ InRun
  BY DEF PassGoesOn, Passes, Ended, InRun
<1>4. FreshOK'
  BY <1>3 DEF PassGoesOn, FreshOK
<1>5. LayerOK'
  <2>1. /\ opt.use => nb = Ceil(size, bs)
        /\ ghost.marked \subseteq 0..(nb - 1)
        /\ opt.use => \A b \in ghost.marked : Covered(b) = TRUE
        /\ opt.use /\ ~ghost.astray
             => \A b \in 0..(nb - 1) : Covered(b) = TRUE => b \in ghost.marked
    BY <1>3 DEF LayerInv, LayerOK
  <2>2. ghost'.marked = ghost.marked
    BY DEF PassGoesOn
  <2>3. (opt.use => nb = Ceil(size, bs))'
    BY <1>1, <2>1 DEF Ceil
  <2>4. (ghost.marked \subseteq 0..(nb - 1))'
    BY <1>1, <2>1, <2>2
  <2>5. (opt.use => \A b \in ghost.marked : Covered(b) = TRUE)'
    BY <1>1, <2>1, <2>2 DEF Covered
  <2>6. opt.use /\ ~ghost'.astray
          => \A b \in 0..(nb - 1) : Covered(b) = TRUE => b \in ghost.marked
    BY <2>1 DEF PassGoesOn
  <2>7. (opt.use /\ ~ghost.astray
          => \A b \in 0..(nb - 1) : Covered(b) = TRUE => b \in ghost.marked)'
    BY <1>1, <2>2, <2>6 DEF Covered
  <2>8. (opt.update => MapWell(map))'
    BY <1>1 DEF PassGoesOn
  <2> QED
    BY <2>3, <2>4, <2>5, <2>7, <2>8 DEF LayerOK
<1> QED
  BY <1>2, <1>4, <1>5 DEF LayerInv

(* The options of a run.                                                   *)
LEMMA OptionsAre ==
  ASSUME LayerInv
  PROVE  /\ opt.use \in BOOLEAN /\ opt.update \in BOOLEAN /\ opt.blocksize \in Nat \ {0}
         /\ opt.overlap \in Nat /\ opt.overlap < BufSize /\ BufSize \in Nat \ {0}
         /\ ghost \in GhostType /\ Sound /\ filepos \in Nat
<1>1. opt \in Options /\ ghost \in GhostType /\ Sound /\ filepos \in Nat
  BY DEF LayerInv, TypesOK
<1>2. BufSize \in Nat \ {0} /\ opt.overlap \in 0..(BufSize - 1)
  BY <1>1, CoverageAssumption
<1> QED
  BY <1>1, <1>2, CoverageAssumption

(* In a run the geometry of image and bitmap agree.                        *)
LEMMA GeometryIs ==
  ASSUME LayerInv, InRun
  PROVE  Geometry
<1>1. opt.use \in BOOLEAN
  BY OptionsAre
<1> QED
  BY <1>1 DEF LayerInv, TypesOK, LayerOK, Geometry

(* A pass goes on when nothing but these is changed.                       *)
LEMMA PassKeeps ==
  ASSUME LayerInv, pc \in Passes, pc' \in Passes \cup Ended,
         UNCHANGED <<size, opt, map, bs, nb, bitmap>>,
         filepos' \in Nat, audits' \in Nat, chunk' \in ChunkType,
         ghost' \in GhostType, ghost'.marked = ghost.marked,
         ~ghost'.astray => \/ ~ghost.astray
                           \/ \A b \in 0..(nb - 1) : Covered(b) = TRUE => b \in ghost.marked,
         pc' = "dig" => audits' = 0 /\ ~ghost'.missed
  PROVE  LayerInv'
<1>1. InRun
  BY DEF InRun
<1>2. map = NoFile \/ MapWell(map)
  BY DEF LayerInv, TypesOK
<1>3. opt.update => MapWell(map)
  BY <1>1 DEF LayerInv, LayerOK
<1>4. PassGoesOn
  BY <1>2, <1>3 DEF PassGoesOn
<1> QED
  BY <1>4, LayerGoesOn

(* A chunk of pass 1.                                                      *)
LEMMA LayerDigChunk ==
  ASSUME LayerInv, DigChunk
  PROVE  LayerInv'
<1>1. pc = "dig" /\ pc' = "dig" /\ pc \in Passes /\ pc' \in Passes \cup Ended /\ InRun
  BY DEF DigChunk, Passes, InRun
<1>2. Geometry /\ Sound
  BY <1>1, GeometryIs DEF Geometry
<1>3. filepos \in Nat /\ opt.overlap \in Nat /\ ghost \in GhostType
  BY OptionsAre
<1>4. PICK bytes \in Seq(Nat) : bytes = Read(filepos)
  BY <1>2, <1>3, ReadType
<1>5. PICK after \in Nat : after = AfterRead(filepos)
  BY <1>2, <1>3, ReadType
<1>6. filepos' \in Nat
  <2>1. 0 - opt.overlap \in Int
    BY <1>3
  <2>2. Seek(after, 0 - opt.overlap) \in Nat
    BY <1>2, <2>1, SeekType
  <2> QED
    BY <1>5, <2>2 DEF DigChunk
<1>7. chunk' \in ChunkType
  <2>1. PICK t \in Tell(after) :
          chunk' = [bytes |-> bytes, begin |-> t - Len(bytes), meant |-> t - Len(bytes)]
    BY <1>4, <1>5 DEF DigChunk
  <2>2. t - Len(bytes) \in Int
    BY <1>2, TellType, LenProperties
  <2> QED
    BY <2>1, <2>2 DEF ChunkType
<1>8. /\ ghost' \in GhostType /\ ghost'.marked = ghost.marked /\ ghost'.missed = ghost.missed
      /\ ghost.astray => ghost'.astray
  <2>1. PICK d : d = (\/ ghost.astray \/ ~ReadsInStep(filepos, BufSize) \/ ~TellsInStep(after)
                      \/ ~BackInStep(after, opt.overlap))
    OBVIOUS
  <2>2. d \in BOOLEAN /\ (ghost.astray => d)
    BY <2>1, Zenon
  <2>3. ghost' = [ghost EXCEPT !.seen = @ \cup {bytes[i] : i \in DOMAIN bytes}, !.astray = d]
    BY <1>4, <1>5, <2>1, Zenon DEF DigChunk
  <2>4. {bytes[i] : i \in DOMAIN bytes} \in SUBSET Nat
    BY LenProperties
  <2> QED
    BY <1>3, <2>2, <2>3, <2>4 DEF GhostType
<1>9. audits' = 0 /\ audits' \in Nat /\ ~ghost'.missed
  <2>1. audits = 0 /\ ~ghost.missed
    BY <1>1 DEF LayerInv, FreshOK
  <2> QED
    BY <1>8, <2>1 DEF DigChunk
<1>10. UNCHANGED <<size, opt, map, bs, nb, bitmap>>
  BY DEF DigChunk, image, maps
<1>11. ~ghost'.astray => ~ghost.astray
  BY <1>8
<1> QED
  BY <1>1, <1>6, <1>7, <1>8, <1>9, <1>10, <1>11, PassKeeps

(* The end of pass 1.                                                      *)
LEMMA LayerDigDone ==
  ASSUME LayerInv, DigDone
  PROVE  LayerInv'
<1>1. pc = "dig" /\ pc' = "carve" /\ pc \in Passes /\ pc' \in Passes \cup Ended /\ InRun
  BY DEF DigDone, Passes, InRun
<1>2. ghost \in GhostType
  BY OptionsAre
<1>3. /\ ghost' \in GhostType /\ ghost'.marked = ghost.marked
      /\ ~ghost'.astray => \A b \in 0..(nb - 1) : Covered(b) = TRUE => b \in ghost.marked
  <2>1. PICK d : d = \E b \in 0..(nb - 1) : Covered(b) /\ b \notin ghost.marked
    OBVIOUS
  <2>2. d \in BOOLEAN /\ (~d => \A b \in 0..(nb - 1) : Covered(b) => b \in ghost.marked)
    BY <2>1, Zenon
  <2>3. ghost' = [ghost EXCEPT !.astray = d]
    BY <2>1, Zenon DEF DigDone
  <2>4. ghost' \in GhostType /\ ghost'.marked = ghost.marked /\ ghost'.astray = d
    BY <1>2, <2>2, <2>3 DEF GhostType
  <2> QED
    BY <2>2, <2>4
<1>4. filepos' \in Nat /\ chunk' \in ChunkType
  BY DEF DigDone, NoChunk, ChunkType
<1>5. UNCHANGED <<size, opt, map, bs, nb, bitmap, audits>>
  BY DEF DigDone, image, maps
<1>6. audits' \in Nat
  BY <1>5 DEF LayerInv, TypesOK
<1>7. pc' # "dig"
  BY <1>1
<1> QED
  BY <1>1, <1>3, <1>4, <1>5, <1>6, <1>7, PassKeeps

(* A block of pass 2.                                                      *)
LEMMA LayerCarveBlock ==
  ASSUME LayerInv, CarveBlock
  PROVE  LayerInv'
<1>1. pc = "carve" /\ pc \in Passes /\ InRun
  BY DEF CarveBlock, Passes, InRun
<1>2. Geometry /\ Sound
  BY <1>1, GeometryIs DEF Geometry
<1>3. filepos \in Nat /\ ghost \in GhostType /\ BufSize \in Nat
  BY OptionsAre
<1>4. PICK t \in Tell(filepos), n \in 0..((size \div BufSize) + 1) :
        LET from  == IF n = 0 THEN filepos ELSE Seek(filepos, n * BufSize)
            bytes == Read(from)
            after == AfterRead(from)
        IN  /\ \E u \in Tell(after) :
                 /\ chunk' = [bytes |-> bytes, begin |-> u - Len(bytes),
                              meant |-> t + n * BufSize]
                 /\ pc' = IF HasQueue(u - Len(bytes)) THEN pc ELSE "crash"
            /\ filepos' = after
            /\ ghost' = [ghost EXCEPT !.astray =
                           @ \/ ~TellsInStep(filepos) \/ ~SeeksInStep(filepos, n * BufSize)
                             \/ ~ReadsInStep(from, BufSize) \/ ~TellsInStep(after)]
  BY Zenon DEF CarveBlock
<1>5. n \in Nat /\ n * BufSize \in Int /\ t \in Int
  <2>1. n \in Nat
    BY <1>3
  <2>2. n * BufSize \in Int
    BY <1>3, <2>1
  <2>3. t \in Int
    BY <1>2, <1>3, TellType
  <2> QED
    BY <2>1, <2>2, <2>3
<1>6. PICK from \in Nat : from = IF n = 0 THEN filepos ELSE Seek(filepos, n * BufSize)
  BY <1>2, <1>3, <1>5, SeekType
<1>7. PICK bytes \in Seq(Nat) : bytes = Read(from)
  BY <1>2, ReadType
<1>8. PICK after \in Nat : after = AfterRead(from)
  BY <1>2, ReadType
<1>9. PICK u \in Tell(after) :
        /\ chunk' = [bytes |-> bytes, begin |-> u - Len(bytes), meant |-> t + n * BufSize]
        /\ pc' = IF HasQueue(u - Len(bytes)) THEN pc ELSE "crash"
  BY <1>4, <1>6, <1>7, <1>8, Zenon
<1>10. chunk' \in ChunkType
  <2>1. u - Len(bytes) \in Int
    BY <1>2, TellType, LenProperties
  <2>2. PICK m \in Int : m = n * BufSize
    BY <1>5
  <2>3. t + n * BufSize \in Int
    BY <1>5, <2>2
  <2> QED
    BY <1>9, <2>1, <2>3 DEF ChunkType
<1>11. pc' \in Passes \cup Ended /\ pc' # "dig"
  BY <1>1, <1>9 DEF Passes, Ended
<1>12. filepos' \in Nat
  BY <1>4, <1>6, <1>8
<1>13. /\ ghost' \in GhostType /\ ghost'.marked = ghost.marked
       /\ ghost.astray => ghost'.astray
  <2>1. PICK d : d = (\/ ghost.astray \/ ~TellsInStep(filepos) \/ ~SeeksInStep(filepos, n * BufSize)
                      \/ ~ReadsInStep(from, BufSize) \/ ~TellsInStep(after))
    OBVIOUS
  <2>2. d \in BOOLEAN /\ (ghost.astray => d)
    BY <2>1, Zenon
  <2>3. ghost' = [ghost EXCEPT !.astray = d]
    BY <1>4, <1>6, <1>8, <2>1, Zenon
  <2> QED
    BY <1>3, <2>2, <2>3 DEF GhostType
<1>14. UNCHANGED <<size, opt, map, bs, nb, bitmap, audits>>
  BY DEF CarveBlock, image, maps
<1>15. audits' \in Nat
  BY <1>14 DEF LayerInv, TypesOK
<1>16. ~ghost'.astray => ~ghost.astray
  BY <1>13
<1> QED
  BY <1>1, <1>10, <1>11, <1>12, <1>13, <1>14, <1>15, <1>16, PassKeeps

(* The pass ends, or fails, with all else as it was.                       *)
LEMMA LayerEnds ==
  ASSUME LayerInv, ReadFails \/ CarveLost \/ CarveDone
  PROVE  LayerInv'
<1>1. /\ pc \in Passes /\ pc' \in Passes \cup Ended /\ pc' # "dig"
      /\ UNCHANGED <<size, opt, map, bs, nb, bitmap, filepos, chunk, audits, ghost>>
  BY DEF ReadFails, CarveLost, CarveDone, Passes, Ended, image, maps
<1>2. filepos \in Nat /\ audits \in Nat /\ chunk \in ChunkType /\ ghost \in GhostType
  BY DEF LayerInv, TypesOK
<1> QED
  BY <1>1, <1>2, PassKeeps

(* The blockmap after an update.                                           *)
LEMMA UpdatedType ==
  ASSUME NEW m \in Seq(Nat), NEW s \in Seq(Int), NEW n \in 0..Len(s)
  PROVE  /\ Updated(m, SubSeq(s, 1, n)) \in Seq(Nat)
         /\ Len(Updated(m, SubSeq(s, 1, n))) = Len(m)
         /\ MapWell(m) => MapWell(Updated(m, SubSeq(s, 1, n)))
<1>1. PICK k \in Nat : k = Len(m) /\ DOMAIN m = 1..k
  BY LenProperties
<1>2. PICK d : d = SubSeq(s, 1, n)
  OBVIOUS
<1>3. n \in Nat /\ DOMAIN d = 1..n
  <2>1. Len(s) \in Nat
    BY LenProperties
  <2> QED
    BY <1>2, <2>1
<1>4. ASSUME NEW i PROVE Cardinality({j \in DOMAIN d : d[j] + 2 = i}) \in Nat
  <2>1. IsFiniteSet(1..n)
    BY <1>3, FS_Interval
  <2>2. {j \in 1..n : d[j] + 2 = i} \in SUBSET (1..n)
    OBVIOUS
  <2>3. IsFiniteSet({j \in 1..n : d[j] + 2 = i})
    BY <2>1, <2>2, FS_Subset
  <2> QED
    BY <1>3, <2>3, FS_CardinalityType
<1>5. PICK u : u = Updated(m, d)
  OBVIOUS
<1>6. u = [i \in 1..k |-> m[i] + Cardinality({j \in DOMAIN d : d[j] + 2 = i})]
  BY <1>1, <1>5 DEF Updated
<1>7. \A i \in 1..k : u[i] \in Nat /\ u[i] >= m[i]
  <2> SUFFICES ASSUME NEW i \in 1..k PROVE u[i] \in Nat /\ u[i] >= m[i]
    OBVIOUS
  <2>1. PICK c \in Nat : c = Cardinality({j \in DOMAIN d : d[j] + 2 = i})
    BY <1>4
  <2>2. u[i] = m[i] + c
    BY <1>6, <2>1
  <2>3. m[i] \in Nat
    BY <1>1
  <2> QED
    BY <2>2, <2>3
<1>8. u \in Seq(Nat) /\ Len(u) = k
  <2>1. u = [i \in 1..k |-> u[i]]
    BY <1>6
  <2>2. \A i \in 1..k : u[i] \in Nat
    BY <1>7
  <2>3. u \in [1..k -> Nat]
    BY <2>1, <2>2
  <2>4. u \in Seq(Nat)
    BY <2>3
  <2>5. DOMAIN u = 1..k
    BY <2>1
  <2> QED
    BY <2>4, <2>5, LenProperties
<1>9. MapWell(m) => MapWell(u)
  <2> SUFFICES ASSUME MapWell(m), u # <<>> PROVE u[1] > 0
    BY <1>8 DEF MapWell
  <2>1. k # 0
    BY <1>8
  <2>2. m # <<>> /\ 1 \in 1..k
    BY <1>1, <2>1
  <2>3. m[1] \in Nat /\ m[1] > 0 /\ u[1] \in Nat /\ u[1] >= m[1]
    BY <1>1, <1>7, <2>2 DEF MapWell
  <2> QED
    BY <2>3
<1> QED
  BY <1>1, <1>2, <1>5, <1>8, <1>9

(* What the recording of a file does.                                      *)
Recorded(f, n) ==
  LET q      == Fragments(f)
      blocks == BlocksOfAll(q)
      bytes  == FreeFrom(Position(f.start), f.stop - f.start + 1)
  IN  /\ \A i \in 1..n : blocks[i] + 2 <= Len(map)
      /\ map' = IF opt.update THEN Updated(map, SubSeq(blocks, 1, n)) ELSE map
      /\ audit' = [start |-> f.start, stop |-> f.stop,
                   lines |-> SubSeq(q, 1, Cardinality(Logged(q, n)))]
      /\ ghost' = [ghost EXCEPT
           !.covers = [b \in DOMAIN @ |-> @[b] + IF Touches(bytes, b) THEN 1 ELSE 0],
           !.astray = @ \/ ~ReadsInStep(Position(f.start), f.stop - f.start + 1),
           !.missed = @ \/ \E i \in (n + 1)..Len(blocks) : blocks[i] < nb]

(* AuditFile records one of the files, up to some block.                   *)
LEMMA AuditFileIs ==
  ASSUME AuditFile
  PROVE  /\ pc = "carve" /\ pc' = pc /\ audits' = audits + 1
         /\ UNCHANGED <<size, run, opt, bs, nb, bitmap, filepos, chunk>>
         /\ \E f \in Files : \E n \in 0..Len(BlocksOfAll(Fragments(f))) : Recorded(f, n)
<1>1. /\ pc = "carve" /\ pc' = pc /\ audits' = audits + 1
      /\ UNCHANGED <<size, run, opt, bs, nb, bitmap, filepos, chunk>>
  BY DEF AuditFile, image, maps
<1>2. \E f \in Files : \E n \in 0..Len(BlocksOfAll(Fragments(f))) : Recorded(f, n)
  BY Zenon DEF AuditFile, Recorded, Logged, Touches
<1> QED
  BY <1>1, <1>2

(* The fragments of a file are stretches.                                  *)
LEMMA FragmentsType ==
  ASSUME Sound, opt.use \in BOOLEAN, NEW f \in Files
  PROVE  /\ Fragments(f) \in Seq(Stretch) /\ FileWalk(f) \in Seq(Stretch)
         /\ Fragments(f) = Turned(FileWalk(f), Len(FileWalk(f)))
         /\ BlocksOfAll(Fragments(f)) \in Seq(Int)
<1>1. PICK w \in Seq(Stretch) : w = FileWalk(f)
  BY FileWalkType
<1>2. Fragments(f) = Turned(w, Len(w))
  BY <1>1, FragmentsTurned
<1>3. PICK q \in Seq(Stretch) : q = Fragments(f)
  BY <1>2, TurnedIs
<1>4. BlocksOfAll(q) \in Seq(Int)
  <2>1. PICK g : BlockRun(g, q) /\ BlocksOfAll(q) = g[Len(q)]
    BY BlocksAre
  <2>2. Len(q) \in 0..Len(q)
    BY LenProperties
  <2> QED
    BY <2>1, <2>2 DEF BlockRun
<1> QED
  BY <1>1, <1>2, <1>3, <1>4

(* The ghost after a file is recorded.                                     *)
LEMMA RecordedGhost ==
  ASSUME ghost \in GhostType, nb \in Nat, NEW f, NEW n, Recorded(f, n)
  PROVE  /\ ghost' \in GhostType /\ ghost'.marked = ghost.marked
         /\ ghost.astray => ghost'.astray
         /\ ghost.missed => ghost'.missed
         /\ ~ghost'.astray => ReadsInStep(Position(f.start), f.stop - f.start + 1)
         /\ ~ghost'.missed => LET blocks == BlocksOfAll(Fragments(f))
                              IN  \A i \in (n + 1)..Len(blocks) : ~(blocks[i] < nb)
         /\ \A b \in 0..(nb - 1) :
              ghost'.covers[b] = ghost.covers[b]
                + IF Touches(FreeFrom(Position(f.start), f.stop - f.start + 1), b) THEN 1 ELSE 0
<1>1. PICK blocks : blocks = BlocksOfAll(Fragments(f))
  OBVIOUS
<1>2. PICK bytes : bytes = FreeFrom(Position(f.start), f.stop - f.start + 1)
  OBVIOUS
<1>3. PICK d : d = (ghost.astray \/ ~ReadsInStep(Position(f.start), f.stop - f.start + 1))
  OBVIOUS
<1>4. PICK e : e = (ghost.missed \/ \E i \in (n + 1)..Len(blocks) : blocks[i] < nb)
  OBVIOUS
<1>5. PICK c : c = [b \in DOMAIN ghost.covers |->
                      ghost.covers[b] + IF Touches(bytes, b) THEN 1 ELSE 0]
  OBVIOUS
<1>6. ghost' = [ghost EXCEPT !.covers = c, !.astray = d, !.missed = e]
  BY <1>1, <1>2, <1>3, <1>4, <1>5, Zenon DEF Recorded
<1>7. /\ d \in BOOLEAN /\ (ghost.astray => d)
      /\ ~d => ReadsInStep(Position(f.start), f.stop - f.start + 1)
  BY <1>3, Zenon
<1>8. /\ e \in BOOLEAN /\ (ghost.missed => e)
      /\ ~e => \A i \in (n + 1)..Len(blocks) : ~(blocks[i] < nb)
  BY <1>4, Zenon
<1>9. ghost.covers \in [0..(nb - 1) -> Nat] /\ DOMAIN ghost.covers = 0..(nb - 1)
  BY DEF GhostType
<1>10. \A b \in 0..(nb - 1) : c[b] = ghost.covers[b] + IF Touches(bytes, b) THEN 1 ELSE 0
  BY <1>5, <1>9, Zenon
<1>11. c \in [0..(nb - 1) -> Nat]
  <2>1. \A b \in 0..(nb - 1) : c[b] \in Nat
    BY <1>9, <1>10
  <2>2. c = [b \in 0..(nb - 1) |-> c[b]]
    BY <1>5, <1>9
  <2> QED
    BY <2>1, <2>2
<1>12. /\ ghost' \in GhostType /\ ghost'.marked = ghost.marked
       /\ ghost'.astray = d /\ ghost'.missed = e /\ ghost'.covers = c
  BY <1>6, <1>7, <1>8, <1>11 DEF GhostType
<1> QED
  BY <1>1, <1>2, <1>7, <1>8, <1>10, <1>12

(* A file is recorded.                                                     *)
LEMMA LayerAuditFile ==
  ASSUME LayerInv, AuditFile
  PROVE  LayerInv'
<1>1. pc = "carve" /\ pc \in Passes /\ pc' \in Passes \cup Ended /\ pc' # "dig" /\ InRun
  BY AuditFileIs DEF Passes, InRun
<1>2. UNCHANGED <<size, opt, bs, nb, bitmap, filepos, chunk>> /\ audits' = audits + 1
  BY AuditFileIs
<1>3. filepos \in Nat /\ audits \in Nat /\ chunk \in ChunkType /\ ghost \in GhostType
  BY DEF LayerInv, TypesOK
<1>4. opt.use \in BOOLEAN /\ Sound /\ nb \in Nat
  BY OptionsAre DEF Sound
<1>15. PICK f \in Files : \E n \in 0..Len(BlocksOfAll(Fragments(f))) : Recorded(f, n)
  BY AuditFileIs
<1>5. PICK n \in 0..Len(BlocksOfAll(Fragments(f))) : Recorded(f, n)
  BY <1>15
<1>6. /\ ghost' \in GhostType /\ ghost'.marked = ghost.marked
      /\ ghost.astray => ghost'.astray
  BY <1>3, <1>4, <1>5, RecordedGhost
<1>7. PICK blocks \in Seq(Int) : blocks = BlocksOfAll(Fragments(f))
  BY <1>4, FragmentsType
<1>8. /\ map' = NoFile \/ MapWell(map')
      /\ opt.update => MapWell(map')
  <2>1. map = NoFile \/ MapWell(map)
    BY DEF LayerInv, TypesOK
  <2>2. CASE opt.update
    <3>1. MapWell(map) /\ map \in Seq(Nat)
      BY <1>1, <2>2 DEF LayerInv, LayerOK, MapWell
    <3>2. map' = Updated(map, SubSeq(blocks, 1, n))
      BY <1>5, <1>7, <2>2 DEF Recorded
    <3> QED
      BY <1>5, <1>7, <3>1, <3>2, UpdatedType
  <2>3. CASE ~opt.update
    BY <1>5, <2>1, <2>3 DEF Recorded
  <2> QED
    BY <2>2, <2>3
<1>9. PassGoesOn
  BY <1>1, <1>2, <1>3, <1>6, <1>8 DEF PassGoesOn
<1> QED
  BY <1>9, LayerGoesOn

(* The block size of a run, and a new blockmap.                            *)
LEMMA BlocksWell ==
  ASSUME LayerInv
  PROVE  /\ BlockSize \in Nat \ {0} /\ Blocks \in Nat /\ Blocks = Ceil(size, BlockSize)
         /\ NewMap \in Seq(Nat) /\ Len(NewMap) = Blocks + 1 /\ MapWell(NewMap)
         /\ \A n \in 0..Blocks : MapWell(SubSeq(NewMap, 1, n))
<1>1. size \in Nat /\ opt.blocksize \in Nat \ {0} /\ (map = NoFile \/ MapWell(map))
  BY OptionsAre DEF LayerInv, TypesOK
<1>2. BlockSize \in Nat \ {0}
  <2>1. CASE opt.use /\ ~opt.update /\ map # NoFile /\ map # <<>>
    <3>1. map \in Seq(Nat) /\ map[1] > 0
      BY <1>1, <2>1 DEF MapWell
    <3>2. map[1] \in Nat
      BY <2>1, <3>1
    <3> QED
      BY <2>1, <3>1, <3>2 DEF BlockSize
  <2>2. CASE ~(opt.use /\ ~opt.update /\ map # NoFile /\ map # <<>>)
    BY <1>1, <2>2 DEF BlockSize
  <2> QED
    BY <2>1, <2>2
<1>3. Blocks \in Nat
  BY <1>1, <1>2, CeilIs DEF Blocks
<1>4. PICK k \in Nat : k = Blocks
  BY <1>3
<1>5. PICK c \in Nat \ {0} : c = opt.blocksize
  BY <1>1
<1>6. PICK m : m = <<c>> \o [b \in 1..k |-> 0]
  OBVIOUS
<1>7. m \in Seq(Nat) /\ Len(m) = k + 1 /\ m[1] = c
  BY <1>6
<1>8. ASSUME NEW n \in 0..k PROVE MapWell(SubSeq(m, 1, n))
  <2>1. SubSeq(m, 1, n) \in Seq(Nat) /\ Len(SubSeq(m, 1, n)) = n
    BY <1>7
  <2>2. n > 0 => SubSeq(m, 1, n)[1] = c
    BY <1>7
  <2>3. SubSeq(m, 1, n) # <<>> => n > 0
    BY <2>1
  <2> QED
    BY <2>1, <2>2, <2>3 DEF MapWell
<1>9. NewMap = m
  BY <1>4, <1>5, <1>6 DEF NewMap
<1> QED
  BY <1>2, <1>4, <1>5, <1>7, <1>8, <1>9 DEF MapWell, Blocks

(* The bitmap is made from the blockmap.                                   *)
MarkedAtFirst == IF opt.use THEN {b \in 0..(Blocks - 1) : map[b + 2] > 0} ELSE {}
CountsAtFirst(m) == [b \in 0..(Blocks - 1) |-> IF b + 2 <= Len(m) THEN m[b + 2] ELSE 0]

(* SetUpMaps with these names.                                             *)
LEMMA SetUpMapsIs ==
  ASSUME SetUpMaps
  PROVE  /\ pc = "setup" /\ pc' = "dig" /\ Mapped /\ MapFits /\ bs' = BlockSize /\ nb' = Blocks
         /\ map' = IF map = NoFile THEN NewMap ELSE map
         /\ UNCHANGED <<size, run, opt, filepos, chunk, audit, audits>>
         /\ \E junk \in SUBSET (IF opt.use THEN Cleared..(Blocks - 1) ELSE {}) :
              /\ bitmap' = [b \in 0..(Blocks - 1) |-> b \in MarkedAtFirst \cup junk]
              /\ ghost' = [NoGhost EXCEPT !.marked = MarkedAtFirst, !.covers = CountsAtFirst(map'),
                                          !.astray = ~(junk \subseteq MarkedAtFirst)]
<1>1. /\ pc = "setup" /\ pc' = "dig" /\ Mapped /\ MapFits /\ bs' = BlockSize /\ nb' = Blocks
      /\ map' = IF map = NoFile THEN NewMap ELSE map
      /\ UNCHANGED <<size, run, opt, filepos, chunk, audit, audits>>
  BY DEF SetUpMaps, image
<1>2. \E junk \in SUBSET (IF opt.use THEN Cleared..(Blocks - 1) ELSE {}) :
        /\ bitmap' = [b \in 0..(Blocks - 1) |-> b \in MarkedAtFirst \cup junk]
        /\ ghost' = [NoGhost EXCEPT !.marked = MarkedAtFirst, !.covers = CountsAtFirst(map'),
                                    !.astray = ~(junk \subseteq MarkedAtFirst)]
  BY Zenon DEF SetUpMaps, MarkedAtFirst, CountsAtFirst
<1> QED
  BY <1>1, <1>2

(* The bitmap made from the blockmap has the bits of the blocks that are   *)
(* counted, and others only where the ghost says astray.                   *)
LEMMA LayerSetUpMaps ==
  ASSUME LayerInv, SetUpMaps
  PROVE  LayerInv'
<1>1. /\ pc = "setup" /\ pc' = "dig" /\ Mapped /\ MapFits /\ bs' = BlockSize /\ nb' = Blocks
      /\ map' = IF map = NoFile THEN NewMap ELSE map
      /\ UNCHANGED <<size, run, opt, filepos, chunk, audit, audits>>
  BY SetUpMapsIs
<1>2. PICK k \in Nat : k = Blocks
  BY BlocksWell
<1>3. PICK M : M = MarkedAtFirst
  OBVIOUS
<1>4. PICK junk : /\ bitmap' = [b \in 0..(k - 1) |-> b \in M \cup junk]
                  /\ ghost' = [NoGhost EXCEPT !.marked = M, !.covers = CountsAtFirst(map'),
                                              !.astray = ~(junk \subseteq M)]
  BY <1>2, <1>3, SetUpMapsIs
<1>5. MapWell(map')
  BY <1>1, BlocksWell DEF LayerInv, TypesOK
<1>6. M \in SUBSET (0..(k - 1)) /\ M \in SUBSET Nat
  BY <1>2, <1>3 DEF MarkedAtFirst
<1>7. CountsAtFirst(map') \in [0..(k - 1) -> Nat]
  <2>1. ASSUME NEW b \in 0..(k - 1)
        PROVE  (IF b + 2 <= Len(map') THEN map'[b + 2] ELSE 0) \in Nat
    <3>1. Len(map') \in Nat /\ map' \in Seq(Nat)
      BY <1>5, LenProperties DEF MapWell
    <3>2. CASE b + 2 <= Len(map')
      <4>1. b + 2 \in 1..Len(map')
        BY <3>1, <3>2
      <4> QED
        BY <3>1, <3>2, <4>1
    <3> QED
      BY <3>1, <3>2
  <2> QED
    BY <1>2, <2>1 DEF CountsAtFirst
<1>8. PICK d : d = ~(junk \subseteq M)
  OBVIOUS
<1>9. d \in BOOLEAN /\ (~d => junk \subseteq M)
  BY <1>8, Zenon
<1>10. ghost' = [NoGhost EXCEPT !.marked = M, !.covers = CountsAtFirst(map'), !.astray = d]
  BY <1>4, <1>8, Zenon
<1>11. /\ ghost'.marked = M /\ ghost'.astray = d /\ ghost'.missed = FALSE
       /\ ghost' \in [marked : SUBSET Nat, covers : [0..(k - 1) -> Nat], seen : SUBSET Nat,
                      astray : BOOLEAN, missed : BOOLEAN]
  BY <1>6, <1>7, <1>9, <1>10 DEF NoGhost
<1>12. bitmap' \in [0..(k - 1) -> BOOLEAN]
  <2>1. PICK L : L = M \cup junk
    OBVIOUS
  <2>2. bitmap' = [b \in 0..(k - 1) |-> b \in L]
    BY <1>4, <2>1, Zenon
  <2> QED
    BY <2>2, SMT
<1>13. TypesOK'
  <2>1. (size \in Nat \ {0} /\ opt \in Options)'
    BY <1>1 DEF LayerInv, TypesOK
  <2>2. (map = NoFile \/ MapWell(map))'
    BY <1>5
  <2>3. Sound'
    BY <1>1, <1>2, <1>12, BlocksWell DEF Sound
  <2>4. (filepos \in Nat /\ audits \in Nat)'
    BY <1>1 DEF LayerInv, TypesOK
  <2>5. (chunk \in ChunkType)'
    BY <1>1 DEF LayerInv, TypesOK, ChunkType
  <2>6. (ghost \in GhostType)'
    BY <1>1, <1>2, <1>11 DEF GhostType
  <2> QED
    BY <2>1, <2>2, <2>3, <2>4, <2>5, <2>6 DEF TypesOK
<1>14. FreshOK'
  BY <1>1, <1>11 DEF LayerInv, FreshOK
<1>15. LayerOK'
  <2>1. (opt.use => nb = Ceil(size, bs))'
    BY <1>1, BlocksWell DEF Ceil
  <2>2. (opt.update => MapWell(map))'
    BY <1>5
  <2>3. (ghost.marked \subseteq 0..(nb - 1))'
    BY <1>1, <1>2, <1>6, <1>11
  <2>4. (opt.use => \A b \in ghost.marked : Covered(b) = TRUE)'
    <3>1. ASSUME NEW b \in M PROVE bitmap'[b] = TRUE
      <4>1. b \in 0..(k - 1)
        BY <1>6
      <4> QED
        BY <1>4, <4>1
    <3> QED
      BY <1>11, <3>1 DEF Covered
  <2>5. (opt.use /\ ~ghost.astray
          => \A b \in 0..(nb - 1) : Covered(b) = TRUE => b \in ghost.marked)'
    <3>1. ASSUME ~d, NEW b \in 0..(k - 1), bitmap'[b] = TRUE PROVE b \in M
      BY <1>4, <1>9, <3>1
    <3> QED
      BY <1>1, <1>2, <1>11, <3>1 DEF Covered
  <2> QED
    BY <2>1, <2>2, <2>3, <2>4, <2>5 DEF LayerOK
<1> QED
  BY <1>13, <1>14, <1>15 DEF LayerInv

(* With neither -m nor -u there is nothing to set up.                      *)
LEMMA LayerSetUpNothing ==
  ASSUME LayerInv, SetUpNothing
  PROVE  LayerInv'
<1>1. /\ pc = "setup" /\ pc' = "dig" /\ ~opt.use /\ ~opt.update
      /\ UNCHANGED <<size, opt, map, bs, nb, bitmap, filepos, chunk, audits, ghost>>
  BY DEF SetUpNothing, Mapped, image, maps
<1>2. TypesOK'
  BY <1>1 DEF LayerInv, TypesOK, MapWell, Sound, ChunkType, GhostType
<1>3. ghost = NoGhost
  BY <1>1 DEF LayerInv, FreshOK
<1>4. FreshOK'
  BY <1>1, <1>3 DEF LayerInv, FreshOK, NoGhost
<1>5. LayerOK'
  BY <1>1, <1>3 DEF LayerOK, NoGhost
<1> QED
  BY <1>2, <1>4, <1>5 DEF LayerInv

(* The maps cannot be set up.                                              *)
LEMMA LayerSetUpFails ==
  ASSUME LayerInv, SetUpFails
  PROVE  LayerInv'
<1>1. /\ pc' \in {"FATAL_READ", "ABORT", "FILE_WRITE"}
      /\ UNCHANGED <<size, opt, bs, nb, bitmap, filepos, chunk, audits, ghost>>
  BY DEF SetUpFails, image, maps
<1>2. map' = map \/ map' = NoFile \/ \E n \in 0..Blocks : map' = SubSeq(NewMap, 1, n)
  BY DEF SetUpFails
<1>3. map' = NoFile \/ MapWell(map')
  BY <1>2, BlocksWell DEF LayerInv, TypesOK
<1>4. TypesOK'
  BY <1>1, <1>3 DEF LayerInv, TypesOK, MapWell, Sound, ChunkType, GhostType
<1>5. FreshOK'
  BY <1>1 DEF FreshOK
<1>6. LayerOK'
  BY <1>1 DEF LayerOK, InRun, Passes
<1> QED
  BY <1>4, <1>5, <1>6 DEF LayerInv

(* A further run begins with nothing set up but the blockmap.              *)
LEMMA LayerNextRun ==
  ASSUME LayerInv, NextRun
  PROVE  LayerInv'
<1>1. /\ size' = size /\ map' = map /\ opt' \in Options /\ pc' = "setup"
      /\ bs' = 1 /\ nb' = 0 /\ bitmap' = <<>>
      /\ filepos' = 0 /\ chunk' = NoChunk /\ audits' = 0 /\ ghost' = NoGhost
  BY DEF NextRun
<1>2. Sound'
  <2>1. <<>> \in [0..(0 - 1) -> BOOLEAN]
    OBVIOUS
  <2> QED
    BY <1>1, <2>1 DEF Sound
<1>3. (chunk \in ChunkType)'
  BY <1>1 DEF NoChunk, ChunkType
<1>4. (ghost \in GhostType)'
  <2>1. <<>> \in [0..(0 - 1) -> Nat]
    OBVIOUS
  <2> QED
    BY <1>1, <2>1 DEF NoGhost, GhostType
<1>5. TypesOK'
  BY <1>1, <1>2, <1>3, <1>4 DEF LayerInv, TypesOK, MapWell
<1>6. FreshOK'
  BY <1>1 DEF FreshOK, NoGhost, NoChunk
<1>7. LayerOK'
  BY <1>1 DEF LayerOK, InRun, Passes
<1> QED
  BY <1>5, <1>6, <1>7 DEF LayerInv

(* Every step.                                                             *)
LEMMA LayerNext ==
  ASSUME LayerInv, [Next]_vars
  PROVE  LayerInv'
<1>1. CASE Next /\ ~Halted
  BY <1>1, LayerSetUpMaps, LayerSetUpNothing, LayerSetUpFails, LayerDigChunk, LayerDigDone,
     LayerEnds, LayerCarveBlock, LayerAuditFile, LayerNextRun DEF Next
<1>2. CASE UNCHANGED vars
  BY <1>2 DEF vars, LayerInv, TypesOK, FreshOK, LayerOK, MapWell, Sound, ChunkType, GhostType,
              Covered, Ceil, InRun, NoChunk, NoGhost
<1> QED
  BY <1>1, <1>2 DEF Halted

(* The bitmap covers the blocks that the blockmap counted, and, while the  *)
(* layer is in step, no others.                                            *)
THEOREM BitmapFollowsBlockmap == Spec => []LayerInv
<1>1. Init => LayerInv
  BY LayerInit
<1>2. LayerInv /\ [Next]_vars => LayerInv'
  BY LayerNext
<1> QED
  BY <1>1, <1>2, PTL DEF Spec

(* While the layer is in step, the bytes that the bitmap leaves open are   *)
(* those that the run ought to see.                                        *)
LEMMA LayerAgrees ==
  ASSUME LayerInv, InRun, ~ghost.astray
  PROVE  Agree
<1> SUFFICES ASSUME NEW x \in Nat, Inside(x) PROVE Free(x) <=> Open(x)
  BY DEF Agree
<1>1. opt.use \in BOOLEAN /\ Sound
  BY OptionsAre
<1>2. CASE ~opt.use
  BY <1>2 DEF Free, Open
<1>3. CASE opt.use
  <2>1. PICK b : b = x \div bs
    OBVIOUS
  <2>2. b \in Nat /\ b < nb
    BY <1>1, <1>3, <2>1, Division DEF Sound, Inside
  <2>3. b \in 0..(nb - 1) /\ Covered(b) \in BOOLEAN
    BY <1>1, <2>2 DEF Sound, Covered
  <2>4. b \in ghost.marked <=> Covered(b) = TRUE
    BY <1>3, <2>3 DEF LayerInv, LayerOK
  <2>5. Free(x) <=> b \notin ghost.marked
    BY <1>3, <2>1 DEF Free
  <2>6. Open(x) <=> Covered(b) = FALSE
    BY <1>3, <2>1, <2>2 DEF Open, Clear
  <2> QED
    BY <2>3, <2>4, <2>5, <2>6
<1> QED
  BY <1>2, <1>3

-----------------------------------------------------------------------------
(***************************************************************************)
(* Pass 1 sees all that it ought to see, and moves on.                     *)
(***************************************************************************)

(* As long as pass 1 is in step, it has seen what lies behind it.          *)
SeenOK == pc = "dig" /\ ~ghost.astray => filepos = 0 \/ SeenAt(filepos, ghost.seen)
SeenInv == LayerInv /\ SeenOK

(* A chunk that is read, placed and left in step.                          *)
LEMMA ChunkStep ==
  ASSUME SeenInv, DigChunk, ~ghost'.astray
  PROVE  filepos' > filepos /\ SeenAt(filepos', ghost'.seen)
<1>1. pc = "dig" /\ InRun
  BY DEF DigChunk, Passes, InRun
<1>2. Geometry /\ filepos \in Nat /\ ghost \in GhostType
  BY <1>1, GeometryIs, OptionsAre DEF SeenInv
<1>3. PICK o \in Nat : o = opt.overlap
  BY OptionsAre DEF SeenInv
<1>4. PICK bytes \in Seq(Nat) : bytes = Read(filepos)
  BY <1>2, ReadType
<1>5. PICK after \in Nat : after = AfterRead(filepos)
  BY <1>2, ReadType
<1>6. Len(bytes) > o /\ filepos' = Seek(after, 0 - o)
  BY <1>3, <1>4, <1>5 DEF DigChunk
<1>7. PICK d : d = (\/ ghost.astray \/ ~ReadsInStep(filepos, BufSize) \/ ~TellsInStep(after)
                    \/ ~BackInStep(after, o))
  OBVIOUS
<1>8. ghost' = [ghost EXCEPT !.seen = @ \cup {bytes[i] : i \in DOMAIN bytes}, !.astray = d]
  BY <1>3, <1>4, <1>5, <1>7, Zenon DEF DigChunk
<1>9. ghost'.astray = d /\ ghost'.seen = ghost.seen \cup {bytes[i] : i \in DOMAIN bytes}
  BY <1>2, <1>8 DEF GhostType
<1>10. ~d
  BY <1>9
<1>11. ~ghost.astray /\ ReadsInStep(filepos, BufSize) /\ TellsInStep(after) /\ BackInStep(after, o)
  BY <1>7, <1>10, Zenon
<1>12. filepos = 0 \/ SeenAt(filepos, ghost.seen)
  BY <1>1, <1>11 DEF SeenInv, SeenOK
<1>13. ChunkGives(filepos, Seek(after, 0 - o), ghost.seen \cup {bytes[i] : i \in DOMAIN bytes})
  <2>1. PICK S : S = ghost.seen
    OBVIOUS
  <2>2. PICK p \in Nat : p = filepos
    BY <1>2
  <2>3. /\ opt.overlap = o /\ bytes = Read(p) /\ after = AfterRead(p) /\ Len(bytes) > o
        /\ ReadsInStep(p, BufSize) /\ TellsInStep(after) /\ BackInStep(after, o)
        /\ (p = 0 \/ SeenAt(p, S))
    BY <1>3, <1>4, <1>5, <1>6, <1>11, <1>12, <2>1, <2>2
  <2>4. ChunkGives(p, Seek(after, 0 - o), SeenWith(S, bytes))
    BY <1>2, <2>3, ChunkInStep
  <2> QED
    BY <2>1, <2>2, <2>4 DEF SeenWith
<1> QED
  BY <1>6, <1>9, <1>13 DEF ChunkGives

(* The steps that lead to pass 1, or leave it going on.                    *)
LEMMA DigSteps ==
  ASSUME LayerInv, [Next]_vars, pc' = "dig"
  PROVE  \/ pc = "setup" /\ filepos' = 0
         \/ DigChunk
         \/ UNCHANGED vars
<1>1. ~SetUpFails
  BY DEF SetUpFails
<1>2. ~DigDone /\ ~ReadFails /\ ~CarveBlock /\ ~CarveLost /\ ~AuditFile /\ ~CarveDone /\ ~NextRun
  BY DEF DigDone, ReadFails, CarveBlock, CarveLost, AuditFile, CarveDone, NextRun
<1>3. ASSUME SetUpMaps \/ SetUpNothing PROVE pc = "setup" /\ filepos' = 0
  <2>1. pc = "setup" /\ filepos' = filepos
    BY <1>3 DEF SetUpMaps, SetUpNothing
  <2> QED
    BY <2>1 DEF LayerInv, FreshOK
<1>4. Halted => UNCHANGED vars
  BY DEF Halted
<1> QED
  BY <1>1, <1>2, <1>3, <1>4 DEF Next

(* Every step keeps what pass 1 has seen.                                  *)
LEMMA SeenNext ==
  ASSUME SeenInv, [Next]_vars
  PROVE  SeenInv'
<1>1. LayerInv'
  BY LayerNext DEF SeenInv
<1>2. SeenOK'
  <2> SUFFICES ASSUME pc' = "dig", ~ghost'.astray
               PROVE  filepos' = 0 \/ SeenAt(filepos, ghost.seen)'
    BY DEF SeenOK
  <2>1. CASE pc = "setup" /\ filepos' = 0
    BY <2>1
  <2>2. CASE DigChunk
    <3>1. SeenAt(filepos', ghost'.seen)
      BY <2>2, ChunkStep
    <3>2. UNCHANGED <<size, opt, bs, nb, bitmap>>
      BY <2>2 DEF DigChunk, image, maps
    <3> QED
      BY <3>1, <3>2 DEF SeenAt, Open, Clear, Covered
  <2>3. CASE UNCHANGED vars
    BY <2>3 DEF SeenInv, SeenOK, SeenAt, Open, Clear, Covered, vars
  <2> QED
    BY <2>1, <2>2, <2>3, DigSteps DEF SeenInv
<1> QED
  BY <1>1, <1>2 DEF SeenInv

(* So it holds in every state of every run.                                *)
LEMMA SeenAlways == Spec => []SeenInv
<1>1. Init => SeenInv
  BY LayerInit DEF SeenInv, SeenOK, Init
<1>2. SeenInv /\ [Next]_vars => SeenInv'
  BY SeenNext
<1> QED
  BY <1>1, <1>2, PTL DEF Spec

(* When pass 1 comes to its end in step, it has seen every byte it ought   *)
(* to see.                                                                 *)
THEOREM Pass1SeesAll == Spec => []AllFreeSeen
<1>1. SeenInv => AllFreeSeen
  <2> SUFFICES ASSUME SeenInv, pc = "dig", ~ghost.astray, ReadsInStep(filepos, BufSize),
                      Len(Read(filepos)) <= opt.overlap, FreeBelow(size) > opt.overlap,
                      NEW x \in 0..(size - 1), Free(x)
               PROVE  x \in ghost.seen
    BY DEF AllFreeSeen
  <2>1. InRun
    BY DEF InRun, Passes
  <2>2. Geometry /\ Agree /\ filepos \in Nat
    BY <2>1, GeometryIs, LayerAgrees, OptionsAre DEF SeenInv
  <2>3. PICK o \in Nat : o = opt.overlap /\ o < BufSize
    BY OptionsAre DEF SeenInv
  <2>4. filepos = 0 \/ SeenAt(filepos, ghost.seen)
    BY DEF SeenInv, SeenOK
  <2>5. x \in Nat /\ x < size
    BY <2>2 DEF Geometry
  <2> QED
    BY <2>2, <2>3, <2>4, <2>5, EndsInStep
<1> QED
  BY <1>1, SeenAlways, PTL

(* Every chunk of pass 1 moves the file on, as long as it is in step.      *)
THEOREM Pass1MovesOn == Spec => DigAdvances
<1>1. SeenInv /\ [Next]_vars => [ChunkMovesOn]_vars
  <2> SUFFICES ASSUME SeenInv, [Next]_vars, pc = "dig", pc' = "dig", ~ghost'.astray,
                      ~UNCHANGED vars
               PROVE  filepos' > filepos
    BY DEF ChunkMovesOn
  <2>1. DigChunk
    BY DigSteps DEF SeenInv
  <2> QED
    BY <2>1, ChunkStep
<1> QED
  BY <1>1, SeenAlways, PTL DEF Spec, DigAdvances

-----------------------------------------------------------------------------
(***************************************************************************)
(* The addresses of the log.                                               *)
(***************************************************************************)

(* In step, the place of a logical offset is exact.                        *)
LEMMA PositionsExact ==
  ASSUME LayerInv
  PROVE  PositionExact
<1> SUFFICES ASSUME pc \in Passes, opt.use, ~ghost.astray, NEW x \in 0..(size - 1), Free(x)
             PROVE  PlaceOf(x, Position(FreeBelow(x)))
  BY Zenon DEF PositionExact, PlaceOf
<1>1. InRun
  BY DEF InRun
<1>2. Geometry /\ Agree /\ opt.use = TRUE
  BY <1>1, GeometryIs, LayerAgrees, OptionsAre
<1>3. x \in Nat /\ x < size
  BY <1>2 DEF Geometry
<1> QED
  BY <1>2, <1>3, PlaceIs

(* The bytes to see stay what they are as long as the blocks counted at    *)
(* first do.                                                               *)
LEMMA FreeKept ==
  ASSUME NEW p, NEW n, UNCHANGED <<opt, bs, nb>>, ghost'.marked = ghost.marked
  PROVE  /\ FreeFrom(p, n)' = FreeFrom(p, n)
         /\ FreeBelow(p)' = FreeBelow(p)
         /\ Free(p)' <=> Free(p)
<1>1. \A x : Free(x)' <=> Free(x)
  BY DEF Free
<1>2. \A x : FreeBelow(x)' = FreeBelow(x)
  <2> SUFFICES ASSUME NEW x PROVE FreeBelow(x)' = FreeBelow(x)
    OBVIOUS
  <2>1. {y \in 0..(x - 1) : Free(y)}' = {y \in 0..(x - 1) : Free(y)}
    BY <1>1
  <2> QED
    BY <2>1 DEF FreeBelow
<1>3. FreeFrom(p, n)' = FreeFrom(p, n)
  <2>1. CASE ~opt.use
    BY <2>1 DEF FreeFrom
  <2>2. CASE opt.use
    <3>1. FreeFrom(p, n) = {x \in p..((nb * bs) - 1) : Free(x) /\ FreeBelow(x) - FreeBelow(p) < n}
      BY <2>2 DEF FreeFrom
    <3>2. FreeFrom(p, n)'
            = {x \in p..((nb * bs) - 1) : Free(x)' /\ FreeBelow(x)' - FreeBelow(p)' < n}
      BY <2>2 DEF FreeFrom
    <3> QED
      BY <1>1, <1>2, <3>1, <3>2
  <2> QED
    BY <2>1, <2>2
<1> QED
  BY <1>1, <1>2, <1>3

(* So do the bytes of a logical stretch, as long as the bitmap does.       *)
LEMMA PlacesKept ==
  ASSUME NEW a, NEW n, UNCHANGED <<opt, bs, nb, bitmap>>, ghost'.marked = ghost.marked
  PROVE  /\ Position(a)' = Position(a)
         /\ FreeFrom(Position(a), n)' = FreeFrom(Position(a), n)
<1>1. Position(a)' = Position(a)
  BY DEF Position, Walk, Turn, RunLength, Covered, Contribution
<1>2. PICK p : p = Position(a)
  OBVIOUS
<1>3. FreeFrom(p, n)' = FreeFrom(p, n)
  BY FreeKept
<1> QED
  BY <1>1, <1>2, <1>3

(* Without -m no block is updated.                                         *)
LEMMA NoBlocks ==
  ASSUME Sound, ~opt.update, NEW q \in Seq(Stretch)
  PROVE  Len(BlocksOfAll(q)) = 0
<1>1. PICK n \in Nat : n = Len(q) /\ DOMAIN q = 1..n
  BY LenProperties
<1>2. PICK f : BlockRun(f, q) /\ BlocksOfAll(q) = f[n]
  BY <1>1, BlocksAre
<1>3. f[0] = <<>> /\ \A i \in 1..n : f[i] = f[i - 1] \o <<>>
  BY <1>1, <1>2 DEF BlockRun, BlocksOf
<1> DEFINE Wrong == {i \in 0..n : f[i] # <<>>}
<1>4. Wrong = {}
  <2> SUFFICES ASSUME Wrong # {} PROVE FALSE
    OBVIOUS
  <2>1. PICK m \in Wrong : \A j \in Wrong : m <= j
    <3>1. Wrong \in SUBSET Nat
      OBVIOUS
    <3> QED
      BY <3>1, LeastExists
  <2>2. m \in 1..n /\ m - 1 \in 0..n /\ ~(m <= m - 1)
    BY <1>3, <2>1
  <2>3. f[m - 1] = <<>> /\ f[m] = f[m - 1] \o <<>>
    BY <1>3, <2>1, <2>2
  <2> QED
    BY <2>1, <2>3
<1>5. n \in 0..n
  OBVIOUS
<1>6. f[n] = <<>>
  BY <1>4, <1>5
<1> QED
  BY <1>2, <1>6

(* The lines of a file that is recorded in step.                           *)
LinesExact(a, e, lines) ==
  Lists(Bytes(Reverse(lines)), FreeFrom(Position(a), e - a + 1))

(* A file recorded in step and whole has such lines.                       *)
LEMMA LinesInStep ==
  ASSUME LayerInv, InRun, NEW f \in Files, NEW n \in 0..Len(BlocksOfAll(Fragments(f))),
         Recorded(f, n), ~ghost'.astray, ~ghost'.missed
  PROVE  /\ audit' = [start |-> f.start, stop |-> f.stop, lines |-> audit'.lines]
         /\ LinesExact(f.start, f.stop, audit'.lines)
<1>1. opt.use \in BOOLEAN /\ opt.update \in BOOLEAN /\ Sound /\ ghost \in GhostType /\ nb \in Nat
  BY OptionsAre DEF Sound
<1>2. PICK p : p = Position(f.start)
  OBVIOUS
<1>3. PICK m : m = f.stop - f.start + 1
  OBVIOUS
<1>4. PICK w : w = FileWalk(f)
  OBVIOUS
<1>5. PICK q : q = Fragments(f)
  OBVIOUS
<1>6. w \in Seq(Stretch) /\ q \in Seq(Stretch) /\ q = Turned(w, Len(w))
  BY <1>1, <1>4, <1>5, FragmentsType
<1>7. PICK blocks \in Seq(Int) : blocks = BlocksOfAll(q)
  BY <1>1, <1>5, FragmentsType
<1>8. /\ ~ghost.astray /\ ReadsInStep(p, m)
      /\ \A i \in (n + 1)..Len(blocks) : ~(blocks[i] < nb)
  BY <1>1, <1>2, <1>3, <1>5, <1>7, RecordedGhost
<1>9. Agree
  BY <1>8, LayerAgrees
<1>10. FileGives(w, p, m)
  BY <1>1, <1>2, <1>3, <1>4, <1>8, <1>9, FileInStep
<1>11. WellLaid(w, p) /\ Rising(w) /\ Spread(w) = FreeFrom(p, m)
  BY <1>10 DEF FileGives, WellLaid
<1>12. n \in Nat /\ (n = Len(blocks) \/ Len(q) = 1)
  <2>1. Len(blocks) \in Nat /\ DOMAIN blocks = 1..Len(blocks) /\ n \in 0..Len(blocks)
    BY <1>5, <1>7, LenProperties
  <2>2. CASE opt.use /\ opt.update
    <3>1. ASSUME n # Len(blocks) PROVE FALSE
      <4>1. PICK i : i = n + 1
        OBVIOUS
      <4>7. i \in (n + 1)..Len(blocks) /\ i \in DOMAIN blocks
        <5>1. PICK k \in Nat : k = Len(blocks) /\ DOMAIN blocks = 1..k /\ n \in 0..k /\ n # k
          BY <2>1, <3>1
        <5>2. i \in (n + 1)..k /\ i \in 1..k
          BY <4>1, <5>1
        <5> QED
          BY <5>1, <5>2
      <4>2. PICK b : b = blocks[i]
        OBVIOUS
      <4>3. Names(blocks, b)
        BY <4>2, <4>7 DEF Names
      <4>4. p \in Nat
        BY <1>1, <1>2, FileWalkType
      <4>5. Touches(Spread(w), b)
        BY <1>1, <1>6, <1>7, <1>11, <2>2, <4>3, <4>4, FileBlocks
      <4>6. b < nb
        BY <1>10, <2>2, <4>5 DEF Touches, FileGives
      <4> QED
        BY <1>8, <4>2, <4>6, <4>7
    <3> QED
      BY <2>1, <3>1
  <2>3. CASE ~opt.update
    <3>1. Len(blocks) = 0
      BY <1>1, <1>6, <1>7, <2>3, NoBlocks
    <3> QED
      BY <2>1, <3>1
  <2>4. CASE ~opt.use
    <3>1. Len(w) = 1
      BY <1>10, <2>4 DEF FileGives
    <3>2. Len(q) = Len(w)
      BY <1>6, TurnedIs
    <3> QED
      BY <2>1, <3>1, <3>2
  <2> QED
    BY <1>1, <2>2, <2>3, <2>4
<1>13. SubSeq(q, 1, Cardinality(Logged(q, n))) = q
  BY <1>1, <1>6, <1>7, <1>12, AllLogged
<1>14. audit' = [start |-> f.start, stop |-> f.stop, lines |-> q]
  BY <1>5, <1>13, Zenon DEF Recorded
<1>15. Reverse(q) = w
  BY <1>6, TurnedBack
<1>16. Lists(Bytes(w), Spread(w))
  BY <1>11, BytesList
<1>17. LinesExact(f.start, f.stop, q)
  BY <1>2, <1>3, <1>11, <1>15, <1>16 DEF LinesExact
<1> QED
  BY <1>14, <1>17

(* As long as the layer is in step, the log tells where the files are.     *)
FragmentsInv == LayerInv /\ FragmentsExact

(* The steps that leave the last line of the log.                          *)
LEMMA FragmentsKept ==
  ASSUME FragmentsInv, Steady' => Steady, UNCHANGED <<opt, bs, nb, bitmap, audit, audits>>,
         ghost'.marked = ghost.marked, ~ghost'.missed => ~ghost.missed
  PROVE  FragmentsExact'
<1> SUFFICES ASSUME Steady', ~ghost'.missed, audits' > 0
             PROVE  Lists(Bytes(Reverse(audit.lines)),
                          FreeFrom(Position(audit.start), audit.stop - audit.start + 1))'
  BY DEF FragmentsExact
<1>1. PICK a, e, lines : a = audit.start /\ e = audit.stop /\ lines = audit.lines
  OBVIOUS
<1>2. PICK s : s = Bytes(Reverse(lines))
  OBVIOUS
<1>3. PICK n : n = e - a + 1
  OBVIOUS
<1>4. Lists(s, FreeFrom(Position(a), n))
  BY <1>1, <1>2, <1>3 DEF FragmentsInv, FragmentsExact
<1>5. FreeFrom(Position(a), n)' = FreeFrom(Position(a), n)
  BY PlacesKept
<1>6. Lists(s, FreeFrom(Position(a), n)')
  BY <1>4, <1>5
<1>7. /\ Bytes(Reverse(audit'.lines)) = s /\ audit'.start = a
      /\ audit'.stop - audit'.start + 1 = n
  BY <1>1, <1>2, <1>3
<1> QED
  BY <1>6, <1>7

(* A file is recorded.                                                     *)
LEMMA FragmentsAuditFile ==
  ASSUME FragmentsInv, AuditFile
  PROVE  FragmentsExact'
<1> SUFFICES ASSUME ~ghost'.astray, ~ghost'.missed
             PROVE  Lists(Bytes(Reverse(audit.lines)),
                          FreeFrom(Position(audit.start), audit.stop - audit.start + 1))'
  BY DEF FragmentsExact, Steady
<1>1. /\ pc = "carve" /\ UNCHANGED <<size, run, opt, bs, nb, bitmap>> /\ InRun /\ LayerInv
  BY AuditFileIs DEF InRun, Passes, FragmentsInv
<1>2. PICK f \in Files : \E n \in 0..Len(BlocksOfAll(Fragments(f))) : Recorded(f, n)
  BY AuditFileIs
<1>3. PICK n \in 0..Len(BlocksOfAll(Fragments(f))) : Recorded(f, n)
  BY <1>2
<1>4. /\ audit' = [start |-> f.start, stop |-> f.stop, lines |-> audit'.lines]
      /\ LinesExact(f.start, f.stop, audit'.lines)
  BY <1>1, <1>3, LinesInStep
<1>5. ghost'.marked = ghost.marked
  BY <1>1, <1>3, OptionsAre, RecordedGhost DEF Sound
<1>6. PICK a, e, lines : a = f.start /\ e = f.stop /\ lines = audit'.lines
  OBVIOUS
<1>7. PICK m : m = e - a + 1
  OBVIOUS
<1>8. PICK s : s = Bytes(Reverse(lines))
  OBVIOUS
<1>9. Lists(s, FreeFrom(Position(a), m))
  BY <1>4, <1>6, <1>7, <1>8 DEF LinesExact
<1>10. FreeFrom(Position(a), m)' = FreeFrom(Position(a), m)
  BY <1>1, <1>5, PlacesKept
<1>11. Lists(s, FreeFrom(Position(a), m)')
  BY <1>9, <1>10
<1>12. /\ Bytes(Reverse(audit'.lines)) = s /\ audit'.start = a
       /\ audit'.stop - audit'.start + 1 = m
  BY <1>4, <1>6, <1>7, <1>8
<1> QED
  BY <1>11, <1>12

(* Every step keeps the lines of the last file as they ought to be.        *)
LEMMA FragmentsNext ==
  ASSUME FragmentsInv, [Next]_vars
  PROVE  FragmentsInv'
<1>1. LayerInv'
  BY LayerNext DEF FragmentsInv
<1>2. CASE pc' \notin Passes \cup {"done"}
  BY <1>1, <1>2 DEF FragmentsInv, FragmentsExact, Steady
<1>3. CASE pc' = "dig"
  <2>1. audits' = 0
    BY <1>1, <1>3 DEF LayerInv, FreshOK
  <2> QED
    BY <1>1, <2>1 DEF FragmentsInv, FragmentsExact
<1>4. CASE AuditFile
  BY <1>1, <1>4, FragmentsAuditFile DEF FragmentsInv
<1>5. CASE CarveDone \/ ReadFails \/ CarveLost
  <2>1. pc \in Passes /\ UNCHANGED <<opt, bs, nb, bitmap, audit, audits, ghost>>
    BY <1>5 DEF CarveDone, ReadFails, CarveLost, Passes, image, maps
  <2>2. Steady' => Steady
    BY <2>1 DEF Steady
  <2> QED
    BY <1>1, <2>1, <2>2, FragmentsKept DEF FragmentsInv
<1>6. CASE CarveBlock
  <2>1. pc \in Passes /\ UNCHANGED <<opt, bs, nb, bitmap, audit, audits>>
    BY <1>6 DEF CarveBlock, Passes, image, maps
  <2>2. PICK d : ghost' = [ghost EXCEPT !.astray = d] /\ (ghost.astray => d)
    BY <1>6, Zenon DEF CarveBlock
  <2>3. /\ ghost'.marked = ghost.marked /\ ghost'.missed = ghost.missed
        /\ ghost.astray => ghost'.astray
    BY <2>2, OptionsAre DEF FragmentsInv, GhostType
  <2>4. Steady' => Steady
    BY <2>1, <2>3 DEF Steady
  <2> QED
    BY <1>1, <2>1, <2>3, <2>4, FragmentsKept DEF FragmentsInv
<1>7. CASE DigDone
  <2>1. audits' = 0
    BY <1>7 DEF DigDone, FragmentsInv, LayerInv, FreshOK
  <2> QED
    BY <1>1, <2>1 DEF FragmentsInv, FragmentsExact
<1>8. CASE UNCHANGED vars
  <2>1. UNCHANGED <<pc, opt, bs, nb, bitmap, audit, audits, ghost>>
    BY <1>8 DEF vars
  <2>2. Steady' => Steady
    BY <2>1 DEF Steady
  <2> QED
    BY <1>1, <2>1, <2>2, FragmentsKept DEF FragmentsInv
<1>9. CASE SetUpMaps \/ SetUpNothing \/ SetUpFails \/ DigChunk \/ NextRun
  <2>1. pc' = "dig" \/ pc' \notin Passes \cup {"done"}
    BY <1>9 DEF SetUpMaps, SetUpNothing, SetUpFails, DigChunk, NextRun, Passes
  <2> QED
    BY <1>2, <1>3, <1>1, <2>1 DEF FragmentsInv
<1> QED
  BY <1>1, <1>4, <1>5, <1>6, <1>7, <1>8, <1>9 DEF Next, Halted

(* Offsets and files are found again where the log says they are.          *)
THEOREM PlacesAreExact == Spec => []PlacesExact
<1>1. Init => FragmentsInv
  BY LayerInit DEF FragmentsInv, FragmentsExact, Init
<1>2. FragmentsInv /\ [Next]_vars => FragmentsInv'
  BY FragmentsNext
<1>3. FragmentsInv => PlacesExact
  BY PositionsExact DEF FragmentsInv, PlacesExact
<1> QED
  BY <1>1, <1>2, <1>3, PTL DEF Spec

-----------------------------------------------------------------------------
(***************************************************************************)
(* The counts of the blockmap.                                             *)
(***************************************************************************)

(* The blockmap counts for every block the files that contain it.          *)
MapCounts == \A b \in 0..(nb - 1) : b + 2 <= Len(map) => map[b + 2] = ghost.covers[b]

(* What pass 1 loses does not change the blockmap.                         *)
CountsOK ==
  InRun /\ opt.update /\ ~ghost.missed /\ (pc = "dig" \/ ~ghost.astray) => MapCounts
CountsInv == LayerInv /\ CountsOK

(* The count of a block after an update.                                   *)
LEMMA UpdatedIs ==
  ASSUME NEW m \in Seq(Nat), NEW d \in Seq(Int), NEW b \in Nat, b + 2 <= Len(m)
  PROVE  Updated(m, d)[b + 2] = m[b + 2] + CountsIn(d, b)
<1>1. PICK k \in Nat : k = Len(d) /\ DOMAIN d = 1..k
  BY LenProperties
<1>2. \A j \in 1..k : d[j] \in Int
  BY <1>1
<1>3. PICK i \in Nat : i = b + 2
  OBVIOUS
<1>4. i \in DOMAIN m
  BY <1>3, LenProperties
<1>5. {j \in 1..k : d[j] + 2 = i} = {j \in 1..k : d[j] = b}
  BY <1>2, <1>3
<1>6. Updated(m, d)[i] = m[i] + Cardinality({j \in 1..k : d[j] + 2 = i})
  BY <1>1, <1>4 DEF Updated
<1> QED
  BY <1>1, <1>3, <1>5, <1>6 DEF CountsIn

(* Setting up, the files counted are those in the blockmap.                *)
LEMMA CountsSetUpMaps ==
  ASSUME CountsInv, SetUpMaps
  PROVE  MapCounts'
<1>1. nb' = Blocks
  BY SetUpMapsIs
<1>2. PICK k \in Nat : k = Blocks
  BY BlocksWell DEF CountsInv
<1>3. PICK junk : ghost' = [NoGhost EXCEPT !.marked = MarkedAtFirst, !.covers = CountsAtFirst(map'),
                                           !.astray = ~(junk \subseteq MarkedAtFirst)]
  BY SetUpMapsIs
<1>4. ghost'.covers = CountsAtFirst(map')
  <2>1. PICK c, d, M : /\ c = CountsAtFirst(map') /\ d = ~(junk \subseteq MarkedAtFirst)
                       /\ M = MarkedAtFirst
    OBVIOUS
  <2>2. ghost' = [NoGhost EXCEPT !.marked = M, !.covers = c, !.astray = d]
    BY <1>3, <2>1, Zenon
  <2>3. ghost'.covers = c
    BY <2>2 DEF NoGhost
  <2> QED
    BY <2>1, <2>3
<1>5. \A b \in 0..(k - 1) : b + 2 <= Len(map') => map'[b + 2] = ghost'.covers[b]
  BY <1>2, <1>4 DEF CountsAtFirst
<1> QED
  BY <1>1, <1>2, <1>5 DEF MapCounts

(* A file that is recorded counts for its blocks.                          *)
LEMMA CountsAuditFile ==
  ASSUME CountsInv, AuditFile, opt.update, ~ghost'.missed, ~ghost'.astray
  PROVE  MapCounts'
<1>1. /\ pc = "carve" /\ UNCHANGED <<size, run, opt, bs, nb, bitmap>> /\ InRun /\ LayerInv
  BY AuditFileIs DEF InRun, Passes, CountsInv
<1>2. opt.use \in BOOLEAN /\ opt.update \in BOOLEAN /\ Sound /\ ghost \in GhostType /\ nb \in Nat
  BY <1>1, OptionsAre DEF Sound
<1>3. PICK f \in Files : \E n \in 0..Len(BlocksOfAll(Fragments(f))) : Recorded(f, n)
  BY AuditFileIs
<1>4. PICK n \in 0..Len(BlocksOfAll(Fragments(f))) : Recorded(f, n)
  BY <1>3
<1>5. PICK p, m, w, q : /\ p = Position(f.start) /\ m = f.stop - f.start + 1
                        /\ w = FileWalk(f) /\ q = Fragments(f)
  OBVIOUS
<1>6. w \in Seq(Stretch) /\ q \in Seq(Stretch) /\ q = Turned(w, Len(w)) /\ p \in Nat
  BY <1>2, <1>5, FragmentsType, FileWalkType
<1>7. PICK blocks \in Seq(Int) : blocks = BlocksOfAll(q)
  BY <1>2, <1>5, FragmentsType
<1>8. n \in 0..Len(blocks)
  BY <1>5, <1>7
<1>9. /\ ~ghost.astray /\ ~ghost.missed /\ ReadsInStep(p, m)
      /\ \A i \in (n + 1)..Len(blocks) : ~(blocks[i] < nb)
  BY <1>2, <1>4, <1>5, <1>7, RecordedGhost
<1>10. Agree
  BY <1>1, <1>9, LayerAgrees
<1>11. FileGives(w, p, m)
  BY <1>2, <1>5, <1>9, <1>10, FileInStep
<1>12. WellLaid(w, p) /\ Spread(w) = FreeFrom(p, m)
  BY <1>11 DEF FileGives
<1>13. OnceEach(blocks) /\ \A b : Names(blocks, b) <=> Touches(FreeFrom(p, m), b)
  BY <1>2, <1>6, <1>7, <1>12, FileBlocks
<1>14. PICK d : d = SubSeq(blocks, 1, n)
  OBVIOUS
<1>15. d \in Seq(Int)
  BY <1>8, <1>14
<1>16. map \in Seq(Nat) /\ map' = Updated(map, d)
  <2>1. map' = Updated(map, d)
    BY <1>4, <1>5, <1>7, <1>14 DEF Recorded
  <2> QED
    BY <1>1, <2>1 DEF LayerInv, LayerOK, MapWell
<1>17. Len(map') = Len(map)
  BY <1>8, <1>14, <1>16, UpdatedType
<1>18. MapCounts
  BY <1>1, <1>9 DEF CountsInv, CountsOK
<1>19. ASSUME NEW b \in 0..(nb - 1), b + 2 <= Len(map')
       PROVE  map'[b + 2] = ghost'.covers[b]
  <2>1. b \in Nat /\ b \in Int /\ b < nb
    BY <1>2
  <2>2. map'[b + 2] = map[b + 2] + CountsIn(d, b)
    BY <1>15, <1>16, <1>17, <1>19, <2>1, UpdatedIs
  <2>3. \A i \in (n + 1)..Len(blocks) : blocks[i] # b
    BY <1>9, <2>1
  <2>4. /\ Names(blocks, b) => CountsIn(d, b) = 1
        /\ ~Names(blocks, b) => CountsIn(d, b) = 0
    BY <1>8, <1>13, <1>14, <2>1, <2>3, CountsOnce
  <2>5. map[b + 2] = ghost.covers[b]
    BY <1>17, <1>18, <1>19 DEF MapCounts
  <2>6. ghost'.covers[b] = ghost.covers[b] + IF Touches(FreeFrom(p, m), b) THEN 1 ELSE 0
    BY <1>2, <1>4, <1>5, RecordedGhost
  <2>7. Names(blocks, b) <=> Touches(FreeFrom(p, m), b)
    BY <1>13
  <2> QED
    BY <2>2, <2>4, <2>5, <2>6, <2>7
<1> QED
  BY <1>1, <1>19 DEF MapCounts

(* The steps that leave the blockmap and the counts alone.                 *)
LEMMA CountsKept ==
  ASSUME CountsInv, pc \in Passes, UNCHANGED <<opt, map, nb>>,
         ghost'.covers = ghost.covers, ghost'.missed = ghost.missed,
         pc = "dig" \/ (pc' # "dig" /\ (ghost.astray => ghost'.astray))
  PROVE  CountsOK'
<1> SUFFICES ASSUME opt.update, ~ghost'.missed, pc' = "dig" \/ ~ghost'.astray
             PROVE  MapCounts'
  BY DEF CountsOK
<1>1. MapCounts
  BY DEF CountsInv, CountsOK, InRun
<1> QED
  BY <1>1 DEF MapCounts

(* Every step keeps the counts in the blockmap as they ought to be.        *)
LEMMA CountsNext ==
  ASSUME CountsInv, [Next]_vars
  PROVE  CountsInv'
<1>1. LayerInv'
  BY LayerNext DEF CountsInv
<1>2. ghost \in GhostType
  BY OptionsAre DEF CountsInv
<1>3. CASE SetUpMaps
  BY <1>1, <1>3, CountsSetUpMaps DEF CountsInv, CountsOK
<1>4. CASE SetUpNothing
  <2>1. ~opt'.update
    BY <1>4 DEF SetUpNothing, Mapped, image
  <2> QED
    BY <1>1, <2>1 DEF CountsInv, CountsOK
<1>5. CASE SetUpFails \/ NextRun
  <2>1. ~InRun'
    BY <1>5 DEF SetUpFails, NextRun, InRun, Passes
  <2> QED
    BY <1>1, <2>1 DEF CountsInv, CountsOK
<1>6. CASE DigChunk
  <2>1. pc = "dig" /\ pc \in Passes /\ UNCHANGED <<opt, map, nb>>
    BY <1>6 DEF DigChunk, Passes, image, maps
  <2>2. PICK d, S : ghost' = [ghost EXCEPT !.seen = S, !.astray = d]
    BY <1>6, Zenon DEF DigChunk
  <2>3. ghost'.covers = ghost.covers /\ ghost'.missed = ghost.missed
    BY <1>2, <2>2 DEF GhostType
  <2> QED
    BY <1>1, <2>1, <2>3, CountsKept DEF CountsInv
<1>7. CASE DigDone
  <2>1. pc = "dig" /\ pc \in Passes /\ UNCHANGED <<opt, map, nb>>
    BY <1>7 DEF DigDone, Passes, image, maps
  <2>2. PICK d : ghost' = [ghost EXCEPT !.astray = d]
    BY <1>7, Zenon DEF DigDone
  <2>3. ghost'.covers = ghost.covers /\ ghost'.missed = ghost.missed
    BY <1>2, <2>2 DEF GhostType
  <2> QED
    BY <1>1, <2>1, <2>3, CountsKept DEF CountsInv
<1>8. CASE CarveBlock
  <2>1. pc = "carve" /\ pc' # "dig" /\ pc \in Passes /\ UNCHANGED <<opt, map, nb>>
    BY <1>8 DEF CarveBlock, Passes, image, maps
  <2>2. PICK d : ghost' = [ghost EXCEPT !.astray = d] /\ (ghost.astray => d)
    BY <1>8, Zenon DEF CarveBlock
  <2>3. /\ ghost'.covers = ghost.covers /\ ghost'.missed = ghost.missed
        /\ ghost.astray => ghost'.astray
    BY <1>2, <2>2 DEF GhostType
  <2> QED
    BY <1>1, <2>1, <2>3, CountsKept DEF CountsInv
<1>9. CASE ReadFails \/ CarveLost \/ CarveDone
  <2>1. pc \in Passes /\ pc' # "dig" /\ UNCHANGED <<opt, map, nb, ghost>>
    BY <1>9 DEF ReadFails, CarveLost, CarveDone, Passes, image, maps
  <2> QED
    BY <1>1, <2>1, CountsKept DEF CountsInv
<1>10. CASE AuditFile
  <2>1. pc' # "dig" /\ opt' = opt
    BY <1>10, AuditFileIs
  <2> QED
    BY <1>1, <1>10, <2>1, CountsAuditFile DEF CountsInv, CountsOK
<1>11. CASE UNCHANGED vars
  <2>1. UNCHANGED <<pc, opt, map, nb, ghost>>
    BY <1>11 DEF vars
  <2> QED
    BY <1>1, <2>1 DEF CountsInv, CountsOK, MapCounts, InRun
<1> QED
  BY <1>3, <1>4, <1>5, <1>6, <1>7, <1>8, <1>9, <1>10, <1>11 DEF Next, Halted

(* The blockmap counts for every block the carved files that contain it.   *)
THEOREM BlockmapIsRight == Spec => []BlockmapCounts
<1>1. Init => CountsInv
  BY LayerInit DEF CountsInv, CountsOK, InRun, Passes, Init
<1>2. CountsInv /\ [Next]_vars => CountsInv'
  BY CountsNext
<1>3. CountsInv => BlockmapCounts
  BY DEF CountsInv, CountsOK, MapCounts, BlockmapCounts, Steady, InRun
<1> QED
  BY <1>1, <1>2, <1>3, PTL DEF Spec

-----------------------------------------------------------------------------
(***************************************************************************)
(* What is read is what was meant: offsets and blocks are counted.         *)
(***************************************************************************)

(* The covered and the other blocks from j to k - 1.                       *)
HiddenIn(j, k) == {b \in j..(k - 1) : Covered(b) = TRUE}
ClearIn(j, k)  == {b \in j..(k - 1) : Covered(b) = FALSE}

HiddenBlocks(j, k) == Cardinality(HiddenIn(j, k))
ClearBlocks(j, k)  == Cardinality(ClearIn(j, k))

(* These are all the blocks.                                               *)
LEMMA BlocksCount ==
  ASSUME Sound, NEW j \in Nat, NEW k \in Nat, j <= k, k <= nb
  PROVE  /\ IsFiniteSet(HiddenIn(j, k)) /\ IsFiniteSet(ClearIn(j, k))
         /\ HiddenBlocks(j, k) \in Nat /\ ClearBlocks(j, k) \in Nat
         /\ HiddenBlocks(j, k) + ClearBlocks(j, k) = k - j
<1>1. IsFiniteSet(j..(k - 1)) /\ Cardinality(j..(k - 1)) = k - j
  <2>1. k - 1 \in Int /\ j \in Int
    OBVIOUS
  <2>2. /\ IsFiniteSet(j..(k - 1))
        /\ Cardinality(j..(k - 1)) = IF j > k - 1 THEN 0 ELSE ((k - 1) - j) + 1
    BY <2>1, FS_Interval
  <2> QED
    BY <2>2
<1>2. HiddenIn(j, k) \in SUBSET (j..(k - 1)) /\ ClearIn(j, k) \in SUBSET (j..(k - 1))
  BY DEF HiddenIn, ClearIn
<1>3. IsFiniteSet(HiddenIn(j, k)) /\ IsFiniteSet(ClearIn(j, k))
  BY <1>1, <1>2, FS_Subset
<1>4. HiddenIn(j, k) \cap ClearIn(j, k) = {}
  BY DEF HiddenIn, ClearIn
<1>5. HiddenIn(j, k) \cup ClearIn(j, k) = j..(k - 1)
  <2>1. ASSUME NEW b \in j..(k - 1) PROVE Covered(b) \in BOOLEAN
    <3>1. b \in 0..(nb - 1)
      BY DEF Sound
    <3> QED
      BY <3>1 DEF Sound, Covered
  <2>2. \A b \in j..(k - 1) : Covered(b) = TRUE \/ Covered(b) = FALSE
    BY <2>1
  <2> QED
    BY <2>2 DEF HiddenIn, ClearIn
<1>6. PICK H, C : H = HiddenIn(j, k) /\ C = ClearIn(j, k)
  OBVIOUS
<1>7. /\ Cardinality(H) \in Nat /\ Cardinality(C) \in Nat
      /\ Cardinality(H \cup C) = Cardinality(H) + Cardinality(C)
  <2>1. H \cap C = {} /\ IsFiniteSet(H) /\ IsFiniteSet(C)
    BY <1>3, <1>4, <1>6
  <2>2. Cardinality(H) \in Nat /\ Cardinality(C) \in Nat
    BY <2>1, FS_CardinalityType
  <2>3. Cardinality(H \cup C) = Cardinality(H) + Cardinality(C) - Cardinality(H \cap C)
    BY <2>1, FS_Union
  <2>4. Cardinality(H \cap C) = 0
    BY <2>1, FS_EmptySet
  <2> QED
    BY <2>2, <2>3, <2>4
<1> QED
  BY <1>1, <1>3, <1>5, <1>6, <1>7 DEF HiddenBlocks, ClearBlocks

(* Blocks that go on as they are.                                          *)
AllHidden(j, k) == \A b \in j..(k - 1) : Covered(b) = TRUE
AllClear(j, k)  == \A b \in j..(k - 1) : Covered(b) = FALSE

(* Behind such blocks one of the two numbers has grown and the other has   *)
(* not.                                                                    *)
LEMMA BlocksGoOn ==
  ASSUME Sound, NEW j \in Nat, NEW k \in Nat, NEW l \in Nat, j <= k, k <= l, l <= nb
  PROVE  /\ AllHidden(k, l) => /\ HiddenBlocks(j, l) = HiddenBlocks(j, k) + (l - k)
                               /\ ClearBlocks(j, l) = ClearBlocks(j, k)
         /\ AllClear(k, l)  => /\ HiddenBlocks(j, l) = HiddenBlocks(j, k)
                               /\ ClearBlocks(j, l) = ClearBlocks(j, k) + (l - k)
<1>1. /\ HiddenBlocks(j, k) \in Nat /\ ClearBlocks(j, k) \in Nat
      /\ HiddenBlocks(j, k) + ClearBlocks(j, k) = k - j
  <2>1. k <= nb
    BY DEF Sound
  <2> QED
    BY <2>1, BlocksCount
<1>2. /\ HiddenBlocks(j, l) \in Nat /\ ClearBlocks(j, l) \in Nat
      /\ HiddenBlocks(j, l) + ClearBlocks(j, l) = l - j
  <2>1. j <= l
    OBVIOUS
  <2> QED
    BY <2>1, BlocksCount
<1>3. ASSUME NEW b \in j..(l - 1), b \notin k..(l - 1) PROVE b \in j..(k - 1)
  BY <1>3
<1>4. ASSUME NEW b \in j..(k - 1) PROVE b \in j..(l - 1)
  OBVIOUS
<1>5. ASSUME AllHidden(k, l) PROVE ClearIn(j, l) = ClearIn(j, k)
  <2>1. ASSUME NEW b \in ClearIn(j, l) PROVE b \in ClearIn(j, k)
    <3>1. b \in j..(l - 1) /\ Covered(b) = FALSE
      BY DEF ClearIn
    <3>2. b \notin k..(l - 1)
      BY <1>5, <3>1 DEF AllHidden
    <3> QED
      BY <1>3, <3>1, <3>2 DEF ClearIn
  <2>2. ASSUME NEW b \in ClearIn(j, k) PROVE b \in ClearIn(j, l)
    <3>1. b \in j..(k - 1) /\ Covered(b) = FALSE
      BY DEF ClearIn
    <3> QED
      BY <1>4, <3>1 DEF ClearIn
  <2> QED
    BY <2>1, <2>2
<1>6. ASSUME AllClear(k, l) PROVE HiddenIn(j, l) = HiddenIn(j, k)
  <2>1. ASSUME NEW b \in HiddenIn(j, l) PROVE b \in HiddenIn(j, k)
    <3>1. b \in j..(l - 1) /\ Covered(b) = TRUE
      BY DEF HiddenIn
    <3>2. b \notin k..(l - 1)
      BY <1>6, <3>1 DEF AllClear
    <3> QED
      BY <1>3, <3>1, <3>2 DEF HiddenIn
  <2>2. ASSUME NEW b \in HiddenIn(j, k) PROVE b \in HiddenIn(j, l)
    <3>1. b \in j..(k - 1) /\ Covered(b) = TRUE
      BY DEF HiddenIn
    <3> QED
      BY <1>4, <3>1 DEF HiddenIn
  <2> QED
    BY <2>1, <2>2
<1>7. ASSUME AllHidden(k, l)
      PROVE  /\ HiddenBlocks(j, l) = HiddenBlocks(j, k) + (l - k)
             /\ ClearBlocks(j, l) = ClearBlocks(j, k)
  <2>1. ClearBlocks(j, l) = ClearBlocks(j, k)
    BY <1>5, <1>7 DEF ClearBlocks
  <2> QED
    BY <1>1, <1>2, <2>1
<1>8. ASSUME AllClear(k, l)
      PROVE  /\ HiddenBlocks(j, l) = HiddenBlocks(j, k)
             /\ ClearBlocks(j, l) = ClearBlocks(j, k) + (l - k)
  <2>1. HiddenBlocks(j, l) = HiddenBlocks(j, k)
    BY <1>6, <1>8 DEF HiddenBlocks
  <2> QED
    BY <1>1, <1>2, <2>1
<1> QED
  BY <1>7, <1>8

(* More blocks do not have fewer clear ones.                               *)
LEMMA ClearGrow ==
  ASSUME Sound, NEW j \in Nat, NEW k \in Nat, NEW l \in Nat, j <= k, k <= l, l <= nb
  PROVE  ClearBlocks(j, k) <= ClearBlocks(j, l)
<1>1. ClearIn(j, k) \in SUBSET ClearIn(j, l)
  BY DEF ClearIn
<1>2. IsFiniteSet(ClearIn(j, l))
  <2>1. j <= l
    OBVIOUS
  <2> QED
    BY <2>1, BlocksCount
<1> QED
  BY <1>1, <1>2, FS_Subset DEF ClearBlocks

(* From x to y, which are in the blocks j to k - 1.                        *)
Spans(j, k, x, y) == bs * j <= x /\ x <= y /\ y <= bs * k

(* A byte from x to y is in one of these blocks.                           *)
LEMMA SpansBlocks ==
  ASSUME Sound, NEW j \in Nat, NEW k \in Nat, k <= nb,
         NEW x \in Nat, NEW y \in Nat, Spans(j, k, x, y), NEW z \in x..(y - 1)
  PROVE  z \in Nat /\ z \div bs \in j..(k - 1) /\ z \div bs < nb
<1>1. z \in Nat /\ x <= z /\ z < y
  OBVIOUS
<1>2. bs * j \in Nat /\ bs * k \in Nat
  BY Multiples DEF Sound
<1>3. bs * j <= z /\ z < bs * k
  BY <1>1, <1>2 DEF Spans
<1>4. PICK c : c = z \div bs
  OBVIOUS
<1>5. c \in Nat /\ j <= c /\ c < k
  <2>1. c \in Nat
    BY <1>1, <1>4, Division DEF Sound
  <2>2. j <= c
    BY <1>1, <1>3, <1>4, QuotientBounds DEF Sound
  <2>3. c < k
    BY <1>1, <1>3, <1>4, QuotientBounds DEF Sound
  <2> QED
    BY <2>1, <2>2, <2>3
<1>6. c \in j..(k - 1) /\ c < nb
  BY <1>5 DEF Sound
<1> QED
  BY <1>1, <1>4, <1>6

(* The open bytes in blocks that are alike.                                *)
StretchCounts(j, k, x, y) ==
  /\ AllClear(j, k)  => Cardinality(OpenIn(x, y)) = y - x
  /\ AllHidden(j, k) => Cardinality(OpenIn(x, y)) = 0

(* So many open bytes there are in blocks that are alike.                  *)
LEMMA StretchBytes ==
  ASSUME Sound, opt.use = TRUE, NEW j \in Nat, NEW k \in Nat, k <= nb,
         NEW x \in Nat, NEW y \in Nat, Spans(j, k, x, y)
  PROVE  StretchCounts(j, k, x, y)
<1>1. ASSUME AllClear(j, k) PROVE Cardinality(OpenIn(x, y)) = y - x
  <2>1. ASSUME NEW z \in x..(y - 1) PROVE Open(z)
    <3>1. z \div bs \in j..(k - 1) /\ z \div bs < nb
      BY SpansBlocks
    <3> QED
      BY <1>1, <3>1 DEF AllClear, Open, Clear
  <2>2. OpenIn(x, y) = x..(y - 1)
    BY <2>1 DEF OpenIn
  <2>3. y - 1 \in Int /\ x \in Int /\ x <= y
    BY DEF Spans
  <2>4. Cardinality(x..(y - 1)) = IF x > y - 1 THEN 0 ELSE ((y - 1) - x) + 1
    BY <2>3, FS_Interval
  <2> QED
    BY <2>2, <2>3, <2>4
<1>2. ASSUME AllHidden(j, k) PROVE Cardinality(OpenIn(x, y)) = 0
  <2>1. ASSUME NEW z \in x..(y - 1) PROVE ~Open(z)
    <3>1. z \div bs \in j..(k - 1)
      BY SpansBlocks
    <3> QED
      BY <1>2, <3>1 DEF AllHidden, Open, Clear
  <2>2. OpenIn(x, y) = {}
    BY <2>1 DEF OpenIn
  <2> QED
    BY <2>2, FS_EmptySet
<1> QED
  BY <1>1, <1>2 DEF StretchCounts

(* The open bytes of blocks j to k - 1.                                    *)
BytesOfBlocks(j, k) == Cardinality(OpenIn(bs * j, bs * k)) = bs * ClearBlocks(j, k)

(* So many there are in any blocks of the bitmap.                          *)
LEMMA ClearBytes ==
  ASSUME Sound, opt.use = TRUE, NEW j \in Nat, NEW k \in Nat, j <= k, k <= nb
  PROVE  BytesOfBlocks(j, k)
<1>1. bs \in Nat /\ nb \in Nat /\ \A i \in Nat : bs * i \in Nat
  <2>1. bs \in Nat /\ nb \in Nat
    BY DEF Sound
  <2> QED
    BY <2>1, Multiples
<1>2. BytesOfBlocks(j, j)
  <2>1. OpenIn(bs * j, bs * j) = {} /\ ClearIn(j, j) = {}
    BY <1>1 DEF OpenIn, ClearIn
  <2>2. Cardinality(OpenIn(bs * j, bs * j)) = 0 /\ ClearBlocks(j, j) = 0
    BY <2>1, FS_EmptySet DEF ClearBlocks
  <2> QED
    BY <1>1, <2>2 DEF BytesOfBlocks
<1>3. ASSUME NEW m \in Nat, NEW l \in Nat, l = m + 1, j <= m, l <= nb, BytesOfBlocks(j, m)
      PROVE  BytesOfBlocks(j, l)
  <2>1. PICK x, y, z : x = bs * j /\ y = bs * m /\ z = bs * l
    OBVIOUS
  <2>2. x \in Nat /\ y \in Nat /\ z \in Nat /\ x <= y /\ y <= z /\ z - y = bs
    <3>1. x \in Nat /\ y \in Nat /\ z \in Nat
      BY <1>1, <2>1
    <3>2. z = y + bs
      BY <1>1, <1>3, <2>1, NextMultiple
    <3>3. x <= y
      BY <1>1, <1>3, <2>1, Multiples
    <3> QED
      BY <1>1, <3>1, <3>2, <3>3
  <2>3. Splits(x, y, z)
    BY <2>2, OpenSplit
  <2>4. AllHidden(m, l) \/ AllClear(m, l)
    <3>1. m \in 0..(nb - 1)
      BY <1>1, <1>3
    <3>2. Covered(m) = TRUE \/ Covered(m) = FALSE
      BY <3>1 DEF Sound, Covered
    <3>3. \A b \in m..(l - 1) : b = m
      BY <1>3
    <3> QED
      BY <3>2, <3>3, Zenon DEF AllHidden, AllClear
  <2>7. Spans(m, l, y, z)
    <3>1. y <= y /\ y <= z /\ z <= z
      BY <2>2
    <3> QED
      BY <2>1, <3>1, Zenon DEF Spans
  <2>8. /\ AllClear(m, l)  => Cardinality(OpenIn(y, z)) = z - y
        /\ AllHidden(m, l) => Cardinality(OpenIn(y, z)) = 0
    <3>1. StretchCounts(m, l, y, z)
      BY <1>3, <2>2, <2>7, StretchBytes, Zenon
    <3> QED
      BY <3>1 DEF StretchCounts
  <2>9. /\ AllHidden(m, l) => ClearBlocks(j, l) = ClearBlocks(j, m)
        /\ AllClear(m, l)  => ClearBlocks(j, l) = ClearBlocks(j, m) + (l - m)
    BY <1>3, BlocksGoOn
  <2>10. PICK c \in Nat : c = ClearBlocks(j, m)
    <3>1. m <= nb
      BY <1>1, <1>3
    <3> QED
      BY <1>3, <3>1, BlocksCount
  <2>11. Cardinality(OpenIn(x, y)) = bs * c
    BY <1>3, <2>1, <2>10 DEF BytesOfBlocks
  <2>12. Cardinality(OpenIn(x, z)) = bs * c + Cardinality(OpenIn(y, z))
    BY <2>3, <2>11 DEF Splits
  <2>13. CASE AllHidden(m, l)
    <3>1. bs * c \in Nat
      BY <1>1
    <3> QED
      BY <2>1, <2>8, <2>9, <2>10, <2>12, <2>13, <3>1 DEF BytesOfBlocks
  <2>14. CASE AllClear(m, l)
    <3>1. ClearBlocks(j, l) = c + 1
      BY <1>3, <2>9, <2>10, <2>14
    <3>2. bs * (c + 1) = bs * c + bs
      BY <1>1, NextMultiple
    <3>3. Cardinality(OpenIn(x, z)) = bs * c + bs
      BY <2>2, <2>8, <2>12, <2>14
    <3> QED
      BY <2>1, <3>1, <3>2, <3>3 DEF BytesOfBlocks
  <2> QED
    BY <2>4, <2>13, <2>14
<1> DEFINE Wrong == {i \in j..nb : ~BytesOfBlocks(j, i)}
<1>4. Wrong = {}
  <2> SUFFICES ASSUME Wrong # {} PROVE FALSE
    OBVIOUS
  <2>1. PICK l \in Wrong : \A i \in Wrong : l <= i
    <3>1. Wrong \in SUBSET Nat
      BY <1>1
    <3> QED
      BY <3>1, LeastExists
  <2>2. l \in j..nb /\ ~BytesOfBlocks(j, l) /\ l \in Nat
    BY <1>1, <2>1
  <2>3. l # j
    BY <1>2, <2>2
  <2>4. PICK m \in Nat : l = m + 1 /\ j <= m /\ m \in j..nb /\ ~(l <= m) /\ l <= nb
    <3>1. l - 1 \in Nat /\ l = (l - 1) + 1
      BY <1>1, <2>2, <2>3
    <3>2. j <= l - 1 /\ l - 1 \in j..nb /\ ~(l <= l - 1) /\ l <= nb
      BY <1>1, <2>2, <2>3
    <3> QED
      BY <3>1, <3>2
  <2>5. BytesOfBlocks(j, m)
    BY <2>1, <2>4
  <2>6. BytesOfBlocks(j, l)
    BY <1>3, <2>2, <2>4, <2>5
  <2> QED
    BY <2>2, <2>6
<1>5. k \in j..nb
  BY <1>1
<1> QED
  BY <1>4, <1>5

(* The open bytes below a byte of a clear block.                           *)
LEMMA OpenBelow ==
  ASSUME Sound, opt.use = TRUE, NEW p \in Nat, NEW b \in Nat, InBlock(p, b), b < nb,
         Covered(b) = FALSE
  PROVE  Cardinality(OpenIn(0, p)) = p - bs * HiddenBlocks(0, b)
<1>1. bs \in Nat \ {0} /\ nb \in Nat /\ 0 \in Nat /\ 0 <= b /\ b <= nb
  BY DEF Sound
<1>2. PICK h \in Nat, c \in Nat : h = HiddenBlocks(0, b) /\ c = ClearBlocks(0, b) /\ h + c = b
  BY <1>1, BlocksCount
<1>3. PICK y, z : y = bs * b /\ z = bs * (b + 1)
  OBVIOUS
<1>4. y \in Nat /\ z \in Nat /\ z = y + bs
  BY <1>1, <1>3, NextMultiple
<1>5. y <= p /\ p < z
  <2>1. p = (bs * b) + (p % bs) /\ p % bs \in 0..(bs - 1)
    BY <1>1, Division DEF InBlock
  <2> QED
    BY <1>1, <1>3, <1>4, <2>1
<1>6. Cardinality(OpenIn(y, p)) = p - y
  <2>1. Spans(b, b + 1, y, p)
    <3>1. y <= y /\ y <= p /\ p <= z
      BY <1>4, <1>5
    <3> QED
      BY <1>3, <3>1, Zenon DEF Spans
  <2>2. AllClear(b, b + 1)
    BY DEF AllClear
  <2>3. PICK k \in Nat : k = b + 1 /\ k <= nb
    BY <1>1
  <2>4. StretchCounts(b, k, y, p)
    BY <1>4, <2>1, <2>3, StretchBytes
  <2> QED
    BY <2>2, <2>3, <2>4 DEF StretchCounts
<1>7. Cardinality(OpenIn(0, y)) = bs * c
  <2>1. BytesOfBlocks(0, b)
    BY <1>1, ClearBytes
  <2>2. bs * 0 = 0
    BY <1>1
  <2> QED
    BY <1>2, <1>3, <2>1, <2>2, Zenon DEF BytesOfBlocks
<1>8. Cardinality(OpenIn(0, p)) = bs * c + (p - y)
  <2>1. Splits(0, y, p)
    BY <1>4, <1>5, OpenSplit
  <2> QED
    BY <1>6, <1>7, <2>1 DEF Splits
<1>9. PICK u, v : u = bs * c /\ v = bs * h
  OBVIOUS
<1>10. u \in Nat /\ v \in Nat /\ v + u = y
  <2>1. bs * (h + c) = (bs * h) + (bs * c)
    BY <1>1, <1>2, Distributes
  <2>2. bs * c \in Nat /\ bs * h \in Nat
    BY <1>1, <1>2, Multiples
  <2> QED
    BY <1>2, <1>3, <1>9, <2>1, <2>2
<1>11. bs * c + (p - y) = p - v
  <2>1. u + (p - y) = p - v
    BY <1>4, <1>10
  <2> QED
    BY <1>9, <2>1
<1> QED
  BY <1>2, <1>8, <1>9, <1>11

(* ftello_use_coverage_map() at a byte of a clear block.                   *)
LEMMA TellHidden ==
  ASSUME Sound, opt.use = TRUE, NEW p \in Nat, NEW b \in Nat, InBlock(p, b), b < nb,
         Covered(b) = FALSE, NEW t \in Tell(p)
  PROVE  t = p - bs * HiddenBlocks(0, b)
<1>1. PICK junk : t = LET cov == {c \in 0..b : IF c < nb THEN Covered(c) ELSE c \in junk}
                      IN  p - bs * Cardinality(cov)
                            - (IF b \in cov THEN Contribution(p) ELSE 0)
  BY DEF Tell, InBlock
<1>2. PICK cov : cov = {c \in 0..b : IF c < nb THEN Covered(c) ELSE c \in junk}
  OBVIOUS
<1>3. cov = HiddenIn(0, b)
  <2>1. \A c \in 0..b : c < nb /\ c \in 0..(nb - 1)
    BY DEF Sound
  <2>2. \A c \in 0..b : Covered(c) \in BOOLEAN
    BY <2>1 DEF Sound, Covered
  <2>3. ASSUME NEW c \in cov PROVE c \in HiddenIn(0, b)
    <3>1. c \in 0..b /\ Covered(c)
      BY <1>2, <2>1
    <3>2. c # b
      BY <3>1
    <3>3. c \in 0..(b - 1) /\ Covered(c) = TRUE
      BY <2>2, <3>1, <3>2
    <3> QED
      BY <3>3 DEF HiddenIn
  <2>4. ASSUME NEW c \in HiddenIn(0, b) PROVE c \in cov
    <3>1. c \in 0..(b - 1) /\ Covered(c) = TRUE
      BY DEF HiddenIn
    <3>2. c \in 0..b
      BY <3>1
    <3> QED
      BY <1>2, <2>1, <3>1, <3>2
  <2> QED
    BY <2>3, <2>4
<1>4. b \notin cov
  BY <1>3 DEF HiddenIn
<1>5. t = p - bs * Cardinality(cov) - (IF b \in cov THEN Contribution(p) ELSE 0)
  BY <1>1, <1>2, Zenon
<1>6. t = p - bs * HiddenBlocks(0, b) - 0
  BY <1>3, <1>4, <1>5, Zenon DEF HiddenBlocks
<1>7. bs * HiddenBlocks(0, b) \in Int
  <2>1. 0 \in Nat /\ 0 <= b /\ b <= nb /\ bs \in Nat
    BY DEF Sound
  <2>2. HiddenBlocks(0, b) \in Nat
    BY <2>1, BlocksCount
  <2> QED
    BY <2>1, <2>2, Multiples
<1> QED
  BY <1>6, <1>7

(* With no bitmap every byte is to be seen.                                *)
LEMMA PlainBelow ==
  ASSUME opt.use = FALSE, NEW p \in Nat
  PROVE  FreeBelow(p) = p
<1>1. {x \in 0..(p - 1) : Free(x)} = 0..(p - 1)
  BY DEF Free
<1>2. PICK q \in Int : q = p - 1
  OBVIOUS
<1>3. Cardinality(0..q) = IF 0 > q THEN 0 ELSE (q - 0) + 1
  BY FS_Interval
<1>4. Cardinality(0..q) = p
  BY <1>2, <1>3
<1> QED
  BY <1>1, <1>2, <1>4 DEF FreeBelow

(* Where ftello is in step, it gives the logical offset.                   *)
LEMMA TellIs ==
  ASSUME Geometry, Agree, NEW p \in Nat, TellsInStep(p), NEW t \in Tell(p)
  PROVE  t = FreeBelow(p) /\ Inside(p)
<1>1. Sound /\ opt.use \in BOOLEAN
  BY DEF Geometry
<1>2. CASE opt.use = FALSE
  <2>1. t = p
    BY <1>2 DEF Tell
  <2> QED
    BY <1>2, <2>1, PlainBelow DEF Inside
<1>3. CASE opt.use = TRUE
  <2>1. PICK b : b = p \div bs
    OBVIOUS
  <2>2. b \in Nat /\ b < nb /\ InBlock(p, b)
    <3>1. b \in Nat
      BY <1>1, <2>1, Division DEF Sound
    <3>2. b < nb
      BY <1>3, <2>1 DEF TellsInStep
    <3> QED
      BY <2>1, <3>1, <3>2 DEF InBlock
  <2>3. Covered(b) = FALSE
    <3>1. b \in 0..(nb - 1)
      BY <1>1, <2>2 DEF Sound
    <3>2. Covered(b) \in BOOLEAN
      BY <1>1, <3>1 DEF Sound, Covered
    <3>3. ~Covered(b)
      BY <1>3, <2>1 DEF TellsInStep
    <3> QED
      BY <3>2, <3>3
  <2>4. t = p - bs * HiddenBlocks(0, b)
    BY <1>1, <1>3, <2>2, <2>3, TellHidden
  <2>5. Cardinality(OpenIn(0, p)) = p - bs * HiddenBlocks(0, b)
    BY <1>1, <1>3, <2>2, <2>3, OpenBelow
  <2>6. Inside(p)
    BY <2>1, <2>2 DEF Inside
  <2>7. \A x \in Nat : x < p => Inside(x)
    BY <1>1, <2>6, InsideBelow
  <2>8. FreeBelow(p) = Cardinality(OpenIn(0, p))
    BY <2>7, FreeBelowIs
  <2> QED
    BY <2>4, <2>5, <2>6, <2>8
<1> QED
  BY <1>1, <1>2, <1>3

(* The bytes of a chunk, the first of which is at the logical offset begin. *)
ChunkRight(r, begin) ==
  /\ Lists(r, FreeFrom(r[1], Len(r)))
  /\ \A i \in DOMAIN r : r[i] < size
  /\ Free(r[1])
  /\ begin = FreeBelow(r[1])

(* A read in step that brings something: these are the next bytes that the *)
(* run ought to see.                                                       *)
ReadPlace(r, p, begin) ==
  ChunkRight(r, begin) /\ FreeBelow(r[1]) = FreeBelow(p) /\ Inside(p)

(* A read in step whose end can be told has its place: the program gives   *)
(* its first byte the logical offset that byte has.                        *)
LEMMA ReadPlaces ==
  ASSUME Geometry, Agree, NEW p \in Nat, NEW r, r = Read(p), NEW a, a = AfterRead(p),
         r # <<>>, ReadsInStep(p, BufSize), TellsInStep(a), NEW t \in Tell(a)
  PROVE  ReadPlace(r, p, t - Len(r))
<1>1. Sound /\ size \in Nat /\ opt.use \in BOOLEAN
  BY DEF Geometry
<1>2. ReadGives(r, a, p)
  BY ReadInStep
<1>3. r \in Seq(Nat) /\ a \in Nat /\ p <= a
  BY <1>2 DEF ReadGives
<1>4. t = FreeBelow(a) /\ Inside(a)
  BY <1>3, TellIs
<1>5. Open(a)
  <2>1. a \div bs \in Nat
    BY <1>1, <1>3, Division DEF Sound
  <2>2. ASSUME opt.use PROVE Clear(a)
    <3>1. a \div bs < nb /\ ~Covered(a \div bs)
      BY <2>2 DEF TellsInStep
    <3>2. a \div bs \in 0..(nb - 1)
      BY <1>1, <2>1, <3>1 DEF Sound
    <3>3. Covered(a \div bs) \in BOOLEAN
      BY <1>1, <3>2 DEF Sound, Covered
    <3> QED
      BY <3>1, <3>3 DEF Clear
  <2> QED
    BY <2>2 DEF Open
<1>6. a <= size
  BY <1>2, <1>5 DEF ReadGives
<1>7. PICK L : L = {x \in p..(a - 1) : Open(x) /\ x < size}
  OBVIOUS
<1>8. L = OpenIn(p, a)
  <2>1. \A x \in p..(a - 1) : x < size
    BY <1>1, <1>3, <1>6
  <2> QED
    BY <1>7, <2>1 DEF OpenIn
<1>9. Lists(r, L)
  BY <1>2, <1>7 DEF ReadGives
<1>10. PICK n \in Nat : n = Len(r) /\ DOMAIN r = 1..n
  BY <1>3, LenProperties
<1>11. n # 0 /\ 1 \in DOMAIN r
  <2>1. n # 0
    BY <1>3, <1>10
  <2> QED
    BY <1>10, <2>1
<1>12. PICK q \in Nat : q = r[1]
  BY <1>3, <1>10, <1>11
<1>13. q \in L /\ \A x \in L : q <= x
  <2>1. \A i \in DOMAIN r : r[i] \in L
    BY <1>9 DEF Lists
  <2>2. ASSUME NEW x \in L PROVE q <= x
    <3>1. PICK i \in DOMAIN r : r[i] = x
      BY <1>9 DEF Lists
    <3>2. x \in Nat
      BY <1>3, <3>1
    <3>3. i = 1 \/ 1 < i
      BY <1>10
    <3>4. 1 < i => q < x
      BY <1>9, <1>11, <1>12, <3>1 DEF Lists
    <3> QED
      BY <1>12, <3>1, <3>2, <3>3, <3>4
  <2> QED
    BY <1>11, <1>12, <2>1, <2>2
<1>14. p <= q /\ q < a /\ Open(q)
  BY <1>3, <1>8, <1>12, <1>13 DEF OpenIn
<1>15. OpenIn(p, q) = {}
  <2>1. ASSUME NEW x \in OpenIn(p, q) PROVE FALSE
    <3>1. x \in p..(q - 1) /\ Open(x)
      BY DEF OpenIn
    <3>2. x \in p..(a - 1) /\ ~(q <= x)
      BY <1>3, <1>12, <1>14, <3>1
    <3>3. x \in L
      BY <1>8, <3>1, <3>2 DEF OpenIn
    <3> QED
      BY <1>13, <3>2, <3>3
  <2> QED
    BY <2>1
<1>16. Splits(0, p, q) /\ Splits(0, q, a) /\ Splits(p, q, a)
  BY <1>3, <1>12, <1>14, OpenSplit
<1>17. OpenIn(q, a) = L
  BY <1>8, <1>15, <1>16 DEF Splits
<1>18. Cardinality(OpenIn(q, a)) = n
  BY <1>3, <1>9, <1>10, <1>17, ListsCount
<1>19. \A x \in Nat : x <= a => Inside(x)
  BY <1>1, <1>3, <1>4, InsideBelow
<1>20. Inside(p) /\ Inside(q)
  BY <1>3, <1>12, <1>14, <1>19
<1>21. /\ FreeBelow(p) = Cardinality(OpenIn(0, p)) /\ FreeBelow(q) = Cardinality(OpenIn(0, q))
       /\ FreeBelow(a) = Cardinality(OpenIn(0, a))
  <2>1. FreeBelow(p) = Cardinality(OpenIn(0, p))
    <3>1. \A x \in Nat : x < p => Inside(x)
      BY <1>3, <1>19
    <3> QED
      BY <3>1, FreeBelowIs
  <2>2. FreeBelow(q) = Cardinality(OpenIn(0, q))
    <3>1. \A x \in Nat : x < q => Inside(x)
      BY <1>3, <1>12, <1>14, <1>19
    <3> QED
      BY <1>12, <3>1, FreeBelowIs
  <2>3. FreeBelow(a) = Cardinality(OpenIn(0, a))
    <3>1. \A x \in Nat : x < a => Inside(x)
      BY <1>3, <1>19
    <3> QED
      BY <1>3, <3>1, FreeBelowIs
  <2> QED
    BY <2>1, <2>2, <2>3
<1>22. FreeBelow(q) = FreeBelow(p)
  <2>1. Cardinality(OpenIn(p, q)) = 0
    BY <1>15, FS_EmptySet
  <2> QED
    BY <1>16, <1>21, <2>1 DEF Splits
<1>23. t - n = FreeBelow(q)
  <2>1. PICK u, v : u = FreeBelow(q) /\ v = FreeBelow(a)
    OBVIOUS
  <2>2. u \in Nat /\ v \in Nat /\ v = u + n
    BY <1>16, <1>18, <1>21, <2>1 DEF Splits
  <2> QED
    BY <1>4, <1>10, <2>1, <2>2
<1>24. FreeFrom(q, n) = L
  <2>1. CASE opt.use = TRUE
    <3>1. FirstOpen(q, n, a)
      BY <1>10, <1>18 DEF FirstOpen
    <3>2. q <= a
      BY <1>3, <1>12, <1>14
    <3>3. FreeFrom(q, n) = OpenIn(q, a)
      BY <1>1, <1>3, <2>1, <3>1, <3>2, FreeFromIs
    <3> QED
      BY <1>17, <3>3
  <2>2. CASE opt.use = FALSE
    <3>1. OpenIn(q, a) = q..(a - 1)
      BY <2>2 DEF OpenIn, Open
    <3>2. PICK c \in Int : c = a - 1
      BY <1>3
    <3>10. q \in Int
      OBVIOUS
    <3>3. Cardinality(q..c) = IF q > c THEN 0 ELSE (c - q) + 1
      BY <3>10, FS_Interval
    <3>7. Cardinality(q..c) = n
      BY <1>18, <3>1, <3>2
    <3>8. q <= c
      BY <1>3, <1>12, <1>14, <3>2
    <3>9. n = (c - q) + 1
      BY <1>12, <3>3, <3>7, <3>8
    <3>11. a \in Int /\ q \in Int /\ n \in Int
      BY <1>3, <1>12
    <3>4. n = a - q
      BY <3>2, <3>9, <3>11
    <3>5. FreeFrom(q, n) = q..((q + n) - 1)
      BY <2>2 DEF FreeFrom
    <3>6. (q + n) - 1 = a - 1
      BY <1>3, <1>12, <3>4
    <3> QED
      BY <1>17, <3>1, <3>5, <3>6
  <2> QED
    BY <1>1, <2>1, <2>2
<1>25. Free(q)
  BY <1>12, <1>14, <1>20 DEF Agree
<1>26. \A i \in DOMAIN r : r[i] < size
  <2>1. \A i \in DOMAIN r : r[i] \in L
    BY <1>9 DEF Lists
  <2>2. \A x \in L : x < size
    BY <1>7
  <2> QED
    BY <2>1, <2>2
<1>27. ChunkRight(r, t - Len(r))
  BY <1>9, <1>10, <1>12, <1>23, <1>24, <1>25, <1>26, Zenon DEF ChunkRight
<1> QED
  BY <1>12, <1>20, <1>22, <1>27 DEF ReadPlace

(* A seek forwards from block j by n open bytes, when it has come to the   *)
(* beginning of a stretch of covered blocks.                               *)
SeekAt(s, j, n) ==
  /\ s.b \in Nat /\ j <= s.b /\ s.b <= nb
  /\ s.q = bs * s.b
  /\ s.kept = bs * ClearBlocks(j, s.b)
  /\ s.o = n + bs * HiddenBlocks(j, s.b)
  /\ s.b = j \/ s.b = nb \/ Covered(s.b) = TRUE

(* Behind a clear block e - 1 the clear blocks end.                        *)
ClearEnds(e) == e <= nb /\ Covered(e - 1) = FALSE /\ (e = nb \/ Covered(e) = TRUE)

(* A turn goes on to the end of the next clear blocks.                     *)
SeekGoesOn(s, t, j, n) ==
  /\ SeekAt(t, j, n) /\ s.b < t.b
  /\ \A e \in Nat : s.b < e /\ ClearEnds(e) => t.b <= e

(* A turn of fseeko_use_coverage_map() from there does so, unless the seek *)
(* has come to its end.                                                    *)
LEMMA SeekTurnAt ==
  ASSUME Sound, NEW s \in Seeking, SeeksOn(s), NEW j \in Nat, NEW n \in Nat, SeekAt(s, j, n)
  PROVE  SeekGoesOn(s, SeekTurn(s, 1), j, n)
<1>1. bs \in Nat \ {0} /\ nb \in Nat
  BY DEF Sound
<1>2. PICK b \in Nat : b = s.b /\ j <= b /\ b < nb
  <2>1. s.b \in Nat /\ j <= s.b
    BY Zenon DEF SeekAt
  <2>2. s.b \in 0..(nb - 1)
    BY Zenon DEF SeeksOn
  <2>3. s.b < nb
    BY <1>1, <2>2
  <2> QED
    BY <2>1, <2>3
<1>3. PICK u \in 0..nb : u = RunLength(b, TRUE, 1)
  BY RunUp
<1>4. u \in Nat
  BY <1>1
<1>5. /\ \A k \in b..((b + u) - 1) : k < nb /\ Covered(k) = TRUE
      /\ b + u < nb => Covered(b + u) # TRUE
  BY <1>3, RunUp
<1>6. PICK c \in Nat : c = b + u
  BY <1>4
<1>7. PICK v \in 0..nb : v = RunLength(c, FALSE, 1)
  BY RunUp
<1>8. v \in Nat
  BY <1>1
<1>9. /\ \A k \in c..((c + v) - 1) : k < nb /\ Covered(k) = FALSE
      /\ c + v < nb => Covered(c + v) # FALSE
  BY <1>7, RunUp
<1>10. PICK d \in Nat : d = c + v
  BY <1>8
<1>11. b <= c /\ c <= d /\ c <= nb /\ d <= nb /\ c - b = u /\ d - c = v
  <2>1. c <= nb
    <3>1. CASE u = 0
      BY <1>1, <1>2, <1>6, <3>1
    <3>2. CASE u # 0
      <4>1. c - 1 \in b..((b + u) - 1)
        BY <1>4, <1>6, <3>2
      <4>2. c - 1 < nb
        BY <1>5, <4>1
      <4> QED
        BY <1>1, <4>2
    <3> QED
      BY <3>1, <3>2
  <2>2. d <= nb
    <3>1. CASE v = 0
      BY <1>10, <2>1, <3>1
    <3>2. CASE v # 0
      <4>1. d - 1 \in c..((c + v) - 1)
        BY <1>8, <1>10, <3>2
      <4>2. d - 1 < nb
        BY <1>9, <4>1
      <4> QED
        BY <1>1, <4>2
    <3> QED
      BY <3>1, <3>2
  <2> QED
    BY <1>4, <1>6, <1>8, <1>10, <2>1, <2>2
<1>12. AllHidden(b, c) /\ AllClear(c, d)
  BY <1>5, <1>6, <1>9, <1>10 DEF AllHidden, AllClear
<1>13. b < d
  <2>1. ASSUME c = b, d = c PROVE FALSE
    <3>1. Covered(b) # TRUE /\ Covered(b) # FALSE
      <4>1. b + u = b /\ c + v = b
        BY <1>6, <1>10, <2>1
      <4> QED
        BY <1>2, <1>5, <1>9, <4>1
    <3>2. b \in 0..(nb - 1)
      BY <1>1, <1>2
    <3>3. Covered(b) \in BOOLEAN
      BY <3>2 DEF Sound, Covered
    <3> QED
      BY <3>1, <3>3
  <2> QED
    BY <1>11, <2>1
<1>14. d = nb \/ Covered(d) = TRUE
  <2>1. ASSUME d # nb PROVE Covered(d) = TRUE
    <3>1. d \in 0..(nb - 1) /\ c + v < nb
      BY <1>1, <1>10, <1>11, <2>1
    <3>2. Covered(d) \in BOOLEAN
      BY <3>1 DEF Sound, Covered
    <3>3. Covered(d) # FALSE
      BY <1>9, <1>10, <3>1
    <3> QED
      BY <3>2, <3>3
  <2> QED
    BY <2>1
<1>15. ASSUME NEW e \in Nat, b < e, ClearEnds(e) PROVE d <= e
  <2>1. e - 1 \notin b..((b + u) - 1)
    BY <1>5, <1>15 DEF ClearEnds
  <2>2. c <= e - 1
    BY <1>6, <1>15, <2>1
  <2>3. e \notin c..((c + v) - 1)
    BY <1>9, <1>15 DEF ClearEnds
  <2> QED
    BY <1>10, <2>2, <2>3
<1>16. PICK H \in Nat, C \in Nat : H = HiddenBlocks(j, b) /\ C = ClearBlocks(j, b)
  <2>1. b <= nb
    BY <1>1, <1>2
  <2> QED
    BY <1>2, <2>1, BlocksCount
<1>17. HiddenBlocks(j, d) = H + u /\ ClearBlocks(j, d) = C + v
  <2>1. HiddenBlocks(j, c) = H + u /\ ClearBlocks(j, c) = C
    BY <1>2, <1>11, <1>12, <1>16, BlocksGoOn
  <2>2. j <= c
    BY <1>2, <1>11
  <2>3. HiddenBlocks(j, d) = HiddenBlocks(j, c) /\ ClearBlocks(j, d) = ClearBlocks(j, c) + v
    BY <1>11, <1>12, <2>2, BlocksGoOn
  <2> QED
    BY <2>1, <2>3
<1>18. PICK q \in Nat : q = s.q /\ q = bs * b
  BY <1>1, <1>2, Multiples DEF SeekAt
<1>19. PICK x \in Nat, y \in Nat : x = bs * u /\ y = bs * v
  BY <1>1, <1>4, <1>8, Multiples
<1>20. bs * c = q + x /\ bs * d = (q + x) + y
  <2>1. bs * (b + u) = (bs * b) + (bs * u)
    BY <1>1, <1>2, <1>4, Distributes
  <2>2. bs * (c + v) = (bs * c) + (bs * v)
    BY <1>1, <1>8, Distributes
  <2> QED
    BY <1>6, <1>10, <1>18, <1>19, <2>1, <2>2
<1>21. Skips(s, 1) = x
  <2>1. q % bs = 0
    <3>1. bs * b <= q /\ q < (bs * b) + bs
      BY <1>1, <1>18
    <3>2. q % bs = q - (bs * b)
      BY <1>1, <3>1, QuotientIs
    <3> QED
      BY <1>18, <3>2
  <2>2. Contribution(q) = bs
    BY <2>1, ContributionIs
  <2>3. Skips(s, 1) = 1 * (u * bs)
    BY <1>2, <1>3, <1>18, <2>2 DEF Skips, Jumped
  <2>4. u * bs = x
    BY <1>1, <1>4, <1>19, Distributes
  <2> QED
    BY <2>3, <2>4
<1>22. More(s, 1) = v
  <2>1. b + (1 * u) = c
    BY <1>4, <1>6
  <2> QED
    BY <1>2, <1>3, <1>7, <2>1 DEF More, Jumped
<1>23. Keeps(s, 1) = y
  <2>1. PICK z \in Nat : z = q + x /\ z = bs * c
    BY <1>20
  <2>2. z % bs = 0
    <3>1. bs * c <= z /\ z < (bs * c) + bs
      BY <1>1, <2>1
    <3>2. z % bs = z - (bs * c)
      BY <1>1, <3>1, QuotientIs
    <3> QED
      BY <2>1, <3>2
  <2>3. Contribution(z) = bs
    BY <2>2, ContributionIs
  <2>4. Keeps(s, 1) = v * bs
    BY <1>18, <1>21, <1>22, <2>1, <2>3 DEF Keeps
  <2>5. v * bs = y
    BY <1>1, <1>8, <1>19, Distributes
  <2> QED
    BY <2>4, <2>5
<1>24. SeekTurn(s, 1) = [q |-> (q + x) + y, b |-> d, kept |-> s.kept + y, o |-> s.o + x]
  <2>1. SeekTurn(s, 1) = AfterSeekTurn(s, 1)
    BY SeekTurnIs
  <2>2. s.b + (1 * (Jumped(s, 1) + More(s, 1))) = d
    <3>1. Jumped(s, 1) = u
      BY <1>2, <1>3 DEF Jumped
    <3>2. b + (1 * (u + v)) = d
      BY <1>4, <1>6, <1>8, <1>10
    <3> QED
      BY <1>2, <1>22, <3>1, <3>2
  <2>3. (s.q + Skips(s, 1)) + (1 * Keeps(s, 1)) = (q + x) + y
    <3>1. 1 * y = y
      OBVIOUS
    <3> QED
      BY <1>18, <1>21, <1>23, <3>1
  <2> QED
    BY <1>21, <1>23, <2>1, <2>2, <2>3 DEF AfterSeekTurn
<1>25. s.kept + y = bs * ClearBlocks(j, d)
  <2>1. s.kept = bs * C
    BY <1>2, <1>16 DEF SeekAt
  <2>2. bs * (C + v) = (bs * C) + (bs * v)
    BY <1>1, <1>8, <1>16, Distributes
  <2> QED
    BY <1>17, <1>19, <2>1, <2>2
<1>26. s.o + x = n + bs * HiddenBlocks(j, d)
  <2>1. PICK h \in Nat : h = bs * H
    BY <1>1, <1>16, Multiples
  <2>2. s.o = n + h
    BY <1>2, <1>16, <2>1 DEF SeekAt
  <2>3. bs * (H + u) = h + x
    BY <1>1, <1>4, <1>16, <1>19, <2>1, Distributes
  <2>4. (n + h) + x = n + (h + x)
    BY <2>1
  <2> QED
    BY <1>17, <2>2, <2>3, <2>4
<1>27. PICK t : t = SeekTurn(s, 1)
  OBVIOUS
<1>28. /\ t.b = d /\ t.q = bs * d /\ t.kept = bs * ClearBlocks(j, d)
       /\ t.o = n + bs * HiddenBlocks(j, d)
  BY <1>20, <1>24, <1>25, <1>26, <1>27
<1>29. SeekAt(t, j, n)
  <2>1. d \in Nat /\ j <= d /\ d <= nb
    BY <1>2, <1>11, <1>13
  <2> QED
    BY <1>14, <1>28, <2>1, Zenon DEF SeekAt
<1> QED
  BY <1>2, <1>13, <1>15, <1>27, <1>28, <1>29 DEF SeekGoesOn

(* Where a seek forwards by n from block j comes to: the end e of clear    *)
(* blocks in which the target lies.                                        *)
SeekTarget(j, e, n) ==
  /\ j < e /\ ClearEnds(e)
  /\ bs * (ClearBlocks(j, e) - RunLength(e - 1, FALSE, -1)) < n
  /\ e = nb \/ bs * (ClearBlocks(j, e) - HiddenBlocks(j, e)) >= n

(* A seek that SeeksInStep allows has such a target.                       *)
LEMMA SeekTargetIs ==
  ASSUME Sound, opt.use = TRUE, NEW p \in Nat, NEW n \in Nat \ {0}, SeeksInStep(p, n),
         NEW j \in Nat, InBlock(p, j)
  PROVE  p % bs = 0 /\ \E e \in Nat : SeekTarget(j, e, n)
<1>1. bs \in Nat \ {0} /\ nb \in Nat
  BY DEF Sound
<1>2. /\ p % bs = 0
      /\ \E last \in j..(nb - 1) :
           LET hidden == Cardinality({b \in j..last : Covered(b)})
               kept   == ((last + 1) - j) - hidden
           IN  /\ ~Covered(last)
               /\ (kept - RunLength(last, FALSE, -1)) * bs < n
               /\ \/ last + 1 = nb
                  \/ Covered(last + 1) /\ (kept - hidden) * bs >= n
  BY Zenon DEF SeeksInStep, InBlock
<1>3. PICK last \in j..(nb - 1) :
        LET hidden == Cardinality({b \in j..last : Covered(b)})
            kept   == ((last + 1) - j) - hidden
        IN  /\ ~Covered(last)
            /\ (kept - RunLength(last, FALSE, -1)) * bs < n
            /\ \/ last + 1 = nb
               \/ Covered(last + 1) /\ (kept - hidden) * bs >= n
  BY <1>2
<1>4. PICK e \in Nat : e = last + 1
  BY <1>1
<1>5. last = e - 1 /\ last \in Nat /\ j < e /\ e <= nb /\ last \in 0..(nb - 1)
  BY <1>1, <1>4
<1>6. \A b \in 0..(nb - 1) : Covered(b) \in BOOLEAN
  BY DEF Sound, Covered
<1>7. {b \in j..last : Covered(b)} = HiddenIn(j, e)
  <2>1. \A b \in j..last : b \in 0..(nb - 1)
    BY <1>1
  <2>2. ASSUME NEW b \in j..last, Covered(b) PROVE Covered(b) = TRUE
    BY <1>6, <2>1, <2>2
  <2>3. j..last = j..(e - 1)
    BY <1>5
  <2>4. ASSUME NEW b, b \in j..last, Covered(b) PROVE b \in HiddenIn(j, e)
    BY <2>2, <2>3, <2>4 DEF HiddenIn
  <2>5. ASSUME NEW b \in HiddenIn(j, e) PROVE b \in j..last /\ Covered(b)
    <3>1. b \in j..(e - 1) /\ Covered(b) = TRUE
      BY DEF HiddenIn
    <3> QED
      BY <2>3, <3>1
  <2> QED
    BY <2>4, <2>5
<1>8. PICK H \in Nat, C \in Nat : H = HiddenBlocks(j, e) /\ C = ClearBlocks(j, e) /\ H + C = e - j
  BY <1>5, BlocksCount
<1>9. PICK r \in 0..nb : r = RunLength(last, FALSE, -1)
  <2>1. last \in Int
    BY <1>5
  <2> QED
    BY <2>1, RunDown DEF Downs
<1>10. PICK kept : kept = ((last + 1) - j) - H
  OBVIOUS
<1>11. kept = C
  BY <1>4, <1>5, <1>8, <1>10
<1>12. /\ ~Covered(last)
       /\ (kept - r) * bs < n
       /\ last + 1 = nb \/ (Covered(last + 1) /\ (kept - H) * bs >= n)
  BY <1>3, <1>7, <1>8, <1>9, <1>10, Zenon DEF HiddenBlocks
<1>13. bs * (C - r) < n
  <2>1. C - r \in Int /\ bs \in Int
    BY <1>1
  <2>2. bs * (C - r) = (C - r) * bs
    BY <2>1, Distributes
  <2> QED
    BY <1>11, <1>12, <2>2
<1>14. e = nb \/ (Covered(e) = TRUE /\ bs * (C - H) >= n)
  <2>1. C - H \in Int /\ bs \in Int
    BY <1>1
  <2>2. bs * (C - H) = (C - H) * bs
    BY <2>1, Distributes
  <2>3. ASSUME e # nb PROVE Covered(e) = TRUE
    <3>1. e \in 0..(nb - 1)
      BY <1>1, <1>5, <2>3
    <3>2. Covered(e)
      BY <1>4, <1>12, <2>3
    <3> QED
      BY <1>6, <3>1, <3>2
  <2> QED
    BY <1>4, <1>11, <1>12, <2>2, <2>3
<1>15. Covered(e - 1) = FALSE
  BY <1>5, <1>6, <1>12
<1>16. ClearEnds(e)
  BY <1>5, <1>14, <1>15 DEF ClearEnds
<1>17. RunLength(e - 1, FALSE, -1) = r
  BY <1>5, <1>9
<1>18. SeekTarget(j, e, n)
  BY <1>5, <1>8, <1>13, <1>14, <1>16, <1>17, Zenon DEF SeekTarget
<1> QED
  BY <1>2, <1>18

(* The clear blocks that end there begin at S, or before the seek does.    *)
StretchOf(S, j, e, n) ==
  j <= S /\ S < e /\ AllClear(S, e) /\ (S = j \/ bs * ClearBlocks(j, S) < n)

(* There is such a beginning.                                              *)
LEMMA StretchBegins ==
  ASSUME Sound, NEW n \in Nat \ {0}, NEW j \in Nat, NEW e \in Nat, SeekTarget(j, e, n)
  PROVE  \E S \in Nat : StretchOf(S, j, e, n)
<1>1. bs \in Nat \ {0} /\ nb \in Nat
  BY DEF Sound
<1>2. j < e /\ e <= nb /\ Covered(e - 1) = FALSE
  BY Zenon DEF SeekTarget, ClearEnds
<1>3. PICK r : r = RunLength(e - 1, FALSE, -1)
  OBVIOUS
<1>4. Downs(e - 1, FALSE, r)
  <2>1. e - 1 \in Int
    OBVIOUS
  <2> QED
    BY <1>3, <2>1, RunDown
<1>5. r \in Nat /\ \A k \in (((e - 1) - r) + 1)..(e - 1) : Covered(k) = FALSE
  BY <1>1, <1>4 DEF Downs
<1>6. r # 0
  <2>1. ASSUME r = 0 PROVE FALSE
    <3>1. (e - 1) - r \in 0..(nb - 1) /\ (e - 1) - r = e - 1
      BY <1>1, <1>2, <2>1
    <3>2. Covered((e - 1) - r) # FALSE
      BY <1>4, <3>1 DEF Downs
    <3> QED
      BY <1>2, <3>1, <3>2
  <2> QED
    BY <2>1
<1>7. CASE j <= e - r
  <2>1. PICK S \in Nat : S = e - r
    BY <1>5, <1>7
  <2>2. S <= e /\ j <= S /\ S < e /\ e - S = r
    BY <1>5, <1>6, <1>7, <2>1
  <2>3. AllClear(S, e)
    <3>1. ((e - 1) - r) + 1 = S
      BY <1>5, <2>1
    <3> QED
      BY <1>5, <3>1 DEF AllClear
  <2>4. ClearBlocks(j, e) = ClearBlocks(j, S) + r
    BY <1>2, <2>2, <2>3, BlocksGoOn
  <2>5. ClearBlocks(j, S) \in Nat
    <3>1. S <= nb
      BY <1>1, <1>2, <2>2
    <3> QED
      BY <2>2, <3>1, BlocksCount
  <2>6. ClearBlocks(j, e) - r = ClearBlocks(j, S)
    BY <1>5, <2>4, <2>5
  <2>7. bs * ClearBlocks(j, S) < n
    BY <1>3, <2>6, Zenon DEF SeekTarget
  <2> QED
    BY <2>2, <2>3, <2>7 DEF StretchOf
<1>8. CASE ~(j <= e - r)
  <2>1. AllClear(j, e)
    <3>1. ASSUME NEW b \in j..(e - 1) PROVE b \in (((e - 1) - r) + 1)..(e - 1)
      BY <1>5, <1>8
    <3> QED
      BY <1>5, <3>1 DEF AllClear
  <2> QED
    BY <1>2, <2>1 DEF StretchOf
<1> QED
  BY <1>7, <1>8

(* The turns lead there.                                                   *)
LEMMA SeekComesTo ==
  ASSUME Sound, NEW n \in Nat \ {0}, NEW j \in Nat, NEW e \in Nat, SeekTarget(j, e, n),
         NEW p \in Nat, p = bs * j, InBlock(p, j), NEW f, SeekRun(f, p, n)
  PROVE  f[nb].o = n + bs * HiddenBlocks(j, e)
<1>1. bs \in Nat \ {0} /\ nb \in Nat
  BY DEF Sound
<1>2. j < e /\ e <= nb /\ ClearEnds(e)
  BY Zenon DEF SeekTarget, ClearEnds
<1>3. /\ \A i \in 0..nb : f[i] \in Seeking
      /\ f[0] = [q |-> p, b |-> j, kept |-> 0, o |-> n]
      /\ \A i \in 1..nb : f[i] = SeekTurn(f[i - 1], 1)
  <2>1. Sign(n) = 1
    BY DEF Sign
  <2> QED
    BY <2>1 DEF SeekRun, Aims, InBlock
<1>4. HiddenBlocks(j, j) = 0 /\ ClearBlocks(j, j) = 0
  <2>1. HiddenIn(j, j) = {} /\ ClearIn(j, j) = {}
    BY DEF HiddenIn, ClearIn
  <2> QED
    BY <2>1, FS_EmptySet DEF HiddenBlocks, ClearBlocks
<1>5. ASSUME NEW s \in Seeking, SeekAt(s, j, n)
      PROVE  /\ s.b \in Nat /\ s.kept \in Int /\ s.o \in Nat /\ n <= s.o /\ Abs(s.o) = s.o
             /\ HiddenBlocks(j, s.b) \in Nat /\ ClearBlocks(j, s.b) \in Nat
  <2>1. s.b \in Nat /\ j <= s.b /\ s.b <= nb
    BY <1>5, Zenon DEF SeekAt
  <2>2. HiddenBlocks(j, s.b) \in Nat /\ ClearBlocks(j, s.b) \in Nat
    BY <2>1, BlocksCount
  <2>3. PICK h \in Nat : h = bs * HiddenBlocks(j, s.b)
    BY <1>1, <2>2, Multiples
  <2>4. s.o = n + h
    BY <1>5, <2>3, Zenon DEF SeekAt
  <2>5. s.o \in Nat /\ n <= s.o
    BY <2>4
  <2> QED
    BY <2>1, <2>2, <2>5 DEF Seeking, Abs
<1>6. ASSUME NEW s \in Seeking, SeekAt(s, j, n), s.b = e
      PROVE  ~SeeksOn(s)
  <2>1. CASE e = nb
    BY <1>1, <1>6, <2>1 DEF SeeksOn
  <2>2. CASE e # nb
    <3>1. bs * (ClearBlocks(j, e) - HiddenBlocks(j, e)) >= n
      BY <2>2, Zenon DEF SeekTarget
    <3>2. PICK C \in Nat, H \in Nat : C = ClearBlocks(j, e) /\ H = HiddenBlocks(j, e)
      BY <1>5, <1>6
    <3>3. PICK c \in Nat, h \in Nat : c = bs * C /\ h = bs * H
      BY <1>1, <3>2, Multiples
    <3>4. bs * (C - H) = c - h
      BY <1>1, <3>2, <3>3, Distributes
    <3>5. c - h >= n
      BY <3>1, <3>2, <3>4
    <3>6. s.kept = c /\ s.o = n + h
      BY <1>6, <3>2, <3>3, Zenon DEF SeekAt
    <3>7. s.kept >= Abs(s.o)
      BY <3>5, <3>6 DEF Abs
    <3> QED
      BY <3>7 DEF SeeksOn
  <2> QED
    BY <2>1, <2>2
<1> DEFINE Well(i) == /\ SeekAt(f[i], j, n) /\ f[i].b <= e
                      /\ SeeksOn(f[i]) => i <= f[i].b
<1>7. Well(0)
  <2>1. f[0].b = j /\ f[0].q = p /\ f[0].kept = 0 /\ f[0].o = n
    BY <1>3
  <2>2. bs * ClearBlocks(j, j) = 0 /\ n + bs * HiddenBlocks(j, j) = n
    BY <1>1, <1>4
  <2>3. j \in Nat /\ j <= j /\ j <= nb /\ j <= e /\ 0 <= j
    BY <1>1, <1>2
  <2>4. SeekAt(f[0], j, n)
    BY <2>1, <2>2, <2>3, Zenon DEF SeekAt
  <2> QED
    BY <2>1, <2>3, <2>4
<1>8. ASSUME NEW i \in 1..nb, Well(i - 1) PROVE Well(i)
  <2>1. PICK s \in Seeking : s = f[i - 1]
    BY <1>1, <1>3
  <2>2. PICK t \in Seeking : t = f[i] /\ t = SeekTurn(s, 1)
    BY <1>1, <1>3, <2>1
  <2>3. SeekAt(s, j, n) /\ s.b <= e /\ (SeeksOn(s) => i - 1 <= s.b)
    BY <1>8, <2>1
  <2>4. CASE SeeksOn(s)
    <3>1. SeekGoesOn(s, t, j, n)
      BY <2>2, <2>3, <2>4, SeekTurnAt
    <3>2. s.b \in Nat /\ t.b \in Nat
      BY <1>5, <2>3, <3>1 DEF SeekGoesOn
    <3>3. s.b # e
      BY <1>6, <2>3, <2>4
    <3>4. s.b < e
      BY <2>3, <3>2, <3>3
    <3>5. t.b <= e /\ s.b < t.b
      BY <1>2, <3>1, <3>4, Zenon DEF SeekGoesOn
    <3>6. i <= t.b
      BY <2>3, <2>4, <3>2, <3>5
    <3>7. SeekAt(t, j, n)
      BY <3>1 DEF SeekGoesOn
    <3> QED
      BY <2>2, <3>5, <3>6, <3>7
  <2>5. CASE ~SeeksOn(s)
    <3>1. t = s
      BY <2>2, <2>5, SeekTurnIs
    <3> QED
      BY <2>2, <2>3, <2>5, <3>1
  <2> QED
    BY <2>4, <2>5
<1> DEFINE Wrong == {i \in 0..nb : ~Well(i)}
<1>9. Wrong = {}
  <2> HIDE DEF Well
  <2> SUFFICES ASSUME Wrong # {} PROVE FALSE
    OBVIOUS
  <2>1. PICK i \in Wrong : \A k \in Wrong : i <= k
    <3>1. Wrong \in SUBSET Nat
      BY <1>1
    <3> QED
      BY <3>1, LeastExists
  <2>2. i # 0
    BY <1>7, <2>1
  <2>3. i \in 1..nb /\ i - 1 \in 0..nb /\ ~(i <= i - 1)
    BY <1>1, <2>1, <2>2
  <2>4. Well(i - 1)
    BY <2>1, <2>3
  <2> QED
    BY <1>8, <2>1, <2>3, <2>4
<1>10. Well(nb)
  <2> HIDE DEF Well
  <2>1. nb \in 0..nb
    BY <1>1
  <2> QED
    BY <1>9, <2>1
<1>11. PICK s \in Seeking : s = f[nb]
  BY <1>1, <1>3
<1>12. SeekAt(s, j, n) /\ s.b <= e /\ ~SeeksOn(s)
  <2>1. SeekAt(s, j, n) /\ s.b <= e /\ (SeeksOn(s) => nb <= s.b)
    BY <1>10, <1>11
  <2>2. SeeksOn(s) => s.b \in 0..(nb - 1)
    BY DEF SeeksOn
  <2>3. s.b \in 0..(nb - 1) => ~(nb <= s.b)
    BY <1>1
  <2> QED
    BY <2>1, <2>2, <2>3
<1>13. s.b = e
  <2> SUFFICES ASSUME s.b # e PROVE FALSE
    OBVIOUS
  <2>1. PICK b \in Nat : b = s.b /\ j <= b /\ b < e /\ b < nb /\ (b = j \/ Covered(b) = TRUE)
    <3>1. s.b \in Nat /\ j <= s.b /\ (s.b = j \/ s.b = nb \/ Covered(s.b) = TRUE)
      BY <1>12, Zenon DEF SeekAt
    <3>2. s.b < e /\ s.b < nb /\ s.b # nb
      BY <1>1, <1>2, <1>12, <3>1
    <3> QED
      BY <3>1, <3>2
  <2>2. b \in 0..(nb - 1)
    BY <1>1, <2>1
  <2>3. s.kept >= Abs(s.o)
    BY <1>12, <2>1, <2>2 DEF SeeksOn
  <2>4. n <= s.kept
    <3>1. s.kept \in Int /\ s.o \in Nat /\ n <= s.o /\ Abs(s.o) = s.o
      BY <1>5, <1>12
    <3> QED
      BY <2>3, <3>1
  <2>5. PICK C \in Nat : C = ClearBlocks(j, b) /\ s.kept = bs * C
    <3>1. ClearBlocks(j, b) \in Nat
      BY <1>5, <1>12, <2>1
    <3> QED
      BY <1>12, <2>1, <3>1, Zenon DEF SeekAt
  <2>6. CASE b = j
    <3>1. s.kept = 0
      BY <1>1, <1>4, <2>5, <2>6
    <3> QED
      BY <2>4, <3>1
  <2>7. CASE b # j
    <3>1. PICK S \in Nat : StretchOf(S, j, e, n)
      BY StretchBegins
    <3>2. Covered(b) = TRUE
      BY <2>1, <2>7
    <3>3. b < S
      <4>1. b \notin S..(e - 1)
        BY <3>1, <3>2 DEF StretchOf, AllClear
      <4> QED
        BY <2>1, <4>1
    <3>4. S # j
      BY <2>1, <3>3
    <3>5. bs * ClearBlocks(j, S) < n /\ S < e /\ j <= S
      BY <3>1, <3>4 DEF StretchOf
    <3>6. S <= nb /\ b <= S
      BY <1>1, <1>2, <3>3, <3>5
    <3>7. PICK D \in Nat : D = ClearBlocks(j, S)
      BY <3>5, <3>6, BlocksCount
    <3>8. C <= D
      BY <2>1, <2>5, <3>6, <3>7, ClearGrow
    <3>9. bs * C <= bs * D /\ bs * C \in Nat /\ bs * D \in Nat
      BY <1>1, <3>8, Multiples
    <3> QED
      BY <2>4, <2>5, <3>5, <3>7, <3>9
  <2> QED
    BY <2>6, <2>7
<1> QED
  BY <1>11, <1>12, <1>13, Zenon DEF SeekAt

(* A seek forwards in step passes n open bytes.                            *)
LEMMA SeekPasses ==
  ASSUME Geometry, opt.use = TRUE, NEW p \in Nat, NEW n \in Nat \ {0}, SeeksInStep(p, n),
         NEW q, q = Seek(p, n), Inside(q), Inside(p)
  PROVE  q \in Nat /\ p <= q /\ Cardinality(OpenIn(p, q)) = n
<1>1. Sound /\ bs \in Nat \ {0} /\ nb \in Nat
  BY DEF Geometry, Sound
<1>2. PICK j \in Nat : j = p \div bs /\ InBlock(p, j)
  BY <1>1, Division DEF InBlock
<1>3. p % bs = 0 /\ \E e \in Nat : SeekTarget(j, e, n)
  BY <1>1, <1>2, SeekTargetIs
<1>4. PICK e \in Nat : SeekTarget(j, e, n)
  BY <1>3
<1>5. p = bs * j
  <2>1. p = (bs * (p \div bs)) + (p % bs)
    BY <1>1, Division
  <2>2. bs * j \in Nat
    BY <1>1, Multiples
  <2> QED
    BY <1>2, <1>3, <2>1, <2>2
<1>6. PICK f : SeekRun(f, p, n) /\ SeekOffset(p, n) = f[nb].o
  <2>1. n \in Int
    OBVIOUS
  <2> QED
    BY <1>1, <2>1, SeekOffsetIs
<1>7. SeekOffset(p, n) = n + bs * HiddenBlocks(j, e)
  BY <1>1, <1>2, <1>4, <1>5, <1>6, SeekComesTo
<1>8. PICK S \in Nat : StretchOf(S, j, e, n)
  BY <1>1, <1>4, StretchBegins
<1>9. j <= S /\ S < e /\ AllClear(S, e) /\ (S = j \/ bs * ClearBlocks(j, S) < n)
  BY <1>8 DEF StretchOf
<1>10. j < e /\ e <= nb /\ (e = nb \/ bs * (ClearBlocks(j, e) - HiddenBlocks(j, e)) >= n)
  BY <1>4, Zenon DEF SeekTarget, ClearEnds
<1>11. S <= nb /\ S <= e
  BY <1>1, <1>9, <1>10
<1>12. PICK H \in Nat, C \in Nat : H = HiddenBlocks(j, S) /\ C = ClearBlocks(j, S) /\ H + C = S - j
  BY <1>1, <1>9, <1>11, BlocksCount
<1>13. PICK k \in Nat : k = e - S
  BY <1>9
<1>14. HiddenBlocks(j, e) = H /\ ClearBlocks(j, e) = C + k
  BY <1>1, <1>9, <1>10, <1>11, <1>12, <1>13, BlocksGoOn
<1>15. PICK h \in Nat, c \in Nat, d \in Nat : h = bs * H /\ c = bs * C /\ d = bs * k
  BY <1>1, <1>12, <1>13, Multiples
<1>16. PICK y \in Nat, z \in Nat : y = bs * S /\ z = bs * e /\ y = p + (h + c) /\ z = y + d
  <2>1. S = j + (H + C) /\ e = S + k
    BY <1>9, <1>12, <1>13
  <2>2. bs * (H + C) = h + c
    BY <1>1, <1>12, <1>15, Distributes
  <2>3. H + C \in Nat
    BY <1>12
  <2>4. bs * (j + (H + C)) = (bs * j) + (bs * (H + C))
    BY <1>1, <2>3, Distributes
  <2>5. bs * (S + k) = (bs * S) + (bs * k)
    BY <1>1, <1>13, Distributes
  <2>6. bs * S \in Nat /\ bs * e \in Nat
    BY <1>1, Multiples
  <2> QED
    BY <1>5, <1>15, <2>1, <2>2, <2>4, <2>5, <2>6
<1>17. q = p + (n + h)
  <2>1. SeekOffset(p, n) = n + h
    BY <1>7, <1>14, <1>15
  <2>2. ~(p + (n + h) < 0)
    BY <1>15
  <2> QED
    BY <2>1, <2>2 DEF Seek
<1>18. q \in Nat /\ p <= q
  BY <1>15, <1>17
<1>19. c <= n
  <2>1. CASE S = j
    <3>1. C = 0
      BY <1>12, <2>1
    <3>2. c = 0
      BY <1>1, <1>15, <3>1
    <3> QED
      BY <3>2
  <2>2. CASE S # j
    <3>1. c < n
      BY <1>9, <1>12, <1>15, <2>2
    <3> QED
      BY <1>15, <3>1
  <2> QED
    BY <2>1, <2>2
<1>20. p <= y /\ y <= q
  BY <1>15, <1>16, <1>17, <1>19
<1>21. q <= z
  <2>1. CASE e = nb
    <3>1. q \div bs < nb
      BY DEF Inside
    <3>2. q < bs * nb
      BY <1>1, <1>18, <3>1, QuotientBounds
    <3> QED
      BY <1>16, <1>18, <2>1, <3>2
  <2>2. CASE e # nb
    <3>1. bs * ((C + k) - H) >= n
      BY <1>10, <1>14, <2>2, Zenon
    <3>2. bs * ((C + k) - H) = (bs * (C + k)) - h
      <4>1. C + k \in Int /\ H \in Int /\ bs \in Int
        BY <1>1, <1>12, <1>13
      <4> QED
        BY <1>15, <4>1, Distributes
    <3>3. bs * (C + k) = c + d
      BY <1>1, <1>12, <1>13, <1>15, Distributes
    <3>4. (c + d) - h >= n
      BY <3>1, <3>2, <3>3
    <3> QED
      BY <1>15, <1>16, <1>17, <3>4
  <2> QED
    BY <2>1, <2>2
<1>22. Cardinality(OpenIn(p, y)) = c
  <2>1. BytesOfBlocks(j, S)
    BY <1>1, <1>9, <1>11, ClearBytes
  <2> QED
    BY <1>5, <1>12, <1>15, <1>16, <2>1, Zenon DEF BytesOfBlocks
<1>23. Cardinality(OpenIn(y, q)) = q - y
  <2>1. Spans(S, e, y, q)
    <3>1. y <= y
      BY <1>16
    <3> QED
      BY <1>16, <1>20, <1>21, <3>1, Zenon DEF Spans
  <2>2. StretchCounts(S, e, y, q)
    BY <1>1, <1>10, <1>16, <1>18, <2>1, StretchBytes, Zenon
  <2> QED
    BY <1>9, <2>2 DEF StretchCounts
<1>24. Splits(p, y, q)
  BY <1>16, <1>18, <1>20, OpenSplit
<1>25. Cardinality(OpenIn(p, q)) = c + (q - y)
  BY <1>22, <1>23, <1>24 DEF Splits
<1>26. c + (q - y) = n
  BY <1>15, <1>16, <1>17
<1> QED
  BY <1>18, <1>25, <1>26

(* So it leads to the logical offset that was asked for.                   *)
LEMMA SeekPlaces ==
  ASSUME Geometry, Agree, NEW p \in Nat, NEW n \in Nat \ {0}, SeeksInStep(p, n),
         Inside(p), Inside(Seek(p, n))
  PROVE  FreeBelow(Seek(p, n)) = FreeBelow(p) + n
<1>1. Sound /\ opt.use \in BOOLEAN
  BY DEF Geometry
<1>2. PICK q : q = Seek(p, n)
  OBVIOUS
<1>3. CASE opt.use = FALSE
  <2>1. q = p + n
    <3>1. ~(p + n < 0)
      OBVIOUS
    <3> QED
      BY <1>2, <1>3, <3>1 DEF Seek
  <2>2. q \in Nat
    BY <2>1
  <2> QED
    BY <1>2, <1>3, <2>1, <2>2, PlainBelow
<1>4. CASE opt.use = TRUE
  <2>1. q \in Nat /\ p <= q /\ Cardinality(OpenIn(p, q)) = n
    BY <1>2, <1>4, SeekPasses
  <2>2. \A x \in Nat : x <= q => Inside(x)
    BY <1>1, <1>2, <2>1, InsideBelow
  <2>3. FreeBelow(q) = Cardinality(OpenIn(0, q))
    <3>1. \A x \in Nat : x < q => Inside(x)
      BY <2>1, <2>2
    <3> QED
      BY <2>1, <3>1, FreeBelowIs
  <2>4. FreeBelow(p) = Cardinality(OpenIn(0, p))
    <3>1. \A x \in Nat : x < p => Inside(x)
      BY <2>1, <2>2
    <3> QED
      BY <3>1, FreeBelowIs
  <2>5. Splits(0, p, q)
    BY <2>1, OpenSplit
  <2> QED
    BY <1>2, <2>1, <2>3, <2>4, <2>5 DEF Splits
<1> QED
  BY <1>1, <1>3, <1>4

(* A chunk stays right as long as the blocks counted at first do.          *)
LEMMA RightKept ==
  ASSUME NEW r, NEW begin, UNCHANGED <<size, opt, bs, nb>>, ghost'.marked = ghost.marked
  PROVE  ChunkRight(r, begin)' <=> ChunkRight(r, begin)
<1>1. \A p, n : FreeFrom(p, n)' = FreeFrom(p, n)
  BY FreeKept
<1>2. \A p : FreeBelow(p)' = FreeBelow(p) /\ (Free(p)' <=> Free(p))
  BY FreeKept
<1>3. FreeFrom(r[1], Len(r))' = FreeFrom(r[1], Len(r))
  BY <1>1
<1>4. FreeBelow(r[1])' = FreeBelow(r[1]) /\ (Free(r[1])' <=> Free(r[1]))
  BY <1>2
<1>5. Lists(r, FreeFrom(r[1], Len(r)))' <=> Lists(r, FreeFrom(r[1], Len(r)))
  BY <1>3 DEF Lists
<1> QED
  BY <1>4, <1>5 DEF ChunkRight

(* As long as the layer is in step, the last chunk is what was meant.      *)
MeantInv == LayerInv /\ ReadsMeantBytes

(* What is said of a chunk.                                                *)
LEMMA MeantIs ==
  ASSUME Steady /\ chunk # NoChunk =>
           ChunkRight(chunk.bytes, chunk.begin) /\ (pc = "carve" => chunk.begin = chunk.meant)
  PROVE  ReadsMeantBytes
BY DEF ReadsMeantBytes, ChunkRight

(* ReadsMeantBytes says this of the last chunk.                            *)
LEMMA IsMeant ==
  ASSUME ReadsMeantBytes, Steady, chunk # NoChunk
  PROVE  ChunkRight(chunk.bytes, chunk.begin) /\ (pc = "carve" => chunk.begin = chunk.meant)
BY DEF ReadsMeantBytes, ChunkRight

(* The steps that leave the last chunk.                                    *)
LEMMA MeantKept ==
  ASSUME MeantInv, Steady' => Steady, pc' = "carve" => pc = "carve",
         UNCHANGED <<size, opt, bs, nb, chunk>>, ghost'.marked = ghost.marked
  PROVE  ReadsMeantBytes'
<1>1. ASSUME Steady', chunk' # NoChunk
      PROVE  /\ ChunkRight(chunk.bytes, chunk.begin)'
             /\ pc' = "carve" => chunk'.begin = chunk'.meant
  <2>1. Steady /\ chunk # NoChunk
    BY <1>1
  <2>2. /\ ChunkRight(chunk.bytes, chunk.begin)
        /\ pc = "carve" => chunk.begin = chunk.meant
    BY <2>1, IsMeant DEF MeantInv
  <2>3. PICK r, begin : r = chunk.bytes /\ begin = chunk.begin
    OBVIOUS
  <2>4. ChunkRight(r, begin)'
    BY <2>2, <2>3, RightKept
  <2>5. chunk'.bytes = r /\ chunk'.begin = begin
    BY <2>3
  <2> QED
    BY <2>2, <2>4, <2>5 DEF ChunkRight
<1>2. NoChunk' = NoChunk
  BY DEF NoChunk
<1> QED
  BY <1>1, <1>2, Zenon DEF ReadsMeantBytes, ChunkRight

(* A chunk that is read in a step.                                         *)
LEMMA MeantRead ==
  ASSUME NEW r, NEW begin, NEW meant, ChunkRight(r, begin),
         pc' = "carve" => begin = meant,
         UNCHANGED <<size, opt, bs, nb>>, ghost'.marked = ghost.marked,
         chunk' = [bytes |-> r, begin |-> begin, meant |-> meant]
  PROVE  ReadsMeantBytes'
<1>1. ChunkRight(r, begin)'
  BY RightKept
<1>2. chunk'.bytes = r /\ chunk'.begin = begin /\ chunk'.meant = meant
  OBVIOUS
<1> QED
  BY <1>1, <1>2 DEF ReadsMeantBytes, ChunkRight

(* A chunk of pass 1.                                                      *)
LEMMA MeantDigChunk ==
  ASSUME MeantInv, DigChunk
  PROVE  ReadsMeantBytes'
<1> SUFFICES ASSUME ~ghost'.astray
             PROVE  ReadsMeantBytes'
  BY DEF ReadsMeantBytes, Steady
<1>1. pc = "dig" /\ pc' = "dig" /\ InRun /\ UNCHANGED <<size, opt, bs, nb>>
  BY DEF DigChunk, Passes, InRun, image, maps
<1>2. Geometry /\ filepos \in Nat /\ ghost \in GhostType
  BY <1>1, GeometryIs, OptionsAre DEF MeantInv
<1>3. PICK o \in Nat : o = opt.overlap
  BY OptionsAre DEF MeantInv
<1>4. PICK bytes \in Seq(Nat) : bytes = Read(filepos)
  BY <1>2, ReadType
<1>5. PICK after \in Nat : after = AfterRead(filepos)
  BY <1>2, ReadType
<1>6. bytes # <<>>
  <2>1. Len(bytes) > o
    BY <1>3, <1>4 DEF DigChunk
  <2> QED
    BY <2>1
<1>7. PICK t \in Tell(after) :
        chunk' = [bytes |-> bytes, begin |-> t - Len(bytes), meant |-> t - Len(bytes)]
  BY <1>4, <1>5 DEF DigChunk
<1>8. PICK d : d = (\/ ghost.astray \/ ~ReadsInStep(filepos, BufSize) \/ ~TellsInStep(after)
                    \/ ~BackInStep(after, o))
  OBVIOUS
<1>9. ghost' = [ghost EXCEPT !.seen = @ \cup {bytes[i] : i \in DOMAIN bytes}, !.astray = d]
  BY <1>3, <1>4, <1>5, <1>8, Zenon DEF DigChunk
<1>10. ghost'.astray = d /\ ghost'.marked = ghost.marked
  BY <1>2, <1>9 DEF GhostType
<1>11. ~d
  BY <1>10
<1>12. ~ghost.astray /\ ReadsInStep(filepos, BufSize) /\ TellsInStep(after)
  BY <1>8, <1>11, Zenon
<1>13. Agree
  BY <1>1, <1>12, LayerAgrees DEF MeantInv
<1>14. ReadPlace(bytes, filepos, t - Len(bytes))
  BY <1>2, <1>4, <1>5, <1>6, <1>12, <1>13, ReadPlaces
<1> QED
  BY <1>1, <1>7, <1>10, <1>14, MeantRead DEF ReadPlace

(* A block of pass 2.                                                      *)
LEMMA MeantCarveBlock ==
  ASSUME MeantInv, CarveBlock
  PROVE  ReadsMeantBytes'
<1> SUFFICES ASSUME ~ghost'.astray
             PROVE  ReadsMeantBytes'
  BY DEF ReadsMeantBytes, Steady
<1>1. pc = "carve" /\ InRun /\ UNCHANGED <<size, opt, bs, nb>>
  BY DEF CarveBlock, Passes, InRun, image, maps
<1>2. Geometry /\ filepos \in Nat /\ ghost \in GhostType /\ BufSize \in Nat \ {0} /\ size \in Nat
  BY <1>1, GeometryIs, OptionsAre DEF MeantInv, Geometry
<1>3. PICK t \in Tell(filepos), n \in 0..((size \div BufSize) + 1) :
        LET from  == IF n = 0 THEN filepos ELSE Seek(filepos, n * BufSize)
            bytes == Read(from)
            after == AfterRead(from)
        IN  /\ bytes # <<>>
            /\ \E u \in Tell(after) :
                 chunk' = [bytes |-> bytes, begin |-> u - Len(bytes),
                           meant |-> t + n * BufSize]
            /\ ghost' = [ghost EXCEPT !.astray =
                           @ \/ ~TellsInStep(filepos) \/ ~SeeksInStep(filepos, n * BufSize)
                             \/ ~ReadsInStep(from, BufSize) \/ ~TellsInStep(after)]
  BY Zenon DEF CarveBlock
<1>4. n \in Nat
  OBVIOUS
<1>5. PICK m \in Nat : m = n * BufSize /\ (n # 0 => m # 0) /\ (n = 0 => m = 0)
  <2>1. n * BufSize \in Nat
    BY <1>2, <1>4
  <2>2. n # 0 => n * BufSize # 0
    BY <1>2, <1>4
  <2>3. n = 0 => n * BufSize = 0
    BY <1>2
  <2> QED
    BY <2>1, <2>2, <2>3
<1>6. PICK from : from = IF n = 0 THEN filepos ELSE Seek(filepos, m)
  OBVIOUS
<1>7. from \in Nat
  <2>1. m \in Int
    OBVIOUS
  <2> QED
    BY <1>2, <1>6, <2>1, SeekType
<1>8. PICK bytes \in Seq(Nat) : bytes = Read(from)
  BY <1>2, <1>7, ReadType
<1>9. PICK after \in Nat : after = AfterRead(from)
  BY <1>2, <1>7, ReadType
<1>10. PICK d : d = (\/ ghost.astray \/ ~TellsInStep(filepos) \/ ~SeeksInStep(filepos, m)
                     \/ ~ReadsInStep(from, BufSize) \/ ~TellsInStep(after))
  OBVIOUS
<1>11. /\ bytes # <<>>
       /\ \E u \in Tell(after) :
            chunk' = [bytes |-> bytes, begin |-> u - Len(bytes), meant |-> t + m]
       /\ ghost' = [ghost EXCEPT !.astray = d]
  BY <1>3, <1>5, <1>6, <1>8, <1>9, <1>10, Zenon
<1>12. PICK u \in Tell(after) :
         chunk' = [bytes |-> bytes, begin |-> u - Len(bytes), meant |-> t + m]
  BY <1>11
<1>13. ghost'.astray = d /\ ghost'.marked = ghost.marked
  BY <1>2, <1>11 DEF GhostType
<1>14. ~d
  BY <1>13
<1>15. /\ ~ghost.astray /\ TellsInStep(filepos) /\ SeeksInStep(filepos, m)
       /\ ReadsInStep(from, BufSize) /\ TellsInStep(after)
  BY <1>10, <1>14, Zenon
<1>16. Agree
  BY <1>1, <1>15, LayerAgrees DEF MeantInv
<1>17. t = FreeBelow(filepos) /\ Inside(filepos)
  BY <1>2, <1>15, <1>16, TellIs
<1>18. ReadPlace(bytes, from, u - Len(bytes))
  BY <1>2, <1>7, <1>8, <1>9, <1>11, <1>15, <1>16, ReadPlaces
<1>19. /\ ChunkRight(bytes, u - Len(bytes)) /\ Inside(from)
       /\ u - Len(bytes) = FreeBelow(bytes[1]) /\ FreeBelow(bytes[1]) = FreeBelow(from)
  BY <1>18, Zenon DEF ReadPlace, ChunkRight
<1>20. FreeBelow(from) = t + m
  <2>1. CASE n = 0
    <3>1. from = filepos /\ m = 0 /\ t \in Int
      BY <1>2, <1>5, <1>6, <2>1, TellType DEF Geometry
    <3> QED
      BY <1>17, <3>1
  <2>2. CASE n # 0
    <3>1. m \in Nat \ {0} /\ from = Seek(filepos, m)
      BY <1>5, <1>6, <2>2
    <3>2. FreeBelow(Seek(filepos, m)) = FreeBelow(filepos) + m
      BY <1>2, <1>15, <1>16, <1>17, <1>19, <3>1, SeekPlaces
    <3> QED
      BY <1>17, <3>1, <3>2
  <2> QED
    BY <2>1, <2>2
<1>21. u - Len(bytes) = t + m
  BY <1>19, <1>20
<1> QED
  BY <1>1, <1>12, <1>13, <1>19, <1>21, MeantRead

(* Every step keeps the last chunk what was meant.                         *)
LEMMA MeantNext ==
  ASSUME MeantInv, [Next]_vars
  PROVE  MeantInv'
<1>1. LayerInv'
  BY LayerNext DEF MeantInv
<1>2. NoChunk' = NoChunk
  BY DEF NoChunk
<1>3. CASE pc' \notin Passes \cup {"done"} \/ chunk' = NoChunk
  BY <1>1, <1>2, <1>3 DEF MeantInv, ReadsMeantBytes, Steady
<1>4. CASE SetUpMaps \/ SetUpNothing
  <2>1. chunk' = chunk /\ chunk = NoChunk
    BY <1>4 DEF SetUpMaps, SetUpNothing, MeantInv, LayerInv, FreshOK
  <2> QED
    BY <1>3, <2>1
<1>5. CASE SetUpFails \/ ReadFails \/ CarveLost \/ NextRun \/ DigDone
  <2>1. pc' \notin Passes \cup {"done"} \/ chunk' = NoChunk
    BY <1>5 DEF SetUpFails, ReadFails, CarveLost, NextRun, DigDone, Passes
  <2> QED
    BY <1>3, <2>1
<1>6. CASE DigChunk
  BY <1>1, <1>6, MeantDigChunk DEF MeantInv
<1>7. CASE CarveBlock
  BY <1>1, <1>7, MeantCarveBlock DEF MeantInv
<1>8. CASE AuditFile
  <2>1. pc' = pc /\ UNCHANGED <<size, opt, bs, nb, chunk>>
    BY <1>8, AuditFileIs
  <2>2. PICK f \in Files : \E n \in 0..Len(BlocksOfAll(Fragments(f))) : Recorded(f, n)
    BY <1>8, AuditFileIs
  <2>3. PICK n \in 0..Len(BlocksOfAll(Fragments(f))) : Recorded(f, n)
    BY <2>2
  <2>4. ghost'.marked = ghost.marked /\ (ghost.astray => ghost'.astray)
    BY <2>3, OptionsAre, RecordedGhost DEF MeantInv, Sound
  <2>5. Steady' => Steady
    BY <2>1, <2>4 DEF Steady
  <2> QED
    BY <1>1, <2>1, <2>4, <2>5, MeantKept DEF MeantInv
<1>9. CASE CarveDone
  <2>1. /\ pc = "carve" /\ pc' # "carve" /\ UNCHANGED <<size, opt, bs, nb, chunk, ghost>>
    BY <1>9 DEF CarveDone, image, maps
  <2>2. Steady' => Steady
    BY <2>1 DEF Steady, Passes
  <2> QED
    BY <1>1, <2>1, <2>2, MeantKept DEF MeantInv
<1>10. CASE UNCHANGED vars
  <2>1. UNCHANGED <<pc, size, opt, bs, nb, chunk, ghost>>
    BY <1>10 DEF vars
  <2>2. Steady' => Steady
    BY <2>1 DEF Steady
  <2> QED
    BY <1>1, <2>1, <2>2, MeantKept DEF MeantInv
<1> QED
  BY <1>4, <1>5, <1>6, <1>7, <1>8, <1>9, <1>10 DEF Next, Halted

(* What is read is what was meant, as long as every step is taken where    *)
(* the layer stays in step.                                                *)
THEOREM ReadsAreMeant == Spec => []ReadsMeantBytes
<1>1. Init => MeantInv
  BY LayerInit DEF MeantInv, ReadsMeantBytes, Init
<1>2. MeantInv /\ [Next]_vars => MeantInv'
  BY MeantNext
<1>3. MeantInv => ReadsMeantBytes
  BY DEF MeantInv
<1> QED
  BY <1>1, <1>2, <1>3, PTL DEF Spec
=============================================================================
