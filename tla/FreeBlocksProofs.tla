-------------------------- MODULE FreeBlocksProofs --------------------------
(***************************************************************************)
(* Theorems about FreeBlocks: what the extractors read of a file system    *)
(* that goes on changing, for any geometry and any number of changes.      *)
(***************************************************************************)
EXTENDS FreeBlocks, SequenceTheorems, FiniteSetTheorems, TLAPS

-----------------------------------------------------------------------------
(***************************************************************************)
(* The inductive invariant.  The types, and how far the program is.        *)
(***************************************************************************)
Bits == 0..(disk.perGroup - 1)

Ghosts == [free : SUBSET Blocks, data : [Blocks -> Nat], touched : SUBSET Blocks,
           rough : SUBSET Nat, lost : SUBSET Int]

Types ==
  /\ disk \in Disks /\ tool \in Tools
  /\ used \in [Blocks -> BOOLEAN] /\ data \in [Blocks -> Nat]
  /\ bitmap \in Seq(SUBSET Bits)
  /\ list \in Seq(Int) /\ at \in Nat \ {0}
  /\ raw \in Seq([block : Int, data : Nat])
  /\ ghost \in Ghosts
  /\ pc = "start" => bitmap = <<>>
  /\ pc \in {"start", "copy", "list"} => list = <<>> /\ at = 1 /\ raw = <<>>
  /\ pc \in {"list", "read"} => Len(bitmap) = Groups

(* A block that was not touched is as it was at the beginning.             *)
Untouched ==
  \A b \in Blocks \ ghost.touched :
    /\ used[b] <=> b \notin ghost.free
    /\ data[b] = ghost.data[b]

(* The block that bit i of the g-th bitmap stands for.                     *)
BlockOf(g, i) == disk.first + (disk.perGroup * (g - 1)) + i

(* A copied bitmap, unless it has never been written, has bits for blocks  *)
(* only, and for those that were not touched the bits of the beginning.    *)
(* libext2fs never takes one that has not been written.                    *)
Meant ==
  /\ tool = "offline" => ghost.rough = {}
  /\ \A g \in DOMAIN bitmap : g - 1 \notin ghost.rough =>
       \A i \in Bits :
         /\ i \in bitmap[g] => BlockOf(g, i) \in Blocks
         /\ BlockOf(g, i) \in Blocks \ ghost.touched =>
              (i \in bitmap[g] <=> BlockOf(g, i) \in ghost.free)

(* The list is part of the numbers of the bitmaps' bits, in ascending      *)
(* order, and what is not in it is known to be lost.                       *)
Listed ==
  /\ \A i, j \in DOMAIN list : i < j => list[i] < list[j]
  /\ ToSet(list) \subseteq Numbers
  /\ pc = "read" => ToSet(list) \cup ghost.lost = Numbers

Output(n) == \E i \in DOMAIN raw : raw[i].block = n

(* What has been read comes from the list, and the part of the list that   *)
(* has been gone through is in the output but for what is lost or no block. *)
Read ==
  /\ \A i, j \in DOMAIN raw : i < j => raw[i].block < raw[j].block
  /\ \A i \in DOMAIN raw :
       /\ raw[i].block \in Blocks
       /\ \E j \in DOMAIN list : j < at /\ list[j] = raw[i].block
       /\ raw[i].block \notin ghost.touched => raw[i].data = ghost.data[raw[i].block]
  /\ pc = "read" => \A j \in DOMAIN list : j < at =>
       list[j] \in ghost.lost \/ ~Valid(list[j]) \/ Output(list[j])

AllRead ==
  pc = "done" /\ (tool = "offline" \/ freecount > 0) =>
    \A n \in Numbers : n \in ghost.lost \/ ~Valid(n) \/ Output(n)

ExtractInv == Types /\ Untouched /\ Meant /\ Listed /\ Read /\ AllRead

-----------------------------------------------------------------------------
(* The rank of a number in a set: how many are less.                       *)
Below(S, x) == {m \in S : m < x}

(* The rank of an element is less than the size of the set.                 *)
LEMMA RankBelow ==
  ASSUME NEW S, S \subseteq Int, IsFiniteSet(S), NEW x \in S
  PROVE  /\ IsFiniteSet(Below(S, x))
         /\ Cardinality(Below(S, x)) \in Nat
         /\ Cardinality(Below(S, x)) < Cardinality(S)
<1>1. Below(S, x) \subseteq S /\ x \notin Below(S, x)
  BY DEF Below
<1>2. /\ IsFiniteSet(Below(S, x)) /\ Cardinality(Below(S, x)) <= Cardinality(S)
      /\ Cardinality(S) = Cardinality(Below(S, x)) => S = Below(S, x)
  BY <1>1, FS_Subset
<1>3. Cardinality(Below(S, x)) \in Nat /\ Cardinality(S) \in Nat
  BY <1>2, FS_CardinalityType
<1> QED
  BY <1>1, <1>2, <1>3

(* A greater element has a greater rank.                                    *)
LEMMA RankGrows ==
  ASSUME NEW S, S \subseteq Int, IsFiniteSet(S), NEW x \in S, NEW y \in S, x < y
  PROVE  Cardinality(Below(S, x)) < Cardinality(Below(S, y))
<1> DEFINE X == Below(S, x) \cup {x}
<1>1. x \in Int /\ y \in Int /\ x \notin Below(S, x)
  BY DEF Below
<1>2. X \subseteq Below(S, y)
  <2>1. \A m \in Below(S, x) : m \in S /\ m < x /\ m \in Int
    BY DEF Below
  <2>2. \A m \in Below(S, x) : m < y
    BY <1>1, <2>1
  <2> QED
    BY <2>1, <2>2 DEF Below
<1>3. IsFiniteSet(Below(S, x)) /\ IsFiniteSet(Below(S, y))
      /\ Cardinality(Below(S, x)) \in Nat /\ Cardinality(Below(S, y)) \in Nat
  BY RankBelow
<1>4. Cardinality(X) = Cardinality(Below(S, x)) + 1
  BY <1>1, <1>3, FS_AddElement
<1>5. Cardinality(X) <= Cardinality(Below(S, y))
  BY <1>2, <1>3, FS_Subset
<1> QED
  BY <1>3, <1>4, <1>5

(* The ranks are all the numbers from 0 on.                                *)
LEMMA RankTaken ==
  ASSUME NEW S, S \subseteq Int, IsFiniteSet(S), NEW r \in 0..(Cardinality(S) - 1)
  PROVE  \E x \in S : Cardinality(Below(S, x)) = r
<1>1. Cardinality(S) \in Nat
  BY FS_CardinalityType
<1> DEFINE R == 0..(Cardinality(S) - 1)
           f == [x \in S |-> Cardinality(Below(S, x))]
<1>2. \A x \in S : Cardinality(Below(S, x)) \in Nat /\ Cardinality(Below(S, x)) < Cardinality(S)
  BY RankBelow
<1>3. \A x, y \in S : x < y => Cardinality(Below(S, x)) < Cardinality(Below(S, y))
  BY RankGrows
<1>4. f \in [S -> R]
  <2>1. \A x \in S : Cardinality(Below(S, x)) \in R
    BY <1>1, <1>2
  <2> QED
    BY <2>1
<1>5. \A x, y \in S : f[x] = f[y] => x = y
  <2>1. SUFFICES ASSUME NEW x \in S, NEW y \in S, f[x] = f[y], x # y PROVE FALSE
    OBVIOUS
  <2>2. x \in Int /\ y \in Int
    OBVIOUS
  <2>3. Cardinality(Below(S, x)) \in Nat /\ Cardinality(Below(S, y)) \in Nat
    BY RankBelow
  <2>4. CASE x < y
    BY <1>3, <2>1, <2>3, <2>4
  <2>5. CASE y < x
    BY <1>3, <2>1, <2>3, <2>5
  <2> QED
    BY <2>1, <2>2, <2>4, <2>5
<1>6. f \in Injection(S, R)
  BY <1>4, <1>5 DEF Injection, IsInjective
<1>7. IsFiniteSet(R) /\ Cardinality(R) = Cardinality(S)
  BY <1>1, FS_Interval
<1>8. f \in Surjection(S, R)
  BY <1>6, <1>7, FS_Injection
<1>9. \E x \in S : f[x] = r
  BY <1>8 DEF Surjection
<1> QED
  BY <1>9

(* The list of a set: its elements, each once and in ascending order.      *)
LEMMA AscendingIs ==
  ASSUME NEW S, S \subseteq Int, IsFiniteSet(S)
  PROVE  /\ Ascending(S) \in Seq(Int)
         /\ \A i, j \in DOMAIN Ascending(S) : i < j => Ascending(S)[i] < Ascending(S)[j]
         /\ \A i \in DOMAIN Ascending(S) : Ascending(S)[i] \in S
         /\ \A x \in S : \E i \in DOMAIN Ascending(S) : Ascending(S)[i] = x
<1>1. PICK n \in Nat : n = Cardinality(S)
  BY FS_CardinalityType
<1> DEFINE s == Ascending(S)
<1>0. /\ \A x \in S : Cardinality(Below(S, x)) \in Nat
      /\ \A x, y \in S : x < y => Cardinality(Below(S, x)) < Cardinality(Below(S, y))
  BY RankBelow, RankGrows
<1>2. DOMAIN s = 1..n
  BY <1>1 DEF Ascending
<1>3. ASSUME NEW i \in 1..n
      PROVE  s[i] \in S /\ Cardinality(Below(S, s[i])) = i - 1
  <2>1. i - 1 \in 0..(Cardinality(S) - 1)
    BY <1>1, <1>3
  <2>2. \E x \in S : Cardinality(Below(S, x)) = i - 1
    BY <2>1, RankTaken
  <2>3. s[i] = CHOOSE x \in S : Cardinality(Below(S, x)) = i - 1
    BY <1>1 DEF Ascending, Below
  <2> QED
    BY <2>2, <2>3
<1>4. s = [i \in 1..n |-> s[i]]
  BY <1>1, SMTT(30) DEF Ascending
<1>5. s \in Seq(Int)
  <2>1. s \in [1..n -> Int]
    BY <1>3, <1>4
  <2> QED
    BY <2>1 DEF Seq
<1> HIDE DEF s
<1>6. ASSUME NEW x \in S, NEW y \in S, Cardinality(Below(S, x)) < Cardinality(Below(S, y))
      PROVE  x < y
  <2>1. x \in Int /\ y \in Int
    OBVIOUS
  <2>2. Cardinality(Below(S, x)) \in Nat /\ Cardinality(Below(S, y)) \in Nat
    BY RankBelow
  <2>3. x # y
    BY <1>6, <2>2
  <2>4. ~(y < x)
    BY <1>0, <1>6, <2>2
  <2> QED
    BY <2>1, <2>3, <2>4
<1>7. ASSUME NEW i \in 1..n, NEW j \in 1..n, i < j
      PROVE  s[i] < s[j]
  <2>1. Cardinality(Below(S, s[i])) < Cardinality(Below(S, s[j]))
    BY <1>3, <1>7
  <2> QED
    BY <1>3, <1>6, <2>1
<1>8. ASSUME NEW x \in S
      PROVE  \E i \in 1..n : s[i] = x
  <2>1. PICK r \in Nat : r = Cardinality(Below(S, x)) /\ r < n
    BY <1>1, RankBelow
  <2>2. r + 1 \in 1..n
    BY <2>1
  <2>3. s[r + 1] \in S /\ Cardinality(Below(S, s[r + 1])) = r
    BY <1>3, <2>1, <2>2
  <2>4. s[r + 1] = x
    <3>1. PICK y \in S : y = s[r + 1]
      BY <2>3
    <3>2. Cardinality(Below(S, y)) = Cardinality(Below(S, x))
      BY <2>1, <2>3, <3>1
    <3>3. Cardinality(Below(S, x)) \in Nat
      BY <1>0
    <3>4. ~(y < x) /\ ~(x < y)
      BY <1>0, <3>2, <3>3
    <3>5. x \in Int /\ y \in Int
      OBVIOUS
    <3> QED
      BY <3>1, <3>4, <3>5
  <2> QED
    BY <2>2, <2>4
<1>9. /\ s \in Seq(Int)
      /\ \A i, j \in DOMAIN s : i < j => s[i] < s[j]
      /\ \A i \in DOMAIN s : s[i] \in S
      /\ \A x \in S : \E i \in DOMAIN s : s[i] = x
  BY <1>2, <1>3, <1>5, <1>7, <1>8
<1> QED
  BY <1>9 DEF s

-----------------------------------------------------------------------------
(* The geometry of the disk.                                               *)
LEMMA DiskTypes ==
  ASSUME disk \in Disks
  PROVE  /\ disk.first \in Nat /\ disk.blocks \in Nat /\ disk.perGroup \in Nat \ {0}
         /\ disk.first < disk.blocks
BY FreeBlocksAssumption

(* Division by a positive number.                                          *)
LEMMA Division ==
  ASSUME NEW p \in Nat \ {0}, NEW x \in Nat
  PROVE  /\ x \div p \in Nat /\ x % p \in 0..(p - 1)
         /\ p * (x \div p) \in Nat
         /\ x = (p * (x \div p)) + (x % p)
<1>1. x \div p \in Nat
  OBVIOUS
<1>2. x % p \in 0..(p - 1)
  OBVIOUS
<1>3. x = (p * (x \div p)) + (x % p)
  OBVIOUS
<1>4. p * (x \div p) \in Nat
  BY <1>1
<1> QED
  BY <1>1, <1>2, <1>3, <1>4

(* Multiples of a positive number are in the order of their factors.       *)
LEMMA Multiples ==
  ASSUME NEW p \in Nat, NEW x \in Nat, NEW y \in Nat, x <= y
  PROVE  p * x \in Nat /\ p * y \in Nat /\ p * x <= p * y
<1>1. PICK d \in Nat : y = x + d
  <2>1. y - x \in Nat /\ y = x + (y - x)
    OBVIOUS
  <2> QED
    BY <2>1
<1>2. p * y = p * x + p * d
  BY <1>1
<1>3. p * x \in Nat /\ p * d \in Nat
  BY <1>1
<1> QED
  BY <1>2, <1>3

(* Two multiples of p are p apart at least.                                 *)
LEMMA MultipleNext ==
  ASSUME NEW p \in Nat, NEW x \in Nat, NEW y \in Nat, x < y
  PROVE  p * x + p <= p * y
<1>1. p * (x + 1) <= p * y
  BY Multiples
<1>2. p * (x + 1) = p * x + p
  OBVIOUS
<1> QED
  BY <1>1, <1>2

(* A group and a bit in it stand for one number only.                      *)
LEMMA PlaceUnique ==
  ASSUME NEW p \in Nat \ {0}, NEW x \in Nat, NEW y \in Nat,
         NEW i \in 0..(p - 1), NEW j \in 0..(p - 1), p * x + i = p * y + j
  PROVE  x = y /\ i = j
<1>1. p * x \in Nat /\ p * y \in Nat
  BY Multiples
<1>2. ~(x < y)
  <2>1. SUFFICES ASSUME x < y PROVE FALSE
    OBVIOUS
  <2>2. p * x + p <= p * y
    BY <2>1, MultipleNext
  <2> QED
    BY <1>1, <2>2
<1>3. ~(y < x)
  <2>1. SUFFICES ASSUME y < x PROVE FALSE
    OBVIOUS
  <2>2. p * y + p <= p * x
    BY <2>1, MultipleNext
  <2> QED
    BY <1>1, <2>2
<1>4. x = y
  BY <1>2, <1>3
<1> QED
  BY <1>1, <1>4

(* A block behind the one before the first group lies in a group.          *)
LEMMA GroupIs ==
  ASSUME disk \in Disks, NEW b \in Blocks, b >= disk.first
  PROVE  /\ Groups \in Nat /\ GroupOf(b) \in Nat /\ GroupOf(b) < Groups
         /\ \E i \in Bits : BlockOf(GroupOf(b) + 1, i) = b
<1>1. PICK p \in Nat \ {0} : p = disk.perGroup
  BY DiskTypes
<1>2. PICK f \in Nat : f = disk.first
  BY DiskTypes
<1>3. PICK n \in Nat : n = disk.blocks - disk.first /\ n > 0
  <2>1. disk.blocks - disk.first \in Nat /\ disk.blocks - disk.first > 0
    BY DiskTypes
  <2> QED
    BY <2>1
<1>4. PICK x \in Nat : x = b - f /\ x < n /\ b = f + x
  <2>1. b \in Int /\ b < disk.blocks /\ b >= f
    BY <1>2, DiskTypes DEF Blocks
  <2>2. b - f \in Nat /\ b - f < n /\ b = f + (b - f)
    BY <1>2, <1>3, <2>1, DiskTypes
  <2> QED
    BY <2>2
<1>5. PICK y \in Nat : y = (n + p) - 1
  <2>1. (n + p) - 1 \in Nat
    OBVIOUS
  <2> QED
    BY <2>1
<1>6. GroupOf(b) = x \div p /\ Groups = y \div p
  BY <1>1, <1>2, <1>3, <1>4, <1>5 DEF GroupOf, Groups
<1>7. PICK q \in Nat : q = x \div p
  BY Division
<1>8. PICK i \in 0..(p - 1) : i = x % p
  BY Division
<1>9. PICK g \in Nat : g = y \div p
  BY Division
<1>10. PICK r \in 0..(p - 1) : r = y % p
  BY Division
<1>11. x = p * q + i /\ p * q \in Nat
  BY <1>7, <1>8, Division
<1>12. y = p * g + r /\ p * g \in Nat
  BY <1>9, <1>10, Division
<1>13. q < g
  <2>1. SUFFICES ASSUME g <= q PROVE FALSE
    OBVIOUS
  <2>2. p * g <= p * q
    BY <2>1, Multiples
  <2> QED
    BY <1>4, <1>5, <1>11, <1>12, <2>2
<1>14. BlockOf(GroupOf(b) + 1, i) = b
  <2>1. (q + 1) - 1 = q
    OBVIOUS
  <2> QED
    BY <1>1, <1>2, <1>4, <1>6, <1>7, <1>11, <2>1 DEF BlockOf
<1> QED
  BY <1>1, <1>6, <1>7, <1>8, <1>9, <1>13, <1>14 DEF Bits

(* A number is one of the list if and only if its bit is in a bitmap.      *)
LEMMA InNumbers ==
  ASSUME NEW n
  PROVE  n \in Numbers <=> \E g \in DOMAIN bitmap : \E i \in bitmap[g] : n = Number(g - 1, i)
BY DEF Numbers

(* What is known of a sequence of bitmaps.                                  *)
LEMMA BitmapTypes ==
  ASSUME bitmap \in Seq(SUBSET Bits)
  PROVE  /\ Len(bitmap) \in Nat /\ DOMAIN bitmap = 1..Len(bitmap)
         /\ \A g \in DOMAIN bitmap : g \in Nat /\ g >= 1 /\ g - 1 \in Nat
                                     /\ bitmap[g] \subseteq Bits
<1>1. Len(bitmap) \in Nat /\ DOMAIN bitmap = 1..Len(bitmap)
  BY LenProperties
<1>2. \A g \in DOMAIN bitmap : bitmap[g] \subseteq Bits
  BY <1>1, ElementOfSeq
<1> QED
  BY <1>1, <1>2

(* The list is finite.                                                     *)
LEMMA NumbersFinite ==
  ASSUME disk \in Disks, bitmap \in Seq(SUBSET Bits)
  PROVE  Numbers \subseteq Int /\ IsFiniteSet(Numbers)
<1>1. PICK p \in Nat \ {0} : p = disk.perGroup
  BY DiskTypes
<1>2. PICK o \in Nat : o = IF tool = "live" THEN 0 ELSE disk.first
  BY DiskTypes
<1>3. PICK l \in Nat : l = Len(bitmap)
  BY BitmapTypes
<1>4. p * l \in Nat
  BY Multiples
<1>5. PICK t \in Nat : t = o + p * l + p
  BY <1>4
<1>6. ASSUME NEW g \in DOMAIN bitmap, NEW i \in bitmap[g]
      PROVE  Number(g - 1, i) \in 0..t
  <2>1. PICK h \in Nat : h = g - 1 /\ h <= l
    BY <1>3, BitmapTypes
  <2>2. i \in Nat /\ i < p
    BY <1>1, BitmapTypes DEF Bits
  <2>3. p * h \in Nat /\ p * h <= p * l
    BY <2>1, Multiples
  <2>4. Number(g - 1, i) = o + p * h + i
    BY <1>1, <1>2, <2>1 DEF Number
  <2> QED
    BY <1>4, <1>5, <2>2, <2>3, <2>4
<1>7. Numbers \subseteq 0..t
  BY <1>6, InNumbers
<1>8. IsFiniteSet(0..t)
  BY FS_Interval
<1>9. Numbers \subseteq Int
  BY <1>7
<1>10. IsFiniteSet(Numbers)
  BY <1>7, <1>8, FS_Subset
<1> QED
  BY <1>9, <1>10

(* Where the numbers are those of the blocks: a block that has a group is  *)
(* in the list if and only if its bit is clear in its group's bitmap.      *)
LEMMA NumberedBlocks ==
  ASSUME disk \in Disks, bitmap \in Seq(SUBSET Bits), Numbered
  PROVE  /\ \A g \in DOMAIN bitmap : \A i \in Bits : Number(g - 1, i) = BlockOf(g, i)
         /\ \A g \in DOMAIN bitmap : \A i \in Bits :
              BlockOf(g, i) \in Numbers <=> i \in bitmap[g]
<1>1. PICK p \in Nat \ {0} : p = disk.perGroup
  BY DiskTypes
<1>2. PICK o \in Nat : o = disk.first
  BY DiskTypes
<1>3. (IF tool = "live" THEN 0 ELSE disk.first) = o
  BY <1>2 DEF Numbered
<1>4. \A g \in DOMAIN bitmap : \A i \in Bits : Number(g - 1, i) = BlockOf(g, i)
  BY <1>2, <1>3 DEF Number, BlockOf
<1>5. ASSUME NEW g \in DOMAIN bitmap, NEW i \in Bits, BlockOf(g, i) \in Numbers
      PROVE  i \in bitmap[g]
  <2>1. PICK h \in DOMAIN bitmap : \E k \in bitmap[h] : BlockOf(g, i) = Number(h - 1, k)
    BY <1>5, InNumbers
  <2>2. PICK k \in bitmap[h] : BlockOf(g, i) = Number(h - 1, k)
    BY <2>1
  <2>3. k \in Bits
    BY BitmapTypes
  <2>4. BlockOf(g, i) = BlockOf(h, k)
    BY <1>4, <2>2, <2>3
  <2>5. PICK x \in Nat : x = g - 1
    BY BitmapTypes
  <2>6. PICK y \in Nat : y = h - 1
    BY BitmapTypes
  <2>7. p * x \in Nat /\ p * y \in Nat
    BY Multiples
  <2>8. i \in 0..(p - 1) /\ k \in 0..(p - 1)
    BY <1>1, <2>3 DEF Bits
  <2>9. p * x + i = p * y + k
    <3>1. BlockOf(g, i) = o + p * x + i
      BY <1>1, <1>2, <2>5 DEF BlockOf
    <3>2. BlockOf(h, k) = o + p * y + k
      BY <1>1, <1>2, <2>6 DEF BlockOf
    <3>3. PICK u \in Nat : u = p * x
      BY <2>7
    <3>4. PICK v \in Nat : v = p * y
      BY <2>7
    <3>5. o + u + i = o + v + k
      BY <2>4, <3>1, <3>2, <3>3, <3>4
    <3>6. i \in Nat /\ k \in Nat
      BY <2>8
    <3>7. u + i = v + k
      BY <3>5, <3>6
    <3> QED
      BY <3>3, <3>4, <3>7
  <2>10. x = y /\ i = k
    BY <2>8, <2>9, PlaceUnique
  <2>11. g = h
    BY <2>5, <2>6, <2>10, BitmapTypes
  <2> QED
    BY <2>10, <2>11
<1>6. ASSUME NEW g \in DOMAIN bitmap, NEW i \in Bits, i \in bitmap[g]
      PROVE  BlockOf(g, i) \in Numbers
  BY <1>4, <1>6, InNumbers
<1> QED
  BY <1>4, <1>5, <1>6

-----------------------------------------------------------------------------
(* The fields of ghost change one at a time.                               *)
LEMMA GhostChanges ==
  ASSUME NEW F, NEW D, NEW T, NEW R, NEW L, NEW v,
         NEW x \in [free : F, data : D, touched : T, rough : R, lost : L]
  PROVE  /\ LET y == [x EXCEPT !.touched = v]
            IN  /\ y = [free |-> x.free, data |-> x.data, touched |-> v,
                        rough |-> x.rough, lost |-> x.lost]
         /\ LET y == [x EXCEPT !.rough = v]
            IN  /\ y = [free |-> x.free, data |-> x.data, touched |-> x.touched,
                        rough |-> v, lost |-> x.lost]
         /\ LET y == [x EXCEPT !.lost = v]
            IN  /\ y = [free |-> x.free, data |-> x.data, touched |-> x.touched,
                        rough |-> x.rough, lost |-> v]
OBVIOUS

(* What is known of the record of the changes.                              *)
LEMMA GhostTypes ==
  ASSUME ghost \in Ghosts
  PROVE  /\ ghost.free \subseteq Blocks /\ ghost.data \in [Blocks -> Nat]
         /\ ghost.touched \subseteq Blocks /\ ghost.rough \subseteq Nat
         /\ ghost.lost \subseteq Int
BY DEF Ghosts

(* What the disk, and what the bitmaps determine.                          *)
LEMMA SameDisk ==
  ASSUME UNCHANGED disk
  PROVE  /\ Blocks' = Blocks /\ Groups' = Groups /\ Bits' = Bits /\ Ghosts' = Ghosts
         /\ \A g, i : BlockOf(g, i)' = BlockOf(g, i)
<1>1. Blocks' = Blocks
  BY DEF Blocks
<1> QED
  BY <1>1 DEF Groups, Bits, BlockOf, Ghosts

(* The numbers depend on the bitmaps copied.                                *)
LEMMA SameNumbers ==
  ASSUME UNCHANGED <<disk, tool, bitmap>>
  PROVE  /\ Numbers' = Numbers
         /\ \A n : Valid(n)' <=> Valid(n)
<1>1. \A g, i : Number(g, i)' = Number(g, i)
  BY DEF Number
<1>2. Numbers' = Numbers
  BY <1>1 DEF Numbers
<1>3. \A n : Valid(n)' <=> Valid(n)
  BY DEF Valid
<1> QED
  BY <1>2, <1>3

(* The copied bitmaps and the memory of the beginning stay.                *)
LEMMA UntouchedKept ==
  ASSUME Untouched, UNCHANGED <<disk, used, data>>,
         ghost'.free = ghost.free, ghost'.data = ghost.data, ghost'.touched = ghost.touched
  PROVE  Untouched'
BY SameDisk DEF Untouched

(* Meant survives a change that is noted in touched.                        *)
LEMMA MeantKept ==
  ASSUME Meant, UNCHANGED <<disk, tool, bitmap>>,
         ghost'.free = ghost.free, ghost'.rough = ghost.rough,
         ghost.touched \subseteq ghost'.touched
  PROVE  Meant'
BY SameDisk DEF Meant

-----------------------------------------------------------------------------
(* The invariant holds before anything is copied.                           *)
LEMMA ExtractInit == Init => ExtractInv
<1> SUFFICES ASSUME Init PROVE ExtractInv
  OBVIOUS
<1>1. /\ disk \in Disks /\ tool \in Tools /\ pc = "start"
      /\ used \in [Blocks -> BOOLEAN] /\ data = [b \in Blocks |-> 0]
      /\ bitmap = <<>> /\ list = <<>> /\ at = 1 /\ raw = <<>> /\ ghost = Start
  BY DEF Init
<1>2. data \in [Blocks -> Nat]
  BY <1>1
<1>3. /\ ghost.free = Free /\ ghost.data = data /\ ghost.touched = {}
      /\ ghost.rough = {} /\ ghost.lost = {} /\ ghost \in Ghosts
  <2>1. Free \subseteq Blocks
    BY DEF Free
  <2> QED
    BY <1>1, <1>2, <2>1 DEF Start, Ghosts
<1>4. <<>> \in Seq(SUBSET Bits) /\ <<>> \in Seq(Int) /\ <<>> \in Seq([block : Int, data : Nat])
  BY EmptySeq
<1>5. Types
  BY <1>1, <1>2, <1>3, <1>4 DEF Types
<1>6. Untouched
  BY <1>1, <1>3 DEF Untouched, Free
<1>7. Meant /\ Listed /\ Read /\ AllRead
  BY <1>1, <1>3 DEF Meant, Listed, Read, AllRead, ToSet
<1> QED
  BY <1>5, <1>6, <1>7 DEF ExtractInv

(* The file system changes: the block is touched, and nothing else is      *)
(* different from before.                                                  *)
LEMMA ExtractChange == ExtractInv /\ (Allocate \/ Release) => ExtractInv'
<1> SUFFICES ASSUME ExtractInv, Allocate \/ Release PROVE ExtractInv'
  OBVIOUS
<1>1. PICK b \in Blocks :
        /\ Change(b) /\ pc \notin Ended
        /\ data' = [data EXCEPT ![b] = @ + 1] \/ UNCHANGED data
  BY DEF Allocate, Release, Free, Change
<1>2. /\ Types /\ Untouched /\ Meant /\ Listed /\ Read /\ ghost \in Ghosts
      /\ used \in [Blocks -> BOOLEAN] /\ data \in [Blocks -> Nat]
  BY DEF ExtractInv, Types
<1>3. UNCHANGED <<disk, sbfree, tool, pc, freecount, bitmap, list, at, raw>>
  BY <1>1 DEF Change
<1>4. ghost' = [free |-> ghost.free, data |-> ghost.data, touched |-> ghost.touched \cup {b},
                rough |-> ghost.rough, lost |-> ghost.lost]
  BY <1>1, <1>2, GhostChanges DEF Change, Ghosts
<1>5. ghost' \in Ghosts
  BY <1>4, <1>2, GhostTypes DEF Ghosts
<1>6. /\ used' \in [Blocks -> BOOLEAN] /\ data' \in [Blocks -> Nat]
      /\ \A c \in Blocks : c # b => used'[c] = used[c] /\ data'[c] = data[c]
  BY <1>1, <1>2 DEF Change
<1>7. /\ Blocks' = Blocks /\ Groups' = Groups /\ Bits' = Bits /\ Ghosts' = Ghosts
      /\ Numbers' = Numbers /\ \A n : Valid(n)' <=> Valid(n)
  BY <1>3, SameDisk, SameNumbers
<1>8. Types'
  BY <1>2, <1>3, <1>5, <1>6, <1>7 DEF Types
<1>9. Untouched'
  BY <1>2, <1>4, <1>6, <1>7 DEF Untouched
<1>10. Meant'
  BY <1>2, <1>3, <1>4, MeantKept
<1>11. Listed'
  BY <1>2, <1>3, <1>4, <1>7 DEF Listed
<1>12. Read'
  <2>1. \A n : Output(n)' <=> Output(n)
    BY <1>3 DEF Output
  <2> QED
    BY <1>2, <1>3, <1>4, <1>7, <2>1 DEF Read
<1>13. AllRead'
  BY <1>1, <1>3 DEF AllRead, Ended
<1> QED
  BY <1>8, <1>9, <1>10, <1>11, <1>12, <1>13 DEF ExtractInv

(* The beginning is remembered.                                            *)
LEMMA ExtractBegin == ExtractInv /\ Begin => ExtractInv'
<1> SUFFICES ASSUME ExtractInv, Begin PROVE ExtractInv'
  OBVIOUS
<1>1. /\ pc = "start" /\ pc' = "copy" /\ ghost' = Start
      /\ UNCHANGED <<disk, used, data, tool, bitmap, list, at, raw>>
  BY DEF Begin, fs
<1>2. /\ Types /\ used \in [Blocks -> BOOLEAN] /\ data \in [Blocks -> Nat]
      /\ bitmap = <<>> /\ list = <<>> /\ at = 1 /\ raw = <<>>
  BY <1>1 DEF ExtractInv, Types
<1>3. /\ ghost'.free = Free /\ ghost'.data = data /\ ghost'.touched = {}
      /\ ghost'.rough = {} /\ ghost'.lost = {} /\ ghost' \in Ghosts
  <2>1. Free \subseteq Blocks
    BY DEF Free
  <2> QED
    BY <1>1, <1>2, <2>1 DEF Start, Ghosts
<1>4. /\ Blocks' = Blocks /\ Groups' = Groups /\ Bits' = Bits /\ Ghosts' = Ghosts
  BY <1>1, SameDisk
<1>5. Types'
  BY <1>1, <1>2, <1>3, <1>4 DEF Types
<1>6. Untouched'
  BY <1>1, <1>2, <1>3, <1>4 DEF Untouched, Free
<1>7. Meant' /\ Listed' /\ Read' /\ AllRead'
  BY <1>1, <1>2, <1>3 DEF Meant, Listed, Read, AllRead, ToSet
<1> QED
  BY <1>5, <1>6, <1>7 DEF ExtractInv

(* The program goes on, or ends, and copies, lists and reads nothing.      *)
LEMMA ExtractFrame ==
  ASSUME ExtractInv, UNCHANGED <<disk, used, data, tool, bitmap, list, at, raw, ghost>>,
         pc' = "start" => pc = "start",
         pc' = "copy" => pc = "copy",
         pc' = "list" => pc = "list" \/ (pc = "copy" /\ Len(bitmap) = Groups),
         pc' = "read" => pc = "read",
         pc' = "done" /\ (tool = "offline" \/ freecount' > 0) =>
           (pc = "done" /\ UNCHANGED freecount) \/ (pc = "read" /\ at > Len(list))
  PROVE  ExtractInv'
<1>1. /\ Types /\ Untouched /\ Meant /\ Listed /\ Read /\ AllRead
  BY DEF ExtractInv
<1>2. /\ Blocks' = Blocks /\ Groups' = Groups /\ Bits' = Bits /\ Ghosts' = Ghosts
      /\ Numbers' = Numbers /\ \A n : Valid(n)' <=> Valid(n)
  BY SameDisk, SameNumbers
<1>3. \A n : Output(n)' <=> Output(n)
  BY DEF Output
<1>4. Types'
  BY <1>1, <1>2 DEF Types
<1>5. Untouched' /\ Meant'
  BY <1>1, UntouchedKept, MeantKept
<1>6. Listed'
  BY <1>1, <1>2 DEF Listed
<1>7. Read'
  BY <1>1, <1>2, <1>3 DEF Read
<1>8. AllRead'
  <2>1. CASE pc = "done" /\ UNCHANGED freecount
    BY <1>1, <1>2, <1>3, <2>1 DEF AllRead
  <2>2. CASE pc = "read" /\ at > Len(list)
    <3>1. ASSUME NEW n \in Numbers
          PROVE  n \in ghost.lost \/ ~Valid(n) \/ Output(n)
      <4>1. CASE n \in ghost.lost
        BY <4>1
      <4>2. CASE n \notin ghost.lost
        <5>1. n \in ToSet(list)
          BY <1>1, <2>2, <3>1, <4>2 DEF Listed
        <5>2. PICK j \in DOMAIN list : list[j] = n
          BY <5>1 DEF ToSet
        <5>3. Len(list) \in Nat /\ DOMAIN list = 1..Len(list) /\ at \in Nat
          BY <1>1, LenProperties DEF Types
        <5>4. j < at
          BY <2>2, <5>3
        <5> QED
          BY <1>1, <2>2, <5>2, <5>4 DEF Read
      <4> QED
        BY <4>1, <4>2
    <3> QED
      BY <1>2, <1>3, <3>1 DEF AllRead
  <2>3. CASE ~(pc' = "done" /\ (tool = "offline" \/ freecount' > 0))
    BY <2>3 DEF AllRead
  <2> QED
    BY <2>1, <2>2, <2>3
<1> QED
  BY <1>4, <1>5, <1>6, <1>7, <1>8 DEF ExtractInv

(* Steps that neither copy, list nor read a block.                          *)
LEMMA ExtractGoesOn ==
  ExtractInv /\ (WriteSuper \/ Fails \/ Oops \/ Copied \/ NothingFree \/ Finish
                 \/ Halted \/ UNCHANGED vars) => ExtractInv'
<1> SUFFICES ASSUME ExtractInv, WriteSuper \/ Fails \/ Oops \/ Copied \/ NothingFree \/ Finish
                                \/ Halted \/ UNCHANGED vars
             PROVE  ExtractInv'
  OBVIOUS
<1>1. UNCHANGED <<disk, used, data, tool, bitmap, list, at, raw, ghost, freecount>>
  BY DEF WriteSuper, Fails, Oops, Copied, NothingFree, Finish, Halted, vars, fs
<1>2. /\ pc' = "start" => pc = "start"
      /\ pc' = "copy" => pc = "copy"
      /\ pc' = "list" => pc = "list" \/ (pc = "copy" /\ Len(bitmap) = Groups)
      /\ pc' = "read" => pc = "read"
  BY DEF WriteSuper, Fails, Oops, Copied, NothingFree, Finish, Halted, vars, fs
<1>3. pc' = "done" /\ (tool = "offline" \/ freecount' > 0) =>
        (pc = "done" /\ UNCHANGED freecount) \/ (pc = "read" /\ at > Len(list))
  <2>1. CASE NothingFree
    <3>1. tool = "live" /\ freecount' = 0
      BY <1>1, <2>1 DEF NothingFree
    <3> QED
      BY <3>1
  <2>2. CASE WriteSuper \/ Fails \/ Oops \/ Copied \/ Finish \/ Halted \/ UNCHANGED vars
    BY <1>1, <2>2 DEF WriteSuper, Fails, Oops, Copied, Finish, Halted, vars, fs
  <2> QED
    BY <2>1, <2>2
<1> QED
  BY <1>1, <1>2, <1>3, ExtractFrame

(* The clear bits of a bitmap stand for the blocks that are free.          *)
LEMMA ClearBitsAre ==
  ASSUME disk \in Disks, NEW g \in Nat
  PROVE  /\ ClearBits(g) \subseteq Bits
         /\ \A i \in Bits : i \in ClearBits(g) <=>
              BlockOf(g + 1, i) \in Blocks /\ ~used[BlockOf(g + 1, i)]
<1>1. PICK p \in Nat \ {0} : p = disk.perGroup
  BY DiskTypes
<1>2. PICK f \in Nat : f = disk.first
  BY DiskTypes
<1>3. (g + 1) - 1 = g /\ g * p = p * g
  OBVIOUS
<1>4. \A i \in Bits : f + g * p + i = BlockOf(g + 1, i)
  <2>1. p * g \in Nat
    BY Multiples
  <2> QED
    BY <1>1, <1>2, <1>3, <2>1 DEF BlockOf, Bits
<1>5. ClearBits(g) = {i \in Bits : LET b == f + g * p + i IN b \in Blocks /\ ~used[b]}
  BY <1>1, <1>2 DEF ClearBits, Bits
<1> QED
  BY <1>4, <1>5

(* A bitmap is copied as it is now, or is noted as never written.           *)
LEMMA ExtractCopyGroup == ExtractInv /\ CopyGroup => ExtractInv'
<1> SUFFICES ASSUME ExtractInv, CopyGroup PROVE ExtractInv'
  OBVIOUS
<1>1. PICK l : l = Len(bitmap)
  OBVIOUS
<1> DEFINE blind == tool = "live" /\ l \in rough
<1>3. PICK bits \in IF blind THEN SUBSET Bits ELSE {ClearBits(l)} :
        bitmap' = Append(bitmap, bits)
  BY <1>1 DEF CopyGroup, Bits
<1>4. /\ pc = "copy" /\ pc' = "copy"
      /\ UNCHANGED <<disk, used, data, tool, list, at, raw>>
      /\ ghost' = [ghost EXCEPT !.rough = IF blind THEN @ \cup {l} ELSE @]
  BY <1>1 DEF CopyGroup, fs
<1>5. /\ Types /\ Untouched /\ Meant /\ ghost \in Ghosts /\ disk \in Disks
      /\ bitmap \in Seq(SUBSET Bits) /\ list = <<>> /\ at = 1 /\ raw = <<>>
  BY <1>4 DEF ExtractInv, Types
<1>6. l \in Nat /\ DOMAIN bitmap = 1..l
  BY <1>1, <1>5, BitmapTypes
<1>7. bits \in SUBSET Bits /\ (~blind => bits = ClearBits(l))
  BY <1>3, <1>5, <1>6, ClearBitsAre
<1>8. /\ bitmap' \in Seq(SUBSET Bits) /\ DOMAIN bitmap' = 1..(l + 1)
      /\ bitmap'[l + 1] = bits
      /\ \A g \in DOMAIN bitmap : bitmap'[g] = bitmap[g]
  BY <1>1, <1>3, <1>5, <1>6, <1>7
<1>9. PICK R : R = IF blind THEN ghost.rough \cup {l} ELSE ghost.rough
  OBVIOUS
<1>10. ghost' = [free |-> ghost.free, data |-> ghost.data, touched |-> ghost.touched,
                 rough |-> R, lost |-> ghost.lost]
  <2>1. ghost' = [ghost EXCEPT !.rough = R]
    BY <1>4, <1>9
  <2> QED
    BY <1>5, <2>1, GhostChanges DEF Ghosts
<1>11. R \subseteq Nat
  BY <1>5, <1>6, <1>9, GhostTypes
<1>12. ghost' \in Ghosts
  BY <1>5, <1>10, <1>11, GhostTypes DEF Ghosts
<1>13. /\ Blocks' = Blocks /\ Groups' = Groups /\ Bits' = Bits /\ Ghosts' = Ghosts
       /\ \A g, i : BlockOf(g, i)' = BlockOf(g, i)
  BY <1>4, SameDisk
<1>14. Types'
  BY <1>4, <1>5, <1>8, <1>12, <1>13 DEF Types
<1>15. Untouched'
  BY <1>4, <1>5, <1>10, UntouchedKept
<1>16. Meant'
  <2>1. tool = "offline" => R = {}
    BY <1>5, <1>9 DEF Meant
  <2>2. ASSUME NEW g \in DOMAIN bitmap', g - 1 \notin R, NEW i \in Bits
        PROVE  /\ i \in bitmap'[g] => BlockOf(g, i) \in Blocks
               /\ BlockOf(g, i) \in Blocks \ ghost.touched =>
                    (i \in bitmap'[g] <=> BlockOf(g, i) \in ghost.free)
    <3>1. CASE g = l + 1
      <4>1. ~blind
        BY <1>6, <1>9, <2>2, <3>1
      <4>2. i \in bitmap'[g] <=> BlockOf(g, i) \in Blocks /\ ~used[BlockOf(g, i)]
        BY <1>5, <1>6, <1>7, <1>8, <3>1, <4>1, ClearBitsAre
      <4> QED
        BY <1>5, <4>2 DEF Untouched
    <3>2. CASE g # l + 1
      <4>1. g \in DOMAIN bitmap /\ g - 1 \notin ghost.rough
        BY <1>6, <1>8, <1>9, <2>2, <3>2
      <4>2. bitmap'[g] = bitmap[g]
        BY <1>8, <4>1
      <4> QED
        BY <1>5, <4>1, <4>2 DEF Meant
    <3> QED
      BY <3>1, <3>2
  <2> QED
    BY <1>4, <1>10, <1>13, <2>1, <2>2 DEF Meant
<1>17. Listed' /\ Read' /\ AllRead'
  BY <1>4, <1>5 DEF Listed, Read, AllRead, ToSet
<1> QED
  BY <1>14, <1>15, <1>16, <1>17 DEF ExtractInv

(* The list is cut somewhere; what is behind the cut is lost.              *)
LEMMA CutList ==
  ASSUME NEW s \in Seq(Int), NEW n \in 0..Len(s)
  PROVE  /\ SubSeq(s, 1, n) \in Seq(Int) /\ DOMAIN SubSeq(s, 1, n) = 1..n
         /\ \A i \in 1..n : SubSeq(s, 1, n)[i] = s[i]
         /\ ToSet(SubSeq(s, n + 1, Len(s))) = {s[j] : j \in (n + 1)..Len(s)}
<1>1. PICK l \in Nat : l = Len(s)
  BY LenProperties
<1>2. DOMAIN s = 1..l
  BY <1>1, LenProperties
<1>3. n \in Nat /\ n <= l
  BY <1>1
<1>4. \A i \in 1..l : s[i] \in Int
  BY <1>1, ElementOfSeq
<1> DEFINE a == SubSeq(s, 1, n)
           b == SubSeq(s, n + 1, l)
<1>5. /\ a \in Seq(Int) /\ Len(a) = n
      /\ \A i \in 1..n : a[i] = s[i]
  <2>1. \A i \in 1..n : s[i] \in Int
    BY <1>3, <1>4
  <2>2. /\ a \in Seq(Int)
        /\ Len(a) = IF 1 <= n THEN (n - 1) + 1 ELSE 0
        /\ \A i \in 1..((n - 1) + 1) : a[i] = s[(1 + i) - 1]
    BY <1>3, <2>1, SubSeqProperties
  <2>3. \A i \in 1..n : (1 + i) - 1 = i /\ i \in 1..((n - 1) + 1)
    BY <1>3
  <2> QED
    BY <1>3, <2>2, <2>3
<1>6. /\ b \in Seq(Int) /\ Len(b) = l - n
      /\ \A i \in 1..(l - n) : b[i] = s[n + i]
  <2>1. \A i \in (n + 1)..l : s[i] \in Int
    BY <1>3, <1>4
  <2>2. n + 1 \in Int /\ l \in Int
    BY <1>3
  <2>3. /\ b \in Seq(Int)
        /\ Len(b) = IF n + 1 <= l THEN (l - (n + 1)) + 1 ELSE 0
        /\ \A i \in 1..((l - (n + 1)) + 1) : b[i] = s[((n + 1) + i) - 1]
    BY <2>1, <2>2, SubSeqProperties
  <2>4. \A i \in 1..(l - n) : ((n + 1) + i) - 1 = n + i /\ i \in 1..((l - (n + 1)) + 1)
    BY <1>3
  <2>5. Len(b) = l - n
    BY <1>3, <2>3
  <2> QED
    BY <2>3, <2>4, <2>5
<1> HIDE DEF a, b
<1>7. DOMAIN a = 1..n /\ DOMAIN b = 1..(l - n)
  BY <1>3, <1>5, <1>6, LenProperties
<1>8. ToSet(b) = {s[j] : j \in (n + 1)..l}
  <2>1. ASSUME NEW j \in (n + 1)..l
        PROVE  \E i \in DOMAIN b : b[i] = s[j]
    <3>1. j - n \in 1..(l - n) /\ n + (j - n) = j
      BY <1>3
    <3> QED
      BY <1>6, <1>7, <3>1
  <2>2. ASSUME NEW i \in DOMAIN b
        PROVE  \E j \in (n + 1)..l : b[i] = s[j]
    <3>1. n + i \in (n + 1)..l
      BY <1>3, <1>7
    <3> QED
      BY <1>6, <1>7, <3>1
  <2> QED
    BY <2>1, <2>2 DEF ToSet
<1> QED
  BY <1>1, <1>5, <1>7, <1>8 DEF a, b

(* The list has the numbers of all bits, or those of them not lost.         *)
LEMMA ExtractMakeList == ExtractInv /\ MakeList => ExtractInv'
<1> SUFFICES ASSUME ExtractInv, MakeList PROVE ExtractInv'
  OBVIOUS
<1>1. /\ Types /\ Untouched /\ Meant /\ ghost \in Ghosts /\ disk \in Disks
      /\ bitmap \in Seq(SUBSET Bits) /\ pc = "list" /\ at = 1 /\ raw = <<>>
      /\ Len(bitmap) = Groups
  BY DEF ExtractInv, Types, MakeList
<1>2. PICK all : all = Ascending(Numbers)
  OBVIOUS
<1>3. Numbers \subseteq Int /\ IsFiniteSet(Numbers)
  BY <1>1, NumbersFinite
<1>4. /\ all \in Seq(Int)
      /\ \A i, j \in DOMAIN all : i < j => all[i] < all[j]
      /\ \A i \in DOMAIN all : all[i] \in Numbers
      /\ \A x \in Numbers : \E i \in DOMAIN all : all[i] = x
  BY <1>2, <1>3, AscendingIs
<1>5. Len(all) \in Nat /\ DOMAIN all = 1..Len(all)
  BY <1>4, LenProperties
<1>6. PICK n \in 0..Len(all) :
        /\ list' = SubSeq(all, 1, n)
        /\ ghost' = [ghost EXCEPT !.lost = ToSet(SubSeq(all, n + 1, Len(all)))]
  BY <1>2, <1>5 DEF MakeList
<1>7. pc' = "read" /\ UNCHANGED <<disk, used, data, tool, bitmap, at, raw>>
  BY DEF MakeList, fs
<1>8. PICK L : L = {all[j] : j \in (n + 1)..Len(all)}
  OBVIOUS
<1>9. /\ list' \in Seq(Int) /\ DOMAIN list' = 1..n
      /\ \A i \in 1..n : list'[i] = all[i]
      /\ ToSet(SubSeq(all, n + 1, Len(all))) = L
  BY <1>4, <1>6, <1>8, CutList
<1>10. ghost' = [free |-> ghost.free, data |-> ghost.data, touched |-> ghost.touched,
                 rough |-> ghost.rough, lost |-> L]
  BY <1>1, <1>6, <1>9, GhostChanges DEF Ghosts
<1>11. L \subseteq Numbers
  BY <1>4, <1>5, <1>8
<1>12. ghost' \in Ghosts
  BY <1>1, <1>3, <1>10, <1>11, GhostTypes DEF Ghosts
<1>13. /\ Blocks' = Blocks /\ Groups' = Groups /\ Bits' = Bits /\ Ghosts' = Ghosts
       /\ Numbers' = Numbers
  BY <1>7, SameDisk, SameNumbers
<1>14. Types'
  BY <1>1, <1>7, <1>9, <1>12, <1>13 DEF Types
<1>15. Untouched' /\ Meant'
  BY <1>1, <1>7, <1>10, UntouchedKept, MeantKept
<1>16. Listed'
  <2>1. 1..n \subseteq DOMAIN all
    BY <1>5
  <2>2. \A i, j \in 1..n : i < j => list'[i] < list'[j]
    BY <1>4, <1>9, <2>1
  <2>3. ToSet(list') = {all[i] : i \in 1..n}
    BY <1>9 DEF ToSet
  <2>4. ToSet(list') \subseteq Numbers
    BY <1>4, <2>1, <2>3
  <2>5. ToSet(list') \cup L = Numbers
    <3>1. ASSUME NEW x \in Numbers PROVE x \in ToSet(list') \cup L
      <4>1. PICK i \in DOMAIN all : all[i] = x
        BY <1>4
      <4>2. i \in 1..n \/ i \in (n + 1)..Len(all)
        BY <1>5
      <4> QED
        BY <1>8, <2>3, <4>1, <4>2
    <3> QED
      BY <1>11, <2>4, <3>1
  <2>6. ToSet(list)' = ToSet(list')
    BY DEF ToSet
  <2> QED
    BY <1>9, <1>10, <1>13, <2>2, <2>4, <2>5, <2>6 DEF Listed
<1>17. Read' /\ AllRead'
  <2>1. raw' = <<>> /\ at' = 1 /\ DOMAIN list' = 1..n /\ DOMAIN raw' = {}
    BY <1>1, <1>7, <1>9
  <2>2. \A j \in 1..n : ~(j < 1)
    OBVIOUS
  <2> QED
    BY <1>7, <2>1, <2>2 DEF Read, AllRead
<1> QED
  BY <1>14, <1>15, <1>16, <1>17 DEF ExtractInv

-----------------------------------------------------------------------------
(* A number that is read is a block: freeblock_user.c looks, and those of  *)
(* extract_offline.c are blocks anyway.                                    *)
LEMMA ValidIsBlock ==
  ASSUME Types, Meant, NEW n \in Numbers, Valid(n)
  PROVE  n \in Blocks
<1>1. disk \in Disks /\ tool \in Tools /\ bitmap \in Seq(SUBSET Bits)
  BY DEF Types
<1>2. CASE tool = "offline"
  <2>1. Numbered /\ ghost.rough = {}
    BY <1>2 DEF Numbered, Meant
  <2>2. PICK g \in DOMAIN bitmap : \E i \in bitmap[g] : n = Number(g - 1, i)
    BY InNumbers
  <2>3. PICK i \in bitmap[g] : n = Number(g - 1, i)
    BY <2>2
  <2>4. i \in Bits
    BY <1>1, BitmapTypes
  <2>5. n = BlockOf(g, i)
    BY <1>1, <2>1, <2>3, <2>4, NumberedBlocks
  <2> QED
    BY <2>1, <2>3, <2>4, <2>5 DEF Meant
<1>3. CASE tool # "offline"
  <2>1. n \in Int /\ n > 0 /\ n < disk.blocks
    BY <1>1, <1>3, NumbersFinite DEF Valid
  <2> QED
    BY <1>1, <2>1, DiskTypes DEF Blocks
<1> QED
  BY <1>2, <1>3

(* The next number of the list.                                            *)
LEMMA NextNumber ==
  ASSUME ExtractInv, More
  PROVE  /\ at \in Nat /\ Len(list) \in Nat /\ DOMAIN list = 1..Len(list)
         /\ at \in DOMAIN list /\ at + 1 \in Nat \ {0}
         /\ list[at] \in Int /\ list[at] \in Numbers
         /\ \A j \in DOMAIN list : j < at + 1 <=> j < at \/ j = at
<1>1. list \in Seq(Int) /\ at \in Nat \ {0} /\ at <= Len(list)
  BY DEF ExtractInv, Types, More
<1>2. Len(list) \in Nat /\ DOMAIN list = 1..Len(list)
  BY <1>1, LenProperties
<1>3. at \in DOMAIN list
  BY <1>1, <1>2
<1>4. list[at] \in Int
  BY <1>1, <1>2, <1>3, ElementOfSeq
<1>5. list[at] \in Numbers
  BY <1>3 DEF ExtractInv, Listed, ToSet
<1>6. \A j \in DOMAIN list : j < at + 1 <=> j < at \/ j = at
  BY <1>1, <1>2
<1> QED
  BY <1>1, <1>2, <1>3, <1>4, <1>5, <1>6

(* A number that is no block is left out of the output.                     *)
LEMMA ExtractSkip == ExtractInv /\ SkipInvalid => ExtractInv'
<1> SUFFICES ASSUME ExtractInv, SkipInvalid PROVE ExtractInv'
  OBVIOUS
<1>1. /\ Types /\ Untouched /\ Meant /\ Listed /\ Read /\ More /\ ~Valid(list[at])
      /\ pc = "read" /\ at' = at + 1
      /\ UNCHANGED <<disk, used, data, tool, pc, bitmap, list, raw, ghost>>
  BY DEF ExtractInv, SkipInvalid, More, Next1, fs
<1>2. /\ at \in Nat /\ at + 1 \in Nat \ {0}
      /\ \A j \in DOMAIN list : j < at + 1 <=> j < at \/ j = at
  BY <1>1, NextNumber
<1>3. /\ Blocks' = Blocks /\ Groups' = Groups /\ Bits' = Bits /\ Ghosts' = Ghosts
      /\ Numbers' = Numbers /\ \A n : Valid(n)' <=> Valid(n)
  BY <1>1, SameDisk, SameNumbers
<1>4. Types'
  BY <1>1, <1>2, <1>3 DEF Types
<1>5. Untouched' /\ Meant'
  BY <1>1, UntouchedKept, MeantKept
<1>6. Listed'
  BY <1>1, <1>3 DEF Listed
<1>7. Read'
  <2>1. \A n : Output(n)' <=> Output(n)
    BY <1>1 DEF Output
  <2> QED
    BY <1>1, <1>2, <1>3, <2>1 DEF Read
<1>8. AllRead'
  BY <1>1 DEF AllRead
<1> QED
  BY <1>4, <1>5, <1>6, <1>7, <1>8 DEF ExtractInv

(* A block that cannot be read is lost.                                     *)
LEMMA ExtractLose == ExtractInv /\ LoseBlock => ExtractInv'
<1> SUFFICES ASSUME ExtractInv, LoseBlock PROVE ExtractInv'
  OBVIOUS
<1>1. /\ Types /\ Untouched /\ Meant /\ Listed /\ Read /\ More /\ ghost \in Ghosts
      /\ pc = "read" /\ at' = at + 1
      /\ ghost' = [ghost EXCEPT !.lost = @ \cup {list[at]}]
      /\ UNCHANGED <<disk, used, data, tool, pc, bitmap, list, raw>>
  BY DEF ExtractInv, Types, LoseBlock, More, Next1, fs
<1>2. /\ at \in Nat /\ at + 1 \in Nat \ {0} /\ list[at] \in Int /\ list[at] \in Numbers
      /\ \A j \in DOMAIN list : j < at + 1 <=> j < at \/ j = at
  BY <1>1, NextNumber
<1>3. /\ Blocks' = Blocks /\ Groups' = Groups /\ Bits' = Bits /\ Ghosts' = Ghosts
      /\ Numbers' = Numbers /\ \A n : Valid(n)' <=> Valid(n)
  BY <1>1, SameDisk, SameNumbers
<1>4. PICK L : L = ghost.lost \cup {list[at]}
  OBVIOUS
<1>5. ghost' = [free |-> ghost.free, data |-> ghost.data, touched |-> ghost.touched,
                rough |-> ghost.rough, lost |-> L]
  BY <1>1, <1>4, GhostChanges DEF Ghosts
<1>6. ghost' \in Ghosts
  <2>1. L \subseteq Int
    BY <1>1, <1>2, <1>4, GhostTypes
  <2> QED
    BY <1>1, <1>5, <2>1, GhostTypes DEF Ghosts
<1>7. Types'
  BY <1>1, <1>2, <1>3, <1>6 DEF Types
<1>8. Untouched' /\ Meant'
  BY <1>1, <1>5, UntouchedKept, MeantKept
<1>9. Listed'
  BY <1>1, <1>2, <1>3, <1>4, <1>5 DEF Listed
<1>10. Read'
  <2>1. \A n : Output(n)' <=> Output(n)
    BY <1>1 DEF Output
  <2> QED
    BY <1>1, <1>2, <1>3, <1>4, <1>5, <2>1 DEF Read
<1>11. AllRead'
  BY <1>1 DEF AllRead
<1> QED
  BY <1>7, <1>8, <1>9, <1>10, <1>11 DEF ExtractInv

(* What is left of the list when the output cannot be written.             *)
LEMMA RestOfList ==
  ASSUME NEW s \in Seq(Int), NEW k \in 1..Len(s)
  PROVE  ToSet(SubSeq(s, k, Len(s))) = {s[j] : j \in k..Len(s)}
<1>1. Len(s) \in Nat
  BY LenProperties
<1>2. k - 1 \in 0..Len(s) /\ (k - 1) + 1 = k
  BY <1>1
<1>3. ToSet(SubSeq(s, (k - 1) + 1, Len(s))) = {s[j] : j \in ((k - 1) + 1)..Len(s)}
  BY <1>2, CutList
<1> QED
  BY <1>2, <1>3

(* A write that fails loses the rest of the list.                           *)
LEMMA ExtractWriteFails == ExtractInv /\ WriteFails => ExtractInv'
<1> SUFFICES ASSUME ExtractInv, WriteFails PROVE ExtractInv'
  OBVIOUS
<1>1. /\ Types /\ Untouched /\ Meant /\ Listed /\ Read /\ More /\ ghost \in Ghosts
      /\ pc = "read" /\ pc' = "done"
      /\ ghost' = [ghost EXCEPT !.lost = @ \cup ToSet(SubSeq(list, at, Len(list)))]
      /\ UNCHANGED <<disk, used, data, tool, bitmap, list, at, raw>> /\ list \in Seq(Int)
  BY DEF ExtractInv, Types, WriteFails, More, fs
<1>2. /\ at \in Nat /\ Len(list) \in Nat /\ DOMAIN list = 1..Len(list) /\ at \in DOMAIN list
  BY <1>1, NextNumber
<1>3. /\ Blocks' = Blocks /\ Groups' = Groups /\ Bits' = Bits /\ Ghosts' = Ghosts
      /\ Numbers' = Numbers /\ \A n : Valid(n)' <=> Valid(n)
  BY <1>1, SameDisk, SameNumbers
<1>4. PICK L : L = ghost.lost \cup {list[j] : j \in at..Len(list)}
  OBVIOUS
<1>5. ghost' = [free |-> ghost.free, data |-> ghost.data, touched |-> ghost.touched,
                rough |-> ghost.rough, lost |-> L]
  <2>1. ToSet(SubSeq(list, at, Len(list))) = {list[j] : j \in at..Len(list)}
    BY <1>1, <1>2, RestOfList
  <2>2. ghost' = [ghost EXCEPT !.lost = L]
    BY <1>1, <1>4, <2>1
  <2> QED
    BY <1>1, <2>2, GhostChanges DEF Ghosts
<1>6. \A j \in at..Len(list) : j \in DOMAIN list /\ list[j] \in Int
  <2>1. \A j \in at..Len(list) : j \in DOMAIN list
    BY <1>2
  <2> QED
    BY <1>1, <1>2, <2>1, ElementOfSeq
<1>7. ghost' \in Ghosts
  <2>1. L \subseteq Int
    BY <1>1, <1>4, <1>6, GhostTypes
  <2>2. /\ ghost.free \subseteq Blocks /\ ghost.data \in [Blocks -> Nat]
        /\ ghost.touched \subseteq Blocks /\ ghost.rough \subseteq Nat
    BY <1>1, GhostTypes
  <2> QED
    BY <1>5, <2>1, <2>2 DEF Ghosts
<1>8. Types'
  BY <1>1, <1>3, <1>7 DEF Types
<1>9. Untouched' /\ Meant'
  BY <1>1, <1>5, UntouchedKept, MeantKept
<1>10. Listed'
  BY <1>1, <1>3 DEF Listed
<1>11. Read'
  BY <1>1, <1>3, <1>5 DEF Read
<1>12. AllRead'
  <2>1. ASSUME NEW n \in Numbers
        PROVE  n \in L \/ ~Valid(n) \/ Output(n)
    <3>1. CASE n \in ghost.lost
      BY <1>4, <3>1
    <3>2. CASE n \notin ghost.lost
      <4>1. n \in ToSet(list)
        BY <1>1, <2>1, <3>2 DEF Listed
      <4>2. PICK j \in DOMAIN list : list[j] = n
        BY <4>1 DEF ToSet
      <4>3. CASE j < at
        BY <1>1, <1>4, <4>2, <4>3 DEF Read
      <4>4. CASE ~(j < at)
        <5>1. j \in at..Len(list)
          BY <1>2, <4>2, <4>4
        <5> QED
          BY <1>4, <4>2, <5>1
      <4> QED
        BY <4>3, <4>4
    <3> QED
      BY <3>1, <3>2
  <2>2. \A n : Output(n)' <=> Output(n)
    BY <1>1 DEF Output
  <2> QED
    BY <1>3, <1>5, <2>1, <2>2 DEF AllRead
<1> QED
  BY <1>8, <1>9, <1>10, <1>11, <1>12 DEF ExtractInv

(* A block is read: its number is greater than all that were read before.  *)
LEMMA ExtractRead == ExtractInv /\ ReadBlock => ExtractInv'
<1> SUFFICES ASSUME ExtractInv, ReadBlock PROVE ExtractInv'
  OBVIOUS
<1>1. /\ Types /\ Untouched /\ Meant /\ Listed /\ Read /\ More /\ Valid(list[at])
      /\ pc = "read" /\ at' = at + 1
      /\ raw' = Append(raw, [block |-> list[at], data |-> data[list[at]]])
      /\ UNCHANGED <<disk, used, data, tool, pc, bitmap, list, ghost>>
  BY DEF ExtractInv, ReadBlock, More, Next1, fs
<1>2. /\ at \in Nat /\ at + 1 \in Nat \ {0} /\ list[at] \in Int /\ list[at] \in Numbers
      /\ DOMAIN list = 1..Len(list) /\ at \in DOMAIN list
      /\ \A j \in DOMAIN list : j < at + 1 <=> j < at \/ j = at
  BY <1>1, NextNumber
<1>3. PICK n \in Blocks : n = list[at]
  BY <1>1, <1>2, ValidIsBlock
<1>4. PICK d \in Nat : d = data[n]
  BY <1>1 DEF Types
<1>5. /\ raw \in Seq([block : Int, data : Nat])
      /\ [block |-> n, data |-> d] \in [block : Int, data : Nat]
  BY <1>1, <1>2, <1>3 DEF Types
<1>6. PICK r \in [block : Int, data : Nat] : r = [block |-> n, data |-> d]
  BY <1>5
<1>7. raw' = Append(raw, r)
  BY <1>1, <1>3, <1>4, <1>6
<1>8. PICK l \in Nat : l = Len(raw)
  BY <1>5, LenProperties
<1>9. DOMAIN raw = 1..l
  BY <1>5, <1>8, LenProperties
<1>10. /\ raw' \in Seq([block : Int, data : Nat])
       /\ DOMAIN raw' = 1..(l + 1)
       /\ \A i \in 1..l : raw'[i] = raw[i]
       /\ raw'[l + 1] = r
  <2>1. PICK S : S = [block : Int, data : Nat]
    OBVIOUS
  <2>2. /\ raw' \in Seq(S) /\ Len(raw') = l + 1
        /\ \A i \in 1..l : raw'[i] = raw[i]
        /\ raw'[l + 1] = r
    BY <1>5, <1>7, <1>8, <2>1, AppendProperties
  <2> QED
    BY <1>8, <2>1, <2>2, LenProperties
<1>11. /\ Blocks' = Blocks /\ Groups' = Groups /\ Bits' = Bits /\ Ghosts' = Ghosts
       /\ Numbers' = Numbers /\ \A x : Valid(x)' <=> Valid(x)
  BY <1>1, SameDisk, SameNumbers
<1>12. Types'
  BY <1>1, <1>2, <1>10, <1>11 DEF Types
<1>13. Untouched' /\ Meant'
  BY <1>1, UntouchedKept, MeantKept
<1>14. Listed'
  BY <1>1, <1>11 DEF Listed
<1>15. Read'
  <2> DEFINE Out(x) == \E i \in DOMAIN raw' : raw'[i].block = x
  <2>1. \A x : Output(x) \/ x = n => Out(x)
    <3>1. l + 1 \in DOMAIN raw' /\ raw'[l + 1].block = n
      BY <1>6, <1>8, <1>10
    <3>2. \A i \in DOMAIN raw : i \in DOMAIN raw' /\ raw'[i] = raw[i]
      BY <1>8, <1>9, <1>10
    <3> QED
      BY <3>1, <3>2 DEF Output
  <2>2. \A i \in 1..l : raw[i].block < n
    <3>1. ASSUME NEW i \in 1..l PROVE raw[i].block < n
      <4>1. PICK j \in DOMAIN list : j < at /\ list[j] = raw[i].block
        BY <1>1, <1>9 DEF Read
      <4>2. list[j] < list[at]
        BY <1>1, <1>2, <4>1 DEF Listed
      <4> QED
        BY <1>3, <4>1, <4>2
    <3> QED
      BY <3>1
  <2>3. \A i, j \in 1..(l + 1) : i < j => raw'[i].block < raw'[j].block
    <3>1. SUFFICES ASSUME NEW i \in 1..(l + 1), NEW j \in 1..(l + 1), i < j
                   PROVE  raw'[i].block < raw'[j].block
      OBVIOUS
    <3>2. i \in 1..l /\ raw'[i] = raw[i]
      <4>1. i \in 1..l
        BY <1>8, <3>1
      <4> QED
        BY <1>10, <4>1
    <3>3. CASE j = l + 1
      BY <1>6, <1>10, <2>2, <3>2, <3>3
    <3>4. CASE j # l + 1
      <4>1. j \in 1..l /\ raw'[j] = raw[j]
        BY <1>8, <1>10, <3>4
      <4> QED
        BY <1>1, <1>9, <3>1, <3>2, <4>1 DEF Read
    <3> QED
      BY <3>3, <3>4
  <2>4. ASSUME NEW i \in 1..(l + 1)
        PROVE  /\ raw'[i].block \in Blocks
               /\ \E j \in DOMAIN list : j < at + 1 /\ list[j] = raw'[i].block
               /\ raw'[i].block \notin ghost.touched =>
                    raw'[i].data = ghost.data[raw'[i].block]
    <3>1. CASE i = l + 1
      <4>1. raw'[i].block = n /\ raw'[i].data = d
        BY <1>6, <1>10, <3>1
      <4>2. at < at + 1
        BY <1>2
      <4> QED
        BY <1>1, <1>2, <1>3, <1>4, <4>1, <4>2 DEF Untouched
    <3>2. CASE i # l + 1
      <4>1. i \in DOMAIN raw /\ raw'[i] = raw[i]
        BY <1>8, <1>9, <1>10, <3>2
      <4> QED
        BY <1>1, <1>2, <4>1 DEF Read
    <3> QED
      BY <3>1, <3>2
  <2>5. ASSUME NEW j \in DOMAIN list, j < at + 1
        PROVE  list[j] \in ghost.lost \/ ~Valid(list[j]) \/ Out(list[j])
    <3>1. CASE j = at
      BY <1>3, <2>1, <3>1
    <3>2. CASE j < at
      BY <1>1, <2>1, <3>2 DEF Read
    <3> QED
      BY <1>2, <2>5, <3>1, <3>2
  <2> QED
    BY <1>1, <1>10, <1>11, <2>3, <2>4, <2>5 DEF Read, Output
<1>16. AllRead'
  BY <1>1 DEF AllRead
<1> QED
  BY <1>12, <1>13, <1>14, <1>15, <1>16 DEF ExtractInv

(* ExtractInv is inductive.                                                *)
LEMMA ExtractInvKept == ExtractInv /\ [Next]_vars => ExtractInv'
BY ExtractChange, ExtractBegin, ExtractGoesOn, ExtractCopyGroup, ExtractMakeList,
   ExtractSkip, ExtractLose, ExtractWriteFails, ExtractRead
   DEF Next, Step, Failure

(* The inductive invariant holds in every state.                            *)
LEMMA ExtractInvariant == Spec => []ExtractInv
BY ExtractInit, ExtractInvKept, PTL DEF Spec

-----------------------------------------------------------------------------
(* Whatever happens to other blocks while the bitmaps are copied, a block  *)
(* nobody touched is to be read if and only if it was free.  This leaves   *)
(* out the live extractor where the first group begins at block 1 (there   *)
(* every number is one too low) and groups whose bitmap was never written. *)
THEOREM QuietBlocksListed == Spec => []QuietListed
<1>1. ExtractInv => QuietListed
  <2> SUFFICES ASSUME ExtractInv PROVE QuietListed
    OBVIOUS
  <2>1. /\ Types /\ Meant /\ Listed /\ disk \in Disks /\ bitmap \in Seq(SUBSET Bits)
    BY DEF ExtractInv, Types
  <2>2. SUFFICES ASSUME pc = "read", Numbered, NEW b \in Blocks, b >= disk.first,
                        b \notin ghost.touched, GroupOf(b) \notin ghost.rough
                 PROVE  (b \in ToSet(list) \cup ghost.lost) <=> b \in ghost.free
    BY DEF QuietListed
  <2>3. /\ Groups \in Nat /\ GroupOf(b) \in Nat /\ GroupOf(b) < Groups
        /\ \E i \in Bits : BlockOf(GroupOf(b) + 1, i) = b
    BY <2>1, <2>2, GroupIs
  <2>4. PICK g : g = GroupOf(b) + 1
    OBVIOUS
  <2>5. PICK i \in Bits : BlockOf(g, i) = b
    BY <2>3, <2>4
  <2>6. g \in DOMAIN bitmap /\ g - 1 = GroupOf(b)
    <3>1. Len(bitmap) = Groups
      BY <2>1, <2>2 DEF Types
    <3>2. DOMAIN bitmap = 1..Groups
      BY <2>1, <3>1, BitmapTypes
    <3> QED
      BY <2>3, <2>4, <3>2
  <2>7. b \in Numbers <=> i \in bitmap[g]
    BY <2>1, <2>2, <2>5, <2>6, NumberedBlocks
  <2>8. i \in bitmap[g] <=> b \in ghost.free
    BY <2>1, <2>2, <2>5, <2>6 DEF Meant
  <2>9. ToSet(list) \cup ghost.lost = Numbers
    BY <2>1, <2>2 DEF Listed
  <2> QED
    BY <2>7, <2>8, <2>9
<1> QED
  BY <1>1, ExtractInvariant, PTL

(* The output has blocks of the list, each once, in ascending order, and   *)
(* of those nobody touched what was in them at the beginning.              *)
THEOREM OutputFaithful == Spec => []RawFaithful
<1>1. ExtractInv => RawFaithful
  <2> SUFFICES ASSUME ExtractInv PROVE RawFaithful
    OBVIOUS
  <2>1. Read
    BY DEF ExtractInv
  <2>2. \A i \in DOMAIN raw : raw[i].block \in ToSet(list)
    BY <2>1 DEF Read, ToSet
  <2> QED
    BY <2>1, <2>2 DEF Read, RawFaithful
<1> QED
  BY <1>1, ExtractInvariant, PTL

(* A free block of the bitmaps is in the output unless it is known to be   *)
(* lost.                                                                   *)
THEOREM OutputComplete == Spec => []RawComplete
<1>1. ExtractInv => RawComplete
  <2> SUFFICES ASSUME ExtractInv PROVE RawComplete
    OBVIOUS
  <2>1. Types /\ AllRead /\ disk \in Disks
    BY DEF ExtractInv, Types
  <2>2. SUFFICES ASSUME pc = "done", tool = "offline" \/ freecount > 0,
                        NEW b \in Numbers \cap Blocks, b > 0
                 PROVE  b \in ghost.lost \/ \E i \in DOMAIN raw : raw[i].block = b
    BY DEF RawComplete
  <2>3. b \in Int /\ b < disk.blocks
    BY <2>1, DiskTypes DEF Blocks
  <2>4. Valid(b)
    BY <2>2, <2>3 DEF Valid
  <2> QED
    BY <2>1, <2>2, <2>4 DEF AllRead, Output
<1> QED
  BY <1>1, ExtractInvariant, PTL
=============================================================================
