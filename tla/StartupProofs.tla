---------------------------- MODULE StartupProofs ----------------------------
(***************************************************************************)
(* Theorems about the start of the program: every type of the              *)
(* configuration is read, in order and with room for it, and whatever      *)
(* needles it defines, the search with their jump tables finds the first   *)
(* match in any text; the command line is followed, and the run begins as  *)
(* Session says.                                                           *)
(***************************************************************************)
EXTENDS Startup, SequenceTheorems, FiniteSetTheorems, WellFoundedInduction, TLAPS

-----------------------------------------------------------------------------
(* A set of naturals that is not empty has a least element.                *)
LEMMA LeastExists ==
  ASSUME NEW S \in SUBSET Nat, S # {}
  PROVE  \E m \in S : \A x \in S : m <= x
<1>1. IsWellFoundedOn(OpToRel(<, Nat), Nat)
  BY NatLessThanWellFounded
<1>2. PICK m \in S : \A x \in S : <<x, m>> \notin OpToRel(<, Nat)
  BY <1>1, WFMin
<1>3. \A x \in S : ~(x < m)
  BY <1>2 DEF OpToRel
<1> QED
  BY <1>3

(* A set of naturals with an upper bound has a greatest element.           *)
LEMMA GreatestExists ==
  ASSUME NEW S \in SUBSET Nat, S # {}, NEW n \in Nat, \A x \in S : x <= n
  PROVE  \E m \in S : \A x \in S : x <= m
<1> DEFINE T == {n - x : x \in S}
<1>1. T \in SUBSET Nat /\ T # {}
  <2>1. \A x \in S : x \in Nat /\ n - x \in Nat
    OBVIOUS
  <2>2. PICK x \in S : TRUE
    OBVIOUS
  <2>3. n - x \in T
    OBVIOUS
  <2> QED
    BY <2>1, <2>3
<1>2. PICK d \in T : \A y \in T : d <= y
  BY <1>1, LeastExists
<1>3. PICK m \in S : d = n - m
  BY <1>2
<1>4. ASSUME NEW x \in S PROVE x <= m
  <2>1. n - x \in T
    OBVIOUS
  <2> QED
    BY <1>2, <1>3, <2>1
<1> QED
  BY <1>4

-----------------------------------------------------------------------------
(***************************************************************************)
(* The jump table.                                                         *)
(***************************************************************************)

(* The bytes that place i of a needle holds back.                          *)
HeldAt(needle, casesensitive, wild, i) ==
  IF needle[i] = wild THEN Alphabet
  ELSE IF casesensitive \/ needle[i] <= 0 THEN {needle[i]}
  ELSE {needle[i], tolower(needle[i]), toupper(needle[i])}

(* A byte that matches place i is held back by it, also when the table was *)
(* made with another wildcard, if the one in force is not in the needle.   *)
LEMMA MatchHeld ==
  ASSUME NEW needle, NEW i, NEW c \in Alphabet, NEW casesensitive \in BOOLEAN,
         NEW wild, NEW made, made = wild \/ needle[i] # wild,
         charactersMatch(needle[i], c, casesensitive, wild)
  PROVE  c \in HeldAt(needle, casesensitive, made, i)
<1>1. PICK a : a = needle[i]
  OBVIOUS
<1>2. CASE a = made
  BY <1>1, <1>2 DEF HeldAt
<1>3. CASE a # made
  <2>1. a # wild
    BY <1>1, <1>3
  <2>2. CASE a = c
    BY <1>1, <1>3, <2>2 DEF HeldAt
  <2>3. CASE ~casesensitive /\ {a, c} \subseteq 65..122 /\ a - c \in {32, -32}
    <3>1. a \in 65..122 /\ c \in 65..122
      BY <2>3
    <3>2. c = tolower(a) \/ c = toupper(a)
      <4>1. CASE a - c = 32
        BY <3>1, <4>1 DEF toupper
      <4>2. CASE a - c = -32
        BY <3>1, <4>2 DEF tolower
      <4> QED
        BY <2>3, <4>1, <4>2
    <3>3. ~(casesensitive \/ a <= 0)
      BY <2>3, <3>1
    <3> QED
      BY <1>1, <1>3, <3>2, <3>3 DEF HeldAt
  <2> QED
    BY <1>1, <2>1, <2>2, <2>3 DEF charactersMatch
<1> QED
  BY <1>2, <1>3

(* A byte lets the search move on by no more than the places behind the    *)
(* last one that holds it back.                                            *)
LEMMA TableIs ==
  ASSUME NEW needle \in Seq(Int), NEW casesensitive \in BOOLEAN, NEW wild, NEW c \in Alphabet
  PROVE  LET shift == init_bm_table(needle, casesensitive, wild)[c]
         IN  /\ shift \in 0..Len(needle)
             /\ \A i \in 1..Len(needle) :
                  i > Len(needle) - shift => c \notin HeldAt(needle, casesensitive, wild, i)
<1>1. PICK len \in Nat : len = Len(needle)
  BY LenProperties
<1> DEFINE Held(i) == HeldAt(needle, casesensitive, wild, i)
           Step(g, i) == IF i = 0 THEN [x \in Alphabet |-> len]
                         ELSE [x \in Alphabet |-> IF x \in Held(i) THEN len - i ELSE g[i - 1][x]]
           Walk(g) == [i \in 0..len |-> Step(g, i)]
           table == CHOOSE g : g = Walk(g)
           K(i, x) == {k \in 1..i : x \in Held(k)}
           Greatest(S) == CHOOSE k \in S : \A j \in S : j <= k
           w == [i \in 0..len |-> [x \in Alphabet |->
                   IF K(i, x) = {} THEN len ELSE len - Greatest(K(i, x))]]
<1>2. init_bm_table(needle, casesensitive, wild) = table[len]
  BY <1>1 DEF init_bm_table, HeldAt
<1>3. w = Walk(w)
  <2> HIDE DEF Held
  <2>1. ASSUME NEW i \in 1..len, NEW x \in Alphabet
        PROVE  w[i][x] = IF x \in Held(i) THEN len - i ELSE w[i - 1][x]
    <3>1. CASE x \in Held(i)
      <4>1. i \in K(i, x) /\ \A k \in K(i, x) : k <= i
        BY <3>1
      <4>2. \A k \in K(i, x) : (\A j \in K(i, x) : j <= k) => k = i
        BY <4>1
      <4>3. Greatest(K(i, x)) = i
        <5> HIDE DEF K
        <5> QED
          BY <4>1, <4>2
      <4> QED
        BY <3>1, <4>1, <4>3
    <3>2. CASE x \notin Held(i)
      <4>1. K(i, x) = K(i - 1, x)
        BY <3>2
      <4>2. i - 1 \in 0..len
        OBVIOUS
      <4> HIDE DEF K, Greatest
      <4> QED
        BY <3>2, <4>1, <4>2
    <3> QED
      BY <3>1, <3>2
  <2>2. w[0] = [x \in Alphabet |-> len]
    <3>1. \A x \in Alphabet : K(0, x) = {}
      OBVIOUS
    <3> QED
      BY <3>1
  <2>3. ASSUME NEW i \in 0..len PROVE w[i] = Step(w, i)
    <3>1. CASE i = 0
      BY <2>2, <3>1
    <3>2. CASE i # 0
      <4>1. i \in 1..len
        BY <3>2
      <4>2. w[i] = [x \in Alphabet |-> w[i][x]]
        OBVIOUS
      <4> HIDE DEF w
      <4>3. w[i] = [x \in Alphabet |-> IF x \in Held(i) THEN len - i ELSE w[i - 1][x]]
        BY <2>1, <4>1, <4>2
      <4> QED
        BY <3>2, <4>3
    <3> QED
      BY <3>1, <3>2
  <2>4. w = [i \in 0..len |-> w[i]]
    OBVIOUS
  <2> HIDE DEF w, Step
  <2> QED
    BY <2>3, <2>4
<1>4. table = Walk(table)
  <2> HIDE DEF w, Walk
  <2> QED
    BY <1>3
<1> DEFINE Good(i) == /\ table[i][c] \in 0..len
                      /\ \A k \in 1..i : k > len - table[i][c] => c \notin Held(k)
           bad == {i \in 0..len : ~Good(i)}
<1> HIDE DEF table, w, Held
<1>5. table[0][c] = len
  BY <1>4
<1>6. \A i \in 1..len : table[i][c] = IF c \in Held(i) THEN len - i ELSE table[i - 1][c]
  BY <1>4
<1>7. bad = {}
  <2> SUFFICES ASSUME bad # {} PROVE FALSE
    OBVIOUS
  <2> HIDE DEF Good
  <2>0. bad \in SUBSET Nat
    OBVIOUS
  <2>1. PICK i \in bad : \A j \in bad : i <= j
    BY <2>0, LeastExists
  <2>2. i # 0
    BY <1>5, <2>1 DEF Good
  <2>3. i \in 1..len /\ i - 1 \in 0..len /\ Good(i - 1)
    BY <2>1, <2>2
  <2> USE DEF Good
  <2>4. Good(i)
    <3>1. CASE c \in Held(i)
      <4>1. table[i][c] = len - i
        BY <1>6, <2>3, <3>1
      <4> QED
        BY <2>3, <4>1
    <3>2. CASE c \notin Held(i)
      <4>1. table[i][c] = table[i - 1][c]
        BY <1>6, <2>3, <3>2
      <4>2. \A k \in 1..i : k # i => k \in 1..(i - 1)
        BY <2>3
      <4> QED
        BY <2>3, <3>2, <4>1, <4>2
    <3> QED
      BY <3>1, <3>2
  <2> HIDE DEF Good
  <2> QED
    BY <2>1, <2>4
<1>8. Good(len)
  BY <1>7
<1> QED
  BY <1>1, <1>2, <1>8 DEF Held

-----------------------------------------------------------------------------
(***************************************************************************)
(* The search.                                                             *)
(***************************************************************************)
Places(needle, text, casesensitive, wild) ==
  {i \in 1..(Len(text) + 1) : MatchesAt(needle, text, i, casesensitive, wild)}

(* A move by what the table allows stays within reach of the recursion.    *)
LEMMA Moved ==
  ASSUME NEW len \in Nat, len > 0, NEW n \in Nat, NEW pos \in (len - 1)..(n + len),
         pos < n, NEW t \in 0..len
  PROVE  /\ pos + t \in (len - 1)..(n + len)
         /\ (pos + 2) - len \in Int
         /\ ((pos + t) + 2) - len = ((pos + 2) - len) + t
OBVIOUS

(* Nothing lost between two bounds: the places ahead of either are the same. *)
LEMMA SameAhead ==
  ASSUME NEW P \in SUBSET Int, NEW h \in Int, NEW t \in Nat,
         \A i \in P : i >= h => i >= h + t
  PROVE  {i \in P : i >= h} = {i \in P : i >= h + t}
<1>1. \A i \in P : i >= h + t => i >= h
  OBVIOUS
<1> QED
  BY <1>1

(* The search skips no match: it finds the first one, or none if there is  *)
(* none.                                                                   *)
LEMMA SearchFinds ==
  ASSUME NEW needle \in Seq(Int), NEW text \in Seq(Alphabet), NEW casesensitive \in BOOLEAN,
         NEW wild, NEW made, made = wild \/ \A i \in 1..Len(needle) : needle[i] # wild
  PROVE  LET places == Places(needle, text, casesensitive, wild)
             found == bm_needleinhaystack(needle, text,
                        init_bm_table(needle, casesensitive, made), casesensitive, wild)
         IN  IF places = {} THEN found = 0
             ELSE found \in places /\ \A i \in places : found <= i
<1>1. PICK len \in Nat : len = Len(needle)
  BY LenProperties
<1>2. PICK n \in Nat : n = Len(text)
  BY LenProperties
<1>3. DOMAIN needle = 1..len /\ \A i \in 1..n : text[i] \in Alphabet
  BY <1>1, <1>2, LenProperties, ElementOfSeq
<1>4. PICK table : table = init_bm_table(needle, casesensitive, made)
  OBVIOUS
<1> DEFINE places == Places(needle, text, casesensitive, wild)
           Hit(i) == MatchesAt(needle, text, i, casesensitive, wild)
           found == bm_needleinhaystack(needle, text, table, casesensitive, wild)
<1>5. places = {i \in 1..(n + 1) : Hit(i)}
  BY <1>2 DEF Places
<1>6. ASSUME NEW i \in places PROVE i \in 1..(n + 1) /\ (i + len) - 1 <= n /\ Hit(i)
  BY <1>1, <1>2, <1>5 DEF MatchesAt
<1>7. CASE len = 0
  <2>1. found = 1
    BY <1>1, <1>7 DEF bm_needleinhaystack
  <2>2. Hit(1)
    BY <1>1, <1>2, <1>3, <1>7 DEF MatchesAt
  <2>3. 1 \in places
    BY <1>5, <2>2
  <2> QED
    BY <1>4, <1>6, <2>1, <2>3
<1>8. CASE len > 0
  <2> DEFINE Here(pos) == (pos + 2) - len
             Step(g, pos) == IF pos >= n THEN 0
                             ELSE IF table[text[pos + 1]] > 0 THEN g[pos + table[text[pos + 1]]]
                             ELSE IF Hit(Here(pos)) THEN Here(pos)
                             ELSE g[pos + 1]
             D == (len - 1)..(n + len)
             Walk(g) == [pos \in D |-> Step(g, pos)]
             Ahead(k) == {i \in places : i >= k}
             Least(S) == IF S = {} THEN 0 ELSE CHOOSE i \in S : \A j \in S : i <= j
             w == [pos \in D |-> Least(Ahead(Here(pos)))]
             from == CHOOSE g : g = Walk(g)
  <2>1. found = from[len - 1]
    BY <1>1, <1>2, <1>8 DEF bm_needleinhaystack
  (* The bytes of a match under a position, and how far the table lets it move. *)
  <2>2. ASSUME NEW pos \in D, pos < n
        PROVE  /\ pos + 1 \in 1..n /\ table[text[pos + 1]] \in 0..len
               /\ \A i \in places : i >= Here(pos) => i >= Here(pos) + table[text[pos + 1]]
    <3>1. pos + 1 \in 1..n
      BY <1>8, <2>2
    <3>2. PICK c \in Alphabet : c = text[pos + 1]
      BY <1>3, <3>1
    <3>3. PICK t \in 0..len : t = table[c]
      BY <1>1, <1>4, TableIs
    <3>4. \A i \in 1..len : i > len - t => c \notin HeldAt(needle, casesensitive, made, i)
      BY <1>1, <1>4, <3>3, TableIs
    <3>5. ASSUME NEW i \in places, i >= Here(pos), ~(i >= Here(pos) + t) PROVE FALSE
      <4>1. PICK k \in 1..len : k = (pos + 2) - i
        BY <1>6, <2>2, <3>5
      <4>2. k > len - t /\ (i + k) - 1 = pos + 1
        BY <1>6, <2>2, <3>5, <4>1
      <4>3. charactersMatch(needle[k], c, casesensitive, wild)
        BY <1>3, <1>6, <3>2, <4>1, <4>2 DEF MatchesAt
      <4>4. made = wild \/ needle[k] # wild
        BY <1>1, <4>1
      <4> QED
        BY <3>4, <4>1, <4>2, <4>3, <4>4, MatchHeld
    <3> QED
      BY <3>1, <3>2, <3>3, <3>5
  <2>3. w = Walk(w)
    <3>1. ASSUME NEW pos \in D PROVE w[pos] = Step(w, pos)
      <4>1. CASE pos >= n
        <5>1. Ahead(Here(pos)) = {}
          BY <1>6, <4>1
        <5> QED
          BY <4>1, <5>1
      <4>2. CASE pos < n
        <5>1. PICK t \in 0..len : t = table[text[pos + 1]]
          BY <2>2, <4>2
        <5>2. \A i \in places : i >= Here(pos) => i >= Here(pos) + t
          BY <2>2, <4>2, <5>1
        <5>3. CASE t > 0
          <6>1. /\ pos + t \in D /\ Here(pos) \in Int
                /\ Here(pos + t) = Here(pos) + t
            <7> HIDE DEF places, w, Walk, Step, from
            <7> QED
              BY <1>8, <4>2, <5>1, Moved
          <6>2. Ahead(Here(pos)) = Ahead(Here(pos + t))
            <7>1. places \in SUBSET Int /\ t \in Nat
              BY <1>6, <5>1
            <7>2. Ahead(Here(pos)) = {i \in places : i >= Here(pos) + t}
              <8> HIDE DEF places, Here
              <8> QED
                BY <5>2, <6>1, <7>1, SameAhead
            <7> HIDE DEF places, Here
            <7> QED
              BY <6>1, <7>2
          <6>3. w[pos] = Least(Ahead(Here(pos))) /\ w[pos + t] = Least(Ahead(Here(pos + t)))
            BY <6>1
          <6>4. Step(w, pos) = w[pos + t]
            BY <4>2, <5>1, <5>3
          <6> HIDE DEF w, Step, Least, Ahead, Here
          <6>5. w[pos] = Least(Ahead(Here(pos + t)))
            BY <6>2, <6>3, Zenon
          <6>6. w[pos + t] = Least(Ahead(Here(pos + t)))
            BY <6>3
          <6> QED
            BY <6>4, <6>5, <6>6, Zenon
        <5>4. CASE t = 0 /\ Hit(Here(pos))
          <6>1. Here(pos) \in places
            BY <1>5, <1>8, <4>2, <5>4
          <6>2. Here(pos) \in Ahead(Here(pos)) /\ \A i \in Ahead(Here(pos)) : Here(pos) <= i
            BY <1>6, <6>1
          <6>3. \A i \in Ahead(Here(pos)) :
                  (\A j \in Ahead(Here(pos)) : i <= j) => i = Here(pos)
            BY <1>6, <6>2
          <6>4. Least(Ahead(Here(pos))) = Here(pos)
            <7> HIDE DEF Ahead, Here
            <7> QED
              BY <6>2, <6>3
          <6>5. Step(w, pos) = Here(pos)
            BY <4>2, <5>1, <5>4
          <6> HIDE DEF Step, Least, Ahead, Here
          <6> QED
            BY <6>4, <6>5
        <5>5. CASE t = 0 /\ ~Hit(Here(pos))
          <6>1. /\ pos + 1 \in D /\ Here(pos) \in Int
                /\ Here(pos + 1) = Here(pos) + 1
            <7>1. 1 \in 0..len
              BY <1>8
            <7> HIDE DEF places, w, Walk, Step, from
            <7> QED
              BY <1>8, <4>2, <7>1, Moved
          <6>2. Ahead(Here(pos)) = Ahead(Here(pos + 1))
            <7>1. Here(pos) \notin places /\ places \in SUBSET Int
              BY <1>6, <5>5
            <7>2. \A i \in places : i >= Here(pos) => i >= Here(pos) + 1
              <8> HIDE DEF places, Here
              <8> QED
                BY <6>1, <7>1
            <7>3. Ahead(Here(pos)) = {i \in places : i >= Here(pos) + 1}
              <8> HIDE DEF places, Here
              <8> QED
                BY <6>1, <7>1, <7>2, SameAhead
            <7> HIDE DEF places, Here
            <7> QED
              BY <6>1, <7>3
          <6>3. w[pos] = Least(Ahead(Here(pos))) /\ w[pos + 1] = Least(Ahead(Here(pos + 1)))
            BY <6>1
          <6>4. Step(w, pos) = w[pos + 1]
            BY <4>2, <5>1, <5>5
          <6> HIDE DEF w, Step, Least, Ahead, Here
          <6>5. w[pos] = Least(Ahead(Here(pos + 1)))
            BY <6>2, <6>3, Zenon
          <6>6. w[pos + 1] = Least(Ahead(Here(pos + 1)))
            BY <6>3
          <6> QED
            BY <6>4, <6>5, <6>6, Zenon
        <5>6. t > 0 \/ t = 0
          BY <5>1
        <5> HIDE DEF w, Step, Hit, Here
        <5> QED
          BY <5>3, <5>4, <5>5, <5>6
      <4>3. pos \in Int
        BY <1>8
      <4> HIDE DEF w, Step
      <4> QED
        BY <4>1, <4>2, <4>3
    <3>2. w = [pos \in D |-> w[pos]]
      OBVIOUS
    <3> HIDE DEF w, Step, D
    <3>3. [pos \in D |-> w[pos]] = [pos \in D |-> Step(w, pos)]
      BY <3>1, Zenon
    <3> QED
      BY <3>2, <3>3
  <2>4. from = Walk(from)
    <3> HIDE DEF w, Walk
    <3> QED
      BY <2>3
  <2> DEFINE wrong == {pos \in D : from[pos] # w[pos]}
  <2> HIDE DEF from, w
  <2>5. wrong = {}
    <3> SUFFICES ASSUME wrong # {} PROVE FALSE
      OBVIOUS
    <3>1. wrong \in SUBSET Nat /\ n + len \in Nat /\ \A x \in wrong : x <= n + len
      BY <1>8
    <3>2. PICK pos \in wrong : \A x \in wrong : x <= pos
      BY <3>1, GreatestExists
    <3>3. from[pos] = Step(from, pos) /\ w[pos] = Step(w, pos)
      <4> HIDE DEF Step
      <4> QED
        BY <2>3, <2>4, <3>2
    <3>4. CASE pos >= n
      BY <3>2, <3>3, <3>4
    <3>5. CASE pos < n
      <4>1. PICK t \in 0..len : t = table[text[pos + 1]]
        BY <2>2, <3>2, <3>5
      <4>2. t > 0 => from[pos + t] = w[pos + t]
        <5>1. pos + t \in D /\ pos \in Int
          BY <1>8, <3>2, <3>5, <4>1, Moved
        <5>2. t > 0 => ~(pos + t <= pos)
          BY <4>1, <5>1
        <5> QED
          BY <3>2, <5>1, <5>2
      <4>3. from[pos + 1] = w[pos + 1]
        <5>1. pos + 1 \in D /\ ~(pos + 1 <= pos)
          BY <1>8, <3>2, <3>5
        <5> QED
          BY <3>2, <5>1
      <4>4. from[pos] = w[pos]
        <5> HIDE DEF Hit, Here
        <5> QED
          BY <3>3, <4>1, <4>2, <4>3
      <4> QED
        BY <3>2, <4>4
    <3> QED
      BY <1>8, <3>2, <3>4, <3>5
  <2>6. found = Least(places)
    <3>1. len - 1 \in D /\ Here(len - 1) = 1
      BY <1>8
    <3>2. Ahead(Here(len - 1)) = places
      BY <1>6, <3>1
    <3>3. w[len - 1] = Least(Ahead(Here(len - 1)))
      BY <3>1 DEF w
    <3>4. from[len - 1] = w[len - 1]
      BY <2>5, <3>1
    <3> HIDE DEF Least, Ahead, Here, places
    <3> QED
      BY <2>1, <3>2, <3>3, <3>4
  <2>7. places # {} => \E i \in places : \A j \in places : i <= j
    <3>1. places \in SUBSET Nat
      BY <1>6
    <3> QED
      BY <3>1, LeastExists
  <2> HIDE DEF places, found
  <2>8. IF places = {} THEN found = 0 ELSE found \in places /\ \A i \in places : found <= i
    BY <2>6, <2>7
  <2> QED
    BY <1>4, <2>8 DEF places, found
<1> QED
  BY <1>7, <1>8
-----------------------------------------------------------------------------
(***************************************************************************)
(* Needles as they are written.                                            *)
(***************************************************************************)

(* The byte that a letter behind a backslash stands for is a number.       *)
LEMMA LettersAre == \A x \in DOMAIN Letters : Letters[x] \in Int
BY DEF Letters, Backslash

(* The bytes of a token are numbers.                                       *)
LEMMA BytesAre ==
  ASSUME NEW str \in Seq(-128..127)
  PROVE  \A i \in 1..Len(str) : str[i] \in Int
<1>1. -128..127 \subseteq Int
  OBVIOUS
<1>2. str \in Seq(Int)
  BY <1>1, SeqMonotonic
<1> QED
  BY <1>2, ElementOfSeq

(* The number behind a backslash is one, and only where the token has all  *)
(* of its digits.                                                          *)
LEMMA NumberIs ==
  ASSUME NEW str \in Seq(-128..127), NEW i \in 1..Len(str)
  PROVE  /\ NumberAt(str, i) \in Int
         /\ NumberAt(str, i) >= 0 => i + 3 <= Len(str)
<1>1. PICK n \in Nat : n = Len(str)
  BY LenProperties
<1>2. CASE n < i + 3
  BY <1>1, <1>2 DEF NumberAt
<1>3. CASE i + 3 <= n
  <2>1. i + 1 \in 1..n /\ i + 2 \in 1..n /\ i + 3 \in 1..n
    BY <1>1, <1>3
  <2>2. str[i + 1] \in Int /\ str[i + 2] \in Int /\ str[i + 3] \in Int
    BY <1>1, <2>1, BytesAre
  <2>3. \A c \in Int : HexValue(c) \in Int
    BY DEF HexValue
  <2>4. PICK d1 \in Int, d2 \in Int, d3 \in Int :
          d1 = str[i + 1] /\ d2 = HexValue(str[i + 2]) /\ d3 = HexValue(str[i + 3])
    BY <2>2, <2>3
  <2>6. NumberAt(str, i) = IF d2 < 0 \/ d3 < 0 THEN -1
                           ELSE IF d1 = 120 THEN 16 * d2 + d3
                           ELSE IF d2 < 8 /\ d3 < 8 THEN 64 * (d1 - 48) + 8 * d2 + d3
                           ELSE -1
    BY <1>1, <1>3, <2>4 DEF NumberAt
  <2>5. \A a \in Int, b \in Int : a + b \in Int
    OBVIOUS
  <2>7. 16 * d2 \in Int /\ 8 * d2 \in Int /\ 64 * (d1 - 48) \in Int
    OBVIOUS
  <2>9. 16 * d2 + d3 \in Int /\ 64 * (d1 - 48) + 8 * d2 + d3 \in Int
    BY <2>5, <2>7, Zenon
  <2>8. NumberAt(str, i) \in Int
    BY <2>6, <2>9
  <2> QED
    BY <1>1, <1>3, <2>8
<1> QED
  BY <1>1, <1>2, <1>3

(* A token of the configuration, its escapes resolved, is a byte string:   *)
(* the recursion of translate has an answer for every token.               *)
LEMMA TranslateIs ==
  ASSUME NEW str \in Seq(-128..127)
  PROVE  translate(str) \in Seq(Int)
<1>1. PICK n \in Nat : n = Len(str)
  BY LenProperties
<1> DEFINE Step(g, i) ==
             IF i > n THEN <<>>
             ELSE IF str[i] # Backslash THEN <<str[i]>> \o g[i + 1]
             ELSE IF i = n THEN <<Backslash>>
             ELSE IF str[i + 1] \in DOMAIN Letters THEN <<Letters[str[i + 1]]>> \o g[i + 2]
             ELSE IF str[i + 1] \notin {120, 48, 49, 50, 51} THEN <<Backslash>> \o g[i + 1]
             ELSE IF NumberAt(str, i) < 0 THEN g[i + 1]
             ELSE <<AsChar(NumberAt(str, i))>> \o g[i + 4]
           Walk(g) == [i \in 1..(n + 1) |-> Step(g, i)]
           from == CHOOSE g : g = Walk(g)
           Solves(g, m) == \A i \in m..(n + 1) : g[i] = Step(g, i)
<1>2. translate(str) = from[1]
  BY <1>1 DEF translate
<1>3. ASSUME NEW i \in 1..n
      PROVE  /\ i + 1 \in (i + 1)..(n + 1)
             /\ i # n => i + 2 \in (i + 1)..(n + 1)
             /\ ~(NumberAt(str, i) < 0) => i + 4 \in (i + 1)..(n + 1)
  <2>1. NumberAt(str, i) \in Int /\ (NumberAt(str, i) >= 0 => i + 3 <= n)
    BY <1>1, NumberIs
  <2> QED
    BY <2>1
<1>4. ASSUME NEW g, NEW h, NEW i \in 1..(n + 1), \A j \in (i + 1)..(n + 1) : g[j] = h[j]
      PROVE  Step(g, i) = Step(h, i)
  <2>1. CASE i > n
    BY <2>1
  <2>2. CASE i \in 1..n
    <3>1. g[i + 1] = h[i + 1]
      BY <1>3, <1>4, <2>2
    <3>2. i # n => g[i + 2] = h[i + 2]
      BY <1>3, <1>4, <2>2
    <3>3. ~(NumberAt(str, i) < 0) => g[i + 4] = h[i + 4]
      BY <1>3, <1>4, <2>2
    <3>4. ~(i > n)
      BY <2>2
    <3> QED
      BY <3>1, <3>2, <3>3, <3>4, Zenon
  <2> QED
    BY <2>1, <2>2
<1>5. ASSUME NEW g, NEW i \in 1..(n + 1), \A j \in (i + 1)..(n + 1) : g[j] \in Seq(Int)
      PROVE  Step(g, i) \in Seq(Int)
  <2>1. CASE i > n
    BY <2>1
  <2>2. CASE i \in 1..n
    <3>1. g[i + 1] \in Seq(Int)
      BY <1>3, <1>5, <2>2
    <3>2. i # n => g[i + 2] \in Seq(Int)
      BY <1>3, <1>5, <2>2
    <3>3. ~(NumberAt(str, i) < 0) => g[i + 4] \in Seq(Int)
      BY <1>3, <1>5, <2>2
    <3>4. \A b \in Int, s \in Seq(Int) : <<b>> \in Seq(Int) /\ <<b>> \o s \in Seq(Int)
      OBVIOUS
    <3>5. str[i] \in Int /\ Backslash \in Int
      BY <1>1, <2>2, BytesAre DEF Backslash
    <3>6. AsChar(NumberAt(str, i)) \in Int
      BY <1>1, <2>2, NumberIs DEF AsChar
    <3>7. ~(i > n) /\ \A x \in DOMAIN Letters : Letters[x] \in Int
      BY <2>2, LettersAre
    <3> QED
      BY <3>1, <3>2, <3>3, <3>4, <3>5, <3>6, <3>7, Zenon
  <2> QED
    BY <2>1, <2>2
<1> HIDE DEF Step
(* The recursion has a solution from any place on, so from the first.      *)
<1> DEFINE stuck == {m \in 1..(n + 1) : ~\E g : Solves(g, m)}
<1>6. stuck = {}
  <2> SUFFICES ASSUME stuck # {} PROVE FALSE
    OBVIOUS
  <2>1. stuck \in SUBSET Nat /\ n + 1 \in Nat /\ \A x \in stuck : x <= n + 1
    OBVIOUS
  <2>2. PICK m \in stuck : \A x \in stuck : x <= m
    <3> HIDE DEF stuck
    <3> QED
      BY <2>1, GreatestExists
  <2>3. \E g : \A i \in (m + 1)..(n + 1) : g[i] = Step(g, i)
    <3>1. CASE m = n + 1
      BY <3>1
    <3>2. CASE m # n + 1
      <4>1. m + 1 \in 1..(n + 1) /\ m + 1 \notin stuck
        <5>1. m \in 1..(n + 1) /\ m + 1 \in 1..(n + 1) /\ ~(m + 1 <= m)
          <6> HIDE DEF Solves
          <6> QED
            BY <2>2, <3>2
        <5> HIDE DEF stuck
        <5> QED
          BY <2>2, <5>1
      <4> QED
        BY <4>1
    <3> QED
      BY <3>1, <3>2
  <2>4. PICK g : \A i \in (m + 1)..(n + 1) : g[i] = Step(g, i)
    BY <2>3
  <2> DEFINE h == [i \in 1..(n + 1) |-> IF i = m THEN Step(g, m) ELSE g[i]]
  <2>5. m \in 1..(n + 1) /\ ~\E f : Solves(f, m)
    BY <2>2
  <2>6. ASSUME NEW i \in m..(n + 1) PROVE h[i] = Step(h, i)
    <3>1. i \in 1..(n + 1) /\ \A j \in (i + 1)..(n + 1) : j \in 1..(n + 1) /\ j # m
      BY <2>5
    <3>2. \A j \in (i + 1)..(n + 1) : h[j] = g[j]
      BY <3>1
    <3>3. h[i] = IF i = m THEN Step(g, m) ELSE g[i]
      BY <3>1
    <3> HIDE DEF h
    <3>4. Step(h, i) = Step(g, i)
      BY <1>4, <3>1, <3>2
    <3>5. i # m => i \in (m + 1)..(n + 1)
      BY <2>5
    <3> QED
      BY <2>4, <3>3, <3>4, <3>5
  <2> HIDE DEF h
  <2> QED
    BY <2>5, <2>6
<1>7. from = Walk(from)
  <2>1. PICK g : \A i \in 1..(n + 1) : g[i] = Step(g, i)
    <3>1. 1 \in 1..(n + 1) /\ 1 \notin stuck
      <4> HIDE DEF stuck
      <4> QED
        BY <1>6
    <3>2. \E g : Solves(g, 1)
      <4> HIDE DEF Solves
      <4> QED
        BY <3>1
    <3> QED
      BY <3>2
  <2> DEFINE f == [i \in 1..(n + 1) |-> g[i]]
  <2>2. ASSUME NEW i \in 1..(n + 1) PROVE f[i] = Step(f, i)
    <3>1. \A j \in (i + 1)..(n + 1) : f[j] = g[j]
      OBVIOUS
    <3>2. f[i] = g[i]
      OBVIOUS
    <3> HIDE DEF f
    <3> QED
      BY <1>4, <2>1, <3>1, <3>2
  <2>3. f = [i \in 1..(n + 1) |-> f[i]]
    OBVIOUS
  <2> HIDE DEF f
  <2>4. f = Walk(f)
    BY <2>2, <2>3
  <2> HIDE DEF Walk
  <2> QED
    BY <2>4
<1> DEFINE bad == {i \in 1..(n + 1) : from[i] \notin Seq(Int)}
<1> HIDE DEF from
<1>8. bad = {}
  <2> SUFFICES ASSUME bad # {} PROVE FALSE
    OBVIOUS
  <2>1. bad \in SUBSET Nat /\ n + 1 \in Nat /\ \A x \in bad : x <= n + 1
    OBVIOUS
  <2>2. PICK i \in bad : \A x \in bad : x <= i
    <3> HIDE DEF bad
    <3> QED
      BY <2>1, GreatestExists
  <2>3. \A j \in (i + 1)..(n + 1) : j \in 1..(n + 1) /\ j \notin bad
    BY <2>2
  <2>4. Step(from, i) \in Seq(Int)
    BY <1>5, <2>2, <2>3
  <2>5. from[i] = Step(from, i)
    BY <1>7, <2>2
  <2> QED
    BY <2>2, <2>4, <2>5
<1> QED
  BY <1>2, <1>8
-----------------------------------------------------------------------------
(***************************************************************************)
(* The configuration, line by line.                                        *)
(***************************************************************************)

(* What a line of the file gives to the reader.                            *)
LEMMA LineIs ==
  ASSUME NEW line \in ConfLines
  PROVE  /\ line.casesensitive \in BOOLEAN
         /\ \A i \in 1..Len(line.tokens) : line.tokens[i].text \in Seq(-128..127)
<1> DEFINE T == [text : Seq(-128..127), means : STRING]
<1>1. line.casesensitive \in BOOLEAN /\ line.tokens \in Seq(T)
  BY DEF ConfLines
<1>2. \A t \in T : t.text \in Seq(-128..127)
  OBVIOUS
<1> HIDE DEF T
<1>3. \A i \in 1..Len(line.tokens) : line.tokens[i] \in T
  BY <1>1, ElementOfSeq
<1> QED
  BY <1>1, <1>2, <1>3

(* A needle is a byte string with the table that is its own.               *)
NeedleMade(needle, casesensitive, made) ==
  /\ needle.bytes \in Seq(Int)
  /\ needle.table = init_bm_table(needle.bytes, casesensitive, made)

SpecMade(s) ==
  /\ s.casesensitive \in BOOLEAN
  /\ NeedleMade(s.begin, s.casesensitive, s.made)
  /\ NeedleMade(s.end, s.casesensitive, s.made)

(* extractSearchSpecData() makes both needles of a type.                   *)
LEMMA SpecFromIs ==
  ASSUME NEW line \in ConfLines, NEW n \in Nat, n = Len(line.tokens), n >= 1
  PROVE  /\ SpecMade(SpecFrom(line))
         /\ SpecFrom(line).begin.bytes = translate(line.tokens[1].text)
<1>1. PICK cs \in BOOLEAN : cs = line.casesensitive
  BY LineIs
<1>2. PICK footer : footer = IF Len(line.tokens) >= 2 THEN line.tokens[2].text ELSE <<>>
  OBVIOUS
<1>3. PICK header : header = line.tokens[1].text
  OBVIOUS
<1>4. header \in Seq(-128..127) /\ footer \in Seq(-128..127)
  <2>1. header \in Seq(-128..127)
    BY <1>3, LineIs
  <2>2. n >= 2 => line.tokens[2].text \in Seq(-128..127)
    BY LineIs
  <2>3. <<>> \in Seq(-128..127)
    OBVIOUS
  <2> QED
    BY <1>2, <2>1, <2>2, <2>3
<1>5. ASSUME NEW text \in Seq(-128..127) PROVE NeedleMade(Needle(text, cs), cs, wildcard)
  <2>1. translate(text) \in Seq(Int)
    BY TranslateIs
  <2> QED
    BY <2>1 DEF NeedleMade, Needle
<1>6. /\ SpecFrom(line).casesensitive = cs /\ SpecFrom(line).made = wildcard
      /\ SpecFrom(line).begin = Needle(header, cs) /\ SpecFrom(line).end = Needle(footer, cs)
  BY <1>1, <1>2, <1>3 DEF SpecFrom
<1>7. SpecFrom(line).begin.bytes = translate(header)
  BY <1>6 DEF Needle
<1>8. NeedleMade(Needle(header, cs), cs, wildcard) /\ NeedleMade(Needle(footer, cs), cs, wildcard)
  BY <1>4, <1>5
<1>9. SpecMade(SpecFrom(line))
  BY <1>6, <1>8 DEF SpecMade
<1> QED
  BY <1>3, <1>7, <1>9

(* The lines with a type, counted.                                         *)
LEMMA CountIs ==
  ASSUME NEW conf, NEW n \in Nat
  PROVE  /\ IsFiniteSet(SpecLines(conf, n)) /\ Cardinality(SpecLines(conf, n)) \in Nat
         /\ n = 0 => Cardinality(SpecLines(conf, n)) = 0
         /\ \A i \in SpecLines(conf, n) : i \in 1..n
<1>1. IsFiniteSet(1..n) /\ SpecLines(conf, n) \subseteq 1..n
  BY FS_Interval DEF SpecLines
<1>2. IsFiniteSet(SpecLines(conf, n))
  BY <1>1, FS_Subset
<1>3. n = 0 => SpecLines(conf, n) = {}
  BY DEF SpecLines
<1> QED
  BY <1>1, <1>2, <1>3, FS_CardinalityType, FS_EmptySet

(* More lines have no fewer types.                                         *)
LEMMA CountGrows ==
  ASSUME NEW conf, NEW m \in Nat, NEW n \in Nat, m <= n
  PROVE  Cardinality(SpecLines(conf, m)) <= Cardinality(SpecLines(conf, n))
<1>1. SpecLines(conf, m) \subseteq SpecLines(conf, n)
  BY DEF SpecLines
<1> QED
  BY <1>1, CountIs, FS_Subset

(* The next line is one more type, or none.                                *)
LEMMA CountNext ==
  ASSUME NEW conf, NEW n \in Nat
  PROVE  /\ conf[n + 1].kind # "spec" => SpecLines(conf, n + 1) = SpecLines(conf, n)
         /\ conf[n + 1].kind = "spec" =>
              /\ SpecLines(conf, n + 1) = SpecLines(conf, n) \cup {n + 1}
              /\ Cardinality(SpecLines(conf, n + 1)) = Cardinality(SpecLines(conf, n)) + 1
<1>1. 1..(n + 1) = 1..n \cup {n + 1}
  OBVIOUS
<1>2. CASE conf[n + 1].kind # "spec"
  BY <1>1, <1>2 DEF SpecLines
<1>3. CASE conf[n + 1].kind = "spec"
  <2>1. SpecLines(conf, n + 1) = SpecLines(conf, n) \cup {n + 1}
    BY <1>1, <1>3 DEF SpecLines
  <2>2. n + 1 \notin SpecLines(conf, n)
    BY DEF SpecLines
  <2>3. IsFiniteSet(SpecLines(conf, n)) /\ Cardinality(SpecLines(conf, n)) \in Nat
    BY CountIs
  <2>4. Cardinality(SpecLines(conf, n) \cup {n + 1}) = Cardinality(SpecLines(conf, n)) + 1
    BY <2>2, <2>3, FS_AddElement
  <2> QED
    BY <1>3, <2>1, <2>4
<1> QED
  BY <1>2, <1>3

(* A type of the file has a number among those before it.                  *)
LEMMA NumberOfSpec ==
  ASSUME NEW conf, NEW n \in Nat, NEW i \in SpecLines(conf, n)
  PROVE  Cardinality(SpecLines(conf, i)) \in 1..Cardinality(SpecLines(conf, n))
<1>1. i \in 1..n /\ i - 1 \in Nat /\ (i - 1) + 1 = i /\ conf[i].kind = "spec"
  BY DEF SpecLines
<1>2. PICK j \in Nat : j = i - 1 /\ j + 1 = i
  BY <1>1
<1>3. Cardinality(SpecLines(conf, j + 1)) = Cardinality(SpecLines(conf, j)) + 1
  BY <1>1, <1>2, CountNext
<1>4. Cardinality(SpecLines(conf, j)) \in Nat
  BY CountIs
<1>5. Cardinality(SpecLines(conf, i)) <= Cardinality(SpecLines(conf, n))
  BY <1>1, CountGrows
<1>6. Cardinality(SpecLines(conf, n)) \in Nat
  BY CountIs
<1> QED
  BY <1>2, <1>3, <1>4, <1>5, <1>6

-----------------------------------------------------------------------------
(***************************************************************************)
(* The invariant.                                                          *)
(***************************************************************************)
ConfsOK   == \A f \in DOMAIN confs : confs[f] \in Seq(ConfLines)
SpecsMade == \E S : specs \in Seq(S) /\ \A s \in S : SpecMade(s)

(* After k lines of the file: what is left of it, and the types there were *)
(* in those k, one more than there is room for only if the last had it.    *)
LinesLeft(rest, conf, k) ==
  /\ rest \in Seq(ConfLines) /\ Len(rest) = Len(conf) - k
  /\ \A i \in 1..(Len(conf) - k) : rest[i] = conf[k + i]

SpecsRead(list, conf, k) ==
  /\ Len(list) = Cardinality(SpecLines(conf, k))
  /\ \A i \in SpecLines(conf, k) :
       list[Cardinality(SpecLines(conf, i))].begin.bytes = translate(conf[i].tokens[1].text)
  /\ \/ Len(list) <= MaxFileTypes
     \/ Len(list) = MaxFileTypes + 1 /\ k \in SpecLines(conf, k)

ReadSoFar ==
  /\ opt.conf \in DOMAIN confs
  /\ LET conf == confs[opt.conf] IN
     \E k \in 0..Len(conf) : LinesLeft(lines, conf, k) /\ SpecsRead(specs, conf, k)

(* Why a file is not read to its end.                                      *)
Refusal ==
  \/ Cardinality(SpecLines(confs[opt.conf], Len(confs[opt.conf]))) > MaxFileTypes
  \/ \E i \in DOMAIN lines : lines[i].kind = "spec" /\ lines[i].tokens = <<>>

Before  == {"save", "options", "conf"}
After   == {"output", "dig", "verify"}
PlaceOK ==
  /\ pc \in Before \cup {"lines", "exit"} \cup After
  /\ pc \in Before => specs = <<>> /\ lines = <<>>
  /\ pc \in After => lines = <<>>
  /\ (pc = "lines" \/ pc \in After) => ReadSoFar
  /\ pc = "exit" /\ lines # <<>> => Refusal

Inv == ConfsOK /\ SpecsMade /\ PlaceOK

-----------------------------------------------------------------------------
(* A run begins with nothing read.                                         *)
LEMMA InitInv == Init => Inv
<1> SUFFICES ASSUME Init PROVE Inv
  OBVIOUS
<1>1. PICK s \in Scenarios : confs = s.confs
  BY DEF Init
<1>2. ConfsOK
  BY <1>1, StartupAssumption DEF ConfsOK
<1>3. SpecsMade
  <2> DEFINE S == {}
  <2>1. specs \in Seq(S) /\ \A e \in S : SpecMade(e)
    BY DEF Init
  <2> HIDE DEF S
  <2> QED
    BY <2>1 DEF SpecsMade
<1>4. PlaceOK
  BY DEF Init, PlaceOK, Before, After
<1> QED
  BY <1>2, <1>3, <1>4 DEF Inv

(* Steps that leave the file, what was read of it and its name alone.      *)
LEMMA Unread ==
  ASSUME Inv, UNCHANGED <<confs, lines, specs>>
  PROVE  /\ ConfsOK' /\ SpecsMade'
         /\ UNCHANGED opt => (ReadSoFar => ReadSoFar') /\ (Refusal => Refusal')
<1>1. ConfsOK' /\ SpecsMade'
  BY DEF Inv, ConfsOK, SpecsMade
<1>2. UNCHANGED opt => (ReadSoFar => ReadSoFar')
  BY DEF ReadSoFar, LinesLeft, SpecsRead
<1>3. UNCHANGED opt => (Refusal => Refusal')
  BY DEF Refusal
<1> QED
  BY <1>1, <1>2, <1>3

(* Before line k + 1 of the file is read.                                  *)
AtLine(conf, k) ==
  /\ conf = confs[opt.conf] /\ opt.conf \in DOMAIN confs /\ conf \in Seq(ConfLines)
  /\ k \in Nat /\ Len(conf) \in Nat /\ k + 1 <= Len(conf) /\ SpecsRead(specs, conf, k)
  /\ Line = conf[k + 1] /\ Line \in ConfLines
  /\ LinesLeft(Tail(lines), conf, k + 1)

(* The next line is the one behind those read.                             *)
LEMMA NextLineIs ==
  ASSUME Inv, pc = "lines", lines # <<>>
  PROVE  \E conf, k : AtLine(conf, k)
<1>1. ReadSoFar
  BY DEF Inv, PlaceOK
<1>2. PICK conf : conf = confs[opt.conf]
  OBVIOUS
<1>3. opt.conf \in DOMAIN confs /\ conf \in Seq(ConfLines)
  BY <1>1, <1>2 DEF ReadSoFar, Inv, ConfsOK
<1>4. PICK n \in Nat : n = Len(conf)
  BY <1>3, LenProperties
<1>5. PICK k \in 0..n : LinesLeft(lines, conf, k) /\ SpecsRead(specs, conf, k)
  BY <1>1, <1>2, <1>4 DEF ReadSoFar
<1>6. /\ lines \in Seq(ConfLines) /\ Len(lines) = n - k
      /\ \A i \in 1..(n - k) : lines[i] = conf[k + i]
  BY <1>4, <1>5 DEF LinesLeft
<1>7. k + 1 <= n
  BY <1>6, EmptySeq
<1>8. /\ Tail(lines) \in Seq(ConfLines) /\ Len(Tail(lines)) = (n - k) - 1
      /\ \A i \in 1..((n - k) - 1) : Tail(lines)[i] = lines[i + 1]
      /\ Line \in ConfLines
  BY <1>6, HeadTailProperties DEF Line
<1>9. LinesLeft(Tail(lines), conf, k + 1)
  <2>1. (n - k) - 1 = n - (k + 1)
    BY <1>5
  <2>2. ASSUME NEW i \in 1..(n - (k + 1)) PROVE Tail(lines)[i] = conf[(k + 1) + i]
    <3>1. i \in 1..((n - k) - 1) /\ i + 1 \in 1..(n - k) /\ k + (i + 1) = (k + 1) + i
      BY <1>5, <2>2
    <3> QED
      BY <1>6, <1>8, <3>1
  <2> QED
    BY <1>4, <1>8, <2>1, <2>2 DEF LinesLeft
<1>10. Line = conf[k + 1]
  <2>1. 1 \in 1..(n - k)
    BY <1>5, <1>7
  <2>2. Line = lines[1]
    BY <1>6, <1>7 DEF Line
  <2> QED
    BY <1>6, <2>1, <2>2
<1>11. k \in Nat
  BY <1>5
<1> QED
  BY <1>2, <1>3, <1>4, <1>5, <1>7, <1>8, <1>9, <1>10, <1>11 DEF AtLine

(* A line is read.                                                         *)
LEMMA LineRead ==
  ASSUME Inv, NEW conf, NEW k, AtLine(conf, k), UNCHANGED <<confs, opt, pc>>, NextLine,
         SpecsRead(specs', conf, k + 1), SpecsMade'
  PROVE  Inv'
<1>1. ReadSoFar'
  <2>1. /\ opt'.conf \in DOMAIN confs' /\ confs'[opt'.conf] = conf
        /\ k + 1 \in 0..Len(conf) /\ LinesLeft(lines', conf, k + 1)
    BY DEF AtLine, NextLine
  <2> QED
    BY <2>1 DEF ReadSoFar
<1>2. PlaceOK'
  BY <1>1 DEF NextLine, PlaceOK, Before, After
<1>3. ConfsOK'
  BY DEF Inv, ConfsOK
<1> QED
  BY <1>2, <1>3 DEF Inv

(* A line with no type.                                                    *)
LEMMA OtherLineInv ==
  ASSUME Inv, NextLine, Line.kind # "spec", UNCHANGED <<confs, opt, pc, specs>>
  PROVE  Inv'
<1>1. PICK conf, k : AtLine(conf, k)
  BY NextLineIs DEF NextLine
<1>2. SpecLines(conf, k + 1) = SpecLines(conf, k) /\ k \in Nat
  BY <1>1, CountNext DEF AtLine
<1>3. Len(specs) <= MaxFileTypes
  <2>1. Len(specs) \in Nat /\ MaxFileTypes \in Nat
    BY LenProperties, StartupAssumption DEF Inv, SpecsMade
  <2> QED
    BY <2>1 DEF NextLine, TooMany
<1>4. SpecsRead(specs', conf, k + 1)
  BY <1>1, <1>2, <1>3 DEF AtLine, SpecsRead
<1>5. SpecsMade'
  BY DEF Inv, SpecsMade
<1> QED
  BY <1>1, <1>4, <1>5, LineRead

(* A type more, with what its line says.                                   *)
LEMMA ReadSpecInv ==
  ASSUME Inv, ReadSpec
  PROVE  Inv'
<1>1. PICK conf, k : AtLine(conf, k)
  BY NextLineIs DEF ReadSpec, NextLine
<1>2. /\ k \in Nat /\ Line \in ConfLines /\ Line = conf[k + 1] /\ conf[k + 1].kind = "spec"
      /\ SpecsRead(specs, conf, k)
  BY <1>1 DEF AtLine, ReadSpec
<1>3. PICK spec : spec = SpecFrom(Line)
  OBVIOUS
<1>4. SpecMade(spec) /\ spec.begin.bytes = translate(Line.tokens[1].text)
  <2>1. PICK tokens : tokens = Line.tokens
    OBVIOUS
  <2>2. tokens \in Seq([text : Seq(-128..127), means : STRING]) /\ tokens # <<>>
    BY <1>2, <2>1 DEF ConfLines, ReadSpec
  <2>3. PICK n \in Nat : n = Len(tokens) /\ n >= 1
    BY <2>2, LenProperties, EmptySeq
  <2> QED
    BY <1>2, <1>3, <2>1, <2>3, SpecFromIs
<1>5. PICK S : specs \in Seq(S) /\ \A s \in S : SpecMade(s)
  BY DEF Inv, SpecsMade
<1>6. PICK n \in Nat : n = Len(specs)
  BY <1>5, LenProperties
<1>7. specs \in Seq(S \cup {spec}) /\ spec \in S \cup {spec}
  BY <1>5, SeqMonotonic
<1>8. /\ specs' \in Seq(S \cup {spec}) /\ Len(specs') = n + 1 /\ specs'[n + 1] = spec
      /\ \A i \in 1..n : specs'[i] = specs[i]
  <2>1. specs' = Append(specs, spec)
    BY <1>3 DEF ReadSpec
  <2> QED
    BY <1>6, <1>7, <2>1, AppendProperties
<1>9. SpecsMade'
  BY <1>4, <1>5, <1>8 DEF SpecsMade
<1>10. /\ SpecLines(conf, k + 1) = SpecLines(conf, k) \cup {k + 1}
       /\ Cardinality(SpecLines(conf, k + 1)) = Cardinality(SpecLines(conf, k)) + 1
  BY <1>2, CountNext
<1>11. Cardinality(SpecLines(conf, k)) = n
  BY <1>2, <1>6 DEF SpecsRead
<1>12. ASSUME NEW i \in SpecLines(conf, k + 1)
       PROVE  specs'[Cardinality(SpecLines(conf, i))].begin.bytes
                = translate(conf[i].tokens[1].text)
  <2>1. CASE i = k + 1
    BY <1>2, <1>4, <1>8, <1>10, <1>11, <2>1
  <2>2. CASE i \in SpecLines(conf, k)
    <3>1. Cardinality(SpecLines(conf, i)) \in 1..n
      BY <1>2, <1>11, <2>2, NumberOfSpec
    <3>2. specs[Cardinality(SpecLines(conf, i))].begin.bytes = translate(conf[i].tokens[1].text)
      BY <1>2, <2>2 DEF SpecsRead
    <3> QED
      BY <1>8, <3>1, <3>2
  <2> QED
    BY <1>10, <2>1, <2>2
<1>13. n + 1 <= MaxFileTypes \/ n + 1 = MaxFileTypes + 1
  BY <1>6, StartupAssumption DEF ReadSpec, NextLine, TooMany
<1>14. SpecsRead(specs', conf, k + 1)
  BY <1>8, <1>10, <1>11, <1>12, <1>13 DEF SpecsRead
<1> QED
  <2>1. UNCHANGED <<confs, opt, pc>> /\ NextLine
    BY DEF ReadSpec, user
  <2> QED
    BY <1>1, <1>9, <1>14, <2>1, LineRead

(* A file is opened at its first line.                                     *)
LEMMA OpenConfInv ==
  ASSUME Inv, OpenConf
  PROVE  Inv'
<1>1. PICK conf : conf = confs[opt.conf]
  OBVIOUS
<1>2. /\ opt.conf \in DOMAIN confs /\ conf \in Seq(ConfLines) /\ specs = <<>>
      /\ lines' = conf /\ pc' = "lines" /\ UNCHANGED <<confs, opt, specs>>
  BY <1>1 DEF OpenConf, Inv, ConfsOK, PlaceOK, Before, user
<1>3. PICK n \in Nat : n = Len(conf)
  BY <1>2, LenProperties
<1>4. LinesLeft(lines', conf, 0)
  BY <1>2, <1>3 DEF LinesLeft
<1>5. SpecsRead(specs', conf, 0)
  <2>1. Cardinality(SpecLines(conf, 0)) = 0 /\ \A i \in SpecLines(conf, 0) : i \in 1..0
    BY CountIs
  <2>2. Len(specs') = 0 /\ 0 <= MaxFileTypes
    BY <1>2, StartupAssumption
  <2> QED
    BY <2>1, <2>2 DEF SpecsRead
<1>6. ReadSoFar'
  <2>1. opt'.conf \in DOMAIN confs' /\ confs'[opt'.conf] = conf /\ 0 \in 0..Len(conf)
    BY <1>1, <1>2, <1>3
  <2> QED
    BY <1>4, <1>5, <2>1 DEF ReadSoFar
<1>7. PlaceOK'
  BY <1>2, <1>6 DEF PlaceOK, Before, After
<1>8. ConfsOK' /\ SpecsMade'
  BY <1>2 DEF Inv, ConfsOK, SpecsMade
<1> QED
  BY <1>7, <1>8 DEF Inv

(* A file is refused for too many types or for a type with no header.      *)
LEMMA BadLineInv ==
  ASSUME Inv, BadLine
  PROVE  Inv'
<1>1. PICK conf, k : AtLine(conf, k)
  BY NextLineIs DEF BadLine
<1>2. /\ k \in Nat /\ Len(conf) \in Nat /\ k <= Len(conf) /\ conf = confs[opt.conf]
      /\ Len(specs) = Cardinality(SpecLines(conf, k))
  BY <1>1 DEF AtLine, SpecsRead
<1>3. Refusal
  <2>1. CASE TooMany
    <3>1. Cardinality(SpecLines(conf, k)) <= Cardinality(SpecLines(conf, Len(conf)))
      BY <1>2, CountGrows
    <3>2. /\ Cardinality(SpecLines(conf, k)) \in Nat /\ MaxFileTypes \in Nat
          /\ Cardinality(SpecLines(conf, Len(conf))) \in Nat
      BY <1>2, CountIs, StartupAssumption
    <3> QED
      BY <1>2, <2>1, <3>1, <3>2 DEF TooMany, Refusal
  <2>2. CASE Line.kind = "spec" /\ Line.tokens = <<>>
    <3>1. ReadSoFar /\ lines # <<>>
      BY DEF BadLine, Inv, PlaceOK
    <3>2. lines \in Seq(ConfLines)
      BY <3>1 DEF ReadSoFar, LinesLeft
    <3>3. 1 \in DOMAIN lines /\ Line = lines[1]
      BY <3>1, <3>2, LenProperties, EmptySeq DEF Line
    <3> QED
      BY <2>2, <3>3 DEF Refusal
  <2> QED
    BY <2>1, <2>2 DEF BadLine
<1>4. /\ pc' = "exit" /\ UNCHANGED <<confs, opt, lines, specs>>
  BY DEF BadLine, Exit, user
<1>5. ConfsOK' /\ SpecsMade' /\ Refusal'
  BY <1>3, <1>4, Unread
<1>6. PlaceOK'
  BY <1>4, <1>5 DEF PlaceOK, Before, After
<1> QED
  BY <1>5, <1>6 DEF Inv

(* The steps of the command line, before the file is opened.               *)
LEMMA OptionsInv ==
  ASSUME Inv, pc \in Before, pc' \in Before \cup {"exit"}, UNCHANGED <<confs, lines, specs>>
  PROVE  Inv'
<1>1. lines' = <<>> /\ specs' = <<>>
  BY DEF Inv, PlaceOK
<1>2. PlaceOK'
  BY <1>1 DEF PlaceOK, Before, After
<1> QED
  BY <1>2, Unread DEF Inv

(* The steps behind the last line.                                         *)
LEMMA AfterInv ==
  ASSUME Inv, (pc = "lines" /\ lines = <<>>) \/ pc \in After, pc' \in After \cup {"exit"},
         UNCHANGED <<confs, opt, lines, specs>>
  PROVE  Inv'
<1>1. lines' = <<>> /\ ReadSoFar
  BY DEF Inv, PlaceOK
<1>2. ReadSoFar'
  BY <1>1, Unread
<1>3. PlaceOK'
  BY <1>1, <1>2 DEF PlaceOK, Before, After
<1> QED
  BY <1>3, Unread DEF Inv

(* Every step keeps the invariant.                                         *)
LEMMA NextInv ==
  ASSUME Inv, [Next]_vars
  PROVE  Inv'
<1>1. CASE UNCHANGED vars
  <2>1. UNCHANGED <<confs, opt, pc, lines, specs>>
    BY <1>1 DEF vars
  <2>2. PlaceOK'
    BY <2>1, Unread DEF Inv, PlaceOK
  <2> QED
    BY <2>1, <2>2, Unread DEF Inv
<1>2. CASE FindSave \/ TakeImage \/ TakeFlag \/ TakeSave \/ TakeValued
  <2>1. pc \in Before /\ pc' \in Before /\ UNCHANGED <<confs, lines, specs>>
    BY <1>2 DEF FindSave, TakeImage, TakeFlag, TakeSave, TakeValued, Rest, user, Before
  <2> QED
    BY <2>1, OptionsInv
<1>3. CASE BadOption \/ ConvertFileNames \/ ConfMissing
  <2>1. /\ pc \in Before /\ pc' \in Before \cup {"exit"}
        /\ UNCHANGED <<confs, lines, specs>>
    BY <1>3 DEF BadOption, ConvertFileNames, ConfMissing, Exit, user, Before
  <2> QED
    BY <2>1, OptionsInv
<1>4. CASE OpenConf
  BY <1>4, OpenConfInv
<1>5. CASE ReadComment \/ ReadWildcard
  <2>1. NextLine /\ Line.kind # "spec" /\ UNCHANGED <<confs, opt, pc, specs>>
    BY <1>5 DEF ReadComment, ReadWildcard, user
  <2> QED
    BY <2>1, OtherLineInv
<1>6. CASE ReadSpec
  BY <1>6, ReadSpecInv
<1>7. CASE BadLine
  BY <1>7, BadLineInv
<1>8. CASE EndOfConf \/ NoImages \/ OpenAuditFile \/ AuditFails
  <2>1. /\ (pc = "lines" /\ lines = <<>>) \/ pc \in After
        /\ pc' \in After \cup {"exit"}
        /\ UNCHANGED <<confs, opt, lines, specs>>
    BY <1>8 DEF EndOfConf, NoImages, OpenAuditFile, AuditFails, HasImages, user, After
  <2> QED
    BY <2>1, AfterInv
<1> QED
  BY <1>1, <1>2, <1>3, <1>4, <1>5, <1>6, <1>7, <1>8 DEF Next

-----------------------------------------------------------------------------
(***************************************************************************)
(* The command line.  IsValue is a recursion over the words; what holds of *)
(* each word is all that the rest needs.                                   *)
(***************************************************************************)

(* A word is a value when the word before it takes one and is none itself. *)
LEMMA ValueIs ==
  ASSUME NEW ws \in Seq(Words), NEW i \in 1..Len(ws)
  PROVE  IsValue(ws, i) <=> i > 1 /\ ~IsValue(ws, i - 1) /\ ws[i - 1] \in Valued
<1>1. PICK n \in Nat : n = Len(ws)
  BY LenProperties
<1> DEFINE Step(g, k) == k > 1 /\ ~g[k - 1] /\ ws[k - 1] \in Valued
           Walk(g) == [k \in 0..n |-> Step(g, k)]
           value == CHOOSE g : g = Walk(g)
           Solves(g, m) == \A k \in 0..m : g[k] = Step(g, k)
<1>2. \A k : IsValue(ws, k) = value[k]
  BY <1>1 DEF IsValue
<1>3. ASSUME NEW g, NEW h, NEW k \in Nat, \A j \in 0..(k - 1) : g[j] = h[j]
      PROVE  Step(g, k) = Step(h, k)
  <2>1. CASE k > 1
    <3>1. k - 1 \in 0..(k - 1)
      BY <2>1
    <3>2. g[k - 1] = h[k - 1]
      BY <1>3, <3>1
    <3> QED
      BY <3>2
  <2>2. CASE ~(k > 1)
    BY <2>2
  <2> QED
    BY <2>1, <2>2
<1> HIDE DEF Step
<1> DEFINE stuck == {m \in 0..n : ~\E g : Solves(g, m)}
<1>4. stuck = {}
  <2> SUFFICES ASSUME stuck # {} PROVE FALSE
    OBVIOUS
  <2>1. stuck \in SUBSET Nat
    OBVIOUS
  <2>2. PICK m \in stuck : \A x \in stuck : m <= x
    <3> HIDE DEF stuck
    <3> QED
      BY <2>1, LeastExists
  <2>3. m \in 0..n /\ ~\E g : Solves(g, m)
    BY <2>2
  <2>4. \E g : \A k \in 0..(m - 1) : g[k] = Step(g, k)
    <3>1. CASE m = 0
      BY <3>1
    <3>2. CASE m # 0
      <4>1. m - 1 \in 0..n /\ m - 1 \notin stuck
        <5>1. m - 1 \in 0..n /\ ~(m <= m - 1)
          <6> HIDE DEF Solves
          <6> QED
            BY <2>3, <3>2
        <5> HIDE DEF stuck
        <5> QED
          BY <2>2, <5>1
      <4> QED
        BY <4>1
    <3> QED
      BY <3>1, <3>2
  <2>5. PICK g : \A k \in 0..(m - 1) : g[k] = Step(g, k)
    BY <2>4
  <2> DEFINE h == [k \in 0..n |-> IF k = m THEN Step(g, m) ELSE g[k]]
  <2>6. ASSUME NEW k \in 0..m PROVE h[k] = Step(h, k)
    <3>1. k \in Nat /\ k \in 0..n /\ \A j \in 0..(k - 1) : j \in 0..n /\ j # m
      BY <2>3
    <3>2. \A j \in 0..(k - 1) : h[j] = g[j]
      BY <3>1
    <3>3. h[k] = IF k = m THEN Step(g, m) ELSE g[k]
      BY <3>1
    <3> HIDE DEF h
    <3>4. Step(h, k) = Step(g, k)
      BY <1>3, <3>1, <3>2
    <3>5. k # m => k \in 0..(m - 1)
      BY <2>3
    <3> QED
      BY <2>5, <3>3, <3>4, <3>5
  <2> HIDE DEF h
  <2> QED
    BY <2>3, <2>6
<1>5. value = Walk(value)
  <2>1. PICK g : \A k \in 0..n : g[k] = Step(g, k)
    <3>1. n \in 0..n /\ n \notin stuck
      <4> HIDE DEF stuck
      <4> QED
        BY <1>4
    <3>2. \E g : Solves(g, n)
      <4> HIDE DEF Solves
      <4> QED
        BY <3>1
    <3> QED
      BY <3>2
  <2> DEFINE f == [k \in 0..n |-> g[k]]
  <2>2. ASSUME NEW k \in 0..n PROVE f[k] = Step(f, k)
    <3>1. k \in Nat /\ \A j \in 0..(k - 1) : f[j] = g[j]
      OBVIOUS
    <3>2. f[k] = g[k]
      OBVIOUS
    <3> HIDE DEF f
    <3> QED
      BY <1>3, <2>1, <3>1, <3>2
  <2>3. f = [k \in 0..n |-> f[k]]
    OBVIOUS
  <2> HIDE DEF f
  <2>4. f = Walk(f)
    BY <2>2, <2>3
  <2> HIDE DEF Walk
  <2> QED
    BY <2>4
<1> HIDE DEF value
<1>6. \A k \in 0..n : value[k] = Step(value, k)
  BY <1>5
<1>7. i \in 0..n
  BY <1>1
<1> QED
  BY <1>2, <1>6, <1>7 DEF Step

(* The words up to p that are options of os.                               *)
Given(ws, os, p) == {i \in 1..p : ws[i] \in os /\ ~IsValue(ws, i)}

(* getopt() has taken p words: the rest is left, and begins with no value. *)
AtWord(ws, rest, p) ==
  /\ p \in 0..Len(ws) /\ rest \in Seq(Words) /\ Len(rest) = Len(ws) - p
  /\ \A i \in 1..(Len(ws) - p) : rest[i] = ws[p + i]
  /\ p < Len(ws) => ~IsValue(ws, p + 1)

(* How many words an option takes.                                         *)
Takes(w) == IF w \in Valued THEN 2 ELSE 1

(* An option and its value are taken.                                      *)
LEMMA WordsTaken ==
  ASSUME NEW ws \in Seq(Words), NEW rest, NEW p \in Nat, AtWord(ws, rest, p),
         NEW k \in 1..2, Len(rest) >= k, k = Takes(rest[1])
  PROVE  /\ AtWord(ws, SubSeq(rest, k + 1, Len(rest)), p + k)
         /\ rest[1] = ws[p + 1] /\ (k = 2 => rest[2] = ws[p + 2])
         /\ \A os : Given(ws, os, p + k)
                      = Given(ws, os, p) \cup {i \in {p + 1} : ws[i] \in os}
<1>1. PICK n \in Nat : n = Len(ws)
  BY LenProperties
<1>2. /\ p \in 0..n /\ Len(rest) = n - p /\ p + k <= n /\ p + k \in 0..n
      /\ \A i \in 1..(n - p) : rest[i] = ws[p + i]
      /\ ~IsValue(ws, p + 1)
  BY <1>1 DEF AtWord
<1>3. \A i \in 1..n : ws[i] \in Words
  BY <1>1, ElementOfSeq
<1>4. rest[1] = ws[p + 1] /\ (k = 2 => rest[2] = ws[p + 2])
  <2>1. 1 \in 1..(n - p) /\ (k = 2 => 2 \in 1..(n - p))
    BY <1>2
  <2> QED
    BY <1>2, <2>1
<1>5. k = 2 => IsValue(ws, p + 2)
  <2> SUFFICES ASSUME k = 2 PROVE IsValue(ws, p + 2)
    OBVIOUS
  <2>1. PICK j \in 1..n : j = p + 2 /\ j - 1 = p + 1 /\ j > 1
    BY <1>2
  <2>2. ws[j - 1] \in Valued /\ ~IsValue(ws, j - 1)
    BY <1>2, <1>4, <2>1 DEF Takes
  <2>3. IsValue(ws, j)
    BY <1>1, <2>1, <2>2, ValueIs
  <2> QED
    BY <2>1, <2>3
<1>6. p + k < n => ~IsValue(ws, (p + k) + 1)
  <2> SUFFICES ASSUME p + k < n PROVE ~IsValue(ws, (p + k) + 1)
    OBVIOUS
  <2>1. PICK j \in 1..n : j = (p + k) + 1 /\ j - 1 = p + k
    <3>1. (p + k) + 1 \in 1..n /\ ((p + k) + 1) - 1 = p + k
      BY <1>2
    <3> QED
      BY <3>1
  <2>2. CASE k = 1
    <3>1. ws[j - 1] \notin Valued
      BY <1>4, <2>1, <2>2 DEF Takes
    <3>2. ~IsValue(ws, j)
      BY <1>1, <2>1, <3>1, ValueIs
    <3> QED
      BY <2>1, <3>2
  <2>3. CASE k = 2
    <3>1. IsValue(ws, j - 1)
      BY <1>5, <2>1, <2>3
    <3>2. ~IsValue(ws, j)
      BY <1>1, <2>1, <3>1, ValueIs
    <3> QED
      BY <2>1, <3>2
  <2> QED
    BY <2>2, <2>3
<1>7. AtWord(ws, SubSeq(rest, k + 1, Len(rest)), p + k)
  <2>1. PICK m \in Nat : m = n - p
    BY <1>2
  <2>2. PICK a \in Int : a = k + 1
    OBVIOUS
  <2>8. m = n - p /\ (m - a) + 1 = n - (p + k)
    BY <2>1, <2>2
  <2>3. PICK left : left = SubSeq(rest, a, m)
    OBVIOUS
  <2>4. \A i \in a..m : rest[i] \in Words
    <3>1. ASSUME NEW i \in a..m PROVE i \in 1..m
      BY <2>2
    <3>2. ASSUME NEW i \in a..m PROVE p + i \in 1..n
      BY <2>1, <3>1
    <3> QED
      BY <1>2, <1>3, <2>1, <3>1, <3>2
  <2>5. /\ left \in Seq(Words)
        /\ Len(left) = IF a <= m THEN (m - a) + 1 ELSE 0
        /\ \A i \in 1..((m - a) + 1) : left[i] = rest[a + (i - 1)]
    BY <2>3, <2>4, SubSeqProperties
  <2>6. Len(left) = n - (p + k)
    BY <1>2, <2>1, <2>2, <2>5, <2>8
  <2>7. ASSUME NEW i \in 1..(n - (p + k)) PROVE left[i] = ws[(p + k) + i]
    <3>1. k + i \in 1..m /\ a + (i - 1) = k + i /\ p + (k + i) = (p + k) + i
      <4>1. k + i \in 1..m
        BY <2>8
      <4>2. a + (i - 1) = k + i
        BY <2>2
      <4>3. p + (k + i) = (p + k) + i
        OBVIOUS
      <4> QED
        BY <4>1, <4>2, <4>3
    <3>2. left[i] = rest[k + i]
      BY <2>5, <2>7, <2>8, <3>1
    <3> QED
      BY <1>2, <2>1, <3>1, <3>2
  <2> QED
    BY <1>1, <1>2, <1>6, <2>1, <2>2, <2>3, <2>5, <2>6, <2>7 DEF AtWord
<1>8. ASSUME NEW os
      PROVE  Given(ws, os, p + k) = Given(ws, os, p) \cup {i \in {p + 1} : ws[i] \in os}
  <2>1. \A i : i \in 1..(p + k) <=> i \in 1..p \/ i = p + 1 \/ (k = 2 /\ i = p + 2)
    BY <1>2
  <2> QED
    BY <1>2, <1>5, <2>1 DEF Given
<1> QED
  BY <1>4, <1>7, <1>8

(* The options as the first p words tell.                                  *)
SkipAsTold(o, ws, p) ==
  LET given == Given(ws, {"-s", "-save"}, p) IN
  \/ given = {} /\ o.skip = 0
  \/ \E s \in given : /\ \A i \in given : i <= s
                      /\ o.skip = IF ws[s] = "-save" THEN 0 ELSE NumberOf(ws[s + 1])

SizesNotZero(o) == /\ "-m" \in o.flags => o.blocksize > 0
                   /\ "-q" \in o.flags => o.aligned > 0

AsTold(o, ws, p) ==
  /\ DOMAIN o = DOMAIN Defaults
  /\ SkipAsTold(o, ws, p) /\ SizesNotZero(o)
  /\ Given(ws, {"-t"}, p) = {} => o.maps = NoPath

(* Without a word the options are the defaults.                            *)
LEMMA DefaultsAsTold ==
  ASSUME NEW ws, NEW o, DOMAIN o = DOMAIN Defaults, o.skip = 0, o.flags = {}, o.maps = NoPath
  PROVE  AsTold(o, ws, 0)
<1>1. \A os : Given(ws, os, 0) = {}
  BY DEF Given
<1> QED
  BY <1>1 DEF AsTold, SkipAsTold, SizesNotZero

(* One word, or an option with its value, more: the last -s or -save is    *)
(* the one of now, if it is one.                                           *)
LEMMA SkipTold ==
  ASSUME NEW ws, NEW p \in Nat, NEW k \in 1..2, NEW o, NEW o2, SkipAsTold(o, ws, p),
         \A os : Given(ws, os, p + k) = Given(ws, os, p) \cup {i \in {p + 1} : ws[i] \in os},
         o2.skip = IF ws[p + 1] = "-save" THEN 0
                   ELSE IF ws[p + 1] = "-s" THEN NumberOf(ws[p + 2]) ELSE o.skip
  PROVE  SkipAsTold(o2, ws, p + k)
<1> DEFINE G(q) == Given(ws, {"-s", "-save"}, q)
<1>1. G(p + k) = G(p) \cup {i \in {p + 1} : ws[i] \in {"-s", "-save"}}
  OBVIOUS
<1>2. \A i \in G(p) : i \in 1..p
  BY DEF Given
<1> HIDE DEF G
<1>3. CASE ws[p + 1] \in {"-s", "-save"}
  <2>1. G(p + k) = G(p) \cup {p + 1}
    BY <1>1, <1>3
  <2>2. p + 1 \in G(p + k) /\ \A i \in G(p + k) : i <= p + 1
    BY <1>2, <2>1
  <2>3. o2.skip = IF ws[p + 1] = "-save" THEN 0 ELSE NumberOf(ws[(p + 1) + 1])
    <3>1. (p + 1) + 1 = p + 2
      OBVIOUS
    <3> QED
      BY <1>3, <3>1
  <2> QED
    BY <2>2, <2>3 DEF SkipAsTold, G
<1>4. CASE ws[p + 1] \notin {"-s", "-save"}
  <2>1. G(p + k) = G(p) /\ o2.skip = o.skip
    BY <1>1, <1>4
  <2> QED
    BY <2>1 DEF SkipAsTold, G
<1> QED
  BY <1>3, <1>4

(* A value that is a number is not negative, and "ave" is none.            *)
LEMMA Numbers ==
  /\ \A w : NumberOf(w) \in Nat
  /\ NumberOf("ave") = 0
BY StartupAssumption DEF NumberOf

(* What an option does to the fields that matter here.                     *)
LEMMA SetIs ==
  ASSUME NEW o \in Valued, NEW w, DOMAIN opt = DOMAIN Defaults, ~Refused(o, w),
         SizesNotZero(opt)
  PROVE  /\ DOMAIN Set(o, w) = DOMAIN Defaults
         /\ Set(o, w).skip = IF o = "-s" THEN NumberOf(w) ELSE opt.skip
         /\ o # "-t" => Set(o, w).maps = opt.maps
         /\ SizesNotZero(Set(o, w))
<1>1. {"skip", "maps", "flags", "blocksize", "aligned", "conf", "list", "output"}
         \subseteq DOMAIN opt
  BY DEF Defaults
<1>2. NumberOf(w) \in Nat /\ (o \in {"-m", "-q"} => NumberOf(w) > 0)
  BY Numbers DEF Refused
<1>3. CASE o = "-c"
  BY <1>1, <1>3 DEF Set, SizesNotZero
<1>4. CASE o = "-i"
  BY <1>1, <1>4 DEF Set, SizesNotZero
<1>5. CASE o = "-m"
  BY <1>1, <1>2, <1>5 DEF Set, SizesNotZero
<1>6. CASE o = "-o"
  BY <1>1, <1>6 DEF Set, SizesNotZero
<1>7. CASE o = "-q"
  BY <1>1, <1>2, <1>7 DEF Set, SizesNotZero
<1>8. CASE o = "-s"
  BY <1>1, <1>8 DEF Set, SizesNotZero
<1>9. CASE o = "-t"
  BY <1>1, <1>9 DEF Set, SizesNotZero
<1> QED
  BY <1>3, <1>4, <1>5, <1>6, <1>7, <1>8, <1>9 DEF Valued

-----------------------------------------------------------------------------
(***************************************************************************)
(* What was told is what is done.                                          *)
(***************************************************************************)
DiskStates == [Paths -> {"missing", "empty", "full", "closed", "log"}]

ToldInv ==
  /\ argv \in Seq(Words) /\ disk \in DiskStates
  /\ pc \in Before \cup {"lines", "exit"} \cup After
  /\ pc = "save" => words = argv /\ opt = Defaults
  /\ pc = "options" => \E p \in Nat : AtWord(argv, words, p) /\ AsTold(opt, argv, p)
  /\ pc \in {"conf", "lines"} \cup After => AsTold(opt, argv, Len(argv))

(* A run begins with the defaults and all of its words.                    *)
LEMMA InitTold == Init => ToldInv
<1> SUFFICES ASSUME Init PROVE ToldInv
  OBVIOUS
<1>1. PICK s \in Scenarios : argv = s.argv /\ disk = s.disk
  BY DEF Init
<1>2. argv \in Seq(Words) /\ disk \in [Paths -> {"missing", "empty", "full", "closed"}]
  BY <1>1, StartupAssumption
<1>3. disk \in DiskStates
  BY <1>2 DEF DiskStates
<1> QED
  BY <1>2, <1>3 DEF Init, ToldInv, Before, After

(* -save anywhere does not yet set the skip.                               *)
LEMMA FindSaveTold ==
  ASSUME ToldInv, FindSave
  PROVE  ToldInv'
<1>1. /\ words = argv /\ opt = Defaults /\ argv \in Seq(Words)
      /\ pc' = "options" /\ UNCHANGED <<argv, disk, words>>
  BY DEF FindSave, ToldInv, user
<1>2. /\ DOMAIN opt' = DOMAIN Defaults /\ opt'.skip = 0 /\ opt'.flags = {}
      /\ opt'.maps = NoPath
  BY <1>1 DEF FindSave, Defaults
<1>3. AsTold(opt', argv, 0)
  BY <1>2, DefaultsAsTold
<1>4. AtWord(argv, words, 0)
  <2>1. PICK n \in Nat : n = Len(argv)
    BY <1>1, LenProperties
  <2>2. n > 0 => ~IsValue(argv, 1)
    <3>1. n > 0 => 1 \in 1..n
      BY <2>1
    <3> QED
      BY <1>1, <2>1, <3>1, ValueIs
  <2> QED
    BY <1>1, <2>1, <2>2 DEF AtWord
<1>5. /\ argv' \in Seq(Words) /\ disk' \in DiskStates
      /\ AtWord(argv', words', 0) /\ AsTold(opt', argv', 0)
  BY <1>1, <1>3, <1>4 DEF ToldInv
<1> QED
  BY <1>1, <1>5 DEF ToldInv, Before, After

(* A word is taken, with its value.                                        *)
LEMMA TakeTold ==
  ASSUME ToldInv, pc = "options", UNCHANGED <<pc, argv, disk>>,
         NEW k \in 1..2, Len(words) >= k, k = Takes(words[1]), Taken(k),
         DOMAIN opt' = DOMAIN Defaults,
         SizesNotZero(opt) => SizesNotZero(opt'),
         words[1] # "-t" => opt'.maps = opt.maps,
         opt'.skip = IF words[1] = "-save" THEN 0
                     ELSE IF words[1] = "-s" THEN NumberOf(words[2]) ELSE opt.skip
  PROVE  ToldInv'
<1>1. PICK p \in Nat : AtWord(argv, words, p) /\ AsTold(opt, argv, p)
  BY DEF ToldInv
<1>2. argv \in Seq(Words)
  BY DEF ToldInv
<1>3. /\ AtWord(argv, words', p + k)
      /\ words[1] = argv[p + 1] /\ (k = 2 => words[2] = argv[p + 2])
      /\ \A os : Given(argv, os, p + k)
                   = Given(argv, os, p) \cup {i \in {p + 1} : argv[i] \in os}
  <2>1. words' = SubSeq(words, k + 1, Len(words))
    BY DEF Taken
  <2> QED
    BY <1>1, <1>2, <2>1, WordsTaken
<1>4. opt'.skip = IF argv[p + 1] = "-save" THEN 0
                  ELSE IF argv[p + 1] = "-s" THEN NumberOf(argv[p + 2]) ELSE opt.skip
  <2>1. words[1] = "-s" => k = 2
    BY DEF Takes, Valued
  <2> QED
    BY <1>3, <2>1
<1>5. SkipAsTold(opt', argv, p + k)
  BY <1>1, <1>3, <1>4, SkipTold DEF AsTold
<1>6. Given(argv, {"-t"}, p + k) = {} => opt'.maps = NoPath
  <2> SUFFICES ASSUME Given(argv, {"-t"}, p + k) = {} PROVE opt'.maps = NoPath
    OBVIOUS
  <2>1. Given(argv, {"-t"}, p) = {} /\ argv[p + 1] # "-t"
    BY <1>3
  <2> QED
    BY <1>1, <1>3, <2>1 DEF AsTold
<1>7. AsTold(opt', argv, p + k)
  BY <1>1, <1>5, <1>6 DEF AsTold
<1>8. p + k \in Nat
  OBVIOUS
<1>9. argv' = argv /\ argv' \in Seq(Words) /\ disk' \in DiskStates /\ pc' = "options"
  BY DEF ToldInv
<1>10. AtWord(argv', words', p + k) /\ AsTold(opt', argv', p + k)
  BY <1>3, <1>7, <1>9
<1> QED
  BY <1>8, <1>9, <1>10 DEF ToldInv, Before, After

(* The steps that take a word.                                             *)
LEMMA OptionTold ==
  ASSUME ToldInv, TakeImage \/ TakeFlag \/ TakeSave \/ TakeValued
  PROVE  ToldInv'
<1>1. /\ pc = "options" /\ UNCHANGED <<pc, argv, disk>> /\ DOMAIN opt = DOMAIN Defaults
      /\ words \in Seq(Words) /\ SizesNotZero(opt)
  BY DEF ToldInv, AsTold, AtWord, TakeImage, TakeFlag, TakeSave, TakeValued, Rest, user
<1>2. PICK n \in Nat : n = Len(words)
  BY <1>1, LenProperties
<1>3. {"skip", "maps", "flags", "blocksize", "aligned"} \subseteq DOMAIN opt
  BY <1>1 DEF Defaults
<1>4. words # <<>> => n >= 1 /\ Head(words) = words[1]
  BY <1>1, <1>2, EmptySeq
<1>5. CASE TakeImage
  <2>1. /\ words[1] \notin Valued /\ words[1] # "-save" /\ n >= 1 /\ Taken(1) /\ opt' = opt
    BY <1>4, <1>5 DEF TakeImage
  <2>2. 1 = Takes(words[1]) /\ words[1] # "-s" /\ words[1] # "-t" /\ 1 \in 1..2
    BY <2>1 DEF Takes, Valued
  <2> QED
    BY <1>1, <1>2, <2>1, <2>2, TakeTold
<1>6. CASE TakeFlag
  <2>1. /\ words[1] \in Flags /\ n >= 1 /\ Taken(1)
        /\ opt' = [opt EXCEPT !.flags = opt.flags \cup {words[1]}]
    BY <1>4, <1>6 DEF TakeFlag
  <2>2. /\ words[1] \notin Valued /\ words[1] \notin {"-m", "-q", "-s", "-t", "-save"}
        /\ 1 = Takes(words[1]) /\ 1 \in 1..2
    BY <2>1 DEF Takes, Valued, Flags
  <2>3. /\ DOMAIN opt' = DOMAIN Defaults /\ opt'.skip = opt.skip /\ opt'.maps = opt.maps
        /\ opt'.flags = opt.flags \cup {words[1]}
        /\ opt'.blocksize = opt.blocksize /\ opt'.aligned = opt.aligned
    BY <1>1, <1>3, <2>1
  <2>4. SizesNotZero(opt')
    BY <1>1, <2>2, <2>3 DEF SizesNotZero
  <2> QED
    BY <1>1, <1>2, <2>1, <2>2, <2>3, <2>4, TakeTold
<1>7. CASE TakeSave
  <2>1. words[1] = "-save" /\ n >= 1 /\ Taken(1) /\ opt' = Set("-s", "ave")
    BY <1>4, <1>7 DEF TakeSave
  <2>2. "-s" \in Valued /\ ~Refused("-s", "ave") /\ 1 = Takes(words[1]) /\ 1 \in 1..2
    BY <2>1 DEF Valued, Refused, Takes
  <2>3. /\ DOMAIN opt' = DOMAIN Defaults /\ opt'.skip = 0 /\ opt'.maps = opt.maps
        /\ SizesNotZero(opt')
    BY <1>1, <2>1, <2>2, SetIs, Numbers
  <2> QED
    BY <1>1, <1>2, <2>1, <2>2, <2>3, TakeTold
<1>8. CASE TakeValued
  <2>1. /\ words[1] \in Valued /\ n >= 2 /\ Taken(2) /\ ~Refused(words[1], words[2])
        /\ opt' = Set(words[1], words[2])
    <3>1. n >= 2 => words # <<>>
      BY <1>2
    <3> QED
      BY <1>2, <1>4, <1>8, <3>1 DEF TakeValued
  <2>2. words[1] # "-save" /\ 2 = Takes(words[1]) /\ 2 \in 1..2
    BY <2>1 DEF Valued, Takes
  <2>3. /\ DOMAIN opt' = DOMAIN Defaults /\ SizesNotZero(opt')
        /\ opt'.skip = IF words[1] = "-s" THEN NumberOf(words[2]) ELSE opt.skip
        /\ words[1] # "-t" => opt'.maps = opt.maps
    BY <1>1, <2>1, SetIs
  <2> QED
    BY <1>1, <1>2, <2>1, <2>2, <2>3, TakeTold
<1> QED
  BY <1>5, <1>6, <1>7, <1>8

(* Behind the last word the options are those of all words.                *)
LEMMA ConvertTold ==
  ASSUME ToldInv, ConvertFileNames
  PROVE  ToldInv'
<1>1. /\ pc = "options" /\ words = <<>> /\ pc' = "conf" /\ UNCHANGED <<argv, disk>>
      /\ opt' = [opt EXCEPT !.output = Resolved(opt.output)]
  BY DEF ConvertFileNames, user
<1>2. PICK p \in Nat : AtWord(argv, words, p) /\ AsTold(opt, argv, p)
  BY <1>1 DEF ToldInv
<1>3. argv \in Seq(Words) /\ disk \in DiskStates
  BY DEF ToldInv
<1>4. PICK n \in Nat : n = Len(argv)
  BY <1>3, LenProperties
<1>5. p = n
  BY <1>1, <1>2, <1>4 DEF AtWord
<1>6. DOMAIN opt = DOMAIN Defaults
  BY <1>2 DEF AsTold
<1>7. /\ DOMAIN opt' = DOMAIN Defaults /\ opt'.skip = opt.skip /\ opt'.maps = opt.maps
      /\ opt'.flags = opt.flags /\ opt'.blocksize = opt.blocksize
      /\ opt'.aligned = opt.aligned
  BY <1>1, <1>6 DEF Defaults
<1>8. AsTold(opt', argv, n)
  BY <1>2, <1>5, <1>7 DEF AsTold, SkipAsTold, SizesNotZero
<1>9. AsTold(opt', argv', Len(argv'))
  BY <1>1, <1>4, <1>8
<1> QED
  BY <1>1, <1>3, <1>9 DEF ToldInv, Before, After

(* No directory with something in it is written to.                        *)
LEMMA FullStays ==
  ASSUME ToldInv, [Next]_vars
  PROVE  /\ disk' \in DiskStates
         /\ \A p \in Paths : disk[p] = "full" => disk'[p] = "full"
<1>1. disk \in DiskStates
  BY DEF ToldInv
<1>2. CASE OpenAuditFile
  <2>1. disk[opt.output] \in {"empty", "missing"}
    BY <1>2 DEF OpenAuditFile, OutputOK
  <2>2. disk' = [p \in Paths |-> IF p = opt.output THEN "log"
                  ELSE IF disk[p] = "empty" /\ opt.output \in DOMAIN Parent
                          /\ Parent[opt.output] = p
                    THEN "full" ELSE disk[p]]
    BY <1>2 DEF OpenAuditFile
  <2> QED
    BY <1>1, <2>1, <2>2 DEF DiskStates
<1>3. CASE AuditFails
  <2>1. disk' = disk \/ disk' = [disk EXCEPT ![opt.output] =
                                  IF disk[opt.output] = "missing" THEN "empty"
                                  ELSE disk[opt.output]]
    BY <1>3 DEF AuditFails, Made
  <2> QED
    BY <1>1, <2>1 DEF DiskStates
<1>4. CASE ~(OpenAuditFile \/ AuditFails)
  <2>1. disk' = disk
    BY <1>4 DEF Next, vars, FindSave, TakeImage, TakeFlag, TakeSave, TakeValued, BadOption,
                ConvertFileNames, OpenConf, ConfMissing, ReadComment, ReadWildcard, ReadSpec,
                BadLine, EndOfConf, NoImages, Rest, Exit
  <2> QED
    BY <1>1, <2>1
<1> QED
  BY <1>2, <1>3, <1>4

(* Every step keeps the invariant.                                         *)
LEMMA NextTold ==
  ASSUME ToldInv, [Next]_vars
  PROVE  ToldInv'
<1>1. CASE FindSave
  BY <1>1, FindSaveTold
<1>2. CASE TakeImage \/ TakeFlag \/ TakeSave \/ TakeValued
  BY <1>2, OptionTold
<1>3. CASE ConvertFileNames
  BY <1>3, ConvertTold
<1>4. CASE BadOption \/ ConfMissing \/ BadLine \/ AuditFails
  <2>1. pc' = "exit" /\ argv' = argv
    BY <1>4 DEF BadOption, ConfMissing, BadLine, AuditFails, Exit, user
  <2>2. disk' \in DiskStates
    BY FullStays
  <2> QED
    BY <2>1, <2>2 DEF ToldInv, Before, After
<1>5. CASE OpenConf \/ ReadComment \/ ReadWildcard \/ ReadSpec \/ EndOfConf \/ NoImages
           \/ OpenAuditFile
  <2>1. /\ pc \in {"conf", "lines"} \cup After /\ pc' \in {"conf", "lines"} \cup After
        /\ UNCHANGED <<argv, opt>>
    BY <1>5 DEF OpenConf, ReadComment, ReadWildcard, ReadSpec, EndOfConf, NoImages,
                OpenAuditFile, HasImages, NextLine, After, user
  <2>2. disk' \in DiskStates /\ argv \in Seq(Words) /\ AsTold(opt, argv, Len(argv))
    BY <2>1, FullStays DEF ToldInv
  <2>3. argv' \in Seq(Words) /\ AsTold(opt', argv', Len(argv'))
    BY <2>1, <2>2
  <2> QED
    BY <2>1, <2>2, <2>3 DEF ToldInv, Before, After
<1>6. CASE UNCHANGED vars
  <2>1. UNCHANGED <<argv, disk, pc, words, opt>>
    BY <1>6 DEF vars
  <2> QED
    BY <2>1 DEF ToldInv
<1> QED
  BY <1>1, <1>2, <1>3, <1>4, <1>5, <1>6 DEF Next

-----------------------------------------------------------------------------
(***************************************************************************)
(* The images and options of the command line are those Session begins     *)
(* with.                                                                   *)
(***************************************************************************)
(* Two stretches from 1 on are the same if they end at the same place.     *)
LEMMA SameEnd ==
  ASSUME NEW m \in Nat, NEW c \in Nat, 1..m = 1..c
  PROVE  m = c
<1>1. m > 0 => m \in 1..c
  OBVIOUS
<1>2. c > 0 => c \in 1..m
  OBVIOUS
<1> QED
  BY <1>1, <1>2

(* The images among some words, with one word more looked at.              *)
LEMMA ImagesGrow ==
  ASSUME NEW ws \in Seq(Words), NEW p \in Nat, p + 1 <= Len(ws),
         ImagesIn(ws, p) \in Seq(Words)
  PROVE  ImagesIn(ws, p + 1) = IF p + 1 \in ImagesAt(ws, p + 1)
                               THEN Append(ImagesIn(ws, p), ws[p + 1]) ELSE ImagesIn(ws, p)
<1> DEFINE A(n) == ImagesAt(ws, n)
           At(n, r) == {i \in A(n) : Cardinality(A(i)) = r}
<1>1. ASSUME NEW n \in Nat
      PROVE  /\ \A i \in A(n) : i \in 1..n
             /\ IsFiniteSet(A(n)) /\ Cardinality(A(n)) \in Nat
  <2>1. IsFiniteSet(1..n)
    BY FS_Interval
  <2>2. A(n) \in SUBSET (1..n)
    BY DEF ImagesAt
  <2>3. IsFiniteSet(A(n))
    BY <2>1, <2>2, FS_Subset
  <2> HIDE DEF A
  <2> QED
    BY <2>2, <2>3, FS_CardinalityType
<1>2. PICK c \in Nat : c = Cardinality(A(p))
  BY <1>1
<1>3. A(p + 1) = A(p) \cup {i \in {p + 1} : i \in A(p + 1)}
  <2>1. \A i : i \in 1..(p + 1) <=> i \in 1..p \/ i = p + 1
    OBVIOUS
  <2> QED
    BY <2>1 DEF ImagesAt
<1>4. \A n : ImagesIn(ws, n) = [r \in 1..Cardinality(A(n)) |-> ws[Some(At(n, r))]]
  BY DEF ImagesIn
<1>5. CASE p + 1 \notin A(p + 1)
  <2>1. A(p + 1) = A(p)
    BY <1>3, <1>5
  <2> HIDE DEF A
  <2>2. \A r : At(p + 1, r) = At(p, r)
    BY <2>1
  <2> HIDE DEF At
  <2>3. ImagesIn(ws, p + 1) = ImagesIn(ws, p)
    BY <1>4, <2>1, <2>2
  <2> QED
    BY <1>5, <2>3 DEF A
<1>6. CASE p + 1 \in A(p + 1)
  <2>1. A(p + 1) = A(p) \cup {p + 1} /\ p + 1 \notin A(p)
    <3>1. p + 1 \notin 1..p
      OBVIOUS
    <3> HIDE DEF A
    <3> QED
      BY <1>1, <1>3, <1>6, <3>1
  <2>2. Cardinality(A(p + 1)) = c + 1
    <3> HIDE DEF A
    <3> QED
      BY <1>1, <1>2, <2>1, FS_AddElement
  <2>3. ASSUME NEW i \in A(p) PROVE Cardinality(A(i)) \in Nat /\ Cardinality(A(i)) <= c
    <3>1. i \in 1..p
      BY <1>1
    <3>2. A(i) \in SUBSET A(p)
      BY <3>1 DEF ImagesAt
    <3> HIDE DEF A
    <3> QED
      BY <1>1, <1>2, <3>1, <3>2, FS_Subset
  <2> HIDE DEF A
  <2>4. ASSUME NEW r \in 1..c PROVE At(p + 1, r) = At(p, r)
    <3>1. r # c + 1
      OBVIOUS
    <3> QED
      BY <2>1, <2>2, <3>1
  <2>5. Some(At(p + 1, c + 1)) = p + 1
    <3>1. \A i \in A(p) : Cardinality(A(i)) # c + 1
      BY <2>3
    <3>2. At(p + 1, c + 1) = {p + 1}
      BY <2>1, <2>2, <3>1
    <3> HIDE DEF At
    <3> QED
      BY <3>2 DEF Some
  <2> HIDE DEF At
  <2>6. PICK s \in Seq(Words) : s = ImagesIn(ws, p)
    OBVIOUS
  <2>7. s = [r \in 1..c |-> ws[Some(At(p, r))]]
    BY <1>2, <1>4, <2>6
  <2>8. Len(s) = c /\ \A r \in 1..c : s[r] = ws[Some(At(p, r))]
    <3>1. DOMAIN s = 1..Len(s) /\ Len(s) \in Nat
      BY <2>6, LenProperties
    <3>2. DOMAIN s = 1..c
      BY <2>7
    <3>3. Len(s) = c
      <4>1. PICK m \in Nat : m = Len(s)
        BY <3>1
      <4> QED
        BY <3>1, <3>2, <4>1, SameEnd
    <3> QED
      BY <2>7, <3>3
  <2>9. PICK w \in Words : w = ws[p + 1]
    <3>1. p + 1 \in 1..Len(ws)
      BY LenProperties
    <3> QED
      BY <3>1, ElementOfSeq
  <2>10. PICK t : t = Append(s, w)
    OBVIOUS
  <2>11. /\ t \in Seq(Words) /\ Len(t) = c + 1
         /\ \A r \in 1..c : t[r] = s[r]
         /\ t[c + 1] = w
    BY <2>6, <2>8, <2>9, <2>10, AppendProperties
  <2>12. t = [r \in 1..(c + 1) |-> t[r]]
    <3>1. t = [r \in DOMAIN t |-> t[r]] /\ DOMAIN t = 1..(c + 1)
      BY <2>11, LenProperties
    <3> QED
      BY <3>1
  <2>13. ASSUME NEW r \in 1..(c + 1) PROVE t[r] = ws[Some(At(p + 1, r))]
    <3>1. CASE r \in 1..c
      BY <2>4, <2>8, <2>11, <3>1
    <3>2. CASE r = c + 1
      BY <2>5, <2>9, <2>11, <3>2
    <3> QED
      BY <3>1, <3>2
  <2>14. ImagesIn(ws, p + 1) = [r \in 1..(c + 1) |-> ws[Some(At(p + 1, r))]]
    BY <1>4, <2>2
  <2>15. ImagesIn(ws, p + 1) = t
    BY <2>12, <2>13, <2>14
  <2> QED
    BY <1>6, <2>6, <2>9, <2>10, <2>15 DEF A
<1> QED
  BY <1>5, <1>6

(* The images asked for are words, from the first on.                      *)
LEMMA ImagesAre ==
  ASSUME NEW ws \in Seq(Words)
  PROVE  \A n \in 0..Len(ws) : ImagesIn(ws, n) \in Seq(Words)
<1>1. PICK k \in Nat : k = Len(ws)
  BY LenProperties
<1> DEFINE bad == {n \in 0..k : ImagesIn(ws, n) \notin Seq(Words)}
<1> SUFFICES ASSUME bad # {} PROVE FALSE
  BY <1>1
<1>2. bad \in SUBSET Nat
  OBVIOUS
<1>3. PICK n \in bad : \A m \in bad : n <= m
  <2> HIDE DEF bad
  <2> QED
    BY <1>2, LeastExists
<1>4. n \in 0..k /\ ImagesIn(ws, n) \notin Seq(Words)
  OBVIOUS
<1>5. CASE n = 0
  <2>1. ImagesAt(ws, 0) = {}
    BY DEF ImagesAt
  <2>2. Cardinality(ImagesAt(ws, 0)) = 0
    BY <2>1, FS_EmptySet
  <2>3. ImagesIn(ws, 0) = <<>>
    BY <2>2 DEF ImagesIn
  <2> QED
    BY <1>4, <1>5, <2>3, EmptySeq
<1>6. CASE n # 0
  <2>1. PICK p \in Nat : n = p + 1 /\ p \in 0..k /\ p + 1 <= Len(ws)
    <3>1. n - 1 \in Nat /\ n = (n - 1) + 1 /\ n - 1 \in 0..k
      BY <1>4, <1>6
    <3> QED
      BY <1>1, <1>4, <3>1
  <2>2. ImagesIn(ws, p) \in Seq(Words)
    <3>1. ~(n <= p)
      BY <2>1
    <3>2. p \notin bad
      <4> HIDE DEF bad
      <4> QED
        BY <1>3, <3>1
    <3> QED
      BY <2>1, <3>2
  <2>3. ws[p + 1] \in Words
    <3>1. p + 1 \in 1..Len(ws)
      BY <1>1, <2>1
    <3> QED
      BY <3>1, ElementOfSeq
  <2>4. Append(ImagesIn(ws, p), ws[p + 1]) \in Seq(Words)
    BY <2>2, <2>3, AppendProperties
  <2>5. ImagesIn(ws, p + 1) \in Seq(Words)
    BY <2>1, <2>2, <2>4, ImagesGrow
  <2> QED
    BY <1>4, <2>1, <2>5
<1> QED
  BY <1>5, <1>6

(* What main() takes of the command line, as the first p words tell it.    *)
RunTold(im, o, ws, p) ==
  /\ im = ImagesIn(ws, p)
  /\ o.list = (Given(ws, {"-i"}, p) # {})
  /\ o.output \in Words \cup Paths
  /\ DOMAIN o = DOMAIN Defaults

RunInv ==
  /\ pc = "save" => images = <<>> /\ words = argv /\ opt = Defaults
  /\ pc = "options" => \E p \in Nat : AtWord(argv, words, p) /\ RunTold(images, opt, argv, p)
  /\ pc \in {"conf", "lines"} \cup After => RunTold(images, opt, argv, Len(argv))

(* What an option does to these fields.                                    *)
LEMMA SetRun ==
  ASSUME NEW o \in Valued, NEW w, DOMAIN opt = DOMAIN Defaults
  PROVE  /\ DOMAIN Set(o, w) = DOMAIN Defaults
         /\ Set(o, w).list = IF o = "-i" THEN TRUE ELSE opt.list
         /\ Set(o, w).output = IF o = "-o" THEN w ELSE opt.output
<1>1. {"skip", "maps", "flags", "blocksize", "aligned", "conf", "list", "output"}
         \subseteq DOMAIN opt
  BY DEF Defaults
<1>2. CASE o = "-c"
  BY <1>1, <1>2 DEF Set
<1>3. CASE o = "-i"
  BY <1>1, <1>3 DEF Set
<1>4. CASE o = "-m"
  BY <1>1, <1>4 DEF Set
<1>5. CASE o = "-o"
  BY <1>1, <1>5 DEF Set
<1>6. CASE o = "-q"
  BY <1>1, <1>6 DEF Set
<1>7. CASE o = "-s"
  BY <1>1, <1>7 DEF Set
<1>8. CASE o = "-t"
  BY <1>1, <1>8 DEF Set
<1> QED
  BY <1>2, <1>3, <1>4, <1>5, <1>6, <1>7, <1>8 DEF Valued

(* The last of some options is at a place, if there is one.                *)
LEMMA LastIs ==
  ASSUME NEW os, argv \in Seq(Words)
  PROVE  (LastOption(os) # 0) = (Given(argv, os, Len(argv)) # {})
<1>1. PICK n \in Nat : n = Len(argv)
  BY LenProperties
<1>2. PICK G : G = Given(argv, os, n)
  OBVIOUS
<1>3. LastOption(os) = IF G = {} THEN 0 ELSE CHOOSE i \in G : \A j \in G : j <= i
  <2>1. DOMAIN argv = 1..n
    BY <1>1, LenProperties
  <2> QED
    BY <1>2, <2>1 DEF LastOption, Given
<1>4. G \in SUBSET Nat /\ \A i \in G : i <= n /\ i # 0
  BY <1>2 DEF Given
<1>5. CASE G # {}
  <2>1. PICK s \in G : \A i \in G : i <= s
    BY <1>4, <1>5, GreatestExists
  <2>2. LastOption(os) \in G
    BY <1>3, <1>5, <2>1
  <2> QED
    BY <1>1, <1>2, <1>4, <1>5, <2>2
<1>6. CASE G = {}
  BY <1>1, <1>2, <1>3, <1>6
<1> QED
  BY <1>5, <1>6

(* A word is taken, with its value: an image, an option, or -i.            *)
LEMMA TakeRun ==
  ASSUME ToldInv, RunInv, pc = "options", UNCHANGED <<pc, argv>>,
         NEW k \in 1..2, Len(words) >= k, k = Takes(words[1]), Taken(k),
         DOMAIN opt' = DOMAIN Defaults,
         opt'.list = IF words[1] = "-i" THEN TRUE ELSE opt.list,
         opt'.output \in {opt.output} \cup (IF k = 2 THEN {words[2]} ELSE {}),
         images' = IF words[1] \in Options0 THEN images ELSE Append(images, words[1])
  PROVE  RunInv'
<1>1. PICK p \in Nat : AtWord(argv, words, p) /\ RunTold(images, opt, argv, p)
  BY DEF RunInv
<1>2. PICK n \in Nat : n = Len(argv) /\ argv \in Seq(Words)
  BY LenProperties DEF ToldInv
<1>3. /\ AtWord(argv, words', p + k)
      /\ words[1] = argv[p + 1] /\ (k = 2 => words[2] = argv[p + 2])
      /\ \A os : Given(argv, os, p + k)
                   = Given(argv, os, p) \cup {i \in {p + 1} : argv[i] \in os}
  <2>1. words' = SubSeq(words, k + 1, Len(words))
    BY DEF Taken
  <2> QED
    BY <1>1, <1>2, <2>1, WordsTaken
<1>4. p + k <= n /\ p + k \in Nat /\ p + 1 <= n /\ p \in 0..n
  BY <1>2, <1>3 DEF AtWord
<1>5. ~IsValue(argv, p + 1)
  BY <1>1, <1>2, <1>4 DEF AtWord
<1>6. argv[p + 1] \in Words /\ (k = 2 => argv[p + 2] \in Words)
  <2>1. p + 1 \in 1..n /\ (k = 2 => p + 2 \in 1..n)
    BY <1>4
  <2> QED
    BY <1>2, <2>1, ElementOfSeq
<1>7. images' = ImagesIn(argv, p + k)
  <2>1. images = ImagesIn(argv, p) /\ images \in Seq(Words)
    BY <1>1, <1>2, <1>4, ImagesAre DEF RunTold
  <2>2. p + 1 \in ImagesAt(argv, p + 1) <=> argv[p + 1] \notin Options0
    BY <1>5 DEF ImagesAt
  <2>3. images' = ImagesIn(argv, p + 1)
    BY <1>2, <1>3, <1>4, <2>1, <2>2, ImagesGrow
  <2>4. CASE k = 1
    BY <2>3, <2>4
  <2>5. CASE k = 2
    <3>1. PICK q \in Nat : q = p + 1 /\ q + 1 = p + 2 /\ q + 1 <= n /\ q \in 0..n
      BY <1>4, <2>5
    <3>2. IsValue(argv, q + 1)
      <4>1. argv[q] \in Valued
        BY <1>3, <2>5, <3>1 DEF Takes
      <4>2. q + 1 \in 1..n /\ (q + 1) - 1 = q /\ q + 1 > 1
        BY <3>1
      <4> QED
        BY <1>2, <1>5, <3>1, <4>1, <4>2, ValueIs
    <3>3. q + 1 \notin ImagesAt(argv, q + 1)
      BY <3>2 DEF ImagesAt
    <3>4. ImagesIn(argv, q) \in Seq(Words)
      BY <1>2, <3>1, ImagesAre
    <3>5. ImagesIn(argv, q + 1) = ImagesIn(argv, q)
      BY <1>2, <3>1, <3>3, <3>4, ImagesGrow
    <3> QED
      BY <2>3, <2>5, <3>1, <3>5
  <2> QED
    BY <2>4, <2>5
<1>8. opt'.list = (Given(argv, {"-i"}, p + k) # {})
  <2>1. opt.list = (Given(argv, {"-i"}, p) # {})
    BY <1>1 DEF RunTold
  <2>2. Given(argv, {"-i"}, p + k)
          = Given(argv, {"-i"}, p) \cup {i \in {p + 1} : argv[i] \in {"-i"}}
    BY <1>3
  <2>3. CASE argv[p + 1] = "-i"
    BY <1>3, <2>2, <2>3
  <2>4. CASE argv[p + 1] # "-i"
    BY <1>3, <2>1, <2>2, <2>4
  <2> QED
    BY <2>3, <2>4
<1>9. opt'.output \in Words \cup Paths
  BY <1>1, <1>3, <1>6 DEF RunTold
<1>10. RunTold(images', opt', argv', p + k)
  BY <1>7, <1>8, <1>9 DEF RunTold
<1>11. AtWord(argv', words', p + k) /\ pc' = "options"
  BY <1>3
<1> QED
  BY <1>4, <1>10, <1>11 DEF RunInv, After

(* The steps that take a word.                                             *)
LEMMA OptionRun ==
  ASSUME ToldInv, RunInv, TakeImage \/ TakeFlag \/ TakeSave \/ TakeValued
  PROVE  RunInv'
<1>1. /\ pc = "options" /\ UNCHANGED <<pc, argv>> /\ DOMAIN opt = DOMAIN Defaults
      /\ words \in Seq(Words)
  BY DEF ToldInv, AsTold, AtWord, TakeImage, TakeFlag, TakeSave, TakeValued, Rest, user
<1>2. PICK n \in Nat : n = Len(words)
  BY <1>1, LenProperties
<1>3. {"list", "output", "flags"} \subseteq DOMAIN opt
  BY <1>1 DEF Defaults
<1>4. words # <<>> => n >= 1 /\ Head(words) = words[1]
  BY <1>1, <1>2, EmptySeq
<1>5. CASE TakeImage
  <2>1. /\ words[1] \notin Flags \cup Valued /\ words[1] \notin {"-save", "-h", "-V", "-O"}
        /\ n >= 1 /\ Taken(1) /\ opt' = opt /\ images' = Append(images, words[1])
    BY <1>4, <1>5 DEF TakeImage
  <2>2. 1 = Takes(words[1]) /\ words[1] # "-i" /\ words[1] \notin Options0 /\ 1 \in 1..2
    BY <2>1 DEF Takes, Valued, Options0
  <2> QED
    BY <1>1, <1>2, <2>1, <2>2, TakeRun
<1>6. CASE TakeFlag
  <2>1. /\ words[1] \in Flags /\ n >= 1 /\ Taken(1) /\ images' = images
        /\ opt' = [opt EXCEPT !.flags = opt.flags \cup {words[1]}]
    BY <1>4, <1>6 DEF TakeFlag
  <2>2. /\ words[1] \notin Valued /\ words[1] # "-i" /\ words[1] \in Options0
        /\ 1 = Takes(words[1]) /\ 1 \in 1..2
    BY <2>1 DEF Takes, Valued, Flags, Options0
  <2>3. DOMAIN opt' = DOMAIN Defaults /\ opt'.list = opt.list /\ opt'.output = opt.output
    BY <1>1, <1>3, <2>1
  <2> QED
    BY <1>1, <1>2, <2>1, <2>2, <2>3, TakeRun
<1>7. CASE TakeSave
  <2>1. /\ words[1] = "-save" /\ n >= 1 /\ Taken(1) /\ opt' = Set("-s", "ave")
        /\ images' = images
    BY <1>4, <1>7 DEF TakeSave
  <2>2. "-s" \in Valued /\ 1 = Takes(words[1]) /\ 1 \in 1..2 /\ words[1] \in Options0
    BY <2>1 DEF Valued, Takes, Options0
  <2>3. DOMAIN opt' = DOMAIN Defaults /\ opt'.list = opt.list /\ opt'.output = opt.output
    BY <1>1, <2>1, <2>2, SetRun
  <2> QED
    BY <1>1, <1>2, <2>1, <2>2, <2>3, TakeRun
<1>8. CASE TakeValued
  <2>1. /\ words[1] \in Valued /\ n >= 2 /\ Taken(2) /\ images' = images
        /\ opt' = Set(words[1], words[2])
    <3>1. n >= 2 => words # <<>>
      BY <1>2
    <3> QED
      BY <1>2, <1>4, <1>8, <3>1 DEF TakeValued
  <2>2. 2 = Takes(words[1]) /\ 2 \in 1..2 /\ words[1] \in Options0
    BY <2>1 DEF Takes, Options0
  <2>3. /\ DOMAIN opt' = DOMAIN Defaults
        /\ opt'.list = IF words[1] = "-i" THEN TRUE ELSE opt.list
        /\ opt'.output \in {opt.output, words[2]}
    BY <1>1, <2>1, SetRun
  <2> QED
    BY <1>1, <1>2, <2>1, <2>2, <2>3, TakeRun
<1> QED
  BY <1>5, <1>6, <1>7, <1>8

(* A run begins without an image.                                          *)
LEMMA InitRun == Init => RunInv
BY DEF Init, RunInv, After

(* No word has been taken when the options are read.                       *)
LEMMA FindSaveRun ==
  ASSUME ToldInv, RunInv, FindSave
  PROVE  RunInv'
<1>1. /\ words = argv /\ images = <<>> /\ opt = Defaults /\ argv \in Seq(Words)
      /\ pc' = "options" /\ UNCHANGED <<argv, words, images>>
  BY DEF FindSave, ToldInv, RunInv, user
<1>2. DOMAIN opt' = DOMAIN Defaults /\ opt'.list = FALSE /\ opt'.output = DefaultOutput
  BY <1>1 DEF FindSave, Defaults
<1>3. PICK n \in Nat : n = Len(argv)
  BY <1>1, LenProperties
<1>4. AtWord(argv, words, 0)
  <2>1. n > 0 => ~IsValue(argv, 1)
    <3>1. n > 0 => 1 \in 1..n
      BY <1>3
    <3> QED
      BY <1>1, <1>3, <3>1, ValueIs
  <2> QED
    BY <1>1, <1>3, <2>1 DEF AtWord
<1>5. images = ImagesIn(argv, 0)
  <2>1. ImagesAt(argv, 0) = {}
    BY DEF ImagesAt
  <2>2. Cardinality(ImagesAt(argv, 0)) = 0
    BY <2>1, FS_EmptySet
  <2> QED
    BY <1>1, <2>2 DEF ImagesIn
<1>6. RunTold(images', opt', argv', 0)
  <2>1. Given(argv, {"-i"}, 0) = {}
    BY DEF Given
  <2>2. DefaultOutput \in Paths
    BY StartupAssumption
  <2> QED
    BY <1>1, <1>2, <1>5, <2>1, <2>2 DEF RunTold
<1>7. AtWord(argv', words', 0)
  BY <1>1, <1>4
<1> QED
  BY <1>1, <1>6, <1>7 DEF RunInv, After

(* Behind the last word all images have been taken.                        *)
LEMMA ConvertRun ==
  ASSUME ToldInv, RunInv, ConvertFileNames
  PROVE  RunInv'
<1>1. /\ pc = "options" /\ words = <<>> /\ pc' = "conf" /\ UNCHANGED <<argv, images>>
      /\ opt' = [opt EXCEPT !.output = Resolved(opt.output)]
  BY DEF ConvertFileNames, user
<1>2. PICK p \in Nat : AtWord(argv, words, p) /\ RunTold(images, opt, argv, p)
  BY <1>1 DEF RunInv
<1>3. PICK n \in Nat : n = Len(argv)
  BY LenProperties DEF ToldInv
<1>4. p = n
  BY <1>1, <1>2, <1>3 DEF AtWord
<1>5. DOMAIN opt = DOMAIN Defaults /\ opt.output \in Words \cup Paths
  BY <1>2 DEF RunTold
<1>6. Resolved(opt.output) \in Words \cup Paths
  <2>1. \A q \in DOMAIN Parent : Parent[q] \in Paths
    BY StartupAssumption
  <2> QED
    BY <1>5, <2>1 DEF Resolved, InMissing
<1>7. DOMAIN opt' = DOMAIN Defaults /\ opt'.list = opt.list /\ opt'.output \in Words \cup Paths
  BY <1>1, <1>5, <1>6 DEF Defaults
<1>8. RunTold(images', opt', argv', Len(argv'))
  BY <1>1, <1>2, <1>3, <1>4, <1>7 DEF RunTold
<1> QED
  BY <1>1, <1>8 DEF RunInv, After

(* Every step keeps the invariant.                                         *)
LEMMA NextRun ==
  ASSUME ToldInv, RunInv, [Next]_vars
  PROVE  RunInv'
<1>1. CASE FindSave
  BY <1>1, FindSaveRun
<1>2. CASE TakeImage \/ TakeFlag \/ TakeSave \/ TakeValued
  BY <1>2, OptionRun
<1>3. CASE ConvertFileNames
  BY <1>3, ConvertRun
<1>4. CASE BadOption \/ ConfMissing \/ BadLine \/ AuditFails
  <2>1. pc' = "exit"
    BY <1>4 DEF BadOption, ConfMissing, BadLine, AuditFails, Exit
  <2> QED
    BY <2>1 DEF RunInv, After
<1>5. CASE OpenConf \/ ReadComment \/ ReadWildcard \/ ReadSpec \/ EndOfConf \/ NoImages
           \/ OpenAuditFile
  <2>1. /\ pc \in {"conf", "lines"} \cup After /\ pc' \in {"conf", "lines"} \cup After
        /\ UNCHANGED <<argv, images, opt>>
    BY <1>5 DEF OpenConf, ReadComment, ReadWildcard, ReadSpec, EndOfConf, NoImages,
                OpenAuditFile, HasImages, NextLine, After, user
  <2>2. RunTold(images, opt, argv, Len(argv))
    BY <2>1 DEF RunInv
  <2>3. RunTold(images', opt', argv', Len(argv'))
    BY <2>1, <2>2
  <2> QED
    BY <2>1, <2>3 DEF RunInv, After
<1>6. CASE UNCHANGED vars
  <2>1. UNCHANGED <<argv, pc, words, opt, images>>
    BY <1>6 DEF vars
  <2> QED
    BY <2>1 DEF RunInv
<1> QED
  BY <1>1, <1>2, <1>3, <1>4, <1>5, <1>6 DEF Next

-----------------------------------------------------------------------------
(* To Session a run begins in main(), with images of the user's words.     *)
LEMMA BeginsMain == Init => Run!Init
<1> SUFFICES ASSUME Init PROVE Run!Init
  OBVIOUS
<1>1. argv \in Seq(Words) /\ pc = "save" /\ audit = NoPath
  BY InitTold DEF ToldInv, Init
<1>2. Asked \in Seq(Words)
  <2>1. PICK n \in Nat : n = Len(argv)
    BY <1>1, LenProperties
  <2>2. n \in 0..n
    BY <2>1
  <2> QED
    BY <1>1, <2>1, <2>2, ImagesAre DEF Asked
<1> QED
  BY <1>1, <1>2 DEF Run!Init

(* A step in which Session sees nothing change.                            *)
LEMMA HiddenStep ==
  ASSUME UNCHANGED <<argv, audit>>, pc \notin {"dig", "exit", "verify"},
         pc' \notin {"dig", "exit", "verify"}
  PROVE  UNCHANGED Run!vars
<1>1. /\ Asked' = Asked /\ LastOption({"-i"})' = LastOption({"-i"})
      /\ LastOption({"-d"})' = LastOption({"-d"})
  BY DEF Asked, LastOption
<1> QED
  BY <1>1 DEF Run!vars

(* Every step is one of Session, or it sees nothing of it.                 *)
LEMMA RunNext ==
  ASSUME ToldInv, RunInv, [Next]_vars
  PROVE  [Run!Next]_(Run!vars)
<1>0. UNCHANGED argv => /\ Asked' = Asked /\ LastOption({"-i"})' = LastOption({"-i"})
                        /\ LastOption({"-d"})' = LastOption({"-d"})
  BY DEF Asked, LastOption
<1>1. CASE FindSave \/ TakeImage \/ TakeFlag \/ TakeSave \/ TakeValued
           \/ ConvertFileNames \/ OpenConf
           \/ ReadComment \/ ReadWildcard \/ ReadSpec \/ EndOfConf
  <2>1. /\ UNCHANGED <<argv, audit>> /\ pc \notin {"dig", "exit", "verify"}
        /\ pc' \notin {"dig", "exit", "verify"}
    BY <1>1 DEF FindSave, TakeImage, TakeFlag, TakeSave, TakeValued, ConvertFileNames,
                OpenConf, ReadComment, ReadWildcard, ReadSpec, EndOfConf, NextLine, Rest, user
  <2> QED
    BY <2>1, HiddenStep
<1>2. CASE BadOption \/ ConfMissing \/ BadLine \/ AuditFails
  <2>1. /\ UNCHANGED <<argv, audit>> /\ pc \notin {"dig", "exit", "verify"} /\ pc' = "exit"
    BY <1>2 DEF BadOption, ConfMissing, BadLine, AuditFails, HasImages, Exit, user
  <2>2. Run!OpenAuditFails
    BY <1>0, <2>1 DEF Run!OpenAuditFails, Run!user, Run!kept
  <2> QED
    BY <2>2 DEF Run!Next, Run!Step
<1>3. CASE NoImages \/ OpenAuditFile
  <2>1. pc = "output" /\ RunTold(images, opt, argv, Len(argv)) /\ argv' = argv
    BY <1>3 DEF NoImages, OpenAuditFile, HasImages, RunInv, After, user
  <2>2. images = Asked /\ opt.list = (LastOption({"-i"}) # 0)
    BY <2>1, LastIs DEF RunTold, Asked, ToldInv
  <2>3. CASE NoImages
    <3>1. Run!NoImages
      BY <1>0, <2>1, <2>2, <2>3 DEF NoImages, Run!NoImages, Run!user, Run!kept
    <3> QED
      BY <3>1 DEF Run!Next, Run!Step
  <2>4. CASE OpenAuditFile
    <3>1. opt.output # NoPath
      BY <2>1, StartupAssumption DEF RunTold
    <3>2. Run!OpenAudit
      BY <1>0, <2>1, <2>2, <2>4, <3>1
         DEF OpenAuditFile, HasImages, Run!OpenAudit, Run!user, Run!kept
    <3> QED
      BY <3>2 DEF Run!Next, Run!Step
  <2> QED
    BY <1>3, <2>3, <2>4
<1>4. CASE UNCHANGED vars
  <2>1. UNCHANGED <<argv, audit, pc, images>>
    BY <1>4 DEF vars
  <2> QED
    BY <1>0, <2>1 DEF Run!vars
<1> QED
  BY <1>1, <1>2, <1>3, <1>4 DEF Next

-----------------------------------------------------------------------------
(***************************************************************************)
(* Theorems.                                                               *)
(***************************************************************************)

(* readSearchSpecFile(): every run that goes on has all types of its file, *)
(* in order, and no more than MaxFileTypes but for one more as the very    *)
(* last line; every run that gives up on a line has a reason in the file.  *)
THEOREM ConfigurationRead == Spec => []SpecsUsable
<1>1. Inv => SpecsUsable
  <2> SUFFICES ASSUME Inv PROVE SpecsUsable
    OBVIOUS
  <2>1. pc = "exit" /\ lines # <<>> => Refusal
    BY DEF Inv, PlaceOK
  <2>2. ASSUME pc \in {"output", "dig", "verify"}
        PROVE  LET conf == confs[opt.conf]
               IN  /\ Len(conf) \in 0..Len(conf) /\ SpecsRead(specs, conf, Len(conf))
    <3>1. ReadSoFar /\ lines = <<>>
      BY <2>2 DEF Inv, PlaceOK, After
    <3>2. PICK conf : conf = confs[opt.conf]
      OBVIOUS
    <3>3. conf \in Seq(ConfLines)
      BY <3>1, <3>2 DEF ReadSoFar, Inv, ConfsOK
    <3>4. PICK n \in Nat : n = Len(conf)
      BY <3>3, LenProperties
    <3>5. PICK k \in 0..n : LinesLeft(lines, conf, k) /\ SpecsRead(specs, conf, k)
      BY <3>1, <3>2, <3>4 DEF ReadSoFar
    <3>6. Len(lines) = n - k /\ Len(lines) = 0
      BY <3>1, <3>4, <3>5 DEF LinesLeft
    <3>7. k = n /\ n \in 0..n
      BY <3>6
    <3> QED
      BY <3>2, <3>4, <3>5, <3>7
  <2>3. Len(specs) \in Nat /\ MaxFileTypes \in Nat
    BY LenProperties, StartupAssumption DEF Inv, SpecsMade
  <2>4. ASSUME NEW conf, SpecsRead(specs, conf, Len(conf)), Len(specs) > MaxFileTypes
        PROVE  Len(specs) = MaxFileTypes + 1 /\ conf[Len(conf)].kind = "spec"
    BY <2>3, <2>4 DEF SpecsRead, SpecLines
  <2> QED
    BY <2>1, <2>2, <2>4 DEF SpecsUsable, SpecsRead, Refusal
<1> QED
  BY <1>1, InitInv, NextInv, PTL DEF Spec

(* init_bm_table, bm_needleinhaystack_skipnchars: whatever needles a file  *)
(* defines, with wildcards and with both cases, pass 1 skips none of their *)
(* matches in any text.                                                    *)
THEOREM SearchSkipsNothing == Spec => []NeedlesFound
<1>1. Inv => NeedlesFound
  <2> SUFFICES ASSUME Inv, NEW n \in DOMAIN specs,
                      NEW needle \in {specs[n].begin, specs[n].end},
                      specs[n].made = wildcard \/ wildcard \notin ToSet(needle.bytes),
                      NEW text \in Texts
               PROVE  bm_needleinhaystack(needle.bytes, text, needle.table,
                                          specs[n].casesensitive, wildcard)
                        = FirstMatch(needle.bytes, text, specs[n].casesensitive)
    BY DEF NeedlesFound
  <2>1. PICK cs : cs = specs[n].casesensitive
    OBVIOUS
  <2>2. PICK made : made = specs[n].made
    OBVIOUS
  <2>3. SpecMade(specs[n])
    <3>1. PICK S : specs \in Seq(S) /\ \A s \in S : SpecMade(s)
      BY DEF Inv, SpecsMade
    <3>2. n \in 1..Len(specs)
      BY <3>1, LenProperties
    <3> QED
      BY <3>1, <3>2, ElementOfSeq
  <2>4. cs \in BOOLEAN /\ NeedleMade(needle, cs, made)
    BY <2>1, <2>2, <2>3 DEF SpecMade
  <2>5. PICK bytes : bytes = needle.bytes
    OBVIOUS
  <2>6. bytes \in Seq(Int) /\ needle.table = init_bm_table(bytes, cs, made)
    BY <2>4, <2>5 DEF NeedleMade
  <2>7. made = wildcard \/ \A i \in 1..Len(bytes) : bytes[i] # wildcard
    <3>1. DOMAIN bytes = 1..Len(bytes)
      BY <2>6, LenProperties
    <3> QED
      BY <2>2, <2>5, <3>1 DEF ToSet
  <2>8. text \in Seq(Alphabet)
    BY StartupAssumption
  <2> DEFINE places == Places(bytes, text, cs, wildcard)
             found == bm_needleinhaystack(bytes, text, init_bm_table(bytes, cs, made),
                                          cs, wildcard)
  <2>9. IF places = {} THEN found = 0
        ELSE found \in places /\ \A i \in places : found <= i
    BY <2>4, <2>6, <2>7, <2>8, SearchFinds
  <2>10. places \subseteq Int
    <3>1. Len(text) \in Nat
      BY <2>8, LenProperties
    <3> QED
      BY <3>1 DEF Places
  <2>11. FirstMatch(bytes, text, cs)
           = IF places = {} THEN 0 ELSE CHOOSE i \in places : \A j \in places : i <= j
    BY DEF FirstMatch, Places
  <2> HIDE DEF places, found
  <2>12. found = FirstMatch(bytes, text, cs)
    <3>1. CASE places = {}
      BY <2>9, <2>11, <3>1
    <3>2. CASE places # {}
      <4>1. \A i \in places : (\A j \in places : i <= j) => i = found
        BY <2>9, <2>10, <3>2
      <4>2. FirstMatch(bytes, text, cs) \in places
              /\ \A j \in places : FirstMatch(bytes, text, cs) <= j
        BY <2>9, <2>11, <3>2
      <4> QED
        BY <4>1, <4>2
    <3> QED
      BY <3>1, <3>2
  <2> QED
    BY <2>1, <2>5, <2>6, <2>12 DEF found
<1> QED
  BY <1>1, InitInv, NextInv, PTL DEF Spec

(* processCommandLineArgs, outputDirectoryOK: a run that begins to dig has *)
(* the skip of the last -s or -save, block sizes that are not 0 and a maps *)
(* directory with nothing of an earlier run in it unless -t says so; and   *)
(* no step changes a directory that is not empty.                          *)
THEOREM DigsAsTold == Spec => BeginsAsTold
<1>1. ASSUME ToldInv, OpenAuditFile
      PROVE  LET s == LastOption({"-s", "-save"}) IN
             /\ opt.skip = (IF s = 0 \/ argv[s] = "-save" THEN 0 ELSE NumberOf(argv[s + 1]))
             /\ "-m" \in opt.flags => opt.blocksize > 0
             /\ "-q" \in opt.flags => opt.aligned > 0
             /\ LastOption({"-t"}) = 0 => disk[MapsDirectory] # "full"
  <2>1. AsTold(opt, argv, Len(argv)) /\ argv \in Seq(Words)
    BY <1>1 DEF ToldInv, OpenAuditFile, HasImages, After
  <2>2. PICK n \in Nat : n = Len(argv)
    BY <2>1, LenProperties
  <2> DEFINE G(os) == Given(argv, os, n)
  <2>3. \A os : LastOption(os) = IF G(os) = {} THEN 0
                                 ELSE CHOOSE i \in G(os) : \A j \in G(os) : j <= i
    <3>1. DOMAIN argv = 1..n
      BY <2>1, <2>2, LenProperties
    <3> QED
      BY <3>1 DEF LastOption, Given
  <2>4. \A os : \A i \in G(os) : i \in 1..n
    BY DEF Given
  <2> HIDE DEF G
  <2>5. ASSUME NEW os, NEW s \in G(os), \A i \in G(os) : i <= s PROVE LastOption(os) = s
    <3>1. \A i \in G(os) : (\A j \in G(os) : j <= i) => i = s
      BY <2>4, <2>5
    <3> QED
      BY <2>3, <2>5, <3>1
  <2>6. opt.skip = (IF \/ LastOption({"-s", "-save"}) = 0
                       \/ argv[LastOption({"-s", "-save"})] = "-save" THEN 0
                    ELSE NumberOf(argv[LastOption({"-s", "-save"}) + 1]))
    <3>1. \/ G({"-s", "-save"}) = {} /\ opt.skip = 0
          \/ \E s \in G({"-s", "-save"}) :
               /\ \A i \in G({"-s", "-save"}) : i <= s
               /\ opt.skip = IF argv[s] = "-save" THEN 0 ELSE NumberOf(argv[s + 1])
      BY <2>1, <2>2 DEF AsTold, SkipAsTold, G
    <3>2. CASE G({"-s", "-save"}) = {}
      BY <2>3, <3>1, <3>2
    <3>3. CASE G({"-s", "-save"}) # {}
      <4>1. PICK s \in G({"-s", "-save"}) :
              /\ \A i \in G({"-s", "-save"}) : i <= s
              /\ opt.skip = IF argv[s] = "-save" THEN 0 ELSE NumberOf(argv[s + 1])
        BY <3>1, <3>3
      <4>2. LastOption({"-s", "-save"}) = s /\ s # 0
        BY <2>4, <2>5, <4>1
      <4> QED
        BY <4>1, <4>2
    <3> QED
      BY <3>2, <3>3
  <2>7. LastOption({"-t"}) = 0 => disk[MapsDirectory] # "full"
    <3> SUFFICES ASSUME LastOption({"-t"}) = 0 PROVE disk[MapsDirectory] # "full"
      OBVIOUS
    <3>1. CASE G({"-t"}) = {}
      <4>1. opt.maps = NoPath
        BY <2>1, <2>2, <3>1 DEF AsTold, G
      <4> QED
        BY <1>1, <4>1 DEF MapsDirectory, OpenAuditFile, OutputOK
    <3>2. CASE G({"-t"}) # {}
      <4>1. G({"-t"}) \in SUBSET Nat /\ \A i \in G({"-t"}) : i <= n /\ i # 0
        BY <2>4
      <4>2. PICK s \in G({"-t"}) : \A i \in G({"-t"}) : i <= s
        BY <3>2, <4>1, GreatestExists
      <4> QED
        BY <2>5, <4>1, <4>2
    <3> QED
      BY <3>1, <3>2
  <2> QED
    BY <2>1, <2>6, <2>7 DEF AsTold, SizesNotZero
<1>2. ASSUME ToldInv, [Next]_vars
      PROVE  [/\ \A p \in Paths : disk[p] = "full" => disk'[p] = "full"
              /\ pc' = "dig" =>
                   LET s == LastOption({"-s", "-save"}) IN
                   /\ opt.skip = (IF s = 0 \/ argv[s] = "-save" THEN 0
                                  ELSE NumberOf(argv[s + 1]))
                   /\ "-m" \in opt.flags => opt.blocksize > 0
                   /\ "-q" \in opt.flags => opt.aligned > 0
                   /\ LastOption({"-t"}) = 0 => disk[MapsDirectory] # "full"]_vars
  <2>1. CASE UNCHANGED vars
    BY <2>1
  <2>2. CASE Next
    <3>1. pc' = "dig" => OpenAuditFile
      BY <2>2 DEF Next, FindSave, TakeImage, TakeFlag, TakeSave, TakeValued, BadOption,
                  ConvertFileNames, OpenConf, ConfMissing, ReadComment, ReadWildcard, ReadSpec,
                  BadLine, EndOfConf, NoImages, AuditFails, NextLine, Exit
    <3> QED
      BY <1>1, <1>2, <3>1, FullStays
  <2> QED
    BY <1>2, <2>1, <2>2
<1> QED
  BY <1>2, InitTold, NextTold, PTL DEF Spec, BeginsAsTold

(* main() up to the first image is what Session says of it: the images of  *)
(* the command line are taken in their order, or the run ends, with no     *)
(* image, with a bad configuration or without a fit output directory.      *)
THEOREM StartsSession == Spec => BeginsSession
<1>1. Init => ToldInv /\ RunInv
  BY InitTold, InitRun
<1>2. ToldInv /\ RunInv /\ [Next]_vars => (ToldInv /\ RunInv)'
  BY NextTold, NextRun
<1>3. ToldInv /\ RunInv /\ [Next]_vars => [Run!Next]_(Run!vars)
  BY RunNext
<1> QED
  BY <1>1, <1>2, <1>3, BeginsMain, PTL DEF Spec, BeginsSession, Run!Spec
=============================================================================
