------------------------------ MODULE DigProofs ------------------------------
(***************************************************************************)
(* Theorems about the first pass, DigImage: what is recorded are headers,  *)
(* no header is missed and no footer with which a file could end, for any  *)
(* image, any needles and any buffer that is not shorter than a needle.    *)
(***************************************************************************)
EXTENDS DigImage, SequenceTheorems, WellFoundedInduction, TLAPS

-----------------------------------------------------------------------------
(* Two facts about the natural numbers.                                    *)

(* A set of naturals that is not empty has a least element.                *)
LEMMA LeastExists ==
  ASSUME NEW S \in SUBSET Nat, S # {}
  PROVE  \E m \in S : \A x \in S : m <= x
<1>1. IsWellFoundedOn(OpToRel(<, Nat), Nat)
  BY NatLessThanWellFounded
<1>2. PICK m \in S : \A x \in S : <<x, m>> \notin OpToRel(<, Nat)
  BY <1>1, WFMin
<1>3. \A x \in S : ~(x < m)
  BY <1>2 DEF OpToRel
<1> QED
  BY <1>3

(* A set of naturals with an upper bound has a greatest element.           *)
LEMMA GreatestExists ==
  ASSUME NEW S \in SUBSET Nat, S # {}, NEW n \in Nat, \A x \in S : x <= n
  PROVE  \E m \in S : \A x \in S : x <= m
<1> DEFINE T == {n - x : x \in S}
<1>1. T \in SUBSET Nat /\ T # {}
  <2>1. \A x \in S : x \in Nat /\ n - x \in Nat
    OBVIOUS
  <2>2. PICK x \in S : TRUE
    OBVIOUS
  <2>3. n - x \in T
    OBVIOUS
  <2> QED
    BY <2>1, <2>3
<1>2. PICK d \in T : \A y \in T : d <= y
  BY <1>1, LeastExists
<1>3. PICK m \in S : d = n - m
  BY <1>2
<1>4. ASSUME NEW x \in S PROVE x <= m
  <2>1. n - x \in T
    OBVIOUS
  <2> QED
    BY <1>2, <1>3, <2>1
<1> QED
  BY <1>4

-----------------------------------------------------------------------------
(***************************************************************************)
(* The inductive invariant.  Where the chunk lies: it is part of the       *)
(* image, long enough for every needle, and the file stands behind it or,  *)
(* when it has been searched, one overlap before its end.  Footers are     *)
(* searched for where the type has one.                                    *)
(***************************************************************************)
InChunk == pc \in {"headers", "footers"}

ChunkLies ==
  /\ length # 0 => /\ base >= opt.skip /\ length >= Longest
                   /\ base + length <= Size
  /\ length = 0 => base = 0
  /\ pc = "open" => length = 0
  /\ InChunk => length # 0 /\ filepos = base + length
  /\ pc = "footers" => End # <<>>
  /\ pc = "read" => filepos = IF length = 0 THEN opt.skip
                                            ELSE base + length - (Longest - 1)
  /\ pc = "done" /\ ~cut => IF length = 0 THEN Size - opt.skip < Longest
                                          ELSE base + length = Size

(* The types whose headers have been searched for in the whole chunk, and  *)
(* those whose footers have.                                               *)
HeadersDone(n) == InChunk => n < needle \/ (n = needle /\ pc = "footers")
FootersDone(n) == InChunk => n < needle

(* Before which offset a header starts that is recorded, or that has been  *)
(* searched for.                                                           *)
HeaderAt(n) == base + (IF n = needle THEN at ELSE 0)

(* What is recorded is a header that ends in the chunk or before it.       *)
OnlyHeaders ==
  \A n \in Needles : \A h \in Ran(headers[n]) :
    /\ h \in Occurrences(SearchSpec[n].begin)
    /\ h + Len(SearchSpec[n].begin) <= base + length

Near(p, h, l) == p - h < l /\ h - p < l

Recorded(n, p) ==
  IF opt.noSearchOverlap
    THEN \E h \in Ran(headers[n]) : Near(p, h, Len(SearchSpec[n].begin))
    ELSE p \in Ran(headers[n])

(* A header is recorded when it starts where the search has been: anywhere *)
(* up to the end of the chunk when the whole chunk has been searched.      *)
HeadersKept ==
  pc # "exit" => \A n \in Needles : \A p \in Occurrences(SearchSpec[n].begin) :
    (IF HeadersDone(n) THEN p + Len(SearchSpec[n].begin) <= base + length
                       ELSE p < HeaderAt(n))
      => Recorded(n, p)

(* Headers as long as the longest needle are recorded in ascending order:  *)
(* the ones recorded lie before the ones still to come.                    *)
LongAscend ==
  \A n \in Needles : Len(SearchSpec[n].begin) = Longest =>
    /\ Ascends(headers[n])
    /\ ~HeadersDone(n) => \A h \in Ran(headers[n]) : h < HeaderAt(n)

(* The header that viability is judged by is the last one in the image:    *)
(* those in the overlap are recorded once more in the next chunk.          *)
LastHeader(n) == headers[n][Len(headers[n])]

LastIsLast ==
  pc # "exit" /\ ~opt.noSearchOverlap =>
    \A n \in Needles : headers[n] # <<>> =>
      IF HeadersDone(n) \/ n # needle \/ at = 0
        THEN \A h \in Ran(headers[n]) : h <= LastHeader(n)
        ELSE LastHeader(n) = base + at - 1

HeaderSeen ==
  pc = "headers" /\ at > 0 => headers[needle] # <<>>

(* A footer that a recorded header can use is recorded when it starts      *)
(* where the search has been.                                              *)
UsedBy(n, f, h) ==
  f > h /\ f + Len(SearchSpec[n].end) - h <= SearchSpec[n].length

FooterAt(n) == base + (IF n = needle /\ pc = "footers" THEN at ELSE 0)

FootersKept ==
  pc # "exit" /\ ~opt.noSearchOverlap =>
    \A n \in Needles : SearchSpec[n].end # <<>> =>
      \A f \in Occurrences(SearchSpec[n].end) : \A h \in Ran(headers[n]) :
        /\ UsedBy(n, f, h)
        /\ IF FootersDone(n) THEN f + Len(SearchSpec[n].end) <= base + length
                             ELSE f < FooterAt(n)
        => f \in Ran(footers[n])

DigInv ==
  /\ TypeOK /\ ChunkLies
  /\ OnlyHeaders /\ HeadersKept /\ LongAscend
  /\ LastIsLast /\ HeaderSeen /\ FootersKept

-----------------------------------------------------------------------------
(* The types' needles are sequences, and a header is not empty.            *)
LEMMA NeedleTypes ==
  /\ Len(SearchSpec) \in Nat \ {0}
  /\ \A n \in Needles : /\ SearchSpec[n].begin \in Pattern
                        /\ SearchSpec[n].end \in Pattern
                        /\ SearchSpec[n].length \in Nat
                        /\ Len(SearchSpec[n].begin) \in Nat \ {0}
                        /\ Len(SearchSpec[n].end) \in Nat
                        /\ SearchSpec[n].end # <<>> => Len(SearchSpec[n].end) > 0
<1> DEFINE R == [begin : Pattern, end : Pattern, length : Nat]
<1>1. SearchSpec \in Seq(R) /\ Len(SearchSpec) > 0
  BY SpecAssumption
<1>2. Len(SearchSpec) \in Nat \ {0}
  BY <1>1, LenProperties
<1>3. ASSUME NEW n \in Needles
      PROVE  /\ SearchSpec[n].begin \in Pattern
             /\ SearchSpec[n].end \in Pattern
             /\ SearchSpec[n].length \in Nat
  <2>1. SearchSpec[n] \in R
    BY <1>1, <1>3, ElementOfSeq DEF Needles
  <2> QED
    BY <2>1
<1>4. ASSUME NEW n \in Needles
      PROVE  /\ Len(SearchSpec[n].begin) \in Nat \ {0}
             /\ Len(SearchSpec[n].end) \in Nat
             /\ SearchSpec[n].end # <<>> => Len(SearchSpec[n].end) > 0
  <2>1. Len(SearchSpec[n].begin) > 0
    BY SpecAssumption
  <2>2. SearchSpec[n].begin \in Seq(SUBSET Byte) /\ SearchSpec[n].end \in Seq(SUBSET Byte)
    BY <1>3 DEF Pattern
  <2> QED
    BY <2>1, <2>2, LenProperties, EmptySeq
<1> QED
  BY <1>2, <1>3, <1>4

(* However many needles there are, some length is not less than theirs.    *)
LEMMA LengthsBounded ==
  \E u \in Nat : \A n \in Needles : /\ Len(SearchSpec[n].begin) <= u
                                    /\ Len(SearchSpec[n].end) <= u
<1> DEFINE B(k, u) == \A n \in 1..k : /\ Len(SearchSpec[n].begin) <= u
                                      /\ Len(SearchSpec[n].end) <= u
           Bad == {k \in Needles : ~\E u \in Nat : B(k, u)}
<1>1. ASSUME Bad # {} PROVE FALSE
  <2>1. Bad \in SUBSET Nat
    BY DEF Needles
  <2>2. PICK m \in Bad : \A x \in Bad : m <= x
    BY <1>1, <2>1, LeastExists
  <2>3. m \in Needles /\ m \in Nat /\ m >= 1
    BY NeedleTypes DEF Needles
  <2>4. PICK b \in Nat : b = Len(SearchSpec[m].begin)
    BY <2>3, NeedleTypes
  <2>5. PICK e \in Nat : e = Len(SearchSpec[m].end)
    BY <2>3, NeedleTypes
  <2>6. \E u \in Nat : B(m - 1, u)
    <3>1. CASE m = 1
      <4>1. B(m - 1, 0)
        BY <3>1
      <4> QED
        BY <4>1
    <3>2. CASE m # 1
      <4>1. m - 1 \in Needles /\ m - 1 < m
        BY <2>3, <3>2, NeedleTypes DEF Needles
      <4>2. m - 1 \notin Bad
        <5>1. ASSUME m - 1 \in Bad PROVE FALSE
          <6>1. m <= m - 1
            BY <2>2, <5>1
          <6> QED
            BY <2>3, <6>1
        <5> QED
          BY <5>1
      <4> QED
        BY <4>1, <4>2
    <3> QED
      BY <3>1, <3>2
  <2>7. PICK u \in Nat : B(m - 1, u)
    BY <2>6
  <2>8. PICK v \in Nat : v >= u /\ v >= b /\ v >= e
    <3>1. u + (b + e) \in Nat /\ u + (b + e) >= u /\ u + (b + e) >= b /\ u + (b + e) >= e
      OBVIOUS
    <3> QED
      BY <3>1
  <2>9. \A x \in Nat : x <= u => x <= v
    BY <2>8
  <2>10. B(m, v)
    <3>1. ASSUME NEW n \in 1..m, n = m
          PROVE  /\ Len(SearchSpec[n].begin) <= v
                 /\ Len(SearchSpec[n].end) <= v
      BY <2>4, <2>5, <2>8, <3>1
    <3>2. ASSUME NEW n \in 1..m, n # m
          PROVE  /\ Len(SearchSpec[n].begin) <= v
                 /\ Len(SearchSpec[n].end) <= v
      <4>1. n \in 1..(m - 1) /\ n \in Needles
        BY <2>3, <3>2 DEF Needles
      <4>2. Len(SearchSpec[n].begin) <= u /\ Len(SearchSpec[n].end) <= u
        BY <2>7, <4>1
      <4>3. Len(SearchSpec[n].begin) \in Nat /\ Len(SearchSpec[n].end) \in Nat
        BY <4>1, NeedleTypes
      <4> QED
        BY <2>9, <4>2, <4>3
    <3> QED
      BY <3>1, <3>2
  <2> QED
    BY <2>2, <2>10
<1>2. Len(SearchSpec) \in Needles
  BY NeedleTypes DEF Needles
<1>3. PICK u \in Nat : B(Len(SearchSpec), u)
  BY <1>1, <1>2
<1> QED
  BY <1>3 DEF Needles

(* findLongestNeedle(): no needle is longer, and the buffer is not shorter. *)
LEMMA LongestNeedle ==
  /\ Longest \in Nat \ {0} /\ Longest <= BufSize
  /\ \A n \in Needles : /\ Len(SearchSpec[n].begin) <= Longest
                        /\ Len(SearchSpec[n].end) <= Longest
<1> DEFINE Lengths == {Len(p) : p \in Patterns}
<1>1. Lengths \in SUBSET Nat
  BY NeedleTypes DEF Patterns
<1>2. 1 \in Needles
  BY NeedleTypes DEF Needles
<1>3. Len(SearchSpec[1].begin) \in Lengths
  BY <1>2 DEF Patterns
<1>4. PICK u \in Nat : \A n \in Needles : /\ Len(SearchSpec[n].begin) <= u
                                          /\ Len(SearchSpec[n].end) <= u
  BY LengthsBounded
<1>5. \A x \in Lengths : x <= u
  BY <1>4 DEF Patterns
<1>6. PICK l \in Lengths : \A x \in Lengths : x <= l
  BY <1>1, <1>3, <1>5, GreatestExists
<1>7. \E x \in Lengths : \A p \in Patterns : Len(p) <= x
  BY <1>6
<1>8. Longest \in Lengths /\ \A p \in Patterns : Len(p) <= Longest
  BY <1>7 DEF Longest
<1>9. \A n \in Needles : /\ Len(SearchSpec[n].begin) <= Longest
                         /\ Len(SearchSpec[n].end) <= Longest
  BY <1>8 DEF Patterns
<1>10. Longest \in Nat
  BY <1>1, <1>8
<1>11. Longest # 0
  BY <1>2, <1>9, <1>10, NeedleTypes
<1> QED
  BY <1>9, <1>10, <1>11, SpecAssumption

-----------------------------------------------------------------------------
(* What the type invariant says about the inputs.                          *)
LEMMA InputTypes ==
  ASSUME TypeOK
  PROVE  /\ Size \in Nat /\ opt.skip \in Nat
         /\ opt.noSearchOverlap \in BOOLEAN /\ opt.database \in BOOLEAN
<1>1. image \in Seq(Byte)
      /\ opt \in [skip : Nat, noSearchOverlap : BOOLEAN, database : BOOLEAN]
  BY InputAssumption DEF TypeOK
<1>2. Size \in Nat
  BY <1>1, LenProperties DEF Size
<1> QED
  BY <1>1, <1>2

(* Where a pattern occurs depends on nothing but the image and -s.         *)
LEMMA SameImage ==
  ASSUME UNCHANGED <<image, opt>>
  PROVE  /\ Size' = Size
         /\ \A pattern : Occurrences(pattern)' = Occurrences(pattern)
<1>1. Size' = Size
  BY DEF Size
<1>2. ASSUME NEW pattern
      PROVE  Occurrences(pattern)' = Occurrences(pattern)
  <2>1. ASSUME NEW p PROVE MatchesAt(pattern, p)' <=> MatchesAt(pattern, p)
    BY <1>1 DEF MatchesAt
  <2> QED
    BY <1>1, <2>1 DEF Occurrences
<1> QED
  BY <1>1, <1>2

(* bm_needleinhaystack() finds the first match that is left in the chunk.  *)
LEMMA FirstMatch ==
  ASSUME TypeOK, NEW pattern, Len(pattern) \in Nat, Matches(pattern) # {},
         NEW m, m = First(Matches(pattern))
  PROVE  /\ m \in Nat /\ at <= m /\ m + Len(pattern) <= length
         /\ MatchesAt(pattern, base + m)
         /\ \A x \in Matches(pattern) : m <= x
<1>1. at \in Nat /\ length \in Nat
  BY SpecAssumption DEF TypeOK
<1>2. Matches(pattern) \in SUBSET Nat
  BY <1>1 DEF Matches
<1>3. \E d \in Matches(pattern) : \A x \in Matches(pattern) : d <= x
  BY <1>2, LeastExists
<1>4. m \in Matches(pattern) /\ \A x \in Matches(pattern) : m <= x
  BY <1>3 DEF First
<1> QED
  BY <1>1, <1>4 DEF Matches

(* A match in the chunk is an occurrence in the image.                     *)
LEMMA MatchOccurs ==
  ASSUME TypeOK, ChunkLies, InChunk, NEW pattern, Len(pattern) \in Nat, NEW m \in Nat,
         m + Len(pattern) <= length, MatchesAt(pattern, base + m), Len(pattern) > 0
  PROVE  /\ base + m \in Occurrences(pattern) /\ base + m \in 0..(Size - 1)
         /\ base + m + Len(pattern) <= base + length
<1>1. base \in Nat /\ length \in Nat
  BY SpecAssumption DEF TypeOK
<1>2. base >= opt.skip /\ base + length <= Size
  BY DEF ChunkLies
<1>3. Size \in Nat /\ opt.skip \in Nat
  BY InputTypes
<1> QED
  BY <1>1, <1>2, <1>3 DEF Occurrences

(* An occurrence that ends in the chunk, at or past foundat, is a match.   *)
LEMMA OccurrenceMatches ==
  ASSUME TypeOK, NEW pattern, Len(pattern) \in Nat, NEW p \in Occurrences(pattern),
         p >= base + at, p + Len(pattern) <= base + length
  PROVE  p \in Nat /\ p - base \in Matches(pattern)
<1>1. base \in Nat /\ length \in Nat /\ at \in Nat
  BY SpecAssumption DEF TypeOK
<1>2. Size \in Nat /\ opt.skip \in Nat
  BY InputTypes
<1>3. p \in Nat /\ MatchesAt(pattern, p)
  BY <1>2 DEF Occurrences
<1>4. p - base \in at..(length - Len(pattern)) /\ base + (p - base) = p
  BY <1>1, <1>3
<1> QED
  BY <1>3, <1>4 DEF Matches

-----------------------------------------------------------------------------
(* The invariant holds when digImageFile() is called.                      *)
LEMMA DigInit == Init => DigInv
<1> SUFFICES ASSUME Init PROVE DigInv
  OBVIOUS
<1>0. Longest \in Nat \ {0} /\ BufSize \in Nat
  BY LongestNeedle, SpecAssumption
<1>1. TypeOK
  <2>1. 1 \in Needles /\ length = 0 /\ at = 0 /\ 0 \in 0..BufSize /\ 0 \in 0..length
    BY <1>0, NeedleTypes DEF Needles, Init
  <2>2. <<>> \in Seq(0..(Size - 1))
    BY EmptySeq
  <2> QED
    BY <2>1, <2>2 DEF TypeOK, Init, Running
<1>2. ChunkLies
  BY DEF Init, ChunkLies, InChunk
<1>3. pc = "open" /\ ~InChunk /\ base + length = 0
      /\ \A n \in Needles : headers[n] = <<>> /\ footers[n] = <<>>
  BY DEF Init, InChunk
<1>4. \A n \in Needles : Ran(headers[n]) = {} /\ Ascends(headers[n])
  BY <1>3 DEF Ran, Ascends
<1>5. \A n \in Needles : HeadersDone(n) /\ FootersDone(n)
  BY <1>3 DEF HeadersDone, FootersDone
<1>6. Size \in Nat /\ opt.skip \in Nat
  BY <1>1, InputTypes
<1>7. HeadersKept
  <2>1. ASSUME NEW n \in Needles, NEW p \in Occurrences(SearchSpec[n].begin)
        PROVE  ~(p + Len(SearchSpec[n].begin) <= base + length)
    <3>1. p \in Nat /\ Len(SearchSpec[n].begin) \in Nat \ {0}
      BY <1>6, NeedleTypes DEF Occurrences
    <3> QED
      BY <1>3, <3>1
  <2> QED
    BY <1>5, <2>1 DEF HeadersKept
<1>8. OnlyHeaders /\ LongAscend /\ LastIsLast /\ FootersKept
  BY <1>3, <1>4, <1>5 DEF OnlyHeaders, LongAscend, LastIsLast, FootersKept
<1>9. HeaderSeen
  BY <1>3 DEF HeaderSeen
<1> QED
  BY <1>1, <1>2, <1>7, <1>8, <1>9 DEF DigInv

-----------------------------------------------------------------------------
(* The types and the place of the chunk are kept by every action.          *)
Places == TypeOK /\ ChunkLies

(* Opening the image leaves no chunk and no header.                         *)
LEMMA PlacesOpen == Places /\ (OpenImage \/ OpenFails) => Places'
<1> SUFFICES ASSUME Places, OpenImage \/ OpenFails PROVE Places'
  OBVIOUS
<1>1. Size' = Size /\ Size \in Nat /\ opt.skip \in Nat
  BY InputTypes, SameImage DEF Places, OpenImage, OpenFails
<1>2. TypeOK'
  BY <1>1 DEF Places, TypeOK, OpenImage, OpenFails, Running, Ended
<1>3. ChunkLies'
  BY <1>1 DEF Places, ChunkLies, InChunk, OpenImage, OpenFails
<1> QED
  BY <1>2, <1>3 DEF Places

(* How much of the image a read returns.                                   *)
LEMMA AvailableIs ==
  ASSUME TypeOK
  PROVE  /\ Available \in Nat /\ Available <= BufSize
         /\ Available > 0 => filepos + Available <= Size
         /\ Available < Longest => filepos > Size - Longest
<1>1. Size \in Nat /\ filepos \in Nat /\ BufSize \in Nat
  BY InputTypes, SpecAssumption DEF TypeOK
<1>2. Longest \in Nat /\ Longest <= BufSize
  BY LongestNeedle
<1> QED
  BY <1>1, <1>2 DEF Available, Rest

(* A chunk is read behind the last one, less the overlap.                   *)
LEMMA PlacesRead == Places /\ (ReadChunk \/ LastRead \/ ReadFails) => Places'
<1> SUFFICES ASSUME Places, ReadChunk \/ LastRead \/ ReadFails PROVE Places'
  OBVIOUS
<1>0. TypeOK /\ ChunkLies /\ pc = "read"
  BY DEF Places, ReadChunk, LastRead, ReadFails
<1>1. Size' = Size /\ Size \in Nat /\ opt.skip \in Nat /\ opt' = opt
  BY <1>0, InputTypes, SameImage DEF ReadChunk, LastRead, ReadFails
<1>2. Longest \in Nat \ {0} /\ Longest <= BufSize /\ BufSize \in Nat
  BY LongestNeedle, SpecAssumption
<1>3. filepos \in Nat /\ base \in Nat /\ length \in Nat
  BY SpecAssumption, <1>0 DEF TypeOK
<1>4. /\ Available \in Nat /\ Available <= BufSize
      /\ Available > 0 => filepos + Available <= Size
      /\ Available < Longest => filepos > Size - Longest
  BY <1>0, AvailableIs
<1>5. filepos >= opt.skip
  BY <1>0, <1>1, <1>2, <1>3 DEF ChunkLies
<1>6. CASE ReadChunk
  <2>1. Available > 0 /\ Available >= Longest
    BY <1>2, <1>4, <1>6 DEF ReadChunk
  <2>2. TypeOK'
    <3>1. needle' \in Needles
      BY <1>6, NeedleTypes DEF ReadChunk, Needles
    <3>2. at' \in 0..length' /\ length' \in 0..BufSize
          /\ filepos' \in Nat /\ base' \in Nat
      BY <1>3, <1>4, <1>6 DEF ReadChunk
    <3>3. pc' \in Running \cup Ended
      BY <1>6 DEF ReadChunk, Running, Ended
    <3> QED
      BY <1>0, <1>1, <1>6, <3>1, <3>2, <3>3 DEF TypeOK, ReadChunk
  <2>3. ChunkLies'
    BY <1>1, <1>2, <1>3, <1>4, <1>5, <1>6, <2>1 DEF ReadChunk, ChunkLies, InChunk
  <2> QED
    BY <2>2, <2>3 DEF Places
<1>7. CASE LastRead
  <2>1. Available < Longest
    BY <1>2, <1>4, <1>7 DEF LastRead
  <2>2. TypeOK'
    BY <1>0, <1>1, <1>7 DEF TypeOK, LastRead, Running, Ended
  <2>3. pc' = "done" /\ UNCHANGED <<opt, base, length, filepos>>
    BY <1>7 DEF LastRead
  <2>4. filepos > Size - Longest
    BY <1>4, <2>1
  <2>5. IF length = 0 THEN Size - opt.skip < Longest ELSE base + length = Size
    BY <1>0, <1>1, <1>2, <1>3, <2>4 DEF ChunkLies
  <2>6. ChunkLies'
    BY <1>0, <1>1, <2>3, <2>5 DEF ChunkLies, InChunk
  <2> QED
    BY <2>2, <2>6 DEF Places
<1>8. CASE ReadFails
  <2>1. /\ (pc' = "FILE_READ" /\ cut' = cut) \/ (pc' = "done" /\ cut' = TRUE)
        /\ UNCHANGED <<image, opt, filepos, base, length, needle, at, headers, footers, signal>>
    BY <1>8 DEF ReadFails
  <2>2. TypeOK'
    BY <1>0, <1>1, <2>1 DEF TypeOK, Running, Ended
  <2>3. ChunkLies'
    BY <1>0, <1>1, <2>1 DEF ChunkLies, InChunk
  <2> QED
    BY <2>2, <2>3 DEF Places
<1> QED
  BY <1>6, <1>7, <1>8

(* A match that is recorded lies in the image, and the search goes on      *)
(* behind its first byte, or behind its last one, inside the chunk.        *)
LEMMA FoundPlace ==
  ASSUME Places, InChunk, NEW pattern, Len(pattern) \in Nat, Len(pattern) > 0,
         Matches(pattern) # {}, NEW m, m = First(Matches(pattern))
  PROVE  /\ m \in Nat /\ at <= m /\ m + Len(pattern) <= length
         /\ base + m \in Occurrences(pattern) /\ base + m \in 0..(Size - 1)
         /\ Advance(pattern, m) \in 0..length
         /\ Advance(pattern, m) > 0
         /\ Advance(pattern, m) = m + (IF opt.noSearchOverlap THEN Len(pattern) ELSE 1)
<1>1. TypeOK /\ ChunkLies
  BY DEF Places
<1>2. m \in Nat /\ at <= m /\ m + Len(pattern) <= length /\ MatchesAt(pattern, base + m)
  BY <1>1, FirstMatch
<1>3. base + m \in Occurrences(pattern) /\ base + m \in 0..(Size - 1)
  BY <1>1, <1>2, MatchOccurs
<1>4. Advance(pattern, m) = m + (IF opt.noSearchOverlap THEN Len(pattern) ELSE 1)
  BY DEF Advance
<1>5. length \in Nat
  BY <1>1, SpecAssumption DEF TypeOK
<1> QED
  BY <1>2, <1>3, <1>4, <1>5

(* What is found lies in the chunk, and the search goes on behind it.       *)
LEMMA PlacesFind == Places /\ (FindHeader \/ FindFooter) => Places'
<1> SUFFICES ASSUME Places, FindHeader \/ FindFooter PROVE Places'
  OBVIOUS
<1>0. TypeOK /\ ChunkLies /\ InChunk /\ needle \in Needles
  BY DEF Places, FindHeader, FindFooter, InChunk, TypeOK
<1>1. Size' = Size
  BY SameImage DEF FindHeader, FindFooter
<1>3. CASE FindHeader
  <2>1. PICK m : m = First(Matches(Begin))
    OBVIOUS
  <2>2. Len(Begin) \in Nat /\ Len(Begin) > 0 /\ Matches(Begin) # {}
    BY <1>0, <1>3, NeedleTypes DEF Begin, FindHeader
  <2>3. base + m \in 0..(Size - 1) /\ Advance(Begin, m) \in 0..length
    BY <1>0, <2>1, <2>2, FoundPlace
  <2>4. /\ headers' = [headers EXCEPT ![needle] = Append(@, base + m)]
        /\ at' = Advance(Begin, m)
        /\ UNCHANGED <<image, opt, pc, filepos, base, length, needle, footers, signal, cut>>
    BY <1>3, <2>1 DEF FindHeader
  <2>5. headers' \in [Needles -> Seq(0..(Size - 1))]
    BY <1>0, <2>3, <2>4 DEF TypeOK
  <2>6. TypeOK'
    BY <1>0, <1>1, <2>3, <2>4, <2>5 DEF TypeOK
  <2>7. ChunkLies'
    BY <1>0, <1>1, <2>4 DEF ChunkLies, InChunk, End
  <2> QED
    BY <2>6, <2>7 DEF Places
<1>4. CASE FindFooter
  <2>1. PICK m : m = First(Matches(End))
    OBVIOUS
  <2>2. Len(End) \in Nat /\ Len(End) > 0 /\ Matches(End) # {}
    <3>1. End # <<>>
      BY <1>0, <1>4 DEF ChunkLies, FindFooter
    <3> QED
      BY <1>0, <1>4, <3>1, NeedleTypes DEF End, FindFooter
  <2>3. base + m \in 0..(Size - 1) /\ Advance(End, m) \in 0..length
    BY <1>0, <2>1, <2>2, FoundPlace
  <2>4. /\ footers' = [footers EXCEPT ![needle] = Append(@, base + m)]
        /\ at' = Advance(End, m)
        /\ UNCHANGED <<image, opt, pc, filepos, base, length, needle, headers, signal, cut>>
    BY <1>4, <2>1 DEF FindFooter
  <2>5. footers' \in [Needles -> Seq(0..(Size - 1))]
    BY <1>0, <2>3, <2>4 DEF TypeOK
  <2>6. TypeOK'
    BY <1>0, <1>1, <2>3, <2>4, <2>5 DEF TypeOK
  <2>7. ChunkLies'
    BY <1>0, <1>1, <2>4 DEF ChunkLies, InChunk, End
  <2> QED
    BY <2>6, <2>7 DEF Places
<1> QED
  BY <1>3, <1>4

(* The file is moved back from the end of the chunk, and not before the    *)
(* beginning of the image.                                                 *)
LEMMA PlacesNextNeedle ==
  ASSUME Places, InChunk, NextNeedle, at' = 0,
         UNCHANGED <<image, opt, base, length, headers, footers, signal, cut>>
  PROVE  Places'
<1>0. TypeOK /\ ChunkLies /\ needle \in Needles
  BY DEF Places, TypeOK
<1>1. Size' = Size
  BY SameImage
<1>2. Longest \in Nat \ {0} /\ Len(SearchSpec) \in Nat
  BY LongestNeedle, NeedleTypes
<1>3. filepos \in Nat /\ base \in Nat /\ length \in Nat /\ length # 0
      /\ filepos = base + length /\ length >= Longest
  BY <1>0, SpecAssumption DEF TypeOK, ChunkLies
<1>4. needle' \in Needles /\ 0 \in 0..length'
  BY <1>0, <1>2, <1>3 DEF NextNeedle, Needles
<1>5. /\ pc' \in {"headers", "read"}
      /\ pc' = "read" => filepos' = base + length - (Longest - 1)
      /\ pc' = "headers" => filepos' = filepos
  BY <1>2, <1>3 DEF NextNeedle, StepBack
<1>6. filepos' \in Nat
  BY <1>2, <1>3, <1>5
<1>7. TypeOK'
  BY <1>0, <1>1, <1>4, <1>5, <1>6 DEF TypeOK, Running, Ended
<1>8. ChunkLies'
  BY <1>0, <1>1, <1>3, <1>5 DEF ChunkLies, InChunk
<1> QED
  BY <1>7, <1>8 DEF Places

(* The next search in the chunk begins at its start.                        *)
LEMMA PlacesEnd == Places /\ (NoMoreHeaders \/ NoMoreFooters) => Places'
<1> SUFFICES ASSUME Places, NoMoreHeaders \/ NoMoreFooters PROVE Places'
  OBVIOUS
<1>1. InChunk /\ at' = 0 /\ UNCHANGED <<image, opt, base, length, headers, footers, signal, cut>>
  BY DEF InChunk, NoMoreHeaders, NoMoreFooters
<1>2. CASE NextNeedle
  BY <1>1, <1>2, PlacesNextNeedle
<1>3. CASE ~NextNeedle
  <2>1. Viable(needle, headers[needle]) /\ pc' = "footers" /\ UNCHANGED <<needle, filepos>>
        /\ pc = "headers"
    BY <1>3 DEF NoMoreHeaders, NoMoreFooters
  <2>2. TypeOK /\ ChunkLies
    BY DEF Places
  <2>3. Size' = Size
    BY <1>1, SameImage
  <2>4. 0 \in 0..length
    BY <2>2, SpecAssumption DEF TypeOK
  <2>5. TypeOK'
    BY <1>1, <2>1, <2>2, <2>3, <2>4 DEF TypeOK, Running, Ended
  <2>6. End # <<>>
    BY <2>1 DEF Viable, End
  <2>7. ChunkLies'
    BY <1>1, <2>1, <2>2, <2>3, <2>6 DEF ChunkLies, InChunk, End
  <2> QED
    BY <2>5, <2>7 DEF Places
<1> QED
  BY <1>2, <1>3

(* Signals and the end of the program move nothing.                         *)
LEMMA PlacesRest == Places /\ (SignalExit \/ CatchSignal \/ Halted \/ UNCHANGED vars) => Places'
<1> SUFFICES ASSUME Places, SignalExit \/ CatchSignal \/ Halted \/ UNCHANGED vars PROVE Places'
  OBVIOUS
<1>0. TypeOK /\ ChunkLies
  BY DEF Places
<1>1. UNCHANGED <<image, opt, filepos, base, length, needle, at, headers, footers, cut>>
  BY DEF SignalExit, CatchSignal, Halted, vars
<1>2. Size' = Size
  BY <1>1, SameImage
<1>3. (UNCHANGED pc \/ pc' = "exit") /\ signal' \in BOOLEAN
  BY <1>0 DEF SignalExit, CatchSignal, Halted, vars, TypeOK
<1>4. TypeOK'
  BY <1>0, <1>1, <1>2, <1>3 DEF TypeOK, Running, Ended
<1>5. ChunkLies'
  BY <1>0, <1>1, <1>2, <1>3 DEF ChunkLies, InChunk, End
<1> QED
  BY <1>4, <1>5 DEF Places

(* Every step keeps the places.                                             *)
LEMMA PlacesKept == Places /\ [Next]_vars => Places'
BY PlacesOpen, PlacesRead, PlacesFind, PlacesEnd, PlacesRest DEF Next, Step

(* The type invariant of the first pass: foundat never leaves the buffer,  *)
(* the chunk lies in the image, and so does all that is recorded.          *)
THEOREM DigTypeCorrect == Spec => []TypeOK
<1>1. Init => Places
  BY DigInit DEF DigInv, Places
<1>2. Places => TypeOK
  BY DEF Places
<1> QED
  BY <1>1, <1>2, PlacesKept, PTL DEF Spec

-----------------------------------------------------------------------------
(* What has been recorded, and what that says of the headers and footers   *)
(* of the searched part.                                                   *)
Kept == OnlyHeaders /\ HeadersKept /\ LongAscend /\ LastIsLast /\ HeaderSeen /\ FootersKept

(* Nothing is recorded and no chunk read or left.                          *)
LEMMA KeptOutside ==
  ASSUME Kept, UNCHANGED <<image, opt, base, length, headers, footers>>,
         ~InChunk, ~InChunk', pc # "exit"
  PROVE  Kept'
<1>1. \A pattern : Occurrences(pattern)' = Occurrences(pattern)
  BY SameImage
<1>2. \A n \in Needles : /\ HeadersDone(n) /\ FootersDone(n)
                         /\ HeadersDone(n)' /\ FootersDone(n)'
  BY DEF HeadersDone, FootersDone
<1>3. OnlyHeaders'
  BY <1>1 DEF Kept, OnlyHeaders
<1>4. HeadersKept'
  <2>1. \A n \in Needles : \A p : Recorded(n, p)' <=> Recorded(n, p)
    BY DEF Recorded
  <2> QED
    BY <1>1, <1>2, <2>1 DEF Kept, HeadersKept
<1>5. LongAscend'
  BY <1>2 DEF Kept, LongAscend
<1>6. LastIsLast'
  BY <1>2 DEF Kept, LastIsLast, LastHeader
<1>7. HeaderSeen'
  BY DEF HeaderSeen, InChunk
<1>8. FootersKept'
  BY <1>1, <1>2 DEF Kept, FootersKept
<1> QED
  BY <1>3, <1>4, <1>5, <1>6, <1>7, <1>8 DEF Kept

(* Kept depends on the image, the search and what is recorded.              *)
LEMMA KeptStill ==
  ASSUME Kept, UNCHANGED <<image, opt, pc, base, length, needle, at, headers, footers>>
  PROVE  Kept'
<1>1. \A pattern : Occurrences(pattern)' = Occurrences(pattern)
  BY SameImage
<1>2. \A n \in Needles : /\ HeadersDone(n)' <=> HeadersDone(n)
                         /\ FootersDone(n)' <=> FootersDone(n)
                         /\ HeaderAt(n)' = HeaderAt(n) /\ FooterAt(n)' = FooterAt(n)
  BY DEF HeadersDone, FootersDone, InChunk, HeaderAt, FooterAt
<1>3. OnlyHeaders'
  BY <1>1 DEF Kept, OnlyHeaders
<1>4. HeadersKept'
  <2>1. \A n \in Needles : \A p : Recorded(n, p)' <=> Recorded(n, p)
    BY DEF Recorded
  <2> QED
    BY <1>1, <1>2, <2>1 DEF Kept, HeadersKept
<1>5. LongAscend'
  BY <1>2 DEF Kept, LongAscend
<1>6. LastIsLast'
  BY <1>2 DEF Kept, LastIsLast, LastHeader
<1>7. HeaderSeen'
  BY DEF Kept, HeaderSeen
<1>8. FootersKept'
  BY <1>1, <1>2 DEF Kept, FootersKept
<1> QED
  BY <1>3, <1>4, <1>5, <1>6, <1>7, <1>8 DEF Kept

(* The signal handler's exit: what is recorded is right, and nothing more  *)
(* is said.                                                                *)
LEMMA KeptExit ==
  ASSUME Kept, UNCHANGED <<image, opt, headers, footers>>, pc' = "exit",
         base \in Nat, length \in Nat, base' + length' \in Nat, Size \in Nat, opt.skip \in Nat,
         base + length <= base' + length'
  PROVE  Kept'
<1>1. \A pattern : Occurrences(pattern)' = Occurrences(pattern)
  BY SameImage
<1>2. \A n \in Needles : HeadersDone(n)'
  BY DEF HeadersDone, InChunk
<1>3. OnlyHeaders'
  <2>1. ASSUME NEW n \in Needles, NEW h \in Ran(headers[n])
        PROVE  /\ h \in Occurrences(SearchSpec[n].begin)
               /\ h + Len(SearchSpec[n].begin) <= base' + length'
    <3>1. h \in Occurrences(SearchSpec[n].begin)
          /\ h + Len(SearchSpec[n].begin) <= base + length
      BY <2>1 DEF Kept, OnlyHeaders
    <3>2. h \in Nat /\ Len(SearchSpec[n].begin) \in Nat
      BY <3>1, NeedleTypes DEF Occurrences
    <3> QED
      BY <3>1, <3>2
  <2> QED
    BY <1>1, <2>1 DEF OnlyHeaders
<1>4. HeadersKept' /\ LastIsLast' /\ FootersKept'
  BY DEF HeadersKept, LastIsLast, FootersKept
<1>5. LongAscend'
  BY <1>2 DEF Kept, LongAscend
<1>6. HeaderSeen'
  BY DEF HeaderSeen
<1> QED
  BY <1>3, <1>4, <1>5, <1>6 DEF Kept

(* A chunk is read: what begins before it ends in what has been searched,  *)
(* because the overlap is one byte less than the longest needle.           *)
LEMMA OverlapCovers ==
  ASSUME Places, pc = "read", NEW l \in Nat, l > 0, l <= Longest, NEW p \in Nat, p >= opt.skip,
         p < filepos
  PROVE  p + l <= base + length
<1>1. /\ filepos = IF length = 0 THEN opt.skip ELSE base + length - (Longest - 1)
      /\ base \in Nat /\ length \in Nat /\ opt.skip \in Nat
      /\ Longest \in Nat
  BY InputTypes, SpecAssumption, LongestNeedle DEF Places, TypeOK, ChunkLies
<1> QED
  BY <1>1

(* ... and the other way round, what ends in what has been searched and is *)
(* as long as the longest needle begins before the next chunk.             *)
LEMMA LongBefore ==
  ASSUME Places, pc = "read", NEW p \in Nat, p + Longest <= base + length
  PROVE  p < filepos
<1>1. /\ filepos = IF length = 0 THEN opt.skip ELSE base + length - (Longest - 1)
      /\ base \in Nat /\ length \in Nat /\ opt.skip \in Nat
      /\ length = 0 => base = 0
      /\ Longest \in Nat \ {0}
  BY InputTypes, SpecAssumption, LongestNeedle DEF Places, TypeOK, ChunkLies
<1> QED
  BY <1>1

(* A chunk never ends before the one before it.                            *)
LEMMA ChunkAdvances ==
  ASSUME Places, ReadChunk
  PROVE  base + length <= base' + length'
<1>1. /\ filepos = IF length = 0 THEN opt.skip ELSE base + length - (Longest - 1)
      /\ base \in Nat /\ length \in Nat /\ opt.skip \in Nat
      /\ length = 0 => base = 0
      /\ Longest \in Nat \ {0}
  BY InputTypes, SpecAssumption, LongestNeedle DEF Places, TypeOK, ChunkLies, ReadChunk
<1>2. Available \in Nat /\ Available > Longest - 1 /\ base' = filepos /\ length' = Available
  BY AvailableIs DEF Places, ReadChunk
<1> QED
  BY <1>1, <1>2

(* A chunk that has been searched may be left: the overlap keeps the rest.  *)
LEMMA KeptRead == Places /\ Kept /\ ReadChunk => Kept'
<1> SUFFICES ASSUME Places, Kept, ReadChunk PROVE Kept'
  OBVIOUS
<1>0. /\ TypeOK /\ pc = "read" /\ pc # "exit" /\ ~InChunk
      /\ UNCHANGED <<image, opt, headers, footers>>
      /\ base' = filepos /\ at' = 0 /\ needle' = 1
  BY DEF Places, ReadChunk, InChunk
<1>1. /\ base \in Nat /\ length \in Nat /\ Size \in Nat /\ opt.skip \in Nat
      /\ base' \in Nat /\ length' \in Nat
  BY <1>0, InputTypes, PlacesRead, SpecAssumption DEF Places, TypeOK
<1>2. base + length <= base' + length'
  BY ChunkAdvances
<1>3. base' + length' \in Nat /\ base + length \in Nat
  <2>1. base \in Nat /\ length \in Nat
    BY <1>1
  <2>2. base' \in Nat /\ length' \in Nat
    BY <1>1
  <2>3. base + length \in Nat
    BY <2>1
  <2>4. PICK b \in Nat : b = base'
    BY <2>2
  <2>5. PICK l \in Nat : l = length'
    BY <2>2
  <2>6. b + l \in Nat
    OBVIOUS
  <2>7. base' + length' \in Nat
    BY <2>4, <2>5, <2>6
  <2> QED
    BY <2>3, <2>7
<1>5. CASE pc' = "exit"
  BY <1>0, <1>1, <1>2, <1>3, <1>5, KeptExit
<1>4. CASE pc' = "headers"
  <2>1. \A pattern : Occurrences(pattern)' = Occurrences(pattern)
    BY <1>0, SameImage
  <2>2. \A n \in Needles : /\ HeadersDone(n) /\ FootersDone(n)
                           /\ ~HeadersDone(n)' /\ ~FootersDone(n)'
                           /\ HeaderAt(n)' = base' /\ FooterAt(n)' = base'
    BY <1>0, <1>1, <1>4
       DEF HeadersDone, FootersDone, InChunk, HeaderAt, FooterAt, Needles
  <2>3. OnlyHeaders'
    <3>1. ASSUME NEW n \in Needles, NEW h \in Ran(headers[n])
          PROVE  /\ h \in Occurrences(SearchSpec[n].begin)
                 /\ h + Len(SearchSpec[n].begin) <= base' + length'
      <4>1. h \in Occurrences(SearchSpec[n].begin)
            /\ h + Len(SearchSpec[n].begin) <= base + length
        BY <3>1 DEF Kept, OnlyHeaders
      <4>2. h \in Nat /\ Len(SearchSpec[n].begin) \in Nat
        BY <1>1, <4>1, NeedleTypes DEF Occurrences
      <4>3. h + Len(SearchSpec[n].begin) \in Nat
        BY <4>2
      <4> QED
        BY <1>2, <1>3, <4>1, <4>3
    <3> QED
      BY <1>0, <2>1, <3>1 DEF OnlyHeaders
  <2>4. HeadersKept'
    <3>1. \A n \in Needles : \A p : Recorded(n, p)' <=> Recorded(n, p)
      BY <1>0 DEF Recorded
    <3>2. ASSUME NEW n \in Needles, NEW p \in Occurrences(SearchSpec[n].begin), p < base'
          PROVE  Recorded(n, p)
      <4>1. p \in Nat /\ p >= opt.skip
        BY <1>1 DEF Occurrences
      <4>2. Len(SearchSpec[n].begin) \in Nat /\ Len(SearchSpec[n].begin) > 0
            /\ Len(SearchSpec[n].begin) <= Longest
        BY NeedleTypes, LongestNeedle
      <4>3. p + Len(SearchSpec[n].begin) <= base + length
        BY <1>0, <3>2, <4>1, <4>2, OverlapCovers
      <4> QED
        BY <1>0, <2>2, <4>3 DEF Kept, HeadersKept
    <3> QED
      BY <2>1, <2>2, <3>1, <3>2 DEF HeadersKept
  <2>5. LongAscend'
    <3>1. ASSUME NEW n \in Needles, Len(SearchSpec[n].begin) = Longest,
                 NEW h \in Ran(headers[n])
          PROVE  h < base'
      <4>1. h \in Occurrences(SearchSpec[n].begin) /\ h + Longest <= base + length
        BY <3>1 DEF Kept, OnlyHeaders
      <4>2. h \in Nat
        BY <1>1, <4>1 DEF Occurrences
      <4> QED
        BY <1>0, <4>1, <4>2, LongBefore
    <3> QED
      BY <1>0, <2>2, <3>1 DEF Kept, LongAscend
  <2>6. LastIsLast'
    BY <1>0, <2>2 DEF Kept, LastIsLast, LastHeader
  <2>7. HeaderSeen'
    BY <1>0 DEF HeaderSeen
  <2>8. FootersKept'
    <3>1. ASSUME ~opt.noSearchOverlap, NEW n \in Needles, SearchSpec[n].end # <<>>,
                 NEW f \in Occurrences(SearchSpec[n].end), NEW h \in Ran(headers[n]),
                 UsedBy(n, f, h), f < base'
          PROVE  f \in Ran(footers[n])
      <4>1. f \in Nat /\ f >= opt.skip
        BY <1>1 DEF Occurrences
      <4>2. Len(SearchSpec[n].end) \in Nat /\ Len(SearchSpec[n].end) > 0
            /\ Len(SearchSpec[n].end) <= Longest
        BY <3>1, NeedleTypes, LongestNeedle
      <4>3. f + Len(SearchSpec[n].end) <= base + length
        BY <1>0, <3>1, <4>1, <4>2, OverlapCovers
      <4> QED
        BY <1>0, <2>2, <3>1, <4>3 DEF Kept, FootersKept
    <3>2. \A n, f, h : UsedBy(n, f, h)' <=> UsedBy(n, f, h)
      BY DEF UsedBy
    <3> QED
      BY <1>0, <2>1, <2>2, <3>1 DEF FootersKept
  <2> QED
    BY <2>3, <2>4, <2>5, <2>6, <2>7, <2>8 DEF Kept
<1> QED
  BY <1>4, <1>5 DEF ReadChunk

(* What add_header() and add_footer() change.                              *)
LEMMA RanAppend ==
  ASSUME NEW S, NEW s \in Seq(S), NEW e \in S
  PROVE  /\ Ran(Append(s, e)) = Ran(s) \cup {e}
         /\ Append(s, e) # <<>>
         /\ Append(s, e)[Len(Append(s, e))] = e
<1>1. Len(s) \in Nat /\ DOMAIN s = 1..Len(s)
  BY LenProperties
<1> DEFINE t == Append(s, e)
<1>2. /\ t \in Seq(S) /\ t # <<>> /\ Len(t) = Len(s) + 1
      /\ \A i \in 1..Len(s) : t[i] = s[i]
      /\ t[Len(s) + 1] = e
  BY AppendProperties
<1>3. DOMAIN t = 1..(Len(s) + 1)
  BY <1>2, LenProperties
<1> HIDE DEF t
<1>4. Ran(t) = Ran(s) \cup {e}
  <2>1. \A i \in DOMAIN t : i \in DOMAIN s \/ i = Len(s) + 1
    BY <1>1, <1>3
  <2>2. \A i \in DOMAIN s : i \in DOMAIN t
    BY <1>1, <1>3
  <2>3. Len(s) + 1 \in DOMAIN t
    BY <1>1, <1>3
  <2> QED
    BY <1>1, <1>2, <2>1, <2>2, <2>3 DEF Ran
<1> QED
  BY <1>2, <1>4 DEF t

(* The list stays ascending when a later place is added.                   *)
LEMMA AscendsAppend ==
  ASSUME NEW s \in Seq(Nat), NEW e \in Nat, Ascends(s), \A h \in Ran(s) : h < e
  PROVE  Ascends(Append(s, e))
<1>1. Len(s) \in Nat /\ DOMAIN s = 1..Len(s)
  BY LenProperties
<1> DEFINE t == Append(s, e)
<1>2. /\ t \in Seq(Nat) /\ Len(t) = Len(s) + 1
      /\ \A i \in 1..Len(s) : t[i] = s[i]
      /\ t[Len(s) + 1] = e
  BY AppendProperties
<1>3. DOMAIN t = 1..(Len(s) + 1)
  BY <1>2, LenProperties
<1> HIDE DEF t
<1>4. \A i \in 1..Len(s) : s[i] < e
  BY <1>1 DEF Ran
<1>5. ASSUME NEW i \in DOMAIN t, NEW j \in DOMAIN t, i < j
      PROVE  t[i] < t[j]
  <2>1. i \in 1..Len(s)
    BY <1>1, <1>3, <1>5
  <2>2. CASE j = Len(s) + 1
    BY <1>2, <1>4, <2>1, <2>2
  <2>3. CASE j # Len(s) + 1
    <3>1. j \in 1..Len(s)
      BY <1>1, <1>3, <2>3
    <3> QED
      BY <1>1, <1>2, <1>5, <2>1, <3>1 DEF Ascends
  <2> QED
    BY <2>2, <2>3
<1> QED
  BY <1>5 DEF Ascends, t

(* Between the place the search was at and the place it goes on from       *)
(* there is no header but the one found, or one it lies over (-r).         *)
LEMMA NothingBetween ==
  ASSUME Places, InChunk, NEW pattern, Len(pattern) \in Nat, Len(pattern) > 0,
         Matches(pattern) # {}, NEW m, m = First(Matches(pattern)),
         NEW p \in Occurrences(pattern), p >= base + at, p < base + Advance(pattern, m)
  PROVE  IF opt.noSearchOverlap THEN Near(p, base + m, Len(pattern)) ELSE p = base + m
<1>0. TypeOK /\ base \in Nat /\ length \in Nat /\ at \in Nat
  BY SpecAssumption DEF Places, TypeOK
<1>1. /\ m \in Nat /\ at <= m /\ m + Len(pattern) <= length
      /\ Advance(pattern, m) = m + (IF opt.noSearchOverlap THEN Len(pattern) ELSE 1)
  BY FoundPlace
<1>2. p \in Nat
  BY <1>0, InputTypes DEF Occurrences
<1>3. ~(p < base + m)
  <2>1. SUFFICES ASSUME p < base + m PROVE FALSE
    OBVIOUS
  <2>2. p + Len(pattern) <= base + length
    BY <1>0, <1>1, <1>2, <2>1
  <2>3. p - base \in Matches(pattern)
    BY <1>0, <2>2, OccurrenceMatches
  <2>4. m <= p - base
    BY <1>0, <2>3, FirstMatch
  <2> QED
    BY <1>0, <1>1, <1>2, <2>1, <2>4
<1>4. CASE opt.noSearchOverlap
  BY <1>0, <1>1, <1>2, <1>3, <1>4 DEF Near
<1>5. CASE ~opt.noSearchOverlap
  BY <1>0, <1>1, <1>2, <1>3, <1>5
<1> QED
  BY <1>4, <1>5

(* The header found is recorded, or too near to the one before.             *)
LEMMA KeptFindHeader == Places /\ Kept /\ FindHeader => Kept'
<1> SUFFICES ASSUME Places, Kept, FindHeader PROVE Kept'
  OBVIOUS
<1>1. PICK m : m = First(Matches(Begin))
  OBVIOUS
<1>2. PICK k : k = needle
  OBVIOUS
<1>3. /\ TypeOK /\ k \in Needles /\ InChunk /\ pc = "headers" /\ needle = k
      /\ base \in Nat /\ length \in Nat /\ at \in Nat
  BY <1>2, SpecAssumption DEF Places, TypeOK, FindHeader, InChunk
<1>4. /\ headers' = [headers EXCEPT ![k] = Append(@, base + m)]
      /\ at' = Advance(Begin, m)
      /\ UNCHANGED <<image, opt, pc, base, length, needle, footers>>
      /\ Matches(Begin) # {}
  BY <1>1, <1>2 DEF FindHeader
<1>5. /\ Begin = SearchSpec[k].begin /\ Len(Begin) \in Nat /\ Len(Begin) > 0
      /\ Len(Begin) <= Longest
  BY <1>3, NeedleTypes, LongestNeedle DEF Begin
<1>6. /\ m \in Nat /\ at <= m /\ m + Len(Begin) <= length
      /\ base + m \in Occurrences(Begin) /\ base + m \in 0..(Size - 1)
      /\ Advance(Begin, m) = m + (IF opt.noSearchOverlap THEN Len(Begin) ELSE 1)
  BY <1>1, <1>3, <1>4, <1>5, FoundPlace
<1>7. Size \in Nat /\ opt.skip \in Nat /\ opt.noSearchOverlap \in BOOLEAN
  BY <1>3, InputTypes
<1>8. PICK h0 \in Nat : h0 = base + m
  BY <1>3, <1>6
<1>9. \A n \in Needles : headers[n] \in Seq(Nat)
  <2>1. 0..(Size - 1) \subseteq Nat
    BY <1>7
  <2>2. \A n \in Needles : headers[n] \in Seq(0..(Size - 1))
    BY <1>3 DEF TypeOK
  <2> QED
    BY <2>1, <2>2, SeqMonotonic
<1>10. DOMAIN headers = Needles
  BY <1>3 DEF TypeOK
<1>11. /\ headers'[k] = Append(headers[k], h0)
       /\ \A n \in Needles : n # k => headers'[n] = headers[n]
  BY <1>3, <1>4, <1>8, <1>10
<1>12. /\ Ran(headers'[k]) = Ran(headers[k]) \cup {h0}
       /\ headers'[k] # <<>> /\ headers'[k][Len(headers'[k])] = h0
  BY <1>3, <1>8, <1>9, <1>11, RanAppend
<1>13. \A pattern : Occurrences(pattern)' = Occurrences(pattern)
  BY <1>4, SameImage
<1>14. \A n \in Needles : /\ HeadersDone(n)' <=> HeadersDone(n)
                          /\ FootersDone(n)' <=> FootersDone(n)
                          /\ FooterAt(n)' = FooterAt(n)
                          /\ n # k => HeaderAt(n)' = HeaderAt(n)
  BY <1>3, <1>4 DEF HeadersDone, FootersDone, InChunk, FooterAt, HeaderAt
<1>15. /\ ~HeadersDone(k) /\ ~FootersDone(k)
       /\ HeaderAt(k) = base + at /\ HeaderAt(k)' = base + at' /\ FooterAt(k) = base
  <2>1. k \in Nat
    BY <1>3, NeedleTypes DEF Needles
  <2> QED
    BY <1>3, <1>4, <2>1 DEF HeadersDone, FootersDone, InChunk, HeaderAt, FooterAt
<1>16. PICK a \in Nat : a = at' /\ a > m
  BY <1>4, <1>5, <1>6, <1>7
<1>17. OnlyHeaders'
  <2>1. h0 \in Occurrences(Begin) /\ h0 + Len(Begin) <= base + length
    <3>1. PICK l \in Nat : l = Len(Begin)
      BY <1>5
    <3>2. base + m + l <= base + length
      BY <1>3, <1>6, <3>1
    <3> QED
      BY <1>6, <1>8, <3>1, <3>2
  <2>2. ASSUME NEW n \in Needles, NEW h \in Ran(headers'[n])
        PROVE  /\ h \in Occurrences(SearchSpec[n].begin)
               /\ h + Len(SearchSpec[n].begin) <= base + length
    <3>1. CASE h \in Ran(headers[n])
      BY <3>1 DEF Kept, OnlyHeaders
    <3>2. CASE h \notin Ran(headers[n])
      <4>1. n = k /\ h = h0
        BY <1>11, <1>12, <2>2, <3>2
      <4> QED
        BY <1>5, <2>1, <4>1
    <3> QED
      BY <3>1, <3>2
  <2> QED
    BY <1>4, <1>13, <2>2 DEF OnlyHeaders
<1>18. HeadersKept'
  <2>1. \A n \in Needles : \A p : Recorded(n, p) => Recorded(n, p)'
    <3>1. \A n \in Needles : Ran(headers[n]) \subseteq Ran(headers'[n])
      BY <1>11, <1>12
    <3> QED
      BY <1>4, <3>1 DEF Recorded
  <2>2. ASSUME NEW n \in Needles, n # k, NEW p \in Occurrences(SearchSpec[n].begin),
               IF HeadersDone(n)' THEN p + Len(SearchSpec[n].begin) <= base' + length'
                                  ELSE p < HeaderAt(n)'
        PROVE  Recorded(n, p)'
    <3>1. Recorded(n, p)
      BY <1>3, <1>4, <1>14, <2>2 DEF Kept, HeadersKept
    <3> QED
      BY <2>1, <3>1
  <2>3. ASSUME NEW p \in Occurrences(Begin), p < base + at'
        PROVE  Recorded(k, p)'
    <3>1. p \in Nat
      BY <1>7 DEF Occurrences
    <3>2. CASE p < base + at
      <4>1. Recorded(k, p)
        BY <1>3, <1>5, <1>15, <3>2 DEF Kept, HeadersKept
      <4> QED
        BY <1>3, <2>1, <4>1
    <3>3. CASE p >= base + at
      <4>1. IF opt.noSearchOverlap THEN Near(p, base + m, Len(Begin)) ELSE p = base + m
        BY <1>1, <1>3, <1>4, <1>5, <2>3, <3>3, NothingBetween
      <4>2. h0 \in Ran(headers'[k])
        BY <1>12
      <4>3. IF opt.noSearchOverlap
              THEN \E h \in Ran(headers'[k]) : Near(p, h, Len(SearchSpec[k].begin))
              ELSE p \in Ran(headers'[k])
        BY <1>5, <1>8, <4>1, <4>2
      <4> QED
        BY <1>4, <4>3 DEF Recorded
    <3> QED
      BY <1>3, <3>1, <3>2, <3>3
  <2> QED
    BY <1>5, <1>13, <1>14, <1>15, <2>2, <2>3 DEF HeadersKept
<1>19. LongAscend'
  <2>1. ASSUME Len(SearchSpec[k].begin) = Longest
        PROVE  /\ Ascends(headers'[k])
               /\ \A h \in Ran(headers'[k]) : h < base + at'
    <3>1. /\ Ascends(headers[k])
          /\ \A h \in Ran(headers[k]) : h < base + at
      BY <1>3, <1>15, <2>1 DEF Kept, LongAscend
    <3>2. Ran(headers[k]) \subseteq Nat
      <4>1. headers[k] \in Seq(Nat)
        BY <1>3, <1>9
      <4>2. DOMAIN headers[k] = 1..Len(headers[k])
        BY <4>1, LenProperties
      <4> QED
        BY <4>1, <4>2, ElementOfSeq DEF Ran
    <3>3. \A h \in Ran(headers[k]) : h < h0
      BY <1>3, <1>6, <1>8, <3>1, <3>2
    <3>4. Ascends(headers'[k])
      BY <1>3, <1>8, <1>9, <1>11, <3>1, <3>3, AscendsAppend
    <3>5. h0 < base + a
      <4>1. m \in Nat /\ base \in Nat /\ a > m
        BY <1>3, <1>6, <1>16
      <4> QED
        BY <1>8, <4>1
    <3>6. \A h \in Ran(headers[k]) : h < base + a
      BY <1>3, <1>8, <1>16, <3>2, <3>3, <3>5
    <3> QED
      BY <1>12, <1>16, <3>4, <3>5, <3>6
  <2>2. ASSUME NEW n \in Needles, n # k, Len(SearchSpec[n].begin) = Longest
        PROVE  /\ Ascends(headers'[n])
               /\ ~HeadersDone(n)' => \A h \in Ran(headers'[n]) : h < HeaderAt(n)'
    BY <1>11, <1>14, <2>2 DEF Kept, LongAscend
  <2> QED
    BY <1>15, <2>1, <2>2 DEF LongAscend
<1>20. LastIsLast'
  <2>1. ASSUME ~opt.noSearchOverlap
        PROVE  LastHeader(k)' = base + at' - 1
    <3>1. at' = m + 1
      BY <1>4, <1>6, <2>1
    <3>2. base + at' - 1 = h0
      BY <1>3, <1>6, <1>8, <3>1
    <3> QED
      BY <1>12, <3>2 DEF LastHeader
  <2>2. ASSUME ~opt.noSearchOverlap, NEW n \in Needles, n # k, headers'[n] # <<>>
        PROVE  \A h \in Ran(headers'[n]) : h <= LastHeader(n)'
    BY <1>3, <1>11, <2>2 DEF Kept, LastIsLast, LastHeader
  <2>3. ~HeadersDone(k)' /\ at' # 0 /\ needle' = k
    <3>1. a # 0
      BY <1>6, <1>16
    <3> QED
      BY <1>3, <1>4, <1>14, <1>15, <1>16, <3>1
  <2>4. \A n \in Needles : n # k => n # needle'
    BY <2>3
  <2> QED
    BY <1>4, <2>1, <2>2, <2>3, <2>4 DEF LastIsLast
<1>21. HeaderSeen'
  BY <1>3, <1>4, <1>12 DEF HeaderSeen
<1>22. FootersKept'
  <2>1. ASSUME ~opt.noSearchOverlap, NEW n \in Needles, SearchSpec[n].end # <<>>,
               NEW f \in Occurrences(SearchSpec[n].end), NEW h \in Ran(headers'[n]),
               UsedBy(n, f, h),
               IF FootersDone(n) THEN f + Len(SearchSpec[n].end) <= base + length
                                 ELSE f < FooterAt(n)
        PROVE  f \in Ran(footers[n])
    <3>1. CASE h \in Ran(headers[n])
      BY <1>3, <2>1, <3>1 DEF Kept, FootersKept
    <3>2. CASE h \notin Ran(headers[n])
      <4>1. n = k /\ h = h0
        BY <1>11, <1>12, <2>1, <3>2
      <4>2. f < base /\ f > h0 /\ f \in Nat
        BY <1>7, <1>15, <2>1, <4>1 DEF UsedBy, Occurrences
      <4> QED
        BY <1>3, <1>6, <1>8, <4>2
    <3> QED
      BY <3>1, <3>2
  <2>2. \A n, f, h : UsedBy(n, f, h)' <=> UsedBy(n, f, h)
    BY DEF UsedBy
  <2> QED
    BY <1>4, <1>13, <1>14, <2>1, <2>2 DEF FootersKept
<1> QED
  BY <1>17, <1>18, <1>19, <1>20, <1>21, <1>22 DEF Kept

(* The header lists are the same, the headers of the type have been        *)
(* searched for and its footers not yet.                                   *)
LEMMA KeptFindFooter == Places /\ Kept /\ FindFooter => Kept'
<1> SUFFICES ASSUME Places, Kept, FindFooter PROVE Kept'
  OBVIOUS
<1>1. PICK m : m = First(Matches(End))
  OBVIOUS
<1>2. PICK k : k = needle
  OBVIOUS
<1>3. /\ TypeOK /\ ChunkLies /\ k \in Needles /\ InChunk /\ pc = "footers" /\ needle = k
      /\ base \in Nat /\ length \in Nat /\ at \in Nat
  BY <1>2, SpecAssumption DEF Places, TypeOK, FindFooter, InChunk
<1>4. /\ footers' = [footers EXCEPT ![k] = Append(@, base + m)]
      /\ at' = Advance(End, m)
      /\ UNCHANGED <<image, opt, pc, base, length, needle, headers>>
      /\ Matches(End) # {}
  BY <1>1, <1>2 DEF FindFooter
<1>5. /\ End = SearchSpec[k].end /\ Len(End) \in Nat /\ Len(End) > 0
  BY <1>3, NeedleTypes DEF End, ChunkLies
<1>6. /\ m \in Nat /\ base + m \in 0..(Size - 1)
  BY <1>1, <1>3, <1>4, <1>5, FoundPlace
<1>7. Size \in Nat /\ opt.skip \in Nat /\ opt.noSearchOverlap \in BOOLEAN
  BY <1>3, InputTypes
<1>8. PICK f0 \in 0..(Size - 1) : f0 = base + m
  BY <1>3, <1>6
<1>9. /\ footers'[k] = Append(footers[k], f0)
      /\ \A n \in Needles : n # k => footers'[n] = footers[n]
  BY <1>3, <1>4, <1>8 DEF TypeOK
<1>10. Ran(footers'[k]) = Ran(footers[k]) \cup {f0}
  <2>1. PICK T : T = 0..(Size - 1)
    OBVIOUS
  <2>2. footers[k] \in Seq(T) /\ f0 \in T
    BY <1>3, <2>1 DEF TypeOK
  <2>3. Ran(Append(footers[k], f0)) = Ran(footers[k]) \cup {f0}
    BY <2>2, RanAppend
  <2> QED
    BY <1>9, <2>3
<1>11. \A pattern : Occurrences(pattern)' = Occurrences(pattern)
  BY <1>4, SameImage
<1>12. k \in Nat
  BY <1>3, NeedleTypes DEF Needles
<1>13. \A n \in Needles : /\ HeadersDone(n)' <=> HeadersDone(n)
                          /\ FootersDone(n)' <=> FootersDone(n)
                          /\ n # k => FooterAt(n)' = FooterAt(n) /\ HeaderAt(n)' = HeaderAt(n)
  BY <1>3, <1>4 DEF HeadersDone, FootersDone, InChunk, FooterAt, HeaderAt
<1>14. /\ HeadersDone(k) /\ ~FootersDone(k)
       /\ FooterAt(k) = base + at /\ FooterAt(k)' = base + at'
  BY <1>3, <1>4, <1>12 DEF HeadersDone, FootersDone, InChunk, FooterAt
<1>15. OnlyHeaders'
  BY <1>4, <1>11 DEF Kept, OnlyHeaders
<1>16. HeadersKept'
  <2>1. \A n \in Needles : \A p : Recorded(n, p)' <=> Recorded(n, p)
    BY <1>4 DEF Recorded
  <2> QED
    BY <1>3, <1>4, <1>11, <1>13, <1>14, <2>1 DEF Kept, HeadersKept
<1>17. LongAscend'
  BY <1>4, <1>13, <1>14 DEF Kept, LongAscend
<1>18. LastIsLast'
  BY <1>3, <1>4, <1>13, <1>14 DEF Kept, LastIsLast, LastHeader
<1>19. HeaderSeen'
  BY <1>3, <1>4 DEF HeaderSeen
<1>20. FootersKept'
  <2>1. ASSUME ~opt.noSearchOverlap, NEW n \in Needles, n # k, SearchSpec[n].end # <<>>,
               NEW f \in Occurrences(SearchSpec[n].end), NEW h \in Ran(headers[n]),
               UsedBy(n, f, h),
               IF FootersDone(n) THEN f + Len(SearchSpec[n].end) <= base + length
                                 ELSE f < FooterAt(n)
        PROVE  f \in Ran(footers'[n])
    BY <1>3, <1>9, <2>1 DEF Kept, FootersKept
  <2>2. ASSUME ~opt.noSearchOverlap, NEW f \in Occurrences(End), NEW h \in Ran(headers[k]),
               UsedBy(k, f, h), f < base + at'
        PROVE  f \in Ran(footers'[k])
    <3>1. f \in Nat
      BY <1>7 DEF Occurrences
    <3>2. CASE f < base + at
      <4>1. SearchSpec[k].end # <<>>
        BY <1>3, <1>5 DEF ChunkLies
      <4>2. f \in Ran(footers[k])
        BY <1>3, <1>5, <1>14, <2>2, <3>2, <4>1 DEF Kept, FootersKept
      <4> QED
        BY <1>10, <4>2
    <3>3. CASE f >= base + at
      <4>1. f = base + m
        BY <1>1, <1>3, <1>4, <1>5, <2>2, <3>3, NothingBetween
      <4> QED
        BY <1>8, <1>10, <4>1
    <3> QED
      BY <1>3, <3>1, <3>2, <3>3
  <2>3. \A n, f, h : UsedBy(n, f, h)' <=> UsedBy(n, f, h)
    BY DEF UsedBy
  <2>4. ASSUME ~opt.noSearchOverlap, NEW n \in Needles, SearchSpec[n].end # <<>>,
               NEW f \in Occurrences(SearchSpec[n].end), NEW h \in Ran(headers[n]),
               UsedBy(n, f, h),
               IF FootersDone(n)' THEN f + Len(SearchSpec[n].end) <= base' + length'
                                  ELSE f < FooterAt(n)'
        PROVE  f \in Ran(footers'[n])
    <3>1. CASE n = k
      BY <1>5, <1>13, <1>14, <2>2, <2>4, <3>1
    <3>2. CASE n # k
      BY <1>4, <1>13, <2>1, <2>4, <3>2
    <3> QED
      BY <3>1, <3>2
  <2> QED
    BY <1>4, <1>11, <2>3, <2>4 DEF FootersKept
<1> QED
  BY <1>15, <1>16, <1>17, <1>18, <1>19, <1>20 DEF Kept

-----------------------------------------------------------------------------
(* The headers, and the footers, of a type have been searched for in the   *)
(* whole chunk.                                                            *)
AllHeaders(n) ==
  /\ \A p \in Occurrences(SearchSpec[n].begin) :
       p + Len(SearchSpec[n].begin) <= base + length => Recorded(n, p)
  /\ ~opt.noSearchOverlap /\ headers[n] # <<>> =>
       \A h \in Ran(headers[n]) : h <= LastHeader(n)

AllFooters(n) ==
  ~opt.noSearchOverlap /\ SearchSpec[n].end # <<>> =>
    \A f \in Occurrences(SearchSpec[n].end) : \A h \in Ran(headers[n]) :
      UsedBy(n, f, h) /\ f + Len(SearchSpec[n].end) <= base + length
      => f \in Ran(footers[n])

(* The next search begins at the beginning of the chunk.                   *)
LEMMA KeptTurn ==
  ASSUME Places, Kept, InChunk, NEW k, k = needle, AllHeaders(k), at' = 0,
         UNCHANGED <<image, opt, base, length, headers, footers>>,
         \/ pc = "headers" /\ pc' = "footers" /\ needle' = k
         \/ NextNeedle /\ AllFooters(k)
  PROVE  Kept'
<1>1. /\ TypeOK /\ k \in Needles /\ k \in Nat /\ Len(SearchSpec) \in Nat
      /\ base \in Nat /\ length \in Nat
  BY NeedleTypes, SpecAssumption DEF Places, TypeOK, Needles
<1>2. \A n \in Needles : n \in Nat /\ n <= Len(SearchSpec)
  BY <1>1 DEF Needles
<1>3. \A n \in Needles : HeadersDone(n)' <=> n <= k
  <2>1. CASE pc' = "footers" /\ needle' = k
    BY <1>1, <1>2, <2>1 DEF HeadersDone, InChunk
  <2>2. CASE NextNeedle
    <3>1. CASE needle < Len(SearchSpec)
      BY <1>1, <1>2, <2>2, <3>1 DEF HeadersDone, InChunk, NextNeedle
    <3>2. CASE ~(needle < Len(SearchSpec))
      BY <1>1, <1>2, <2>2, <3>2 DEF HeadersDone, InChunk, NextNeedle
    <3> QED
      BY <3>1, <3>2
  <2> QED
    BY <2>1, <2>2
<1>4. \A n \in Needles : FootersDone(n)' => n <= k /\ (n = k => AllFooters(k))
  <2>1. CASE pc' = "footers" /\ needle' = k
    BY <1>1, <1>2, <2>1 DEF FootersDone, InChunk
  <2>2. CASE NextNeedle /\ AllFooters(k)
    <3>1. CASE needle < Len(SearchSpec)
      BY <1>1, <1>2, <2>2, <3>1 DEF FootersDone, InChunk, NextNeedle
    <3>2. CASE ~(needle < Len(SearchSpec))
      BY <1>1, <1>2, <2>2, <3>2 DEF FootersDone, InChunk, NextNeedle
    <3> QED
      BY <3>1, <3>2
  <2> QED
    BY <2>1, <2>2
<1>5. \A n \in Needles : ~(FootersDone(n)') =>
        n > k \/ (n = k /\ pc = "headers")
  <2>1. CASE pc = "headers" /\ pc' = "footers" /\ needle' = k
    BY <1>1, <1>2, <2>1 DEF FootersDone, InChunk
  <2>2. CASE NextNeedle /\ AllFooters(k)
    <3>1. CASE needle < Len(SearchSpec)
      BY <1>1, <1>2, <2>2, <3>1 DEF FootersDone, InChunk, NextNeedle
    <3>2. CASE ~(needle < Len(SearchSpec))
      BY <1>1, <1>2, <2>2, <3>2 DEF FootersDone, InChunk, NextNeedle
    <3> QED
      BY <3>1, <3>2
  <2> QED
    BY <2>1, <2>2
<1>6. \A n \in Needles : HeaderAt(n)' = base /\ FooterAt(n)' = base
  BY <1>1 DEF HeaderAt, FooterAt
<1>7. \A n \in Needles : n # k => HeaderAt(n) = base /\ FooterAt(n) = base
  BY <1>1 DEF HeaderAt, FooterAt
<1>8. \A n \in Needles : /\ n < k => HeadersDone(n) /\ FootersDone(n)
                         /\ n > k => ~HeadersDone(n) /\ ~FootersDone(n)
  BY <1>1, <1>2 DEF HeadersDone, FootersDone
<1>9. \A pattern : Occurrences(pattern)' = Occurrences(pattern)
  BY SameImage
<1>10. pc # "exit"
  BY DEF InChunk
<1>11. OnlyHeaders'
  BY <1>9 DEF Kept, OnlyHeaders
<1>12. HeadersKept'
  <2>1. \A n \in Needles : \A p : Recorded(n, p)' <=> Recorded(n, p)
    BY DEF Recorded
  <2>2. ASSUME NEW n \in Needles, NEW p \in Occurrences(SearchSpec[n].begin),
               IF n <= k THEN p + Len(SearchSpec[n].begin) <= base + length ELSE p < base
        PROVE  Recorded(n, p)
    <3>1. CASE n < k
      BY <1>1, <1>2, <1>8, <1>10, <2>2, <3>1 DEF Kept, HeadersKept
    <3>2. CASE n = k
      BY <1>1, <2>2, <3>2 DEF AllHeaders
    <3>3. CASE n > k
      <4>1. ~(n <= k) /\ n # k
        BY <1>1, <1>2, <3>3
      <4> QED
        BY <1>7, <1>8, <1>10, <2>2, <3>3, <4>1 DEF Kept, HeadersKept
    <3> QED
      BY <1>1, <1>2, <3>1, <3>2, <3>3
  <2> QED
    BY <1>3, <1>6, <1>9, <2>1, <2>2 DEF HeadersKept
<1>13. LongAscend'
  <2>1. ASSUME NEW n \in Needles, ~(n <= k) PROVE n > k /\ n # k
    BY <1>1, <1>2, <2>1
  <2> QED
    BY <1>3, <1>6, <1>7, <1>8, <2>1 DEF Kept, LongAscend
<1>14. LastIsLast'
  <2>1. ASSUME ~opt.noSearchOverlap, NEW n \in Needles, headers[n] # <<>>
        PROVE  \A h \in Ran(headers[n]) : h <= LastHeader(n)
    <3>1. CASE n = k
      BY <2>1, <3>1 DEF AllHeaders
    <3>2. CASE n # k
      BY <1>10, <2>1, <3>2 DEF Kept, LastIsLast
    <3> QED
      BY <3>1, <3>2
  <2>2. \A n \in Needles : LastHeader(n)' = LastHeader(n)
    BY DEF LastHeader
  <2> QED
    BY <2>1, <2>2 DEF LastIsLast
<1>15. HeaderSeen'
  BY DEF HeaderSeen
<1>16. FootersKept'
  <2>1. ASSUME ~opt.noSearchOverlap, NEW n \in Needles, SearchSpec[n].end # <<>>,
               NEW f \in Occurrences(SearchSpec[n].end), NEW h \in Ran(headers[n]),
               UsedBy(n, f, h),
               IF FootersDone(n)' THEN f + Len(SearchSpec[n].end) <= base + length
                                  ELSE f < base
        PROVE  f \in Ran(footers[n])
    <3>1. CASE n < k
      <4>1. FootersDone(n) /\ FootersDone(n)'
        <5>1. ~(n > k) /\ n # k
          BY <1>1, <1>2, <3>1
        <5> QED
          BY <1>5, <1>8, <3>1, <5>1
      <4> QED
        BY <1>10, <2>1, <4>1 DEF Kept, FootersKept
    <3>2. CASE n > k
      <4>1. ~(n <= k) /\ n # k
        BY <1>1, <1>2, <3>2
      <4>2. ~FootersDone(n) /\ ~(FootersDone(n)')
        BY <1>4, <1>8, <3>2, <4>1
      <4> QED
        BY <1>7, <1>10, <2>1, <4>1, <4>2 DEF Kept, FootersKept
    <3>3. CASE n = k /\ FootersDone(n)'
      BY <1>4, <2>1, <3>3 DEF AllFooters
    <3>4. CASE n = k /\ ~(FootersDone(n)')
      <4>1. pc = "headers"
        BY <1>1, <1>2, <1>5, <3>4
      <4>2. ~FootersDone(n) /\ FooterAt(n) = base
        BY <1>1, <3>4, <4>1 DEF FootersDone, InChunk, FooterAt
      <4> QED
        BY <1>10, <2>1, <3>4, <4>2 DEF Kept, FootersKept
    <3> QED
      BY <1>1, <1>2, <3>1, <3>2, <3>3, <3>4
  <2>2. \A n, f, h : UsedBy(n, f, h)' <=> UsedBy(n, f, h)
    BY DEF UsedBy
  <2> QED
    BY <1>6, <1>9, <2>1, <2>2 DEF FootersKept
<1> QED
  BY <1>11, <1>12, <1>13, <1>14, <1>15, <1>16 DEF Kept

(* The header loop ends when no header is left in the chunk.               *)
LEMMA HeadersWhole ==
  ASSUME Places, Kept, pc = "headers", Matches(Begin) = {}, NEW k, k = needle
  PROVE  AllHeaders(k)
<1>1. /\ TypeOK /\ k \in Needles /\ InChunk /\ pc # "exit"
      /\ base \in Nat /\ length \in Nat /\ at \in Nat
  BY SpecAssumption DEF Places, TypeOK, InChunk
<1>2. /\ Begin = SearchSpec[k].begin /\ Len(Begin) \in Nat /\ Len(Begin) > 0
  BY <1>1, NeedleTypes DEF Begin
<1>3. k \in Nat /\ Size \in Nat /\ opt.skip \in Nat
  BY <1>1, InputTypes, NeedleTypes DEF Needles
<1>4. ~HeadersDone(k) /\ HeaderAt(k) = base + at
  BY <1>1, <1>3 DEF HeadersDone, HeaderAt
<1>5. ASSUME NEW p \in Occurrences(Begin), p + Len(Begin) <= base + length
      PROVE  p \in Nat /\ p < base + at
  <2>1. p \in Nat
    BY <1>3 DEF Occurrences
  <2>2. ~(p >= base + at)
    BY <1>1, <1>2, <1>5, OccurrenceMatches
  <2> QED
    BY <1>1, <2>1, <2>2
<1>6. ASSUME NEW p \in Occurrences(Begin), p + Len(Begin) <= base + length
      PROVE  Recorded(k, p)
  <2>1. p < base + at
    BY <1>5, <1>6
  <2> QED
    BY <1>1, <1>2, <1>4, <1>6, <2>1 DEF Kept, HeadersKept
<1>7. ASSUME ~opt.noSearchOverlap, headers[k] # <<>>, NEW h \in Ran(headers[k])
      PROVE  h <= LastHeader(k)
  <2>1. CASE at = 0
    BY <1>1, <1>7, <2>1 DEF Kept, LastIsLast
  <2>2. CASE at # 0
    <3>1. LastHeader(k) = base + at - 1
      BY <1>1, <1>4, <1>7, <2>2 DEF Kept, LastIsLast
    <3>2. h \in Occurrences(Begin) /\ h + Len(Begin) <= base + length
      BY <1>1, <1>2, <1>7 DEF Kept, OnlyHeaders
    <3>3. h \in Nat /\ h < base + at
      BY <1>5, <3>2
    <3> QED
      BY <1>1, <3>1, <3>3
  <2> QED
    BY <2>1, <2>2
<1> QED
  BY <1>2, <1>6, <1>7 DEF AllHeaders

(* Where a footer search is not worth it, no footer of the chunk is near   *)
(* enough to a header.                                                     *)
LEMMA NotViable ==
  ASSUME Places, Kept, pc = "headers", NEW k, k = needle, AllHeaders(k),
         ~Viable(k, headers[k])
  PROVE  AllFooters(k)
<1>1. /\ TypeOK /\ k \in Needles /\ InChunk /\ pc # "exit"
      /\ base \in Nat /\ length \in Nat /\ at \in Nat
  BY SpecAssumption DEF Places, TypeOK, InChunk
<1>2. k \in Nat /\ Size \in Nat /\ opt.skip \in Nat /\ opt.database \in BOOLEAN
  BY <1>1, InputTypes, NeedleTypes DEF Needles
<1>3. SUFFICES ASSUME ~opt.noSearchOverlap, SearchSpec[k].end # <<>>,
                      NEW f \in Occurrences(SearchSpec[k].end), NEW h \in Ran(headers[k]),
                      UsedBy(k, f, h)
               PROVE  f \in Ran(footers[k])
  BY DEF AllFooters
<1>4. ~FootersDone(k) /\ FooterAt(k) = base
  BY <1>1, <1>2 DEF FootersDone, InChunk, FooterAt
<1>5. CASE f < base
  BY <1>1, <1>3, <1>4, <1>5 DEF Kept, FootersKept
<1>6. CASE f >= base
  <2>1. headers[k] # <<>>
    BY <1>3 DEF Ran
  <2>2. PICK last : last = LastHeader(k)
    OBVIOUS
  <2>3. h <= last
    BY <1>3, <2>1, <2>2 DEF AllHeaders
  <2>4. ~(last > base \/ base - last < SearchSpec[k].length)
    BY <1>3, <2>1, <2>2 DEF Viable, LastHeader
  <2>5. last \in Nat
    <3>1. headers[k] \in Seq(0..(Size - 1))
      BY <1>1 DEF TypeOK
    <3>2. Len(headers[k]) \in 1..Len(headers[k])
      BY <2>1, <3>1, LenProperties, EmptySeq
    <3>3. headers[k][Len(headers[k])] \in 0..(Size - 1)
      BY <3>1, <3>2, ElementOfSeq
    <3> QED
      BY <1>2, <2>2, <3>3 DEF LastHeader
  <2>6. f \in Nat /\ h \in Nat
    <3>1. h \in Occurrences(SearchSpec[k].begin)
      BY <1>1, <1>3 DEF Kept, OnlyHeaders
    <3> QED
      BY <1>2, <1>3, <3>1 DEF Occurrences
  <2>7. PICK l \in Nat : l = Len(SearchSpec[k].end) /\ l > 0
    BY <1>1, <1>3, NeedleTypes
  <2>8. PICK s \in Nat : s = SearchSpec[k].length
    BY <1>1, NeedleTypes
  <2>9. f + l - h <= s
    BY <1>3, <2>7, <2>8 DEF UsedBy
  <2>10. last <= base /\ base - last >= s
    BY <1>1, <2>4, <2>5, <2>8
  <2>11. FALSE
    BY <1>1, <1>6, <2>3, <2>5, <2>6, <2>7, <2>9, <2>10
  <2> QED
    BY <2>11
<1> QED
  <2>1. f \in Nat
    BY <1>2, <1>3 DEF Occurrences
  <2> QED
    BY <1>1, <1>5, <1>6, <2>1

(* When the search finds nothing more, the chunk is done for the type.      *)
LEMMA KeptNoMoreHeaders == Places /\ Kept /\ NoMoreHeaders => Kept'
<1> SUFFICES ASSUME Places, Kept, NoMoreHeaders PROVE Kept'
  OBVIOUS
<1>1. PICK k : k = needle
  OBVIOUS
<1>2. /\ pc = "headers" /\ InChunk /\ Matches(Begin) = {} /\ at' = 0
      /\ UNCHANGED <<image, opt, base, length, headers, footers>>
  BY DEF NoMoreHeaders, InChunk
<1>3. AllHeaders(k)
  BY <1>1, <1>2, HeadersWhole
<1>4. CASE Viable(k, headers[k])
  <2>1. pc' = "footers" /\ needle' = k
    BY <1>1, <1>4 DEF NoMoreHeaders
  <2> QED
    BY <1>1, <1>2, <1>3, <2>1, KeptTurn
<1>5. CASE ~Viable(k, headers[k])
  <2>1. NextNeedle
    BY <1>1, <1>5 DEF NoMoreHeaders
  <2>2. AllFooters(k)
    BY <1>1, <1>2, <1>3, <1>5, NotViable
  <2> QED
    BY <1>1, <1>2, <1>3, <2>1, <2>2, KeptTurn
<1> QED
  BY <1>4, <1>5

(* The same for the footers.                                                *)
LEMMA KeptNoMoreFooters == Places /\ Kept /\ NoMoreFooters => Kept'
<1> SUFFICES ASSUME Places, Kept, NoMoreFooters PROVE Kept'
  OBVIOUS
<1>1. PICK k : k = needle
  OBVIOUS
<1>2. /\ pc = "footers" /\ InChunk /\ Matches(End) = {} /\ at' = 0 /\ NextNeedle
      /\ UNCHANGED <<image, opt, base, length, headers, footers>> /\ pc # "exit"
  BY DEF NoMoreFooters, InChunk
<1>3. /\ TypeOK /\ k \in Needles
      /\ base \in Nat /\ length \in Nat /\ at \in Nat
  BY <1>1, SpecAssumption DEF Places, TypeOK
<1>4. k \in Nat /\ Size \in Nat /\ opt.skip \in Nat
  BY <1>3, InputTypes, NeedleTypes DEF Needles
<1>5. /\ HeadersDone(k) /\ ~FootersDone(k) /\ FooterAt(k) = base + at
  BY <1>1, <1>2, <1>4 DEF HeadersDone, FootersDone, FooterAt
<1>6. AllHeaders(k)
  BY <1>2, <1>3, <1>5 DEF AllHeaders, Kept, HeadersKept, LastIsLast
<1>7. End = SearchSpec[k].end /\ Len(End) \in Nat
  BY <1>1, <1>3, NeedleTypes DEF End
<1>8. AllFooters(k)
  <2>1. SUFFICES ASSUME ~opt.noSearchOverlap, SearchSpec[k].end # <<>>,
                        NEW f \in Occurrences(End), NEW h \in Ran(headers[k]),
                        UsedBy(k, f, h), f + Len(End) <= base + length
                 PROVE  f \in Ran(footers[k])
    BY <1>7 DEF AllFooters
  <2>2. f \in Nat
    BY <1>4 DEF Occurrences
  <2>3. ~(f >= base + at)
    BY <1>2, <1>3, <1>7, <2>1, OccurrenceMatches
  <2>4. f < base + at
    BY <1>3, <2>2, <2>3
  <2> QED
    BY <1>2, <1>3, <1>5, <1>7, <2>1, <2>4 DEF Kept, FootersKept
<1> QED
  BY <1>1, <1>2, <1>6, <1>8, KeptTurn

(* Signals and the end of the program leave what is recorded.               *)
LEMMA KeptRest ==
  Places /\ Kept /\ (SignalExit \/ CatchSignal \/ Halted \/ UNCHANGED vars) => Kept'
<1> SUFFICES ASSUME Places, Kept, SignalExit \/ CatchSignal \/ Halted \/ UNCHANGED vars
             PROVE  Kept'
  OBVIOUS
<1>1. UNCHANGED <<image, opt, base, length, needle, at, headers, footers>>
  BY DEF SignalExit, CatchSignal, Halted, vars
<1>2. CASE UNCHANGED pc
  BY <1>1, <1>2, KeptStill
<1>3. CASE pc' = "exit"
  <2>1. base \in Nat /\ length \in Nat /\ Size \in Nat /\ opt.skip \in Nat
    BY InputTypes, SpecAssumption DEF Places, TypeOK
  <2>2. base' + length' \in Nat /\ base + length <= base' + length'
    BY <1>1, <2>1
  <2> QED
    BY <1>1, <1>3, <2>1, <2>2, KeptExit
<1> QED
  BY <1>2, <1>3 DEF SignalExit, CatchSignal, Halted, vars

(* So do the steps outside the search.                                      *)
LEMMA KeptOutsideSteps ==
  Places /\ Kept /\ (OpenImage \/ OpenFails \/ LastRead \/ ReadFails) => Kept'
<1> SUFFICES ASSUME Places, Kept, OpenImage \/ OpenFails \/ LastRead \/ ReadFails
             PROVE  Kept'
  OBVIOUS
<1>1. /\ UNCHANGED <<image, opt, base, length, headers, footers>>
      /\ pc \in {"open", "read"} /\ pc' \in {"read", "FILE_OPEN", "FILE_READ", "done"}
  BY DEF OpenImage, OpenFails, LastRead, ReadFails
<1>2. ~InChunk /\ ~InChunk' /\ pc # "exit"
  BY <1>1 DEF InChunk
<1> QED
  BY <1>1, <1>2, KeptOutside

(* DigInv is inductive.                                                    *)
LEMMA DigInvKept == DigInv /\ [Next]_vars => DigInv'
<1>1. DigInv <=> Places /\ Kept
  BY DEF DigInv, Places, Kept
<1>2. Places /\ Kept /\ [Next]_vars => Kept'
  BY KeptOutsideSteps, KeptRead, KeptFindHeader, KeptNoMoreHeaders, KeptFindFooter,
     KeptNoMoreFooters, KeptRest DEF Next, Step
<1>3. DigInv' <=> Places' /\ Kept'
  BY DEF DigInv, Places, Kept
<1> QED
  BY <1>1, <1>2, <1>3, PlacesKept

(* The inductive invariant holds in every state.                            *)
LEMMA DigInvariant == Spec => []DigInv
BY DigInit, DigInvKept, PTL DEF Spec

-----------------------------------------------------------------------------
(* When the call has returned SCALPEL_OK, what had to be searched lies     *)
(* before the end of the last chunk.                                       *)
LEMMA SearchedLies ==
  ASSUME Places, NEW pattern, Len(pattern) \in Nat, Len(pattern) > 0,
         NEW p \in Searched(pattern)
  PROVE  /\ pc = "done" /\ p \in Occurrences(pattern) /\ p \in Nat
         /\ p + Len(pattern) <= base + length
<1>1. /\ TypeOK /\ ChunkLies
      /\ base \in Nat /\ length \in Nat /\ Size \in Nat /\ opt.skip \in Nat
      /\ Longest \in Nat
  BY InputTypes, SpecAssumption, LongestNeedle DEF Places, TypeOK
<1>2. /\ pc = "done" /\ p \in Occurrences(pattern) /\ p + Len(pattern) <= Reached
  BY DEF Searched
<1>3. p \in Nat /\ p >= opt.skip
  BY <1>1, <1>2 DEF Occurrences
<1>4. CASE cut
  BY <1>2, <1>3, <1>4 DEF Reached
<1>5. CASE ~cut
  <2>1. CASE length = 0
    <3>1. Reached = opt.skip
      BY <1>1, <1>2, <1>5, <2>1 DEF Reached, ChunkLies
    <3> QED
      BY <1>1, <1>2, <1>3, <3>1
  <2>2. CASE length # 0
    <3>1. base + length = Size /\ base >= opt.skip
      BY <1>1, <1>2, <1>5, <2>2 DEF ChunkLies
    <3>2. Reached = Size \/ Reached = opt.skip
      BY <1>5 DEF Reached
    <3> QED
      BY <1>1, <1>2, <1>3, <3>1, <3>2
  <2> QED
    BY <2>1, <2>2
<1> QED
  BY <1>2, <1>3, <1>4, <1>5

(* No header is missed, those across two chunks included, and nothing else *)
(* is recorded; with -r every header is near a recorded one.               *)
THEOREM EveryHeaderFound == Spec => []HeadersFound
<1>1. DigInv => HeadersFound
  <2> SUFFICES ASSUME DigInv PROVE HeadersFound
    OBVIOUS
  <2>1. Places /\ OnlyHeaders /\ HeadersKept /\ LongAscend
    BY DEF DigInv, Places
  <2>2. ASSUME NEW n \in Needles, NEW p \in Searched(SearchSpec[n].begin)
        PROVE  Recorded(n, p)
    <3>1. Len(SearchSpec[n].begin) \in Nat /\ Len(SearchSpec[n].begin) > 0
      BY NeedleTypes
    <3>2. /\ pc = "done" /\ p \in Occurrences(SearchSpec[n].begin)
          /\ p + Len(SearchSpec[n].begin) <= base + length
      BY <2>1, <3>1, SearchedLies
    <3>3. HeadersDone(n) /\ pc # "exit"
      BY <3>2 DEF HeadersDone, InChunk
    <3> QED
      BY <2>1, <3>2, <3>3 DEF HeadersKept
  <2>3. \A n \in Needles : Len(SearchSpec[n].begin) = Longest => Ascends(headers[n])
    BY <2>1 DEF LongAscend
  <2>4. \A n \in Needles : Ran(headers[n]) \subseteq Occurrences(SearchSpec[n].begin)
    BY <2>1 DEF OnlyHeaders
  <2> QED
    BY <2>2, <2>3, <2>4 DEF HeadersFound, Recorded, Near
<1> QED
  BY <1>1, DigInvariant, PTL

(* Footers are left out of chunks in which no header could use them, and   *)
(* still none is missed that a file of the type could end with.            *)
THEOREM EveryUsefulFooterFound == Spec => []UsefulFootersFound
<1>1. DigInv => UsefulFootersFound
  <2> SUFFICES ASSUME DigInv PROVE UsefulFootersFound
    OBVIOUS
  <2>1. Places /\ FootersKept
    BY DEF DigInv, Places
  <2>2. SUFFICES ASSUME ~opt.noSearchOverlap, NEW n \in Needles, SearchSpec[n].end # <<>>,
                        NEW f \in Useful(n)
                 PROVE  f \in Ran(footers[n])
    BY DEF UsefulFootersFound
  <2>3. Len(SearchSpec[n].end) \in Nat /\ Len(SearchSpec[n].end) > 0
    BY <2>2, NeedleTypes
  <2>4. f \in Searched(SearchSpec[n].end)
    BY <2>2 DEF Useful
  <2>5. PICK h \in Ran(headers[n]) : UsedBy(n, f, h)
    BY <2>2 DEF Useful, UsedBy
  <2>6. /\ pc = "done" /\ f \in Occurrences(SearchSpec[n].end)
        /\ f + Len(SearchSpec[n].end) <= base + length
    BY <2>1, <2>3, <2>4, SearchedLies
  <2>7. FootersDone(n) /\ pc # "exit"
    BY <2>6 DEF FootersDone, InChunk
  <2> QED
    BY <2>1, <2>2, <2>5, <2>6, <2>7 DEF FootersKept
<1> QED
  BY <1>1, DigInvariant, PTL
=============================================================================
