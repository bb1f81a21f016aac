------------------------------- MODULE MCCarve -------------------------------
(***************************************************************************)
(* Small instances of CarveImage for TLC: four file types, one of every    *)
(* kind of search, in images of two to three buffers, and two whose        *)
(* lengths make files that end before they begin: 0 and -1.                *)
(***************************************************************************)
EXTENDS CarveRefinement

MCSpec ==
  << [length |-> 5, endlength |-> 1, searchtype |-> "FORWARD"],
     [length |-> 4, endlength |-> 2, searchtype |-> "FORWARD_NEXT"],
     [length |-> 5, endlength |-> 2, searchtype |-> "REVERSE"],
     [length |-> 4, endlength |-> 0, searchtype |-> "FORWARD"],
     [length |-> 0, endlength |-> 0, searchtype |-> "FORWARD"],
     [length |-> Word - 1, endlength |-> 0, searchtype |-> "FORWARD"] >>

(* Ascending sequences of at most n members of S.                          *)
Ascending(S, n) ==
  {SetToSortSeq(T, LAMBDA a, b : a < b) :
     T \in {U \in SUBSET S : Cardinality(U) <= n}}

(* Databases in which only the types in busy have entries, at most n each, *)
(* at offsets in S.                                                        *)
Found(busy, S, n) ==
  {[t \in DOMAIN MCSpec |-> IF t \in busy THEN f[t] ELSE <<>>] :
     f \in [busy -> Ascending(S, n)]}

Databases(size, busy, H, nh, F, nf) ==
  [size : {size}, headers : Found(busy, H, nh), footers : Found(busy \ {4, 5, 6}, F, nf)]

Plain == [skip |-> 0, aligned |-> 1, missingFooters |-> FALSE,
          preview |-> FALSE, organize |-> TRUE, database |-> FALSE]

(* Every type alone with a rich database, and pairs of types.              *)
PlanImages ==
  UNION {Databases(7, {t}, 0..5, 2, 0..5, 3) : t \in 1..4}
    \cup UNION {Databases(7, {t, t + 1}, {0, 2, 4}, 1, {1, 3, 5}, 2) : t \in 1..3}

PlanOptions ==
  {Plain, [Plain EXCEPT !.preview = TRUE], [Plain EXCEPT !.missingFooters = TRUE],
   [Plain EXCEPT !.aligned = 2], [Plain EXCEPT !.organize = FALSE]}

(* Files that begin and end in one buffer, in neighbouring ones, and with  *)
(* a whole buffer in between; several at once.  The last buffer of the     *)
(* image of 7 bytes is short, that of the image of 6 is not.  Files that   *)
(* end before they begin, in the same buffer or in the one before; and one *)
(* whose last byte lies before a buffer that begins at a skip of 2.        *)
CarveImages ==
  UNION {Databases(size, {1, 3}, {0, 1, 3, 4}, 1, {4, 5}, 1) : size \in {6, 7}}
    \cup UNION {Databases(size, {4}, {0, 1, 3, 4, size - 1}, 3, {}, 0) : size \in {6, 7}}
    \cup UNION {Databases(7, {t}, {0, 1, 3, 5}, 2, {}, 0) : t \in {5, 6}}
    \cup Databases(7, {4, 5}, {0, 3}, 1, {}, 0) \cup Databases(9, {4}, {3}, 1, {}, 0)

(* A skip of one buffer, skips that are no multiple of it, and one past    *)
(* the end of every image.                                                 *)
OddSkips == {[Plain EXCEPT !.skip = s] : s \in {1, 2, 12}}

CarveOptions ==
  OddSkips \cup {Plain, [Plain EXCEPT !.skip = 3], [Plain EXCEPT !.preview = TRUE],
                 [Plain EXCEPT !.database = TRUE],
                 [Plain EXCEPT !.preview = TRUE, !.skip = 2]}

(* At most three files are planned in these instances.                     *)
StartedResolved == StartedIsResolved(3)
=============================================================================
