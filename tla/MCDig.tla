-------------------------------- MODULE MCDig --------------------------------
(***************************************************************************)
(* Small instances of DigImage for TLC: all images of up to a given size   *)
(* over two bytes.                                                         *)
(***************************************************************************)
EXTENDS DigImage, SequencesExt

CONSTANT MaxSize    \* bytes of the largest image

Bytes == {"a", "b"}
A == {"a"}
B == {"b"}

(* A one-byte header, shorter than the overlap; a header that is one of    *)
(* the longest needles and overlaps itself, with a wildcard; a type        *)
(* without footer.                                                         *)
MCSpec ==
  << [begin |-> <<A>>,           end |-> <<B, B>>, length |-> 4],
     [begin |-> <<A, Bytes, A>>, end |-> <<B>>,    length |-> 5],
     [begin |-> <<B, A>>,        end |-> <<>>,     length |-> 4] >>

MCImages == UNION {[1..n -> Bytes] : n \in 2..MaxSize}

Plain == [skip |-> 0, noSearchOverlap |-> FALSE, database |-> FALSE]

MCOptions == {Plain, [Plain EXCEPT !.skip = 2], [Plain EXCEPT !.noSearchOverlap = TRUE],
              [Plain EXCEPT !.database = TRUE]}
=============================================================================
