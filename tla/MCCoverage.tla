----------------------------- MODULE MCCoverage -----------------------------
(***************************************************************************)
(* Small instances of CoverageMap for TLC.                                 *)
(***************************************************************************)
EXTENDS CoverageMap

CONSTANT MaxBlocks    \* blocks of two bytes of the largest image

Whole(n) == {<<2>> \o m : m \in [1..n -> 0..1]}

(* No file, an empty one, one of other blocks, a truncated one, and every  *)
(* set of covered blocks.                                                  *)
MCMaps == {NoFile, <<>>, <<3, 0, 1>>, <<2, 1>>} \cup Whole(MaxBlocks)

Update(n, o)  == [update |-> TRUE,  use |-> FALSE, blocksize |-> n, overlap |-> o]
Use(o)        == [update |-> FALSE, use |-> TRUE,  blocksize |-> 1, overlap |-> o]
UpdateUse(o)  == [update |-> TRUE,  use |-> TRUE,  blocksize |-> 2, overlap |-> o]
Plain         == [update |-> FALSE, use |-> FALSE, blocksize |-> 1, overlap |-> 0]

MCOptions == {Plain, Update(2, 0), Use(0), Use(1), UpdateUse(0)}

MCFiles == {[start |-> s, stop |-> t] : s \in {0, 1, 4}, t \in {4, 6, 12}}
=============================================================================
