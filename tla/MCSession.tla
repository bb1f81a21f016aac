----------------------------- MODULE MCSession ------------------------------
(***************************************************************************)
(* Small instances of Session for TLC: three images, one of them larger,   *)
(* two of them with the same base name.                                    *)
(***************************************************************************)
EXTENDS Session

CONSTANT MaxImages   \* images asked for

MCSize     == [i \in 1..3 |-> IF i = 2 THEN 2 ELSE 1]
MCBaseName == [i \in 1..3 |-> IF i = 3 THEN 1 ELSE i]
MCLists    == UNION {[1..n -> 1..3] : n \in 0..MaxImages}
MCOptions  == {[list |-> FALSE, terminated |-> FALSE, database |-> TRUE],
               [list |-> TRUE,  terminated |-> TRUE,  database |-> FALSE],
               [list |-> TRUE,  terminated |-> FALSE, database |-> TRUE]}
=============================================================================
