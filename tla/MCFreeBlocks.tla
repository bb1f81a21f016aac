---------------------------- MODULE MCFreeBlocks ----------------------------
(***************************************************************************)
(* Small instances of FreeBlocks for TLC: two groups, the second one       *)
(* shorter, with and without a block before the first group.               *)
(***************************************************************************)
EXTENDS FreeBlocks

MCDisks == {[first |-> 0, blocks |-> 5, perGroup |-> 3],
            [first |-> 1, blocks |-> 5, perGroup |-> 3]}
=============================================================================
