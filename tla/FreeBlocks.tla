----------------------------- MODULE FreeBlocks -----------------------------
(***************************************************************************)
(* The two extractors of free blocks: freeblock_user.c with its kernel     *)
(* module (the file system is mounted and goes on changing) and            *)
(* extract_offline.c (which opens a device or an image).  Both take a copy *)
(* of the block bitmaps, one group after the other, and then read the      *)
(* blocks that are free in the copy, one by one.                           *)
(*                                                                         *)
(* What is in a block is the number of times it has been allocated.  The   *)
(* file system itself is external: it allocates and releases blocks.       *)
(***************************************************************************)
EXTENDS Integers, Sequences, SequencesExt, FiniteSets

CONSTANTS
  Disks,        \* geometries: [first, blocks, perGroup]
  Tools,        \* subset of {"live", "offline"}
  MaxChanges    \* bound: changes of the file system

ASSUME FreeBlocksAssumption ==
  /\ MaxChanges \in Nat /\ Tools \subseteq {"live", "offline"}
  /\ \A d \in Disks : /\ d.first \in {0, 1} /\ d.blocks \in Nat /\ d.perGroup \in Nat \ {0}
                      /\ d.first < d.blocks

VARIABLES
  disk,       \* the geometry
  used,       \* blocks in use
  data,       \* what is in every block
  rough,      \* groups whose bitmap has never been written (BLOCK_UNINIT)
  sbfree,     \* the count of free blocks in the superblock
  changes,    \* how often the file system has changed
  tool,       \* which program
  pc,         \* where it is
  freecount,  \* free_blocks_count as the program has it
  bitmap,     \* the copied bitmaps: for every group its clear bits
  list,       \* the numbers of the blocks to read
  at,         \* the next of them
  raw,        \* the output: blocks read, with what was in them
  ghost       \* for properties only, see Start

vars  == <<disk, used, data, rough, sbfree, changes, tool, pc, freecount, bitmap, list,
           at, raw, ghost>>
fs    == <<disk, used, data, rough, sbfree, changes>>

Blocks     == 0..(disk.blocks - 1)
Groups     == ((disk.blocks - disk.first) + disk.perGroup - 1) \div disk.perGroup
GroupOf(b) == (b - disk.first) \div disk.perGroup
Free       == {b \in Blocks : ~used[b]}

(* What properties compare with: the blocks that were free and what was in *)
(* them when the program began; which of them have changed since; which    *)
(* bitmaps were rough when they were copied; which numbers were not        *)
(* written to the list or the output.                                      *)
Start == [free |-> Free, data |-> data, touched |-> {}, rough |-> {}, lost |-> {}]

Ended == {"done", "failed", "oops"}

-----------------------------------------------------------------------------
(* The block before the first group and the superblock are always used;    *)
(* the first group's bitmap is always there.                               *)
Init ==
  /\ disk \in Disks /\ tool \in Tools
  /\ used \in {u \in [Blocks -> BOOLEAN] : \A b \in 0..disk.first : u[b]}
  /\ data = [b \in Blocks |-> 0]
  /\ rough \in SUBSET (1..(Groups - 1))
  /\ sbfree = Cardinality(Free) /\ changes = 0
  /\ pc = "start" /\ freecount = 0 /\ bitmap = <<>>
  /\ list = <<>> /\ at = 1 /\ raw = <<>>
  /\ ghost = Start

Change(b) ==
  /\ changes < MaxChanges /\ changes' = changes + 1
  /\ pc \notin Ended
  /\ used' = [used EXCEPT ![b] = ~@]
  /\ ghost' = [ghost EXCEPT !.touched = @ \cup {b}]
  /\ UNCHANGED <<disk, sbfree, tool, pc, freecount, bitmap, list, at, raw>>

Allocate ==
  \E b \in Free : /\ Change(b)
                  /\ data' = [data EXCEPT ![b] = @ + 1]
                  /\ rough' = rough \ {GroupOf(b)}

Release ==
  \E b \in Blocks \ Free : /\ b > disk.first /\ Change(b)
                           /\ rough' = rough \ {GroupOf(b)}
                           /\ UNCHANGED data

(* The superblock's count is brought up to date now and then only.         *)
WriteSuper ==
  /\ pc = "start" /\ sbfree # Cardinality(Free)
  /\ sbfree' = Cardinality(Free)
  /\ UNCHANGED <<disk, used, data, rough, changes, tool, pc, freecount, bitmap, list,
                 at, raw, ghost>>

-----------------------------------------------------------------------------
(* IOCTL_GET_BITMAP takes the count of free blocks first; or the image is  *)
(* opened and ext2fs_read_block_bitmap() begins.                           *)
Begin ==
  /\ pc = "start" /\ pc' = "copy"
  /\ freecount' = sbfree
  /\ ghost' = Start
  /\ UNCHANGED <<fs, tool, bitmap, list, at, raw>>

(* The clear bits of a group's bitmap; behind the last block they are set. *)
ClearBits(g) == {i \in 0..(disk.perGroup - 1) :
                   LET b == disk.first + g * disk.perGroup + i IN b \in Blocks /\ ~used[b]}

(* The kernel module reads the bitmap's block whether it has ever been     *)
(* written or not; libext2fs knows.                                        *)
CopyGroup ==
  /\ pc = "copy" /\ Len(bitmap) < Groups
  /\ LET g == Len(bitmap)
     IN  /\ \E bits \in IF tool = "live" /\ g \in rough
                          THEN SUBSET (0..(disk.perGroup - 1)) ELSE {ClearBits(g)} :
              bitmap' = Append(bitmap, bits)
         /\ ghost' = [ghost EXCEPT !.rough = IF tool = "live" /\ g \in rough
                                               THEN @ \cup {g} ELSE @]
  /\ UNCHANGED <<fs, tool, pc, freecount, list, at, raw>>

(* No such path, not ext4, no memory, no output file, bad user memory; the *)
(* list cannot be opened again.                                            *)
Fails ==
  /\ pc \in {"start", "copy", "list"} \/ (pc = "read" /\ tool = "live" /\ at = 1)
  /\ pc' = "failed"
  /\ UNCHANGED <<fs, tool, freecount, bitmap, list, at, raw, ghost>>

(* sb_bread() returns NULL where the module expects an error pointer.      *)
Oops ==
  /\ tool = "live" /\ pc \in {"copy", "read"} /\ pc' = "oops"
  /\ UNCHANGED <<fs, tool, freecount, bitmap, list, at, raw, ghost>>

Copied ==
  /\ pc = "copy" /\ Len(bitmap) = Groups
  /\ pc' = "list"
  /\ UNCHANGED <<fs, tool, freecount, bitmap, list, at, raw, ghost>>

(* extract_free_blocks() numbers the bits from 0; the offline loop goes    *)
(* from s_first_data_block.                                                *)
NumberSkewed(g, i) == (disk.perGroup - 1) * g + i      \* a bug in reach
Number(g, i) == (IF tool = "live" THEN 0 ELSE disk.first) + disk.perGroup * g + i
Numbers      == UNION {{Number(g - 1, i) : i \in bitmap[g]} : g \in DOMAIN bitmap}

(* The loops over the groups and their bits meet the numbers in ascending  *)
(* order: the i-th is the one that has i - 1 before it.                    *)
Ascending(S) ==
  [i \in 1..Cardinality(S) |->
     CHOOSE n \in S : Cardinality({m \in S : m < n}) = i - 1]

NothingFree ==
  /\ pc = "list" /\ tool = "live" /\ freecount = 0
  /\ pc' = "done"
  /\ UNCHANGED <<fs, tool, freecount, bitmap, list, at, raw, ghost>>

(* The list is written to free_block_list.txt, which may be cut off when   *)
(* the disk is full: nobody looks at fprintf().  count is never increased, *)
(* so that the list may be longer than free_blocks_count.                  *)
MakeList ==
  /\ pc = "list" /\ (tool = "offline" \/ freecount > 0)
  /\ LET all == Ascending(Numbers)
     IN  \E n \in IF tool = "live" THEN 0..Len(all) ELSE {Len(all)} :
           /\ list' = SubSeq(all, 1, n)
           /\ ghost' = [ghost EXCEPT !.lost = ToSet(SubSeq(all, n + 1, Len(all)))]
  /\ pc' = "read"
  /\ UNCHANGED <<fs, tool, freecount, bitmap, at, raw>>

NextStays == at' = at        \* a bug in reach
Next1     == at' = at + 1    \* the next line, or the next block

ValidShort(n) == n > 0 /\ n < disk.blocks - 1     \* a bug in reach
Valid(n)      == tool = "offline" \/ (n > 0 /\ n < disk.blocks)
More          == pc = "read" /\ at <= Len(list)

SkipInvalidStays == More /\ ~Valid(list[at]) /\ UNCHANGED vars    \* a bug in reach

SkipInvalid ==
  /\ More /\ ~Valid(list[at]) /\ Next1
  /\ UNCHANGED <<fs, tool, pc, freecount, bitmap, list, raw, ghost>>

ReadBlock ==
  /\ More /\ Valid(list[at]) /\ Next1
  /\ raw' = Append(raw, [block |-> list[at], data |-> data[list[at]]])
  /\ UNCHANGED <<fs, tool, pc, freecount, bitmap, list, ghost>>

(* The block cannot be read, and is left out; or, in freeblock_user.c,     *)
(* fwrite() fails, which nobody looks at.                                  *)
LoseBlock ==
  /\ More /\ Valid(list[at]) /\ Next1
  /\ ghost' = [ghost EXCEPT !.lost = @ \cup {list[at]}]
  /\ UNCHANGED <<fs, tool, pc, freecount, bitmap, list, raw>>

(* extract_offline.c stops at the first write that fails, and returns 0.   *)
WriteFails ==
  /\ More /\ tool = "offline"
  /\ pc' = "done"
  /\ ghost' = [ghost EXCEPT !.lost = @ \cup ToSet(SubSeq(list, at, Len(list)))]
  /\ UNCHANGED <<fs, tool, freecount, bitmap, list, at, raw>>

Finish ==
  /\ pc = "read" /\ at > Len(list)
  /\ pc' = "done"
  /\ UNCHANGED <<fs, tool, freecount, bitmap, list, at, raw, ghost>>

Halted == pc \in Ended /\ UNCHANGED vars

Step    == \/ Begin \/ CopyGroup \/ Copied \/ NothingFree \/ MakeList
           \/ SkipInvalid \/ ReadBlock \/ Finish
Failure == Fails \/ Oops \/ LoseBlock \/ WriteFails

Next     == Step \/ Failure \/ Allocate \/ Release \/ WriteSuper \/ Halted
Spec     == Init /\ [][Next]_vars
FairSpec == Spec /\ WF_vars(Step)

-----------------------------------------------------------------------------
(* Without a block before the first group; with one, freeblock_user.c lists *)
(* every number one too low (see README).                                  *)
Numbered == tool = "offline" \/ disk.first = 0

(* A block that was not touched since the program began, in a group whose  *)
(* bitmap was written, is to be read if and only if it was free, whatever  *)
(* happened to other blocks while the groups were copied.                  *)
QuietListed ==
  pc = "read" /\ Numbered =>
    \A b \in Blocks : b >= disk.first /\ b \notin ghost.touched /\ GroupOf(b) \notin ghost.rough =>
      ((b \in ToSet(list) \cup ghost.lost) <=> b \in ghost.free)

(* The output has the blocks of the list that were not lost, each once and *)
(* in ascending order, and of those nobody touched what was in them at the *)
(* beginning.                                                              *)
RawFaithful ==
  /\ \A i, j \in DOMAIN raw : i < j => raw[i].block < raw[j].block
  /\ \A i \in DOMAIN raw : /\ raw[i].block \in ToSet(list) \cap Blocks
                           /\ raw[i].block \notin ghost.touched =>
                                raw[i].data = ghost.data[raw[i].block]

RawComplete ==
  pc = "done" /\ (tool = "offline" \/ freecount > 0) =>
    \A b \in Numbers \cap Blocks : b > 0 =>
      b \in ghost.lost \/ \E i \in DOMAIN raw : raw[i].block = b

(* The program ends however the file system changes.                       *)
ExtractEnds == <>(pc \in Ended)
=============================================================================
