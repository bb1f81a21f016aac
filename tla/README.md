# A verification project for AdvancedScalpel

AdvancedScalpel (`src/advancedscalpel`) carves files out of disk images: it
looks for the headers and footers of known file types and copies the bytes in
between.  It makes two sequential passes over every image.  The first pass
records where headers and footers are; the second plans one *carve job* per
header, files the work of every job under the buffer-sized blocks of the image
it touches, and copies all files at once while reading the image a second time.
`src/free_block_extraction` extracts the unallocated blocks of an ext4 file
system, as an image to carve.

This directory holds TLA+ models of that code, TLC configurations that check
them on small instances, and proofs, checked by TLAPS, of their main properties
for every value of the constants.

## 1. Inventory

| Component | Source | State | Operations | Modelled by |
|---|---|---|---|---|
| First pass | `dig.c` `digImageFile`, `bm_digBuffer` | file position, chunk in `readbuffer`, `foundat`, `offsets` per type | open/skip, read chunk, find header, find footer, step back, errors, signal | `DigImage` |
| Second pass: planning | `dig.c` `carveImageFile` 668-895 | `prevstopindex`, `CarveInfo`s, `numfilestocarve`, `organizeDirNum`, `carvelists` | one header: choose the end, clip, file the work | `CarveImage` (`Plan`) |
| Second pass: carving | `dig.c` `carveImageFile` 897-1172 | position, `readbuffer`, current queue element, open files, `CURRENTFILESOPEN`, audit log | big seek, read, STARTCARVE..CONTINUECARVE, open/write/close errors, signal, finish | `CarveImage` (`Seek`, `Read`, `Carve`, `Finish`) |
| Priority queues | `prioque.c` | linked lists ordered by priority, a position in each, a position per `Context`, locks | every function of the package, by several threads | `QueuePackage`, `QueueSequences` (what its callers may rely on), `PrioQueue` (as the carver uses it) |
| Coverage bitmap and blockmap (`-m`, `-u`) | `dig.c` `setupCoverageMaps`, `updateCoverage*`, `*_use_coverage_map` | the blockmap file (block size, a count per block), a bitmap of covered blocks | set up, translate positions, read/seek/tell around covered blocks, fragments, update, several runs | `CoverageMap` |
| Session | `scalpel.c` `main`, `digAllFiles`; `helpers.c` `handleError`; `files.c` | image list, database of headers, file counter, audit log | one image after another, errors that end the image or the run, `-d`, verifiers at the end | `Session` |
| Boyer-Moore search | `helpers.c` `bm_needleinhaystack`, `init_bm_table`, `charactersMatch` | skip table | first match of a needle with wildcards | `Needles`, checked by `Startup` |
| Start | `scalpel.c` `main` 833-877, `initializeState`, `processCommandLineArgs`, `readSearchSpecFile`; `helpers.c` `translate`; `files.c` `openAuditFile` | words of the command line, options, lines of the configuration, search specification, wildcard, output directory | take an option, read a line, open the output directory and the log | `Startup` |
| Post verification | `scalpel.c` `run_post_verify`, `verify_*.py` | carved files in directories | walk, judge, keep, move, delete a file; exceptions | `PostVerify` |
| Free blocks, live | `free_block_extraction/live` | kernel copy of the block bitmaps, the list, the output | copy group by group, list, read blocks, while the file system changes | `FreeBlocks` |
| Free blocks, offline | `free_block_extraction/offline` | the bitmap, the output | copy free blocks | `FreeBlocks` (`tool = "offline"`) |
| Vendored code | `olefile.py`, `base_name.c`, `dirname.h`, `ext4.h` | | | not the program's own |

How they interact: `main` takes the options, reads the configuration and opens
the audit log, then `digAllFiles` runs `digImageFile` and `carveImageFile` for
every image.  The configuration reaches the passes as needles with their jump
tables and as the global `wildcard`.  The passes share the
database of offsets in `scalpelState` (`offsets.headers`, `offsets.footers`,
one array per type) and nothing else; `carveImageFile` empties it at its end.
The carver and the queues interact by calls only.  Signals set a flag
(`signal_caught`) that both passes poll.  The program is single-threaded; what
is interleaved is the work of many files over one read of the image.  The queue
package is written for several threads, and is modelled with them.

What is hard in it:

* *Ordering.* A file's pieces are written in the order the blocks are read, and
  within a block in the order of the priorities; a file may be closed for want
  of handles (`MAX_FILES_TO_OPEN`) and reopened any number of times between.
* *Boundaries.* Offsets against counts, last bytes on block boundaries, short
  last buffers, skips that are no multiple of the buffer, needles across two
  chunks.
* *Partial failure.* Opening, reading, writing, closing may fail anywhere; a
  signal may come anywhere.
* *A world that moves.* The verifiers walk a tree they move files in, and the
  live extractor copies bitmaps and reads blocks of a mounted file system.
* *State carried over.* `prevstopindex` from header to header, `readbuffer`
  from read to read, the header database from image to image, the wildcard
  from line to line of the configuration.
* *Threads and positions.* Positions in a list that others change; two locks at
  once; functions that take no lock.

`PROJECT.json` lists every hazard with its line and the properties that watch
it.

## 2. Plan

Order: the most important behaviour first.

1. `PrioQueue`, `CarveImage`: the second pass (done).
2. `Extraction`, the abstract specification of carving, and `CarveRefinement`,
   which shows that `CarveImage` implements it (done).
3. `DigImage`: the first pass (done).
4. Proofs about `PrioQueue` and `CarveImage`: types, work queues, open files,
   the contents of the files and the audit log, the end of the call, and the
   step simulation of the refinement (done).
5. `Session`: `digAllFiles` over several images, with the outcomes of the two
   passes as abstract steps; the stale database after a non-fatal error (done).
6. `CoverageMap`: `fread`, `fseeko`, `ftello` around covered blocks, fragments,
   the blockmap over several runs (done).
7. `QueueSequences` and `QueuePackage`: what a queue of the package is to its
   callers, and the package as it is, with threads and locks (done).
8. `Needles` and `Startup`: the configuration, the search with jump tables
   against the first match, options, the output directory; `Startup` implements
   the first steps of `Session` (done).
9. `PostVerify`, `FreeBlocks` (done).

Theorems: the types and every safety invariant of `CarveImage`, its refinement
of `Extraction`, all safety invariants of `DigImage`, `QueuePackage`,
`Session`, `PostVerify`, `FreeBlocks`, `Startup` and `CoverageMap` are proved, and
that `QueuePackage` implements `QueueSequences` (section 6).

## 3. The modules

### `PrioQueue`

A queue is the sequence of its elements.  `Place` is where
`nolock_add_to_queue` links a new element (compare the head with `>=`, walk
past elements of lower *or equal* priority), `AddToQueue` the insertion.  The
carver creates its queues with duplicates allowed, so nothing is refused.
`AddToQueue` is the carver's view of the package below: `QueueSequences`
extends this module.

### `QueueSequences` and `QueuePackage`

`QueueSequences` says what callers may rely on: a queue is the sequence of its
elements and a position in it; a call with locks changes them and answers from
them; a call without a lock does so as long as no other call is at work on the
queue, and otherwise answers anything.  Elements are placed as the code places
them, so that the carver's `PrioQueue` is what the package implements; the header
file promises another place for some (section 5).  `QueuePackage` is
`prioque.c`.

| Model | Code |
|---|---|
| `heap` | the nodes that are allocated; `malloc()` takes the smallest free address, and when there is none the program exits |
| `queue` | `Queue`: head, `current`, `previous`, `queuelength`, `duplicates` |
| `ctx` | every thread's `Context` |
| `lock` | who holds `global_lock` and the queues' locks |
| `passed` | nothing in the code: what heads and lengths a queue has had, and whether it was at its end, in the call that holds its lock |
| `call` | where a thread is in `copy_queue`, `merge_queues` or `equal_queues` |
| `returned` | what was asked last and the answer |
| `halted` | running, `exit(1)`, or `"stray"` |

A call on one queue does all its work under that queue's lock and waits for no
other lock meanwhile.  Nobody else writes the queue then, so the work is done in
the step that takes the lock (`Locks`).  The lock is given back in a later step
(`Leave`), and in between other threads run.  A call on two queues takes the
global lock and both queues' locks one by one (`LockGlobal`, `LockFirst`,
`LockSecond`), then works (`Body`) and leaves.

`empty_queue`, `end_of_queue`, `queue_length` and `local_init_context` take no
lock and read one field (`Reads`).  Of a queue whose lock another thread holds
they may get what the field was before the call, is after it, or was in between:
the nodes a queue passes through as its head while it is freed (`Freed`), filled
again (`Copied`) or merged into (`Filled`), the lengths, and the end that a search
without success comes to (`Walked`).  These are the values in `passed`; a
queue whose lock is free has none (`Unseen`).

The functions on memory (`Insert`, `Unlink`, `CopyQueue`, ...)
work on the links as the code does, with its two cases for the head and for the
rest.  The loops of `copy_queue` and `merge_queues` (`Clone`, `AddAll`) are
functions of the turns taken, to the memories there are after that many: always
one, but TLC evaluates a bound variable once.

Deleting through a context frees a node that the queue's own position may stand
at.  A call through a position that is no longer one *strays*: the run ends, as
nothing can be said of it.

### `CarveImage`

The state is that of one call of `carveImageFile()`.

| Model | Code |
|---|---|
| `img`, `opt` | `filesize` (`measureOpenFile`), the option fields of `scalpelState` |
| `headers`, `footers` | `currentneedle->offsets` after pass 1 |
| `pc` | where the function is; `Ended` are its returns, `exit()` in `clean_up`, or memory out of bounds (`"crash"`) |
| `needle`, `hidx`, `prevstop` | `needlenum`, `i`, `prevstopindex` (the latter two counted from 1) |
| `jobs`, `counts` | the `CarveInfo`s; `numfilestocarve`, `organizeDirNum` |
| `queues` | `carvelists`, by block index |
| `filepos`, `bytesread`, `buffer` | the position of `infile`, the last `fread`, `readbuffer` |
| `cursor` | the current element of the block's queue |
| `open`, `nopen` | the jobs with `fp != 0`; `CURRENTFILESOPEN` |
| `content`, `audit` | the bytes written to each file; the lines of the audit log |
| `signal` | `signal_caught` |

A byte is the offset in the image it was read from; `Stale` is what
`readbuffer` held before, `Foreign` memory next to it.  So "the right bytes"
is a statement about numbers, and nothing depends on what the image contains.

One action per step of the code: `OpenImage` (fopen, skip, measure, queues),
`SkipUnaligned`, `PlanNothing`, `PlanCarve` (one header: end, clipping,
subdirectory, filing in all blocks), `NextNeedle`; `SeekWork`, `NoMoreWork`,
`SeekOverrun` (the big seek); `ReadBlock`, `EndOfImage`, `ReadFails`;
`CarvePiece` (one queue element: open, write, close, audit), `OpenFails`,
`WriteFails`, `CloseFails`, `CarveOverrun`, `EndOfQueue`; `Finish`,
`FinishFails`; and `CatchSignal` at any moment.  Choosing an end (`Choose`,
`ForwardChoice`, `ReverseChoice`), filing (`OperationIn`, `FileJob`) and the
bytes of a piece (`Span`) are operators.

A header is carved from `start` to `stop`; the loops over footers are
definitions (`FirstPast`, `far`, `match`, `passed`) that give the loop's
result.  `-p` (preview) seeks instead of reading and writes nothing.  Unsigned
wrap-around of `offset` is an integer below 0: in every sum it cancels out.  In
two places it does not.  The end that a length gives is taken modulo `Word`
(`MaxStop`): `strtoull()` makes 0 of a word that is no number and 2^64 - 1 of `-1`,
nothing looks at the result (`scalpel.c:263`), and such a file ends before it
begins.  And a negative byte count is a huge one: the piece is outside
`readbuffer` (`InBuffer`), it is never written whole, and the run ends
(`WriteFails`, `CarveOverrun`).  `CarveOverrun` is also what may come of a name
that was freed when its file was recorded (`dig.c:1116`).

The search for the next block with work asks for a queue's length before it looks
at `success` (`dig.c:936`), so that it looks at one queue more after its last
step.  `LookedAt` are the blocks it asks for; when one of them has no queue
(`LeavesQueues`), the run may be lost in `SeekOverrun`, or go on as if that
queue were empty.

### `Extraction` and `CarveRefinement`

`Extraction` says what carving promises, without blocks, queues, buffers or
handles: stretches of the image are asked for, each file grows as a prefix of
its stretch, it is delivered once and whole, and the run may stop at any
moment.  `CarveRefinement` maps `content` to `got`, `audit` to `delivered` and
`pc \in Ended` to `over`.  In preview mode the audit entry stands for the
file.  A clipped file may have one byte past the end of the image (see the
findings); the mapping does not look at that byte.

### `DigImage`

The state is that of one call of `digImageFile()`: the chunk in `readbuffer`
(`base`, `length`), the type searched for (`needle`), where the next search
begins (`at` = `foundat`), and the offsets found.  `Matches` is what
`bm_needleinhaystack` may return, of which the first is taken; a needle is a
sequence of sets of bytes, which covers wildcards and case.  After every chunk
the file is moved back by `Longest - 1` (`StepBack`).  Footers of a type are
searched for in a chunk only if `Viable`.  Chunks are read as long as more than
`Longest - 1` bytes come; `ReadFails` is the code's late look at `ferror()`: an
error after few bytes ends the search as if the image ended (`cut` remembers
it).

### `CoverageMap`

With `-u` the passes see the image without the blocks that earlier runs carved,
and with `-m` the blocks of carved files are counted.  The module takes the
place of `fread`, `fseeko` and `ftello` and the translation of addresses; what
is carved is any file of `Files`, where pass 2 has work is any block.

| Model | Code |
|---|---|
| `map` | the blockmap file on disk: the block size, then a count per block; `NoFile`, or shorter than it should be |
| `run`, `opt` | the run of the program over this image, its `-m`, `-u`, block size and `longestneedle - 1` |
| `bs`, `nb`, `bitmap` | `coverageblocksize`, `coveragenumblocks`, `coveragebitmap` |
| `filepos` | the real position of `infile` |
| `chunk` | the last read: its bytes, the logical offset the program computes for the first (`begin`) and the one whose queue was looked for (`meant`) |
| `audit` | the last carved file and its lines in the log |
| `ghost` | nothing in the code; see below |

The loops over blocks are functions of the number of turns, one turn per
stretch: `Walk` is the loop shared by `fread_use_coverage_map`,
`generateFragments` and `positionUseCoverageBlockmap`, with the turn `Turn`,
`SeekOffset` that of `fseeko_use_coverage_map`, with `SeekTurn`; every turn
leaves a block behind, so that `nb` turns are enough.  `Tell` is a sum.  They keep
what matters in the loops: a block's contribution
(`Contribution`) is computed from a position that is moved only after a whole
stretch.  `Tell` is a set, since `ftello_use_coverage_map` may look at bits
behind the bitmap, and the bits that `numblocks / 8` bytes do not cover are
never cleared and start with any value (`Cleared`, `SetUpMaps`).

The layer does not work from every position, so the properties that say what it
promises hold while it is *in step*: `ReadsInStep`, `TellsInStep`, `SeeksInStep`
and `BackInStep` describe, per call, the positions and bitmaps for which the
loops are right (`ghost.astray` remembers a step outside them).  They are
conditions on positions and bits only, not on results.  `AllFreeSeen` asks for
`ReadsInStep` of the last read of pass 1 as well, the one that ends it: from a
position out of step that read may bring too little although there is more.

`ghost` also keeps which blocks were covered when the run began, what the
blockmap ought to count, which bytes pass 1 has seen, and whether an update of
the blockmap failed.  `NextRun` is a new run of the program that finds the
blockmap as the last one left it, whole or not.

### `Needles` and `Startup`

`Needles` has the functions of `helpers.c` on needles, as functions on byte
strings: `charactersMatch`, `memwildcardcmp` (`MatchesAt`), `init_bm_table`, the
search and `translate`.  A byte is a `char`, from -128 to 127.

`Startup` is `main()` up to the first image.

| Model | Code |
|---|---|
| `argv`, `confs`, `disk` | what the user types, the configuration files, the directories |
| `words`, `images` | the words `getopt()` has not seen; those it moves to the end |
| `opt` | the fields of `scalpelState` that options set |
| `lines`, `specs`, `wildcard` | the rest of the configuration; `SearchSpec`; the global |
| `audit` | the directory with the audit log |

The command line is taken word by word (`FindSave`, `TakeFlag`, `TakeValued`,
`TakeSave`, `TakeImage`, `BadOption`), the configuration line by line
(`ReadComment`, `ReadWildcard`, `ReadSpec`, `BadLine`, `EndOfConf`).  A line is
its tokens; a needle is `translate`d and gets its table with the wildcard of the
moment.  `-save` is first found among all words, and is later to `getopt()` the
option `-s` with the value `ave`.  `Resolved` is `realpath()` of glibc: of a path
in a missing directory it leaves that directory.  `OpenAuditFile` makes the
directory if need be, and a directory with anything in it ends the program.

With the state of `Startup` as its own (`Run`), `Session` is what `Startup`
implements: the same images, in the same order, or the end.

### `Session`

The state is that of `main()` and `digAllFiles()`.

| Model | Code |
|---|---|
| `asked`, `opt` | the images the user names; list file or `argv`, whether the list's last line ends with a newline, `-d` |
| `todo`, `imagefile` | the rest of `argv` or of the list; `state->imagefile` |
| `db` | the headers of all types in `offsets`; a header is the image it was found in |
| `fileswritten`, `files` | `state->fileswritten`; the carved files with their number, the image they were carved from, and the image their header was found in |
| `databases` | the `.hfd` files by name |
| `audit`, `log` | the state of the audit log; the outcome of every image |

`digImageFile()` and `carveImageFile()` are steps with their possible outcomes:
success (`DigImageFile`, `CarveImageFile`), a non-fatal error (`DigSkipped`,
`CarveSkipped`), a fatal one, a signal or want of memory (`Abort`), and a
queue outside `carvelists` when the database has offsets of a larger image
(`CarveCrash`).  `AfterImage` and `LastLine` are the two loops: `argv` ends with
the last image, a list file with `feof()`.  A read error in the list file is
the state `"stuck"`: `feof()` never comes true and the loop skips the same line
for ever.

### `PostVerify`

The state is that of `run_post_verify()` and of the verifier it runs: `place` is
the folder a carved file is in and how often the file was renamed, `dirs` and
`todo` are the rest of the walk.  `verify_office_ole.py` and `verify_image.py`
collect all paths first (`Collects`); the other two are generators over
`os.walk()`, which enter the folders that existed when the walk began, and find
in them what is there by then (`EnterDir`).  The order of a walk is any order.
The verdict on a file is part of the file; `Folder` is where it sends it.
`VisitEmpty`, `VisitFine`, `VisitRemove` and `VisitMove` are one file each,
`VisitFails` a file that cannot be moved or deleted: some verifiers catch that
(`Catches`), in the others the exception ends the verifier (`Abort`), whose
status the caller ignores.  `run_post_verify()` always passes `--fix`.

### `FreeBlocks`

`freeblock_user.c` with its kernel module, and `extract_offline.c`, are one
module, as they do the same: `CopyGroup` for every group, `MakeList`, and one of
`SkipInvalid`, `ReadBlock`, `LoseBlock` for every number.  `tool` says which
program runs, and the differences are where the programs differ: the live one
numbers bits from 0 (`Number`), asks the superblock's count whether there is
anything to do (`NothingFree`), reads the bitmaps of unused groups (`rough`) as
they are, and checks the numbers of its list (`Valid`).  `Allocate`, `Release`
and `WriteSuper` are the file system, which is external: they happen at any
moment, at most `MaxChanges` times.  What is in a block is the number of its
allocations, so that old and new data can be told apart.

## 4. What is checked

| Run | Instance | Shows |
|---|---|---|
| `carve` | `BufSize` 3, `MaxOpen` 1, `OrganizeMax` 2, `Word` 64; images of 6, 7 and 9 bytes, files of every length from 1 to beyond the image, up to three at once, lengths 0 and -1; `-p -d -s` | bytes, lengths, handles, log, subdirectories, the filing of work; every failure and signal; started files are resolved |
| `carve_plan` | the same types; every database of up to two headers and three ascending footers of one type, and pairs of types; `-p -b -q -O` | the planned files are the ones the options ask for; the refinement |
| `dig` | chunks of 4, all images of 2 to 7 bytes over two letters; `-s -r -d` | headers and footers are found, across chunks too, and the search ends |
| `coverage` | images of 10 to 12 bytes in blocks of 2 (and 3, in a foreign blockmap), buffer 4, every blockmap of six blocks, none, an empty, a foreign and a truncated one; two runs with neither option, `-m`, `-u` or both | reads, seeks, addresses, fragments and counts of the coverage layer; blockmaps left by failed runs |
| `queues` | two threads, two queues with four nodes, one of which refuses duplicates; any three calls on a queue of one node and a queue of two | lists, lengths and order; positions while there is no context; no deadlock between calls on two queues; the refinement, with calls that take no lock at any moment of another call |
| `startup` | command lines of up to four words, three directories in every state, configurations of up to three lines, and of up to two types too many (`MaxFileTypes` 2), needles of up to three bytes in texts of up to four | the types that get in, the first match, what a run begins with; the refinement of `Session` |
| `session` | up to three images of three, one larger, two of the same base name; `argv`, lists with and without a last newline; up to one header per image | order, names, log, databases; where foreign headers can come from; the run ends |
| `post_verify` | two files of 16 kinds and contents, every set of the first three verifiers, both modes | which files are kept, moved, deleted and renamed, in any order of the walks and with failures; the walks end |
| `free_blocks` | five blocks in groups of three, with and without a block before the first group, both tools, two changes | what is listed, read and written while the file system changes; the program ends |

Why the bounds are enough for the interesting cases: with a buffer of three
bytes and images of two buffers and two buffers and a byte, a file begins and
ends in one block (STARTSTOPCARVE), in neighbouring blocks
(STARTCARVE/STOPCARVE), and with a block between (CONTINUECARVE), ends on, before
and behind a block boundary and behind the image; three files with one handle
are closed and reopened in every block.  Skips are 0, one buffer, 1 and 2 bytes
(no multiple) and past the end.  The types of length 0 and -1 have files that
end before they begin, in the same buffer or in the one before; a skip of 2 with a
last byte at offset 6 is a STOPCARVE piece below its buffer.  In `dig` the longest
needle has three bytes
and the chunk four, so that every needle lies across a chunk boundary in some
image.  In `coverage` two blocks make a buffer and a bitmap byte has two bits, so
that buffers meet covered and uncovered stretches of one and several blocks,
images end inside a block, and the last bitmap byte is or is not a whole one;
two runs are what it takes for a blockmap to be made by one and used by
another.  In `post_verify` two files are enough for one to be met again in a
folder that was made for the other, and for one to be left because the other
ended the verifier.  In `free_blocks` the second group is shorter than the first,
so that its bitmap has bits behind the last block; two changes let a block be
allocated and released again, or one in each group change between the two
copies.  In `queues` three calls are what it takes for two threads to be in calls on two
queues while a third call changes one of them, or for a context to be made, to
delete, and for its queue's position to be used; four nodes let a merge or a
copy run out of memory and a list have a node in the middle, and a call that takes no lock
meets a queue that is being emptied, filled again or searched.  In `startup`,
texts one byte longer than the needles make the search move on by every number
a table can hold, and the alphabet has a letter in both cases, the wildcard, a
byte that is negative as a `char`, and the letter a later line makes the
wildcard; four words hold `-save` before and behind `-s` with its value.
In `session` three images let an image be skipped before another one
is skipped or carved.

Properties (each with a mutant, a plausible bug in the code that breaks it):

* `CarvedBytes`: what is written to a file is the image, byte by byte, from
  `start` on, at every moment.  It needs `skip` to be a multiple of
  `SIZE_OF_BUFFER`; otherwise it is false (finding `carve_first_byte`).  Like the
  next ones it claims nothing of files that end before they begin.
* `AuditedWhole`, `AuditedIsFinal`: a file in the log has the logged length, is
  there once, and is never touched again.
* `OpenBound`: `CURRENTFILESOPEN` counts the open files and stays within the
  limit.
* `SubdirBound`: no subdirectory gets more than `organizeMaxFilesPerSub` files
  of a type.
* `EndsWell`, `StartedResolved`: a call that returns `SCALPEL_OK` has
  carved and logged every file (`DoneMeansCarved`), and a file that was started
  is closed and logged, except files that end in a block that is never read
  (`EndsPastLastRead`, see below); `carvelists` and `readbuffer` are left only
  with an odd skip, a skip behind the last block, a preview with work in the last
  block, or a file that ends before it begins (`StaysInside`).
* `PlannedIsIdeal`: the planned files are the ones a definition without
  `prevstopindex` asks for.
* `WorkFiled`: every job has exactly one piece, the right one, in every block
  it touches; queues are ordered; only a length of 0, or one that reaches past
  `Word`, makes a file end before it begins (`ForwardIfProper`).
* `KeepsPromise`: the refinement.
* `HeadersFound`, `UsefulFootersFound`, `SearchEnds`: pass 1; of a search that a
  read error ended without a word, what lies in the chunks that were read.
* `QueuesSound`: the lists are disjoint and in order, hold every node that is
  allocated, and their length is counted; without contexts no call strays.
* `CallsReturn`: calls on two queues do not wait for each other.
* `KeepsPromise` of `QueuePackage`: to its callers a queue is a sequence with a
  position, without a lock only while no call is at work on it.
* `NeedlesFound`: the search finds the first place where a needle matches, for
  every table the configuration can make, except needles with a byte that
  becomes the wildcard after their line.
* `SpecsUsable`: the program goes on with all types of the file, and only as
  many as there is room for, but for the one file it should refuse and does not:
  with one type too many, as the last line (section 5).  It refuses no other file.
* `BeginsAsTold`, `BeginsSession`: the first image is dug with the skip, the
  block sizes, the images and the directory of the command line; no directory
  with something in it is written to.
* `ReadsMeantBytes`, `AllFreeSeen`, `DigAdvances`: in step, a
  read returns the next uncovered bytes under their logical offsets, pass 1
  sees all of them and gets on, pass 2 reads the block whose queue it works on.
* `PlacesExact` (`PositionExact`, `FragmentsExact`), `BlockmapCounts`: logical offsets become
  the right addresses, in the audit log and the blockmap too.
* `NamesUnique`, `TakenInOrder`, `LogEnded`, `RunEnds`: over a whole run, file
  names never repeat, every image has its turn and its outcome, the log is
  ended before the program is or the verifiers start, and the program ends.
* `HeadersTraced` (`FilesTraced`, `DatabasesTraced`): a file carved at an offset found in
  another image follows a skipped image; without one, databases are pure.

* `GoodKept`, `DoneSorted`, `MovedOnce`, `VerifyEnds`: no verifier touches a
  file that is fine; `-save` loses no file with bytes in it; what its verifier
  has seen is in the folder of its verdict with `-save` and deleted without it, bad
  media files without `-save` left out (section 5); files met again are
  renamed at most once, and only an image without a header ends a verifier; the
  walks end.
* `QuietListed`, `RawFaithful`, `RawComplete`, `ExtractEnds`: a block that nobody
  touched is listed if and only if it was free (not asked of the live program where
  the first block is 1, nor of groups whose bitmap was never written), and its
  content in the output is the one it had; the output has every listed block once
  and in order, except
  those whose reading or writing failed; the program ends.

Fairness: `FairSpec` is `WF_vars(Step)`: the program is one thread that keeps
running while it has something to do.  No fairness is assumed for signals, nor
for any particular outcome of a read, write, open or close, nor for a read error
in the list file (`LineFails` is not in `Session`'s `Step`), nor for the failures
of `FreeBlocks` (`Failure`) and the changes of the file system.  In `QueuePackage`
a thread that is in a call goes on, takes locks that stay free and gives them back
(`WF_vars(Proceed(t))`); a thread outside a call need not make one.

Deadlock is checked: a call that has ended only stutters (`Halted`).  The
exceptions are `queues`, where calls run out (`MaxCalls`) and a call with the
same queue twice waits for itself, and `startup`, which stops where `Session`
goes on or the program ends.

## 5. Findings

Each is a run in which TLC shows that the code does not do what the repository
says of it.

* `carve_first_byte` (`dig.c:1009`): queues are indexed by absolute block, but
  with `-s` the buffers begin at `skip`; unless it is a multiple of the buffer
  a file's first piece meets the wrong buffer.
* `session_stale` (`scalpel.c:692`): after an image was skipped, its headers are
  still in the database, and the next image is carved at their offsets.
* `verify_images` (`verify_image.py:308`, `349`): in save mode an image without a
  known header is moved to `(not_image)` and then, as its type is not the
  expected one either, moved once more from its old path.  The exception ends
  the verifier; the images it has not yet seen are not sorted.

Seen while modelling, without a run of their own:

* an element of the priority of the head goes in front of it (`prioque.c:140`
  compares with `>=`), where `prioque.h:98-104` promises "strict 'to the rear'
  placement" for equal priorities;
* `MAX_FILE_TYPES` + 1 types are accepted when nothing follows the last one
  (`scalpel.c:395`), in spite of the check and its message: the offsets of the last
  are never set, and the marker is written behind the array;
* `verify_video_audio.py` has no mode, takes the mode for a directory, and moves
  invalid and partial files in none mode too (`:201`), where the usage of `-save`
  (`scalpel.c:213`) has them deleted;
* `stop` is the offset of the last byte, but is clipped to the *size* of the image
  (`dig.c:794`, `803`).  If the size is a multiple of the buffer, the block of
  that byte is never read: the file is neither closed nor logged although the
  call returns `SCALPEL_OK` (`EndsPastLastRead` excludes it), where
  `scalpel.h:214` says "the file is closed".  In preview mode nothing is read,
  and the place is one further on; there it takes a skip that is no multiple of
  the buffer to seek past the end of the image (`dig.c:940`) with work left;
* the search for the next block with work (`dig.c:936`) asks for the length of one
  queue more before `success` stops it: after the work in the last block of a
  preview, and with a skip behind the last block, it reads behind `carvelists`
  (`SeekOverrun`; `StaysInside` says that it is these two);
* a length of 0, or none that is a number, and one that wraps (`-1`), are accepted
  (`scalpel.c:263`): the file ends before it begins, its last piece may come before
  its first, or be a huge number of bytes (`dig.c:1054`), and the name is used after it was
  freed (`dig.c:1116`);
* a read that begins inside a block adds the rest of that block for every block
  of a stretch (`dig.c:1907`), and so meets the next covered block without
  knowing: it returns covered bytes, where `dig.c:1853` says that it "silently
  skips blocks that are marked covered" (`ReadsInStep` excludes it);
* the same clipping (`dig.c:794`) gives a clipped file one byte too many, whatever
  `readbuffer` held, in spite of the comment "don't carve past end of image
  file" one line above;
* headers shorter than the longest needle are found twice in the bytes two
  chunks share, and out of order (`dig.c:571`), where `scalpel.h:246` says the
  locations are sorted;
* a REVERSE footer exactly `length` behind its header (`dig.c:779`) is found with
  `-d` only (`dig.c:349`), which is said not to affect what is carved
  (`scalpel.c:189`);
* a file cut at its maximum length because there is no footer is not marked as
  chopped in the log (`dig.c:760`);
* `empty_queue`, `queue_length`, `end_of_queue` and `local_init_context` take no
  lock and see calls half done (`prioque.c:173`, `351`, `409`, `750`): a queue that is
  being copied into is empty for a while, one that is searched at its end;
* `-r` forgets the last match at a chunk boundary (`dig.c:258`);
* `ftello_use_coverage_map` counts a covered block at the position twice
  (`dig.c:1828-1837`); if block 0 is covered, pass 2 begins at a negative
  position and looks for its queue outside `carvelists` (`CarveLost`);
* the step back of pass 1 skips covered blocks as well; with blocks of the size
  of a chunk it may undo the whole chunk, again and again;
* the bitmap has `numblocks / 8` bytes, rounded down (`dig.c:1423`): the bits of
  the last blocks lie behind it;
* images of one base name replace each other's database (`dig.c:1217`);
* a read error in the list file is retried for ever (`scalpel.c:678`);
* on a file system whose first group begins at block 1 (1K blocks), the live
  extractor's numbers are one too low (`freeblock_user.c:52`);
* the live extractor's check against the count of free blocks never counts
  (`freeblock_user.c:53`), and the count itself may be out of date (`117`);
* `sb_bread()` reports errors by NULL, the module looks for error pointers
  (`ext4_freeblock_module.c:142`, `198`), and never gives back the path of
  `kern_path()` (`44`);
* `-O` is documented (`scalpel.c:200`) but not in the option string (`542`), so
  that it ends the program; `-save` is to `getopt()` `-s ave`, so that it sets a
  skip given before it to 0;
* a wildcard line does not reach the tables of the lines before it
  (`helpers.c:141`), where `scalpel.conf` speaks of all occurrences;
* an output directory in a directory that does not exist becomes that directory
  (`scalpel.c:646`, with glibc); without `-t` the maps directory is the output
  directory, which has to be empty, so that `-u` alone never finds a blockmap;
* a refused duplicate leaves the position at the element that is there
  (`prioque.c:114`); `local_delete_current` leaves the queue's own position at
  the freed node (`652`), in spite of "thread-safe" (`prioque.h:6`); a call with
  the same queue twice waits for its own lock (`424`).

## 6. What is proved

What is proved of `CarveImage` holds for every `BufSize`, `MaxOpen`,
`OrganizeMax`, every search specification, every set of images with their
databases, and every set of command lines; the assumptions are those named in
`CarveImage` (`SizeAssumption`, `SpecAssumption`, `ImageAssumption`,
`OptionAssumption`): sizes are positive, a type's length is any unsigned number
(below `Word`, which is 2^64 in the code), headers lie in the image.  What is
proved of `Session` holds for every set of images,
in any number and order, any base names and options, any bound on headers, and
whichever images end in an error (`SessionAssumption`: the images asked for
have a size and a base name).

* `CarveProofs`, of `PrioQueue`: `Place` is a position of the new queue with
  nothing greater before it and nothing less behind (`PlaceInRange`), what the
  new queue looks like (`AddPoints`, `AddRange`), and `AddKeepsOrder`.
* `CarveProofs`, of `CarveImage`: `TypeCorrect`.  `TypeOK` is not inductive: closing a file
  must not take the counter below zero, and working on a block needs a queue
  for it.  `TypeInv` adds `Counted` (no more files are open than counted) and
  `HasQueue`.  The lemmas `ForwardType`, `ReverseType` say that the planner
  never chooses an end below 0.
  Then `WorkIsFiled` and `OpenFilesCounted`.  For the first, a
  new job is in no queue yet, so that one insertion per block keeps "at most
  one piece per job" (`FilePiece`, `FiledPlanCarve`).  For the second, the count
  is exact because a piece that starts a file never meets it open; that in turn
  needs that open files began in blocks already read (`Begun`), that the pieces
  to come start no open file (`StartsAhead`), and that a buffer is short only
  at the end of the image (`FullBuffer`).  It uses `Filed`, `TypeInv` and a
  little arithmetic of blocks (`BlockUnique`, `NextBlock`, `BlockMonotone`).
  Last, `PlansIdeal`: for a database in ascending order (`AscendingDatabase`:
  headers strictly, footers weakly) the plan is the one of a planner without
  `prevstopindex`, for any number of headers and footers.  `IdealInv` says of
  the planner under way that the footers it has passed over lie before every
  header to come (`FootersPassed`), and that the jobs so far are those of the
  headers looked at so far, with the right end (`JobsIdeal`), all of them
  (`JobsComplete`), each once (`JobsOnce`).  `ForwardIdeal` and `ReverseIdeal`
  show that the two loops over the footers find the first footer past the
  header, and the farthest within length, also when they begin at
  `prevstopindex`.  The order is what it takes: with headers out of order a
  footer passed over may be the one a later header needs.  It is the order in
  which pass 1 records the occurrences of a longest needle (`LongAscend` of
  `DigProofs`), and the run `carve_plan` has databases of this kind.

* `CarveProofs`: `CarvedRight`, `AuditsWhole` and `AuditIsFinal`, what
  carving is for.  None of them is inductive; the chain of invariants is

  1. `Planned`: while files are planned nothing is written or recorded, and every
     job begins at or behind the place where the image is read from;
  2. `Progress`: how far every job has come follows from the position of the
     file and the cursor.  A job whose pieces are all ahead has written nothing
     (`Pending`), one that is under way has written exactly the bytes up to the
     current block, or through it when the cursor is past its piece (`Reached`),
     and one behind is complete.  It is said of the files that do not end before
     they begin (`Forward`), as is all that follows.  The big seek keeps this because it passes no
     block with work (`NothingPassed`);
  3. `AuditInv`: a recorded job is one whose last piece has been passed, so no
     piece of it is left, and it is in the log once;
  4. `ContentInv`: with an aligned skip, `readbuffer` holds the bytes of the
     block whose queue is carved, so each piece appends the right stretch
     (`SpanPlace`, `WrittenFaithful`).

  How a call ends, and the refinement:
  - `PlanSound`: every job begins at a header inside the image and ends, one
    byte behind its last one at most, inside too; with a length from 1 to `Word`
    less the size of the image it does not end before it begins, as no end wraps then
    (`ForwardIfProper`).
  - `CarvesToTheEnd`: `Remains` says that what is not recorded yet still has its
    last piece in a queue the reader has not reached, or ends past the last
    read; where the pass ends no such queue is left.  The reader's positions are
    those the skip allows (`OnPace`).  `Within`: a block is read only for the
    work in it, so that the reader stays one block behind the last one of the
    image at most, for which `carvelists` still has a place; but the search there
    looks at the next one too.  `Within` says that the reader gets there in one of the
    cases of `StaysInside` only (`Excuse`): `fread()` leads to the end of the
    image at most.
  - `SubdirsBounded`: `DirsFill` counts the files of a type in each of its
    subdirectories: as many as fit in those left behind, as many as counted in
    the last one, none in those to come.  A file more (`OneMoreFile`) keeps it.
  - `CarvingKeepsPromise`: with an aligned skip (`WholeSkip`) the bytes of a file
    are determined by their number (`SoFarRight`, from `ContentInv`), so that a
    step of `CarveImage` maps to `Want`, to `Extend` of one file, to `Stop`, or
    to nothing.  Without `WholeSkip` it is not so: a file may begin with bytes
    of another place (finding `carve_first_byte`); the run that checks the
    refinement has no other skips either.  The lengths are proper (`ProperLengths`):
    a file that ends before it begins is no stretch of the image.

* `DigProofs`: all safety invariants of `DigImage`, for every image, every
  search specification, any buffer that holds the longest needle, and every
  skip (`SpecAssumption`, `InputAssumption`).
  - `Places` (with `TypeOK`: `DigTypeCorrect`): where the chunk lies in the image
    and the file behind it, and where the next search begins.
  - `EveryHeaderFound`: `OnlyHeaders` says that what is recorded are headers in
    what has been read, `HeadersKept` that every header is recorded that starts
    where the search has been, for each type as far as it has come in this
    chunk.  It is kept from chunk to chunk because the overlap of `Longest - 1`
    bytes holds every occurrence that does not end in the chunk
    (`OverlapCovers`).  `LongAscend` gives the order of the longest headers.
  - `EveryUsefulFooterFound`: `FootersKept`, and `HeaderSeen` with `LastIsLast`:
    in a chunk in which footers are not viable no recorded header is near enough
    to use one.

* `CoverageProofs`: all properties of `CoverageMap`, for every buffer, image,
  blockmap, command line and carved file, and any number of runs and files
  (`CoverageAssumption`: sizes are positive, also the block size in a blockmap,
  by which the code divides; the overlap is less than the buffer).
  - `LayerInv`, the invariant under all of them: the bitmap has a bit for every
    block of the image (`Geometry`), the blockmap has its block size, a bit is set
    for every block counted when the run began, and while nothing is astray for
    no other one (`Agree`, at the level of bytes).  When pass 2 begins, steps of
    pass 1 out of step are forgotten, bits that are wrong are not (`DigDone`).
    `BitmapFollowsBlockmap` states it of the specification.
  - The loops: `WalkRun` and `SeekRun` are the functions of the turns.
    `WalksWell` holds of every turn of a walk in step, by the least turn of which
    it does not (`LeastExists`): what has been taken are the clear bytes passed,
    as many as are no longer needed, and the walk is done or at the beginning of
    a block, from which every further turn is in step (`TakesAtBoundary`).
    `WalkGives` is the result, from which `ReadGives`, `PositionIs` and
    `FreeFromWalk` say what a read, an address and the fragments of a file are.
    For a seek forwards `SeekAt` says that offset, position and bytes kept follow
    from the number of covered and of clear blocks passed (`HiddenBlocks`,
    `ClearBlocks`); `SeekTarget` that in step the loop can end only behind the
    clear blocks in which the target lies (`SeekComesTo`).
  - `Pass1SeesAll`: `SeenOK` says that pass 1 has seen every byte that it ought
    to see below the position and in the overlap that follows; the step back is
    over such bytes (`BackSteps`), and a read that is shorter than the buffer leaves nothing
    behind it.  `Pass1MovesOn` is the same lemma (`ChunkInStep`): a chunk has
    more bytes than the overlap takes back.
  - `PlacesAreExact`: the open bytes below `Position(n)` are `n`, or all there are.
    A queue of equal priorities takes every further stretch in front
    (`AddsInFront`), so that `Fragments` is the walk turned round.
  - `BlockmapIsRight`: the blocks of a walk's stretches are those with a byte of
    the file, and no two stretches share one (`BlocksRise`), so that every block
    is counted once (`CountsOnce`).  `CountsOK` needs no step of pass 1 to be in
    step: the blockmap depends on the bitmap only.
  - `ReadsAreMeant`: where `Tell` is in step it gives the number of open bytes
    below (`TellIs`), and a seek in step passes as many open bytes as it is asked
    to (`SeekPasses`); the invariant is `LayerInv` with the property itself.

* `QueuePackageProofs`: `QueuesAreSound`, for any number of threads, queues,
  elements, priorities and nodes, whatever the queues hold at first
  (`QueueAssumption`).  `PassedOK` is the type of `passed`.  Every function of the
  package is one from memory to
  memory, and so has a lemma on memories: `Holds(m, L, P)` says that the lists in
  memory `m` are those of `L`, a sequence of addresses per queue, disjoint,
  complete, counted and in order, and that the positions of the queues of `P`
  stand at a node with the node before it (`Standing`).  `ListIs` shows that
  following the pointers finds `L`, so that the lists can be argued about as
  sequences: `UnlinkHolds` takes a node out of one (`Cut`), `LinkHolds` puts one
  in (`Grown`), `OneListChanges` says why the others stay as they are.  The
  invariant `Inv` has `P` be all queues while no thread has a `Context`, and none
  afterwards: that the lists are sound does not depend on it, that no call strays
  does.  The loops of `copy_queue` and `merge_queues` are followed turn by turn,
  by the least turn at which they could go wrong (`LeastExists`).  No lock is
  needed for it, since a call does its work in one step: what the locks are for is
  that it may be one.

  `QueuesKeepPromise`, the refinement of `QueueSequences`: `View(m, L, q)` is what
  the callers see of `q` (`ContentIs`), and every function on memory has a lemma on
  it, `Turns(m, L, n, K, q, v)`: from `m` to `n` the callers of `q` come to see `v`
  and those of the other queues what they saw.  A node is taken out of a list where
  an element leaves the sequence (`CutElems`), a new one goes in where `Place` puts
  its element (`PlaceIs`), and `Gathers` follows the loops of `merge_queues` and
  `copy_queue` beside the recursion of `Merged`.  A step in which `malloc()` fails
  is the abstract step to the end.  The invariant is stronger by three parts.
  `ApartOK`: the `previous` of a position is the node before it, or no node of that
  list and not NULL, so that what `local_delete_current` takes from under a queue's
  position leaves it where `Without` has it.  `LocksOK`: a thread holds the lock of
  the first queue when it waits for the second, so that the two are not the same
  when it works; without that a copy of a queue to itself would be a step the
  promise has not.  `StillOK`: of a queue whose lock is free nothing is left in
  `passed`, so that a call without a lock gets what is there now (`LookShows`,
  `CountShows`, `EndShows`); of a queue whose lock is taken any answer will do
  (`GlimpsesAre`).  A call with locks has to work on queues that are `busy`, and only
  on them (`Attends`, from the locks it has by `LocksAttends`).  Every position may
  begin at any element, or at the end of an
  empty queue (`Rewound`): a refused duplicate leaves it where it is.

* `PostVerifyProofs`: all safety invariants of `PostVerify`, for every finite set of
  files of any kinds and verdicts.  `Settled`: before its verifier a file is
  where it was carved, afterwards in one of the places of its verdict
  (`GoodFilesKept`); `MetAgain`: a file that was moved during a walk is in one
  directory the walk may still come to, once (`RenamedOnce`); `SortedSoFar`:
  what a walk has passed is sorted, media files only with `-save`
  (`VerifiedSorted`); `OneAlien`: the image
  verifier ends at the first image it meets twice.

* `FreeBlocksProofs`: all safety invariants of `FreeBlocks`, for any number of
  groups, blocks and changes at any moment (the statements leave out what section 4
  says: the live program where the first block is 1, and bitmaps never written). 
  `Untouched`: what nobody changed is
  as it was; `Meant`: a copied bitmap is right about the blocks nobody touched,
  whenever it was copied; `Listed` and `Read`: the list is ascending, what is
  missing in it is lost, and the output is what was passed of it (`AllRead` for
  the end).  The arithmetic says that a block has one group and one bit
  (`PlaceUnique`, `GroupIs`), and that the ascending sequence of a finite set
  exists, with the rank of an element as its place (`AscendingIs`).

* `StartupProofs`: all properties of `Startup`, for every alphabet, command line,
  configuration and state of the directories (`AlphabetAssumption`,
  `StartupAssumption`: a letter's other case is a letter, tokens are byte strings,
  `ave` is no number, `NoPath` no word).
  - `SearchSkipsNothing`: the recursions of `Needles` run over bounded numbers, so
    they are functions, and what such a function is can be shown without an
    induction: a function that meets the equation is named outright (the table of
    last places for `init_bm_table`, in `TableIs`; the first match ahead for the
    search, in `SearchFinds`), and that no other function meets it follows from the
    least argument at which two of them differ (`LeastExists`).  That a jump skips no
    match is `SameAhead`: between a place and the one after the jump none matches.
    `SpecMade`, an invariant, says that every table in use was made by
    `init_bm_table` from its needle and the wildcard of that moment.
  - `ConfigurationRead`: `SpecsRead` says that `SearchSpec` holds the types of the
    lines read so far, each at its rank, and `PlaceOK` what is left of the file.  The
    limit is looked at before a line is read, so that one more type gets in, but only
    with the last line, which `SpecsRead` keeps in mind.  `TranslateIs`: `translate`
    has an answer for every token.
  - `DigsAsTold`: `ToldInv` relates `opt` to the part of the command line that
    getopt() has taken (`AsTold`), which ends at a word that is no value of an
    option before it (`AtWord`).
  - `StartsSession`, the refinement: `RunTold` says that `images` are those among
    the words taken so far, in their order (`ImagesIn`), which grows by a word at
    a time (`ImagesGrow`).  Every step is a stutter of `Session`, its `OpenAudit`,
    `NoImages` or `OpenAuditFails` (`RunNext`).

* `SessionProofs`: all invariants of `Session`.
  - `FileNamesUnique`: numbers are below the counter as well (`NumInv`), so that
    the files numbered from the counter on (`Numbered`) meet none of those there
    are, also when an error leaves some of the numbers unused.
  - `AuditEnded`: `AuditInv` says for every place of `main()` how the log
    stands; the verifiers' places are reached with it ended, or without an
    image.
  - `ImagesInOrder`: `TurnInv` cuts the images asked for into those in the log,
    the one at work (`Turn`) and those in `todo`, which therefore is empty where
    the loop ends.
  - `WrittenTraced`: `DbInv` says that a header in the database is of the image
    being carved, or of one in the log that was skipped with all after it, up to
    now.  Skipping one more image keeps this (`SkippedNow`), later entries do
    not touch it (`SkippedKept`), and with no image skipped the database is of
    one image (`DatabaseOfImage`).

Only model-checked:

* liveness (`StartedResolved`, `SearchEnds`, `RunEnds`, `CallsReturn`,
  `VerifyEnds`, `ExtractEnds`): TLAPS has no reasoning about fairness here.

## 7. What is not modelled

* In `QueuePackage`: `elementsize`, a `compare` other than equality, what a caller
  does later with the pointer `pointer_to_current` returns, and calls through a
  position that strays.
* In `Startup`: options written together (`-bd`), `--`, lengths of strings and
  lines, suffixes and the maximum length of a type, what `-h` and `-V` print.
* Names of files and directories, the wording of the log, progress output,
  timing.
* `CarveImage` and `DigImage` are the passes without `-m` and `-u`;
  `CoverageMap` has both passes' way through the image with them, and without
  `-s` and `-p`.  A blockmap file with a block size of 0 is left out.
* In `CarveImage`, `-O` is the flag it sets, although no command line reaches it
  (`Startup`).
* In `carveImageFile` a last byte at offset 0 means "nothing to carve"; only a
  type of one byte can meet this, and `PlannedIsIdeal` makes the same
  exception.
* In preview mode no read ever fails or ends: the code seeks, past the end of
  the image too, until no work is left.
* The parsing of carved files in the verifiers: a verdict is data.  Their
  reports, and `run_post_verify()` without an output directory, are left out, as
  are carved files directly in the output directory (without subdirectories for
  each type the folders of the verdicts are beside the output directory).
* A list that is cut off may end in a part of a number; `FreeBlocks` cuts between
  numbers.  Integer widths, the 512 MB of the user's buffer, the loading of the
  kernel module and its device are left out.
