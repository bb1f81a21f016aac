----------------------------- MODULE CoverageMap -----------------------------
(***************************************************************************)
(* The coverage layer of dig.c: the blockmap file of -m, which counts for  *)
(* every block of an image the carved files that contain it, and the       *)
(* bitmap of -u, with which both passes see the image without the blocks   *)
(* the blockmap counts.  fread, fseeko and ftello are replaced by versions *)
(* that step around covered blocks.                                        *)
(*                                                                         *)
(* Several runs over one image share the blockmap file.  A byte is its     *)
(* offset in the image ("real"); its "logical" offset leaves covered       *)
(* blocks out.  What is carved and where work is queued is left open.      *)
(***************************************************************************)
EXTENDS Integers, Sequences, FiniteSets, PrioQueue

CONSTANTS
  BufSize,      \* SIZE_OF_BUFFER
  ByteBits,     \* bits in a byte of the bitmap: 8
  Sizes,        \* sizes of disk images
  Maps,         \* blockmap files found by the first run
  NoFile,       \* the blockmap file does not exist
  Options,      \* command lines: [update, use, blocksize, overlap]
  Files,        \* carved files: logical first and last byte
  MaxRuns,      \* bound: runs over the image
  MaxAudits     \* bound: carved files of one run

ASSUME CoverageAssumption ==
  /\ BufSize \in Nat \ {0} /\ ByteBits \in Nat \ {0}
  /\ Sizes \subseteq Nat \ {0}
  /\ \A o \in Options : /\ o.use \in BOOLEAN /\ o.update \in BOOLEAN
                         /\ o.blocksize \in Nat \ {0} /\ o.overlap \in 0..(BufSize - 1)
  /\ \A m \in Maps : m = NoFile \/ (m \in Seq(Nat) /\ (m # <<>> => m[1] > 0))
  /\ \A f \in Files : f.start \in Nat /\ f.stop \in Nat /\ f.start <= f.stop

VARIABLES
  size,       \* filesize
  map,        \* the blockmap file: block size, then one count per block
  run,        \* number of the run
  opt,        \* its command line; overlap is longestneedle - 1
  pc,         \* where the run is
  bs,         \* coverageblocksize
  nb,         \* coveragenumblocks
  bitmap,     \* coveragebitmap
  filepos,    \* the real position of infile
  chunk,      \* the last read: its bytes, the logical offset the program
              \* gives to the first (begin) and the one it meant (meant)
  audit,      \* the last carved file: its logical bytes and its audit lines
  audits,     \* files carved in this run
  ghost       \* for properties only, see NoGhost

vars  == <<size, map, run, opt, pc, bs, nb, bitmap, filepos, chunk, audit, audits, ghost>>
image == <<size, run, opt>>
maps  == <<bs, nb, bitmap>>

Passes == {"dig", "carve"}
Ended  == {"done", "FATAL_READ", "FILE_READ", "FILE_WRITE", "ABORT", "crash"}

NoChunk == [bytes |-> <<>>, begin |-> 0, meant |-> 0]
NoAudit == [start |-> 0, stop |-> 0, lines |-> <<>>]

(* What only properties look at: the blocks the blockmap counted at the    *)
(* beginning; what it ought to count by now; the bytes seen in pass 1;     *)
(* whether a step began where the layer loses step; whether an update of   *)
(* the blockmap failed.                                                    *)
NoGhost == [marked |-> {}, covers |-> <<>>, seen |-> {}, astray |-> FALSE, missed |-> FALSE]

Least(a, b)   == IF a < b THEN a ELSE b
Ceil(a, b)    == (a + b - 1) \div b
Abs(a)        == IF a < 0 THEN 0 - a ELSE a

-----------------------------------------------------------------------------
(***************************************************************************)
(* The walks over the bitmap.  Definitions called a bug in reach are ways  *)
(* the one that follows could go wrong; nothing else uses them.            *)
(***************************************************************************)
Covered(b) == bitmap[b]

(* How many blocks from b on, upwards or downwards, are covered, or not.   *)
RunLength(b, covered, sign) ==
  CHOOSE n \in 0..nb :
    /\ \A i \in 0..(n - 1) : b + sign * i \in 0..(nb - 1) /\ Covered(b + sign * i) = covered
    /\ b + sign * n \in 0..(nb - 1) => Covered(b + sign * n) # covered

(* What a block contributes to a sum while the position stands at p: the   *)
(* code leaves the position alone while it adds up several blocks.         *)
Contribution(p) == bs - (p % bs)

(* A bug in reach: covered blocks are read.                                *)
WalkBlind(from, needed) == <<[op |-> 0, start |-> from, length |-> needed]>>

(* One turn of the loop of fread_use_coverage_map(), generateFragments()   *)
(* and positionUseCoverageBlockmap(): at real position p, in block b, with *)
(* n bytes needed, covered blocks are skipped and a stretch is taken.      *)
Turn(w) ==
  IF w.n = 0 \/ w.b >= nb THEN w
  ELSE LET skipped == RunLength(w.b, TRUE, 1)
           start   == w.p + skipped * Contribution(w.p)
           kept    == Least(RunLength(w.b + skipped, FALSE, 1),
                            Ceil(w.n, Contribution(start)))
           length  == Least(w.n, kept * Contribution(start))
       IN  [p |-> start + length, b |-> (w.b + skipped) + kept, n |-> w.n - length,
            taken |-> Append(w.taken, [op |-> 0, start |-> start, length |-> length])]

(* The whole loop, which leaves a block behind with every turn: the needed *)
(* bytes from real position from on as stretches between covered blocks.   *)
Walk(from, needed) ==
  LET turns[i \in 0..nb] ==
        IF i = 0 THEN [p |-> from, b |-> from \div bs, n |-> needed, taken |-> <<>>]
        ELSE Turn(turns[i - 1])
  IN  turns[nb].taken

End(stretch) == stretch.start + stretch.length
Bytes(stretches) ==
  LET bytes[i \in 0..Len(stretches)] ==
        IF i = 0 THEN <<>>
        ELSE bytes[i - 1] \o [j \in 1..stretches[i].length |-> (stretches[i].start + j) - 1]
  IN  bytes[Len(stretches)]

(* A bug in reach: no translation.                                         *)
PositionPlain(logical) == logical

(* positionUseCoverageBlockmap(): the real offset of a logical one.        *)
Position(logical) ==
  LET w == Walk(0, logical)
  IN  IF ~opt.use THEN logical ELSE IF w = <<>> THEN 0 ELSE End(Last(w))

(* ftello_use_coverage_map(); bits behind the bitmap may be anything.      *)
Tell(p) ==
  IF ~opt.use THEN {p}
  ELSE LET last == p \div bs IN
       {LET cov == {b \in 0..last : IF b < nb THEN Covered(b) ELSE b \in junk}
        IN  p - bs * Cardinality(cov) - (IF last \in cov THEN Contribution(p) ELSE 0)
        : junk \in SUBSET (nb..last)}

(* Bugs in reach: covered blocks are not skipped; the sign is lost.        *)
SeekPlain(p, offset)    == IF p + offset < 0 THEN p ELSE p + offset
SeekUnsigned(p, offset) == p + Abs(offset)

(* One turn of the loop of fseeko_use_coverage_map(): covered blocks       *)
(* lengthen the offset o, the others count.                                *)
SeekTurn(s, sign) ==
  IF s.kept >= Abs(s.o) \/ s.b \notin 0..(nb - 1) THEN s
  ELSE LET skipped == RunLength(s.b, TRUE, sign)
           skip    == sign * (skipped * Contribution(s.q))
           more    == RunLength(s.b + (sign * skipped), FALSE, sign)
           keep    == more * Contribution(s.q + skip)
       IN  [q |-> (s.q + skip) + (sign * keep), b |-> s.b + (sign * (skipped + more)),
            kept |-> s.kept + keep, o |-> s.o + skip]

SeekOffset(p, offset) ==
  LET sign == IF offset > 0 THEN 1 ELSE -1
      turns[i \in 0..nb] ==
        IF i = 0 THEN [q |-> p, b |-> p \div bs, kept |-> 0, o |-> offset]
        ELSE SeekTurn(turns[i - 1], sign)
  IN  turns[nb].o

(* fseeko_use_coverage_map(); a seek before the file does nothing.         *)
Seek(p, offset) ==
  LET target == p + (IF opt.use THEN SeekOffset(p, offset) ELSE offset)
  IN  IF target < 0 THEN p ELSE target

(* fread_use_coverage_map(): the bytes read at p, and the position after.  *)
Wanted(p) == IF opt.use THEN Walk(p, BufSize)
             ELSE <<[op |-> 0, start |-> p, length |-> BufSize]>>
ReadPast(p) == Bytes(Wanted(p))     \* a bug in reach: short reads count as whole
Clipped(s) ==
  [s EXCEPT !.length = IF s.start >= size THEN 0 ELSE Least(s.length, size - s.start)]
Read(p) == LET w == Wanted(p) IN Bytes([i \in DOMAIN w |-> Clipped(w[i])])
AfterReadStays(p) == p              \* a bug in reach: the position does not move
AfterRead(p) ==
  LET w == Wanted(p)
  IN  IF w = <<>> THEN p
      ELSE IF Last(w).start >= size THEN Last(w).start ELSE Least(End(Last(w)), size)

-----------------------------------------------------------------------------
(***************************************************************************)
(* Where the layer stays in step, and what it ought to do.  Reading: at a  *)
(* block boundary, or when sums are taken over one block only, or when the *)
(* first stretch is long enough.                                           *)
(***************************************************************************)
ReadsInStep(p, n) ==
  ~opt.use \/ p % bs = 0 \/ p \div bs >= nb
    \/ LET blocks == RunLength(p \div bs, Covered(p \div bs), 1)
       IN  blocks = 1 \/ (~Covered(p \div bs) /\ blocks * Contribution(p) >= n)

TellsInStep(p) == ~opt.use \/ (p \div bs < nb /\ ~Covered(p \div bs))

(* Seeking forwards: from a boundary, when the stretch of blocks in which   *)
(* the target lies goes on for as long as the covered blocks before it, or *)
(* to the end.                                                             *)
SeeksInStep(p, n) ==
  ~opt.use \/ n = 0
    \/ /\ p % bs = 0
       /\ \E last \in (p \div bs)..(nb - 1) :
            LET hidden == Cardinality({b \in (p \div bs)..last : Covered(b)})
                kept   == ((last + 1) - (p \div bs)) - hidden
            IN  /\ ~Covered(last)
                /\ (kept - RunLength(last, FALSE, -1)) * bs < n
                /\ \/ last + 1 = nb
                   \/ Covered(last + 1) /\ (kept - hidden) * bs >= n

(* Seeking back: over no covered block, and the first stretch is enough.   *)
BackInStep(p, n) ==
  ~opt.use \/ n = 0
    \/ LET blocks == RunLength(p \div bs, FALSE, -1)
       IN  /\ p \div bs < nb
           /\ n <= p - bs * ((p \div bs) + 1 - blocks)
           /\ blocks * Contribution(p) >= n

(* The bytes a run ought to see: those in blocks not counted before.       *)
Free(p)        == ~opt.use \/ p \div bs \notin ghost.marked
FreeBelow(p)   == Cardinality({x \in 0..(p - 1) : Free(x)})
FreeFrom(p, n) ==
  IF ~opt.use THEN p..((p + n) - 1)
  ELSE {x \in p..((nb * bs) - 1) : Free(x) /\ FreeBelow(x) - FreeBelow(p) < n}

(* s names the numbers of S, each once, in ascending order.                *)
Lists(s, S) ==
  /\ \A i, j \in DOMAIN s : i < j => s[i] < s[j]
  /\ {s[i] : i \in DOMAIN s} = S

-----------------------------------------------------------------------------
Init ==
  /\ size \in Sizes /\ map \in Maps
  /\ run = 1 /\ opt \in Options
  /\ pc = "setup"
  /\ bs = 1 /\ nb = 0 /\ bitmap = <<>>
  /\ filepos = 0 /\ chunk = NoChunk /\ audit = NoAudit /\ audits = 0
  /\ ghost = NoGhost

(* The map directory is looked at with -m or -u only; -u alone takes the   *)
(* block size from the file.                                               *)
Mapped    == opt.use \/ opt.update
BlockSize == IF opt.use /\ ~opt.update /\ map # NoFile /\ map # <<>>
               THEN map[1] ELSE opt.blocksize
Blocks    == Ceil(size, BlockSize)
NewMap    == <<opt.blocksize>> \o [b \in 1..Blocks |-> 0]

(* The file exists, agrees with -m, and with -u has an entry per block.    *)
MapFits ==
  IF map = NoFile THEN ~opt.use
  ELSE /\ map # <<>>
       /\ map[1] = BlockSize
       /\ opt.use => Len(map) > Blocks

(* The bits of a new bitmap that are cleared: numblocks / 8 bytes.         *)
Cleared     == ByteBits * (Blocks \div ByteBits)

(* setupCoverageMaps(): a bit that was never cleared may be set.           *)
SetUpMaps ==
  /\ pc = "setup" /\ Mapped /\ MapFits
  /\ bs' = BlockSize /\ nb' = Blocks
  /\ map' = IF map = NoFile THEN NewMap ELSE map
  /\ LET marked == IF opt.use THEN {b \in 0..(Blocks - 1) : map[b + 2] > 0} ELSE {}
         count  == [b \in 0..(Blocks - 1) |->
                      IF b + 2 <= Len(map') THEN map'[b + 2] ELSE 0]
     IN  \E junk \in SUBSET (IF opt.use THEN Cleared..(Blocks - 1) ELSE {}) :
           /\ bitmap' = [b \in 0..(Blocks - 1) |-> b \in marked \cup junk]
           /\ ghost' = [NoGhost EXCEPT !.marked = marked, !.covers = count,
                                       !.astray = ~(junk \subseteq marked)]
  /\ pc' = "dig"
  /\ UNCHANGED <<image, filepos, chunk, audit, audits>>

SetUpNothing ==
  /\ pc = "setup" /\ ~Mapped
  /\ pc' = "dig"
  /\ UNCHANGED <<image, map, maps, filepos, chunk, audit, audits, ghost>>

(* The file is short or cannot be read; it does not exist or does not      *)
(* agree; it cannot be opened for writing, or only part of it is written.  *)
SetUpFails ==
  /\ pc = "setup" /\ Mapped
  /\ \/ pc' = "FATAL_READ" /\ map # NoFile /\ UNCHANGED map
     \/ /\ pc' = "ABORT" /\ UNCHANGED map
        /\ IF map = NoFile THEN opt.use ELSE map # <<>> /\ map[1] # BlockSize
     \/ /\ pc' = "FILE_WRITE" /\ opt.update /\ MapFits
        /\ IF map = NoFile
             THEN map' \in {NoFile} \cup {SubSeq(NewMap, 1, n) : n \in 0..Blocks}
             ELSE UNCHANGED map
  /\ UNCHANGED <<image, maps, filepos, chunk, audit, audits, ghost>>

(* A chunk of pass 1, and the step back.                                   *)
DigChunk ==
  /\ pc = "dig"
  /\ Len(Read(filepos)) > opt.overlap
  /\ LET bytes == Read(filepos)
         after == AfterRead(filepos)
     IN  /\ \E t \in Tell(after) :
              chunk' = [bytes |-> bytes, begin |-> t - Len(bytes), meant |-> t - Len(bytes)]
         /\ filepos' = Seek(after, 0 - opt.overlap)
         /\ ghost' = [ghost EXCEPT !.seen = @ \cup {bytes[i] : i \in DOMAIN bytes},
                        !.astray = @ \/ ~ReadsInStep(filepos, BufSize) \/ ~TellsInStep(after)
                                     \/ ~BackInStep(after, opt.overlap)]
  /\ UNCHANGED <<image, map, maps, pc, audit, audits>>

(* The end of pass 1; pass 2 opens the image again.                        *)
DigDone ==
  /\ pc = "dig"
  /\ Len(Read(filepos)) <= opt.overlap
  /\ pc' = "carve"
  /\ filepos' = 0 /\ chunk' = NoChunk
  /\ ghost' = [ghost EXCEPT !.astray = \E b \in 0..(nb - 1) : Covered(b) /\ b \notin ghost.marked]
  /\ UNCHANGED <<image, map, maps, audit, audits>>

ReadFails ==
  /\ pc \in Passes
  /\ pc' = "FILE_READ"
  /\ UNCHANGED <<image, map, maps, filepos, chunk, audit, audits, ghost>>

(* carvelists has a queue for this logical offset.                         *)
HasQueue(t) == t >= 0 /\ t \div BufSize <= 1 + (size \div BufSize)

(* A block of pass 2: one big seek over n empty queues, a read.            *)
CarveBlock ==
  /\ pc = "carve"
  /\ \E t \in Tell(filepos), n \in 0..((size \div BufSize) + 1) :
       LET from  == IF n = 0 THEN filepos ELSE Seek(filepos, n * BufSize)
           bytes == Read(from)
           after == AfterRead(from)
       IN  /\ HasQueue(t) /\ (n > 0 => t + n * BufSize <= size)
           /\ bytes # <<>>
           /\ \E u \in Tell(after) :
                /\ chunk' = [bytes |-> bytes, begin |-> u - Len(bytes),
                             meant |-> t + n * BufSize]
                /\ pc' = IF HasQueue(u - Len(bytes)) THEN pc ELSE "crash"
           /\ filepos' = after
           /\ ghost' = [ghost EXCEPT !.astray =
                          @ \/ ~TellsInStep(filepos) \/ ~SeeksInStep(filepos, n * BufSize)
                            \/ ~ReadsInStep(from, BufSize) \/ ~TellsInStep(after)]
  /\ UNCHANGED <<image, map, maps, audit, audits>>

(* The position is no logical offset: a queue outside carvelists.          *)
CarveLost ==
  /\ pc = "carve"
  /\ \E t \in Tell(filepos) : ~HasQueue(t)
  /\ pc' = "crash"
  /\ UNCHANGED <<image, map, maps, filepos, chunk, audit, audits, ghost>>

(* A bug in reach: a file is where its logical offsets are.                *)
FragmentsPlain(f) == <<[op |-> 0, start |-> f.start, length |-> f.stop - f.start + 1]>>

(* generateFragments(): a queue in which all priorities are the same.      *)
Fragments(f) ==
  IF ~opt.use THEN <<[op |-> 0, start |-> f.start, length |-> f.stop - f.start + 1]>>
  ELSE LET w == Walk(Position(f.start), (f.stop - f.start) + 1)
           queue[i \in 0..Len(w)] ==
             IF i = 0 THEN <<>> ELSE AddToQueue(queue[i - 1], w[i])
       IN  queue[Len(w)]

(* The blocks of a fragment, and without its last one.                     *)
BlocksOfExclusive(s) == [i \in 1..((End(s) - 1) \div bs - (s.start \div bs)) |->
                           (s.start \div bs) + i - 1]
BlocksOf(s) == IF ~opt.update THEN <<>>
               ELSE [i \in 1..((End(s) - 1) \div bs - (s.start \div bs) + 1) |->
                       (s.start \div bs) + i - 1]
BlocksOfAll(q) ==
  LET blocks[i \in 0..Len(q)] == IF i = 0 THEN <<>> ELSE blocks[i - 1] \o BlocksOf(q[i])
  IN  blocks[Len(q)]

(* auditUpdateCoverageBlockmap(): the lines are written in the order of    *)
(* the queue, each followed by the updates of its blocks; the first update *)
(* that fails ends it all, and nobody looks at the result.                 *)
Updated(m, blocks) ==
  [i \in DOMAIN m |-> m[i] + Cardinality({j \in DOMAIN blocks : blocks[j] + 2 = i})]

AuditFile ==
  /\ pc = "carve" /\ chunk # NoChunk
  /\ audits < MaxAudits /\ audits' = audits + 1
  /\ \E f \in Files : \E n \in 0..Len(BlocksOfAll(Fragments(f))) :
       LET q      == Fragments(f)
           blocks == BlocksOfAll(q)
           done   == SubSeq(blocks, 1, n)
           logged == {i \in DOMAIN q : Len(BlocksOfAll(SubSeq(q, 1, i - 1))) <= n}
           bytes  == FreeFrom(Position(f.start), f.stop - f.start + 1)
       IN  /\ f.start < size
           /\ \A i \in 1..n : blocks[i] + 2 <= Len(map)
           /\ map' = IF opt.update THEN Updated(map, done) ELSE map
           /\ audit' = [start |-> f.start, stop |-> f.stop,
                        lines |-> SubSeq(q, 1, Cardinality(logged))]
           /\ ghost' = [ghost EXCEPT
                !.covers = [b \in DOMAIN @ |->
                              @[b] + IF \E x \in bytes : x \div bs = b
                                       THEN 1 ELSE 0],
                !.astray = @ \/ ~ReadsInStep(Position(f.start), f.stop - f.start + 1),
                !.missed = @ \/ \E i \in (n + 1)..Len(blocks) : blocks[i] < nb]
  /\ UNCHANGED <<image, maps, pc, filepos, chunk>>

(* The end of pass 2; the header/footer database may not be writable.      *)
CarveDone ==
  /\ pc = "carve"
  /\ \E t \in Tell(filepos) : HasQueue(t)
  /\ pc' \in {"done", "FILE_WRITE"}
  /\ UNCHANGED <<image, map, maps, filepos, chunk, audit, audits, ghost>>

(* Another run over the same image, with the blockmap as it was left.      *)
NextRun ==
  /\ pc \in Ended /\ run < MaxRuns
  /\ run' = run + 1 /\ opt' \in Options
  /\ pc' = "setup"
  /\ bs' = 1 /\ nb' = 0 /\ bitmap' = <<>>
  /\ filepos' = 0 /\ chunk' = NoChunk /\ audit' = NoAudit /\ audits' = 0
  /\ ghost' = NoGhost
  /\ UNCHANGED <<size, map>>

Halted == pc \in Ended /\ run = MaxRuns /\ UNCHANGED vars

Next == \/ SetUpMaps \/ SetUpNothing \/ SetUpFails \/ DigChunk \/ DigDone \/ ReadFails
        \/ CarveBlock \/ CarveLost \/ AuditFile \/ CarveDone \/ NextRun \/ Halted

Spec == Init /\ [][Next]_vars

-----------------------------------------------------------------------------
(***************************************************************************)
(* Properties.                                                             *)
(***************************************************************************)
Steady == pc \in Passes \cup {"done"} /\ ~ghost.astray

(* As long as every step is taken where the layer stays in step, a read    *)
(* returns the next bytes of the image without the covered blocks, none    *)
(* left out, the program gives them their logical offsets, and in pass 2   *)
(* they are the block whose queue it is going to work on.                  *)
ReadsMeantBytes ==
  Steady /\ chunk # NoChunk =>
    /\ Lists(chunk.bytes, FreeFrom(chunk.bytes[1], Len(chunk.bytes)))
    /\ \A i \in DOMAIN chunk.bytes : chunk.bytes[i] < size
    /\ Free(chunk.bytes[1])
    /\ chunk.begin = FreeBelow(chunk.bytes[1])
    /\ pc = "carve" => chunk.begin = chunk.meant

(* Pass 1 has seen every byte it ought to see, unless there are too few    *)
(* to search.  (At the end of pass 1 the ghost still tells of it.)         *)
AllFreeSeen ==
  pc = "dig" /\ ~ghost.astray /\ ReadsInStep(filepos, BufSize)
             /\ Len(Read(filepos)) <= opt.overlap /\ FreeBelow(size) > opt.overlap =>
    \A x \in 0..(size - 1) : Free(x) => x \in ghost.seen

(* Pass 1 comes to an end: every chunk moves the file on.                  *)
ChunkMovesOn ==
  pc = "dig" /\ pc' = "dig" /\ ~ghost'.astray => filepos' > filepos
DigAdvances == [][ChunkMovesOn]_vars

(* The real address of a logical offset has exactly that many free bytes   *)
(* below it, and only covered blocks lie between it and the byte itself.   *)
PositionExact ==
  pc \in Passes /\ opt.use /\ ~ghost.astray =>
    \A x \in 0..(size - 1) : Free(x) =>
      LET p == Position(FreeBelow(x))
      IN  p <= x /\ \A y \in p..(x - 1) : ~Free(y)

(* The audit lines of a file name its bytes, each once, the lines in       *)
(* descending order of their addresses.                                    *)
FragmentsExact ==
  Steady /\ ~ghost.missed /\ audits > 0 =>
    Lists(Bytes(Reverse(audit.lines)),
          FreeFrom(Position(audit.start), audit.stop - audit.start + 1))

(* What the carver computes in logical offsets is recorded in real ones,   *)
(* address by address (positionUseCoverageBlockmap) and stretch by stretch *)
(* (generateFragments), so that the log can be used without the blockmap.  *)
PlacesExact == PositionExact /\ FragmentsExact

(* The blockmap counts for every block the carved files that contain it.   *)
BlockmapCounts ==
  Steady /\ ~ghost.missed /\ opt.update =>
    \A b \in 0..(nb - 1) : b + 2 <= Len(map) => map[b + 2] = ghost.covers[b]
=============================================================================
