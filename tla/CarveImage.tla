----------------------------- MODULE CarveImage -----------------------------
(***************************************************************************)
(* carveImageFile() of dig.c: the second pass over one disk image.  The    *)
(* headers and footers found by the first pass are turned into carve jobs, *)
(* each job is filed into the work queue of every buffer-sized block of    *)
(* the image it touches, and the image is then read once, sequentially,    *)
(* while the queued pieces of all the jobs are appended to their files.    *)
(*                                                                         *)
(* Bytes are abstracted to where they come from: an offset in the image,   *)
(* Stale for what an earlier read left in readbuffer, Foreign for memory   *)
(* next to readbuffer.  Addresses are integers; the C code's unsigned      *)
(* wrap-around cancels out in every sum but two: the end a file gets from  *)
(* its type's length, which is taken modulo Word, and a negative number of *)
(* bytes, which is a huge one and goes past the end of readbuffer.         *)
(***************************************************************************)
EXTENDS PrioQueue, FiniteSets

CONSTANTS
  Word,         \* the values of an unsigned long long, 2^64
  BufSize,      \* SIZE_OF_BUFFER
  MaxOpen,      \* MAX_FILES_TO_OPEN
  OrganizeMax,  \* organizeMaxFilesPerSub, files of a type per subdirectory
  SearchSpec,   \* the search specification: a sequence of file types
  Images,       \* images with the header and footer database of pass 1
  Options       \* command lines

Needles     == 1..Len(SearchSpec)
SearchTypes == {"FORWARD", "FORWARD_NEXT", "REVERSE"}

ASSUME SizeAssumption ==
  /\ Word \in Nat \ {0}
  /\ BufSize \in Nat \ {0}
  /\ MaxOpen \in Nat \ {0}
  /\ OrganizeMax \in Nat \ {0}

(* endlength is 0 for a type without a footer.  A length is whatever       *)
(* strtoull() makes of the word in the configuration file (scalpel.c:263): *)
(* 0 for one that is no number, Word - 1 for "-1".                         *)
ASSUME SpecAssumption ==
  SearchSpec \in Seq([length : 0..(Word - 1), endlength : Nat,
                      searchtype : SearchTypes])

(* Every header lies inside the image: pass 1 matched its bytes there.     *)
ASSUME ImageAssumption ==
  \A im \in Images :
    /\ im.size \in Nat
    /\ im.headers \in [Needles -> Seq(0..(im.size - 1))]
    /\ im.footers \in [Needles -> Seq(0..(im.size - 1))]

(* skip is -s, missingFooters -b, aligned the cluster size of -q (1 when   *)
(* the option is not given), preview -p, database -d; organize is off with *)
(* "-O".                                                                   *)
ASSUME OptionAssumption ==
  Options \subseteq [skip : Nat, aligned : Nat \ {0}, missingFooters : BOOLEAN,
                     preview : BOOLEAN, organize : BOOLEAN, database : BOOLEAN]

VARIABLES
  img,        \* the image: its size
  opt,        \* the command line
  headers,    \* offsets.headers of every type
  footers,    \* offsets.footers of every type
  pc,         \* where carveImageFile() is
  needle,     \* needlenum, the type being planned
  hidx,       \* i, the next header of that type
  prevstop,   \* prevstopindex (counted from 1)
  jobs,       \* the CarveInfo structures, in the order they are made
  counts,     \* numfilestocarve and organizeDirNum of every type
  queues,     \* carvelists
  filepos,    \* the position of infile
  bytesread,  \* what the last read returned
  buffer,     \* readbuffer
  cursor,     \* current element of the queue being worked on
  open,       \* the jobs whose fp is not 0
  nopen,      \* CURRENTFILESOPEN
  content,    \* what has been written to every job's file
  audit,      \* the jobs recorded in the audit log, in order
  signal      \* signal_caught: SIGINT or SIGTERM has arrived

planVars == <<needle, hidx, prevstop, jobs, counts>>
fileVars == <<open, nopen, content, audit>>
readVars == <<filepos, bytesread, buffer, cursor>>
inVars   == <<img, opt, headers, footers>>
vars     == <<inVars, pc, planVars, queues, readVars, fileVars, signal>>

Stale   == -1
Foreign == -2
Root    == -1           \* the output directory itself, when not organized

(* How a call ends: a SCALPEL_ERROR_ code, exit() in clean_up(), or memory *)
(* out of bounds.                                                          *)
Ended   == {"done", "FILE_OPEN", "FILE_READ", "FILE_WRITE", "exit", "crash"}
Running == {"open", "plan", "seek", "read", "work", "finish"}

smaller(a, b) == IF a <= b THEN a ELSE b
larger(a, b)  == IF a <= b THEN b ELSE a
Least(S)      == CHOOSE x \in S : \A y \in S : x <= y
Greatest(S)   == CHOOSE x \in S : \A y \in S : y <= x

Block(p) == p \div BufSize

(* carvelists has 2 + filesize / SIZE_OF_BUFFER queues.                    *)
Blocks(size) == 0..(1 + Block(size))

-----------------------------------------------------------------------------
(***************************************************************************)
(* Choosing where a file ends.  A choice has the last byte, stop (0 when   *)
(* nothing is to be carved), whether the file is marked as chopped, and    *)
(* the new prevstopindex.                                                  *)
(***************************************************************************)
Choice(stop, chopped, prev) ==
  [stop |-> stop, chopped |-> chopped, prev |-> prev]

(* The first footer past start, looking from index prev on.                *)
FirstPast(foot, start, prev) ==
  LET past == {j \in prev..Len(foot) : foot[j] > start}
  IN  IF past = {} THEN Len(foot) + 1 ELSE Least(past)

(* FORWARD includes the footer, FORWARD_NEXT ends just before it.          *)
FooterStop(line, f) ==
  IF line.searchtype = "FORWARD" THEN f + line.endlength - 1 ELSE f - 1

(* Unsigned: a length of 0, or one that reaches past Word, ends the file   *)
(* before it begins.                                                       *)
MaxStop(line, start) == (start + line.length - 1) % Word

(* A bug in reach: the size check leaves out the first byte.               *)
FitsShort(line, start, stop) == stop - start <= line.length
Fits(line, start, stop)      == stop - start + 1 <= line.length

ForwardChoice(line, foot, start, prev, missing) ==
  LET first == FirstPast(foot, start, prev)
      next  == larger(prev, first - 1)
      stop  == FooterStop(line, foot[first])
  IN  IF first > Len(foot)
        THEN Choice(IF line.searchtype = "FORWARD_NEXT" \/ missing
                      THEN MaxStop(line, start) ELSE 0, FALSE, next)
      ELSE IF Fits(line, start, stop)
        THEN Choice(stop, FALSE, next)
      ELSE IF line.searchtype = "FORWARD_NEXT" \/ missing
        THEN Choice(MaxStop(line, start), TRUE, next)
      ELSE Choice(0, FALSE, next)

(* REVERSE: the farthest footer within length of the header.               *)
ReverseChoice(line, foot, start, prev) ==
  LET far    == {j \in prev..Len(foot) : foot[j] > start + line.length}
      halt   == IF far = {} THEN Len(foot) + 1 ELSE Least(far)
      match  == {j \in prev..(halt - 1) : foot[j] > start}
      passed == {j \in prev..(halt - 1) : foot[j] <= start}
  IN  Choice(IF match = {} THEN 0
               ELSE foot[Greatest(match)] + line.endlength - 1,
             FALSE,
             IF passed = {} THEN prev ELSE Greatest(passed))

Choose(line, foot, start, prev, missing) ==
  IF line.endlength = 0
    THEN Choice(MaxStop(line, start), TRUE, prev)
  ELSE IF line.searchtype = "REVERSE"
    THEN ReverseChoice(line, foot, start, prev)
  ELSE ForwardChoice(line, foot, start, prev, missing)

(* The first header of a new type starts over at the first footer.         *)
KeepPrevStop(prev)  == prev
ResetPrevStop(prev) == 1

(* Files never go past the end of the image, by one byte too many: the     *)
(* last byte of the image is size - 1.                                     *)
ClipStop(stop, size) == smaller(stop, size)

-----------------------------------------------------------------------------
(***************************************************************************)
(* The work queues.                                                        *)
(***************************************************************************)
Piece(k, op) == [job |-> k, op |-> op]

(* The blocks in which a job has work: where it begins, where it ends, and *)
(* those in between, if it does not end before it begins.                  *)
WorkBlocks(start, stop) ==
  {Block(start), Block(stop)} \cup (Block(start)..Block(stop))

(* The operation of a job from start to stop in block b.                   *)
OperationIn(b, start, stop) ==
  IF Block(start) = Block(stop) THEN STARTSTOPCARVE
  ELSE IF b = Block(start) THEN STARTCARVE
  ELSE IF b = Block(stop)  THEN STOPCARVE
  ELSE CONTINUECARVE

(* A bug in reach: j <= footerblockindex as the loop's condition, which    *)
(* files a second, later piece of the job in its last block.               *)
FileJobTwice(qs, k, start, stop) ==
  [b \in DOMAIN qs |->
     IF b = Block(stop) /\ b # Block(start)
       THEN AddToQueue(AddToQueue(qs[b], Piece(k, STOPCARVE)),
                       Piece(k, CONTINUECARVE))
     ELSE IF b \in WorkBlocks(start, stop)
       THEN AddToQueue(qs[b], Piece(k, OperationIn(b, start, stop)))
     ELSE qs[b]]

(* A bug in reach: the STOPCARVE piece is forgotten.                       *)
FileJobEndless(qs, k, start, stop) ==
  [b \in DOMAIN qs |->
     IF b \in WorkBlocks(start, stop)
          /\ (b = Block(stop) => Block(start) = Block(stop))
       THEN AddToQueue(qs[b], Piece(k, OperationIn(b, start, stop)))
       ELSE qs[b]]

FileJob(qs, k, start, stop) ==
  [b \in DOMAIN qs |->
     IF b \in WorkBlocks(start, stop)
       THEN AddToQueue(qs[b], Piece(k, OperationIn(b, start, stop)))
       ELSE qs[b]]

(* numfilestocarve, and organizeDirNum, which moves on to the next         *)
(* subdirectory after OrganizeMax files.                                   *)
CountLate(c) ==
  [files |-> c.files + 1,
   dir   |-> c.dir + (IF c.files > 0 /\ c.files % OrganizeMax = 0 THEN 1 ELSE 0)]
CountFile(c) ==
  [files |-> c.files + 1,
   dir   |-> c.dir + (IF (c.files + 1) % OrganizeMax = 0 THEN 1 ELSE 0)]

-----------------------------------------------------------------------------
(***************************************************************************)
(* The second pass: what one piece of work writes.                         *)
(***************************************************************************)
(* fileposition - bytesread: where the buffer begins in the image.         *)
Base == filepos - bytesread

Work == queues[Block(Base)]

(* Bugs in reach: the piece that starts a file takes all of the file; the  *)
(* last piece misses the last byte.                                        *)
SpanUnclipped(op, start, stop, base) ==
  [offset |-> IF op \in {STARTCARVE, STARTSTOPCARVE} THEN start - base ELSE 0,
   bytes  |-> CASE op = CONTINUECARVE -> BufSize
                [] op = STOPCARVE     -> stop - base + 1
                [] OTHER              -> stop - start + 1]
SpanStopShort(op, start, stop, base) ==
  [offset |-> IF op \in {STARTCARVE, STARTSTOPCARVE} THEN start - base ELSE 0,
   bytes  |-> CASE op = CONTINUECARVE  -> BufSize
                [] op = STARTSTOPCARVE -> stop - start + 1
                [] op = STARTCARVE     -> smaller(stop - start + 1,
                                                  BufSize - (start - base))
                [] op = STOPCARVE      -> stop - base]

(* offset and bytestowrite of an operation on the buffer that begins at    *)
(* base.  A file that ends before it begins has, unsigned, more bytes than *)
(* a buffer.                                                               *)
Span(op, start, stop, base) ==
  LET from == IF op \in {STARTCARVE, STARTSTOPCARVE} THEN start - base ELSE 0
      all  == stop - start + 1
  IN  [offset |-> from,
       bytes  |-> CASE op = CONTINUECARVE  -> BufSize
                    [] op = STARTSTOPCARVE -> all
                    [] op = STARTCARVE     -> IF all < 0 THEN BufSize - from
                                              ELSE smaller(all, BufSize - from)
                    [] op = STOPCARVE      -> stop - base + 1]

(* The first n bytes of a span of readbuffer.                              *)
Bytes(buf, span, n) ==
  [i \in 1..n |-> LET b == span.offset + i - 1
                  IN  IF b \in 0..(BufSize - 1) THEN buf[b] ELSE Foreign]

(* A negative number of bytes is a huge one.                               *)
InBuffer(span) ==
  span.offset >= 0 /\ span.bytes >= 0 /\ span.offset + span.bytes <= BufSize

(* fopen() with "ab" keeps what an earlier piece has written; "wb" would   *)
(* not.                                                                    *)
OpenTruncates(old) == <<>>
OpenAppends(old)   == old

(* A bug in reach: a file closed for want of handles is not opened again.  *)
OpensOnlyFirst(k, op) == op \in {STARTCARVE, STARTSTOPCARVE}
NeedsOpen(k, op) == op \in {STARTCARVE, STARTSTOPCARVE} \/ k \notin open

(* A bug in reach: a file within one buffer is not closed.                 *)
IsLastOnlyStop(op) == op = STOPCARVE
IsLast(op)       == op \in {STARTSTOPCARVE, STOPCARVE}

(* A file is closed with its last piece, and also when it is one too many. *)
ClosesOnlyLast(op, n) == IsLast(op)
Closes(op, n)         == IsLast(op) \/ n > MaxOpen

(* fread() leaves the rest of readbuffer as it was.                        *)
Refill(buf, at, n) ==
  [i \in 0..(BufSize - 1) |-> IF i < n THEN at + i ELSE buf[i]]

(* The blocks in which the big seek may stop, as distances from filepos.   *)
SeekTargets ==
  {k \in 0..(1 + Block(img.size)) :
     LET p == filepos + k * BufSize
     IN  /\ k > 0 => p <= img.size
         /\ Block(p) \in DOMAIN queues
         /\ queues[Block(p)] # <<>>}

(* The blocks whose queues the search looks at: up to the first target, or *)
(* one more than lies in the image.  The first two it looks at wherever    *)
(* they are.                                                               *)
LookedAt ==
  {k \in 0..(2 + Block(img.size)) :
     /\ \A t \in SeekTargets : k <= t
     /\ k > 1 => filepos + (k - 1) * BufSize <= img.size}

LeavesQueues == \E k \in LookedAt : Block(filepos + k * BufSize) \notin DOMAIN queues

-----------------------------------------------------------------------------
(* Pass 1 skips the same bytes, so it has found nothing before them.       *)
FoundFrom(found, skip) == \A i \in DOMAIN found : found[i] >= skip

Init ==
  /\ \E im \in Images :
       /\ img = [size |-> im.size]
       /\ headers = im.headers
       /\ footers = im.footers
  /\ opt \in Options
  /\ \A n \in Needles : /\ FoundFrom(headers[n], opt.skip)
                        /\ FoundFrom(footers[n], opt.skip)
  /\ pc = "open"
  /\ needle = 1 /\ hidx = 1 /\ prevstop = 1
  /\ jobs = <<>>
  /\ counts = [n \in Needles |-> [files |-> 0, dir |-> 0]]
  /\ queues = <<>>
  /\ filepos = 0 /\ bytesread = 0 /\ cursor = 1
  /\ buffer = [i \in 0..(BufSize - 1) |-> Stale]
  /\ open = {} /\ nopen = 0 /\ content = <<>> /\ audit = <<>>
  /\ signal = FALSE

(* fopen(), skipInFile() and measureOpenFile(), then the queues.           *)
OpenImage ==
  /\ pc = "open"
  /\ filepos' = opt.skip
  /\ queues' = [b \in Blocks(img.size) |-> <<>>]
  /\ pc' = "plan"
  /\ UNCHANGED <<inVars, planVars, bytesread, buffer, cursor, fileVars, signal>>

OpenImageFails ==
  /\ pc = "open"
  /\ pc' \in {"FILE_OPEN", "FILE_READ"}
  /\ UNCHANGED <<inVars, planVars, queues, readVars, fileVars, signal>>

(* The next header of the current type.                                    *)
HasHeader == needle \in Needles /\ hidx <= Len(headers[needle])
Start     == headers[needle][hidx]
IsAligned == Start % opt.aligned = 0
Chosen    == Choose(SearchSpec[needle], footers[needle], Start, prevstop,
                    opt.missingFooters)

(* -q: a header that is not cluster-aligned is passed over.                *)
SkipUnaligned ==
  /\ pc = "plan" /\ HasHeader /\ ~IsAligned
  /\ hidx' = hidx + 1
  /\ UNCHANGED <<inVars, pc, needle, prevstop, jobs, counts, queues, readVars,
                 fileVars, signal>>

PlanNothing ==
  /\ pc = "plan" /\ HasHeader /\ IsAligned
  /\ Chosen.stop = 0
  /\ hidx' = hidx + 1
  /\ prevstop' = Chosen.prev
  /\ UNCHANGED <<inVars, pc, needle, jobs, counts, queues, readVars, fileVars,
                 signal>>

PlanCarve ==
  /\ pc = "plan" /\ HasHeader /\ IsAligned
  /\ Chosen.stop # 0
  /\ LET stop == ClipStop(Chosen.stop, img.size)
         k    == Len(jobs) + 1
     IN  /\ jobs' = Append(jobs,
                      [needle  |-> needle,
                       dir     |-> IF opt.organize THEN counts[needle].dir ELSE Root,
                       start   |-> Start,
                       stop    |-> stop,
                       chopped |-> Chosen.chopped])
         /\ queues' = FileJob(queues, k, Start, stop)
  /\ counts' = [counts EXCEPT ![needle] = CountFile(@)]
  /\ content' = Append(content, <<>>)
  /\ hidx' = hidx + 1
  /\ prevstop' = Chosen.prev
  /\ UNCHANGED <<inVars, pc, needle, readVars, open, nopen, audit, signal>>

(* On to the next type, or to the second pass.                             *)
NextNeedle ==
  /\ pc = "plan" /\ ~HasHeader
  /\ IF needle < Len(SearchSpec)
       THEN needle' = needle + 1 /\ pc' = pc
       ELSE needle' = needle /\ pc' = "seek"
  /\ hidx' = 1
  /\ prevstop' = ResetPrevStop(prevstop)
  /\ UNCHANGED <<inVars, jobs, counts, queues, readVars, fileVars, signal>>

-----------------------------------------------------------------------------
(* One big seek over the blocks that have no work.                         *)
SeekWork ==
  /\ pc = "seek"
  /\ SeekTargets # {}
  /\ filepos' = filepos + Least(SeekTargets) * BufSize
  /\ pc' = "read"
  /\ UNCHANGED <<inVars, planVars, queues, bytesread, buffer, cursor, fileVars,
                 signal>>

NoMoreWork ==
  /\ pc = "seek"
  /\ SeekTargets = {}
  /\ pc' = "finish"
  /\ UNCHANGED <<inVars, planVars, queues, readVars, fileVars, signal>>

(* The search looks behind the last queue of carvelists.  What it finds    *)
(* there may also send it on as if there were no more work.                *)
SeekOverrun ==
  /\ pc = "seek"
  /\ LeavesQueues
  /\ pc' = "crash"
  /\ UNCHANGED <<inVars, planVars, queues, readVars, fileVars, signal>>

(* What fread() can get; in preview mode a seek that always goes on.       *)
Available == IF opt.preview THEN BufSize
             ELSE smaller(BufSize, larger(0, img.size - filepos))

(* The signal is looked at once per buffer, before its work; clean_up()    *)
(* closes the audit log and exits.                                         *)
ReadBlock ==
  /\ pc = "read"
  /\ Available > 0
  /\ filepos' = filepos + Available
  /\ bytesread' = Available
  /\ buffer' = IF opt.preview THEN buffer ELSE Refill(buffer, filepos, Available)
  /\ cursor' = 1
  /\ pc' = IF signal THEN "exit" ELSE "work"
  /\ UNCHANGED <<inVars, planVars, queues, fileVars, signal>>

EndOfImage ==
  /\ pc = "read"
  /\ Available = 0
  /\ bytesread' = 0
  /\ pc' = "finish"
  /\ UNCHANGED <<inVars, planVars, queues, filepos, buffer, cursor, fileVars,
                 signal>>

ReadFails ==
  /\ pc = "read" /\ ~opt.preview
  /\ pc' = "FILE_READ"
  /\ UNCHANGED <<inVars, planVars, queues, readVars, fileVars, signal>>

-----------------------------------------------------------------------------
(* The current piece of work: job k, operation op, its span of readbuffer. *)
HasPiece == pc = "work" /\ cursor <= Len(Work)
Job      == Work[cursor].job
Op       == Work[cursor].op
Opened   == nopen + (IF NeedsOpen(Job, Op) THEN 1 ELSE 0)
JobSpan  == Span(Op, jobs[Job].start, jobs[Job].stop, Base)

(* The file's contents once n bytes of the span are handed to fwrite().    *)
Written(n) ==
  [content EXCEPT ![Job] =
     (IF NeedsOpen(Job, Op) THEN OpenAppends(@) ELSE @)
       \o Bytes(buffer, JobSpan, n)]

CarvePiece ==
  /\ HasPiece
  /\ opt.preview \/ JobSpan.bytes >= 0
  /\ content' = IF opt.preview THEN content ELSE Written(JobSpan.bytes)
  /\ IF Closes(Op, Opened)
       THEN open' = open \ {Job}    /\ nopen' = Opened - 1
       ELSE open' = open \cup {Job} /\ nopen' = Opened
  /\ audit' = IF IsLast(Op) THEN Append(audit, Job) ELSE audit
  /\ cursor' = cursor + 1
  /\ UNCHANGED <<inVars, pc, planVars, queues, filepos, bytesread, buffer, signal>>

OpenFails ==
  /\ HasPiece /\ ~opt.preview
  /\ NeedsOpen(Job, Op)
  /\ pc' = "FILE_WRITE"
  /\ UNCHANGED <<inVars, planVars, queues, readVars, fileVars, signal>>

(* Fewer bytes than asked for are written; of a huge number, a buffer's at *)
(* most (a bound of the model).                                            *)
WrittenInPart ==
  IF JobSpan.bytes < 0 THEN 0..BufSize ELSE 0..(JobSpan.bytes - 1)

WriteFails ==
  /\ HasPiece /\ ~opt.preview
  /\ \E n \in WrittenInPart : content' = Written(n)
  /\ open' = open \cup {Job} /\ nopen' = Opened
  /\ pc' = "FILE_WRITE"
  /\ UNCHANGED <<inVars, planVars, queues, readVars, audit, signal>>

CloseFails ==
  /\ HasPiece /\ ~opt.preview
  /\ JobSpan.bytes >= 0
  /\ Closes(Op, Opened)
  /\ content' = Written(JobSpan.bytes)
  /\ open' = open \cup {Job} /\ nopen' = Opened
  /\ pc' = "FILE_WRITE"
  /\ UNCHANGED <<inVars, planVars, queues, readVars, audit, signal>>

(* fwrite() reads outside readbuffer, or fopen() reads the name of a file  *)
(* that was recorded, and which was freed then (dig.c:1116): either may    *)
(* fault, or (CarvePiece) get Foreign bytes or still find the name.        *)
CarveOverrun ==
  /\ HasPiece /\ ~opt.preview
  /\ ~InBuffer(JobSpan) \/ \E i \in DOMAIN audit : audit[i] = Job
  /\ pc' = "crash"
  /\ UNCHANGED <<inVars, planVars, queues, readVars, fileVars, signal>>

EndOfQueue ==
  /\ pc = "work" /\ cursor > Len(Work)
  /\ pc' = "seek"
  /\ UNCHANGED <<inVars, planVars, queues, readVars, fileVars, signal>>

-----------------------------------------------------------------------------
(* The header/footer database is written out for -d, then cleared for the  *)
(* next image, and the queues are destroyed.                               *)
Finish ==
  /\ pc = "finish"
  /\ headers' = [n \in Needles |-> <<>>]
  /\ footers' = [n \in Needles |-> <<>>]
  /\ queues' = <<>>
  /\ pc' = "done"
  /\ UNCHANGED <<img, opt, planVars, readVars, fileVars, signal>>

FinishFails ==
  /\ pc = "finish" /\ opt.database
  /\ pc' = "FILE_WRITE"
  /\ UNCHANGED <<inVars, planVars, queues, readVars, fileVars, signal>>

(* catch_alarm(): only a flag is set.                                      *)
CatchSignal ==
  /\ pc \in Running /\ ~signal
  /\ signal' = TRUE
  /\ UNCHANGED <<inVars, pc, planVars, queues, readVars, fileVars>>

Plan  == OpenImage \/ OpenImageFails \/ SkipUnaligned \/ PlanNothing
           \/ PlanCarve \/ NextNeedle
Seek  == SeekWork \/ NoMoreWork \/ SeekOverrun
Read  == ReadBlock \/ EndOfImage \/ ReadFails
Carve == CarvePiece \/ OpenFails \/ WriteFails \/ CloseFails \/ CarveOverrun
           \/ EndOfQueue
Step  == Plan \/ Seek \/ Read \/ Carve \/ Finish \/ FinishFails

(* The call has returned, or the program is gone.                          *)
Halted == pc \in Ended /\ UNCHANGED vars

Next == Step \/ CatchSignal \/ Halted

Spec     == Init /\ [][Next]_vars
FairSpec == Spec /\ WF_vars(Step)

-----------------------------------------------------------------------------
(***************************************************************************)
(* Properties.                                                             *)
(***************************************************************************)
JobIds == 1..Len(jobs)

Offsets == Nat \cup {Stale, Foreign}

JobType == [needle : Needles, dir : Nat \cup {Root}, start : Nat, stop : Nat,
            chopped : BOOLEAN]

PieceType == [job : JobIds, op : Operations]

InputTypes ==
  /\ img \in [size : Nat] /\ opt \in Options
  /\ headers \in [Needles -> Seq(Nat)]
  /\ footers \in [Needles -> Seq(Nat)]

PlanTypes ==
  /\ needle \in Nat \ {0} /\ hidx \in Nat \ {0} /\ prevstop \in Nat \ {0}
  /\ jobs \in Seq(JobType)
  /\ counts \in [Needles -> [files : Nat, dir : Nat]]

QueueTypes ==
  /\ queues \in [DOMAIN queues -> Seq(PieceType)]
  /\ pc \in Running \ {"open"} => DOMAIN queues = Blocks(img.size)

ReadTypes ==
  /\ filepos \in Nat /\ bytesread \in 0..BufSize /\ bytesread <= filepos
  /\ buffer \in [0..(BufSize - 1) -> Offsets]
  /\ cursor \in Nat \ {0}

FileTypes ==
  /\ open \subseteq JobIds /\ nopen \in Nat
  /\ content \in Seq(Seq(Offsets)) /\ Len(content) = Len(jobs)
  /\ audit \in Seq(JobIds)

(* The type invariant: the state of carveImageFile() has the shape the C   *)
(* declarations give it; in particular the counter of open files does not  *)
(* fall below zero, and the buffer lies before the file position.          *)
TypeOK ==
  /\ InputTypes /\ PlanTypes /\ QueueTypes /\ ReadTypes /\ FileTypes
  /\ pc \in Running \cup Ended /\ signal \in BOOLEAN

(* A file that does not end before it begins.                              *)
RunsForward(k) == jobs[k].start <= jobs[k].stop

(* Every byte of a carved file that lies inside the image is the image's   *)
(* byte at start plus its position in the file, at every moment of the     *)
(* second pass, however the file was cut into blocks, closed and reopened  *)
(* (scalpel.h:209-216), provided that skip is a multiple of the buffer and *)
(* the file does not end before it begins.                                 *)
Faithful(k) ==
  \A i \in 1..Len(content[k]) :
    jobs[k].start + i - 1 < img.size => content[k][i] = jobs[k].start + i - 1

WholeSkip == opt.skip % BufSize = 0

CarvedBytes == WholeSkip => \A k \in JobIds : RunsForward(k) => Faithful(k)

(* A file in the audit log has exactly the length the log states for it,   *)
(* and is in the log once: it is recorded when its last byte is written,   *)
(* not when it is closed because too many files are open (dig.c:1087-1118).*)
(* No length is claimed of a file that ends before it begins.              *)
Audited(k) == \E i \in DOMAIN audit : audit[i] = k

AuditedWhole ==
  /\ \A i, j \in DOMAIN audit : audit[i] = audit[j] => i = j
  /\ ~opt.preview =>
       \A k \in JobIds :
         Audited(k) /\ RunsForward(k) =>
           Len(content[k]) = jobs[k].stop - jobs[k].start + 1

(* CURRENTFILESOPEN counts the open files and stays within                 *)
(* MAX_FILES_TO_OPEN between two pieces of work.                           *)
OpenBound ==
  pc \in Running => nopen = Cardinality(open) /\ nopen <= MaxOpen

(* At most OrganizeMax files of a type go into one subdirectory.           *)
SubdirBound ==
  opt.organize =>
    \A k \in JobIds :
      Cardinality({j \in JobIds : /\ jobs[j].needle = jobs[k].needle
                                  /\ jobs[j].dir = jobs[k].dir}) <= OrganizeMax

(* Where the block that holds a job's last byte would be read from.        *)
LastRead(k) == (opt.skip % BufSize) + Block(jobs[k].stop) * BufSize

(* The jobs carveImageFile() cannot finish: the read of the last piece     *)
(* would begin at the end of the image or behind it, and gets nothing.     *)
(* Without an odd skip that is a stop clipped to the size of an image of   *)
(* whole buffers.  A preview reads nothing and may seek to the end, but    *)
(* not behind it (dig.c:940).                                              *)
EndsPastLastRead(k) ==
  /\ k \in JobIds
  /\ IF opt.preview THEN LastRead(k) > img.size ELSE LastRead(k) >= img.size

(* When the call returns SCALPEL_OK every planned file has been carved,    *)
(* closed and audited, except those that end past the last read, or before *)
(* they begin.                                                             *)
DoneMeansCarved ==
  pc = "done" =>
    \A k \in JobIds : RunsForward(k) => Audited(k) \/ EndsPastLastRead(k)

(* A call leaves carvelists, or readbuffer, only with a skip that is no    *)
(* multiple of the buffer or lies behind the last block of the image, in   *)
(* preview mode with work in that block (both have the search look at one  *)
(* queue too many), or with a file that ends before it begins.             *)
StaysInside ==
  pc = "crash" =>
    \/ ~WholeSkip
    \/ Block(opt.skip) > Block(img.size)
    \/ opt.preview /\ \E k \in JobIds : Block(jobs[k].stop) = Block(img.size)
    \/ \E k \in JobIds : ~RunsForward(k)

(* However carveImageFile() ends, it has carved what it planned, reported  *)
(* that it has not, or been given something it cannot work with.           *)
EndsWell == DoneMeansCarved /\ StaysInside

(* The step leaves every file that is in the audit log as it is, unless it *)
(* ends before it begins: the buffer of its end may be read, and the file  *)
(* recorded, before the one of its beginning.                              *)
LeavesAudited ==
  \A k \in JobIds : Audited(k) /\ RunsForward(k) =>
                       content'[k] = content[k] /\ k \notin open'

(* Once a file is in the audit log its name is freed and the file is never *)
(* opened or written again, unless it ends before it begins.               *)
AuditedIsFinal == [][LeavesAudited]_vars

(* A file that has been opened is closed and recorded, unless the run is   *)
(* cut short or the file ends past the last read, or before it begins.     *)
Resolved(k) == \/ Audited(k) \/ EndsPastLastRead(k)
               \/ pc \in Ended \ {"done"}

StartedIsResolved(n) ==
  \A k \in 1..n : (k \in open /\ RunsForward(k)) ~> Resolved(k)

(* What the options say a header is worth, said without prevstopindex, for *)
(* a database in ascending order: the last byte of the file, 0 for none.   *)
(* FORWARD ends with the nearest footer past the header, FORWARD_NEXT just *)
(* before it, REVERSE with the farthest within length; -b and FORWARD_NEXT *)
(* fall back on the maximum size.                                          *)
Ideal(n, start) ==
  LET line == SearchSpec[n]
      past == {f \in {footers[n][j] : j \in DOMAIN footers[n]} : f > start}
      near == {f \in past : /\ FooterStop(line, f) < start + line.length
                            /\ \A g \in past : f <= g}
      reach == {f \in past : f - start <= line.length}
  IN  IF line.endlength = 0 THEN MaxStop(line, start)
      ELSE IF line.searchtype = "REVERSE"
        THEN IF reach = {} THEN 0 ELSE Greatest(reach) + line.endlength - 1
      ELSE IF near # {} THEN FooterStop(line, CHOOSE f \in near : TRUE)
      ELSE IF line.searchtype = "FORWARD_NEXT" \/ opt.missingFooters
        THEN MaxStop(line, start)
      ELSE 0

(* The planned files are exactly the ones the search types and the options *)
(* ask for, in spite of the footers prevstopindex passes over and of what  *)
(* one type leaves behind for the next (dig.c:668-895); ends are compared  *)
(* inside the image.  A file whose last byte would be offset 0 is lost to  *)
(* the use of 0 for "nothing to carve".                                    *)
Worth(n, start) == /\ start % opt.aligned = 0
                   /\ Ideal(n, start) # 0

PlannedIsIdeal ==
  pc \in {"seek", "read", "work", "finish"} =>
    /\ {<<jobs[k].needle, jobs[k].start, smaller(jobs[k].stop, img.size - 1)>> :
          k \in JobIds}
         = UNION {{<<n, h, smaller(Ideal(n, h), img.size - 1)>> :
                     h \in {g \in {headers[n][i] : i \in DOMAIN headers[n]} :
                              Worth(n, g)}} :
                  n \in Needles}
    /\ \A j, k \in JobIds : jobs[j].start = jobs[k].start
                              /\ jobs[j].needle = jobs[k].needle => j = k

(* Job k has work to do in block b, and this is its piece.                 *)
Touches(k, b) == b \in WorkBlocks(jobs[k].start, jobs[k].stop)

PieceOf(k, b) == Piece(k, OperationIn(b, jobs[k].start, jobs[k].stop))

PiecesIn(b) == {PieceOf(k, b) : k \in {j \in JobIds : Touches(j, b)}}

FiledIn(b) ==
  /\ InOrder(queues[b])
  /\ \A i, j \in DOMAIN queues[b] :
       queues[b][i].job = queues[b][j].job => i = j
  /\ Range(queues[b]) = PiecesIn(b)

(* A length with which no file of the image ends before it begins.         *)
ProperLength(n)  == SearchSpec[n].length \in 1..(Word - img.size)
ForwardIfProper  == \A k \in JobIds : ProperLength(jobs[k].needle) => RunsForward(k)

(* Every job has exactly one piece in every block it touches, the right    *)
(* one for that block, and none elsewhere; every queue is in order.  Only  *)
(* a length of 0, or one that reaches past Word, makes a file end before   *)
(* it begins.                                                              *)
WorkFiled ==
  pc \in {"seek", "read", "work", "finish"} =>
    ForwardIfProper /\ \A b \in DOMAIN queues : FiledIn(b)

-----------------------------------------------------------------------------
(***************************************************************************)
(* What the repository says of the code, for the run that refutes it.       *)
(***************************************************************************)
(* scalpel.h:212-214 "When the read buffer includes the first byte of a    *)
(* file, the file is opened and the first write occurs".                   *)
FirstWriteHasFirstByte ==
  HasPiece /\ Op \in {STARTCARVE, STARTSTOPCARVE} =>
    jobs[Job].start \in Base..(Base + bytesread - 1)
=============================================================================
