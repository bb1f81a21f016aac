------------------------------ MODULE DigImage ------------------------------
(***************************************************************************)
(* digImageFile() and bm_digBuffer() of dig.c: the first pass over one     *)
(* disk image.  The image is read in chunks that overlap by one byte less  *)
(* than the longest needle, and in every chunk each file type's headers,   *)
(* then (if some header could still use them) its footers are searched     *)
(* for and their offsets recorded.                                         *)
(*                                                                         *)
(* A needle is a sequence of sets of bytes: the bytes charactersMatch()    *)
(* accepts at that place (one byte, its two cases, or all for a wildcard). *)
(***************************************************************************)
EXTENDS Integers, Sequences, FiniteSets

CONSTANTS
  Byte,         \* the bytes
  BufSize,      \* SIZE_OF_BUFFER
  SearchSpec,   \* file types: [begin, end, length]; end is <<>> for no footer
  Images,       \* disk images: sequences of bytes
  Options       \* command lines: [skip, noSearchOverlap, database]

Needles == 1..Len(SearchSpec)
Pattern == Seq(SUBSET Byte)

(* findLongestNeedle(), over headers and footers.                          *)
Patterns == {SearchSpec[n].begin : n \in Needles} \cup {SearchSpec[n].end : n \in Needles}
Longest  == CHOOSE l \in {Len(p) : p \in Patterns} : \A p \in Patterns : Len(p) <= l

ASSUME SpecAssumption ==
  /\ SearchSpec \in Seq([begin : Pattern, end : Pattern, length : Nat])
  /\ Len(SearchSpec) > 0
  /\ \A n \in Needles : Len(SearchSpec[n].begin) > 0
  /\ BufSize \in Nat /\ Longest <= BufSize

ASSUME InputAssumption ==
  /\ Images \subseteq Seq(Byte)
  /\ Options \subseteq [skip : Nat, noSearchOverlap : BOOLEAN, database : BOOLEAN]

VARIABLES
  image,      \* the bytes of the image
  opt,        \* the command line
  pc,         \* where digImageFile() is
  filepos,    \* the position of infile
  base,       \* beginreadpos, where the chunk in readbuffer begins
  length,     \* lengthofbuf
  needle,     \* needlenum
  at,         \* foundat, as an offset into readbuffer
  headers,    \* offsets.headers of every type
  footers,    \* offsets.footers of every type
  signal,     \* signal_caught
  cut         \* the read that ended the search failed (nobody looks at it)

vars == <<image, opt, pc, filepos, base, length, needle, at, headers, footers,
          signal, cut>>

Running == {"open", "read", "headers", "footers"}
Ended   == {"done", "FILE_OPEN", "FILE_READ", "exit"}

Size == Len(image)

(* Does the pattern match the image at offset p (counted from 0)?          *)
MatchesAt(pattern, p) ==
  /\ p + Len(pattern) <= Size
  /\ \A i \in 1..Len(pattern) : image[p + i] \in pattern[i]

(* bm_needleinhaystack(): the matches in the chunk from foundat on.        *)
Matches(pattern) ==
  {m \in at..(length - Len(pattern)) : MatchesAt(pattern, base + m)}

First(S) == CHOOSE m \in S : \A x \in S : m <= x

(* Past a match: over it with -r, to the next byte otherwise.              *)
AdvanceFar(pattern, m) == m + Len(pattern) + 1
Advance(pattern, m) == m + (IF opt.noSearchOverlap THEN Len(pattern) ELSE 1)

(* How far the file is moved back after a chunk, and how it could go       *)
(* wrong: not at all, or by one byte too many.                             *)
NoStepBack(filep)  == filep
StepBackFar(filep) == filep - Longest
StepBack(filep)    == filep - (Longest - 1)

(* Is a footer search worth it: the last header found lies in this chunk,  *)
(* or less than length before it, or all footers are wanted (-d).          *)
ViableHere(n, found) ==
  /\ SearchSpec[n].end # <<>>
  /\ \/ opt.database
     \/ found # <<>> /\ found[Len(found)] > base
Viable(n, found) ==
  /\ SearchSpec[n].end # <<>>
  /\ \/ opt.database
     \/ /\ found # <<>>
        /\ LET last == found[Len(found)]
           IN  last > base \/ base - last < SearchSpec[n].length

-----------------------------------------------------------------------------
Init ==
  /\ image \in Images /\ opt \in Options
  /\ pc = "open"
  /\ filepos = 0 /\ base = 0 /\ length = 0 /\ needle = 1 /\ at = 0
  /\ headers = [n \in Needles |-> <<>>]
  /\ footers = [n \in Needles |-> <<>>]
  /\ signal = FALSE /\ cut = FALSE

OpenImage ==
  /\ pc = "open"
  /\ filepos' = opt.skip
  /\ pc' = "read"
  /\ UNCHANGED <<image, opt, base, length, needle, at, headers, footers, signal, cut>>

OpenFails ==
  /\ pc = "open"
  /\ pc' \in {"FILE_OPEN", "FILE_READ"}
  /\ UNCHANGED <<image, opt, filepos, base, length, needle, at, headers, footers, signal, cut>>

Rest      == IF filepos < Size THEN Size - filepos ELSE 0
Available == IF Rest < BufSize THEN Rest ELSE BufSize

(* A chunk longer than the overlap.                                        *)
ReadChunk ==
  /\ pc = "read"
  /\ Available > Longest - 1
  /\ base' = filepos
  /\ length' = Available
  /\ filepos' = filepos + Available
  /\ needle' = 1 /\ at' = 0
  /\ pc' = IF signal THEN "exit" ELSE "headers"
  /\ UNCHANGED <<image, opt, headers, footers, signal, cut>>

(* Nothing is left but bytes that have been searched.                      *)
LastRead ==
  /\ pc = "read"
  /\ Available <= Longest - 1
  /\ pc' = "done"
  /\ UNCHANGED <<image, opt, filepos, base, length, needle, at, headers, footers, signal, cut>>

(* A read error after n bytes; ferror() is looked at only inside the loop, *)
(* so that an error after a few bytes looks like the end of the image.     *)
ReadFails ==
  /\ pc = "read"
  /\ \E n \in 0..Available :
       IF n > Longest - 1 THEN pc' = "FILE_READ" /\ cut' = cut
                          ELSE pc' = "done" /\ cut' = TRUE
  /\ UNCHANGED <<image, opt, filepos, base, length, needle, at, headers, footers, signal>>

Begin == SearchSpec[needle].begin
End   == SearchSpec[needle].end

(* One turn of the header loop; the signal is looked at first.             *)
FindHeader ==
  /\ pc = "headers" /\ ~signal
  /\ Matches(Begin) # {}
  /\ headers' = [headers EXCEPT ![needle] = Append(@, base + First(Matches(Begin)))]
  /\ at' = Advance(Begin, First(Matches(Begin)))
  /\ UNCHANGED <<image, opt, pc, filepos, base, length, needle, footers, signal, cut>>

(* To the next type, and after the last one to the next chunk.             *)
NextNeedle ==
  IF needle < Len(SearchSpec)
    THEN needle' = needle + 1 /\ pc' = "headers" /\ UNCHANGED filepos
    ELSE needle' = needle /\ pc' = "read" /\ filepos' = StepBack(filepos)

NoMoreHeaders ==
  /\ pc = "headers" /\ ~signal
  /\ Matches(Begin) = {}
  /\ at' = 0
  /\ IF Viable(needle, headers[needle])
       THEN pc' = "footers" /\ UNCHANGED <<needle, filepos>>
       ELSE NextNeedle
  /\ UNCHANGED <<image, opt, base, length, headers, footers, signal, cut>>

FindFooter ==
  /\ pc = "footers" /\ ~signal
  /\ Matches(End) # {}
  /\ footers' = [footers EXCEPT ![needle] = Append(@, base + First(Matches(End)))]
  /\ at' = Advance(End, First(Matches(End)))
  /\ UNCHANGED <<image, opt, pc, filepos, base, length, needle, headers, signal, cut>>

NoMoreFooters ==
  /\ pc = "footers" /\ ~signal
  /\ Matches(End) = {}
  /\ at' = 0
  /\ NextNeedle
  /\ UNCHANGED <<image, opt, base, length, headers, footers, signal, cut>>

(* clean_up(): the audit log is closed and the program exits.              *)
SignalExit ==
  /\ pc \in {"headers", "footers"} /\ signal
  /\ pc' = "exit"
  /\ UNCHANGED <<image, opt, filepos, base, length, needle, at, headers, footers, signal, cut>>

CatchSignal ==
  /\ pc \in Running /\ ~signal
  /\ signal' = TRUE
  /\ UNCHANGED <<image, opt, pc, filepos, base, length, needle, at, headers, footers, cut>>

Halted == pc \in Ended /\ UNCHANGED vars

Step == \/ OpenImage \/ OpenFails \/ ReadChunk \/ LastRead \/ ReadFails
        \/ FindHeader \/ NoMoreHeaders \/ FindFooter \/ NoMoreFooters \/ SignalExit

Next == Step \/ CatchSignal \/ Halted

Spec     == Init /\ [][Next]_vars
FairSpec == Spec /\ WF_vars(Step)

-----------------------------------------------------------------------------
(***************************************************************************)
(* Properties.                                                             *)
(***************************************************************************)
Ran(f) == {f[i] : i \in DOMAIN f}

(* The type invariant; what is recorded lies in the image, the chunk is    *)
(* part of it, and foundat never leaves the chunk.                         *)
TypeOK ==
  /\ image \in Images /\ opt \in Options
  /\ pc \in Running \cup Ended
  /\ filepos \in Nat /\ base \in Nat /\ length \in 0..BufSize
  /\ needle \in Needles /\ at \in 0..length
  /\ headers \in [Needles -> Seq(0..(Size - 1))]
  /\ footers \in [Needles -> Seq(0..(Size - 1))]
  /\ signal \in BOOLEAN /\ cut \in BOOLEAN

(* The places of the searched part of the image where a pattern occurs.    *)
Occurrences(pattern) == {p \in opt.skip..(Size - 1) : MatchesAt(pattern, p)}

(* How far the image has been searched when the call returns SCALPEL_OK:   *)
(* to its end, unless a read failed, and not at all when it is shorter     *)
(* than the longest needle.                                                *)
Reached ==
  IF cut THEN base + length ELSE IF Size - opt.skip >= Longest THEN Size ELSE opt.skip

Searched(pattern) ==
  {p \in Occurrences(pattern) : pc = "done" /\ p + Len(pattern) <= Reached}

(* Recorded in ascending order, each once.                                *)
Ascends(f) == \A i, j \in DOMAIN f : i < j => f[i] < f[j]

(* Every header is found, the ones across two chunks too, and nothing else *)
(* is recorded; a read error that nobody looks at (dig.c:540) loses only   *)
(* what was not read.  With -r at least every place is near a recorded     *)
(* one.  Headers as long as the longest needle cannot lie in the bytes two *)
(* chunks share, and are recorded in ascending order, each once.           *)
HeadersFound ==
  /\ \A n \in Needles : Len(SearchSpec[n].begin) = Longest => Ascends(headers[n])
  /\ \A n \in Needles : Ran(headers[n]) \subseteq Occurrences(SearchSpec[n].begin)
  /\ \A n \in Needles : \A p \in Searched(SearchSpec[n].begin) :
       IF opt.noSearchOverlap
         THEN \E h \in Ran(headers[n]) :
                p - h < Len(SearchSpec[n].begin) /\ h - p < Len(SearchSpec[n].begin)
         ELSE p \in Ran(headers[n])

(* The footers that can end a file of this type at a found header: past    *)
(* the header, and near enough for the whole file.                         *)
Useful(n) ==
  {f \in Searched(SearchSpec[n].end) :
     \E h \in Ran(headers[n]) :
       f > h /\ f + Len(SearchSpec[n].end) - h <= SearchSpec[n].length}

(* Footers are not searched for in every chunk, but no footer is missed    *)
(* with which a FORWARD file could end.                                    *)
UsefulFootersFound ==
  ~opt.noSearchOverlap =>
    \A n \in Needles :
      SearchSpec[n].end # <<>> => Useful(n) \subseteq Ran(footers[n])

(* The search ends: every chunk moves the file on.                         *)
SearchEnds == <>(pc \in Ended)
=============================================================================
