----------------------------- MODULE PostVerify -----------------------------
(***************************************************************************)
(* run_post_verify() of scalpel.c and the main loops of the verifiers it   *)
(* calls: verify_office_ole.py, verify_image.py, verify_video_audio.py and *)
(* verify_pdf.py walk over the output directory one after the other, and   *)
(* move or delete the carved files whose structure is wrong.               *)
(*                                                                         *)
(* What is in a file is the verdict its verifier comes to; "alien" is a    *)
(* file without the header of its kind.  Carved files have different       *)
(* numbers, so that a name meets only itself.                              *)
(***************************************************************************)
EXTENDS Integers, Sequences, FiniteSets

CONSTANTS
  Files,      \* the carved files, by number
  Carved,     \* what they may be: [kind, content]
  Scripts     \* which verifiers are there: sets of kinds

Kinds     == {"ole", "image", "media", "pdf", "other"}
Verifiers == <<"ole", "image", "media", "pdf">>

ASSUME VerifyAssumption ==
  /\ IsFiniteSet(Files) /\ Scripts \subseteq SUBSET Kinds
  /\ \A c \in Carved : /\ c.kind \in Kinds
                       /\ c.content \in {"empty", "ok", "partial", "invalid", "alien"}
                       /\ c.kind = "media" => c.content # "alien"
                       /\ c.kind = "other" => c.content \in {"empty", "ok"}

VARIABLES
  mode,       \* "save" with -save, otherwise "none"
  scripts,    \* the verifiers that are there
  carved,     \* what the files are
  place,      \* where they are now, or Gone
  made,       \* folders made by the verifiers
  turn,       \* the verifier that runs, or is next
  pc,         \* "next", "walk", "done"
  dirs,       \* folders the walk has still to enter
  todo,       \* paths collected and not yet looked at
  aborted,    \* verifiers that ended with an exception
  failed      \* a file could not be moved or deleted

vars  == <<mode, scripts, carved, place, made, turn, pc, dirs, todo, aborted, failed>>
given == <<mode, scripts, carved>>

Gone    == [dir |-> "", renamed |-> 0]
Home(f) == [dir |-> carved[f].kind, renamed |-> 0]
Me      == Verifiers[turn]

Init ==
  /\ mode \in {"save", "none"} /\ scripts \in Scripts /\ carved \in [Files -> Carved]
  /\ place = [f \in Files |-> Home(f)]
  /\ made = {} /\ turn = 1 /\ pc = "next" /\ dirs = {} /\ todo = {}
  /\ aborted = {} /\ failed = FALSE

-----------------------------------------------------------------------------
(* collect_files(): a list of everything in verify_office_ole.py and       *)
(* verify_image.py; the others enter one folder after the other while they *)
(* work, but only those there were when the walk began.                    *)
Paths(S)    == {[file |-> f, at |-> place[f]] : f \in {g \in Files : place[g].dir \in S}}
DirsMade    == made              \* a bug in reach: folders of carved files left out
Dirs        == Kinds \cup made
Collects(v) == v \in {"ole", "image"}

NoScript ==
  /\ pc = "next" /\ turn <= Len(Verifiers) /\ Me \notin scripts
  /\ turn' = turn + 1
  /\ UNCHANGED <<given, place, made, pc, dirs, todo, aborted, failed>>

StartWalk ==
  /\ pc = "next" /\ turn <= Len(Verifiers) /\ Me \in scripts
  /\ pc' = "walk"
  /\ IF Collects(Me) THEN todo' = Paths(Dirs) /\ dirs' = {}
                     ELSE todo' = {} /\ dirs' = Dirs
  /\ UNCHANGED <<given, place, made, turn, aborted, failed>>

EnterDir ==
  /\ pc = "walk" /\ todo = {}
  /\ \E d \in dirs : dirs' = dirs \ {d} /\ todo' = Paths({d})
  /\ UNCHANGED <<given, place, made, turn, pc, aborted, failed>>

(* The report, and the next verifier.                                      *)
EndWalk ==
  /\ pc = "walk" /\ todo = {} /\ dirs = {}
  /\ pc' = "next" /\ turn' = turn + 1
  /\ UNCHANGED <<given, place, made, dirs, todo, aborted, failed>>

AllDone ==
  /\ pc = "next" /\ turn > Len(Verifiers)
  /\ pc' = "done"
  /\ UNCHANGED <<given, place, made, turn, dirs, todo, aborted, failed>>

(* An exception nobody catches ends the verifier; its status is ignored.   *)
Abort ==
  /\ pc' = "next" /\ turn' = turn + 1
  /\ dirs' = {} /\ todo' = {}
  /\ aborted' = aborted \cup {Me}

RemainingAll(path) == todo      \* a bug in reach: the walk does not move on
Remaining(path)    == todo \ {path}
GoOn(path) == todo' = Remaining(path) /\ UNCHANGED <<pc, turn, dirs, aborted>>

Empty(f) == carved[f].content = "empty"
Bad(f)   == carved[f].kind = Me /\ carved[f].content \notin {"ok", "empty"}

(* The folder of a verdict.                                                *)
Folder(f) ==
  LET c == carved[f]
  IN  IF c.kind = "ole" THEN "(mismatch)"
      ELSE IF c.content # "alien" THEN c.content
      ELSE IF c.kind = "image" THEN "(not_image)" ELSE "(not_pdf)"

(* move_to(): a file of that name gets "__1"; it can only be the file      *)
(* itself, met again in the folder it was moved to.                        *)
MovedRenamed(f) == [dir |-> Folder(f), renamed |-> place[f].renamed + 1]  \* a bug in reach
Moved(f) == [dir |-> Folder(f), renamed |-> place[f].renamed
                                              + (IF place[f].dir = Folder(f) THEN 1 ELSE 0)]

(* verify_video_audio.py takes the mode for a directory and moves always.  *)
RemovesAll(v) == v # "media"     \* a bug in reach: the mode does not matter
Removes(v)    == mode = "none" /\ v # "media"

(* A file without bytes is deleted by whichever verifier meets it.         *)
VisitEmpty ==
  /\ pc = "walk"
  /\ \E path \in todo : /\ Empty(path.file) /\ GoOn(path)
                        /\ place' = [place EXCEPT ![path.file] = Gone]
  /\ UNCHANGED <<given, made, failed>>

(* Another kind, or a verdict of "ok".                                     *)
VisitFine ==
  /\ pc = "walk"
  /\ \E path \in todo : ~Empty(path.file) /\ ~Bad(path.file) /\ GoOn(path)
  /\ UNCHANGED <<given, place, made, failed>>

VisitRemove ==
  /\ pc = "walk" /\ Removes(Me)
  /\ \E path \in todo : /\ Bad(path.file) /\ GoOn(path)
                        /\ place' = [place EXCEPT ![path.file] = Gone]
  /\ UNCHANGED <<given, made, failed>>

(* An alien image is moved to (not_image), and then, as its kind is not    *)
(* the expected one either, once more from where it was before: the folder *)
(* of invalid images is made, and the move ends in an exception.           *)
MovesTwice(f)  == Me = "image" /\ carved[f].content = "alien"
FoldersMade(f) == {Folder(f)} \cup (IF MovesTwice(f) THEN {"invalid"} ELSE {})

VisitMove ==
  /\ pc = "walk" /\ ~Removes(Me)
  /\ \E path \in todo :
       /\ Bad(path.file)
       /\ place' = [place EXCEPT ![path.file] = Moved(path.file)]
       /\ made' = made \cup FoldersMade(path.file)
       /\ IF MovesTwice(path.file) THEN Abort ELSE GoOn(path)
  /\ UNCHANGED <<given, failed>>

(* The file cannot be deleted or moved.  verify_office_ole.py catches it   *)
(* for bad files, verify_image.py and verify_pdf.py where they delete.     *)
Catches(f) == ~Empty(f) /\ (Me = "ole" \/ Removes(Me))

VisitFails ==
  /\ pc = "walk"
  /\ \E path \in todo : /\ Empty(path.file) \/ Bad(path.file)
                        /\ IF Catches(path.file) THEN GoOn(path) ELSE Abort
  /\ failed' = TRUE
  /\ UNCHANGED <<given, place, made>>

Halted == pc = "done" /\ UNCHANGED vars

Step == \/ NoScript \/ StartWalk \/ EnterDir \/ EndWalk \/ AllDone
        \/ VisitEmpty \/ VisitFine \/ VisitRemove \/ VisitMove \/ VisitFails

Next     == Step \/ Halted
Spec     == Init /\ [][Next]_vars
FairSpec == Spec /\ WF_vars(Step)

-----------------------------------------------------------------------------
(* Whatever fails: a file that is fine, or of a kind nobody verifies, is   *)
(* where it was carved, and -save loses no file that has bytes in it.      *)
GoodKept ==
  \A f \in Files :
    /\ carved[f].content = "ok" => place[f] = Home(f)
    /\ mode = "save" /\ ~Empty(f) => place[f] # Gone

(* In the end, a file whose verifier was there, with nothing failing and   *)
(* no exception, is in the folder of its verdict with -save and deleted    *)
(* without it (scalpel.c:213).  Bad media files are left out without       *)
(* -save: verify_video_audio.py knows no modes and moves them all the same.*)
Sorted(f) ==
  CASE carved[f].content = "ok" -> TRUE
    [] Empty(f)                 -> place[f] = Gone
    [] OTHER -> /\ mode = "save" => place[f].dir = Folder(f)
                /\ mode = "none" /\ carved[f].kind # "media" => place[f] = Gone

Verified(f) ==
  carved[f].kind \in (scripts \ aborted) \ {"other"}

DoneSorted ==
  pc = "done" /\ ~failed => \A f \in Files : Verified(f) => Sorted(f)

(* The walks meet files again in the folders they were moved to: a file is *)
(* renamed at most once for that, and only by a verifier that walks while  *)
(* it moves; nothing but an alien image ends a verifier.                   *)
MovedOnce ==
  /\ \A f \in Files : place[f].renamed <= 1
       /\ (place[f].renamed = 1 => carved[f].kind \in {"media", "pdf"})
  /\ ~failed /\ aborted # {} =>
       /\ aborted = {"image"} /\ mode = "save"
       /\ Cardinality({f \in Files : place[f].dir = "(not_image)"}) = 1

(* Post verification comes to an end.                                      *)
VerifyEnds == <>(pc = "done")

-----------------------------------------------------------------------------
(* verify_image.py:245 "delete zero-byte; move partial/invalid/not_image   *)
(* into folders."                                                          *)
ImagesSorted ==
  pc = "done" /\ ~failed /\ "image" \in scripts =>
    \A f \in Files : carved[f].kind = "image" => Sorted(f)
=============================================================================
