------------------------------- MODULE Session -------------------------------
(***************************************************************************)
(* A run of the program, main() and digAllFiles() of scalpel.c: images are *)
(* taken from the command line or from a list file (-i), one after the     *)
(* other; each is dug, then carved; errors end the image or the run.       *)
(* digImageFile() and carveImageFile() are steps with their possible       *)
(* outcomes here; CarveImage and DigImage say what they do.                *)
(*                                                                         *)
(* A header in the database is the image it was found in.                  *)
(***************************************************************************)
EXTENDS Integers, Sequences

CONSTANTS
  Lists,        \* what images the user asks for, in order
  Size,         \* size of every image
  BaseName,     \* base_name() of every image's path
  Options,      \* command lines: [list, terminated, database]
  NoImage,      \* imagefile before the first image
  MaxHeaders    \* bound: headers found in one image

Images == DOMAIN Size

ASSUME SessionAssumption ==
  /\ Lists \subseteq Seq(Images) /\ MaxHeaders \in Nat
  /\ DOMAIN BaseName = Images /\ NoImage \notin Images
  /\ \A i \in Images : Size[i] \in Nat

VARIABLES
  asked,      \* the images asked for
  opt,        \* the command line
  pc,         \* where main() is
  todo,       \* argv, or the lines of the list file not yet read
  imagefile,  \* state->imagefile
  db,         \* offsets.headers of all types, as found
  fileswritten,
  files,      \* carved files: [number, image, from]
  databases,  \* the .hfd files: base name to the headers in it
  audit,      \* the audit log: "none", "open", "closed"
  log,        \* the outcome of every image, as far as the log and stderr tell
  verified    \* the verifiers have run

vars == <<asked, opt, pc, todo, imagefile, db, fileswritten, files, databases,
          audit, log, verified>>
user == <<asked, opt>>
kept == <<db, fileswritten, files, databases>>

Exits   == {"done", "exit", "crash"}   \* "stuck": reading the list for ever
Passes  == {"dig", "carve"}

-----------------------------------------------------------------------------
Init ==
  /\ asked \in Lists /\ opt \in Options
  /\ pc = "main"
  /\ todo = asked /\ imagefile = NoImage
  /\ db = <<>> /\ fileswritten = 0 /\ files = {} /\ databases = <<>>
  /\ audit = "none" /\ log = <<>> /\ verified = FALSE

(* The output directory is empty or can be made, and the log is opened.    *)
OpenAudit ==
  /\ pc = "main" /\ pc' = "next"
  /\ asked # <<>> \/ opt.list
  /\ audit' = "open"
  /\ UNCHANGED <<user, todo, imagefile, kept, log, verified>>

(* No image and no list: usage(), and the verifiers run all the same.      *)
NoImages ==
  /\ pc = "main" /\ asked = <<>> /\ ~opt.list
  /\ pc' = "verify"
  /\ UNCHANGED <<user, todo, imagefile, kept, audit, log, verified>>

(* A bad configuration, or no empty output directory.                      *)
OpenAuditFails ==
  /\ pc = "main" /\ pc' = "exit"
  /\ UNCHANGED <<user, todo, imagefile, kept, audit, log, verified>>

(* The list file cannot be opened.                                         *)
ListFails ==
  /\ pc = "next" /\ opt.list /\ imagefile = NoImage
  /\ pc' = "exit" /\ audit' = "closed"
  /\ UNCHANGED <<user, todo, imagefile, kept, log, verified>>

NextImage ==
  /\ pc = "next" /\ todo # <<>>
  /\ imagefile' = Head(todo) /\ todo' = Tail(todo)
  /\ pc' = "dig"
  /\ UNCHANGED <<user, kept, audit, log, verified>>

(* After an image.  A list is read until feof(): when its last line ends   *)
(* with a newline fgets() has to fail once more.                           *)
AfterImageAgain ==                      \* a bug in reach: the last image is taken again
  IF todo = <<>> THEN IF opt.list THEN "dig" ELSE "finish" ELSE "next"
AfterImage ==
  IF todo = <<>> /\ ~(opt.list /\ opt.terminated) THEN "finish" ELSE "next"

(* fgets() fails at the end: "Skipping line", and feof() ends the loop.    *)
LastLineAgain == pc = "next" /\ todo = <<>> /\ opt.list /\ UNCHANGED vars  \* a bug in reach
LastLine ==
  /\ pc = "next" /\ todo = <<>> /\ opt.list
  /\ pc' = "finish"
  /\ UNCHANGED <<user, todo, imagefile, kept, audit, log, verified>>

(* fgets() fails with an error: nothing is skipped and feof() never comes  *)
(* true, so that the same line is tried for ever.                          *)
LineFails ==
  /\ pc = "next" /\ opt.list
  /\ pc' = "stuck"
  /\ UNCHANGED <<user, todo, imagefile, kept, audit, log, verified>>

Report(outcome) == log' = Append(log, [image |-> imagefile, outcome |-> outcome])

Found(n) == [i \in 1..n |-> imagefile]

DigImageFile ==
  /\ pc = "dig" /\ pc' = "carve"
  /\ \E n \in 0..MaxHeaders : db' = db \o Found(n)
  /\ UNCHANGED <<user, todo, imagefile, fileswritten, files, databases, audit, log, verified>>

(* handleError(): SCALPEL_ERROR_FILE_OPEN and SCALPEL_ERROR_FILE_READ are  *)
(* reported and the image is skipped; headers found so far stay.           *)
DigSkipped ==
  /\ pc = "dig" /\ pc' = AfterImage
  /\ \E n \in 0..MaxHeaders : db' = db \o Found(n)
  /\ Report("skipped")
  /\ UNCHANGED <<user, todo, imagefile, fileswritten, files, databases, audit, verified>>

(* The files of one call: numbered as they are planned, in the order of    *)
(* the headers; not every header makes a file.  (First two bugs in reach:  *)
(* counted before the name is made, and counted anew for every image.)     *)
NumberAhead(headers) == {[number |-> fileswritten + i, image |-> imagefile,
                          from |-> headers[i]] : i \in DOMAIN headers}
NumberFromZero(headers) == {[number |-> i - 1, image |-> imagefile, from |-> headers[i]] :
                             i \in DOMAIN headers}
Number(headers) == {[number |-> fileswritten + i - 1, image |-> imagefile,
                     from |-> headers[i]] : i \in DOMAIN headers}

(* A header of a larger image may lie past the end of this one, where      *)
(* there is no queue for it.                                               *)
Outside == \E i \in DOMAIN db : Size[db[i]] > Size[imagefile]

(* Some of the headers, in their order: those at n rising places.          *)
Rising(n) == {at \in [1..n -> DOMAIN db] : \A i, j \in 1..n : i < j => at[i] < at[j]}
Chosen    == UNION {{[j \in 1..n |-> db[at[j]]] : at \in Rising(n)} : n \in 0..Len(db)}

(* Every other error closes the log and ends the run, and so does a signal *)
(* (clean_up) and want of memory (checkMemoryAllocation); in the second    *)
(* pass some files have been carved by then.                               *)
CarvedSome ==
  IF pc = "dig" THEN UNCHANGED <<files, fileswritten>>
  ELSE \E headers \in Chosen : \E some \in SUBSET Number(headers) :
         /\ files' = files \cup some
         /\ fileswritten' = fileswritten + Len(headers)

AbortSilently ==                        \* a bug in reach: the log is left open
  /\ pc \in Passes /\ pc' = "exit"
  /\ Report("aborted")
  /\ UNCHANGED <<user, todo, imagefile, kept, audit, verified>>
Abort ==
  /\ pc \in Passes /\ pc' = "exit"
  /\ audit' = "closed"
  /\ Report("aborted")
  /\ CarvedSome
  /\ UNCHANGED <<user, todo, imagefile, db, databases, verified>>

(* The database is emptied at the end of the call.                         *)
ClearNothing(headers) == headers
Clear(headers)        == <<>>

(* writeHeaderFooterDatabase(): opened with "w" under the image's base     *)
(* name, so that an image of the same name replaces it.                    *)
WriteDatabase ==
  [b \in DOMAIN databases \cup {BaseName[imagefile]} |->
     IF b = BaseName[imagefile] THEN db ELSE databases[b]]

CarveImageFile ==
  /\ pc = "carve" /\ pc' = AfterImage
  /\ \E headers \in Chosen :
       /\ files' = files \cup Number(headers)
       /\ fileswritten' = fileswritten + Len(headers)
  /\ databases' = IF opt.database THEN WriteDatabase ELSE databases
  /\ db' = Clear(db)
  /\ Report("carved")
  /\ UNCHANGED <<user, todo, imagefile, audit, verified>>

(* SCALPEL_ERROR_FILE_OPEN or FILE_READ again: before files are planned,   *)
(* or with some of them carved.                                            *)
CarveSkipped ==
  /\ pc = "carve" /\ pc' = AfterImage
  /\ CarvedSome
  /\ Report("skipped")
  /\ UNCHANGED <<user, todo, imagefile, db, databases, audit, verified>>

CarveCrash ==
  /\ pc = "carve" /\ Outside
  /\ pc' = "crash"
  /\ UNCHANGED <<user, todo, imagefile, kept, audit, log, verified>>

(* main() again: the metrics, the end of the log.                          *)
CloseAudit ==
  /\ pc = "finish" /\ pc' = "verify"
  /\ audit' = "closed"
  /\ UNCHANGED <<user, todo, imagefile, kept, log, verified>>

(* run_post_verify(), whatever the verifiers return.                       *)
RunVerifiers ==
  /\ pc = "verify" /\ pc' = "done"
  /\ verified' = TRUE
  /\ UNCHANGED <<user, todo, imagefile, kept, audit, log>>

Halted == pc \in Exits \cup {"stuck"} /\ UNCHANGED vars

Step == \/ NoImages \/ OpenAudit \/ OpenAuditFails \/ ListFails \/ NextImage \/ LastLine
        \/ DigImageFile \/ DigSkipped \/ Abort \/ CarveImageFile
        \/ CarveSkipped \/ CarveCrash \/ CloseAudit \/ RunVerifiers

Next == Step \/ LineFails \/ Halted

Spec     == Init /\ [][Next]_vars
FairSpec == Spec /\ WF_vars(Step)

-----------------------------------------------------------------------------
(***************************************************************************)
(* Properties.                                                             *)
(***************************************************************************)
(* Carved files are opened for appending; no two of them, of whatever      *)
(* images, share a number and with it a name.                              *)
NamesUnique == \A f, g \in files : f.number = g.number => f = g

(* Every image is taken once, in order, and none is left out without a     *)
(* word; an image that ends the run is the last one.                       *)
TakenInOrder ==
  /\ \A i \in DOMAIN log : i <= Len(asked) /\ log[i].image = asked[i]
  /\ \A i \in DOMAIN log : log[i].outcome = "aborted" => i = Len(log) /\ pc = "exit"
  /\ pc \in {"finish", "verify", "done"} => Len(log) = Len(asked)

(* An image is carved with headers of another one only after that one, and *)
(* everything between them, was skipped.                                   *)
SkippedSince(from, n) ==
  \E i \in 1..(n - 1) : log[i].image = from /\ \A j \in i..(n - 1) : log[j].outcome = "skipped"

FilesTraced ==
  \A f \in files : f.from # f.image =>
    \E n \in 1..Len(asked) : asked[n] = f.image /\ n - 1 <= Len(log) /\ SkippedSince(f.from, n)

(* The database of an image (-d) names the headers of that image only, if  *)
(* nothing was skipped.                                                    *)
DatabasesTraced ==
  (\A i \in DOMAIN log : log[i].outcome # "skipped") =>
    \A b \in DOMAIN databases : \A h, k \in DOMAIN databases[b] :
      databases[b][h] = databases[b][k] /\ BaseName[databases[b][h]] = b

(* Whatever is written for an image comes from headers of that image, but  *)
(* for images that were skipped (digAllFiles, handleError).                *)
HeadersTraced == FilesTraced /\ DatabasesTraced

(* However the run ends, the audit log is ended first; the verifiers see   *)
(* complete logs only.                                                     *)
LogEnded ==
  /\ pc \in {"done", "exit"} => audit # "open"
  /\ verified => audit = (IF asked = <<>> /\ ~opt.list THEN "none" ELSE "closed")

(* The run ends, unless the list of images cannot be read.                 *)
RunEnds == <>(pc \in Exits \cup {"stuck"})

-----------------------------------------------------------------------------
(***************************************************************************)
(* What the repository says of the code, for the runs that refute it.      *)
(***************************************************************************)
(* scalpel.c:655-656 "Need to clear the header/footer offset database      *)
(* after processing of each file".                                         *)
OwnHeadersOnly == \A f \in files : f.from = f.image
=============================================================================
