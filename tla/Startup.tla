------------------------------- MODULE Startup -------------------------------
(***************************************************************************)
(* main() of scalpel.c until the first image: the command line, the        *)
(* configuration file line by line, the output directory and the audit     *)
(* log.  Session goes on from there.                                       *)
(*                                                                         *)
(* Words of the command line, paths among them, are strings.  The needles  *)
(* of the configuration are byte strings, see Needles.                     *)
(***************************************************************************)
EXTENDS Needles, FiniteSets, FiniteSetsExt

CONSTANTS
  Scenarios,     \* what there is at the start: [argv, confs, disk]
  Paths,         \* directories that can be named
  Parent,        \* of some paths, the path they lie in
  Strtoull,      \* what strtoull() makes of the words that are numbers
  MaxFileTypes,
  Words,         \* every word of a command line
  Texts,         \* texts the needles are searched in
  NoPath

DefaultOutput == "scalpel-output"
DefaultConf   == "scalpel.conf"
QuestionMark  == 63

(* A line of the configuration, and the tokens behind the case and size of *)
(* a type, or behind "wildcard".                                           *)
ConfLines == [kind : {"comment", "wildcard", "spec"}, casesensitive : BOOLEAN,
              tokens : Seq([text : Seq(-128..127), means : STRING])]

ASSUME StartupAssumption ==
  /\ MaxFileTypes \in Nat /\ DefaultOutput \in Paths /\ NoPath \notin Paths \cup Words
  /\ DOMAIN Parent \subseteq Paths /\ \A p \in DOMAIN Parent : Parent[p] \in Paths \ {p}
  /\ Texts \subseteq Seq(Alphabet)
  /\ \A w \in DOMAIN Strtoull : Strtoull[w] \in Nat
  /\ "ave" \notin DOMAIN Strtoull       \* is no number
  /\ \A s \in Scenarios :
       /\ s.argv \in Seq(Words)
       /\ s.disk \in [Paths -> {"missing", "empty", "full", "closed"}]
       /\ \A f \in DOMAIN s.confs : s.confs[f] \in Seq(ConfLines)
       /\ \A p \in DOMAIN Parent : s.disk[p] # "missing"
                               => s.disk[Parent[p]] \notin {"missing", "empty"}

VARIABLES
  argv, confs,   \* the user's words; the configuration files there are
  disk,          \* directories: "missing", "empty", "full", "closed", or
                 \* "log": with nothing in it but the audit log
  pc,
  words,         \* words getopt() has not seen yet
  images,        \* words that are no options
  opt,           \* the fields of scalpelState that options set
  lines,         \* lines of the configuration not read yet
  specs,         \* SearchSpec[0 .. specLines - 1]
  wildcard,
  audit          \* where the audit log is: NoPath before it is opened

user == <<argv, confs>>
vars == <<argv, confs, disk, pc, words, images, opt, lines, specs, wildcard, audit>>

Flags  == {"-b", "-d", "-n", "-p", "-r", "-u", "-v"}
Valued == {"-c", "-i", "-m", "-o", "-q", "-s", "-t"}

-----------------------------------------------------------------------------
(* initializeState().  Without -t the maps directory is the same string as *)
(* the output directory.                                                   *)
Defaults ==
  [skip |-> 0, save |-> FALSE, conf |-> DefaultConf, output |-> DefaultOutput,
   maps |-> NoPath, blocksize |-> 0, aligned |-> 0, list |-> FALSE, flags |-> {}]

Init ==
  /\ \E s \in Scenarios : argv = s.argv /\ confs = s.confs /\ disk = s.disk
  /\ pc = "save" /\ words = argv /\ images = <<>>
  /\ opt = Defaults /\ lines = <<>> /\ specs = <<>> /\ wildcard = QuestionMark
  /\ audit = NoPath

Exit == pc' = "exit" /\ UNCHANGED <<user, disk, words, images, opt, lines, specs, wildcard, audit>>

(* Every word of the command line is looked at, whatever it stands for.    *)
FindSave ==
  /\ pc = "save" /\ pc' = "options"
  /\ opt' = [opt EXCEPT !.save = \E i \in DOMAIN argv : argv[i] = "-save"]
  /\ UNCHANGED <<user, disk, words, images, lines, specs, wildcard, audit>>

NumberOf(w) == IF w \in DOMAIN Strtoull THEN Strtoull[w] ELSE 0

(* One option of getopt() with its value; "-save" is -s with "ave".        *)
Set(o, w) ==
  CASE o = "-c" -> [opt EXCEPT !.conf = w]
    [] o = "-i" -> [opt EXCEPT !.list = TRUE]
    [] o = "-m" -> [opt EXCEPT !.blocksize = NumberOf(w), !.flags = @ \cup {"-m"}]
    [] o = "-o" -> [opt EXCEPT !.output = w]
    [] o = "-q" -> [opt EXCEPT !.aligned = NumberOf(w), !.flags = @ \cup {"-q"}]
    [] o = "-s" -> [opt EXCEPT !.skip = NumberOf(w)]
    [] o = "-t" -> [opt EXCEPT !.maps = w]

(* The words left after one getopt() has taken n of them.                  *)
Taken(n) == words' = SubSeq(words, n + 1, Len(words))
Rest == UNCHANGED <<user, disk, lines, specs, wildcard, audit>>

TakeImage ==
  /\ pc = "options" /\ words # <<>> /\ Head(words) \notin Flags \cup Valued
  /\ Head(words) \notin {"-save", "-h", "-V", "-O"}
  /\ images' = Append(images, Head(words)) /\ Taken(1)
  /\ UNCHANGED <<pc, opt>> /\ Rest

TakeFlag ==
  /\ pc = "options" /\ words # <<>> /\ Head(words) \in Flags
  /\ opt' = [opt EXCEPT !.flags = @ \cup {Head(words)}] /\ Taken(1)
  /\ UNCHANGED <<pc, images>> /\ Rest

TakeSave ==
  /\ pc = "options" /\ words # <<>> /\ Head(words) = "-save"
  /\ opt' = Set("-s", "ave") /\ Taken(1)
  /\ UNCHANGED <<pc, images>> /\ Rest

(* A block size of 0 ends the program.                                     *)
Refused(o, w) == o \in {"-m", "-q"} /\ NumberOf(w) = 0
TakeValuedAlone ==                      \* a bug in reach: the value is seen again
  /\ pc = "options" /\ Len(words) >= 2 /\ Head(words) \in Valued
  /\ ~Refused(words[1], words[2])
  /\ opt' = Set(words[1], words[2]) /\ Taken(1)
  /\ UNCHANGED <<pc, images>> /\ Rest
TakeValued ==
  /\ pc = "options" /\ Len(words) >= 2 /\ Head(words) \in Valued
  /\ ~Refused(words[1], words[2])
  /\ opt' = Set(words[1], words[2]) /\ Taken(2)
  /\ UNCHANGED <<pc, images>> /\ Rest

(* -h and -V, a word getopt() does not know, a value that is wrong or is   *)
(* not there.                                                              *)
BadOption ==
  /\ pc = "options" /\ words # <<>>
  /\ \/ Head(words) \in {"-h", "-V"}
     \/ Head(words) = "-O"
     \/ Head(words) \in Valued /\ Len(words) = 1
     \/ Len(words) >= 2 /\ Refused(words[1], words[2])
  /\ Exit

(* convertFileNames(): realpath() of a path in a directory that does not   *)
(* exist gives that directory (glibc).                                     *)
InMissing(p) == p \in DOMAIN Parent /\ disk[Parent[p]] = "missing"
Resolved(p)  == IF InMissing(p) THEN Parent[p] ELSE p
ConvertFileNames ==
  /\ pc = "options" /\ words = <<>> /\ pc' = "conf"
  /\ opt' = [opt EXCEPT !.output = Resolved(@)]
  /\ UNCHANGED <<user, disk, words, images, lines, specs, wildcard, audit>>

-----------------------------------------------------------------------------
(* readSearchSpecFile() *)
OpenConf ==
  /\ pc = "conf" /\ opt.conf \in DOMAIN confs /\ pc' = "lines"
  /\ lines' = confs[opt.conf]
  /\ UNCHANGED <<user, disk, words, images, opt, specs, wildcard, audit>>

ConfMissing == pc = "conf" /\ opt.conf \notin DOMAIN confs /\ Exit

(* The check comes before each line, and with >: one type too many gets in *)
(* when nothing follows it.                                                *)
TooManyByTwo == Len(specs) > MaxFileTypes + 1   \* a bug in reach
TooMany      == Len(specs) > MaxFileTypes

(* extractSearchSpecData(): the tables are made with the wildcard that is  *)
(* in force now.  Fewer tokens leave the footer and the type empty.        *)
Needle(text, casesensitive) ==
  LET bytes == translate(text) IN
  [bytes |-> bytes, table |-> init_bm_table(bytes, casesensitive, wildcard)]

SpecFrom(line) ==
  LET footer == IF Len(line.tokens) >= 2 THEN line.tokens[2].text ELSE <<>> IN
  [casesensitive |-> line.casesensitive,
   begin |-> Needle(line.tokens[1].text, line.casesensitive),
   end   |-> Needle(footer, line.casesensitive),
   type  |-> IF Len(line.tokens) >= 3 THEN line.tokens[3].means ELSE "FORWARD",
   made  |-> wildcard]

NextLine == pc = "lines" /\ lines # <<>> /\ ~TooMany /\ lines' = Tail(lines)
Line     == Head(lines)

ReadComment ==
  /\ NextLine /\ Line.kind = "comment"
  /\ UNCHANGED <<user, disk, pc, words, images, opt, specs, wildcard, audit>>

(* The first byte of the token; a line without one is ignored.             *)
ReadWildcard ==
  /\ NextLine /\ Line.kind = "wildcard"
  /\ wildcard' = IF Line.tokens = <<>> THEN wildcard ELSE translate(Line.tokens[1].text)[1]
  /\ UNCHANGED <<user, disk, pc, words, images, opt, specs, audit>>

(* suffix, case and size are there and at least a header.                  *)
ReadSpec ==
  /\ NextLine /\ Line.kind = "spec" /\ Line.tokens # <<>>
  /\ specs' = Append(specs, SpecFrom(Line))
  /\ UNCHANGED <<user, disk, pc, words, images, opt, wildcard, audit>>

BadLine ==
  /\ pc = "lines" /\ lines # <<>>
  /\ \/ TooMany
     \/ Line.kind = "spec" /\ Line.tokens = <<>>
  /\ Exit

(* The marker goes into SearchSpec[specLines].                             *)
EndOfConf ==
  /\ pc = "lines" /\ lines = <<>> /\ pc' = "output"
  /\ UNCHANGED <<user, disk, words, images, opt, lines, specs, wildcard, audit>>

-----------------------------------------------------------------------------
(* main() again: without an image there is nothing to carve.               *)
NoImages ==
  /\ pc = "output" /\ images = <<>> /\ ~opt.list /\ pc' = "verify"
  /\ UNCHANGED <<user, disk, words, images, opt, lines, specs, wildcard, audit>>

(* outputDirectoryOK(): nothing but "." and ".." in it, or it can be made. *)
NotBelow(p, how) == p \in DOMAIN Parent => disk[Parent[p]] # how
OutputThere == disk[opt.output] \in {"empty", "full", "missing"}  \* a bug in reach: no look inside
OutputOK    == disk[opt.output] \in {"empty", "missing"} /\ NotBelow(opt.output, "closed")

HasImages == pc = "output" /\ (images # <<>> \/ opt.list)

(* openAuditFile(): the directory is made, the log is the first thing in   *)
(* it.                                                                     *)
OpenAuditFile ==
  /\ HasImages /\ OutputOK
  /\ pc' = "dig" /\ audit' = opt.output
  /\ disk' = [p \in Paths |-> IF p = opt.output THEN "log"
                             ELSE IF /\ disk[p] = "empty"
                                     /\ opt.output \in DOMAIN Parent
                                     /\ Parent[opt.output] = p
                               THEN "full" ELSE disk[p]]
  /\ UNCHANGED <<user, words, images, opt, lines, specs, wildcard>>

(* The directory is not fit, cannot be made, or takes no file: then it has *)
(* been made all the same.                                                 *)
Made == [disk EXCEPT ![opt.output] = IF @ = "missing" THEN "empty" ELSE @]
AuditFails ==
  /\ HasImages /\ pc' = "exit"
  /\ disk' \in {disk} \cup (IF OutputOK THEN {Made} ELSE {})
  /\ UNCHANGED <<user, words, images, opt, lines, specs, wildcard, audit>>

Next ==
  \/ FindSave \/ TakeImage \/ TakeFlag \/ TakeSave \/ TakeValued \/ BadOption
  \/ ConvertFileNames \/ OpenConf \/ ConfMissing
  \/ ReadComment \/ ReadWildcard \/ ReadSpec \/ BadLine \/ EndOfConf
  \/ NoImages \/ OpenAuditFile \/ AuditFails

Spec == Init /\ [][Next]_vars

-----------------------------------------------------------------------------
(***************************************************************************)
(* Properties.                                                             *)
(***************************************************************************)
(* Whatever headers and footers the file defines, with wildcards and both  *)
(* cases, pass 1 finds the first place in a text where a needle matches,   *)
(* however far the jump table lets it skip (init_bm_table,                 *)
(* bm_needleinhaystack_skipnchars).  Excluded are needles with a byte that *)
(* a later line makes the wildcard: their tables do not know it.           *)
FirstMatch(needle, text, casesensitive) ==
  LET places == {i \in 1..(Len(text) + 1) :
                   MatchesAt(needle, text, i, casesensitive, wildcard)}
  IN  IF places = {} THEN 0 ELSE CHOOSE i \in places : \A j \in places : i <= j

NeedlesFound ==
  pc = "dig" => \A n \in DOMAIN specs : \A needle \in {specs[n].begin, specs[n].end} :
    specs[n].made = wildcard \/ wildcard \notin ToSet(needle.bytes) =>
      \A text \in Texts :
        bm_needleinhaystack(needle.bytes, text, needle.table, specs[n].casesensitive, wildcard)
          = FirstMatch(needle.bytes, text, specs[n].casesensitive)

(* readSearchSpecFile(): a run that goes on has every type of the file, in *)
(* the order of its lines, and no more than MaxFileTypes: every one is     *)
(* initialised and the marker behind them is inside the MaxFileTypes + 1   *)
(* entries allocated.  Files with few types are not refused for them.      *)
(* The check comes before a line is read and compares with >: one type too *)
(* many gets in, in spite of the message at scalpel.c:396, but only as the *)
(* very last line, and never two.                                          *)
SpecLines(conf, n) == {i \in 1..n : conf[i].kind = "spec"}
SpecsUsable ==
  /\ pc \in {"output", "dig", "verify"} =>
       LET conf == confs[opt.conf]  wanted == SpecLines(conf, Len(conf)) IN
       /\ Len(specs) = Cardinality(wanted)
       /\ \A i \in wanted : specs[Cardinality(SpecLines(conf, i))].begin.bytes
                              = translate(conf[i].tokens[1].text)
       /\ Len(specs) > MaxFileTypes =>
            Len(specs) = MaxFileTypes + 1 /\ conf[Len(conf)].kind = "spec"
  /\ pc = "exit" /\ lines # <<>> =>
       \/ Cardinality(SpecLines(confs[opt.conf], Len(confs[opt.conf]))) > MaxFileTypes
       \/ \E i \in DOMAIN lines : lines[i].kind = "spec" /\ lines[i].tokens = <<>>

(* The words getopt() takes for values of the option before them.          *)
IsValue(ws, i) ==
  LET value[n \in 0..Len(ws)] == n > 1 /\ ~value[n - 1] /\ ws[n - 1] \in Valued
  IN  value[i]
LastOption(os) == LET given == {i \in DOMAIN argv : argv[i] \in os /\ ~IsValue(argv, i)} IN
                  IF given = {} THEN 0 ELSE CHOOSE i \in given : \A j \in given : j <= i

(* A run that begins to dig does so as it was told: with the last -s, if   *)
(* no -save comes behind it, with block sizes that are not 0, and into a   *)
(* directory that was empty or not there; so that a blockmap of an earlier *)
(* run is found with -t only (processCommandLineArgs, outputDirectoryOK).  *)
(* No directory with something in it is written to.                        *)
MapsDirectory == IF opt.maps = NoPath THEN opt.output ELSE opt.maps
BeginsAsTold ==
  [][/\ \A p \in Paths : disk[p] = "full" => disk'[p] = "full"
     /\ pc' = "dig" =>
          LET s == LastOption({"-s", "-save"}) IN
          /\ opt.skip = (IF s = 0 \/ argv[s] = "-save" THEN 0 ELSE NumberOf(argv[s + 1]))
          /\ "-m" \in opt.flags => opt.blocksize > 0
          /\ "-q" \in opt.flags => opt.aligned > 0
          /\ LastOption({"-t"}) = 0 => disk[MapsDirectory] # "full"]_vars

(* To Session, all this is the step from "main" to the first image, to the *)
(* verifiers or to the end, with the images and options the words stand    *)
(* for.                                                                    *)
Options0 == {"-save", "-h", "-V", "-O"} \cup Flags \cup Valued
ImagesAt(ws, n) == {i \in 1..n : ~IsValue(ws, i) /\ ws[i] \notin Options0}
Some(S)         == CHOOSE i \in S : TRUE
ImagesIn(ws, n) ==
  LET at(r) == {i \in ImagesAt(ws, n) : Cardinality(ImagesAt(ws, i)) = r}
  IN  [r \in 1..Cardinality(ImagesAt(ws, n)) |-> ws[Some(at(r))]]
Asked           == ImagesIn(argv, Len(argv))

Run == INSTANCE Session WITH
  Lists <- Seq(Words), Size <- [w \in Words |-> 1], BaseName <- [w \in Words |-> w],
  Options <- [list : BOOLEAN, terminated : BOOLEAN, database : BOOLEAN],
  NoImage <- NoPath, MaxHeaders <- 0,
  asked <- Asked,
  opt <- [list |-> LastOption({"-i"}) # 0, terminated |-> FALSE,
          database |-> LastOption({"-d"}) # 0],
  pc <- (IF pc = "dig" THEN "next" ELSE IF pc \in {"exit", "verify"} THEN pc ELSE "main"),
  todo <- (IF pc = "dig" THEN images ELSE Asked),
  imagefile <- NoPath, db <- <<>>, fileswritten <- 0, files <- {}, databases <- <<>>,
  audit <- (IF audit = NoPath THEN "none" ELSE "open"), log <- <<>>, verified <- FALSE
BeginsSession == Run!Spec
=============================================================================
