--------------------------- MODULE SessionProofs ----------------------------
(***************************************************************************)
(* Theorems about Session: file names, the turns of the images, the audit  *)
(* log and where headers come from, for any number of images, of headers   *)
(* and of errors.                                                          *)
(***************************************************************************)
EXTENDS Session, SequenceTheorems, TLAPS

Outcomes == {"skipped", "aborted", "carved"}
Entries  == [image : Images, outcome : Outcomes]
Where    == {"main", "next", "finish", "verify", "stuck"} \cup Passes \cup Exits

TypeInv ==
  /\ asked \in Seq(Images)
  /\ pc \in Where
  /\ todo \in Seq(Images)
  /\ pc \in Passes => imagefile \in Images
  /\ db \in Seq(Images)
  /\ fileswritten \in Nat
  /\ log \in Seq(Entries)
  /\ audit \in {"none", "open", "closed"}

-----------------------------------------------------------------------------
(* Headers chosen for carving are entries of the database.                 *)
LEMMA ChosenPlaces ==
  ASSUME TypeInv, NEW headers \in Chosen
  PROVE  /\ Len(headers) \in Nat /\ DOMAIN headers = 1..Len(headers)
         /\ \A i \in DOMAIN headers : \E h \in DOMAIN db : headers[i] = db[h]
<1>0. PICK n \in 0..Len(db) : \E at \in Rising(n) : headers = [j \in 1..n |-> db[at[j]]]
  BY DEF Chosen
<1>1. PICK at \in Rising(n) : headers = [j \in 1..n |-> db[at[j]]]
  BY <1>0
<1>2. n \in Nat /\ at \in [1..n -> DOMAIN db]
  BY <1>1 DEF Rising
<1>3. DOMAIN db = 1..Len(db) /\ \A h \in DOMAIN db : db[h] \in Images
  BY DEF TypeInv
<1>4. headers \in [1..n -> Images]
  BY <1>1, <1>2, <1>3
<1>5. headers \in Seq(Images) /\ Len(headers) = n
  BY <1>2, <1>4, SeqDef, LenProperties
<1> QED
  BY <1>1, <1>2, <1>5

(* A sequence with one more element at its end.                            *)
LEMMA AppendFacts ==
  ASSUME NEW S, NEW s \in Seq(S), NEW e \in S
  PROVE  /\ Append(s, e) \in Seq(S)
         /\ Len(s) \in Nat /\ Len(Append(s, e)) = Len(s) + 1
         /\ DOMAIN s = 1..Len(s) /\ DOMAIN Append(s, e) = 1..(Len(s) + 1)
         /\ \A i \in 1..Len(s) : Append(s, e)[i] = s[i]
         /\ Append(s, e)[Len(s) + 1] = e
  OBVIOUS

(* After an image comes the next one, or the end if none is left.          *)
LEMMA AfterImageWhere ==
  /\ AfterImage \in {"finish", "next"}
  /\ AfterImage = "finish" => todo = <<>>
  BY DEF AfterImage

(* An outcome is added to the log, whose entries stay.                     *)
LEMMA ReportFacts ==
  ASSUME TypeInv, pc \in Passes, NEW outcome \in Outcomes, Report(outcome)
  PROVE  /\ log' \in Seq(Entries)
         /\ Len(log) \in Nat /\ Len(log') = Len(log) + 1
         /\ DOMAIN log = 1..Len(log) /\ DOMAIN log' = 1..(Len(log) + 1)
         /\ \A i \in 1..Len(log) : log'[i] = log[i]
         /\ log'[Len(log) + 1] = [image |-> imagefile, outcome |-> outcome]
<1>1. [image |-> imagefile, outcome |-> outcome] \in Entries
  BY DEF TypeInv, Entries
<1> QED
  BY <1>1, AppendFacts DEF Report, TypeInv

(* Headers found are of the image being dug; those before stay.            *)
LEMMA FoundFacts ==
  ASSUME TypeInv, pc \in Passes, NEW n \in 0..MaxHeaders, db' = db \o Found(n)
  PROVE  /\ db' \in Seq(Images)
         /\ \A h \in DOMAIN db' : \/ h \in DOMAIN db /\ db'[h] = db[h]
                                  \/ db'[h] = imagefile
<1>1. n \in Nat
  BY SessionAssumption
<1>2. Found(n) \in [1..n -> Images]
  BY DEF Found, TypeInv
<1>3. Found(n) \in Seq(Images) /\ Len(Found(n)) = n /\ \A i \in 1..n : Found(n)[i] = imagefile
  BY <1>1, <1>2, SeqDef, LenProperties DEF Found
<1>4. db \in Seq(Images) /\ Len(db) \in Nat /\ DOMAIN db = 1..Len(db)
  BY DEF TypeInv
<1>5. db' \in Seq(Images) /\ Len(db') = Len(db) + n /\ DOMAIN db' = 1..(Len(db) + n)
  <2>1. db \o Found(n) \in Seq(Images)
    BY <1>3, <1>4, ConcatProperties
  <2>2. Len(db \o Found(n)) = Len(db) + n
    BY <1>3, <1>4, ConcatProperties
  <2> QED
    BY <2>1, <2>2, LenProperties
<1>6. ASSUME NEW h \in DOMAIN db' PROVE (h \in DOMAIN db /\ db'[h] = db[h]) \/ db'[h] = imagefile
  <2>1. CASE h <= Len(db)
    BY <1>3, <1>4, <1>5, <2>1
  <2>2. CASE h > Len(db)
    <3>1. h - Len(db) \in 1..n
      BY <1>1, <1>4, <1>5, <2>2
    <3>2. db'[h] = Found(n)[h - Len(db)]
      BY <1>3, <1>4, <1>5, <2>2
    <3> QED
      BY <1>3, <3>1, <3>2
  <2> QED
    BY <1>4, <1>5, <2>1, <2>2
<1> QED
  BY <1>5, <1>6

(* An error in the second pass comes after some files, in the first before. *)
LEMMA CarvedSomeFacts ==
  ASSUME TypeInv, CarvedSome
  PROVE  \/ files' = files /\ fileswritten' = fileswritten
         \/ /\ pc # "dig"
            /\ \E headers \in Chosen : \E some \in SUBSET Number(headers) :
                 files' = files \cup some /\ fileswritten' = fileswritten + Len(headers)
  BY DEF CarvedSome

(* The counter of files stays a natural number.                            *)
LEMMA WrittenNat ==
  ASSUME TypeInv, CarvedSome
  PROVE  fileswritten' \in Nat
<1>1. CASE fileswritten' = fileswritten
  BY <1>1 DEF TypeInv
<1>2. CASE \E headers \in Chosen : fileswritten' = fileswritten + Len(headers)
  BY <1>2, ChosenPlaces DEF TypeInv
<1> QED
  BY <1>1, <1>2, CarvedSomeFacts

-----------------------------------------------------------------------------
(* A run begins with these types.                                          *)
LEMMA TypeInit == Init => TypeInv
<1> SUFFICES ASSUME Init PROVE TypeInv
  OBVIOUS
<1>1. asked \in Seq(Images)
  BY SessionAssumption DEF Init
<1> QED
  BY <1>1 DEF Init, TypeInv, Where, Passes, Exits

(* Every step keeps the types.                                             *)
LEMMA TypeStep == TypeInv /\ [Next]_vars => TypeInv'
<1> SUFFICES ASSUME TypeInv, [Next]_vars PROVE TypeInv'
  OBVIOUS
<1> USE DEF user, kept
<1>1. CASE OpenAudit \/ NoImages \/ OpenAuditFails \/ ListFails \/ LastLine
  BY <1>1 DEF OpenAudit, NoImages, OpenAuditFails, ListFails, LastLine, TypeInv, Where, Passes, Exits
<1>2. CASE LineFails \/ CarveCrash \/ CloseAudit \/ RunVerifiers
  BY <1>2 DEF LineFails, CarveCrash, CloseAudit, RunVerifiers, TypeInv, Where, Passes, Exits
<1>3. CASE NextImage
  <2>1. imagefile' \in Images /\ todo' \in Seq(Images)
    BY <1>3, HeadTailProperties DEF NextImage, TypeInv
  <2> QED
    BY <1>3, <2>1 DEF NextImage, TypeInv, Where, Passes, Exits
<1>4. CASE DigImageFile
  <2>1. db' \in Seq(Images)
    BY <1>4, FoundFacts DEF DigImageFile, Passes
  <2> QED
    BY <1>4, <2>1 DEF DigImageFile, TypeInv, Where, Passes
<1>5. CASE DigSkipped
  <2>1. db' \in Seq(Images) /\ log' \in Seq(Entries)
    BY <1>5, FoundFacts, ReportFacts DEF DigSkipped, Passes, Outcomes
  <2> QED
    BY <1>5, <2>1, AfterImageWhere DEF DigSkipped, TypeInv, Where, Passes
<1>6. CASE Abort
  <2>1. log' \in Seq(Entries) /\ fileswritten' \in Nat
    BY <1>6, ReportFacts, WrittenNat DEF Abort, Outcomes
  <2> QED
    BY <1>6, <2>1 DEF Abort, TypeInv, Where, Passes, Exits
<1>7. CASE CarveImageFile
  <2>1. log' \in Seq(Entries)
    BY <1>7, ReportFacts DEF CarveImageFile, Passes, Outcomes
  <2>2. fileswritten' \in Nat
    BY <1>7, ChosenPlaces DEF CarveImageFile, TypeInv
  <2>3. db' \in Seq(Images)
    BY <1>7 DEF CarveImageFile, Clear
  <2> QED
    BY <1>7, <2>1, <2>2, <2>3, AfterImageWhere DEF CarveImageFile, TypeInv, Where, Passes
<1>8. CASE CarveSkipped
  <2>1. log' \in Seq(Entries) /\ fileswritten' \in Nat
    BY <1>8, ReportFacts, WrittenNat DEF CarveSkipped, Passes, Outcomes
  <2> QED
    BY <1>8, <2>1, AfterImageWhere DEF CarveSkipped, TypeInv, Where, Passes
<1>9. CASE Halted \/ UNCHANGED vars
  BY <1>9 DEF Halted, vars, TypeInv
<1> QED
  BY <1>1, <1>2, <1>3, <1>4, <1>5, <1>6, <1>7, <1>8, <1>9 DEF Next, Step

(* The variables of a run keep their types.                                *)
THEOREM Types == Spec => []TypeInv
  BY TypeInit, TypeStep, PTL DEF Spec

-----------------------------------------------------------------------------
(* Numbers of carved files are below the counter, and used once.           *)
NumInv == NamesUnique /\ \A f \in files : f.number \in Nat /\ f.number < fileswritten

(* Files numbered from the counter on, one for every header.               *)
LEMMA Numbered ==
  ASSUME TypeInv, NumInv, NEW headers \in Chosen, NEW some \in SUBSET Number(headers),
         files' = files \cup some, fileswritten' = fileswritten + Len(headers)
  PROVE  NumInv'
<1>1. fileswritten \in Nat /\ Len(headers) \in Nat /\ DOMAIN headers = 1..Len(headers)
  BY ChosenPlaces DEF TypeInv
<1>2. \A f \in some : \E i \in 1..Len(headers) :
        f = [number |-> fileswritten + i - 1, image |-> imagefile, from |-> headers[i]]
  BY <1>1 DEF Number
<1>3. \A f \in some : f.number \in Nat /\ fileswritten <= f.number /\ f.number < fileswritten'
  BY <1>1, <1>2
<1>4. \A f \in files : f.number \in Nat /\ f.number < fileswritten /\ f.number < fileswritten'
  BY <1>1 DEF NumInv
<1>5. ASSUME NEW f \in some, NEW g \in some, f.number = g.number PROVE f = g
  <2>1. PICK i \in 1..Len(headers) :
          f = [number |-> fileswritten + i - 1, image |-> imagefile, from |-> headers[i]]
    BY <1>2
  <2>2. PICK j \in 1..Len(headers) :
          g = [number |-> fileswritten + j - 1, image |-> imagefile, from |-> headers[j]]
    BY <1>2
  <2>3. fileswritten + i - 1 = fileswritten + j - 1
    BY <1>5, <2>1, <2>2
  <2>4. i = j
    BY <1>1, <2>3
  <2> QED
    BY <2>1, <2>2, <2>4
<1>6. \A f \in files, g \in some : f.number # g.number
  BY <1>1, <1>3, <1>4
<1>7. NamesUnique'
  BY <1>5, <1>6 DEF NumInv, NamesUnique
<1> QED
  BY <1>3, <1>4, <1>7 DEF NumInv

(* Numbers stay when no file is added.                                     *)
LEMMA NumbersKept ==
  ASSUME NumInv, UNCHANGED <<files, fileswritten>>
  PROVE  NumInv'
  BY DEF NumInv, NamesUnique

(* Every step keeps numbers below the counter and unique.                  *)
LEMMA NumStep == TypeInv /\ NumInv /\ [Next]_vars => NumInv'
<1> SUFFICES ASSUME TypeInv, NumInv, [Next]_vars PROVE NumInv'
  OBVIOUS
<1>1. CASE CarveImageFile
  BY <1>1, Numbered DEF CarveImageFile
<1>2. CASE CarvedSome
  BY <1>2, CarvedSomeFacts, Numbered, NumbersKept
<1>3. CASE UNCHANGED <<files, fileswritten>>
  BY <1>3, NumbersKept
<1>4. UNCHANGED <<files, fileswritten>> \/ CarvedSome \/ CarveImageFile
  BY DEF Next, Step, NoImages, OpenAudit, OpenAuditFails, ListFails, NextImage, LastLine, LineFails,
         DigImageFile, DigSkipped, Abort, CarveSkipped, CarveCrash, CloseAudit, RunVerifiers,
         Halted, vars, kept
<1> QED
  BY <1>1, <1>2, <1>3, <1>4

(* However many images there are, and whichever of them end in an error,   *)
(* no two carved files get one name.                                       *)
THEOREM FileNamesUnique == Spec => []NamesUnique
<1>1. Init => NumInv
  BY DEF Init, NumInv, NamesUnique
<1>2. NumInv => NamesUnique
  BY DEF NumInv
<1> QED
  BY <1>1, <1>2, Types, NumStep, PTL DEF Spec

-----------------------------------------------------------------------------
(* The audit log is open from its opening to the end of the last image,    *)
(* or to the error that ends the run.                                      *)
Used == asked # <<>> \/ opt.list

AuditInv ==
  /\ pc = "main" => audit = "none"
  /\ pc \in {"next", "dig", "carve", "finish"} => audit = "open" /\ Used
  /\ pc \in {"verify", "done"} => audit = (IF Used THEN "closed" ELSE "none")
  /\ pc = "exit" => audit # "open"
  /\ verified => pc = "done"

(* Every step keeps the log open while images are taken, and no longer.    *)
LEMMA AuditStep == AuditInv /\ [Next]_vars => AuditInv'
<1> SUFFICES ASSUME AuditInv, [Next]_vars PROVE AuditInv'
  OBVIOUS
<1> USE DEF user
<1>1. CASE OpenAudit
  BY <1>1 DEF OpenAudit, AuditInv, Used
<1>2. CASE NoImages
  BY <1>2 DEF NoImages, AuditInv, Used
<1>3. CASE OpenAuditFails \/ ListFails
  BY <1>3 DEF OpenAuditFails, ListFails, AuditInv, Used
<1>4. CASE NextImage \/ LastLine \/ LineFails
  BY <1>4 DEF NextImage, LastLine, LineFails, AuditInv, Used
<1>5. CASE DigImageFile \/ CarveCrash
  BY <1>5 DEF DigImageFile, CarveCrash, AuditInv, Used
<1>6. CASE DigSkipped \/ CarveImageFile \/ CarveSkipped
  BY <1>6, AfterImageWhere DEF DigSkipped, CarveImageFile, CarveSkipped, AuditInv, Used
<1>7. CASE Abort
  BY <1>7 DEF Abort, AuditInv, Used, Passes
<1>8. CASE CloseAudit
  BY <1>8 DEF CloseAudit, AuditInv, Used
<1>9. CASE RunVerifiers
  BY <1>9 DEF RunVerifiers, AuditInv, Used
<1>10. CASE Halted \/ UNCHANGED vars
  BY <1>10 DEF Halted, vars, AuditInv, Used
<1> QED
  BY <1>1, <1>2, <1>3, <1>4, <1>5, <1>6, <1>7, <1>8, <1>9, <1>10 DEF Next, Step

(* However the run ends, the audit log is ended first, and the verifiers   *)
(* see complete logs only.                                                 *)
THEOREM AuditEnded == Spec => []LogEnded
<1>1. Init => AuditInv
  BY DEF Init, AuditInv
<1>2. AuditInv => LogEnded
  BY DEF AuditInv, LogEnded, Used
<1> QED
  BY <1>1, <1>2, AuditStep, PTL DEF Spec

-----------------------------------------------------------------------------
(* The images asked for are those in the log, the one at work and those    *)
(* not yet taken, in this order.                                           *)
Turn == IF pc \in Passes \cup {"crash"} THEN Len(log) + 1 ELSE Len(log)

TurnInv ==
  /\ Turn + Len(todo) = Len(asked)
  /\ \A i \in 1..Len(todo) : todo[i] = asked[Turn + i]
  /\ pc \in Passes => imagefile = asked[Turn]
  /\ \A i \in DOMAIN log : log[i].image = asked[i]
  /\ \A i \in DOMAIN log : log[i].outcome = "aborted" => i = Len(log) /\ pc = "exit"
  /\ pc \in {"finish", "verify", "done"} => todo = <<>>

(* A run begins with all images to be taken.                               *)
LEMMA TurnInit == Init => TurnInv
<1> SUFFICES ASSUME Init PROVE TurnInv
  OBVIOUS
<1>1. asked \in Seq(Images) /\ Len(asked) \in Nat /\ todo = asked /\ log = <<>> /\ pc = "main"
  BY SessionAssumption DEF Init
<1>2. Turn = 0
  BY <1>1 DEF Turn, Passes
<1> QED
  BY <1>1, <1>2 DEF TurnInv, Passes

(* An image is taken from the front of those not yet taken.                *)
LEMMA TurnTaken == TypeInv /\ TurnInv /\ NextImage => TurnInv'
<1> SUFFICES ASSUME TypeInv, TurnInv, NextImage PROVE TurnInv'
  OBVIOUS
<1>1. /\ pc = "next" /\ pc' = "dig" /\ log' = log /\ asked' = asked
      /\ todo # <<>> /\ todo' = Tail(todo) /\ imagefile' = Head(todo)
  BY DEF NextImage, user
<1>2. /\ Len(todo) \in Nat \ {0} /\ Len(todo') = Len(todo) - 1 /\ imagefile' = todo[1]
      /\ \A i \in 1..Len(todo') : todo'[i] = todo[i + 1]
  <2>1. todo \in Seq(Images)
    BY DEF TypeInv
  <2>2. Head(todo) = todo[1]
    BY <1>1, <2>1
  <2>3. Len(todo) \in Nat \ {0} /\ Len(Tail(todo)) = Len(todo) - 1
    BY <1>1, <2>1
  <2>4. \A i \in 1..Len(Tail(todo)) : Tail(todo)[i] = todo[i + 1]
    BY <1>1, <2>1
  <2> QED
    BY <1>1, <2>2, <2>3, <2>4
<1>3. Turn = Len(log) /\ Turn' = Len(log) + 1 /\ Len(log) \in Nat /\ Len(asked) \in Nat
  BY <1>1 DEF Turn, Passes, TypeInv
<1>4. Turn' + Len(todo') = Len(asked')
  BY <1>1, <1>2, <1>3 DEF TurnInv
<1>5. ASSUME NEW i \in 1..Len(todo') PROVE todo'[i] = asked'[Turn' + i]
  <2>1. i + 1 \in 1..Len(todo) /\ todo'[i] = todo[i + 1]
    BY <1>2
  <2>2. todo[i + 1] = asked[Turn + (i + 1)]
    BY <2>1 DEF TurnInv
  <2>3. Turn + (i + 1) = Turn' + i
    BY <1>3
  <2> QED
    BY <1>1, <2>1, <2>2, <2>3
<1>6. imagefile' = asked'[Turn']
  <2>1. todo[1] = asked[Turn + 1]
    BY <1>2 DEF TurnInv
  <2> QED
    BY <1>1, <1>2, <1>3, <2>1
<1> QED
  BY <1>1, <1>4, <1>5, <1>6 DEF TurnInv, Passes

(* Its outcome goes to the end of the log.                                 *)
LEMMA TurnReported ==
  ASSUME TypeInv, TurnInv, pc \in Passes, NEW outcome \in Outcomes, Report(outcome),
         todo' = todo, asked' = asked,
         \/ outcome # "aborted" /\ pc' = AfterImage
         \/ pc' = "exit"
  PROVE  TurnInv'
<1>0. /\ Len(log') = Len(log) + 1
      /\ DOMAIN log = 1..Len(log) /\ DOMAIN log' = 1..(Len(log) + 1)
      /\ \A i \in 1..Len(log) : log'[i] = log[i]
      /\ log'[Len(log) + 1] = [image |-> imagefile, outcome |-> outcome]
  BY ReportFacts
<1>1. pc' \in {"next", "finish", "exit"} /\ (pc' = "finish" => todo' = <<>>)
  BY AfterImageWhere
<1>2. Turn = Len(log) + 1 /\ Turn' = Len(log') /\ Turn' = Turn /\ Len(log) \in Nat
  BY <1>1, ReportFacts DEF Turn, Passes
<1>3. ASSUME NEW i \in DOMAIN log' PROVE log'[i].image = asked[i]
  <2>1. CASE i \in 1..Len(log)
    BY <1>0, <2>1 DEF TurnInv
  <2>2. CASE i = Len(log) + 1
    BY <1>0, <1>2, <2>2 DEF TurnInv
  <2> QED
    BY <1>0, <1>2, <2>1, <2>2
<1>4. ASSUME NEW i \in DOMAIN log', log'[i].outcome = "aborted"
      PROVE  i = Len(log') /\ pc' = "exit"
  <2>1. i \notin 1..Len(log)
    <3> SUFFICES ASSUME i \in 1..Len(log) PROVE FALSE
      OBVIOUS
    <3>1. i \in DOMAIN log /\ log[i].outcome = "aborted"
      BY <1>0, <1>4
    <3> QED
      BY <3>1 DEF TurnInv, Passes
  <2>2. i = Len(log) + 1 /\ Len(log') = Len(log) + 1 /\ log'[i].outcome = outcome
    BY <1>0, <1>2, <2>1
  <2> QED
    BY <1>4, <2>2
<1> QED
  BY <1>1, <1>2, <1>3, <1>4 DEF TurnInv, Passes

(* Every step keeps the images in their order.                             *)
LEMMA TurnStep == TypeInv /\ TurnInv /\ [Next]_vars => TurnInv'
<1> SUFFICES ASSUME TypeInv, TurnInv, [Next]_vars PROVE TurnInv'
  OBVIOUS
<1> USE DEF user
<1>1. CASE NextImage
  BY <1>1, TurnTaken
<1>2. CASE DigSkipped \/ CarveSkipped
  BY <1>2, TurnReported DEF DigSkipped, CarveSkipped, Passes, Outcomes
<1>3. CASE CarveImageFile
  BY <1>3, TurnReported DEF CarveImageFile, Passes, Outcomes
<1>4. CASE Abort
  BY <1>4, TurnReported DEF Abort, Outcomes
<1>5. CASE DigImageFile
  BY <1>5 DEF DigImageFile, TurnInv, Turn, Passes
<1>6. CASE CarveCrash
  BY <1>6 DEF CarveCrash, TurnInv, Turn, Passes
<1>7. CASE LastLine \/ LineFails
  BY <1>7 DEF LastLine, LineFails, TurnInv, Turn, Passes
<1>8. CASE OpenAudit \/ OpenAuditFails \/ ListFails
  BY <1>8 DEF OpenAudit, OpenAuditFails, ListFails, TurnInv, Turn, Passes
<1>9. CASE NoImages
  <2>1. Len(asked) = 0 /\ Len(todo) \in Nat /\ Len(log) \in Nat /\ Turn = Len(log)
    BY <1>9 DEF NoImages, TypeInv, Turn, Passes
  <2>2. Len(todo) = 0
    BY <2>1 DEF TurnInv
  <2>3. todo = <<>>
    BY <2>2, EmptySeq DEF TypeInv
  <2> QED
    BY <1>9, <2>3 DEF NoImages, TurnInv, Turn, Passes
<1>10. CASE CloseAudit \/ RunVerifiers
  BY <1>10 DEF CloseAudit, RunVerifiers, TurnInv, Turn, Passes
<1>11. CASE Halted \/ UNCHANGED vars
  BY <1>11 DEF Halted, vars, TurnInv, Turn
<1> QED
  BY <1>1, <1>2, <1>3, <1>4, <1>5, <1>6, <1>7, <1>8, <1>9, <1>10, <1>11 DEF Next, Step

(* Every image is taken once, in order, and none is left out without a     *)
(* word; an image that ends the run is the last one.                       *)
THEOREM ImagesInOrder == Spec => []TakenInOrder
<1>1. TypeInv /\ TurnInv => TakenInOrder
  <2> SUFFICES ASSUME TypeInv, TurnInv PROVE TakenInOrder
    OBVIOUS
  <2>1. Len(log) \in Nat /\ Len(todo) \in Nat /\ Len(asked) \in Nat /\ DOMAIN log = 1..Len(log)
    BY DEF TypeInv
  <2>2. Len(log) <= Len(asked)
    BY <2>1 DEF TurnInv, Turn
  <2>3. pc \in {"finish", "verify", "done"} => Len(log) = Len(asked)
    BY <2>1 DEF TurnInv, Turn, Passes
  <2> QED
    BY <2>1, <2>2, <2>3 DEF TurnInv, TakenInOrder
<1> QED
  BY <1>1, TurnInit, TurnStep, Types, PTL DEF Spec

-----------------------------------------------------------------------------
(* SkippedSince, of a given log.                                           *)
SkippedIn(l, from, n) ==
  \E i \in 1..(n - 1) : l[i].image = from /\ \A j \in i..(n - 1) : l[j].outcome = "skipped"

(* A header in the database is of the image being carved, or of one that   *)
(* was skipped with all after it.                                          *)
DbInv ==
  /\ pc = "main" => db = <<>>
  /\ pc \in {"next", "dig", "carve"} =>
       \A h \in DOMAIN db : \/ pc = "carve" /\ db[h] = imagefile
                            \/ SkippedIn(log, db[h], Len(log) + 1)

(* Entries of the log stay.                                                *)
LogGrows ==
  /\ asked' = asked
  /\ Len(log) \in Nat /\ Len(log') \in Nat /\ Len(log) <= Len(log')
  /\ DOMAIN log = 1..Len(log) /\ DOMAIN log' = 1..Len(log')
  /\ \A i \in 1..Len(log) : log'[i] = log[i]

(* Every step keeps the log as it is or adds to it.                        *)
LEMMA Grows == TypeInv /\ [Next]_vars => LogGrows
<1> SUFFICES ASSUME TypeInv, [Next]_vars PROVE LogGrows
  OBVIOUS
<1>1. asked' = asked
  BY DEF Next, Step, NoImages, OpenAudit, OpenAuditFails, ListFails, NextImage, LastLine, LineFails,
         DigImageFile, DigSkipped, Abort, CarveImageFile, CarveSkipped, CarveCrash, CloseAudit,
         RunVerifiers, Halted, vars, user
<1>2. CASE log' = log
  BY <1>1, <1>2 DEF LogGrows, TypeInv
<1>3. CASE \E outcome \in Outcomes : pc \in Passes /\ Report(outcome)
  <2>1. PICK outcome \in Outcomes : pc \in Passes /\ Report(outcome)
    BY <1>3
  <2>2. /\ Len(log) \in Nat /\ Len(log') = Len(log) + 1
        /\ DOMAIN log = 1..Len(log) /\ DOMAIN log' = 1..(Len(log) + 1)
        /\ \A i \in 1..Len(log) : log'[i] = log[i]
    BY <2>1, ReportFacts
  <2> QED
    BY <1>1, <2>2 DEF LogGrows
<1>4. log' = log \/ \E outcome \in Outcomes : pc \in Passes /\ Report(outcome)
  BY DEF Next, Step, NoImages, OpenAudit, OpenAuditFails, ListFails, NextImage, LastLine, LineFails,
         DigImageFile, DigSkipped, Abort, CarveImageFile, CarveSkipped, CarveCrash, CloseAudit,
         RunVerifiers, Halted, vars, Outcomes, Passes
<1> QED
  BY <1>2, <1>3, <1>4

(* What the log says of an image up to some turn, it goes on saying.       *)
LEMMA SkippedKept ==
  ASSUME LogGrows, NEW from, NEW n \in 1..(Len(log) + 1), SkippedIn(log, from, n)
  PROVE  SkippedIn(log', from, n)
<1>1. PICK i \in 1..(n - 1) :
        log[i].image = from /\ \A j \in i..(n - 1) : log[j].outcome = "skipped"
  BY DEF SkippedIn
<1>2. Len(log) \in Nat /\ n \in Int /\ n - 1 <= Len(log)
  BY DEF LogGrows
<1>3. \A j \in 1..(n - 1) : log'[j] = log[j]
  BY <1>2 DEF LogGrows
<1>4. log'[i].image = from
  BY <1>1, <1>3
<1>5. ASSUME NEW j \in i..(n - 1) PROVE log'[j].outcome = "skipped"
  <2>1. j \in 1..(n - 1)
    BY <1>1, <1>2
  <2> QED
    BY <1>1, <1>3, <2>1
<1> QED
  BY <1>4, <1>5 DEF SkippedIn

(* Skipping an image adds it to the images skipped to this day.            *)
LEMMA SkippedNow ==
  ASSUME TypeInv, pc \in Passes, Report("skipped"), LogGrows, NEW from,
         from = imagefile \/ SkippedIn(log, from, Len(log) + 1)
  PROVE  SkippedIn(log', from, Len(log') + 1)
<1>1. /\ Len(log) \in Nat /\ Len(log') = Len(log) + 1
      /\ log'[Len(log) + 1] = [image |-> imagefile, outcome |-> "skipped"]
  BY ReportFacts DEF Outcomes
<1>2. CASE from = imagefile
  <2> DEFINE i == Len(log) + 1
  <2>1. i \in 1..(Len(log') + 1 - 1) /\ log'[i].image = from
    BY <1>1, <1>2
  <2>2. \A j \in i..(Len(log') + 1 - 1) : log'[j].outcome = "skipped"
    BY <1>1
  <2> QED
    BY <2>1, <2>2 DEF SkippedIn
<1>3. CASE SkippedIn(log, from, Len(log) + 1)
  <2>1. PICK i \in 1..(Len(log) + 1 - 1) :
          log[i].image = from /\ \A j \in i..(Len(log) + 1 - 1) : log[j].outcome = "skipped"
    BY <1>3 DEF SkippedIn
  <2>2. i \in 1..(Len(log') + 1 - 1) /\ log'[i].image = from
    BY <1>1, <2>1 DEF LogGrows
  <2>3. ASSUME NEW j \in i..(Len(log') + 1 - 1) PROVE log'[j].outcome = "skipped"
    <3>1. CASE j <= Len(log)
      <4>1. j \in i..(Len(log) + 1 - 1) /\ j \in 1..Len(log)
        BY <1>1, <2>1, <3>1
      <4> QED
        BY <2>1, <4>1 DEF LogGrows
    <3>2. CASE j > Len(log)
      <4>1. j = Len(log) + 1
        BY <1>1, <2>1, <3>2
      <4> QED
        BY <1>1, <4>1
    <3> QED
      BY <1>1, <2>1, <3>1, <3>2
  <2> QED
    BY <2>2, <2>3 DEF SkippedIn
<1> QED
  BY <1>2, <1>3

-----------------------------------------------------------------------------
(* Headers of an image not yet carved stay only if it is skipped.          *)
LEMMA DbStep == TypeInv /\ DbInv /\ [Next]_vars => DbInv'
<1> SUFFICES ASSUME TypeInv, DbInv, [Next]_vars PROVE DbInv'
  OBVIOUS
<1> USE DEF user, kept
<1>0. LogGrows
  BY Grows
<1>1. CASE DigImageFile
  <2>1. PICK n \in 0..MaxHeaders : db' = db \o Found(n)
    BY <1>1 DEF DigImageFile
  <2>2. pc = "dig" /\ pc' = "carve" /\ log' = log /\ imagefile' = imagefile
    BY <1>1 DEF DigImageFile
  <2>3. \A h \in DOMAIN db' : (h \in DOMAIN db /\ db'[h] = db[h]) \/ db'[h] = imagefile
    BY <2>1, <2>2, FoundFacts DEF Passes
  <2>4. ASSUME NEW h \in DOMAIN db', db'[h] # imagefile
        PROVE  SkippedIn(log', db'[h], Len(log') + 1)
    <3>1. h \in DOMAIN db /\ db'[h] = db[h] /\ SkippedIn(log, db[h], Len(log) + 1)
      BY <2>2, <2>3, <2>4 DEF DbInv
    <3> QED
      BY <2>2, <3>1 DEF SkippedIn
  <2> QED
    BY <2>2, <2>4 DEF DbInv
<1>2. CASE DigSkipped
  <2>1. PICK n \in 0..MaxHeaders : db' = db \o Found(n)
    BY <1>2 DEF DigSkipped
  <2>2. pc = "dig" /\ pc' = AfterImage /\ Report("skipped")
    BY <1>2 DEF DigSkipped
  <2>3. \A h \in DOMAIN db' : (h \in DOMAIN db /\ db'[h] = db[h]) \/ db'[h] = imagefile
    BY <2>1, <2>2, FoundFacts DEF Passes
  <2>4. ASSUME NEW h \in DOMAIN db' PROVE SkippedIn(log', db'[h], Len(log') + 1)
    <3>1. db'[h] = imagefile \/ SkippedIn(log, db'[h], Len(log) + 1)
      BY <2>2, <2>3 DEF DbInv
    <3> QED
      BY <1>0, <2>2, <3>1, SkippedNow DEF Passes
  <2> QED
    BY <2>2, <2>4, AfterImageWhere DEF DbInv
<1>3. CASE CarveSkipped
  <2>1. pc = "carve" /\ pc' = AfterImage /\ Report("skipped") /\ db' = db
    BY <1>3 DEF CarveSkipped
  <2>2. ASSUME NEW h \in DOMAIN db' PROVE SkippedIn(log', db'[h], Len(log') + 1)
    BY <1>0, <2>1, SkippedNow DEF DbInv, Passes
  <2> QED
    BY <2>1, <2>2, AfterImageWhere DEF DbInv
<1>4. CASE CarveImageFile
  BY <1>4, AfterImageWhere DEF CarveImageFile, Clear, DbInv
<1>5. CASE OpenAudit
  BY <1>5 DEF OpenAudit, DbInv
<1>6. CASE NextImage
  BY <1>6 DEF NextImage, DbInv, SkippedIn
<1>7. CASE OpenAuditFails \/ NoImages \/ ListFails \/ LastLine \/ LineFails \/ Abort
  BY <1>7 DEF OpenAuditFails, NoImages, ListFails, LastLine, LineFails, Abort, DbInv
<1>8. CASE CarveCrash \/ CloseAudit \/ RunVerifiers
  BY <1>8 DEF CarveCrash, CloseAudit, RunVerifiers, DbInv
<1>9. CASE Halted \/ UNCHANGED vars
  BY <1>9 DEF Halted, vars, DbInv, SkippedIn
<1> QED
  BY <1>1, <1>2, <1>3, <1>4, <1>5, <1>6, <1>7, <1>8, <1>9 DEF Next, Step

-----------------------------------------------------------------------------
(* FilesTraced, of SkippedIn.                                              *)
Source(f, l, images) ==
  f.from # f.image =>
    \E n \in 1..Len(images) :
      images[n] = f.image /\ n - 1 <= Len(l) /\ SkippedIn(l, f.from, n)

FilesInv == \A f \in files : Source(f, log, asked)

(* Where a file came from is known in the next state as well.              *)
LEMMA SourceKept ==
  ASSUME TypeInv, LogGrows, FilesInv, NEW f \in files
  PROVE  Source(f, log', asked')
<1> SUFFICES ASSUME f.from # f.image
             PROVE  \E n \in 1..Len(asked') : /\ asked'[n] = f.image /\ n - 1 <= Len(log')
                                              /\ SkippedIn(log', f.from, n)
  BY DEF Source
<1>1. PICK n \in 1..Len(asked) :
        asked[n] = f.image /\ n - 1 <= Len(log) /\ SkippedIn(log, f.from, n)
  BY DEF FilesInv, Source
<1>2. n \in 1..(Len(log) + 1) /\ n - 1 <= Len(log') /\ asked' = asked
  BY <1>1 DEF LogGrows, TypeInv
<1>3. SkippedIn(log', f.from, n)
  BY <1>1, <1>2, SkippedKept
<1> QED
  BY <1>1, <1>2, <1>3

(* A file carved in this turn is carved with a header of the database.     *)
LEMMA SourceNew ==
  ASSUME TypeInv, TurnInv, DbInv, LogGrows, pc = "carve",
         NEW headers \in Chosen, NEW f \in Number(headers)
  PROVE  Source(f, log', asked')
<1> SUFFICES ASSUME f.from # f.image
             PROVE  \E n \in 1..Len(asked') : /\ asked'[n] = f.image /\ n - 1 <= Len(log')
                                              /\ SkippedIn(log', f.from, n)
  BY DEF Source
<1>1. PICK i \in DOMAIN headers :
        f = [number |-> fileswritten + i - 1, image |-> imagefile, from |-> headers[i]]
  BY DEF Number
<1>2. PICK h \in DOMAIN db : f.from = db[h]
  BY <1>1, ChosenPlaces
<1>3. SkippedIn(log, f.from, Len(log) + 1)
  BY <1>1, <1>2 DEF DbInv
<1>4. /\ Len(log) \in Nat /\ Len(todo) \in Nat /\ Len(asked) \in Nat
      /\ Len(log) + 1 + Len(todo) = Len(asked) /\ imagefile = asked[Len(log) + 1]
  BY DEF TypeInv, TurnInv, Turn, Passes
<1>5. Len(log) + 1 \in 1..Len(asked) /\ asked[Len(log) + 1] = f.image
  BY <1>1, <1>4
<1>6. Len(log) + 1 \in 1..(Len(log) + 1)
  BY <1>4
<1>7. SkippedIn(log', f.from, Len(log) + 1)
  BY <1>3, <1>6, SkippedKept
<1> QED
  BY <1>4, <1>5, <1>7 DEF LogGrows

(* Every step keeps the sources of files known.                            *)
LEMMA FilesStep == TypeInv /\ TurnInv /\ DbInv /\ FilesInv /\ [Next]_vars => FilesInv'
<1> SUFFICES ASSUME TypeInv, TurnInv, DbInv, FilesInv, [Next]_vars, NEW f \in files'
             PROVE  Source(f, log', asked')
  BY DEF FilesInv
<1>0. LogGrows
  BY Grows
<1>1. files' = files \/ (Abort /\ CarvedSome) \/ CarveImageFile \/ (CarveSkipped /\ CarvedSome)
  BY DEF Next, Step, NoImages, OpenAudit, OpenAuditFails, ListFails, NextImage, LastLine, LineFails,
         DigImageFile, DigSkipped, Abort, CarveSkipped, CarveCrash, CloseAudit, RunVerifiers,
         Halted, vars, kept
<1>2. f \in files \/ (pc = "carve" /\ \E headers \in Chosen : f \in Number(headers))
  <2>1. CASE files' = files
    BY <2>1
  <2>2. CASE (Abort \/ CarveSkipped) /\ CarvedSome
    <3>1. pc \in Passes
      BY <2>2 DEF Abort, CarveSkipped, Passes
    <3>2. files' = files \/ (pc # "dig" /\ \E headers \in Chosen :
            \E some \in SUBSET Number(headers) : files' = files \cup some)
      BY <2>2, CarvedSomeFacts
    <3> QED
      BY <3>1, <3>2 DEF Passes
  <2>3. CASE CarveImageFile
    BY <2>3 DEF CarveImageFile
  <2> QED
    BY <1>1, <2>1, <2>2, <2>3
<1> QED
  BY <1>0, <1>2, SourceKept, SourceNew

-----------------------------------------------------------------------------
(* Without a skipped image the database holds headers of one image.        *)
LEMMA DatabaseOfImage ==
  ASSUME TypeInv, DbInv, pc = "carve", \A i \in DOMAIN log : log[i].outcome # "skipped"
  PROVE  \A h \in DOMAIN db : db[h] = imagefile
<1> SUFFICES ASSUME NEW h \in DOMAIN db, SkippedIn(log, db[h], Len(log) + 1) PROVE FALSE
  BY DEF DbInv
<1>1. Len(log) \in Nat /\ DOMAIN log = 1..Len(log)
  BY DEF TypeInv
<1>2. PICK i \in 1..(Len(log) + 1 - 1) : \A j \in i..(Len(log) + 1 - 1) : log[j].outcome = "skipped"
  BY DEF SkippedIn
<1>3. i \in DOMAIN log /\ i \in i..(Len(log) + 1 - 1)
  BY <1>1
<1> QED
  BY <1>2, <1>3

(* Every step keeps the databases on disk those of their images.           *)
LEMMA DatabasesStep == TypeInv /\ DbInv /\ DatabasesTraced /\ [Next]_vars => DatabasesTraced'
<1> SUFFICES ASSUME TypeInv, DbInv, DatabasesTraced, [Next]_vars,
                    \A i \in DOMAIN log' : log'[i].outcome # "skipped"
             PROVE  \A b \in DOMAIN databases' : \A h, k \in DOMAIN databases'[b] :
                      databases'[b][h] = databases'[b][k] /\ BaseName[databases'[b][h]] = b
  BY DEF DatabasesTraced
<1>1. \A i \in DOMAIN log : log[i].outcome # "skipped"
  BY Grows DEF LogGrows
<1>2. CASE databases' = databases
  BY <1>1, <1>2 DEF DatabasesTraced
<1>3. CASE pc = "carve" /\ databases' = WriteDatabase
  <2> SUFFICES ASSUME NEW b \in DOMAIN databases', NEW h \in DOMAIN databases'[b],
                      NEW k \in DOMAIN databases'[b]
               PROVE  databases'[b][h] = databases'[b][k] /\ BaseName[databases'[b][h]] = b
    OBVIOUS
  <2>1. CASE b = BaseName[imagefile]
    <3>1. databases'[b] = db
      BY <1>3, <2>1 DEF WriteDatabase
    <3> QED
      BY <1>1, <1>3, <2>1, <3>1, DatabaseOfImage
  <2>2. CASE b # BaseName[imagefile]
    <3>1. b \in DOMAIN databases /\ databases'[b] = databases[b]
      BY <1>3, <2>2 DEF WriteDatabase
    <3> QED
      BY <1>1, <3>1 DEF DatabasesTraced
  <2> QED
    BY <2>1, <2>2
<1>4. databases' = databases \/ (pc = "carve" /\ databases' = WriteDatabase)
  BY DEF Next, Step, NoImages, OpenAudit, OpenAuditFails, ListFails, NextImage, LastLine, LineFails,
         DigImageFile, DigSkipped, Abort, CarveImageFile, CarveSkipped, CarveCrash, CloseAudit,
         RunVerifiers, Halted, vars, kept
<1> QED
  BY <1>2, <1>3, <1>4

(* Whatever is written for an image comes from headers of that image, but  *)
(* for images that were skipped.                                           *)
THEOREM WrittenTraced == Spec => []HeadersTraced
<1>1. Init => DbInv /\ FilesInv /\ DatabasesTraced
  BY DEF Init, DbInv, FilesInv, DatabasesTraced
<1>2. FilesInv /\ DatabasesTraced => HeadersTraced
  BY DEF FilesInv, Source, SkippedIn, HeadersTraced, FilesTraced, SkippedSince
<1> QED
  BY <1>1, <1>2, TypeInit, TypeStep, TurnInit, TurnStep, DbStep, FilesStep, DatabasesStep,
     PTL DEF Spec
=============================================================================
