-------------------------- MODULE PostVerifyProofs --------------------------
(***************************************************************************)
(* Theorems about PostVerify.  The walks of the verifiers are followed     *)
(* file by file: before its verifier runs a file is where it was carved,   *)
(* while it runs the file is sorted, or its path is still to be looked at, *)
(* or its folder still to be entered, and afterwards it stays where it is. *)
(***************************************************************************)
EXTENDS PostVerify, FiniteSetTheorems, TLAPS

Verdicts == {"(mismatch)", "partial", "invalid", "(not_image)", "(not_pdf)"}
Folders  == Kinds \cup Verdicts \cup {""}
Places   == [dir : Folders, renamed : Nat]

(* When a kind has its turn; nobody verifies the others.                   *)
Rank(k) == CASE k = "ole" -> 1 [] k = "image" -> 2 [] k = "media" -> 3
             [] k = "pdf" -> 4 [] OTHER -> 5

Wrong(f) == carved[f].content \notin {"ok", "empty"}

Types ==
  /\ mode \in {"save", "none"} /\ scripts \subseteq Kinds /\ carved \in [Files -> Carved]
  /\ place \in [Files -> Places] /\ made \subseteq Verdicts
  /\ turn \in 1..5 /\ pc \in {"next", "walk", "done"}
  /\ dirs \subseteq Kinds \cup Verdicts /\ todo \subseteq [file : Files, at : Places]
  /\ aborted \subseteq Kinds /\ failed \in BOOLEAN
  /\ pc = "walk" => turn <= 4
  /\ pc = "done" => turn = 5

(* Where a file may be.                                                    *)
Somewhere(f) ==
  \/ place[f] = Home(f)
  \/ /\ place[f] = Gone
     /\ Empty(f) \/ (Wrong(f) /\ mode = "none" /\ carved[f].kind # "media")
  \/ /\ Wrong(f) /\ place[f].dir = Folder(f)
     /\ \/ place[f].renamed = 0
        \/ place[f].renamed = 1 /\ carved[f].kind \in {"media", "pdf"}

(* Its verifier has not run yet.                                           *)
ToCome(f) == Rank(carved[f].kind) > turn \/ (Rank(carved[f].kind) = turn /\ pc = "next")

Settled ==
  \A f \in Files : Somewhere(f) /\ (ToCome(f) /\ ~Empty(f) => place[f] = Home(f))

InTodo(f) == \E path \in todo : path.file = f

(* A file has one path to be looked at, and one that was moved during this *)
(* walk is met again once at the most.                                     *)
MetAgain ==
  pc = "walk" =>
    /\ \A p, q \in todo : p.file = q.file => p = q
    /\ Collects(Me) => dirs = {}
    /\ \A f \in Files : Bad(f) /\ place[f].dir = Folder(f) =>
         /\ InTodo(f) => /\ ~Collects(Me) /\ place[f].renamed = 0
                         /\ Folder(f) \notin dirs
         /\ place[f].renamed = 1 => Folder(f) \notin dirs

SortedSoFar ==
  ~failed =>
    \A f \in Files : Verified(f) =>
      /\ Rank(carved[f].kind) < turn => Sorted(f)
      /\ Rank(carved[f].kind) = turn /\ pc = "walk" =>
           Sorted(f) \/ InTodo(f) \/ place[f].dir \in dirs

NotImages == {f \in Files : place[f].dir = "(not_image)"}

OneAlien ==
  /\ turn <= 2 => NotImages = {}
  /\ ~failed /\ aborted # {} => /\ aborted = {"image"} /\ mode = "save" /\ turn > 2
                                /\ Cardinality(NotImages) = 1

VerifyInv == Types /\ Settled /\ MetAgain /\ SortedSoFar /\ OneAlien

-----------------------------------------------------------------------------
(* The turns of the kinds.                                                 *)
LEMMA Turns ==
  /\ Len(Verifiers) = 4
  /\ \A k \in Kinds : Rank(k) \in 1..5 /\ (Rank(k) = 5 <=> k = "other")
  /\ \A t \in 1..4 : /\ Verifiers[t] \in Kinds \ {"other"}
                     /\ \A k \in Kinds : Rank(k) = t <=> k = Verifiers[t]
                     /\ Collects(Verifiers[t]) <=> t <= 2
<1>1. Len(Verifiers) = 4
  BY DEF Verifiers
<1>2. ASSUME NEW k \in Kinds PROVE Rank(k) \in 1..5 /\ (Rank(k) = 5 <=> k = "other")
  BY DEF Rank, Kinds
<1>3. ASSUME NEW t \in 1..4
      PROVE  /\ Verifiers[t] \in Kinds \ {"other"}
             /\ \A k \in Kinds : Rank(k) = t <=> k = Verifiers[t]
             /\ Collects(Verifiers[t]) <=> t <= 2
  <2>1. \/ t = 1 /\ Verifiers[t] = "ole"
        \/ t = 2 /\ Verifiers[t] = "image"
        \/ t = 3 /\ Verifiers[t] = "media"
        \/ t = 4 /\ Verifiers[t] = "pdf"
    BY DEF Verifiers
  <2> QED
    BY <2>1 DEF Rank, Kinds, Collects
<1> QED
  BY <1>1, <1>2, <1>3

(* A directory of carved files is none of verified files.                   *)
LEMMA KindsAreNoVerdicts == Kinds \cap Verdicts = {} /\ "" \notin Kinds \cup Verdicts
BY DEF Kinds, Verdicts

(* A deleted file is in no directory.                                       *)
LEMMA GoneIsNowhere == Gone.dir \notin Kinds \cup Verdicts /\ Gone.renamed = 0
<1>1. Gone.dir = "" /\ Gone.renamed = 0
  BY DEF Gone
<1> QED
  BY <1>1, KindsAreNoVerdicts

(* What the verdicts tell apart.                                           *)
LEMMA FileFacts ==
  ASSUME Types, NEW f \in Files
  PROVE  /\ carved[f].kind \in Kinds /\ Home(f) \in Places /\ Home(f) # Gone
         /\ Home(f).renamed = 0 /\ Home(f).dir = carved[f].kind /\ Home(f).dir \in Kinds
         /\ carved[f].content \in {"empty", "ok", "partial", "invalid", "alien"}
         /\ Empty(f) => ~Wrong(f)
         /\ Wrong(f) => /\ Folder(f) \in Verdicts /\ carved[f].kind # "other"
                        /\ Folder(f) = "(not_image)" =>
                             carved[f].kind = "image" /\ carved[f].content = "alien"
<1>1. carved[f] \in Carved
  BY DEF Types
<1>2. PICK k : k = carved[f].kind
  OBVIOUS
<1>3. PICK c : c = carved[f].content
  OBVIOUS
<1>4. /\ k \in Kinds /\ c \in {"empty", "ok", "partial", "invalid", "alien"}
      /\ k = "media" => c # "alien"
      /\ k = "other" => c \in {"empty", "ok"}
  BY <1>1, <1>2, <1>3, VerifyAssumption
<1>5. Folder(f) = IF k = "ole" THEN "(mismatch)" ELSE IF c # "alien" THEN c
                  ELSE IF k = "image" THEN "(not_image)" ELSE "(not_pdf)"
  BY <1>2, <1>3 DEF Folder
<1>6. Wrong(f) <=> c \notin {"ok", "empty"}
  BY <1>3 DEF Wrong
<1>7. Empty(f) <=> c = "empty"
  BY <1>3 DEF Empty
<1>8. Home(f) = [dir |-> k, renamed |-> 0]
  BY <1>2 DEF Home
<1>9. Home(f) \in Places /\ Home(f) # Gone /\ Home(f).renamed = 0 /\ Home(f).dir = k
  <2>1. Gone.dir = "" /\ Home(f).dir = k /\ Home(f).renamed = 0
    BY <1>8 DEF Gone
  <2>2. Home(f) # Gone
    BY <1>4, <2>1, KindsAreNoVerdicts
  <2>3. Home(f) \in Places
    BY <1>2, <1>4 DEF Home, Places, Folders
  <2> QED
    BY <2>1, <2>2, <2>3
<1>10. Wrong(f) => /\ Folder(f) \in Verdicts /\ k # "other"
                   /\ Folder(f) = "(not_image)" => k = "image" /\ c = "alien"
  BY <1>4, <1>5, <1>6 DEF Verdicts
<1> QED
  BY <1>2, <1>3, <1>4, <1>6, <1>7, <1>9, <1>10

(* The invariant holds before the first verifier runs.                      *)
LEMMA VerifyInit == Init => VerifyInv
<1> SUFFICES ASSUME Init PROVE VerifyInv
  OBVIOUS
<1>1. Types
  <2>1. \A f \in Files : Home(f) \in Places
    <3> SUFFICES ASSUME NEW f \in Files PROVE Home(f) \in Places
      OBVIOUS
    <3>1. carved[f] \in Carved
      BY DEF Init
    <3>2. carved[f].kind \in Kinds
      BY <3>1, VerifyAssumption
    <3> QED
      BY <3>2 DEF Home, Places, Folders
  <2>2. place \in [Files -> Places]
    BY <2>1 DEF Init
  <2>3. scripts \subseteq Kinds
    BY VerifyAssumption DEF Init
  <2>4. /\ todo = {} /\ made = {} /\ dirs = {} /\ aborted = {} /\ turn = 1 /\ pc = "next"
        /\ mode \in {"save", "none"} /\ carved \in [Files -> Carved]
    BY DEF Init
  <2>5. failed \in BOOLEAN
    BY DEF Init
  <2> QED
    BY <2>2, <2>3, <2>4, <2>5 DEF Types
<1>2. Settled
  BY DEF Init, Settled, Somewhere
<1>3. MetAgain
  BY DEF Init, MetAgain
<1>4. SortedSoFar
  <2> SUFFICES ASSUME NEW f \in Files PROVE ~(Rank(carved[f].kind) < turn) /\ pc # "walk"
    BY DEF SortedSoFar
  <2>1. Rank(carved[f].kind) \in 1..5
    BY <1>1, FileFacts, Turns
  <2> QED
    BY <2>1 DEF Init
<1>5. OneAlien
  <2>1. \A f \in Files : place[f].dir \in Kinds
    BY <1>1, FileFacts DEF Init
  <2>2. NotImages = {}
    BY <2>1 DEF NotImages, Kinds
  <2> QED
    BY <2>2 DEF Init, OneAlien
<1> QED
  BY <1>1, <1>2, <1>3, <1>4, <1>5 DEF VerifyInv

-----------------------------------------------------------------------------
(***************************************************************************)
(* The visits.  What happens to the file of one path: nothing, an error,   *)
(* it is deleted, or it is moved.                                          *)
(***************************************************************************)
Passes(p) ==
  ~Empty(p.file) /\ ~Bad(p.file) /\ GoOn(p) /\ UNCHANGED <<place, made, failed>>

Errs(p) ==
  /\ Empty(p.file) \/ Bad(p.file)
  /\ GoOn(p) \/ Abort
  /\ failed' = TRUE /\ UNCHANGED <<place, made>>

Drops(p) ==
  /\ Empty(p.file) \/ (Bad(p.file) /\ Removes(Me))
  /\ GoOn(p) /\ place' = [place EXCEPT ![p.file] = Gone]
  /\ UNCHANGED <<made, failed>>

Moves(p) ==
  /\ Bad(p.file) /\ ~Removes(Me)
  /\ place' = [place EXCEPT ![p.file] = Moved(p.file)]
  /\ made' = made \cup FoldersMade(p.file)
  /\ IF MovesTwice(p.file) THEN Abort ELSE GoOn(p)
  /\ failed' = failed

Visited(p) ==
  /\ pc = "walk" /\ p \in todo /\ UNCHANGED given
  /\ Passes(p) \/ Errs(p) \/ Drops(p) \/ Moves(p)

Visit == VisitEmpty \/ VisitFine \/ VisitRemove \/ VisitMove \/ VisitFails

(* A step of a walk visits one of the paths it was given.                   *)
LEMMA VisitsOnePath == Visit => \E p \in todo : Visited(p)
<1>1. CASE VisitEmpty
  BY <1>1 DEF VisitEmpty, Visited, Drops
<1>2. CASE VisitFine
  BY <1>2 DEF VisitFine, Visited, Passes
<1>3. CASE VisitRemove
  BY <1>3 DEF VisitRemove, Visited, Drops
<1>4. CASE VisitMove
  BY <1>4 DEF VisitMove, Visited, Moves
<1>5. CASE VisitFails
  <2>1. PICK p \in todo : /\ Empty(p.file) \/ Bad(p.file)
                          /\ IF Catches(p.file) THEN GoOn(p) ELSE Abort
    BY <1>5 DEF VisitFails
  <2> QED
    BY <1>5, <2>1 DEF VisitFails, Visited, Errs
<1> QED
  BY <1>1, <1>2, <1>3, <1>4, <1>5 DEF Visit

(* The walk goes on to the next path, or the next verifier has its turn.   *)
LEMMA VisitMoves ==
  ASSUME Types, NEW p, Visited(p)
  PROVE  /\ p.file \in Files /\ turn \in 1..4 /\ Me \in Kinds \ {"other"}
         /\ \A f \in Files : Rank(carved[f].kind) = turn <=> carved[f].kind = Me
         /\ Bad(p.file) => Wrong(p.file) /\ carved[p.file].kind = Me
         /\ mode' = mode /\ scripts' = scripts /\ carved' = carved
         /\ \/ GoOn(p)
            \/ Abort
<1>1. p \in [file : Files, at : Places] /\ pc = "walk"
  BY DEF Visited, Types
<1>2. turn \in 1..4
  BY <1>1 DEF Types
<1>3. \A f \in Files : carved[f].kind \in Kinds
  BY FileFacts
<1>4. /\ Me \in Kinds \ {"other"}
      /\ \A f \in Files : Rank(carved[f].kind) = turn <=> carved[f].kind = Me
  BY <1>2, <1>3, Turns DEF Me
<1>5. Bad(p.file) => Wrong(p.file) /\ carved[p.file].kind = Me
  BY DEF Bad, Wrong
<1>6. GoOn(p) \/ Abort
  BY DEF Visited, Passes, Errs, Drops, Moves
<1> QED
  BY <1>1, <1>2, <1>4, <1>5, <1>6 DEF Visited, given

(* A visit keeps the types.                                                 *)
LEMMA TypesVisit == ASSUME Types, NEW p, Visited(p) PROVE Types'
<1>1. /\ p.file \in Files /\ turn \in 1..4 /\ Me \in Kinds
      /\ Bad(p.file) => Wrong(p.file)
      /\ mode' = mode /\ scripts' = scripts /\ carved' = carved
  BY VisitMoves
<1>2. /\ turn' \in 1..5 /\ pc' \in {"next", "walk", "done"} /\ (pc' = "walk" => turn' <= 4)
      /\ (pc' = "done" => turn' = 5)
      /\ dirs' \subseteq Kinds \cup Verdicts /\ todo' \subseteq [file : Files, at : Places]
      /\ aborted' \subseteq Kinds
  <2>1. CASE GoOn(p)
    BY <1>1, <2>1 DEF GoOn, Remaining, Types
  <2>2. CASE Abort
    BY <1>1, <2>2 DEF Abort, Types
  <2> QED
    BY <2>1, <2>2, VisitMoves
<1>3. place' \in [Files -> Places] /\ made' \subseteq Verdicts
  <2>1. CASE Passes(p) \/ Errs(p)
    BY <2>1 DEF Passes, Errs, Types
  <2>2. CASE Drops(p)
    <3>1. Gone \in Places
      BY DEF Gone, Places, Folders
    <3> QED
      BY <1>1, <2>2, <3>1 DEF Drops, Types
  <2>3. CASE Moves(p)
    <3>1. Folder(p.file) \in Verdicts /\ FoldersMade(p.file) \subseteq Verdicts
      <4>1. Folder(p.file) \in Verdicts
        BY <1>1, <2>3, FileFacts DEF Moves
      <4> QED
        BY <4>1 DEF FoldersMade, Verdicts
    <3>2. place[p.file] \in Places
      BY <1>1 DEF Types
    <3>3. Moved(p.file) \in Places
      <4>1. PICK r :
                 r = place[p.file].renamed
                       + (IF place[p.file].dir = Folder(p.file) THEN 1 ELSE 0)
        OBVIOUS
      <4>2. r \in Nat
        BY <3>2, <4>1 DEF Places
      <4>3. Moved(p.file) = [dir |-> Folder(p.file), renamed |-> r]
        BY <4>1 DEF Moved
      <4>4. Folder(p.file) \in Folders
        BY <3>1 DEF Folders
      <4> QED
        BY <4>2, <4>3, <4>4 DEF Places
    <3> QED
      BY <1>1, <2>3, <3>1, <3>3 DEF Moves, Types
  <2> QED
    BY <2>1, <2>2, <2>3 DEF Visited
<1>4. failed' \in BOOLEAN
  BY DEF Visited, Passes, Errs, Drops, Moves, Types
<1> QED
  BY <1>1, <1>2, <1>3, <1>4 DEF Types

(* Where the file of the path is afterwards.                               *)
LEMMA VisitPlaces ==
  ASSUME Types, Settled, MetAgain, NEW p, Visited(p)
  PROVE  /\ \A f \in Files : f # p.file => place'[f] = place[f]
         /\ \/ place'[p.file] = place[p.file]
            \/ Drops(p) /\ place'[p.file] = Gone
            \/ /\ Moves(p) /\ place'[p.file].dir = Folder(p.file)
               /\ \/ place'[p.file].renamed = 0
                  \/ /\ place'[p.file].renamed = 1 /\ Me \in {"media", "pdf"}
                     /\ Folder(p.file) \notin dirs
<1>1. /\ p.file \in Files /\ turn \in 1..4 /\ Me \in Kinds
      /\ Bad(p.file) => Wrong(p.file) /\ carved[p.file].kind = Me
  BY VisitMoves
<1>2. place \in [Files -> Places] /\ pc = "walk" /\ p \in todo
  BY DEF Types, Visited
<1>3. CASE Passes(p) \/ Errs(p)
  BY <1>3 DEF Passes, Errs
<1>4. CASE Drops(p)
  BY <1>1, <1>2, <1>4 DEF Drops
<1>5. CASE Moves(p)
  <2>1. /\ \A f \in Files : f # p.file => place'[f] = place[f]
        /\ place'[p.file] = Moved(p.file)
    BY <1>1, <1>2, <1>5 DEF Moves
  <2>2. Bad(p.file) /\ Wrong(p.file) /\ carved[p.file].kind = Me /\ ~Removes(Me)
    BY <1>1, <1>5 DEF Moves
  <2>3. Somewhere(p.file)
    BY <1>1 DEF Settled
  <2>4. CASE place[p.file].dir = Folder(p.file)
    <3>1. InTodo(p.file)
      BY <1>2 DEF InTodo
    <3>2. ~Collects(Me) /\ place[p.file].renamed = 0 /\ Folder(p.file) \notin dirs
      BY <1>1, <1>2, <2>2, <2>4, <3>1 DEF MetAgain
    <3>3. Me \in {"media", "pdf"}
      BY <1>1, <3>2, Turns, VisitMoves DEF Kinds, Collects
    <3>4. Moved(p.file).dir = Folder(p.file) /\ Moved(p.file).renamed = 1
      BY <2>4, <3>2 DEF Moved
    <3> QED
      BY <1>5, <2>1, <3>2, <3>3, <3>4
  <2>5. CASE place[p.file].dir # Folder(p.file)
    <3>1. place[p.file] = Home(p.file)
      <4>1. ~Empty(p.file)
        BY <1>1, <2>2, FileFacts
      <4>2. place[p.file] # Gone
        BY <2>2, <2>3, <2>5, <4>1, FileFacts, <1>1 DEF Somewhere, Removes
      <4> QED
        BY <2>3, <2>5, <4>2 DEF Somewhere
    <3>2. place[p.file].renamed = 0
      BY <1>1, <3>1, FileFacts
    <3>3. Moved(p.file).dir = Folder(p.file) /\ Moved(p.file).renamed = 0
      BY <2>5, <3>2 DEF Moved
    <3> QED
      BY <1>5, <2>1, <3>3
  <2> QED
    BY <2>4, <2>5
<1> QED
  BY <1>3, <1>4, <1>5 DEF Visited

(* A visit settles the file visited, and no other one.                      *)
LEMMA SettledVisit ==
  ASSUME Types, Types', Settled, MetAgain, NEW p, Visited(p)
  PROVE  Settled'
<1>1. /\ p.file \in Files /\ turn \in 1..4 /\ Me \in Kinds
      /\ \A f \in Files : Rank(carved[f].kind) = turn <=> carved[f].kind = Me
      /\ Bad(p.file) => Wrong(p.file) /\ carved[p.file].kind = Me
      /\ mode' = mode /\ scripts' = scripts /\ carved' = carved
      /\ GoOn(p) \/ Abort
  BY VisitMoves
<1>2. \A f : /\ Home(f)' = Home(f) /\ Folder(f)' = Folder(f)
             /\ (Empty(f)' <=> Empty(f)) /\ (Wrong(f)' <=> Wrong(f))
  BY <1>1 DEF Home, Folder, Empty, Wrong
<1>3. \A f \in Files : ToCome(f)' => Rank(carved[f].kind) > turn
  <2> SUFFICES ASSUME NEW f \in Files, ToCome(f)' PROVE Rank(carved[f].kind) > turn
    OBVIOUS
  <2>1. Rank(carved[f].kind) \in 1..5
    BY FileFacts, Turns
  <2>2. CASE GoOn(p)
    BY <1>1, <2>1, <2>2 DEF ToCome, GoOn, Visited
  <2>3. CASE Abort
    BY <1>1, <2>1, <2>3 DEF ToCome, Abort
  <2> QED
    BY <1>1, <2>2, <2>3
<1>4. ASSUME NEW f \in Files, f # p.file
      PROVE  Somewhere(f)' /\ (ToCome(f)' /\ ~Empty(f)' => place'[f] = Home(f)')
  <2>1. place'[f] = place[f]
    BY <1>4, VisitPlaces
  <2> QED
    BY <1>1, <1>2, <1>3, <2>1 DEF Settled, Somewhere, ToCome
<1>5. PICK f : f = p.file
  OBVIOUS
<1>6. Somewhere(f) /\ Somewhere(f)'
  <2>1. Somewhere(f)
    BY <1>1, <1>5 DEF Settled
  <2>2. CASE place'[f] = place[f]
    BY <1>1, <1>2, <2>1, <2>2 DEF Somewhere
  <2>3. CASE Drops(p) /\ place'[f] = Gone
    <3>1. Empty(f) \/ (Wrong(f) /\ mode = "none" /\ carved[f].kind # "media")
      BY <1>1, <1>5, <2>3 DEF Drops, Removes
    <3> QED
      BY <1>1, <1>2, <2>1, <2>3, <3>1 DEF Somewhere
  <2>4. CASE /\ Moves(p) /\ place'[f].dir = Folder(f)
             /\ place'[f].renamed = 0 \/ (place'[f].renamed = 1 /\ Me \in {"media", "pdf"})
    <3>1. Wrong(f) /\ carved[f].kind = Me
      BY <1>1, <1>5, <2>4 DEF Moves
    <3> QED
      BY <1>1, <1>2, <2>1, <2>4, <3>1 DEF Somewhere
  <2> QED
    BY <1>5, <2>1, <2>2, <2>3, <2>4, VisitPlaces
<1>7. ToCome(f)' /\ ~Empty(f)' => place'[f] = Home(f)'
  <2> SUFFICES ASSUME ToCome(f)', ~Empty(f) PROVE place'[f] = Home(f)
    BY <1>2
  <2>1. Rank(carved[f].kind) > turn
    BY <1>1, <1>3, <1>5
  <2>2. ~Bad(f)
    <3>1. Rank(carved[f].kind) # turn
      BY <1>1, <2>1
    <3> QED
      BY <1>1, <1>5, <3>1
  <2>3. place'[f] = place[f]
    BY <1>5, <2>2, VisitPlaces DEF Drops, Moves
  <2> QED
    BY <1>1, <1>5, <2>1, <2>3 DEF Settled, ToCome
<1> QED
  BY <1>1, <1>4, <1>5, <1>6, <1>7 DEF Settled

(* A file moved during the walk is met once more at most.                   *)
LEMMA MetAgainVisit ==
  ASSUME Types, Settled, MetAgain, NEW p, Visited(p)
  PROVE  MetAgain'
<1>1. /\ p.file \in Files /\ turn \in 1..4
      /\ mode' = mode /\ scripts' = scripts /\ carved' = carved
      /\ GoOn(p) \/ Abort
  BY VisitMoves
<1>2. CASE Abort
  BY <1>2 DEF Abort, MetAgain
<1>3. CASE GoOn(p)
  <2>1. /\ pc' = pc /\ turn' = turn /\ dirs' = dirs /\ todo' = todo \ {p} /\ Me' = Me
        /\ pc = "walk" /\ p \in todo
    BY <1>3 DEF GoOn, Remaining, Visited, Me
  <2>2. \A f : /\ Bad(f)' <=> Bad(f)
               /\ Folder(f)' = Folder(f)
               /\ InTodo(f)' => InTodo(f)
    BY <1>1, <2>1 DEF Bad, Folder, InTodo
  <2>3. ~InTodo(p.file)'
    BY <2>1 DEF InTodo, MetAgain
  <2>4. ASSUME NEW f \in Files, Bad(f)', place'[f].dir = Folder(f)'
        PROVE  /\ InTodo(f)' => /\ ~Collects(Me') /\ place'[f].renamed = 0
                                /\ Folder(f)' \notin dirs'
               /\ place'[f].renamed = 1 => Folder(f)' \notin dirs'
    <3>1. CASE place'[f] = place[f]
      BY <2>1, <2>2, <2>4, <3>1 DEF MetAgain
    <3>2. CASE place'[f] # place[f]
      <4>1. f = p.file /\ ~InTodo(f)'
        BY <2>3, <3>2, VisitPlaces
      <4>2. place'[f].renamed = 1 => Folder(f) \notin dirs
        <5>1. CASE place'[f] = Gone
          <6>1. Gone.renamed = 0
            BY DEF Gone
          <6> QED
            BY <5>1, <6>1
        <5>2. CASE place'[f] # Gone
          BY <3>2, <4>1, <5>2, VisitPlaces
        <5> QED
          BY <5>1, <5>2
      <4> QED
        BY <2>1, <2>2, <4>1, <4>2
    <3> QED
      BY <3>1, <3>2
  <2>5. \A a, b \in todo' : a.file = b.file => a = b
    BY <2>1 DEF MetAgain
  <2>6. Collects(Me') => dirs' = {}
    BY <2>1 DEF MetAgain
  <2> QED
    BY <2>1, <2>4, <2>5, <2>6 DEF MetAgain, Collects
<1> QED
  BY <1>1, <1>2, <1>3

(* A visit sorts the file away, or leaves it where it belongs.              *)
LEMMA SortedVisit ==
  ASSUME Types, Settled, MetAgain, SortedSoFar, NEW p, Visited(p)
  PROVE  SortedSoFar'
<1> SUFFICES ASSUME ~failed', NEW f \in Files, Verified(f)'
             PROVE  /\ Rank(carved[f].kind) < turn' => Sorted(f)'
                    /\ Rank(carved[f].kind) = turn' /\ pc' = "walk" =>
                         Sorted(f)' \/ InTodo(f)' \/ place'[f].dir \in dirs'
  BY VisitMoves DEF SortedSoFar
<1>1. /\ p.file \in Files /\ turn \in 1..4 /\ Me \in Kinds
      /\ \A g \in Files : Rank(carved[g].kind) = turn <=> carved[g].kind = Me
      /\ Bad(p.file) => Wrong(p.file) /\ carved[p.file].kind = Me
      /\ mode' = mode /\ scripts' = scripts /\ carved' = carved
      /\ GoOn(p) \/ Abort
  BY VisitMoves
<1>2. /\ Folder(f)' = Folder(f) /\ (Empty(f)' <=> Empty(f)) /\ (Wrong(f)' <=> Wrong(f))
      /\ place'[f] = place[f] => (Sorted(f)' <=> Sorted(f))
  BY <1>1 DEF Folder, Empty, Wrong, Sorted
<1>3. ~failed /\ ~Errs(p)
  BY DEF Visited, Passes, Errs, Drops, Moves
<1>4. Verified(f) /\ (Abort => carved[f].kind # Me)
  BY <1>1 DEF Verified, Abort, GoOn
<1>5. Rank(carved[f].kind) \in 1..5
  BY FileFacts, Turns
(* A file that changes is sorted by it. *)
<1>6. ASSUME place'[f] # place[f] PROVE Sorted(f)'
  <2>1. f = p.file
    BY <1>6, VisitPlaces
  <2>2. CASE Drops(p) /\ place'[f] = Gone
    <3>1. Empty(f) \/ (Wrong(f) /\ mode = "none" /\ carved[f].kind # "media")
      BY <1>1, <2>1, <2>2 DEF Drops, Removes
    <3>2. Empty(f) \/ carved[f].content # "ok"
      BY <3>1 DEF Wrong
    <3> QED
      BY <1>1, <1>2, <2>2, <3>1, <3>2 DEF Sorted, Wrong, Empty
  <2>3. CASE Moves(p) /\ place'[f].dir = Folder(f)
    <3>1. Wrong(f) /\ ~(mode = "none" /\ carved[f].kind # "media")
      BY <1>1, <2>1, <2>3 DEF Moves, Removes
    <3> QED
      BY <1>1, <1>2, <2>3, <3>1 DEF Sorted, Wrong, Empty
  <2> QED
    BY <1>6, <2>1, <2>2, <2>3, VisitPlaces
<1>7. CASE place'[f] = place[f] /\ Rank(carved[f].kind) < turn'
  <2>1. Rank(carved[f].kind) < turn
    <3>1. CASE GoOn(p)
      BY <1>7, <3>1 DEF GoOn
    <3>2. CASE Abort
      BY <1>1, <1>4, <1>5, <1>7, <3>2 DEF Abort
    <3> QED
      BY <1>1, <3>1, <3>2
  <2> QED
    BY <1>1, <1>2, <1>3, <1>4, <1>7, <2>1 DEF SortedSoFar
<1>8. CASE place'[f] = place[f] /\ Rank(carved[f].kind) = turn' /\ pc' = "walk"
  <2>1. GoOn(p) /\ turn' = turn /\ dirs' = dirs /\ todo' = todo \ {p} /\ pc = "walk"
    BY <1>1, <1>8 DEF Abort, GoOn, Remaining, Visited
  <2>2. Sorted(f) \/ InTodo(f) \/ place[f].dir \in dirs
    BY <1>1, <1>3, <1>4, <1>8, <2>1 DEF SortedSoFar
  <2>3. CASE f # p.file
    <3>1. InTodo(f) => InTodo(f)'
      BY <2>1, <2>3 DEF InTodo
    <3> QED
      BY <1>2, <1>5, <1>8, <2>1, <2>2, <3>1
  <2>4. CASE f = p.file
    <3>1. CASE Passes(p)
      <4>1. carved[f].content = "ok"
        BY <1>1, <1>8, <2>1, <2>4, <3>1 DEF Passes, Bad, Empty
      <4>2. carved'[f].content = "ok"
        BY <1>1, <4>1
      <4>3. Sorted(f)'
        BY <4>2 DEF Sorted, Empty
      <4> QED
        BY <1>5, <1>8, <2>1, <4>3
    <3>2. CASE Drops(p)
      <4>1. place'[f] = Gone
        BY <1>1, <2>4, <3>2 DEF Drops, Types
      <4>2. Empty(f) \/ (Wrong(f) /\ mode = "none" /\ carved[f].kind # "media")
        BY <1>1, <2>4, <3>2 DEF Drops, Removes
      <4>3. Sorted(f)'
        BY <1>1, <1>2, <4>1, <4>2 DEF Sorted, Wrong, Empty
      <4> QED
        BY <1>5, <1>8, <2>1, <4>3
    <3>3. CASE Moves(p)
      <4>1. place'[f].dir = Folder(f)
        <5>1. place'[f] = Moved(p.file)
          BY <1>1, <2>4, <3>3 DEF Moves, Types
        <5> QED
          BY <2>4, <5>1 DEF Moved
      <4>2. Wrong(f) /\ ~(mode = "none" /\ carved[f].kind # "media")
        BY <1>1, <2>4, <3>3 DEF Moves, Removes
      <4>3. Sorted(f)'
        BY <1>1, <1>2, <4>1, <4>2 DEF Sorted, Wrong, Empty
      <4> QED
        BY <1>5, <1>8, <2>1, <4>3
    <3> QED
      BY <1>3, <3>1, <3>2, <3>3 DEF Visited
  <2> QED
    BY <2>3, <2>4
<1> QED
  BY <1>6, <1>7, <1>8

(* The walk over images ends with the first file met twice there.           *)
LEMMA AlienVisit ==
  ASSUME Types, Settled, MetAgain, OneAlien, NEW p, Visited(p)
  PROVE  OneAlien'
<1>1. /\ p.file \in Files /\ turn \in 1..4 /\ Me \in Kinds
      /\ \A g \in Files : Rank(carved[g].kind) = turn <=> carved[g].kind = Me
      /\ Bad(p.file) => Wrong(p.file) /\ carved[p.file].kind = Me
      /\ mode' = mode /\ scripts' = scripts /\ carved' = carved
      /\ GoOn(p) \/ Abort
  BY VisitMoves
<1>2. turn' \in 1..5 /\ turn' >= turn
  BY <1>1 DEF GoOn, Abort
<1>3. Me = "image" <=> turn = 2
  BY <1>1, Turns DEF Me, Rank, Kinds
<1>4. CASE Moves(p) /\ MovesTwice(p.file)
  <2>1. /\ Me = "image" /\ turn = 2 /\ turn' = 3 /\ aborted' = aborted \cup {"image"}
        /\ failed' = failed /\ mode = "save"
    BY <1>3, <1>4 DEF Moves, MovesTwice, Abort, Removes, Types
  <2>2. NotImages = {}
    BY <2>1 DEF OneAlien
  <2>3. place'[p.file].dir = "(not_image)"
    <3>1. place'[p.file] = Moved(p.file)
      BY <1>1, <1>4 DEF Moves, Types
    <3>2. Folder(p.file) = "(not_image)"
      BY <1>1, <1>4, <2>1 DEF Moves, MovesTwice, Folder
    <3> QED
      BY <3>1, <3>2 DEF Moved
  <2>4. NotImages' = {p.file}
    <3>1. \A f \in Files : f # p.file => place'[f].dir # "(not_image)"
      BY <2>2, VisitPlaces DEF NotImages
    <3> QED
      BY <1>1, <2>3, <3>1 DEF NotImages
  <2>5. Cardinality(NotImages') = 1
    BY <2>4, FS_Singleton
  <2>6. ~failed' => aborted' = {"image"}
    BY <2>1 DEF OneAlien
  <2> QED
    BY <1>1, <2>1, <2>5, <2>6 DEF OneAlien
<1>5. CASE ~(Moves(p) /\ MovesTwice(p.file))
  <2>1. ~failed' => ~failed /\ aborted' = aborted
    BY <1>5 DEF Visited, Passes, Errs, Drops, Moves, GoOn
  <2>2. ASSUME NEW f \in Files
        PROVE  place'[f].dir = "(not_image)" => place[f].dir = "(not_image)"
    <3> SUFFICES ASSUME place'[f].dir = "(not_image)", place'[f] # place[f] PROVE FALSE
      OBVIOUS
    <3>1. f = p.file
      BY VisitPlaces
    <3>2. place'[f] # Gone
      <4>1. "(not_image)" \in Verdicts
        BY DEF Verdicts
      <4> QED
        BY <4>1, GoneIsNowhere
    <3>3. Moves(p) /\ Folder(f) = "(not_image)"
      BY <3>1, <3>2, VisitPlaces
    <3>4. carved[f].kind = "image" /\ carved[f].content = "alien" /\ carved[f].kind = Me
      BY <1>1, <3>1, <3>3, FileFacts DEF Moves
    <3> QED
      BY <1>5, <3>1, <3>3, <3>4 DEF MovesTwice
  <2>3. ASSUME mode = "save", NEW f \in Files
        PROVE  place[f].dir = "(not_image)" => place'[f].dir = "(not_image)"
    <3> SUFFICES ASSUME place[f].dir = "(not_image)", place'[f] # place[f] PROVE FALSE
      OBVIOUS
    <3>1. f = p.file /\ Somewhere(f)
      BY VisitPlaces DEF Settled
    <3>2. place[f] # Home(f) /\ place[f] # Gone
      <4>1. "(not_image)" \in Verdicts
        BY DEF Verdicts
      <4> QED
        BY <4>1, FileFacts, KindsAreNoVerdicts, GoneIsNowhere
    <3>3. Wrong(f) /\ Folder(f) = "(not_image)"
      BY <3>1, <3>2 DEF Somewhere
    <3>4. carved[f].kind = "image" /\ carved[f].content = "alien"
      BY <3>3, FileFacts
    <3>5. Drops(p) \/ Moves(p)
      BY <3>1 DEF Visited, Passes, Errs
    <3>6. Moves(p) /\ Bad(f)
      BY <2>3, <3>1, <3>3, <3>5, FileFacts DEF Drops, Moves, Removes
    <3> QED
      BY <1>1, <1>5, <3>1, <3>4, <3>6 DEF MovesTwice
  <2>4. turn' <= 2 => NotImages' = {}
    <3>1. turn' <= 2 => NotImages = {}
      BY <1>1, <1>2 DEF OneAlien
    <3> QED
      BY <2>2, <3>1 DEF NotImages
  <2>5. ASSUME ~failed', aborted' # {}
        PROVE  /\ aborted' = {"image"} /\ mode' = "save" /\ turn' > 2
               /\ Cardinality(NotImages') = 1
    <3>1. /\ aborted = {"image"} /\ mode = "save" /\ turn > 2
          /\ Cardinality(NotImages) = 1
      BY <2>1, <2>5 DEF OneAlien
    <3>2. NotImages' = NotImages
      BY <2>2, <2>3, <3>1 DEF NotImages
    <3> QED
      BY <1>1, <1>2, <2>1, <2>5, <3>1, <3>2
  <2> QED
    BY <2>4, <2>5 DEF OneAlien
<1> QED
  BY <1>4, <1>5

-----------------------------------------------------------------------------
(* The steps between two visits: the places do not change.                 *)
Between == NoScript \/ StartWalk \/ EnterDir \/ EndWalk \/ AllDone

(* Between two walks only the turn and the walk to come change.             *)
LEMMA BetweenMoves ==
  ASSUME Types, Between
  PROVE  /\ mode' = mode /\ scripts' = scripts /\ carved' = carved /\ place' = place
         /\ made' = made /\ aborted' = aborted /\ failed' = failed
         /\ turn' \in 1..5 /\ turn' >= turn
         /\ \A f \in Files : ToCome(f)' => ToCome(f)
<1>1. Len(Verifiers) = 4 /\ turn \in 1..5
  BY Turns DEF Types
<1>2. /\ mode' = mode /\ scripts' = scripts /\ carved' = carved /\ place' = place
      /\ made' = made /\ aborted' = aborted /\ failed' = failed
  BY DEF Between, NoScript, StartWalk, EnterDir, EndWalk, AllDone, given
<1>3. turn' \in 1..5 /\ turn' >= turn
  <2>1. pc = "walk" => turn <= 4
    BY DEF Types
  <2> QED
    BY <1>1, <2>1 DEF Between, NoScript, StartWalk, EnterDir, EndWalk, AllDone
<1>4. ASSUME NEW f \in Files, ToCome(f)' PROVE ToCome(f)
  <2>1. Rank(carved[f].kind) \in 1..5
    BY FileFacts, Turns
  <2>2. CASE NoScript \/ EndWalk
    BY <1>1, <1>2, <1>4, <2>1, <2>2 DEF NoScript, EndWalk, ToCome
  <2>3. CASE StartWalk \/ EnterDir \/ AllDone
    BY <1>1, <1>2, <1>4, <2>1, <2>3 DEF StartWalk, EnterDir, AllDone, ToCome
  <2> QED
    BY <2>2, <2>3 DEF Between
<1> QED
  BY <1>2, <1>3, <1>4

(* The paths of a walk: one for every file in its directories.              *)
LEMMA PathsType ==
  ASSUME Types, NEW S
  PROVE  /\ Paths(S) \subseteq [file : Files, at : Places]
         /\ \A p, q \in Paths(S) : p.file = q.file => p = q
         /\ \A f \in Files : (\E p \in Paths(S) : p.file = f) <=> place[f].dir \in S
<1>1. \A f \in Files : place[f] \in Places
  BY DEF Types
<1>2. \A p \in Paths(S) : p.file \in Files /\ p = [file |-> p.file, at |-> place[p.file]]
                          /\ place[p.file].dir \in S
  BY DEF Paths
<1>3. \A f \in Files : place[f].dir \in S => [file |-> f, at |-> place[f]] \in Paths(S)
  BY DEF Paths
<1>4. Paths(S) \subseteq [file : Files, at : Places]
  BY <1>1, <1>2
<1>5. \A p, q \in Paths(S) : p.file = q.file => p = q
  BY <1>2
<1>6. \A f \in Files : (\E p \in Paths(S) : p.file = f) <=> place[f].dir \in S
  BY <1>2, <1>3
<1> QED
  BY <1>4, <1>5, <1>6

(* Between two walks the types are kept.                                    *)
LEMMA TypesBetween == Types /\ Between => Types'
<1> SUFFICES ASSUME Types, Between PROVE Types'
  OBVIOUS
<1>1. Len(Verifiers) = 4 /\ turn \in 1..5 /\ (pc = "walk" => turn <= 4)
  BY Turns DEF Types
<1>2. /\ pc' \in {"next", "walk", "done"} /\ (pc' = "walk" => turn' <= 4)
      /\ (pc' = "done" => turn' = 5)
  BY <1>1 DEF Types, Between, NoScript, StartWalk, EnterDir, EndWalk, AllDone
<1>3. /\ dirs' \subseteq Kinds \cup Verdicts
      /\ todo' \subseteq [file : Files, at : Places]
  <2>1. Dirs \subseteq Kinds \cup Verdicts
    BY DEF Dirs, Types
  <2>2. CASE NoScript \/ EndWalk \/ AllDone
    BY <2>2 DEF NoScript, EndWalk, AllDone, Types
  <2>3. CASE StartWalk
    BY <2>1, <2>3, PathsType DEF StartWalk
  <2>4. CASE EnterDir
    BY <2>4, PathsType DEF EnterDir, Types
  <2> QED
    BY <2>2, <2>3, <2>4 DEF Between
<1> QED
  BY <1>2, <1>3, BetweenMoves DEF Types

(* Between two walks what is settled stays settled.                         *)
LEMMA SettledBetween == Types /\ Settled /\ Between => Settled'
<1> SUFFICES ASSUME Types, Settled, Between PROVE Settled'
  OBVIOUS
<1>1. mode' = mode /\ carved' = carved /\ place' = place
  BY BetweenMoves
<1>2. \A f : /\ Home(f)' = Home(f)
             /\ (Somewhere(f)' <=> Somewhere(f)) /\ (Empty(f)' <=> Empty(f))
  BY <1>1 DEF Home, Somewhere, Empty, Wrong, Folder
<1>3. \A f \in Files : ToCome(f)' => ToCome(f)
  BY BetweenMoves
<1> QED
  BY <1>1, <1>2, <1>3 DEF Settled

(* A walk that begins meets every file for the first time.                  *)
LEMMA MetAgainBetween == Types /\ Settled /\ MetAgain /\ Between => MetAgain'
<1> SUFFICES ASSUME Types, Settled, MetAgain, Between PROVE MetAgain'
  OBVIOUS
<1>1. carved' = carved /\ place' = place
  BY BetweenMoves
<1>2. \A f : Folder(f)' = Folder(f)
  BY <1>1 DEF Folder
<1>3. CASE NoScript \/ EndWalk \/ AllDone
  BY <1>3 DEF NoScript, EndWalk, AllDone, MetAgain
<1>4. CASE StartWalk
  <2>1. /\ pc = "next" /\ turn' = turn /\ Me' = Me /\ turn \in 1..4
        /\ \/ Collects(Me) /\ todo' = Paths(Dirs) /\ dirs' = {}
           \/ ~Collects(Me) /\ todo' = {}
    BY <1>4, Turns DEF StartWalk, Me, Types
  <2>2. ASSUME NEW f \in Files, Bad(f)' PROVE place'[f].dir # Folder(f)'
    <3>1. carved[f].kind = Me /\ Wrong(f)
      BY <1>1, <2>1, <2>2 DEF Bad, Wrong
    <3>2. ToCome(f)
      BY <2>1, <3>1, FileFacts, Turns DEF ToCome, Me
    <3>3. place[f] = Home(f)
      BY <3>1, <3>2, FileFacts DEF Settled
    <3> QED
      BY <1>1, <1>2, <3>1, <3>3, FileFacts, KindsAreNoVerdicts
  <2>3. \A p, q \in todo' : p.file = q.file => p = q
    BY <2>1, PathsType
  <2>4. Collects(Me') => dirs' = {}
    BY <2>1
  <2> QED
    BY <2>2, <2>3, <2>4 DEF MetAgain, Collects
<1>5. CASE EnterDir
  <2>1. PICK d \in dirs : dirs' = dirs \ {d} /\ todo' = Paths({d})
    BY <1>5 DEF EnterDir
  <2>2. Me' = Me /\ pc = "walk" /\ ~Collects(Me)
    BY <1>5, <2>1 DEF EnterDir, Me, MetAgain
  <2>3. \A p, q \in todo' : p.file = q.file => p = q
    BY <2>1, PathsType
  <2>4. ASSUME NEW f \in Files, Bad(f)', place'[f].dir = Folder(f)'
        PROVE  /\ InTodo(f)' => /\ ~Collects(Me') /\ place'[f].renamed = 0
                                /\ Folder(f)' \notin dirs'
               /\ place'[f].renamed = 1 => Folder(f)' \notin dirs'
    <3>1. Bad(f) /\ place[f].dir = Folder(f)
      BY <1>1, <1>2, <2>2, <2>4 DEF Bad
    <3>2. place[f].renamed = 1 => Folder(f) \notin dirs
      BY <2>2, <3>1 DEF MetAgain
    <3>3. InTodo(f)' => Folder(f) = d
      BY <2>1, <3>1, PathsType DEF InTodo
    <3>4. place[f].renamed \in {0, 1}
      <4>1. Somewhere(f)
        BY DEF Settled
      <4> QED
        BY <4>1, FileFacts, GoneIsNowhere DEF Somewhere
    <3> QED
      BY <1>1, <1>2, <2>1, <2>2, <3>2, <3>3, <3>4
  <2> QED
    BY <2>1, <2>2, <2>3, <2>4 DEF MetAgain, Collects
<1> QED
  BY <1>3, <1>4, <1>5 DEF Between

(* A walk that ended has visited what it was to visit.                      *)
LEMMA SortedBetween == Types /\ Settled /\ SortedSoFar /\ Between => SortedSoFar'
<1> SUFFICES ASSUME Types, Settled, SortedSoFar, Between PROVE SortedSoFar'
  OBVIOUS
<1>1. /\ mode' = mode /\ scripts' = scripts /\ carved' = carved /\ place' = place
      /\ aborted' = aborted /\ failed' = failed
  BY BetweenMoves
<1> SUFFICES ASSUME ~failed, NEW f \in Files, Verified(f)
             PROVE  /\ Rank(carved[f].kind) < turn' => Sorted(f)
                    /\ Rank(carved[f].kind) = turn' /\ pc' = "walk" =>
                         Sorted(f) \/ InTodo(f)' \/ place[f].dir \in dirs'
  <2>1. \A f \in Files : (Sorted(f)' <=> Sorted(f)) /\ (Verified(f)' <=> Verified(f))
    BY <1>1 DEF Sorted, Verified, Empty, Folder
  <2> QED
    BY <1>1, <2>1 DEF SortedSoFar
<1>2. /\ Rank(carved[f].kind) < turn => Sorted(f)
      /\ Rank(carved[f].kind) = turn /\ pc = "walk" =>
           Sorted(f) \/ InTodo(f) \/ place[f].dir \in dirs
  BY DEF SortedSoFar
<1>3. Rank(carved[f].kind) \in 1..5 /\ turn \in 1..5 /\ carved[f].kind \in Kinds
  BY FileFacts, Turns DEF Types
<1>4. CASE NoScript
  <2>1. turn \in 1..4 /\ turn' = turn + 1 /\ pc' = "next" /\ Me \notin scripts
    BY <1>4, Turns DEF NoScript, Types
  <2>2. Rank(carved[f].kind) # turn
    BY <1>3, <2>1, Turns DEF Verified, Me
  <2> QED
    BY <1>2, <1>3, <2>1, <2>2
<1>5. CASE StartWalk
  <2>1. /\ pc = "next" /\ turn' = turn
        /\ \/ todo' = Paths(Dirs) /\ dirs' = {}
           \/ todo' = {} /\ dirs' = Dirs
    BY <1>5 DEF StartWalk
  <2>2. ASSUME Rank(carved[f].kind) = turn PROVE Sorted(f) \/ place[f].dir \in Dirs
    <3>1. CASE place[f] = Home(f)
      BY <1>3, <3>1, FileFacts DEF Dirs
    <3>2. CASE place[f] # Home(f)
      <4>1. Empty(f)
        BY <2>1, <2>2, <3>2 DEF Settled, ToCome
      <4>2. place[f] = Gone
        BY <3>2, <4>1, FileFacts DEF Settled, Somewhere
      <4> QED
        BY <4>1, <4>2 DEF Sorted, Empty
    <3> QED
      BY <3>1, <3>2
  <2>3. place[f].dir \in Dirs => InTodo(f)' \/ place[f].dir \in dirs'
    BY <2>1, PathsType DEF InTodo
  <2> QED
    BY <1>2, <2>1, <2>2, <2>3
<1>6. CASE EnterDir
  <2>1. PICK d \in dirs : dirs' = dirs \ {d} /\ todo' = Paths({d})
    BY <1>6 DEF EnterDir
  <2>2. pc = "walk" /\ todo = {} /\ turn' = turn
    BY <1>6 DEF EnterDir
  <2>3. ~InTodo(f)
    BY <2>2 DEF InTodo
  <2>4. place[f].dir \in dirs => InTodo(f)' \/ place[f].dir \in dirs'
    BY <2>1, PathsType DEF InTodo
  <2> QED
    BY <1>2, <2>2, <2>3, <2>4
<1>7. CASE EndWalk
  <2>1. pc = "walk" /\ todo = {} /\ dirs = {} /\ turn' = turn + 1 /\ pc' = "next"
    BY <1>7 DEF EndWalk
  <2>2. ~InTodo(f)
    BY <2>1 DEF InTodo
  <2> QED
    BY <1>2, <1>3, <2>1, <2>2
<1>8. CASE AllDone
  BY <1>2, <1>8 DEF AllDone
<1> QED
  BY <1>4, <1>5, <1>6, <1>7, <1>8 DEF Between

(* Between two walks no file moves.                                         *)
LEMMA AlienBetween == Types /\ OneAlien /\ Between => OneAlien'
<1> SUFFICES ASSUME Types, OneAlien, Between PROVE OneAlien'
  OBVIOUS
<1>1. NotImages' = NotImages
  BY BetweenMoves DEF NotImages
<1>2. turn \in 1..5
  BY DEF Types
<1> QED
  BY <1>1, <1>2, BetweenMoves DEF OneAlien

(* What a step that changes nothing keeps.                                 *)
LEMMA VerifyKept == VerifyInv /\ UNCHANGED vars => VerifyInv'
BY DEF VerifyInv, vars, Types, Settled, MetAgain, SortedSoFar, OneAlien, Somewhere, ToCome,
       InTodo, NotImages, Home, Folder, Empty, Wrong, Bad, Me, Verified, Sorted

(* The inductive invariant holds in every state.                            *)
LEMMA VerifyInvariant == Spec => []VerifyInv
<1>1. Init => VerifyInv
  BY VerifyInit
<1>2. VerifyInv /\ [Next]_vars => VerifyInv'
  <2> SUFFICES ASSUME VerifyInv, [Next]_vars PROVE VerifyInv'
    OBVIOUS
  <2>0. Types /\ Settled /\ MetAgain /\ SortedSoFar /\ OneAlien
    BY DEF VerifyInv
  <2>1. CASE Between
    BY <2>0, <2>1, TypesBetween, SettledBetween, MetAgainBetween, SortedBetween, AlienBetween
       DEF VerifyInv
  <2>2. CASE Visit
    <3>1. PICK p \in todo : Visited(p)
      BY <2>2, VisitsOnePath
    <3>2. Types'
      BY <2>0, <3>1, TypesVisit
    <3>3. Settled'
      BY <2>0, <3>1, <3>2, SettledVisit
    <3>4. MetAgain' /\ SortedSoFar' /\ OneAlien'
      BY <2>0, <3>1, MetAgainVisit, SortedVisit, AlienVisit
    <3> QED
      BY <3>2, <3>3, <3>4 DEF VerifyInv
  <2>3. CASE UNCHANGED vars
    BY <2>3, VerifyKept
  <2> QED
    BY <2>1, <2>2, <2>3 DEF Next, Step, Between, Visit, Halted
<1> QED
  BY <1>1, <1>2, PTL DEF Spec

(* Whatever fails, a file that is fine, or of a kind nobody verifies, is    *)
(* where it was carved, and -save loses no file that has bytes in it.       *)
THEOREM GoodFilesKept == Spec => []GoodKept
<1>1. VerifyInv => GoodKept
  <2> SUFFICES ASSUME VerifyInv, NEW f \in Files
               PROVE  /\ carved[f].content = "ok" => place[f] = Home(f)
                      /\ mode = "save" /\ ~Empty(f) => place[f] # Gone
    BY DEF GoodKept
  <2>1. Somewhere(f) /\ Types
    BY DEF VerifyInv, Settled
  <2>2. Wrong(f) => Folder(f) \in Verdicts
    BY <2>1, FileFacts
  <2>3. Home(f) # Gone
    BY <2>1, FileFacts
  <2> QED
    BY <2>1, <2>2, <2>3, GoneIsNowhere DEF Somewhere, Wrong, Empty
<1> QED
  BY <1>1, VerifyInvariant, PTL

(* In the end a file whose verifier was there, with nothing failing and no  *)
(* exception, is in the folder of its verdict with -save and deleted        *)
(* without it; of media files that are bad this says nothing without -save. *)
THEOREM VerifiedSorted == Spec => []DoneSorted
<1>1. VerifyInv => DoneSorted
  <2> SUFFICES ASSUME VerifyInv, pc = "done", ~failed, NEW f \in Files, Verified(f)
               PROVE  Sorted(f)
    BY DEF DoneSorted
  <2>1. Types /\ turn = 5
    BY DEF VerifyInv, Types
  <2>2. Rank(carved[f].kind) \in 1..5 /\ Rank(carved[f].kind) # 5
    BY <2>1, FileFacts, Turns DEF Verified
  <2> QED
    BY <2>1, <2>2 DEF VerifyInv, SortedSoFar
<1> QED
  BY <1>1, VerifyInvariant, PTL

(* A file is renamed at most once for being met again, and only by a        *)
(* verifier that walks while it moves; nothing but an alien image ends a    *)
(* verifier.                                                                *)
THEOREM RenamedOnce == Spec => []MovedOnce
<1>1. VerifyInv => MovedOnce
  <2> SUFFICES ASSUME VerifyInv PROVE MovedOnce
    OBVIOUS
  <2>0. Types /\ Settled /\ OneAlien
    BY DEF VerifyInv
  <2>1. ASSUME NEW f \in Files
        PROVE  /\ place[f].renamed <= 1
               /\ place[f].renamed = 1 => carved[f].kind \in {"media", "pdf"}
    BY <2>0, FileFacts, GoneIsNowhere DEF Settled, Somewhere
  <2> QED
    BY <2>0, <2>1 DEF MovedOnce, OneAlien, NotImages
<1> QED
  BY <1>1, VerifyInvariant, PTL
=============================================================================
