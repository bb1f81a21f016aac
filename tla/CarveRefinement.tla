--------------------------- MODULE CarveRefinement ---------------------------
(***************************************************************************)
(* carveImageFile() keeps the promise of Extraction: the bytes of a file   *)
(* that lie inside the image are what Extraction calls got, an entry in    *)
(* the audit log is a delivery, and the end of the call is the end of the  *)
(* run.  The one byte a clipped file may have past the end of the image is *)
(* nobody's: the mapping does not look at it.  In preview mode nothing is  *)
(* written, and the entry in the log stands for the file.                  *)
(***************************************************************************)
EXTENDS CarveImage

FileLength(k) ==
  IF ~opt.preview THEN Len(content[k])
  ELSE IF Audited(k) THEN jobs[k].stop - jobs[k].start + 1 ELSE 0

Real(k) ==
  [i \in 1..FileLength(k) |->
     LET p == jobs[k].start + i - 1
     IN  IF p >= img.size THEN -1 ELSE IF opt.preview THEN p ELSE content[k][i]]

Promise ==
  INSTANCE Extraction WITH
    size      <- img.size,
    wanted    <- [k \in JobIds |-> [start |-> jobs[k].start, stop |-> jobs[k].stop]],
    got       <- [k \in JobIds |-> Real(k)],
    delivered <- {k \in JobIds : Audited(k)},
    over      <- pc \in Ended

(* Carving implements the extraction it promises: whatever is written to a *)
(* file continues it with the next bytes of its stretch, and only whole    *)
(* files are recorded.                                                     *)
KeepsPromise == Promise!Spec

(* No file ends before it begins, whichever the image.                     *)
ProperLengths ==
  \A n \in Needles : \A im \in Images : SearchSpec[n].length \in 1..(Word - im.size)
=============================================================================
