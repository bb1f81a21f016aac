----------------------------- MODULE Extraction -----------------------------
(***************************************************************************)
(* What carving promises, with nothing about buffers, queues or file       *)
(* handles: files are asked for, each one grows as a prefix of its         *)
(* stretch of the image, and it is delivered once, complete.  The run may  *)
(* stop at any moment, and then nothing changes any more.                  *)
(***************************************************************************)
EXTENDS Integers, Sequences

VARIABLES
  size,       \* of the image
  wanted,     \* the stretches of the image to carve, [start, stop]
  got,        \* the bytes each file has so far
  delivered,  \* the files that are complete
  over        \* the run has stopped

vars == <<size, wanted, got, delivered, over>>

(* The byte of the image at offset p; beyond the end there is none.        *)
NoByte  == -1
Byte(p) == IF p < size THEN p ELSE NoByte

Init ==
  /\ size \in Nat
  /\ wanted = <<>> /\ got = <<>> /\ delivered = {} /\ over = FALSE

Want ==
  /\ ~over
  /\ \E start \in 0..(size - 1) : \E stop \in start..size :
       wanted' = Append(wanted, [start |-> start, stop |-> stop])
  /\ got' = Append(got, <<>>)
  /\ UNCHANGED <<size, delivered, over>>

Length(k) == wanted[k].stop - wanted[k].start + 1

(* File k after n more bytes of its stretch.                               *)
Extended(k, n) ==
  [got EXCEPT ![k] =
     @ \o [i \in 1..n |-> Byte(wanted[k].start + Len(@) + i - 1)]]

(* A file is delivered with its last byte, or not at all if closing it     *)
(* fails; a write that fails ends the run.                                 *)
Extend(k) ==
  /\ ~over /\ k \notin delivered
  /\ \E n \in 0..(Length(k) - Len(got[k])) :
       /\ got' = Extended(k, n)
       /\ \/ delivered' = delivered
          \/ Len(got[k]) + n = Length(k) /\ delivered' = delivered \cup {k}
  /\ over' \in BOOLEAN
  /\ UNCHANGED <<size, wanted>>

(* The run stops, or fails in the middle of a write.                       *)
Stop ==
  /\ ~over
  /\ over' = TRUE
  /\ UNCHANGED <<size, wanted, got, delivered>>

Next == Want \/ Stop \/ \E k \in DOMAIN wanted : Extend(k)

Spec == Init /\ [][Next]_vars
=============================================================================
