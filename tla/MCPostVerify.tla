---------------------------- MODULE MCPostVerify ----------------------------
(***************************************************************************)
(* Small instances of PostVerify for TLC: every kind and verdict.          *)
(***************************************************************************)
EXTENDS PostVerify

File(k, contents) == {[kind |-> k, content |-> c] : c \in contents}

MCCarved  == File("ole", {"ok", "alien"})
               \cup File("image", {"ok", "partial", "invalid", "alien"})
               \cup File("media", {"empty", "ok", "partial", "invalid"})
               \cup File("pdf", {"empty", "ok", "partial", "alien"})
               \cup File("other", {"empty", "ok"})
MCScripts == {S \cup {"pdf"} : S \in SUBSET {"ole", "image", "media"}}
=============================================================================
