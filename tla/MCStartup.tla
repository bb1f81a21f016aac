----------------------------- MODULE MCStartup ------------------------------
(***************************************************************************)
(* Small instances of Startup for TLC: every short command line with every *)
(* state of the directories, every short configuration of a few lines, and *)
(* every short needle alone in a configuration.                            *)
(***************************************************************************)
EXTENDS Startup

CONSTANTS
  MaxWords,     \* of a command line
  MaxLines,     \* of a configuration
  MaxNeedle,    \* bytes of a needle that is searched for
  MaxText       \* bytes of a text it is searched in

UpTo(S, n) == UNION {[1..k -> S] : k \in 0..n}

(* a, A, b, the default wildcard, another one, and the byte 0xff.          *)
MCAlphabet == {97, 65, 98, 66, 63, 42, -1}
MCTexts    == UpTo({97, 65, 98, 63, -1}, MaxText)

MCPaths  == {"scalpel-output", "o1", "o1/sub"}
MCParent == "o1/sub" :> "o1"
MCStrtoull == "512" :> 512
Disks ==
  {d \in [MCPaths -> {"missing", "empty", "full", "closed"}] :
     d["o1/sub"] # "missing" => d["o1"] \notin {"missing", "empty"}}
AllEmpty == [p \in MCPaths |-> IF p = "o1/sub" THEN "missing" ELSE "empty"]

Token(text, means)    == [text |-> text, means |-> means]
SpecLine(sens, texts) == [kind |-> "spec", casesensitive |-> sens,
                          tokens |-> [i \in DOMAIN texts |-> Token(texts[i], "NEXT")]]
Wildcard(texts)       == [kind |-> "wildcard", casesensitive |-> FALSE,
                          tokens |-> [i \in DOMAIN texts |-> Token(texts[i], "FORWARD")]]
Comment               == [kind |-> "comment", casesensitive |-> FALSE, tokens |-> <<>>]

(* Headers and footers in letters, wildcards and the escapes \xFf, \141   *)
(* and \* (which is none).                                                 *)
Lines == {Comment, Wildcard(<<>>), Wildcard(<< <<42, 97>> >>), SpecLine(TRUE, <<>>),
          SpecLine(TRUE,  << <<97, 63, 98>>, <<97, 98>>, <<97>> >>),
          SpecLine(FALSE, << <<98, 42, 97>>, <<92, 120, 70, 102, 97>> >>),
          SpecLine(FALSE, << <<92, 49, 52, 49, 63>> >>)}
Few   == {SpecLine(TRUE, << <<97>> >>), Comment}

Scenario(words0, conf, d) ==
  [argv |-> words0, confs |-> DefaultConf :> conf, disk |-> d]
Plain == <<SpecLine(TRUE, << <<97>> >>)>>

Common == {"-save", "-s", "512", "-o", "o1", "o1/sub", "-t"}
Odd    == {"-b", "-c", "-d", "-i", "-m", "-q", "-h", "-O", "512", "a.dd", "o1"}
MCWords == Common \cup Odd \cup {"ave"}

(* Values of -o that name no directory are left out.                       *)
Sensible(ws) == \A i \in DOMAIN ws : ws[i] = "-o" /\ i < Len(ws) => ws[i + 1] \in MCPaths
Sequences3 == {ws \in UpTo(Common, MaxWords) \cup UpTo(Odd, MaxWords) : Sensible(ws)}

MCScenarios ==
  {Scenario(<<"a.dd">> \o ws, Plain, d) : ws \in {v \in UpTo(Common, 2) : Sensible(v)}, d \in Disks}
  \cup {Scenario(ws, Plain, AllEmpty) : ws \in Sequences3}
  \cup {Scenario(<<"a.dd">>, conf, AllEmpty) : conf \in UpTo(Lines, MaxLines) \cup UpTo(Few, MaxFileTypes + 2)}
  \cup {Scenario(<<"a.dd">>, <<SpecLine(sens, <<n>>)>>, AllEmpty) :
           n \in UpTo({97, 65, 98, 63, -1}, MaxNeedle) \ {<<>>}, sens \in BOOLEAN}
=============================================================================
