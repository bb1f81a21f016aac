------------------------------ MODULE Needles -------------------------------
(***************************************************************************)
(* Headers and footers as byte strings: how they are written in the        *)
(* configuration file (translate), when they match (charactersMatch,       *)
(* memwildcardcmp) and how they are searched for (init_bm_table,           *)
(* bm_needleinhaystack_skipnchars), from helpers.c.  A byte is a char of   *)
(* the build, -128..127; strings are sequences of bytes.                   *)
(***************************************************************************)
EXTENDS Integers, Sequences, SequencesExt

CONSTANT Alphabet    \* the bytes that occur, closed under change of case

tolower(c) == IF c \in 65..90 THEN c + 32 ELSE c
toupper(c) == IF c \in 97..122 THEN c - 32 ELSE c

ASSUME AlphabetAssumption ==
  /\ Alphabet \subseteq -128..127
  /\ \A c \in Alphabet : {tolower(c), toupper(c)} \subseteq Alphabet

-----------------------------------------------------------------------------
(* a is a byte of the needle.  32 apart is a change of case from A to z.   *)
charactersMatch(a, b, casesensitive, wildcard) ==
  \/ a = wildcard \/ a = b
  \/ /\ ~casesensitive /\ {a, b} \subseteq 65..122
     /\ a - b \in {32, -32}

(* memwildcardcmp() gives 0: needle matches the bytes of text from i on.   *)
MatchesAt(needle, text, i, casesensitive, wildcard) ==
  /\ i + Len(needle) - 1 <= Len(text)
  /\ \A j \in DOMAIN needle :
       charactersMatch(needle[j], text[(i + j) - 1], casesensitive, wildcard)

(* How far the search may move on after seeing byte c under the needle's   *)
(* last place.  A wildcard at place i holds back every byte.               *)
InitTableWild(needle, casesensitive, wildcard) ==  \* a bug in reach: wildcards like any byte
  LET len == Len(needle)
      table[i \in 0..len] ==
        IF i = 0 THEN [c \in Alphabet |-> len]
        ELSE [c \in Alphabet |-> IF c = needle[i] THEN len - i ELSE table[i - 1][c]]
  IN  table[len]

init_bm_table(needle, casesensitive, wildcard) ==
  LET len == Len(needle)
      Held(i) == IF needle[i] = wildcard THEN Alphabet
                 ELSE IF casesensitive \/ needle[i] <= 0 THEN {needle[i]}
                 ELSE {needle[i], tolower(needle[i]), toupper(needle[i])}
      table[i \in 0..len] ==
        IF i = 0 THEN [c \in Alphabet |-> len]
        ELSE [c \in Alphabet |-> IF c \in Held(i) THEN len - i ELSE table[i - 1][c]]
  IN  table[len]

(* The search: pos is the place, from 0, under the needle's last byte.     *)
(* The answer is the place from 1 where the match begins, 0 for NULL.      *)
bm_needleinhaystack(needle, haystack, table, casesensitive, wildcard) ==
  LET len == Len(needle)
      from[pos \in (len - 1)..(Len(haystack) + len)] ==
        IF pos >= Len(haystack) THEN 0
        ELSE LET shift == table[haystack[pos + 1]]  here == (pos + 2) - len IN
             IF shift > 0 THEN from[pos + shift]
             ELSE IF MatchesAt(needle, haystack, here, casesensitive, wildcard) THEN here
             ELSE from[pos + 1]
  IN  IF len = 0 THEN 1 ELSE from[len - 1]

-----------------------------------------------------------------------------
(* translate(): escapes of a token become bytes.  An unknown escape keeps  *)
(* its backslash, an unfinished number loses it.                           *)
Backslash == 92
Letters   == [c \in {97, 115, 110, 114, 116, 118, Backslash} |->    \* a s n r t v \
                CASE c = 97 -> 7 [] c = 115 -> 32 [] c = 110 -> 10 [] c = 114 -> 13
                  [] c = 116 -> 9 [] c = 118 -> 11 [] c = Backslash -> c]
HexValue(c) == IF c \in 48..57 THEN c - 48
               ELSE IF c \in 97..102 THEN c - 87
               ELSE IF c \in 65..70 THEN c - 55 ELSE -1

AsChar(n) == IF n > 127 THEN n - 256 ELSE n

(* The number after a backslash at i: -1 if there is none.                 *)
NumberAt(s, i) ==
  IF Len(s) < i + 3 THEN -1
  ELSE LET d2 == HexValue(s[i + 2])  d3 == HexValue(s[i + 3]) IN
       IF d2 < 0 \/ d3 < 0 THEN -1
       ELSE IF s[i + 1] = 120 THEN 16 * d2 + d3
       ELSE IF d2 < 8 /\ d3 < 8 THEN 64 * (s[i + 1] - 48) + 8 * d2 + d3
       ELSE -1

translate(str) ==
  LET from[i \in 1..(Len(str) + 1)] ==
        IF i > Len(str) THEN <<>>
        ELSE IF str[i] # Backslash THEN <<str[i]>> \o from[i + 1]
        ELSE IF i = Len(str) THEN <<Backslash>>
        ELSE IF str[i + 1] \in DOMAIN Letters THEN <<Letters[str[i + 1]]>> \o from[i + 2]
        ELSE IF str[i + 1] \notin {120, 48, 49, 50, 51} THEN <<Backslash>> \o from[i + 1]
        ELSE IF NumberAt(str, i) < 0 THEN from[i + 1]
        ELSE <<AsChar(NumberAt(str, i))>> \o from[i + 4]
  IN  from[1]
=============================================================================
