------------------------------- MODULE Words -------------------------------
(***************************************************************************)
(* What the server does with words before it stores them or looks for      *)
(* them.  A word is a sequence of characters.  Characters with a meaning   *)
(* for a pattern of PostgreSQL, the blank, and a letter in both cases are  *)
(* told apart; other letters stand for themselves.                         *)
(***************************************************************************)
EXTENDS Integers, SequencesExt

Wildcards == {"%", "_", "\\"}

Lower(char) == IF char = "A" THEN "a" ELSE char
ToLower(word) == [k \in DOMAIN word |-> Lower(word[k])]

TrimSpace(word) ==
  LET solid == {k \in DOMAIN word : word[k] # " "}
  IN  IF solid = {} THEN <<>> ELSE SubSeq(word, Min(solid), Max(solid))

\* strings.Replacer: each character of the input is looked at once; what comes
\* in its place is not looked at again.
Replace(word, with(_)) == FlattenSeq([k \in DOMAIN word |-> with(word[k])])

\* Mutant: the backslash is not stripped, although it escapes what follows.
StripKeepingBackslash(word) ==
  Replace(word, LAMBDA char : IF char \in {"%", "_"} THEN <<>> ELSE <<char>>)

Strip(word) ==
  Replace(word, LAMBDA char : IF char \in Wildcards THEN <<>> ELSE <<char>>)

\* Mutant: the underscore, which stands for any character, is not escaped.
EscapeAllButUnderscore(word) ==
  Replace(word, LAMBDA char : IF char \in {"%", "\\"} THEN <<"\\", char>> ELSE <<char>>)

EscapeLike(word) ==
  Replace(word, LAMBDA char : IF char \in Wildcards THEN <<"\\", char>> ELSE <<char>>)

\* `%` || word || `%`
Around(word) == <<"%">> \o word \o <<"%">>

\* ILIKE: % stands for any text, _ for any character, and a backslash takes
\* what follows it literally.  fits[j]: the places of the text from which on it
\* fits the rest of the pattern from j on.
ILike(text, pattern) ==
  LET t == ToLower(text)
      p == ToLower(pattern)
      fits[j \in 1..Len(p) + 1] ==
        IF j > Len(p) THEN {Len(t) + 1}
        ELSE CASE p[j] = "%" -> {i \in 1..Len(t) + 1 : \E k \in fits[j + 1] : i <= k}
               [] p[j] = "\\" -> {i \in 1..Len(t) :
                                    j < Len(p) /\ t[i] = p[j + 1] /\ i + 1 \in fits[j + 2]}
               [] OTHER -> {i \in 1..Len(t) : p[j] \in {"_", t[i]} /\ i + 1 \in fits[j + 1]}
  IN  1 \in fits[1]

\* What a reader means by "appears in": as it is, in any case.
Appears(word, text) ==
  \E k \in 0..Len(text) - Len(word) :
     ToLower(SubSeq(text, k + 1, k + Len(word))) = ToLower(word)
=============================================================================
