------------------------------ MODULE Strings ------------------------------
(***************************************************************************)
(* Strings as Go compares and cuts them: sequences of characters.          *)
(***************************************************************************)
EXTENDS Integers, Sequences, FiniteSets, SequencesExt

CONSTANTS
  Code     \* the characters, each with the number it is ordered by

Char == DOMAIN Code
String == Seq(Char)

ASSUME CharactersAreOrdered ==
  /\ Code \in [Char -> Nat] /\ "/" \in Char
  /\ \A c, d \in Char : Code[c] = Code[d] => c = d

-----------------------------------------------------------------------------

EndsIn(s, t) == Len(t) <= Len(s) /\ SubSeq(s, Len(s) - Len(t) + 1, Len(s)) = t
TrimSuffix(s, t) == IF EndsIn(s, t) THEN SubSeq(s, 1, Len(s) - Len(t)) ELSE s

\* The places of t in s, from 1; strings.Index counts from 0.
Places(s, t) == {i \in 1..(Len(s) - Len(t) + 1) : SubSeq(s, i, i + Len(t) - 1) = t}
Includes(s, t) == Places(s, t) # {}
Index(s, t) == IF Places(s, t) = {} THEN -1 ELSE Min(Places(s, t)) - 1

\* What s says before the first t, and after the last one.
Before(s, t) == SubSeq(s, 1, Min(Places(s, t)) - 1)
After(s, t) == SubSeq(s, Max(Places(s, t)) + Len(t), Len(s))

\* The segments of a path, what is between its slashes: with one more character
\* of it, and all of them.
Longer(segments, c) ==
  IF c = "/" THEN Append(segments, <<>>)
  ELSE [segments EXCEPT ![Len(segments)] = Append(segments[Len(segments)], c)]

Split(s) ==
  LET upTo[n \in 0..Len(s)] == IF n = 0 THEN <<(<<>>)>> ELSE Longer(upTo[n - 1], s[n])
  IN upTo[Len(s)]

Join(segments) ==
  LET upTo[k \in 0..Len(segments)] ==
        IF k = 0 THEN <<>>
        ELSE IF k = 1 THEN segments[1] ELSE upTo[k - 1] \o <<"/">> \o segments[k]
  IN upTo[Len(segments)]

StringLess(s, t) ==
  \/ IsStrictPrefix(s, t)
  \/ \E i \in DOMAIN s \cap DOMAIN t :
       /\ Code[s[i]] < Code[t[i]]
       /\ \A j \in 1..(i - 1) : s[j] = t[j]

TrimLeadingSlashes(s) ==
  CHOOSE t \in {SubSeq(s, i, Len(s)) : i \in 1..(Len(s) + 1)} :
    /\ ~ IsPrefix(<<"/">>, t)
    /\ \A i \in 1..(Len(s) - Len(t)) : s[i] = "/"

=============================================================================
