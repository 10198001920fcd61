---------------------------- MODULE MCEvaluator ----------------------------
(* A bounded instance of Evaluator for TLC: texts are written as strings   *)
(* and taken apart into their characters.                                  *)
EXTENDS Evaluator

CONSTANTS PatternTexts, PathTexts, ValueTexts

Alphabet == "*+-/abcdefghijklmnopqrstuvwxyz{}"

Letter(i) == SubSeq(Alphabet, i, i)
Letters(text) == [i \in 1..Len(text) |-> SubSeq(text, i, i)]

MCCode ==
  [c \in {Letter(i) : i \in 1..Len(Alphabet)} |->
     CHOOSE i \in 1..Len(Alphabet) : Letter(i) = c]
MCPatterns == {Letters(text) : text \in PatternTexts}
MCPaths == {Letters(text) : text \in PathTexts}
MCValues == {Letters(text) : text \in ValueTexts}

MCSays(caps, constrained) == [caps |-> caps, constrained |-> constrained]

MCGrants ==
  {MCSays({"read"}, FALSE), MCSays({"read", "list"}, TRUE), MCSays({"deny"}, FALSE),
   MCSays({"bogus"}, FALSE)}

Symmetry == Permutations(Sources)

=============================================================================
