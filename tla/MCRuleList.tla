----------------------------- MODULE MCRuleList -----------------------------
(* A bounded instance of RuleList for TLC. *)
EXTENDS RuleList

Rule(text) == [path |-> TRUE, text |-> text]
Other(text) == [path |-> FALSE, text |-> text]

\* An empty document, one of rules alone, one whose rules are not its first
\* and only blocks, and one with a syntax error that still shows its rules.
MCDocuments ==
  {[blocks |-> <<>>, parses |-> TRUE],
   [blocks |-> <<Rule("a"), Rule("b"), Rule("a")>>, parses |-> TRUE],
   [blocks |-> <<Other("a"), Rule("a"), Other("b"), Rule("b")>>, parses |-> TRUE],
   [blocks |-> <<Rule("a"), Other("a"), Rule("b"), Rule("b"), Rule("a")>>, parses |-> FALSE]}
=============================================================================
