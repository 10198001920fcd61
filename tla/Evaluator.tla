----------------------------- MODULE Evaluator -----------------------------
(***************************************************************************)
(* `bpe test` (internal/evaluator): rules are compiled one after another,  *)
(* then one request is decided - by exact match, then by the pattern of    *)
(* highest priority, with "+" for a segment and a final "*" for any rest - *)
(* unless an identity template could change the answer.                    *)
(*                                                                         *)
(* Paths and patterns are sequences of characters, because how they are    *)
(* cut and compared is what this component does.                           *)
(***************************************************************************)
EXTENDS Strings

CONSTANTS
  Patterns,      \* the path labels of rules
  Paths,         \* the paths asked about
  Grants,        \* what a rule says: capabilities, and whether of some parameters
  Asked,         \* the capabilities asked about, known or not
  Lives,         \* whether a rule has not expired: a subset of BOOLEAN
  Sources,       \* the policies rules come from
  Values,        \* what an identity template may stand for
  MaxRules,      \* bound: distinct rules compiled
  None           \* no pattern

Known == {"create", "read", "update", "patch", "delete", "list", "scan", "sudo", "deny"}

ASSUME ConstantsAssumption ==
  /\ \A g \in Grants : DOMAIN g = {"caps", "constrained"} /\ g.constrained \in BOOLEAN
  /\ Lives \subseteq BOOLEAN /\ MaxRules \in Nat /\ None \notin Patterns
  /\ Patterns \cup Paths \subseteq String /\ {"+", "*", "{", "}"} \subseteq Char

\* What a template stands for is part of a segment (match.go:86: a "template
\* segment matches anything", the others must be there), and no wildcard.
ASSUME ValuesAreNames ==
  \A v \in Values : v \in String \ {<<>>} /\ Range(v) \cap {"/", "+", "*"} = {}

Slash == <<"/">>
Plus == <<"+">>
Star == <<"*">>
Open == <<"{", "{">>
Close == <<"}", "}">>

VARIABLES
  compiled,   \* the compiledRule of each pattern seen
  status,     \* "compiling", "answered", or why Compile failed
  answer,     \* the request and its Decision
  taken       \* history: the rules merged so far

vars == <<compiled, status, answer, taken>>

-----------------------------------------------------------------------------
(* Compiling *)

Rule ==
  {[path |-> p, caps |-> g.caps, constrained |-> g.constrained, live |-> l, source |-> s] :
     p \in Patterns, g \in Grants, l \in Lives, s \in Sources}

Malformed == {raw \in Patterns : Includes(raw, <<"+", "*">>)}

HasSegmentWildcards(raw) ==
  raw = Plus \/ Includes(raw, <<"/", "+">>) \/ IsPrefix(<<"+", "/">>, raw)

IsPrefixPattern(raw) == EndsIn(raw, Star) /\ ~ HasSegmentWildcards(raw)
IsExact(raw) == ~ EndsIn(raw, Star) /\ ~ HasSegmentWildcards(raw)
MatchPath(raw) == IF IsPrefixPattern(raw) THEN TrimSuffix(raw, Star) ELSE raw
LooksTemplated(raw) == Includes(raw, Open) /\ Includes(raw, Close)

\* The granting sources of a capability are a set: their order is display.
NewRule == [effective |-> {}, constrained |-> FALSE, granting |-> <<>>]

Found(pattern) ==
  IF pattern \in DOMAIN compiled THEN compiled[pattern] ELSE NewRule

\* Fault: a deny is added to what the other rules grant.
MergeAddingDeny(target, rule) ==
  [effective |-> target.effective \cup rule.caps,
   constrained |-> target.constrained \/ rule.constrained,
   granting |-> [c \in target.effective \cup rule.caps |->
                   (IF c \in target.effective THEN target.granting[c] ELSE {})
                     \cup (IF c \in rule.caps THEN {rule.source} ELSE {})]]

\* Fault: the erased capabilities keep their sources.
MergeKeepingSources(target, rule) ==
  IF "deny" \in target.effective THEN target
  ELSE IF "deny" \in rule.caps
  THEN [effective |-> {"deny"}, constrained |-> FALSE,
        granting |-> [c \in target.effective \cup {"deny"} |->
                        IF c = "deny" THEN {rule.source} ELSE target.granting[c]]]
  ELSE MergeAddingDeny(target, rule)

\* Once denied, nothing more is recorded; a deny erases what was there.
MergeRule(target, rule) ==
  IF "deny" \in target.effective THEN target
  ELSE IF "deny" \in rule.caps
  THEN [effective |-> {"deny"}, constrained |-> FALSE,
        granting |-> [c \in {"deny"} |-> {rule.source}]]
  ELSE [effective |-> target.effective \cup rule.caps,
        constrained |-> target.constrained \/ rule.constrained,
        granting |-> [c \in target.effective \cup rule.caps |->
                        (IF c \in target.effective THEN target.granting[c] ELSE {})
                          \cup (IF c \in rule.caps THEN {rule.source} ELSE {})]]

CompileRule(rule) ==
  /\ status = "compiling" /\ Cardinality(taken) < MaxRules
  /\ UNCHANGED answer
  /\ IF ~ rule.live
     THEN UNCHANGED <<compiled, status, taken>>
     ELSE IF ~ rule.caps \subseteq Known
     THEN status' = "unknown capability" /\ UNCHANGED <<compiled, taken>>
     ELSE IF rule.path \in Malformed
     THEN status' = "malformed pattern" /\ UNCHANGED <<compiled, taken>>
     ELSE /\ compiled' = [p \in DOMAIN compiled \cup {rule.path} |->
                            IF p = rule.path THEN MergeRule(Found(p), rule) ELSE compiled[p]]
          /\ taken' = taken \cup {rule}
          /\ UNCHANGED status

-----------------------------------------------------------------------------
(* Matching *)

ExactPatterns == {p \in Patterns : IsExact(p)}
PrefixPatterns == {p \in Patterns : IsPrefixPattern(p)}
WildcardPatterns == {p \in Patterns : HasSegmentWildcards(p)}
TemplatedPatterns == {p \in Patterns : LooksTemplated(p)}

\* What is looked up: a path without its leading slashes, or its last one too.
Requested == {TrimLeadingSlashes(asked) : asked \in Paths}
Forms == Requested \cup {TrimSuffix(path, Slash) : path \in Requested}

\* The segments of each pattern, without its final "*".
Segments == [p \in Patterns |-> Split(TrimSuffix(p, Star))]

SegmentsMatch(pattern, path) ==
  LET star == EndsIn(pattern, Star)
      mine == Segments[pattern]
      theirs == Split(path)
  IN /\ Len(mine) <= Len(theirs)
     /\ star \/ Len(mine) = Len(theirs)
     /\ \A i \in 1..Len(mine) :
          \/ mine[i] \in {Plus, theirs[i]}
          \/ star /\ i = Len(mine) /\ IsPrefix(mine[i], theirs[i])

\* The patterns of each class that match a path.
Prefixing ==
  [path \in Forms |-> {p \in PrefixPatterns : IsPrefix(MatchPath(p), path)}]
WildcardMatching ==
  [path \in Forms |-> {p \in WildcardPatterns : SegmentsMatch(p, path)}]

PrefixCandidate(p) ==
  [pattern |-> p, first |-> Len(MatchPath(p)), star |-> TRUE, wildcards |-> 0,
   text |-> MatchPath(p)]

WildcardCandidate(p) ==
  [pattern |-> p, first |-> Index(p, Plus), star |-> EndsIn(p, Star),
   wildcards |-> Cardinality({i \in DOMAIN Segments[p] : Segments[p][i] = Plus}),
   text |-> TrimSuffix(p, Star)]

Candidate == [p \in PrefixPatterns \cup WildcardPatterns |->
                IF p \in PrefixPatterns THEN PrefixCandidate(p) ELSE WildcardCandidate(p)]

\* Fault: a pattern ending in "*" is not told from one that does not.
PriorityIgnoringStar(a, b) ==
  \/ a.first < b.first
  \/ /\ a.first = b.first
     /\ \/ a.wildcards > b.wildcards
        \/ /\ a.wildcards = b.wildcards
           /\ \/ Len(a.text) < Len(b.text)
              \/ Len(a.text) = Len(b.text) /\ StringLess(a.text, b.text)

PriorityLess(a, b) ==
  IF a.first # b.first THEN a.first < b.first
  ELSE IF a.star # b.star THEN a.star
  ELSE IF a.wildcards # b.wildcards THEN a.wildcards > b.wildcards
  ELSE IF Len(a.text) # Len(b.text) THEN Len(a.text) < Len(b.text)
  ELSE StringLess(a.text, b.text)

MatchingPrefixes(path) == DOMAIN compiled \cap Prefixing[path]

Longest(S) == {p \in S : \A q \in S : Len(q) <= Len(p)}

\* Fault: the shorter prefixes that matched are forgotten.
NoShorterPrefixes(path) == {}

ShorterPrefixes(path) == MatchingPrefixes(path) \ Longest(MatchingPrefixes(path))

Candidates(path) ==
  Longest(MatchingPrefixes(path)) \cup (DOMAIN compiled \cap WildcardMatching[path])

MatchNonExact(stage, path) ==
  LET best == CHOOSE p \in Candidates(path) : \A q \in Candidates(path) \ {p} :
                ~ PriorityLess(Candidate[p], Candidate[q])
  IN [stage |-> stage, pattern |-> best,
      losers |-> (Candidates(path) \ {best}) \cup ShorterPrefixes(path)]

-----------------------------------------------------------------------------
(* Deciding *)

Stages == {"exact", "exact trimmed", "pattern", "pattern trimmed", "default deny"}

ListOrScan(cap) == cap \in {"list", "scan"}

Exacts == DOMAIN compiled \cap ExactPatterns

Exact(stage, pattern) == [stage |-> stage, pattern |-> pattern, losers |-> {}]
NothingFound == [stage |-> "default deny", pattern |-> None, losers |-> {}]

LookupLiteral(path, cap) ==
  LET trimmed == TrimSuffix(path, Slash) IN
  IF path \in Exacts THEN Exact("exact", path)
  ELSE IF ListOrScan(cap) /\ trimmed \in Exacts THEN Exact("exact trimmed", trimmed)
  ELSE IF Candidates(path) # {} THEN MatchNonExact("pattern", path)
  ELSE IF ListOrScan(cap) /\ Candidates(trimmed) # {}
  THEN MatchNonExact("pattern trimmed", trimmed)
  ELSE NothingFound

NotGranted == [allowed |-> FALSE, denied |-> FALSE, incomplete |-> FALSE, sources |-> {}]

Decide(pattern, cap) ==
  LET rule == compiled[pattern] IN
  IF pattern = None THEN NotGranted
  ELSE IF pattern \in TemplatedPatterns THEN [NotGranted EXCEPT !.incomplete = TRUE]
  ELSE IF "deny" \in rule.effective
  THEN [NotGranted EXCEPT !.denied = TRUE, !.sources = rule.granting["deny"]]
  ELSE IF cap \notin rule.effective THEN NotGranted
  ELSE IF rule.constrained THEN [NotGranted EXCEPT !.incomplete = TRUE]
  ELSE [NotGranted EXCEPT !.allowed = TRUE, !.sources = rule.granting[cap]]

\* A template matches any text between what surrounds it in its segment.
CouldTemplatedRuleMatch(pattern, path) ==
  LET star == EndsIn(pattern, Star)
      mine == Segments[pattern]
      theirs == Split(path)
  IN /\ Len(mine) <= Len(theirs)
     /\ star \/ Len(mine) = Len(theirs)
     /\ \A i \in 1..Len(mine) :
          \/ mine[i] = Plus
          \/ /\ LooksTemplated(mine[i])
             /\ IsPrefix(Before(mine[i], Open), theirs[i])
             /\ EndsIn(theirs[i], After(mine[i], Close))
          \/ /\ ~ LooksTemplated(mine[i])
             /\ \/ star /\ i = Len(mine) /\ IsPrefix(mine[i], theirs[i])
                \/ mine[i] = theirs[i]

Plausible ==
  [path \in Forms |-> {p \in TemplatedPatterns : CouldTemplatedRuleMatch(p, path)}]

NearMiss(path) == DOMAIN compiled \cap Plausible[path] # {}

\* Fault: only the path as given is compared with the templates.
UncertainUntrimmed(path, cap) == NearMiss(path)

Uncertain(path, cap) ==
  \/ NearMiss(path)
  \/ ListOrScan(cap) /\ EndsIn(path, Slash) /\ NearMiss(TrimSuffix(path, Slash))

Evaluate(path, cap) ==
  /\ status = "compiling" /\ UNCHANGED <<compiled, taken>>
  /\ IF cap \notin Known
     THEN status' = "unknown capability" /\ UNCHANGED answer
     ELSE \E found \in {LookupLiteral(path, cap)} :
            \E decided \in {Decide(found.pattern, cap)} :
              /\ status' = "answered"
              /\ answer' =
                   [path |-> path, capability |-> cap, found |-> found,
                    decision |-> IF ~ decided.incomplete /\ Uncertain(path, cap)
                                 THEN [decided EXCEPT !.incomplete = TRUE,
                                         !.allowed = FALSE, !.denied = FALSE]
                                 ELSE decided]

-----------------------------------------------------------------------------

Init ==
  /\ compiled = <<>> /\ status = "compiling" /\ taken = {}
  /\ answer = None

Next ==
  \/ \E rule \in Rule : CompileRule(rule)
  \/ \E path \in Requested, cap \in Asked : Evaluate(path, cap)

Spec == Init /\ [][Next]_vars

-----------------------------------------------------------------------------
(* What the answers mean, without the compiled form: the reference. *)

\* A pattern with its "+" filled in from the path is the path, or starts it.
Covers(pattern, path) ==
  LET mine == Split(TrimSuffix(pattern, Star))
      theirs == Split(path)
      filled == Join([i \in DOMAIN mine |-> IF mine[i] = Plus /\ i \in DOMAIN theirs
                                            THEN theirs[i] ELSE mine[i]])
  IN IF EndsIn(pattern, Star) THEN IsPrefix(filled, path) ELSE filled = path

\* What OpenBao ranks patterns by, most important first.
Rank(p) ==
  LET text == TrimSuffix(p, Star)
      pluses == {i \in DOMAIN Split(text) : Split(text)[i] = Plus}
      literal == IF HasSegmentWildcards(p) THEN Index(p, Plus) ELSE Len(text)
  IN <<literal, IF EndsIn(p, Star) THEN 0 ELSE 1, - Cardinality(pluses), Len(text)>>

\* A pattern once its identity templates, one per segment, stand for v.
Resolved(pattern, v) ==
  LET segments == Split(pattern) IN
  Join([i \in DOMAIN segments |->
          LET s == segments[i] IN
          IF ~ LooksTemplated(s) THEN s
          ELSE Before(s, Open) \o v \o After(s, Close)])

Outranks(p, q) ==
  \E mine \in {Rank(p)}, theirs \in {Rank(q)} :
    \/ \E i \in 1..4 : mine[i] > theirs[i] /\ \A j \in 1..(i - 1) : mine[j] = theirs[j]
    \/ mine = theirs /\ StringLess(TrimSuffix(q, Star), TrimSuffix(p, Star))

Labels(rules) == {r.path : r \in rules}
Rivals(rules, path) == {p \in Labels(rules) : ~ IsExact(p) /\ Covers(p, path)}

Best(patterns) == {p \in patterns : \A q \in patterns \ {p} : Outranks(p, q)}

\* The pattern that decides among rules: exact on either form of the path,
\* then the best of those that cover it; {} when none does.
Deciding(rules, path, cap) ==
  LET second == IF ListOrScan(cap) THEN TrimSuffix(path, Slash) ELSE path
      exact == {p \in {path, second} \cap Labels(rules) : IsExact(p)}
  IN IF path \in exact THEN {path}
     ELSE IF exact # {} THEN exact
     ELSE IF Rivals(rules, path) # {} THEN Best(Rivals(rules, path))
     ELSE Best(Rivals(rules, second))

\* What the rules of a pattern say together.
Says(rules, cap) ==
  IF \E r \in rules : "deny" \in r.caps THEN "denied"
  ELSE IF \A r \in rules : cap \notin r.caps THEN "not granted"
  ELSE IF \E r \in rules : r.constrained THEN "depends on parameters" ELSE "allowed"

Answered ==
  IF answer.decision.incomplete THEN "incomplete"
  ELSE IF answer.decision.denied THEN "denied"
  ELSE IF answer.decision.allowed THEN "allowed" ELSE "not granted"

\* Text between a template in the pattern's last segment and its final "*".
TextBeforeStar(p) ==
  LET last == Last(Split(p)) IN
  LooksTemplated(last) /\ EndsIn(last, Star) /\ ~ EndsIn(last, Close \o Star)

-----------------------------------------------------------------------------
(* Properties *)

\* The compiled form of a pattern: its granting sources are kept for exactly
\* the capabilities in effect (evaluator.go, compiledRule).
TypeOK ==
  /\ taken \subseteq Rule
  /\ DOMAIN compiled \subseteq Patterns
  /\ \A p \in DOMAIN compiled :
       /\ compiled[p].effective \in SUBSET Known
       /\ compiled[p].constrained \in BOOLEAN
       /\ compiled[p].granting \in [compiled[p].effective -> (SUBSET Sources) \ {{}}]
  /\ status \in {"compiling", "answered", "unknown capability", "malformed pattern"}
  /\ status = "answered" =>
       /\ answer.path \in Requested /\ answer.capability \in Asked
       /\ answer.found.stage \in Stages /\ answer.found.losers \subseteq Patterns
       /\ answer.found.pattern \in Patterns \cup {None}
       /\ answer.decision \in [allowed : BOOLEAN, denied : BOOLEAN, incomplete : BOOLEAN,
                               sources : SUBSET Sources]

\* However the rules of a pattern arrive, they come to the same: denied if any
\* of them denies, and otherwise all they grant, each grant with the policies
\* it came from, constrained if any of them is (mergeRule's claim that "the
\* overall RESULT is order-independent").
MergedAsASet ==
  \A p \in DOMAIN compiled :
    LET rules == {r \in taken : r.path = p}
        granters(c) == {r.source : r \in {q \in rules : c \in q.caps}}
    IN IF \E r \in rules : "deny" \in r.caps
       THEN /\ compiled[p].effective = {"deny"} /\ ~ compiled[p].constrained
            /\ compiled[p].granting["deny"] \subseteq granters("deny")
       ELSE /\ compiled[p].effective = UNION {r.caps : r \in rules}
            /\ compiled[p].constrained = (\E r \in rules : r.constrained)
            /\ \A c \in compiled[p].effective : compiled[p].granting[c] = granters(c)

\* The answer is that of OpenBao's order of lookup over the rules as written:
\* a definite answer is the verdict of the deciding pattern, and an incomplete
\* one still names that pattern (Evaluate, priorityLess).
AnswerIsOfTheDecidingPattern ==
  status = "answered" =>
    \A deciding \in {Deciding(taken, answer.path, answer.capability)} :
      /\ {answer.found.pattern} \ {None} = deciding
      /\ Answered # "incomplete" =>
           Answered = Says({r \in taken : r.path \in deciding}, answer.capability)

\* A pattern that wins is listed with every other pattern that covers the path
\* it was matched with, and with no pattern that does not (LosingCandidates).
LosersAccountedFor ==
  status = "answered" /\ answer.found.stage \in {"pattern", "pattern trimmed"} =>
    LET path == IF answer.found.stage = "pattern" THEN answer.path
                ELSE TrimSuffix(answer.path, Slash)
    IN answer.found.losers = Rivals(taken, path) \ {answer.found.pattern}

\* A definite answer stays the same whatever the identity templates of the
\* rules stand for: "a definite result is only kept when independence from the
\* template can be established" (evaluator.go:527).
IndependentOfTemplates ==
  status = "answered" /\ Answered # "incomplete" =>
    \A v \in Values :
      \A rules \in {{[r EXCEPT !.path = Resolved(r.path, v)] : r \in taken}} :
        \A deciding \in {Deciding(rules, answer.path, answer.capability)} :
          Answered = Says({r \in rules : r.path \in deciding}, answer.capability)

\* The same for rules without text between a template and the final "*", which
\* couldTemplatedRuleMatch compares with the end of the path's segment.
IndependentUnlessTextBeforeStar ==
  (\A r \in taken : ~ TextBeforeStar(r.path)) => IndependentOfTemplates

=============================================================================
