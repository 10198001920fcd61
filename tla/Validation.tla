----------------------------- MODULE Validation -----------------------------
(***************************************************************************)
(* What `bpe validate` finds in a policy that decodes                      *)
(* (internal/hclpolicy/validate.go), and what Compile would refuse of it.  *)
(***************************************************************************)
EXTENDS Naturals, Sequences, Functions

CONSTANTS
  Known,         \* the capabilities OpenBao recognizes
  Foreign,       \* other words a file may list as capabilities
  Segments,      \* what stands between slashes in a path, Blank among them
  Blank,         \* the empty text
  Kv2Components, \* "data", "metadata", "delete", "undelete", "destroy"
  AnySegment,    \* "*" and "+"
  EndsInStar,    \* segments whose last character is a star
  StarInside,    \* segments with a star before their last character
  PlusStar,      \* segments that hold "+*"
  Names,         \* parameter names
  Wildcard,      \* the parameter name "*"
  Values,        \* values the parameter maps of a file list
  OtherValue,    \* any value they do not
  None           \* no map

ASSUME ValidationAssumption ==
  /\ Blank \in Segments /\ Wildcard \in Names
  /\ Kv2Components \cup AnySegment \cup EndsInStar \cup StarInside \cup PlusStar \subseteq Segments
  /\ Kv2Components \cap AnySegment = {} /\ Blank \notin EndsInStar \cup StarInside
  /\ PlusStar \subseteq EndsInStar \cup StarInside
  /\ Known \cap Foreign = {} /\ OtherValue \notin Values

-----------------------------------------------------------------------------
(* Rules *)

\* A path is what its slashes separate: "secret/" is <<"secret", Blank>>.
Paths == Seq(Segments) \ {<<>>}
ParameterMaps == UNION {[names -> SUBSET Values] : names \in SUBSET Names}

\* Capabilities are listed in the order of the source. Whether
\* allowed_parameters is there at all matters; denied_parameters that are
\* absent and denied_parameters without entries do the same.
IsValidRule(r) ==
  /\ r = [path |-> r.path, capabilities |-> r.capabilities, expired |-> r.expired,
          required |-> r.required, allowed |-> r.allowed, denied |-> r.denied]
  /\ r.path \in Paths /\ r.expired \in BOOLEAN
  /\ r.capabilities \in Seq(Known \cup Foreign) /\ r.required \subseteq Names
  /\ r.allowed # None => r.allowed \in ParameterMaps
  /\ r.denied \in ParameterMaps

LastOf(path) == path[Len(path)]
IsPrefixLike(path) ==
  LastOf(path) \in EndsInStar \/ (LastOf(path) = Blank /\ Len(path) > 1)
StarBeforeEnd(path) ==
  \/ LastOf(path) \in StarInside
  \/ \E i \in 1..(Len(path) - 1) : path[i] \in EndsInStar \cup StarInside

-----------------------------------------------------------------------------
(* Parameters *)

\* The entry for a parameter, or the one for every parameter.
Effective(map, name) ==
  IF name \in DOMAIN map THEN map[name]
  ELSE IF Wildcard \in DOMAIN map THEN map[Wildcard] ELSE {}

\* Fault: an entry for every parameter counts beside one of its own.
ContradictionByAnyEntry(r, name) ==
  LET listed == Effective(r.denied, name)
      may == IF r.allowed = None THEN {} ELSE Effective(r.allowed, name)
  IN \/ name \in DOMAIN r.denied /\ listed = {}
     \/ Wildcard \in DOMAIN r.denied /\ r.denied[Wildcard] = {}
     \/ r.allowed # None /\ {name, Wildcard} \cap DOMAIN r.allowed = {}
     \/ may # {} /\ listed # {} /\ may \subseteq listed

\* The requirement that a parameter be given cannot be met: every value is
\* denied, the parameter is on no list, or what is allowed is denied.
RequiredParameterContradiction(r, name) ==
  LET listed == Effective(r.denied, name)
      may == IF r.allowed = None THEN {} ELSE Effective(r.allowed, name)
  IN \/ name \in DOMAIN r.denied /\ listed = {}
     \/ name \notin DOMAIN r.denied /\ Wildcard \in DOMAIN r.denied /\ listed = {}
     \/ r.allowed # None /\ {name, Wildcard} \cap DOMAIN r.allowed = {}
     \/ may # {} /\ listed # {} /\ may \subseteq listed

-----------------------------------------------------------------------------
(* Findings *)

Errors == {"empty_path", "unknown_capability", "contradiction"}

ValidateRule(r) ==
  LET has == Range(r.capabilities)
      holds ==
        [empty_path |-> r.path = <<Blank>>,
         no_capabilities |-> r.capabilities = <<>>,
         unknown_capability |-> has \cap Foreign # {},
         deny_with_others |-> "deny" \in has /\ Len(r.capabilities) > 1,
         sudo |-> "sudo" \in has,
         create_without_update |-> "create" \in has /\ "update" \notin has,
         list_of_no_prefix |->
           {"list", "scan"} \cap has # {} /\ ~IsPrefixLike(r.path),
         star_before_end |-> StarBeforeEnd(r.path),
         broad_system_access |->
           Len(r.path) > 1 /\ r.path[1] = "sys" /\ LastOf(r.path) \in EndsInStar,
         expired |-> r.expired,
         contradiction |-> \E name \in r.required : RequiredParameterContradiction(r, name)]
  IN {kind \in DOMAIN holds : holds[kind]}

\* Every occurrence of a path but its first.
DuplicatePath(rules, i) == \E j \in 1..(i - 1) : rules[j].path = rules[i].path

\* The mount and the component below it, of a path that has both.
IsKv2(path) == Len(path) > 1 /\ path[2] \in Kv2Components

\* Fault: one pass, so a mount is known to be KV v2 only from there on.
MissingComponentSoFar(rules, i) ==
  LET path == rules[i].path
  IN /\ Len(path) > 1 /\ path[2] \notin Kv2Components \cup AnySegment
     /\ \E j \in 1..i : IsKv2(rules[j].path) /\ rules[j].path[1] = path[1]

\* A mount that some rule addresses as KV v2 is KV v2 for every other.
MissingComponent(rules, i) ==
  LET path == rules[i].path
  IN /\ Len(path) > 1 /\ path[2] \notin Kv2Components \cup AnySegment
     /\ \E j \in DOMAIN rules : IsKv2(rules[j].path) /\ rules[j].path[1] = path[1]

\* Findings name the path they are about, not the rule.
Validate(rules) ==
  (IF rules = <<>> THEN {[kind |-> "no_rules", path |-> None]} ELSE {})
  \cup {[kind |-> "duplicate", path |-> rules[i].path] :
          i \in {j \in DOMAIN rules : DuplicatePath(rules, j)}}
  \cup {[kind |-> "missing_component", path |-> rules[i].path] :
          i \in {j \in DOMAIN rules : MissingComponent(rules, j)}}
  \cup UNION {{[kind |-> kind, path |-> rules[i].path] : kind \in ValidateRule(rules[i])} :
                i \in DOMAIN rules}

HasError(findings) == \E f \in findings : f.kind \in Errors

-----------------------------------------------------------------------------
(* What the evaluator refuses *)

\* Compile looks at no rule that has expired.
Compiles(rules) ==
  \A i \in DOMAIN rules :
    ~rules[i].expired =>
      /\ Range(rules[i].capabilities) \cap Foreign = {}
      /\ \A j \in DOMAIN rules[i].path : rules[i].path[j] \notin PlusStar

-----------------------------------------------------------------------------
(* What the findings promise *)

\* A value a request may give a parameter: on the list of those allowed, if
\* there is a list, and not on that of those denied. An empty list of values
\* is every value.
MayGive(r, name, value) ==
  /\ r.allowed # None =>
       /\ {name, Wildcard} \cap DOMAIN r.allowed # {}
       /\ Effective(r.allowed, name) \in {{}} \cup {v \in SUBSET Values : value \in v}
  /\ {name, Wildcard} \cap DOMAIN r.denied # {} =>
       Effective(r.denied, name) \in {v \in (SUBSET Values) \ {{}} : value \notin v}

\* OpenBao's parser takes the capabilities one after another and stops at the
\* first that is no capability, or that is deny (validate.go:197, :208, validate_test.go:88).
StopsAt(capabilities, i) ==
  /\ capabilities[i] \notin Known \ {"deny"}
  /\ \A j \in 1..(i - 1) : capabilities[j] \in Known \ {"deny"}

\* At deny it keeps nothing else of the rule: no parameter counts any more.
ReadAsDeny(r) ==
  \E i \in DOMAIN r.capabilities : StopsAt(r.capabilities, i) /\ r.capabilities[i] = "deny"

\* At a word that is no capability it refuses the policy; a rule that has
\* expired it skips outright (evaluator.go:186).
Refused(r) ==
  /\ ~r.expired
  /\ \E i \in DOMAIN r.capabilities : StopsAt(r.capabilities, i) /\ r.capabilities[i] # "deny"

\* OpenBao does not read the rule to its end, so what is wrong further on does
\* no harm.
CutShort(r) == r.expired \/ ReadAsDeny(r)

\* Nothing can come of a rule: OpenBao refuses it, its path names nothing, or
\* no request can meet what it requires.
ProvablyBroken(r) ==
  \/ Refused(r)
  \/ r.path = <<Blank>>
  \/ /\ ~ReadAsDeny(r)
     /\ \E name \in r.required : \A value \in Values \cup {OtherValue} : ~MayGive(r, name, value)

=============================================================================
