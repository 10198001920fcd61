-------------------------- MODULE CommandLineProofs --------------------------
(***************************************************************************)
(* What bpe makes of any arguments, policies and interruptions: flags mean *)
(* the same wherever they stand, help is not blocked, a --check is never   *)
(* overheard, and an exit code says what is so. The check of required      *)
(* parameters (validate.go:291) is exact, for any names and any values;    *)
(* every rule nothing can come of has an error, and of the rules OpenBao   *)
(* reads to their end no other has.                                        *)
(***************************************************************************)
EXTENDS CommandLine, SelectionProofs

-----------------------------------------------------------------------------
(* What is found in a rule *)

\* A parameter map lists sets of values, and so does what is effective of it.
LEMMA EffectiveType ==
  ASSUME NEW map \in ParameterMaps, NEW name \in Names
  PROVE  Effective(map, name) \in SUBSET Values
<1>1. PICK names \in SUBSET Names : map \in [names -> SUBSET Values]
  BY DEF ParameterMaps
<1> QED BY <1>1 DEF Effective

\* A parameter on no list has no values listed.
LEMMA EffectiveOfNothing ==
  ASSUME NEW map, NEW name, {name, Wildcard} \cap DOMAIN map = {}
  PROVE  Effective(map, name) = {}
BY DEF Effective

\* What is reported as a contradiction is one: no value can be given, the
\* values that no list mentions included.
LEMMA ReportedIsProof ==
  ASSUME NEW r, IsValidRule(r), NEW name \in Names, RequiredParameterContradiction(r, name),
         NEW value \in Values \cup {OtherValue}
  PROVE  ~MayGive(r, name, value)
<1> DEFINE listed == Effective(r.denied, name)
           may == IF r.allowed = None THEN {} ELSE Effective(r.allowed, name)
<1>1. listed \in SUBSET Values
  BY EffectiveType DEF IsValidRule
<1>2. CASE name \in DOMAIN r.denied /\ listed = {}
  BY <1>2 DEF MayGive
<1>3. CASE name \notin DOMAIN r.denied /\ Wildcard \in DOMAIN r.denied /\ listed = {}
  BY <1>3 DEF MayGive
<1>4. CASE r.allowed # None /\ {name, Wildcard} \cap DOMAIN r.allowed = {}
  BY <1>4 DEF MayGive
<1>5. CASE may # {} /\ listed # {} /\ may \subseteq listed
  <2>1. r.allowed # None /\ may = Effective(r.allowed, name)
    BY <1>5
  <2>2. {name, Wildcard} \cap DOMAIN r.denied # {}
    BY <1>5, EffectiveOfNothing
  <2>3. SUFFICES ASSUME MayGive(r, name, value) PROVE FALSE
    OBVIOUS
  <2>4. value \in may
    BY <2>1, <2>3, <1>5 DEF MayGive
  <2>5. value \notin listed
    BY <2>2, <2>3, <1>5 DEF MayGive
  <2> QED BY <2>4, <2>5, <1>5
<1> QED BY <1>2, <1>3, <1>4, <1>5 DEF RequiredParameterContradiction

\* What is not reported can be met: by a value that is allowed and not denied,
\* or by one that no list mentions.
LEMMA UnreportedCanBeMet ==
  ASSUME NEW r, IsValidRule(r), NEW name \in Names, ~RequiredParameterContradiction(r, name)
  PROVE  \E value \in Values \cup {OtherValue} : MayGive(r, name, value)
<1> DEFINE listed == Effective(r.denied, name)
           may == IF r.allowed = None THEN {} ELSE Effective(r.allowed, name)
<1>1. listed \in SUBSET Values
  BY EffectiveType DEF IsValidRule
<1>2. may \in SUBSET Values
  BY EffectiveType DEF IsValidRule
<1>3. r.allowed # None =>
        /\ {name, Wildcard} \cap DOMAIN r.allowed # {}
        /\ may = Effective(r.allowed, name)
  BY DEF RequiredParameterContradiction
<1>4. {name, Wildcard} \cap DOMAIN r.denied # {} => listed # {}
  BY DEF RequiredParameterContradiction
<1>5. ~(may # {} /\ listed # {} /\ may \subseteq listed)
  BY DEF RequiredParameterContradiction
<1> HIDE DEF listed, may
<1>6. CASE may = {}
  <2>1. OtherValue \notin listed
    BY <1>1, ValidationAssumption
  <2>2. r.allowed # None => Effective(r.allowed, name) = {}
    BY <1>3, <1>6
  <2>3. MayGive(r, name, OtherValue)
    BY <1>1, <1>3, <1>4, <2>1, <2>2 DEF MayGive, listed
  <2> QED BY <2>3
<1>7. CASE may # {}
  <2>1. PICK value \in may : value \notin listed
    BY <1>5, <1>7
  <2>2. r.allowed # None => Effective(r.allowed, name) \in {v \in SUBSET Values : value \in v}
    BY <1>2, <1>3, <2>1
  <2>3. MayGive(r, name, value)
    BY <1>1, <1>3, <1>4, <2>1, <2>2 DEF MayGive, listed
  <2> QED BY <1>2, <2>1, <2>3
<1> QED BY <1>6, <1>7

\* The four cases of requiredParameterContradiction are exactly those in which
\* no request can give the parameter a value it may have.
THEOREM ContradictionIsExact ==
  ASSUME NEW r, IsValidRule(r), NEW name \in Names
  PROVE  RequiredParameterContradiction(r, name) <=>
           \A value \in Values \cup {OtherValue} : ~MayGive(r, name, value)
BY ReportedIsProof, UnreportedCanBeMet

\* A word that is no capability is what the parser stops at, unless it stops
\* before, at another one or at a deny.
LEMMA StopsBefore ==
  ASSUME NEW list \in Seq(Known \cup Foreign), Range(list) \cap Foreign # {}
  PROVE  \E i \in DOMAIN list : StopsAt(list, i)
<1> DEFINE stops == {i \in DOMAIN list : list[i] \notin Known \ {"deny"}}
<1>1. PICK k \in DOMAIN list : list[k] \in Foreign
  BY DEF Range
<1>2. stops \subseteq Nat /\ k \in stops
  BY <1>1, ValidationAssumption
<1>3. PICK i \in stops : \A m \in stops : i <= m
  BY <1>2, LeastNumber
<1>4. \A j \in 1..(i - 1) : list[j] \in Known \ {"deny"}
  BY <1>3
<1> QED BY <1>3, <1>4 DEF StopsAt

\* What the parser refuses is a word that is no capability.
LEMMA RefusedIsForeign ==
  ASSUME NEW r, IsValidRule(r), Refused(r)
  PROVE  Range(r.capabilities) \cap Foreign # {}
BY DEF Refused, StopsAt, IsValidRule, Range

\* A rule that nothing can come of has an error, and a rule with an error is
\* one of these, or one that OpenBao does not read to its end.
THEOREM ErrorsOfARule ==
  ASSUME NEW r, IsValidRule(r)
  PROVE  /\ ProvablyBroken(r) => ValidateRule(r) \cap Errors # {}
         /\ ValidateRule(r) \cap Errors # {} => ProvablyBroken(r) \/ CutShort(r)
<1>1. r.required \subseteq Names
  BY DEF IsValidRule
<1>2. (\E name \in r.required : RequiredParameterContradiction(r, name)) <=>
        \E name \in r.required : \A value \in Values \cup {OtherValue} : ~MayGive(r, name, value)
  BY <1>1, ContradictionIsExact
<1>3. /\ "empty_path" \in ValidateRule(r) <=> r.path = <<Blank>>
      /\ "unknown_capability" \in ValidateRule(r) <=> Range(r.capabilities) \cap Foreign # {}
      /\ "contradiction" \in ValidateRule(r) <=>
           \E name \in r.required : RequiredParameterContradiction(r, name)
  BY DEF ValidateRule
<1>4. ValidateRule(r) \cap Errors # {} <=>
        \E kind \in {"empty_path", "unknown_capability", "contradiction"} : kind \in ValidateRule(r)
  BY DEF Errors
<1>5. Range(r.capabilities) \cap Foreign # {} => Refused(r) \/ CutShort(r)
  <2> SUFFICES ASSUME Range(r.capabilities) \cap Foreign # {} PROVE Refused(r) \/ CutShort(r)
    OBVIOUS
  <2>1. PICK i \in DOMAIN r.capabilities : StopsAt(r.capabilities, i)
    BY StopsBefore DEF IsValidRule
  <2> QED BY <2>1 DEF Refused, CutShort, ReadAsDeny
<1>6. Refused(r) => Range(r.capabilities) \cap Foreign # {}
  BY RefusedIsForeign
<1> QED BY <1>2, <1>3, <1>4, <1>5, <1>6 DEF ProvablyBroken, CutShort

-----------------------------------------------------------------------------
(* What is found in a policy *)

ErrorsIn(found) == {f \in found : f.kind \in Errors}

\* The errors of a policy are the errors of its rules, each at its rule's path.
LEMMA ErrorsAreOfRules ==
  ASSUME NEW rules
  PROVE  ErrorsIn(Validate(rules)) =
           UNION {{[kind |-> kind, path |-> rules[i].path] : kind \in ValidateRule(rules[i]) \cap Errors} :
                    i \in DOMAIN rules}
<1> DEFINE found(i) == {[kind |-> kind, path |-> rules[i].path] : kind \in ValidateRule(rules[i])}
           wrong(i) ==
             {[kind |-> kind, path |-> rules[i].path] : kind \in ValidateRule(rules[i]) \cap Errors}
           ofRules == UNION {found(i) : i \in DOMAIN rules}
           ofPolicy == Validate(rules) \ ofRules
<1>1. /\ "no_rules" \notin Errors
      /\ "duplicate" \notin Errors
      /\ "missing_component" \notin Errors
  BY DEF Errors
<1>2. \A f \in Validate(rules) : f \in ofRules \/ f.kind \notin Errors
  BY <1>1 DEF Validate
<1>3. ofRules \subseteq Validate(rules)
  BY DEF Validate
<1>4. ErrorsIn(Validate(rules)) = ErrorsIn(ofRules)
  <2> HIDE DEF ofRules
  <2> QED BY <1>2, <1>3 DEF ErrorsIn
<1>5. \A i \in DOMAIN rules : ErrorsIn(found(i)) = wrong(i)
  BY DEF ErrorsIn
<1>6. ErrorsIn(ofRules) = UNION {wrong(i) : i \in DOMAIN rules}
  <2> HIDE DEF found, wrong
  <2> QED BY <1>5 DEF ErrorsIn
<1> QED BY <1>4, <1>6

\* The paths of the broken rules have errors, and no others but paths of rules
\* that are not read to their end.
LEMMA PathsWithErrors ==
  ASSUME NEW rules, \A i \in DOMAIN rules : IsValidRule(rules[i])
  PROVE  /\ PathsOf(rules, Broken(rules)) \subseteq {f.path : f \in ErrorsIn(Validate(rules))}
         /\ {f.path : f \in ErrorsIn(Validate(rules))}
              \subseteq PathsOf(rules, Broken(rules) \cup NotReadOut(rules))
<1> DEFINE wrong(i) ==
             {[kind |-> kind, path |-> rules[i].path] : kind \in ValidateRule(rules[i]) \cap Errors}
<1>1. ErrorsIn(Validate(rules)) = UNION {wrong(i) : i \in DOMAIN rules}
  BY ErrorsAreOfRules
<1>2. \A i \in DOMAIN rules :
        /\ i \in Broken(rules) => wrong(i) # {}
        /\ wrong(i) # {} => i \in Broken(rules) \cup NotReadOut(rules)
  BY ErrorsOfARule DEF Broken, NotReadOut
<1>3. \A i \in DOMAIN rules : \A f \in wrong(i) : f.path = rules[i].path
  OBVIOUS
<1>4. Broken(rules) \subseteq DOMAIN rules
  BY DEF Broken
<1> HIDE DEF wrong
<1>5. ASSUME NEW f \in ErrorsIn(Validate(rules))
      PROVE  f.path \in PathsOf(rules, Broken(rules) \cup NotReadOut(rules))
  BY <1>1, <1>2, <1>3 DEF PathsOf
<1>6. ASSUME NEW i \in Broken(rules)
      PROVE  \E f \in ErrorsIn(Validate(rules)) : f.path = rules[i].path
  <2>1. PICK f \in wrong(i) : TRUE
    BY <1>2, <1>4
  <2> QED BY <1>1, <1>3, <1>4, <2>1
<1> QED BY <1>5, <1>6 DEF PathsOf

-----------------------------------------------------------------------------
(* The order of the rules *)

\* The rules in another order.
Rearranged(rules, order) == [i \in DOMAIN rules |-> rules[order[i]]]

\* The duplicates are the paths that two rules have, whichever comes first.
Doubled(rules) ==
  {path \in {rules[k].path : k \in DOMAIN rules} :
     \E k, l \in DOMAIN rules : k # l /\ rules[k].path = path /\ rules[l].path = path}

\* Every path that two rules have is found, once.
LEMMA DuplicatesAreDoubled ==
  ASSUME NEW rules, NEW n \in Nat, DOMAIN rules = 1..n
  PROVE  {rules[k].path : k \in {l \in DOMAIN rules : DuplicatePath(rules, l)}} = Doubled(rules)
<1>1. ASSUME NEW k \in DOMAIN rules, DuplicatePath(rules, k)
      PROVE  rules[k].path \in Doubled(rules)
  <2>1. PICK l \in 1..(k - 1) : rules[l].path = rules[k].path
    BY <1>1 DEF DuplicatePath
  <2>2. l \in DOMAIN rules /\ l # k
    OBVIOUS
  <2> QED BY <2>1, <2>2 DEF Doubled
<1>2. ASSUME NEW path \in Doubled(rules)
      PROVE  \E k \in DOMAIN rules : DuplicatePath(rules, k) /\ rules[k].path = path
  <2>1. PICK k \in DOMAIN rules, l \in DOMAIN rules :
          k # l /\ rules[k].path = path /\ rules[l].path = path
    BY DEF Doubled
  <2>2. CASE k < l
    <3>1. k \in 1..(l - 1)
      BY <2>2
    <3> QED BY <2>1, <3>1 DEF DuplicatePath
  <2>3. CASE l < k
    <3>1. l \in 1..(k - 1)
      BY <2>3
    <3> QED BY <2>1, <3>1 DEF DuplicatePath
  <2> QED BY <2>1, <2>2, <2>3
<1> QED BY <1>1, <1>2

\* Every rule of s is one of r, each at a place of its own.
SameRules(r, s) ==
  /\ DOMAIN s = DOMAIN r
  /\ \E p \in [DOMAIN r -> DOMAIN r] :
       /\ \A k, l \in DOMAIN r : p[k] = p[l] => k = l
       /\ \A k \in DOMAIN r : s[k] = r[p[k]]

\* A list rearranged has the same rules, and so has the list itself.
LEMMA RearrangedRules ==
  ASSUME NEW rules, NEW order \in Bijection(DOMAIN rules, DOMAIN rules)
  PROVE  /\ SameRules(rules, Rearranged(rules, order))
         /\ SameRules(Rearranged(rules, order), rules)
<1> DEFINE D == DOMAIN rules
           s == Rearranged(rules, order)
           back == [k \in D |-> CHOOSE l \in D : order[l] = k]
<1>1. /\ order \in [D -> D]
      /\ \A k, l \in D : order[k] = order[l] => k = l
      /\ \A k \in D : \E l \in D : order[l] = k
  BY DEF Bijection, Injection, Surjection, IsInjective
<1>2. DOMAIN s = D /\ \A k \in D : s[k] = rules[order[k]]
  BY DEF Rearranged
<1> HIDE DEF D, s
<1>3. \A k \in D : back[k] \in D /\ order[back[k]] = k
  BY <1>1
<1>4. back \in [D -> D]
  BY <1>1
<1> HIDE DEF back
<1>5. \A k, l \in D : back[k] = back[l] => k = l
  BY <1>3
<1>6. \A k \in D : rules[k] = s[back[k]]
  BY <1>2, <1>3
<1>7. SameRules(rules, s)
  BY <1>1, <1>2 DEF SameRules, D
<1>8. SameRules(s, rules)
  BY <1>2, <1>4, <1>5, <1>6 DEF SameRules, D
<1> QED BY <1>7, <1>8 DEF s

\* The same rules have the same paths twice.
LEMMA SameDoubled ==
  ASSUME NEW r, NEW s, SameRules(r, s)
  PROVE  Doubled(s) \subseteq Doubled(r)
<1>1. PICK p \in [DOMAIN r -> DOMAIN r] :
        /\ \A k, l \in DOMAIN r : p[k] = p[l] => k = l
        /\ \A k \in DOMAIN r : s[k] = r[p[k]]
  BY DEF SameRules
<1>2. DOMAIN s = DOMAIN r
  BY DEF SameRules
<1>3. ASSUME NEW path \in Doubled(s) PROVE path \in Doubled(r)
  <2>1. PICK k \in DOMAIN r, l \in DOMAIN r : k # l /\ s[k].path = path /\ s[l].path = path
    BY <1>2 DEF Doubled
  <2>2. p[k] \in DOMAIN r /\ p[l] \in DOMAIN r /\ p[k] # p[l]
    BY <1>1, <2>1
  <2>3. r[p[k]].path = path /\ r[p[l]].path = path
    BY <1>1, <2>1
  <2> QED BY <2>2, <2>3 DEF Doubled
<1> QED BY <1>3

\* The findings of the one list are among those of the other.
LEMMA SameFindings ==
  ASSUME NEW r, NEW s, SameRules(r, s), NEW n \in Nat, DOMAIN r = 1..n, r # <<>>, s # <<>>
  PROVE  Validate(s) \subseteq Validate(r)
<1>1. PICK p \in [DOMAIN r -> DOMAIN r] :
        /\ \A k, l \in DOMAIN r : p[k] = p[l] => k = l
        /\ \A k \in DOMAIN r : s[k] = r[p[k]]
  BY DEF SameRules
<1>2. DOMAIN s = DOMAIN r
  BY DEF SameRules
<1> DEFINE doubled(q) == {[kind |-> "duplicate", path |-> q[i].path] :
                            i \in {j \in DOMAIN q : DuplicatePath(q, j)}}
           missing(q) == {[kind |-> "missing_component", path |-> q[i].path] :
                            i \in {j \in DOMAIN q : MissingComponent(q, j)}}
           found(q) == UNION {{[kind |-> kind, path |-> q[i].path] : kind \in ValidateRule(q[i])} :
                                i \in DOMAIN q}
<1>3. /\ Validate(s) = doubled(s) \cup missing(s) \cup found(s)
      /\ Validate(r) = doubled(r) \cup missing(r) \cup found(r)
  BY DEF Validate
<1>4. doubled(s) \subseteq doubled(r)
  <2> SUFFICES ASSUME NEW k \in DOMAIN s, DuplicatePath(s, k)
               PROVE  \E l \in DOMAIN r : DuplicatePath(r, l) /\ r[l].path = s[k].path
    OBVIOUS
  <2>1. s[k].path \in Doubled(s)
    BY <1>2, DuplicatesAreDoubled
  <2>2. s[k].path \in Doubled(r)
    BY <2>1, SameDoubled
  <2> QED BY <2>2, DuplicatesAreDoubled
<1>5. missing(s) \subseteq missing(r)
  <2> SUFFICES ASSUME NEW k \in DOMAIN s, MissingComponent(s, k)
               PROVE  \E l \in DOMAIN r : MissingComponent(r, l) /\ r[l].path = s[k].path
    OBVIOUS
  <2>1. p[k] \in DOMAIN r /\ s[k] = r[p[k]]
    BY <1>1, <1>2
  <2>2. PICK l \in DOMAIN s : IsKv2(s[l].path) /\ s[l].path[1] = s[k].path[1]
    BY DEF MissingComponent
  <2>3. p[l] \in DOMAIN r /\ s[l] = r[p[l]]
    BY <1>1, <1>2
  <2>4. MissingComponent(r, p[k])
    BY <2>1, <2>2, <2>3 DEF MissingComponent
  <2> QED BY <2>1, <2>4
<1>6. found(s) \subseteq found(r)
  <2> SUFFICES ASSUME NEW k \in DOMAIN s, NEW kind \in ValidateRule(s[k])
               PROVE  \E l \in DOMAIN r : kind \in ValidateRule(r[l]) /\ r[l].path = s[k].path
    OBVIOUS
  <2> QED BY <1>1, <1>2
<1> HIDE DEF doubled, missing, found
<1> QED BY <1>3, <1>4, <1>5, <1>6

\* What is found in a policy is found in it in any order.
LEMMA FindingsOfRearranged ==
  ASSUME NEW S, NEW rules \in Seq(S), NEW order \in Bijection(DOMAIN rules, DOMAIN rules)
  PROVE  Validate(Rearranged(rules, order)) = Validate(rules)
<1> DEFINE s == Rearranged(rules, order)
<1>1. DOMAIN s = DOMAIN rules /\ DOMAIN rules = 1..Len(rules) /\ Len(rules) \in Nat
  BY LenProperties DEF Rearranged
<1>2. SameRules(rules, s) /\ SameRules(s, rules)
  BY RearrangedRules
<1>3. CASE rules = <<>>
  <2>1. s = <<>>
    BY <1>3 DEF Rearranged
  <2> QED BY <1>3, <2>1
<1>4. CASE rules # <<>>
  <2> HIDE DEF s
  <2>1. s # <<>>
    <3>1. Len(rules) \in Nat \ {0}
      BY <1>4, EmptySeq
    <3>2. 1 \in DOMAIN s
      BY <1>1, <3>1
    <3> QED BY <3>2
  <2>2. Validate(s) \subseteq Validate(rules)
    BY <1>1, <1>2, <1>4, <2>1, SameFindings
  <2>3. Validate(rules) \subseteq Validate(s)
    BY <1>1, <1>2, <1>4, <2>1, SameFindings
  <2> QED BY <2>2, <2>3 DEF s
<1> QED BY <1>3, <1>4

-----------------------------------------------------------------------------
(* Lists in order *)

Increasing(s) == \A a, b \in DOMAIN s : a < b => s[a] < s[b]

\* What is chosen of an increasing list is increasing.
LEMMA OnlyKeepsOrder ==
  ASSUME NEW A
  PROVE  \A s \in Seq(Nat) : Increasing(s) => Increasing(Only(s, A))
<1> DEFINE T == {s \in Seq(Nat) : Increasing(s) => Increasing(Only(s, A))}
<1>1. <<>> \in T
  <2>1. <<>> \in Seq(Nat) /\ Only(<<>>, A) = <<>> /\ Increasing(<<>>)
    BY EmptySeq, OnlyOfEmpty DEF Increasing
  <2> QED BY <2>1
<1>2. ASSUME NEW t \in Seq(Nat), NEW e \in Nat, t \in T
      PROVE  Append(t, e) \in T
  <2> DEFINE u == Append(t, e)
             o == Only(t, A)
  <2>1. /\ u \in Seq(Nat) /\ DOMAIN u = 1..(Len(t) + 1) /\ Len(t) \in Nat /\ DOMAIN t = 1..Len(t)
        /\ \A i \in 1..Len(t) : u[i] = t[i]
        /\ u[Len(t) + 1] = e
    BY AppendProperties, LenProperties
  <2>2. SUFFICES ASSUME Increasing(u) PROVE Increasing(Only(u, A))
    BY <2>1
  <2>3. Increasing(t) /\ \A i \in DOMAIN t : t[i] < e
    <3> HIDE DEF u
    <3> QED BY <2>1, <2>2 DEF Increasing
  <2>4. Only(u, A) = IF e \in A THEN Append(o, e) ELSE o
    BY OnlyOfAppend
  <2>5. Increasing(o) /\ o \in Seq(Nat)
    BY <1>2, <2>3, OnlyType
  <2>6. \A i \in DOMAIN o : o[i] < e
    <3>1. Range(o) = Range(t) \cap A
      BY RangeOfOnly
    <3> HIDE DEF o
    <3> QED BY <2>3, <3>1 DEF Range
  <2>7. Increasing(Append(o, e))
    <3> HIDE DEF o
    <3>1. /\ DOMAIN Append(o, e) = 1..(Len(o) + 1) /\ Len(o) \in Nat /\ DOMAIN o = 1..Len(o)
          /\ \A i \in 1..Len(o) : Append(o, e)[i] = o[i] /\ o[i] \in Nat
          /\ Append(o, e)[Len(o) + 1] = e
      BY <2>5, AppendProperties, LenProperties, ElementOfSeq
    <3>2. ASSUME NEW a \in 1..(Len(o) + 1), NEW b \in 1..(Len(o) + 1), a < b
          PROVE  Append(o, e)[a] < Append(o, e)[b]
      <4>1. a \in 1..Len(o)
        BY <3>1, <3>2
      <4>2. CASE b \in 1..Len(o)
        BY <2>5, <3>1, <3>2, <4>1, <4>2 DEF Increasing
      <4>3. CASE b = Len(o) + 1
        BY <2>6, <3>1, <4>1, <4>3
      <4> QED BY <3>1, <4>2, <4>3
    <3> QED BY <3>1, <3>2 DEF Increasing
  <2> QED BY <2>4, <2>5, <2>7
<1> HIDE DEF T
<1>3. Seq(Nat) \subseteq T
  BY <1>1, <1>2, ByAppending
<1> QED BY <1>3 DEF T

\* A set of numbers up to some number that is not empty has a greatest one.
LEMMA GreatestNumber ==
  ASSUME NEW N \in Nat, NEW T, T \subseteq 1..N, T # {}
  PROVE  \E n \in T : \A m \in T : m <= n
<1> DEFINE Left == {N - n : n \in T}
<1>1. Left \subseteq Nat /\ Left # {}
  <2>1. \A n \in T : n \in 1..N
    OBVIOUS
  <2>2. \A n \in T : N - n \in Nat
    <3> SUFFICES ASSUME NEW n \in T PROVE N - n \in Nat
      OBVIOUS
    <3>1. n \in Nat /\ n <= N
      BY <2>1
    <3> QED BY <3>1
  <2> QED BY <2>2
<1>2. PICK k \in Left : \A l \in Left : k <= l
  <2> HIDE DEF Left
  <2> QED BY <1>1, LeastNumber
<1>3. PICK n \in T : k = N - n
  BY <1>2
<1>4. ASSUME NEW m \in T PROVE m <= n
  <2>1. k <= N - m
    BY <1>2
  <2> QED BY <1>3, <2>1
<1> QED BY <1>4

-----------------------------------------------------------------------------
(* Scanning for flags *)

Indices(args) == [i \in 1..Len(args) |-> i]
Kept(args, specs) == 1..Len(args) \ (Flags(args, specs) \cup TakenAsValue(args, specs))
RestAt(args, specs) == Only(Indices(args), Kept(args, specs))

\* The words left by a scan stand where they stood, in their order.
LEMMA RestInOrder ==
  ASSUME NEW args \in Seq(Tokens), NEW specs
  PROVE  LET rest == RestAt(args, specs)
         IN /\ rest \in Seq(1..Len(args))
            /\ Range(rest) = Kept(args, specs)
            /\ Increasing(rest)
            /\ ScanFlags(args, specs).rest = [k \in DOMAIN rest |-> args[rest[k]]]
<1> DEFINE rest == RestAt(args, specs)
<1>1. Len(args) \in Nat
  BY LenProperties
<1>2. Indices(args) \in Seq(1..Len(args)) /\ Indices(args) \in Seq(Nat)
  BY <1>1, IsASeq DEF Indices
<1>3. Range(Indices(args)) = 1..Len(args)
  BY <1>1 DEF Indices, Range
<1>4. rest \in Seq(1..Len(args))
  BY <1>2, OnlyType DEF RestAt
<1>5. Range(rest) = 1..Len(args) \cap Kept(args, specs)
  BY <1>2, <1>3, RangeOfOnly DEF RestAt
<1>6. Increasing(Indices(args))
  BY <1>1 DEF Indices, Increasing
<1>7. Increasing(rest)
  BY <1>2, <1>6, OnlyKeepsOrder DEF RestAt
<1>8. ScanFlags(args, specs).rest = [k \in DOMAIN rest |-> args[rest[k]]]
  BY DEF ScanFlags, RestAt, Indices, Kept
<1>9. Kept(args, specs) \subseteq 1..Len(args)
  BY DEF Kept
<1> HIDE DEF rest
<1> QED BY <1>4, <1>5, <1>7, <1>8, <1>9 DEF rest

\* The flags whose value is there.
Supplied(args, specs) == {i \in Flags(args, specs) : TakesNext(args[i], specs) => i < Len(args)}

\* The flag that counts is the last of its name.
LEMMA LastOfName ==
  ASSUME NEW args \in Seq(Tokens), NEW specs,
         NEW name \in {args[i].flag : i \in Supplied(args, specs)}
  PROVE  \E i \in Supplied(args, specs) :
           /\ args[i].flag = name /\ \A j \in Supplied(args, specs) : args[j].flag = name => j <= i
           /\ ScanFlags(args, specs).values[name] = FlagValue(args, specs, i)
<1> DEFINE Named == {i \in Supplied(args, specs) : args[i].flag = name}
           IsLast(i) == args[i].flag = name /\ \A j \in Supplied(args, specs) : args[j].flag = name => j <= i
           last == CHOOSE i \in Supplied(args, specs) : IsLast(i)
<1>1. Len(args) \in Nat /\ Named \subseteq 1..Len(args) /\ Named # {}
  BY LenProperties DEF Supplied, Flags
<1>2. PICK n \in Named : \A m \in Named : m <= n
  <2> HIDE DEF Named
  <2> QED BY <1>1, GreatestNumber
<1>3. IsLast(last) /\ last \in Supplied(args, specs)
  <2>1. n \in Supplied(args, specs) /\ IsLast(n)
    BY <1>2
  <2> HIDE DEF IsLast
  <2> QED BY <2>1
<1>4. ScanFlags(args, specs).values[name] = FlagValue(args, specs, last)
  BY DEF ScanFlags, Supplied
<1> HIDE DEF last
<1> QED BY <1>3, <1>4

\* A scan of tokens leaves tokens, and values for flags it knows.
LEMMA ScanType ==
  ASSUME NEW args \in Seq(Tokens), NEW specs
  PROVE  LET scan == ScanFlags(args, specs)
         IN /\ scan.rest \in Seq(Tokens)
            /\ DOMAIN scan.values \subseteq DOMAIN specs
            /\ \A name \in DOMAIN scan.values : scan.values[name] \in Texts
<1> DEFINE rest == RestAt(args, specs)
           scan == ScanFlags(args, specs)
<1>1. /\ rest \in Seq(1..Len(args)) /\ scan.rest = [k \in DOMAIN rest |-> args[rest[k]]]
  BY RestInOrder
<1>2. scan.rest \in Seq(Tokens)
  <2> HIDE DEF rest, scan
  <2>1. Len(rest) \in Nat /\ DOMAIN rest = 1..Len(rest) /\ \A k \in 1..Len(rest) : rest[k] \in 1..Len(args)
    BY <1>1, LenProperties, ElementOfSeq
  <2>2. \A i \in 1..Len(args) : args[i] \in Tokens
    BY ElementOfSeq
  <2> QED BY <1>1, <2>1, <2>2, IsASeq
<1>3. DOMAIN scan.values = {args[i].flag : i \in Supplied(args, specs)}
  BY DEF ScanFlags, Supplied
<1>4. DOMAIN scan.values \subseteq DOMAIN specs
  BY <1>3 DEF Supplied, Flags, IsKnownFlag
<1>5. ASSUME NEW name \in DOMAIN scan.values
      PROVE  scan.values[name] \in Texts
  <2>1. PICK i \in Supplied(args, specs) : scan.values[name] = FlagValue(args, specs, i)
    BY <1>3, LastOfName
  <2>2. Len(args) \in Nat /\ i \in 1..Len(args) /\ (TakesNext(args[i], specs) => i + 1 \in 1..Len(args))
    BY LenProperties DEF Supplied, Flags
  <2>3. \A k \in 1..Len(args) : /\ args[k].text # None => args[k].text \in Texts
                                /\ args[k].flag = None => args[k].text # None
    BY ElementOfSeq, CommandLineAssumption DEF IsToken
  <2>4. Dashed \in Texts /\ "true" \in Texts
    BY CommandLineAssumption
  <2>5. TakesNext(args[i], specs) => TextOf(args[i + 1]) \in Texts
    BY <2>2, <2>3, <2>4 DEF TextOf
  <2>6. FlagValue(args, specs, i) \in Texts
    BY <2>2, <2>3, <2>4, <2>5 DEF FlagValue
  <2> QED BY <2>1, <2>6
<1> QED BY <1>2, <1>4, <1>5

-----------------------------------------------------------------------------
(* Commands are well typed *)

\* The fields of a command.
LEMMA CommandFields ==
  DOMAIN UsageError = {"kind", "file", "topic", "check", "path", "capability", "remote", "flags"}
BY DEF UsageError, Command

\* A command made of a kind and a file is one.
LEMMA CommandType ==
  ASSUME NEW kind \in Kinds, NEW name \in Texts
  PROVE  IsCommand(Command(kind, name))
<1>1. Blank \in Texts
  BY CommandLineAssumption
<1>2. DOMAIN Command(kind, name) = DOMAIN UsageError
  BY DEF Command, UsageError
<1>3. DOMAIN Command(kind, name).flags = {}
  BY DEF Command
<1> QED BY <1>1, <1>2, <1>3 DEF Command, IsCommand

\* What refuses arguments is a command, too.
LEMMA UsageErrorType == IsCommand(UsageError)
BY CommandType, CommandLineAssumption DEF UsageError, Kinds

\* Naming the topic of a help makes no other thing of it.
LEMMA TopicType ==
  ASSUME NEW c, IsCommand(c), NEW topic \in Subcommands
  PROVE  IsCommand([c EXCEPT !.topic = topic])
BY CommandFields DEF IsCommand

\* Nor do the flags of a subcommand.
LEMMA AskedType ==
  ASSUME NEW c, IsCommand(c), NEW check \in BOOLEAN, NEW path \in Texts, NEW capability \in Texts
  PROVE  IsCommand([c EXCEPT !.check = check, !.path = path, !.capability = capability])
BY CommandFields DEF IsCommand

\* Nor do the global flags.
LEMMA FlaggedType ==
  ASSUME NEW c, IsCommand(c), NEW remote \in BOOLEAN, NEW flags,
         DOMAIN flags \subseteq BoolFlags \cup ValueFlags, \A f \in DOMAIN flags : flags[f] \in Texts
  PROVE  IsCommand([c EXCEPT !.remote = remote, !.flags = flags])
BY CommandFields DEF IsCommand

\* The value of a flag, given or not, is a text.
LEMMA GivenType ==
  ASSUME NEW values, \A name \in DOMAIN values : values[name] \in Texts, NEW name
  PROVE  Given(values, name) \in Texts
BY CommandLineAssumption DEF Given

\* A token without a flag is a word.
LEMMA WordText ==
  ASSUME NEW args \in Seq(Tokens), NEW i \in DOMAIN args, args[i].flag = None
  PROVE  args[i].text \in Texts
<1>1. args[i] \in Tokens
  BY LenProperties, ElementOfSeq
<1> QED BY <1>1, CommandLineAssumption DEF IsToken

\* A subcommand is parsed to a command.
LEMMA SubcommandType ==
  ASSUME NEW name \in Subcommands, NEW args \in Seq(Tokens)
  PROVE  IsCommand(ParseSubcommand(name, args))
<1> DEFINE scan == ScanFlags(args, SubFlags[name])
           path == Given(scan.values, "path")
           capability == Given(scan.values, "capability")
           asked == Given(scan.values, "check") = "true"
<1>1. /\ scan.rest \in Seq(Tokens)
      /\ \A f \in DOMAIN scan.values : scan.values[f] \in Texts
  BY ScanType
<1>2. path \in Texts /\ capability \in Texts
  <2> HIDE DEF scan
  <2> QED BY <1>1, GivenType
<1>3. name \in Kinds /\ "help" \in Kinds /\ Blank \in Texts
  BY CommandLineAssumption DEF Kinds
<1>4. IsCommand([Command("help", Blank) EXCEPT !.topic = name])
  BY <1>3, CommandType, TopicType
<1>5. ASSUME Len(scan.rest) = 1, scan.rest[1].flag = None
      PROVE  IsCommand([Command(name, scan.rest[1].text) EXCEPT !.check = asked, !.path = path,
                                                                !.capability = capability])
  <2> HIDE DEF scan, path, capability
  <2>1. 1 \in DOMAIN scan.rest
    BY <1>1, <1>5, LenProperties
  <2>2. scan.rest[1].text \in Texts
    BY <1>1, <1>5, <2>1, WordText
  <2>3. IsCommand(Command(name, scan.rest[1].text))
    BY <1>3, <2>2, CommandType
  <2>4. asked \in BOOLEAN
    OBVIOUS
  <2> HIDE DEF asked
  <2> QED BY <1>2, <2>3, <2>4, AskedType
<1>6. Len(scan.rest) = 1 => 1 \in DOMAIN scan.rest
  <2> HIDE DEF scan
  <2> QED BY <1>1, LenProperties
<1>7. ParseSubcommand(name, args) \in
        {[Command("help", Blank) EXCEPT !.topic = name], UsageError} \cup
        (IF Len(scan.rest) = 1 /\ scan.rest[1].flag = None
           THEN {[Command(name, scan.rest[1].text) EXCEPT !.check = asked, !.path = path,
                                                         !.capability = capability]}
           ELSE {})
  BY <1>6, Zenon DEF ParseSubcommand
<1> HIDE DEF scan, path, capability, asked
<1> QED BY <1>4, <1>5, <1>7, UsageErrorType

\* What follows the first argument are arguments.
LEMMA ArgsTail ==
  ASSUME NEW args \in Seq(Tokens), args # <<>>
  PROVE  Tail(args) \in Seq(Tokens) /\ 1 \in DOMAIN args
BY HeadTailProperties, LenProperties, EmptySeq

\* What is left of the arguments is parsed to a command.
LEMMA RemainingType ==
  ASSUME NEW rest \in Seq(Tokens)
  PROVE  IsCommand(ParseRemaining(rest))
<1>1. {"editor", "help", "version"} \subseteq Kinds /\ Blank \in Texts
  BY CommandLineAssumption DEF Kinds
<1>2. ASSUME NEW kind \in {"editor", "help", "version"}, NEW name \in Texts
      PROVE  IsCommand(Alone(rest, kind, name)) /\ IsCommand(Command(kind, name))
  BY <1>1, CommandType, UsageErrorType DEF Alone
<1>3. IsCommand(Command("help", Blank))
  BY <1>1, <1>2
<1>4. ASSUME NEW args PROVE IsCommand(ParseHelp(args))
  BY <1>3, TopicType, UsageErrorType DEF ParseHelp
<1>5. CASE rest = <<>>
  BY <1>1, <1>2, <1>5 DEF ParseRemaining
<1>6. CASE rest # <<>>
  <2>1. Tail(rest) \in Seq(Tokens) /\ 1 \in DOMAIN rest
    BY <1>6, ArgsTail
  <2>2. rest[1].flag = None => rest[1].text \in Texts
    BY <2>1, WordText
  <2>3. rest[1].text \in Subcommands => IsCommand(ParseSubcommand(rest[1].text, Tail(rest)))
    BY <2>1, SubcommandType
  <2>4. /\ IsCommand(Alone(rest, "help", Blank))
        /\ IsCommand(Alone(rest, "version", Blank))
        /\ rest[1].flag = None => IsCommand(Alone(rest, "editor", rest[1].text))
    BY <1>1, <1>2, <2>2
  <2>5. IsCommand(ParseHelp(Tail(rest)))
    BY <1>4
  <2> QED BY <1>6, <2>3, <2>4, <2>5, UsageErrorType DEF ParseRemaining
<1> QED BY <1>5, <1>6

\* Whatever the arguments, a command is made of them.
LEMMA ArgsType ==
  ASSUME NEW args \in Seq(Tokens)
  PROVE  IsCommand(ParseArgs(args))
<1> DEFINE scan == ScanFlags(args, GlobalFlags)
           asked == "remote" \in DOMAIN scan.values
           remote == asked /\ ParseBool[scan.values["remote"]]
           cmd == ParseRemaining(scan.rest)
<1>1. /\ scan.rest \in Seq(Tokens)
      /\ DOMAIN scan.values \subseteq BoolFlags \cup ValueFlags
      /\ \A f \in DOMAIN scan.values : scan.values[f] \in Texts
  BY ScanType DEF GlobalFlags
<1>2. IsCommand(cmd)
  <2> HIDE DEF scan
  <2> QED BY <1>1, RemainingType
<1>3. asked /\ scan.values["remote"] \in DOMAIN ParseBool => remote \in BOOLEAN
  BY CommandLineAssumption
<1>4. ~asked => remote \in BOOLEAN
  OBVIOUS
<1>5. ASSUME ~(asked /\ scan.values["remote"] \notin DOMAIN ParseBool)
      PROVE  IsCommand([cmd EXCEPT !.remote = remote, !.flags = scan.values])
  <2>1. remote \in BOOLEAN
    BY <1>3, <1>4, <1>5
  <2> HIDE DEF scan, cmd, remote
  <2> QED BY <1>1, <1>2, <2>1, FlaggedType
<1>6. \/ ParseArgs(args) = UsageError
      \/ /\ ~(asked /\ scan.values["remote"] \notin DOMAIN ParseBool)
         /\ ParseArgs(args) = [cmd EXCEPT !.remote = remote, !.flags = scan.values]
  BY Zenon DEF ParseArgs
<1> HIDE DEF scan, asked, cmd, remote
<1> QED BY <1>5, <1>6, UsageErrorType

-----------------------------------------------------------------------------
(* The --check of a format *)

\* Where no flag takes a value, no argument is one.
LEMMA NoneTaken ==
  ASSUME NEW args \in Seq(Tokens), NEW specs, \A i \in DOMAIN args : ~TakesNext(args[i], specs)
  PROVE  TakenAsValue(args, specs) = {}
<1> DEFINE Body(f) == [i \in 0..Len(args) |->
                         i > 1 /\ ~f[i - 1] /\ TakesNext(args[i - 1], specs)]
           taken == CHOOSE f : f = Body(f)
           none == [i \in 0..Len(args) |-> FALSE]
<1>1. Len(args) \in Nat /\ DOMAIN args = 1..Len(args)
  BY LenProperties
<1>2. \A i \in 0..Len(args) : i > 1 => i - 1 \in DOMAIN args
  BY <1>1
<1>3. \A f : \A i \in 0..Len(args) : Body(f)[i] = FALSE
  BY <1>2
<1>4. \A f : Body(f) = none
  BY <1>3
<1> HIDE DEF Body
<1>5. taken = none
  BY <1>4
<1>6. TakenAsValue(args, specs) = {i \in 1..Len(args) : taken[i]}
  BY Zenon DEF TakenAsValue, taken, Body
<1> HIDE DEF taken
<1> QED BY <1>1, <1>5, <1>6

\* What is left of a command line that formats: the word, then the rest, where
\* the last --check decides.
LEMMA LastCheckDecides ==
  ASSUME NEW args \in Seq(Tokens), NEW i \in DOMAIN args,
         args[i].flag = "check", args[i].text \in {None, "true"},
         \A j \in DOMAIN args : args[j].flag = "check" => j <= i
  PROVE  Given(ScanFlags(args, SubFlags["format"]).values, "check") = "true"
<1> DEFINE specs == SubFlags["format"]
<1>1. DOMAIN specs = {"check"} /\ specs["check"] = FALSE
  BY DEF SubFlags
<1>2. "check" # None
  BY CommandLineAssumption
<1>3. \A t : ~TakesNext(t, specs)
  BY <1>1 DEF TakesNext, IsKnownFlag
<1>4. TakenAsValue(args, specs) = {}
  <2> HIDE DEF specs
  <2> QED BY <1>3, NoneTaken
<1>5. DOMAIN args = 1..Len(args) /\ Len(args) \in Nat
  BY LenProperties
<1> HIDE DEF specs
<1>6. Supplied(args, specs) = {j \in DOMAIN args : args[j].flag = "check"}
  BY <1>1, <1>2, <1>3, <1>4, <1>5 DEF Supplied, Flags, IsKnownFlag
<1>7. "check" \in {args[j].flag : j \in Supplied(args, specs)}
  BY <1>6
<1>8. PICK k \in Supplied(args, specs) :
        /\ args[k].flag = "check" /\ \A j \in Supplied(args, specs) : args[j].flag = "check" => j <= k
        /\ ScanFlags(args, specs).values["check"] = FlagValue(args, specs, k)
  BY <1>7, LastOfName
<1>9. k = i
  <2>1. i <= k /\ k <= i
    BY <1>6, <1>8
  <2> QED BY <2>1, <1>5, <1>6
<1>10. FlagValue(args, specs, i) = "true"
  BY <1>3 DEF FlagValue
<1>11. DOMAIN ScanFlags(args, specs).values = {args[j].flag : j \in Supplied(args, specs)}
  BY DEF ScanFlags, Supplied
<1> QED BY <1>7, <1>8, <1>9, <1>10, <1>11 DEF Given, specs

\* The arguments that ask a format to check only.
Asks(args) ==
  \E i \in DOMAIN args :
    /\ args[i].flag = "check" /\ args[i].text \in {None, "true"}
    /\ \A j \in DOMAIN args : args[j].flag = "check" => j <= i
    /\ i \notin TakenAsValue(args, GlobalFlags)

\* Global flags and their values taken away, the --check that counts is still
\* the last.
LEMMA CheckIsLeft ==
  ASSUME NEW args \in Seq(Tokens), Asks(args),
         ScanFlags(args, GlobalFlags).rest # <<>>,
         ScanFlags(args, GlobalFlags).rest[1].flag = None
  PROVE  Given(ScanFlags(Tail(ScanFlags(args, GlobalFlags).rest), SubFlags["format"]).values, "check")
           = "true"
<1> DEFINE left == RestAt(args, GlobalFlags)
           rest == ScanFlags(args, GlobalFlags).rest
           tail == Tail(rest)
<1>1. PICK i \in DOMAIN args :
        /\ args[i].flag = "check" /\ args[i].text \in {None, "true"}
        /\ \A j \in DOMAIN args : args[j].flag = "check" => j <= i
        /\ i \notin TakenAsValue(args, GlobalFlags)
  BY DEF Asks
<1>2. /\ left \in Seq(1..Len(args)) /\ Range(left) = Kept(args, GlobalFlags)
      /\ Increasing(left) /\ rest = [k \in DOMAIN left |-> args[left[k]]]
  BY RestInOrder
<1>3. rest \in Seq(Tokens)
  BY ScanType
<1>4. DOMAIN args = 1..Len(args) /\ Len(args) \in Nat
  BY LenProperties
<1>5. "check" \notin DOMAIN GlobalFlags /\ "check" # None
  BY CommandLineAssumption DEF GlobalFlags
<1>6. i \in Kept(args, GlobalFlags)
  BY <1>1, <1>4, <1>5 DEF Kept, Flags, IsKnownFlag
<1> HIDE DEF left, rest
<1>7. PICK k \in DOMAIN left : left[k] = i
  BY <1>2, <1>6 DEF Range
<1>8. /\ DOMAIN left = 1..Len(left) /\ Len(left) \in Nat
      /\ \A j \in DOMAIN left : left[j] \in 1..Len(args)
  BY <1>2, LenProperties, ElementOfSeq
<1>9. Len(rest) = Len(left) /\ DOMAIN rest = DOMAIN left
  BY <1>2, <1>3, <1>8, LenProperties
<1>10. k # 1
  BY <1>1, <1>2, <1>5, <1>7 DEF rest
<1>11. /\ tail \in Seq(Tokens) /\ Len(tail) = Len(rest) - 1
       /\ \A j \in 1..Len(tail) : tail[j] = rest[j + 1]
  <2>1. rest # <<>>
    BY DEF rest
  <2> QED BY <1>3, <2>1, HeadTailProperties
<1>12. DOMAIN tail = 1..Len(tail)
  BY <1>11, LenProperties
<1> HIDE DEF tail
<1>13. /\ k - 1 \in DOMAIN tail /\ tail[k - 1] = args[i]
  <2>1. k - 1 \in 1..Len(tail) /\ (k - 1) + 1 = k
    BY <1>7, <1>8, <1>9, <1>10, <1>11
  <2> QED BY <1>2, <1>7, <1>11, <1>12, <2>1
<1>14. ASSUME NEW j \in DOMAIN tail, tail[j].flag = "check"
       PROVE  j <= k - 1
  <2>1. j + 1 \in DOMAIN left /\ j \in Nat /\ tail[j] = args[left[j + 1]]
    BY <1>2, <1>8, <1>9, <1>11, <1>12
  <2>2. left[j + 1] <= i
    BY <1>1, <1>4, <1>8, <1>14, <2>1
  <2>3. ~ (k < j + 1)
    <3>1. i \in Nat /\ left[j + 1] \in Nat
      BY <1>4, <1>8, <2>1
    <3> QED BY <1>2, <1>7, <2>1, <2>2, <3>1 DEF Increasing
  <2> QED BY <1>8, <2>1, <2>3
<1> QED BY <1>1, <1>11, <1>13, <1>14, LastCheckDecides DEF tail, rest

\* A format that was asked to check only knows it.
LEMMA CheckIsParsed ==
  ASSUME NEW args \in Seq(Tokens), ParseArgs(args).kind = "format", Asks(args)
  PROVE  ParseArgs(args).check
<1> DEFINE scan == ScanFlags(args, GlobalFlags)
           cmd == ParseRemaining(scan.rest)
           tail == Tail(scan.rest)
           sub == ScanFlags(tail, SubFlags["format"])
<1>1. /\ UsageError.kind = "usage"
      /\ \A kind, name : Command(kind, name).kind = kind /\ Command(kind, name).check = FALSE
      /\ \A kind, name : DOMAIN Command(kind, name) = DOMAIN UsageError
  BY DEF UsageError, Command
<1>2. scan.rest \in Seq(Tokens)
  BY ScanType
<1>3. cmd.kind = "format" /\ cmd.check = ParseArgs(args).check
  <2>1. IsCommand(cmd)
    BY <1>2, RemainingType
  <2>2. PICK remote, flags : ParseArgs(args) = [cmd EXCEPT !.remote = remote, !.flags = flags]
    BY <1>1, Zenon DEF ParseArgs
  <2> HIDE DEF cmd
  <2> QED BY <2>1, <2>2 DEF IsCommand, UsageError, Command
<1> HIDE DEF scan
<1>4. \A name : \A kind \in {"editor", "help", "version"} : Alone(scan.rest, kind, name).kind # "format"
  BY <1>1 DEF Alone
<1>5. ParseHelp(tail).kind # "format"
  <2>1. [Command("help", Blank) EXCEPT !.topic = tail[1].text].kind = "help"
    BY DEF Command
  <2> QED BY <1>1, <2>1 DEF ParseHelp
<1>6. ASSUME NEW name \in Subcommands, ParseSubcommand(name, tail).kind = "format"
      PROVE  /\ name = "format"
             /\ ParseSubcommand(name, tail).check = (Given(sub.values, "check") = "true")
  <2> DEFINE own == ScanFlags(tail, SubFlags[name])
  <2>1. [Command("help", Blank) EXCEPT !.topic = name].kind = "help"
    BY DEF Command
  <2>2. PICK path, capability, policy :
          ParseSubcommand(name, tail) =
            [Command(name, policy) EXCEPT !.check = Given(own.values, "check") = "true",
                                        !.path = path, !.capability = capability]
    BY <1>1, <1>6, <2>1, Zenon DEF ParseSubcommand
  <2> HIDE DEF own
  <2>3. /\ ParseSubcommand(name, tail).kind = name
        /\ ParseSubcommand(name, tail).check = (Given(own.values, "check") = "true")
    BY <2>2 DEF Command
  <2> QED BY <1>6, <2>3 DEF own
<1>7. /\ scan.rest # <<>> /\ scan.rest[1].flag = None /\ scan.rest[1].text \in Subcommands
      /\ cmd = ParseSubcommand(scan.rest[1].text, tail)
  <2>1. Command("editor", Blank).kind = "editor"
    BY <1>1
  <2> HIDE DEF tail
  <2> QED BY <1>1, <1>3, <1>4, <1>5, <2>1 DEF ParseRemaining, tail
<1>8. Given(sub.values, "check") = "true"
  BY <1>7, CheckIsLeft DEF scan
<1> HIDE DEF cmd, sub, tail
<1> QED BY <1>3, <1>6, <1>7, <1>8

\* Two increasing lists of the same numbers are the same.
LEMMA IncreasingIsUnique ==
  ASSUME NEW s \in Seq(Nat), NEW t \in Seq(Nat), Increasing(s), Increasing(t), Range(s) = Range(t)
  PROVE  s = t
<1>1. /\ DOMAIN s = 1..Len(s) /\ Len(s) \in Nat /\ \A i \in DOMAIN s : s[i] \in Nat
      /\ DOMAIN t = 1..Len(t) /\ Len(t) \in Nat /\ \A i \in DOMAIN t : t[i] \in Nat
  BY LenProperties, ElementOfSeq
<1>2. /\ \A i \in DOMAIN s : \E k \in DOMAIN t : t[k] = s[i]
      /\ \A i \in DOMAIN t : \E k \in DOMAIN s : s[k] = t[i]
  BY DEF Range
<1> DEFINE Same(i) == i \in DOMAIN s /\ i \in DOMAIN t /\ s[i] = t[i]
           Differ == {i \in DOMAIN s \cup DOMAIN t : ~Same(i)}
<1>3. Differ = {}
  <2> SUFFICES ASSUME Differ # {} PROVE FALSE
    OBVIOUS
  <2>1. Differ \subseteq Nat
    BY <1>1
  <2>2. PICK n \in Differ : \A m \in Differ : n <= m
    <3> HIDE DEF Differ
    <3> QED BY <2>1, LeastNumber
  <2>3. \A m \in 1..(n - 1) : Same(m)
    <3> SUFFICES ASSUME NEW m \in 1..(n - 1) PROVE Same(m)
      OBVIOUS
    <3>1. m \in DOMAIN s \cup DOMAIN t /\ m \notin Differ
      <4>1. n \in Nat /\ (n <= Len(s) \/ n <= Len(t))
        BY <1>1, <2>1, <2>2
      <4>2. m \in Nat /\ 1 <= m /\ m < n
        BY <4>1
      <4>3. m \notin Differ
        <5> HIDE DEF Differ
        <5> QED BY <2>2, <4>1, <4>2
      <4> HIDE DEF Differ
      <4> QED BY <1>1, <4>1, <4>2, <4>3
    <3> QED BY <3>1
  <2>4. ~Same(n) /\ n \in Nat
    BY <2>1, <2>2
  <2> HIDE DEF Differ
  <2>5. CASE n \in DOMAIN s
    <3>1. PICK k \in DOMAIN t : t[k] = s[n]
      BY <1>2, <2>5
    <3>2. ~ (k < n)
      <4> SUFFICES ASSUME k < n PROVE FALSE
        OBVIOUS
      <4>1. k \in 1..(n - 1)
        BY <1>1, <2>4, <3>1
      <4>2. s[k] = s[n] /\ k \in DOMAIN s
        BY <2>3, <3>1, <4>1
      <4> QED BY <1>1, <2>5, <4>2 DEF Increasing
    <3>3. n \in DOMAIN t /\ n < k
      BY <1>1, <2>4, <2>5, <3>1, <3>2
    <3>4. t[n] < s[n]
      BY <3>1, <3>3 DEF Increasing
    <3>5. PICK l \in DOMAIN s : s[l] = t[n]
      BY <1>2, <3>3
    <3>6. l < n
      <4>1. ~ (n < l) /\ l # n
        BY <1>1, <2>5, <3>3, <3>4, <3>5 DEF Increasing
      <4> QED BY <1>1, <2>4, <4>1
    <3>7. t[l] = t[n] /\ l \in DOMAIN t
      <4>1. l \in 1..(n - 1)
        BY <1>1, <2>4, <3>5, <3>6
      <4> QED BY <2>3, <3>5, <4>1
    <3> QED BY <1>1, <3>3, <3>6, <3>7 DEF Increasing
  <2>6. CASE n \in DOMAIN t /\ n \notin DOMAIN s
    <3>1. PICK k \in DOMAIN s : s[k] = t[n]
      BY <1>2, <2>6
    <3>2. k < n
      BY <1>1, <2>6, <3>1
    <3>3. t[k] = t[n] /\ k \in DOMAIN t
      <4>1. k \in 1..(n - 1)
        BY <1>1, <2>4, <3>1, <3>2
      <4> QED BY <2>3, <3>1, <4>1
    <3> QED BY <1>1, <2>6, <3>2, <3>3 DEF Increasing
  <2> QED BY <2>2, <2>5, <2>6 DEF Differ
<1>4. DOMAIN s = DOMAIN t /\ \A i \in DOMAIN s : s[i] = t[i]
  BY <1>3
<1>5. Len(s) = Len(t)
  <2>1. \A m, n \in Nat : 1..m = 1..n => ~ (m < n)
    <3> SUFFICES ASSUME NEW m \in Nat, NEW n \in Nat, 1..m = 1..n, m < n PROVE FALSE
      OBVIOUS
    <3>1. m + 1 \in 1..n /\ m + 1 \notin 1..m
      OBVIOUS
    <3> QED BY <3>1
  <2>2. 1..Len(s) = 1..Len(t) /\ Len(s) \in Nat /\ Len(t) \in Nat
    BY <1>1, <1>4
  <2>3. ~ (Len(s) < Len(t)) /\ ~ (Len(t) < Len(s))
    BY <2>1, <2>2
  <2> QED BY <2>2, <2>3
<1> QED BY <1>1, <1>4, <1>5, SeqEqual

-----------------------------------------------------------------------------
(* An argument put between others *)

\* An argument is a value if the one before it takes one and is none itself.
LEMMA TakenIff ==
  ASSUME NEW args \in Seq(Tokens), NEW specs
  PROVE  /\ TakenAsValue(args, specs) \subseteq 1..Len(args)
         /\ \A i \in 1..Len(args) :
              i \in TakenAsValue(args, specs) <=>
                i > 1 /\ i - 1 \notin TakenAsValue(args, specs) /\ TakesNext(args[i - 1], specs)
<1> DEFINE L == Len(args)
           Body(f) == [i \in 0..L |-> i > 1 /\ ~f[i - 1] /\ TakesNext(args[i - 1], specs)]
           taken == CHOOSE f : f = Body(f)
           step == [n \in 1..L |-> [b \in BOOLEAN |-> n > 1 /\ ~b /\ TakesNext(args[n - 1], specs)]]
<1>1. L \in Nat
  BY LenProperties
<1> HIDE DEF L
<1>2. step \in [1..L -> [BOOLEAN -> BOOLEAN]]
  OBVIOUS
<1>3. PICK f \in [0..L -> BOOLEAN] : f[0] = FALSE /\ \A n \in 1..L : f[n] = step[n][f[n - 1]]
  <2>1. \E f \in [0..L -> BOOLEAN] : GoesBy(f, FALSE, step, L)
    <3> HIDE DEF step
    <3> QED BY <1>1, <1>2, StepByStep
  <2> QED BY <2>1 DEF GoesBy
<1>4. f = Body(f)
  <2>1. ASSUME NEW n \in 0..L PROVE f[n] = Body(f)[n]
    <3>1. CASE n = 0
      BY <1>3, <3>1
    <3>2. CASE n # 0
      <4>1. n \in 1..L /\ n - 1 \in 0..L
        BY <1>1, <3>2
      <4>2. f[n - 1] \in BOOLEAN
        BY <4>1
      <4>3. step[n][f[n - 1]] = (n > 1 /\ ~f[n - 1] /\ TakesNext(args[n - 1], specs))
        BY <4>1, <4>2
      <4> HIDE DEF step
      <4> QED BY <1>3, <4>1, <4>3
    <3> QED BY <3>1, <3>2
  <2> HIDE DEF step
  <2> QED BY <2>1
<1>5. taken = Body(taken)
  <2> HIDE DEF Body
  <2> QED BY <1>4
<1>6. TakenAsValue(args, specs) = {i \in 1..L : taken[i]}
  BY Zenon DEF TakenAsValue, L
<1> HIDE DEF taken
<1>7. ASSUME NEW i \in 1..L
      PROVE  taken[i] = (i > 1 /\ ~taken[i - 1] /\ TakesNext(args[i - 1], specs))
  <2>1. i \in 0..L
    BY <1>1
  <2>2. taken[i] = Body(taken)[i]
    BY <1>5, Zenon
  <2> QED BY <2>1, <2>2
<1>8. ASSUME NEW i \in 1..L
      PROVE  i \in TakenAsValue(args, specs) <=>
               i > 1 /\ i - 1 \notin TakenAsValue(args, specs) /\ TakesNext(args[i - 1], specs)
  <2>1. i > 1 => i - 1 \in 1..L
    BY <1>1
  <2> QED BY <1>6, <1>7, <2>1
<1> QED BY <1>6, <1>8 DEF L

\* Where an argument stands after one was put behind the j-th.
Past(j, i) == IF i <= j THEN i ELSE i + 1

\* u is args with t behind the j-th.
IsWith(u, args, j, t) ==
  /\ u \in Seq(Tokens) /\ args \in Seq(Tokens) /\ Len(u) = Len(args) + 1
  /\ j \in 0..Len(args) /\ u[j + 1] = t
  /\ \A i \in 1..Len(args) : u[Past(j, i)] = args[i]

\* Every place of the longer list is the new one or that of an old argument,
\* and these keep their order.
LEMMA PastOrThere ==
  ASSUME NEW n \in Nat, NEW j \in 0..n
  PROVE  /\ \A i \in 1..n : Past(j, i) \in 1..(n + 1) /\ Past(j, i) # j + 1
         /\ \A k \in 1..(n + 1) : k = j + 1 \/ \E i \in 1..n : k = Past(j, i)
         /\ \A i, k \in 1..n : i <= k <=> Past(j, i) <= Past(j, k)
<1>1. ASSUME NEW k \in 1..(n + 1), k # j + 1
      PROVE  \E i \in 1..n : k = Past(j, i)
  <2>1. CASE k <= j
    <3>1. k \in 1..n /\ k = Past(j, k)
      BY <2>1 DEF Past
    <3> QED BY <3>1
  <2>2. CASE ~ (k <= j)
    <3>1. k - 1 \in 1..n /\ k = Past(j, k - 1)
      BY <1>1, <2>2 DEF Past
    <3> QED BY <3>1
  <2> QED BY <2>1, <2>2
<1> QED BY <1>1 DEF Past

\* InsertedAfter puts an argument behind another.
LEMMA InsertedIsWith ==
  ASSUME NEW args \in Seq(Tokens), NEW j \in 0..Len(args), NEW t \in Tokens
  PROVE  IsWith(InsertedAfter(args, j, t), args, j, t)
<1> DEFINE n == Len(args)
           front == SubSeq(args, 1, j)
           back == SubSeq(args, j + 1, n)
<1>1. n \in Nat
  BY LenProperties
<1>2. front \in Seq(Tokens) /\ Len(front) = j /\ \A i \in 1..j : front[i] = args[i]
  BY <1>1
<1>3. back \in Seq(Tokens) /\ Len(back) = n - j /\ \A i \in 1..(n - j) : back[i] = args[j + i]
  BY <1>1
<1> HIDE DEF front, back, n
<1>4. <<t>> \in Seq(Tokens) /\ Len(<<t>>) = 1 /\ <<t>>[1] = t
  OBVIOUS
<1> DEFINE one == <<t>>
           u == front \o one \o back
<1>5. one \in Seq(Tokens) /\ Len(one) = 1 /\ one[1] = t
  BY <1>4
<1> HIDE DEF one
<1>6. /\ front \o one \in Seq(Tokens) /\ Len(front \o one) = j + 1 /\ (front \o one)[j + 1] = t
      /\ \A i \in 1..j : (front \o one)[i] = args[i]
  <2>1. /\ front \o one \in Seq(Tokens) /\ Len(front \o one) = Len(front) + Len(one)
        /\ \A i \in 1..(Len(front) + Len(one)) :
             (front \o one)[i] = IF i <= Len(front) THEN front[i] ELSE one[i - Len(front)]
    BY <1>2, <1>5, ConcatProperties
  <2>2. j \in Nat /\ j + 1 \in 1..(j + 1) /\ ~ (j + 1 <= j) /\ j + 1 - j = 1
    BY <1>1 DEF n
  <2>3. (front \o one)[j + 1] = t
    BY <1>2, <1>5, <2>1, <2>2
  <2>4. \A i \in 1..j : i \in 1..(j + 1) /\ i <= j
    BY <2>2
  <2> QED BY <1>2, <1>5, <2>1, <2>2, <2>3, <2>4
<1>7. /\ u \in Seq(Tokens) /\ Len(u) = n + 1 /\ u[j + 1] = t
      /\ \A i \in 1..j : u[i] = args[i]
      /\ \A i \in 1..(n - j) : u[j + 1 + i] = args[j + i]
  <2> DEFINE most == front \o one
  <2>1. j \in Nat /\ j <= n
    BY <1>1 DEF n
  <2>2. most \in Seq(Tokens) /\ Len(most) = j + 1 /\ most[j + 1] = t /\ \A i \in 1..j : most[i] = args[i]
    BY <1>6
  <2> HIDE DEF most
  <2>3. /\ most \o back \in Seq(Tokens) /\ Len(most \o back) = Len(most) + Len(back)
        /\ \A i \in 1..(Len(most) + Len(back)) :
             (most \o back)[i] = IF i <= Len(most) THEN most[i] ELSE back[i - Len(most)]
    BY <1>3, <2>2, ConcatProperties
  <2>4. Len(most) + Len(back) = n + 1
    BY <1>1, <1>3, <2>1, <2>2
  <2>5. (most \o back)[j + 1] = t
    <3>1. j + 1 \in 1..(n + 1) /\ j + 1 <= j + 1
      BY <1>1, <2>1
    <3> QED BY <2>2, <2>3, <2>4, <3>1
  <2>6. \A i \in 1..j : (most \o back)[i] = args[i]
    <3>1. \A i \in 1..j : i \in 1..(n + 1) /\ i <= j + 1
      BY <1>1, <2>1
    <3> QED BY <2>2, <2>3, <2>4, <3>1
  <2>7. \A i \in 1..(n - j) : (most \o back)[j + 1 + i] = args[j + i]
    <3>1. \A i \in 1..(n - j) :
            j + 1 + i \in 1..(n + 1) /\ ~ (j + 1 + i <= j + 1) /\ j + 1 + i - (j + 1) = i
      BY <1>1, <2>1
    <3> QED BY <1>3, <2>2, <2>3, <2>4, <3>1
  <2>8. u = most \o back
    BY DEF most
  <2> QED BY <2>3, <2>4, <2>5, <2>6, <2>7, <2>8
<1>8. ASSUME NEW i \in 1..n PROVE u[Past(j, i)] = args[i]
  <2> HIDE DEF u
  <2>1. CASE i <= j
    BY <1>7, <2>1 DEF Past
  <2>2. CASE ~ (i <= j)
    <3>1. i - j \in 1..(n - j) /\ j + 1 + (i - j) = i + 1 /\ j + (i - j) = i
      BY <1>1, <2>2
    <3> QED BY <1>7, <2>2, <3>1 DEF Past
  <2> QED BY <2>1, <2>2
<1> HIDE DEF u
<1> QED BY <1>7, <1>8 DEF IsWith, InsertedAfter, u, front, back, one, n

\* Behind the j-th argument another is not taken for its value.
IsGap(args, specs, j) ==
  j = 0 \/ j \in TakenAsValue(args, specs) \/ ~TakesNext(args[j], specs)

\* A flag without a value put into a gap is taken for no value, and what was
\* taken for one still is, and nothing else.
LEMMA TakenInserted ==
  ASSUME NEW u, NEW args, NEW j, NEW t, NEW specs, IsWith(u, args, j, t),
         ~TakesNext(t, specs), IsGap(args, specs, j)
  PROVE  /\ j + 1 \notin TakenAsValue(u, specs)
         /\ \A i \in 1..Len(args) : Past(j, i) \in TakenAsValue(u, specs) <=> i \in TakenAsValue(args, specs)
<1> DEFINE n == Len(args)
           old == TakenAsValue(args, specs)
           new == TakenAsValue(u, specs)
           Kept1(i) == i > 0 => (Past(j, i) \in new <=> i \in old)
<1>1. /\ n \in Nat /\ j \in 0..n /\ Len(u) = n + 1
      /\ u[j + 1] = t /\ \A i \in 1..n : u[Past(j, i)] = args[i]
  BY LenProperties DEF IsWith
<1>2. \A i \in 1..n : i \in old <=> i > 1 /\ i - 1 \notin old /\ TakesNext(args[i - 1], specs)
  BY TakenIff DEF IsWith
<1>3. \A i \in 1..(n + 1) : i \in new <=> i > 1 /\ i - 1 \notin new /\ TakesNext(u[i - 1], specs)
  BY <1>1, TakenIff DEF IsWith
<1>4. j = 0 \/ j \in old \/ ~TakesNext(args[j], specs)
  BY DEF IsGap
<1> HIDE DEF n, old, new
<1> DEFINE T == {i \in 0..n : Kept1(i)}
<1>5. 0 \in T
  BY <1>1
<1>6. ASSUME NEW i \in 0..n, i # n, i \in T
      PROVE  i + 1 \in T
  <2>1. i + 1 \in 1..n /\ i + 1 > 0 /\ (i + 1) - 1 = i /\ Kept1(i)
    BY <1>1, <1>6
  <2>2. CASE i + 1 <= j
    <3>1. Past(j, i + 1) = i + 1 /\ (i > 0 => Past(j, i) = i /\ i \in 1..n) /\ i + 1 \in 1..(n + 1)
      BY <1>1, <2>1, <2>2 DEF Past
    <3>2. i > 0 => u[i] = args[i]
      BY <1>1, <3>1
    <3>3. i + 1 \in new <=> i + 1 \in old
      BY <1>2, <1>3, <2>1, <3>1, <3>2
    <3> QED BY <2>1, <3>1, <3>3
  <2>3. CASE i = j
    <3>1. Past(j, i + 1) = i + 2 /\ i + 2 \in 1..(n + 1) /\ (i + 2) - 1 = j + 1
      BY <1>1, <2>1, <2>3 DEF Past
    <3>2. i + 2 \notin new
      BY <1>1, <1>3, <3>1
    <3>3. i + 1 \notin old
      BY <1>2, <1>4, <2>1, <2>3
    <3> QED BY <2>1, <3>1, <3>2, <3>3
  <2>4. CASE i > j
    <3>1. /\ Past(j, i + 1) = i + 2 /\ i + 2 \in 1..(n + 1) /\ (i + 2) - 1 = i + 1 /\ i + 2 > 1
          /\ Past(j, i) = i + 1 /\ i \in 1..n /\ i > 0 /\ i + 1 > 1
      BY <1>1, <2>1, <2>4 DEF Past
    <3>2. u[i + 1] = args[i]
      BY <1>1, <3>1
    <3>3. i + 2 \in new <=> i + 1 \in old
      BY <1>2, <1>3, <2>1, <3>1, <3>2
    <3> QED BY <2>1, <3>1, <3>3
  <2> QED BY <1>1, <2>1, <2>2, <2>3, <2>4
<1>7. 0..n \subseteq T
  <2> HIDE DEF T
  <2> QED BY <1>1, <1>5, <1>6, UpFromZero
<1>8. \A i \in 1..n : Past(j, i) \in new <=> i \in old
  <2> SUFFICES ASSUME NEW i \in 1..n PROVE Past(j, i) \in new <=> i \in old
    OBVIOUS
  <2>1. i \in 0..n /\ i > 0
    BY <1>1
  <2> QED BY <1>7, <2>1
<1>9. j + 1 \notin new
  <2>1. j + 1 \in 1..(n + 1) /\ (j + 1) - 1 = j
    BY <1>1
  <2>2. CASE j = 0
    BY <1>3, <2>1, <2>2
  <2>3. CASE j # 0
    <3>1. j \in 1..n /\ Past(j, j) = j
      BY <1>1, <2>3 DEF Past
    <3>2. u[j] = args[j] /\ (j \in new <=> j \in old)
      BY <1>1, <1>8, <3>1
    <3> QED BY <1>3, <1>4, <2>1, <2>3, <3>2
  <2> QED BY <2>2, <2>3
<1> QED BY <1>8, <1>9 DEF n, old, new

\* The flags are those there were and the one put in.
LEMMA FlagsInserted ==
  ASSUME NEW u, NEW args, NEW j, NEW t, NEW specs, IsWith(u, args, j, t),
         IsKnownFlag(t, specs), ~TakesNext(t, specs), IsGap(args, specs, j)
  PROVE  /\ j + 1 \in Flags(u, specs) /\ j + 1 \in Supplied(u, specs)
         /\ \A i \in 1..Len(args) :
              /\ Past(j, i) \in Flags(u, specs) <=> i \in Flags(args, specs)
              /\ Past(j, i) \in Supplied(u, specs) <=> i \in Supplied(args, specs)
              /\ i \in Supplied(args, specs) =>
                   FlagValue(u, specs, Past(j, i)) = FlagValue(args, specs, i)
<1>1. /\ Len(args) \in Nat /\ j \in 0..Len(args) /\ Len(u) = Len(args) + 1
      /\ u[j + 1] = t /\ \A i \in 1..Len(args) : u[Past(j, i)] = args[i]
  BY LenProperties DEF IsWith
<1>2. /\ j + 1 \notin TakenAsValue(u, specs)
      /\ \A i \in 1..Len(args) : Past(j, i) \in TakenAsValue(u, specs) <=> i \in TakenAsValue(args, specs)
  BY TakenInserted
<1>3. \A i \in 1..Len(args) : Past(j, i) \in 1..Len(u)
  BY <1>1, PastOrThere
<1>4. j + 1 \in Flags(u, specs) /\ j + 1 \in Supplied(u, specs)
  BY <1>1, <1>2 DEF Flags, Supplied
<1>5. ASSUME NEW i \in 1..Len(args)
      PROVE  Past(j, i) \in Flags(u, specs) <=> i \in Flags(args, specs)
  BY <1>1, <1>2, <1>3 DEF Flags
<1>6. ASSUME NEW i \in 1..Len(args), i \in Flags(args, specs), TakesNext(args[i], specs)
      PROVE  i # j
  BY <1>6, <1>1 DEF IsGap, Flags
<1>7. ASSUME NEW i \in 1..Len(args), i \in Flags(args, specs), TakesNext(args[i], specs)
      PROVE  /\ Past(j, i) < Len(u) <=> i < Len(args)
             /\ i < Len(args) => Past(j, i) + 1 = Past(j, i + 1) /\ i + 1 \in 1..Len(args)
  <2>1. i # j
    BY <1>6, <1>7
  <2> QED BY <1>1, <2>1 DEF Past
<1>8. ASSUME NEW i \in 1..Len(args)
      PROVE  Past(j, i) \in Supplied(u, specs) <=> i \in Supplied(args, specs)
  <2>1. u[Past(j, i)] = args[i]
    BY <1>1
  <2> QED BY <1>5, <1>7, <2>1 DEF Supplied
<1>9. ASSUME NEW i \in 1..Len(args), i \in Supplied(args, specs)
      PROVE  FlagValue(u, specs, Past(j, i)) = FlagValue(args, specs, i)
  <2>1. u[Past(j, i)] = args[i]
    BY <1>1
  <2>2. TakesNext(args[i], specs) => u[Past(j, i) + 1] = args[i + 1]
    BY <1>1, <1>7, <1>9 DEF Supplied
  <2> QED BY <2>1, <2>2 DEF FlagValue
<1> QED BY <1>4, <1>5, <1>8, <1>9

\* What the flag put in says of itself.
OwnValue(t) == IF t.text # None THEN t.text ELSE "true"

\* A scan finds the flags it found and the one put in, and leaves what it left.
LEMMA ScanInserted ==
  ASSUME NEW u, NEW args, NEW j, NEW t, NEW specs, IsWith(u, args, j, t),
         IsKnownFlag(t, specs), ~TakesNext(t, specs), IsGap(args, specs, j)
  PROVE  LET old == ScanFlags(args, specs)
             new == ScanFlags(u, specs)
         IN /\ new.missing = old.missing
            /\ new.rest = old.rest
            /\ DOMAIN new.values = DOMAIN old.values \cup {t.flag}
            /\ \A name \in DOMAIN old.values \ {t.flag} : new.values[name] = old.values[name]
            /\ \/ new.values[t.flag] = OwnValue(t)
               \/ t.flag \in DOMAIN old.values /\ new.values[t.flag] = old.values[t.flag]
<1> DEFINE old == ScanFlags(args, specs)
           new == ScanFlags(u, specs)
           n == Len(args)
           lost(v) == Flags(v, specs) # Supplied(v, specs)
<1>1. /\ n \in Nat /\ j \in 0..n /\ Len(u) = n + 1 /\ u \in Seq(Tokens) /\ args \in Seq(Tokens)
      /\ u[j + 1] = t /\ \A i \in 1..n : u[Past(j, i)] = args[i]
  BY LenProperties DEF IsWith
<1>2. /\ j + 1 \in Flags(u, specs) /\ j + 1 \in Supplied(u, specs)
      /\ \A i \in 1..n :
           /\ Past(j, i) \in Flags(u, specs) <=> i \in Flags(args, specs)
           /\ Past(j, i) \in Supplied(u, specs) <=> i \in Supplied(args, specs)
           /\ i \in Supplied(args, specs) => FlagValue(u, specs, Past(j, i)) = FlagValue(args, specs, i)
  BY FlagsInserted
<1>3. /\ \A i \in 1..n : Past(j, i) \in 1..(n + 1) /\ Past(j, i) # j + 1
      /\ \A k \in 1..(n + 1) : k = j + 1 \/ \E i \in 1..n : k = Past(j, i)
      /\ \A i, k \in 1..n : i <= k <=> Past(j, i) <= Past(j, k)
  BY <1>1, PastOrThere
<1>4. /\ Flags(args, specs) \subseteq 1..n /\ Supplied(args, specs) \subseteq Flags(args, specs)
      /\ Flags(u, specs) \subseteq 1..(n + 1) /\ Supplied(u, specs) \subseteq Flags(u, specs)
  BY <1>1 DEF Flags, Supplied
<1>5. /\ old.missing = lost(args) /\ new.missing = lost(u)
      /\ DOMAIN old.values = {args[i].flag : i \in Supplied(args, specs)}
      /\ DOMAIN new.values = {u[i].flag : i \in Supplied(u, specs)}
  BY DEF ScanFlags, Supplied
<1>13. ASSUME NEW name, name \in DOMAIN old.values
       PROVE  \E i \in Supplied(args, specs) :
                /\ args[i].flag = name /\ \A m \in Supplied(args, specs) : args[m].flag = name => m <= i
                /\ old.values[name] = FlagValue(args, specs, i)
  <2>1. name \in {args[i].flag : i \in Supplied(args, specs)}
    BY <1>5, <1>13, Zenon
  <2> QED BY <1>1, <2>1, LastOfName
<1>14. ASSUME NEW name, name \in DOMAIN new.values
       PROVE  \E i \in Supplied(u, specs) :
                /\ u[i].flag = name /\ \A m \in Supplied(u, specs) : u[m].flag = name => m <= i
                /\ new.values[name] = FlagValue(u, specs, i)
  <2>1. name \in {u[i].flag : i \in Supplied(u, specs)}
    BY <1>5, <1>14, Zenon
  <2> QED BY <1>1, <2>1, LastOfName
<1> HIDE DEF old, new, n
<1>6. new.missing = old.missing
  <2>1. Flags(u, specs) \subseteq Supplied(u, specs) <=> Flags(args, specs) \subseteq Supplied(args, specs)
    <3>1. ASSUME Flags(u, specs) \subseteq Supplied(u, specs)
          PROVE  Flags(args, specs) \subseteq Supplied(args, specs)
      BY <1>2, <1>4, <3>1
    <3>2. ASSUME Flags(args, specs) \subseteq Supplied(args, specs), NEW k \in Flags(u, specs)
          PROVE  k \in Supplied(u, specs)
      BY <1>2, <1>3, <1>4, <3>2
    <3> QED BY <3>1, <3>2
  <2>2. Flags(u, specs) = Supplied(u, specs) <=> Flags(args, specs) = Supplied(args, specs)
    BY <1>4, <2>1
  <2>3. lost(u) = lost(args)
    BY <2>2
  <2> HIDE DEF lost
  <2> QED BY <1>5, <2>3, Zenon
<1>7. DOMAIN new.values = DOMAIN old.values \cup {t.flag}
  <2>1. ASSUME NEW k \in Supplied(u, specs)
        PROVE  u[k].flag \in {args[i].flag : i \in Supplied(args, specs)} \cup {t.flag}
    BY <1>1, <1>2, <1>3, <1>4
  <2>2. ASSUME NEW i \in Supplied(args, specs)
        PROVE  \E k \in Supplied(u, specs) : u[k].flag = args[i].flag
    BY <1>1, <1>2, <1>4
  <2> QED BY <1>1, <1>2, <1>5, <2>1, <2>2
<1>8. ASSUME NEW name \in DOMAIN new.values
      PROVE  \/ name = t.flag /\ new.values[name] = OwnValue(t)
             \/ name \in DOMAIN old.values /\ new.values[name] = old.values[name]
  <2>1. PICK k \in Supplied(u, specs) :
          /\ u[k].flag = name /\ \A l \in Supplied(u, specs) : u[l].flag = name => l <= k
          /\ new.values[name] = FlagValue(u, specs, k)
    BY <1>8, <1>14
  <2>2. CASE k = j + 1
    <3>1. FlagValue(u, specs, k) = OwnValue(t)
      BY <1>1, <2>2 DEF FlagValue, OwnValue
    <3> QED BY <1>1, <2>1, <2>2, <3>1
  <2>3. CASE k # j + 1
    <3>1. PICK i \in 1..n : k = Past(j, i)
      BY <1>3, <1>4, <2>3
    <3>2. i \in Supplied(args, specs) /\ args[i].flag = name
      BY <1>1, <1>2, <2>1, <3>1
    <3>3. name \in {args[m].flag : m \in Supplied(args, specs)}
      BY <3>2
    <3>4. PICK m \in Supplied(args, specs) :
            /\ args[m].flag = name /\ \A l \in Supplied(args, specs) : args[l].flag = name => l <= m
            /\ old.values[name] = FlagValue(args, specs, m)
      BY <1>5, <1>13, <3>3
    <3>5. m \in 1..n /\ Past(j, m) \in Supplied(u, specs) /\ u[Past(j, m)].flag = name
      BY <1>1, <1>2, <1>4, <3>4
    <3>6. i <= m /\ m <= i
      BY <1>3, <2>1, <3>1, <3>2, <3>4, <3>5
    <3>7. i = m
      BY <1>1, <3>5, <3>6
    <3> QED BY <1>2, <1>5, <2>1, <3>1, <3>2, <3>3, <3>4, <3>7
  <2> QED BY <2>2, <2>3
<1>9. new.rest = old.rest
  <2> DEFINE was == RestAt(args, specs)
             is == RestAt(u, specs)
             moved == [k \in DOMAIN was |-> Past(j, was[k])]
  <2>1. /\ was \in Seq(1..n) /\ Range(was) = Kept(args, specs) /\ Increasing(was)
        /\ old.rest = [k \in DOMAIN was |-> args[was[k]]]
    BY <1>1, RestInOrder DEF old, n
  <2>2. /\ is \in Seq(1..(n + 1)) /\ Range(is) = Kept(u, specs) /\ Increasing(is)
        /\ new.rest = [k \in DOMAIN is |-> u[is[k]]]
    BY <1>1, RestInOrder DEF new
  <2> HIDE DEF was, is
  <2>3. /\ DOMAIN was = 1..Len(was) /\ Len(was) \in Nat /\ \A k \in DOMAIN was : was[k] \in 1..n
    BY <2>1, LenProperties, ElementOfSeq
  <2>4. is \in Seq(Nat)
    <3>1. \A k \in DOMAIN is : is[k] \in Nat
      <4>1. \A k \in 1..(n + 1) : k \in Nat
        BY <1>1
      <4> QED BY <2>2, <4>1, LenProperties, ElementOfSeq
    <3>2. is = [k \in 1..Len(is) |-> is[k]] /\ DOMAIN is = 1..Len(is) /\ Len(is) \in Nat
      BY <2>2, LenProperties
    <3> QED BY <3>1, <3>2, IsASeq
  <2>5. moved \in Seq(Nat)
    <3>1. \A k \in 1..Len(was) : Past(j, was[k]) \in Nat
      BY <1>3, <2>3
    <3> QED BY <2>3, <3>1, IsASeq
  <2>6. Increasing(moved)
    <3> SUFFICES ASSUME NEW a \in DOMAIN was, NEW b \in DOMAIN was, a < b
                 PROVE  Past(j, was[a]) < Past(j, was[b])
      BY DEF Increasing
    <3>1. was[a] < was[b] /\ was[a] \in 1..n /\ was[b] \in 1..n
      BY <2>1, <2>3 DEF Increasing
    <3> QED BY <1>1, <3>1 DEF Past
  <2>7. /\ j + 1 \notin TakenAsValue(u, specs)
        /\ \A i \in 1..n : Past(j, i) \in TakenAsValue(u, specs) <=> i \in TakenAsValue(args, specs)
    BY TakenInserted DEF n
  <2>8. Range(moved) = Kept(u, specs)
    <3>1. ASSUME NEW i \in 1..n
          PROVE  i \in Kept(args, specs) <=> Past(j, i) \in Kept(u, specs)
      BY <1>1, <1>2, <1>3, <2>7 DEF Kept, n
    <3>2. Kept(args, specs) \subseteq 1..n /\ Kept(u, specs) \subseteq 1..(n + 1) /\ j + 1 \notin Kept(u, specs)
      BY <1>1, <1>2 DEF Kept, n
    <3>3. ASSUME NEW k \in DOMAIN was PROVE Past(j, was[k]) \in Kept(u, specs)
      <4>1. was[k] \in Kept(args, specs)
        BY <2>1 DEF Range
      <4> QED BY <3>1, <3>2, <4>1
    <3>4. ASSUME NEW k \in Kept(u, specs) PROVE \E m \in DOMAIN was : k = Past(j, was[m])
      <4>1. PICK i \in 1..n : k = Past(j, i)
        BY <1>3, <3>2
      <4>2. i \in Range(was)
        BY <2>1, <3>1, <4>1
      <4>3. PICK m \in DOMAIN was : was[m] = i
        BY <4>2 DEF Range
      <4> QED BY <4>1, <4>3
    <3> QED BY <3>3, <3>4 DEF Range
  <2>9. is = moved
    <3> HIDE DEF moved
    <3> QED BY <2>2, <2>4, <2>5, <2>6, <2>8, IncreasingIsUnique
  <2>10. \A k \in DOMAIN was : u[Past(j, was[k])] = args[was[k]]
    BY <1>1, <2>3
  <2> QED BY <2>1, <2>2, <2>9, <2>10
<1>10. /\ t.flag \in DOMAIN new.values
       /\ \A name \in DOMAIN old.values : name \in DOMAIN new.values
  BY <1>7
<1>11. \A name \in DOMAIN old.values \ {t.flag} : new.values[name] = old.values[name]
  BY <1>8, <1>10
<1>12. \/ new.values[t.flag] = OwnValue(t)
       \/ t.flag \in DOMAIN old.values /\ new.values[t.flag] = old.values[t.flag]
  BY <1>8, <1>10, Zenon
<1> QED BY <1>6, <1>7, <1>9, <1>11, <1>12 DEF old, new

-----------------------------------------------------------------------------
(* Arguments added and moved *)

\* The gaps are what they are taken for.
LEMMA GapsAreGaps ==
  ASSUME NEW args, NEW specs, NEW j \in Gaps(args, specs)
  PROVE  j \in 0..Len(args) /\ IsGap(args, specs, j)
BY DEF Gaps, IsGap

\* What is parsed is what is scanned.
LEMMA ParsedIsScanned ==
  ASSUME NEW args \in Seq(Tokens), ParseArgs(args).kind \in {"help", "version"}
  PROVE  LET scan == ScanFlags(args, GlobalFlags)
             cmd == ParseRemaining(scan.rest)
         IN /\ ~scan.missing
            /\ "remote" \in DOMAIN scan.values => scan.values["remote"] \in DOMAIN ParseBool
            /\ cmd.kind = ParseArgs(args).kind /\ cmd.topic = ParseArgs(args).topic
<1> DEFINE scan == ScanFlags(args, GlobalFlags)
           cmd == ParseRemaining(scan.rest)
<1>1. UsageError.kind = "usage"
  BY DEF UsageError, Command
<1>2. IsCommand(cmd)
  BY ScanType, RemainingType
<1>3. /\ ~scan.missing
      /\ "remote" \in DOMAIN scan.values => scan.values["remote"] \in DOMAIN ParseBool
      /\ \E remote, flags : ParseArgs(args) = [cmd EXCEPT !.remote = remote, !.flags = flags]
  BY <1>1, Zenon DEF ParseArgs
<1>4. PICK remote, flags : ParseArgs(args) = [cmd EXCEPT !.remote = remote, !.flags = flags]
  BY <1>3
<1>5. cmd.kind = ParseArgs(args).kind /\ cmd.topic = ParseArgs(args).topic
  <2> HIDE DEF cmd
  <2> QED BY <1>2, <1>4, CommandFields DEF IsCommand
<1> QED BY <1>3, <1>5

\* A global flag that needs no value, put where it is none, leaves help and the
\* version as they were.
LEMMA HelpWithFlag ==
  ASSUME NEW args \in Seq(Tokens), ParseArgs(args).kind \in {"help", "version"},
         NEW t \in Tokens, NEW j \in Gaps(args, GlobalFlags),
         IsKnownFlag(t, GlobalFlags), ~TakesNext(t, GlobalFlags),
         t.flag = "remote" /\ t.text # None => t.text \in DOMAIN ParseBool
  PROVE  LET with == ParseArgs(InsertedAfter(args, j, t))
         IN with.kind = ParseArgs(args).kind /\ with.topic = ParseArgs(args).topic
<1> DEFINE u == InsertedAfter(args, j, t)
           old == ScanFlags(args, GlobalFlags)
           new == ScanFlags(u, GlobalFlags)
           cmd == ParseRemaining(old.rest)
<1>1. IsWith(u, args, j, t) /\ IsGap(args, GlobalFlags, j)
  BY GapsAreGaps, InsertedIsWith
<1> HIDE DEF u
<1>2. /\ new.missing = old.missing /\ new.rest = old.rest
      /\ DOMAIN new.values = DOMAIN old.values \cup {t.flag}
      /\ \A name \in DOMAIN old.values \ {t.flag} : new.values[name] = old.values[name]
      /\ \/ new.values[t.flag] = OwnValue(t)
         \/ t.flag \in DOMAIN old.values /\ new.values[t.flag] = old.values[t.flag]
  BY <1>1, ScanInserted
<1>3. /\ ~old.missing
      /\ "remote" \in DOMAIN old.values => old.values["remote"] \in DOMAIN ParseBool
      /\ cmd.kind = ParseArgs(args).kind /\ cmd.topic = ParseArgs(args).topic
  BY ParsedIsScanned
<1>4. IsCommand(cmd) /\ cmd.kind \in {"help", "version"}
  BY <1>3, ScanType, RemainingType
<1> DEFINE asked == "remote" \in DOMAIN new.values
           remote == asked /\ ParseBool[new.values["remote"]]
<1> HIDE DEF old, new, cmd
<1>5. asked => new.values["remote"] \in DOMAIN ParseBool
  <2>1. (OwnValue(t) = t.text /\ t.text # None) \/ OwnValue(t) = "true"
    BY DEF OwnValue
  <2>2. "true" \in DOMAIN ParseBool
    BY CommandLineAssumption
  <2> QED BY <1>2, <1>3, <2>1, <2>2
<1>6. ~RefusedRemote(cmd) /\ cmd # UsageError
  BY <1>4 DEF RefusedRemote, Subcommands, UsageError, Command
<1>7. ParseArgs(u) = [cmd EXCEPT !.remote = remote, !.flags = new.values]
  <2>1. new.missing = FALSE \/ ~new.missing
    BY <1>2, <1>3
  <2>2. cmd = ParseRemaining(new.rest)
    BY <1>2 DEF cmd
  <2>3. ~(new.missing \/ (asked /\ new.values["remote"] \notin DOMAIN ParseBool))
    BY <1>2, <1>3, <1>5, Zenon
  <2> QED BY <1>6, <2>2, <2>3, Zenon DEF ParseArgs, new
<1> HIDE DEF remote
<1>8. ParseArgs(u).kind = cmd.kind /\ ParseArgs(u).topic = cmd.topic
  BY <1>4, <1>7, CommandFields DEF IsCommand
<1> QED BY <1>3, <1>8 DEF u

\* An argument list is what is left without one of them, with that put back.
LEMMA WithoutIsWith ==
  ASSUME NEW args \in Seq(Tokens), NEW i \in DOMAIN args
  PROVE  IsWith(args, Without(args, i), i - 1, args[i])
<1> DEFINE n == Len(args)
           front == SubSeq(args, 1, i - 1)
           back == SubSeq(args, i + 1, n)
           base == front \o back
<1>1. n \in Nat /\ i \in 1..n /\ DOMAIN args = 1..n
  BY LenProperties
<1>2. front \in Seq(Tokens) /\ Len(front) = i - 1 /\ \A k \in 1..(i - 1) : front[k] = args[k]
  BY <1>1
<1>3. back \in Seq(Tokens) /\ Len(back) = n - i /\ \A k \in 1..(n - i) : back[k] = args[i + k]
  BY <1>1
<1> HIDE DEF front, back
<1>4. /\ base \in Seq(Tokens) /\ Len(base) = Len(front) + Len(back)
      /\ \A k \in 1..(Len(front) + Len(back)) :
           base[k] = IF k <= Len(front) THEN front[k] ELSE back[k - Len(front)]
  BY <1>2, <1>3, ConcatProperties
<1>5. Len(front) + Len(back) = n - 1 /\ n - 1 \in Nat
  BY <1>1, <1>2, <1>3
<1> HIDE DEF base, n
<1>6. ASSUME NEW k \in 1..(n - 1) PROVE args[Past(i - 1, k)] = base[k]
  <2>1. CASE k <= i - 1
    <3>1. k \in 1..(i - 1)
      BY <1>1, <2>1
    <3> QED BY <1>2, <1>4, <1>5, <2>1, <3>1 DEF Past
  <2>2. CASE ~ (k <= i - 1)
    <3>1. k - (i - 1) \in 1..(n - i) /\ i + (k - (i - 1)) = k + 1
      BY <1>1, <2>2
    <3>2. base[k] = back[k - (i - 1)]
      BY <1>2, <1>4, <1>5, <2>2
    <3> QED BY <1>3, <2>2, <3>1, <3>2 DEF Past
  <2> QED BY <2>1, <2>2
<1>7. i - 1 \in 0..(n - 1) /\ (i - 1) + 1 = i /\ n = (n - 1) + 1
  BY <1>1
<1>8. Len(base) = n - 1
  BY <1>4, <1>5
<1>9. base = Without(args, i)
  BY DEF base, front, back, n, Without
<1> QED BY <1>4, <1>6, <1>7, <1>8, <1>9 DEF IsWith, n

\* Where an argument stood that was no value is a place for one that is none.
LEMMA GapLeft ==
  ASSUME NEW args \in Seq(Tokens), NEW specs, NEW i \in DOMAIN args,
         i \notin TakenAsValue(args, specs)
  PROVE  IsGap(Without(args, i), specs, i - 1)
<1> DEFINE base == Without(args, i)
           n == Len(args)
           old == TakenAsValue(args, specs)
           new == TakenAsValue(base, specs)
<1>1. n \in Nat /\ i \in 1..n
  BY LenProperties
<1>2. IsWith(args, base, i - 1, args[i])
  BY WithoutIsWith
<1> HIDE DEF base
<1>3. base \in Seq(Tokens) /\ Len(base) = n - 1 /\ \A k \in 1..(i - 1) : base[k] = args[k]
  <2>1. /\ base \in Seq(Tokens) /\ n = Len(base) + 1 /\ Len(base) \in Nat
        /\ \A k \in 1..Len(base) : args[Past(i - 1, k)] = base[k]
    BY <1>2, LenProperties DEF IsWith
  <2>2. \A k \in 1..(i - 1) : k \in 1..Len(base) /\ Past(i - 1, k) = k
    BY <1>1, <2>1 DEF Past
  <2>3. Len(base) = n - 1
    BY <1>1, <2>1
  <2> QED BY <2>1, <2>2, <2>3
<1>4. \A k \in 1..n : k \in old <=> k > 1 /\ k - 1 \notin old /\ TakesNext(args[k - 1], specs)
  BY TakenIff
<1>5. \A k \in 1..(n - 1) : k \in new <=> k > 1 /\ k - 1 \notin new /\ TakesNext(base[k - 1], specs)
  BY <1>3, TakenIff
<1> HIDE DEF n, old, new
<1> DEFINE T == {k \in 0..(i - 1) : k > 0 => (k \in new <=> k \in old)}
<1>6. 0 \in T
  BY <1>1
<1>7. ASSUME NEW k \in 0..(i - 1), k # i - 1, k \in T
      PROVE  k + 1 \in T
  <2>1. /\ k + 1 \in 1..n /\ k + 1 \in 1..(n - 1) /\ (k + 1) - 1 = k /\ k + 1 \in 0..(i - 1)
        /\ k + 1 > 1 => k > 0 /\ k \in 1..(i - 1)
    BY <1>1, <1>7
  <2>2. k + 1 \in new <=> k + 1 \in old
    BY <1>3, <1>4, <1>5, <1>7, <2>1
  <2> QED BY <2>1, <2>2
<1>8. 0..(i - 1) \subseteq T
  <2>1. i - 1 \in Nat
    BY <1>1
  <2> HIDE DEF T
  <2> QED BY <1>6, <1>7, <2>1, UpFromZero
<1>9. CASE i - 1 = 0
  BY <1>9 DEF IsGap
<1>10. CASE i - 1 # 0
  <2>1. i > 1 /\ i - 1 \in 0..(i - 1) /\ i - 1 > 0 /\ i - 1 \in 1..(i - 1)
    BY <1>1, <1>10
  <2>2. i - 1 \in old \/ ~TakesNext(args[i - 1], specs)
    BY <1>1, <1>4, <2>1 DEF old
  <2>3. i - 1 \in new \/ ~TakesNext(base[i - 1], specs)
    BY <1>3, <1>8, <2>1, <2>2
  <2> QED BY <2>3 DEF IsGap, new, base
<1> QED BY <1>9, <1>10 DEF base

\* A scan is its three fields, its values a function.
LEMMA ScanIsRecord ==
  ASSUME NEW args, NEW specs
  PROVE  LET scan == ScanFlags(args, specs)
         IN /\ scan = [missing |-> scan.missing, values |-> scan.values, rest |-> scan.rest]
            /\ scan.values = [name \in DOMAIN scan.values |-> scan.values[name]]
BY DEF ScanFlags

\* A flag put back anywhere else, if it is the only one of its name, is scanned
\* as before; and the arguments are the same ones.
LEMMA MovedScan ==
  ASSUME NEW args \in Seq(Tokens), NEW specs, NEW moved \in Moves(args, specs)
  PROVE  /\ ScanFlags(moved, specs) = ScanFlags(args, specs)
         /\ moved \in Seq(Tokens)
         /\ (\E k \in DOMAIN moved : IsHelp(moved[k])) <=> (\E k \in DOMAIN args : IsHelp(args[k]))
<1>0. PICK i \in Flags(args, specs) :
        /\ ~TakesNext(args[i], specs)
        /\ \A k \in Flags(args, specs) : args[k].flag = args[i].flag => k = i
        /\ \E j \in Gaps(Without(args, i), specs) : moved = InsertedAfter(Without(args, i), j, args[i])
  BY DEF Moves
<1>1. PICK j \in Gaps(Without(args, i), specs) : moved = InsertedAfter(Without(args, i), j, args[i])
  BY <1>0
<1> DEFINE base == Without(args, i)
           t == args[i]
           was == ScanFlags(args, specs)
           is == ScanFlags(moved, specs)
           left == ScanFlags(base, specs)
<1>2. DOMAIN args = 1..Len(args) /\ i \in DOMAIN args /\ Len(args) \in Nat
  BY LenProperties DEF Flags
<1>3. t \in Tokens /\ IsKnownFlag(t, specs) /\ ~TakesNext(t, specs) /\ i \notin TakenAsValue(args, specs)
  BY <1>0, <1>2, ElementOfSeq DEF Flags
<1>4. IsWith(args, base, i - 1, t) /\ IsGap(base, specs, i - 1)
  BY <1>2, <1>3, WithoutIsWith, GapLeft
<1>5. base \in Seq(Tokens)
  BY <1>4 DEF IsWith
<1>6. IsWith(moved, base, j, t) /\ IsGap(base, specs, j)
  BY <1>1, <1>3, <1>5, GapsAreGaps, InsertedIsWith
<1> HIDE DEF base
<1>7. t.flag \notin DOMAIN left.values
  <2> SUFFICES ASSUME t.flag \in DOMAIN left.values PROVE FALSE
    OBVIOUS
  <2>1. PICK k \in Supplied(base, specs) : base[k].flag = t.flag
    BY DEF ScanFlags, Supplied
  <2>2. k \in Flags(base, specs) /\ k \in 1..Len(base) /\ Len(base) \in Nat
    BY <1>5, LenProperties DEF Supplied, Flags
  <2>3. Past(i - 1, k) \in Flags(args, specs)
    BY <1>3, <1>4, <2>2, FlagsInserted
  <2>4. args[Past(i - 1, k)].flag = args[i].flag /\ i - 1 \in 0..Len(base)
    BY <1>4, <2>1, <2>2 DEF IsWith
  <2>5. Past(i - 1, k) = i
    BY <1>0, <2>3, <2>4
  <2>6. (i - 1) + 1 = i
    BY <1>2
  <2> QED BY <2>2, <2>4, <2>5, <2>6, PastOrThere
<1>8. /\ was.missing = left.missing /\ was.rest = left.rest
      /\ DOMAIN was.values = DOMAIN left.values \cup {t.flag}
      /\ \A name \in DOMAIN left.values \ {t.flag} : was.values[name] = left.values[name]
      /\ was.values[t.flag] = OwnValue(t)
  BY <1>3, <1>4, <1>7, ScanInserted
<1>9. /\ is.missing = left.missing /\ is.rest = left.rest
      /\ DOMAIN is.values = DOMAIN left.values \cup {t.flag}
      /\ \A name \in DOMAIN left.values \ {t.flag} : is.values[name] = left.values[name]
      /\ is.values[t.flag] = OwnValue(t)
  BY <1>3, <1>6, <1>7, ScanInserted
<1>10. is = was
  <2>1. /\ is = [missing |-> is.missing, values |-> is.values, rest |-> is.rest]
        /\ is.values = [name \in DOMAIN is.values |-> is.values[name]]
        /\ was = [missing |-> was.missing, values |-> was.values, rest |-> was.rest]
        /\ was.values = [name \in DOMAIN was.values |-> was.values[name]]
    BY ScanIsRecord
  <2> HIDE DEF is, was, left, t
  <2>2. is.values = was.values
    <3>1. DOMAIN is.values = DOMAIN was.values
      BY <1>8, <1>9
    <3>2. \A name \in DOMAIN was.values : is.values[name] = was.values[name]
      BY <1>8, <1>9
    <3> QED BY <2>1, <3>1, <3>2
  <2>3. is.missing = was.missing /\ is.rest = was.rest
    BY <1>8, <1>9
  <2> QED BY <2>1, <2>2, <2>3, Zenon
<1>11. ASSUME NEW v, NEW at, IsWith(v, base, at, t)
       PROVE  (\E k \in DOMAIN v : IsHelp(v[k])) <=>
                (IsHelp(t) \/ \E k \in DOMAIN base : IsHelp(base[k]))
  <2>1. /\ DOMAIN base = 1..Len(base) /\ Len(base) \in Nat /\ at \in 0..Len(base)
        /\ DOMAIN v = 1..(Len(base) + 1) /\ v[at + 1] = t
        /\ \A k \in 1..Len(base) : v[Past(at, k)] = base[k]
    BY <1>11, LenProperties DEF IsWith
  <2>2. /\ \A k \in 1..Len(base) : Past(at, k) \in 1..(Len(base) + 1)
        /\ \A k \in 1..(Len(base) + 1) : k = at + 1 \/ \E m \in 1..Len(base) : k = Past(at, m)
    BY <2>1, PastOrThere
  <2>3. at + 1 \in DOMAIN v
    BY <2>1
  <2> HIDE DEF t
  <2>4. ASSUME NEW k \in DOMAIN v, IsHelp(v[k])
        PROVE  IsHelp(t) \/ \E m \in DOMAIN base : IsHelp(base[m])
    BY <2>1, <2>2, <2>4
  <2>5. ASSUME NEW m \in DOMAIN base, IsHelp(base[m])
        PROVE  \E k \in DOMAIN v : IsHelp(v[k])
    BY <2>1, <2>2, <2>5
  <2> QED BY <2>1, <2>3, <2>4, <2>5
<1>12. moved \in Seq(Tokens)
  BY <1>6 DEF IsWith
<1> QED BY <1>4, <1>6, <1>10, <1>11, <1>12

-----------------------------------------------------------------------------
(* The invariant *)

\* One phase follows another with the command it belongs to; only a phase that
\* reads has read, and only one that writes is about to write.
InOrder ==
  /\ phase \notin {"replace", "exited"} => read = None /\ ~wrote
  /\ phase \in Kinds => phase = command.kind
  /\ phase = "editing" => command.kind = "editor"
  /\ phase = "replace" =>
       /\ command.kind = "format" /\ read # None /\ read.parses /\ ~command.check /\ ~wrote
       /\ file # read => others > 0
  /\ wrote => phase = "exited" /\ exit \in {0, 3} /\ command.kind = "format"
              /\ read # None /\ read.parses /\ ~command.check

\* A format that was asked to check only was understood.
Understood == command.kind = "format" /\ AsksForCheck => command.check

\* What was found is what there is to find in what was read.
Found ==
  findings = IF command.kind = "validate" /\ read # None
               THEN IF read.decodes THEN Validate(read.rules) ELSE {}
               ELSE {}

\* An exit code has its reason.
ExitHasReason ==
  phase = "exited" =>
    /\ command.kind = "validate" /\ read # None /\ read.decodes =>
         exit = IF HasError(findings) THEN 1 ELSE 0
    /\ command.kind = "format" /\ exit = 0 => wrote \/ read.tidy
    /\ exit = 4 => command.kind = "format" /\ others > 0
    /\ exit = 130 => signalled

IInv == TypeOK /\ InOrder /\ Understood /\ Found /\ ExitHasReason

\* A run begins with nothing read, found or written.
LEMMA InitInv == Init => IInv
<1> SUFFICES ASSUME Init PROVE IInv
  OBVIOUS
<1>1. UsageError.kind = "usage" /\ IsCommand(UsageError)
  BY UsageErrorType DEF UsageError, Command
<1>2. argv \in Argvs /\ env \in Environments /\ (file # None => IsContent(file))
  <2>1. PICK start \in Starts, e \in Environments : argv = start[1] /\ file = start[2] /\ env = e
    BY DEF Init
  <2>2. start[1] \in Argvs /\ start[2] \in Contents \cup {None}
    BY CommandLineAssumption
  <2> QED BY <2>1, <2>2, CommandLineAssumption
<1>3. TypeOK
  <2>1. 0 \in 0..MaxOthers
    BY CommandLineAssumption
  <2> QED BY <1>1, <1>2, <2>1 DEF Init, TypeOK, Phases
<1> QED BY <1>1, <1>3
        DEF Init, IInv, InOrder, Understood, Found, ExitHasReason, Kinds, Subcommands

\* A policy file, formatted or not, is one.
LEMMA TidyContent ==
  ASSUME NEW c, IsContent(c), NEW tidy \in BOOLEAN
  PROVE  IsContent([c EXCEPT !.tidy = tidy])
<1>1. c = [parses |-> c.parses, decodes |-> c.decodes, supported |-> c.supported,
           tidy |-> c.tidy, rules |-> c.rules]
  BY DEF IsContent
<1>2. [c EXCEPT !.tidy = tidy] =
        [parses |-> c.parses, decodes |-> c.decodes, supported |-> c.supported,
         tidy |-> tidy, rules |-> c.rules]
  BY <1>1
<1>3. /\ c.parses \in BOOLEAN /\ c.decodes \in BOOLEAN /\ c.supported \in BOOLEAN
      /\ c.decodes => c.parses
      /\ c.rules \in Seq({c.rules[i] : i \in DOMAIN c.rules})
      /\ \A i \in DOMAIN c.rules : IsValidRule(c.rules[i])
  BY DEF IsContent
<1> QED BY <1>2, <1>3 DEF IsContent

\* A setting is a text or is not set.
LEMMA SettingType ==
  ASSUME TypeOK, NEW setting
  PROVE  FirstSet(setting) \in Texts \cup {None}
<1>1. \A f \in DOMAIN command.flags : command.flags[f] \in Texts
  BY DEF TypeOK, IsCommand
<1>2. \A i \in DOMAIN Tiers : \A s \in DOMAIN env[Tiers[i]] : env[Tiers[i]][s] \in Texts
  BY CommandLineAssumption DEF TypeOK
<1>3. CASE setting \in DOMAIN command.flags
  BY <1>1, <1>3 DEF FirstSet
<1>4. CASE setting \notin DOMAIN command.flags /\ \E i \in DOMAIN Tiers : setting \in DOMAIN env[Tiers[i]]
  <2> DEFINE First(i) == /\ setting \in DOMAIN env[Tiers[i]]
                         /\ \A j \in 1..(i - 1) : setting \notin DOMAIN env[Tiers[j]]
             first == CHOOSE i \in DOMAIN Tiers : First(i)
  <2>1. DOMAIN Tiers = 1..2
    BY DEF Tiers
  <2>2. \E i \in DOMAIN Tiers : First(i)
    <3>1. CASE setting \in DOMAIN env[Tiers[1]]
      BY <2>1, <3>1
    <3>2. CASE setting \notin DOMAIN env[Tiers[1]]
      <4>1. setting \in DOMAIN env[Tiers[2]]
        BY <1>4, <2>1, <3>2
      <4>2. \A j \in 1..(2 - 1) : j = 1
        OBVIOUS
      <4> QED BY <2>1, <3>2, <4>1, <4>2
    <3> QED BY <3>1, <3>2
  <2>3. first \in DOMAIN Tiers /\ First(first)
    <3> HIDE DEF First
    <3> QED BY <2>2
  <2>4. FirstSet(setting) = env[Tiers[first]][setting]
    BY <1>4, Zenon DEF FirstSet
  <2> HIDE DEF first
  <2> QED BY <1>2, <2>3, <2>4
<1>5. CASE setting \notin DOMAIN command.flags /\ ~ \E i \in DOMAIN Tiers : setting \in DOMAIN env[Tiers[i]]
  BY <1>5 DEF FirstSet
<1> QED BY <1>3, <1>4, <1>5

\* Parsing understands a --check, or exits, or goes on to resolve.
LEMMA ParseInv ==
  ASSUME IInv, Parse
  PROVE  IInv'
<1> USE DEF IInv
<1>1. /\ argv' = argv /\ env' = env /\ signalled' = signalled /\ config' = config
      /\ file' = file /\ read' = read /\ findings' = findings /\ wrote' = wrote /\ others' = others
  BY DEF Parse
<1>2. read = None /\ ~wrote /\ exit = None /\ phase = "parse"
  BY DEF Parse, InOrder, TypeOK
<1>3. \/ signalled /\ phase' = "exited" /\ exit' = 130 /\ command' = command
      \/ command' = ParseArgs(argv) /\ phase' = "exited" /\ exit' = 2 /\ command'.kind = "usage"
      \/ /\ command' = ParseArgs(argv) /\ phase' = "exited" /\ exit' = 0
         /\ command'.kind \in {"help", "version"}
      \/ command' = ParseArgs(argv) /\ phase' = "resolve" /\ exit' = exit
  BY DEF Parse, Interrupted, Exit, GoOn
<1>4. argv \in Seq(Tokens)
  BY CommandLineAssumption DEF TypeOK
<1>5. IsCommand(command') /\ command'.kind \in Kinds
  BY <1>3, <1>4, ArgsType DEF TypeOK, IsCommand
<1>6. TypeOK'
  BY <1>1, <1>2, <1>3, <1>5 DEF TypeOK, Phases
<1>7. InOrder'
  BY <1>1, <1>2, <1>3 DEF InOrder, Kinds, Subcommands
<1>8. Understood'
  <2>1. AsksForCheck' = AsksForCheck /\ (AsksForCheck => Asks(argv))
    BY <1>1 DEF AsksForCheck, Asks
  <2> QED BY <1>3, <1>4, <2>1, CheckIsParsed DEF Understood
<1>9. Found'
  BY <1>1, <1>2 DEF Found
<1>10. ExitHasReason'
  BY <1>1, <1>2, <1>3 DEF ExitHasReason
<1> QED BY <1>6, <1>7, <1>8, <1>9, <1>10

\* The steps between the parse and the command's own.
LEMMA PassInv ==
  ASSUME IInv, Resolve \/ Dispatch \/ Edit \/ LeaveEditor
  PROVE  IInv'
<1> USE DEF IInv
<1>1. /\ argv' = argv /\ env' = env /\ signalled' = signalled /\ command' = command
      /\ file' = file /\ read' = read /\ findings' = findings /\ wrote' = wrote /\ others' = others
  BY DEF Resolve, Dispatch, Edit, LeaveEditor
<1>2. read = None /\ ~wrote /\ exit = None /\ command.kind \in Kinds
  BY DEF Resolve, Dispatch, Edit, LeaveEditor, InOrder, TypeOK, IsCommand
<1>3. \/ phase' = "exited" /\ exit' = 2
      \/ signalled /\ phase' = "exited" /\ exit' = 130
      \/ phase' = "exited" /\ exit' \in {0, 3} /\ command.kind = "editor"
      \/ exit' = exit /\ phase' = "dispatch"
      \/ exit' = exit /\ phase' = command.kind
      \/ exit' = exit /\ phase' = "editing" /\ command.kind = "editor"
  <2>1. CASE Resolve
    BY <2>1 DEF Resolve, Exit, GoOn
  <2>2. CASE Dispatch
    BY <2>2 DEF Dispatch, Interrupted, Exit, GoOn
  <2>3. CASE Edit
    BY <2>3 DEF Edit, Exit, GoOn, InOrder, Kinds
  <2>4. CASE LeaveEditor
    BY <2>4 DEF LeaveEditor, Interrupted, Exit, InOrder
  <2> QED BY <2>1, <2>2, <2>3, <2>4
<1>4. config' # <<>> => config' \in [Settings -> Texts \cup {None}]
  <2>1. CASE Resolve
    <3>1. [setting \in Settings |-> FirstSet(setting)] \in [Settings -> Texts \cup {None}]
      BY SettingType
    <3> QED BY <2>1, <3>1 DEF Resolve, TypeOK
  <2>2. CASE ~Resolve
    BY <2>2 DEF Dispatch, Edit, LeaveEditor, TypeOK
  <2> QED BY <2>1, <2>2
<1>5. "exited" \notin Kinds /\ "editing" \notin Kinds /\ "replace" \notin Kinds /\ "dispatch" \notin Kinds
  BY DEF Kinds, Subcommands
<1>6. TypeOK'
  BY <1>1, <1>2, <1>3, <1>4, <1>5 DEF TypeOK, Phases
<1>7. InOrder'
  BY <1>1, <1>2, <1>3, <1>5 DEF InOrder
<1>8. Understood'
  BY <1>1 DEF Understood, AsksForCheck
<1>9. Found'
  BY <1>1 DEF Found
<1>10. ExitHasReason'
  BY <1>1, <1>2, <1>3, <1>5 DEF ExitHasReason
<1> QED BY <1>6, <1>7, <1>8, <1>9, <1>10

\* bpe validate reads, finds and exits in one step.
LEMMA ValidateInv ==
  ASSUME IInv, RunValidate
  PROVE  IInv'
<1> USE DEF IInv
<1>1. /\ argv' = argv /\ env' = env /\ signalled' = signalled /\ command' = command
      /\ config' = config /\ file' = file /\ wrote' = wrote /\ others' = others
  BY DEF RunValidate
<1>2. read = None /\ ~wrote /\ exit = None /\ command.kind = "validate"
  BY DEF RunValidate, InOrder, TypeOK, Kinds, Subcommands
<1>3. phase' = "exited" /\ exit' \in {0, 1, 3}
  BY DEF RunValidate, Exit
<1>4. read' \in {None, file} /\ (read' # None => read' = file /\ ~Unreadable)
  BY DEF RunValidate, ReadPolicy
<1>5. Found'
  BY <1>1, <1>2, <1>4 DEF RunValidate, ReadPolicy, Unreadable, Found
<1>6. ExitHasReason'
  <2>1. ASSUME read' # None, read'.decodes
        PROVE  exit' = IF HasError(findings') THEN 1 ELSE 0
    BY <1>4, <2>1 DEF RunValidate, Exit
  <2> QED BY <1>1, <1>2, <1>3, <2>1 DEF ExitHasReason
<1>7. TypeOK'
  BY <1>1, <1>2, <1>3, <1>4 DEF TypeOK, Phases
<1>8. InOrder'
  BY <1>1, <1>2, <1>3 DEF InOrder, Kinds, Subcommands
<1>9. Understood'
  BY <1>1 DEF Understood, AsksForCheck
<1> QED BY <1>5, <1>6, <1>7, <1>8, <1>9

\* bpe test reads and exits.
LEMMA TestInv ==
  ASSUME IInv, RunTest
  PROVE  IInv'
<1> USE DEF IInv
<1>1. /\ argv' = argv /\ env' = env /\ signalled' = signalled /\ command' = command
      /\ config' = config /\ file' = file /\ wrote' = wrote /\ others' = others
      /\ findings' = findings
  BY DEF RunTest
<1>2. read = None /\ ~wrote /\ exit = None /\ command.kind = "test"
  BY DEF RunTest, InOrder, TypeOK, Kinds, Subcommands
<1>3. phase' = "exited" /\ exit' \in {0, 1, 3}
  BY DEF RunTest, Exit
<1>4. read' \in {None, file}
  BY DEF RunTest, ReadPolicy
<1>5. TypeOK'
  BY <1>1, <1>2, <1>3, <1>4 DEF TypeOK, Phases
<1>6. InOrder'
  BY <1>1, <1>2, <1>3 DEF InOrder, Kinds, Subcommands
<1>7. Understood' /\ Found'
  BY <1>1, <1>2 DEF Understood, AsksForCheck, Found
<1>8. ExitHasReason'
  BY <1>1, <1>2, <1>3 DEF ExitHasReason
<1> QED BY <1>5, <1>6, <1>7, <1>8

\* bpe format reads and exits, or goes on to write.
LEMMA FormatInv ==
  ASSUME IInv, RunFormat
  PROVE  IInv'
<1> USE DEF IInv
<1>1. /\ argv' = argv /\ env' = env /\ signalled' = signalled /\ command' = command
      /\ config' = config /\ file' = file /\ wrote' = wrote /\ others' = others
      /\ findings' = findings
  BY DEF RunFormat
<1>2. read = None /\ ~wrote /\ exit = None /\ command.kind = "format"
  BY DEF RunFormat, InOrder, TypeOK, Kinds, Subcommands
<1>3. read' \in {None, file} /\ (~Unreadable => read' = file /\ file # None)
  BY DEF RunFormat, ReadPolicy, Unreadable
<1>4. \/ phase' = "exited" /\ exit' \in {1, 3}
      \/ phase' = "exited" /\ exit' = 0 /\ ~Unreadable /\ file.tidy
      \/ phase' = "replace" /\ exit' = exit /\ ~Unreadable /\ file.parses /\ ~command.check
  BY DEF RunFormat, Exit, GoOn
<1>5. TypeOK'
  BY <1>1, <1>2, <1>3, <1>4 DEF TypeOK, Phases
<1>6. InOrder'
  BY <1>1, <1>2, <1>3, <1>4 DEF InOrder, Kinds, Subcommands
<1>7. Understood' /\ Found'
  BY <1>1, <1>2 DEF Understood, AsksForCheck, Found
<1>8. ExitHasReason'
  BY <1>1, <1>2, <1>3, <1>4 DEF ExitHasReason
<1> QED BY <1>5, <1>6, <1>7, <1>8

\* The file is replaced, or is not, and the exit code says which.
LEMMA ReplaceInv ==
  ASSUME IInv, Replace
  PROVE  IInv'
<1> USE DEF IInv
<1>1. /\ argv' = argv /\ env' = env /\ signalled' = signalled /\ command' = command
      /\ config' = config /\ read' = read /\ others' = others /\ findings' = findings
  BY DEF Replace
<1>2. /\ command.kind = "format" /\ read # None /\ read.parses /\ ~command.check /\ ~wrote
      /\ (file # read => others > 0) /\ exit = None /\ IsContent(read)
  BY DEF Replace, InOrder, TypeOK
<1>3. PICK result \in ReplaceResults :
        /\ result = "conflict" => file # read
        /\ wrote' = (result \in {"done", "undurable"})
        /\ file' = IF wrote' THEN [read EXCEPT !.tidy = TRUE] ELSE file
        /\ phase' = "exited" /\ exit' = MapFormatWriteError(result)
  BY DEF Replace, Exit
<1>4. \/ exit' = 0 /\ wrote'
      \/ exit' = 4 /\ ~wrote' /\ file # read
      \/ exit' = 3
  BY <1>3 DEF ReplaceResults, MapFormatWriteError
<1>5. file' # None => IsContent(file')
  <2>1. CASE wrote'
    <3>1. IsContent([read EXCEPT !.tidy = TRUE])
      BY <1>2, TidyContent
    <3> QED BY <1>3, <2>1, <3>1
  <2>2. CASE ~wrote'
    BY <1>3, <2>2 DEF TypeOK
  <2> QED BY <2>1, <2>2
<1>6. wrote' \in BOOLEAN
  BY <1>3
<1>7. TypeOK'
  BY <1>1, <1>3, <1>4, <1>5, <1>6 DEF TypeOK, Phases
<1>8. InOrder'
  BY <1>1, <1>2, <1>3, <1>4 DEF InOrder, Kinds, Subcommands
<1>9. Understood' /\ Found'
  BY <1>1 DEF Understood, AsksForCheck, Found
<1>10. ExitHasReason'
  BY <1>1, <1>2, <1>3, <1>4 DEF ExitHasReason
<1> QED BY <1>7, <1>8, <1>9, <1>10

\* A signal and another program change nothing that was understood or found.
LEMMA OutsideInv ==
  ASSUME IInv, Signal \/ OthersWrite
  PROVE  IInv'
<1> USE DEF IInv
<1>1. /\ argv' = argv /\ env' = env /\ command' = command /\ config' = config /\ read' = read
      /\ wrote' = wrote /\ findings' = findings /\ phase' = phase /\ exit' = exit
      /\ phase # "exited"
  BY DEF Signal, OthersWrite, Subcommands
<1>2. /\ signalled' \in BOOLEAN /\ others' \in 0..MaxOthers
      /\ file' # None => IsContent(file')
      /\ file' # file => others' > 0
      /\ others > 0 => others' > 0
  <2>1. CASE Signal
    BY <2>1 DEF Signal, TypeOK
  <2>2. CASE OthersWrite
    <3>1. others' \in 0..MaxOthers /\ others' > 0 /\ signalled' = signalled
      BY <2>2, CommandLineAssumption DEF OthersWrite, TypeOK
    <3>2. file' \in Contents \cup {None}
      BY <2>2, CommandLineAssumption DEF OthersWrite
    <3> QED BY <3>1, <3>2, CommandLineAssumption DEF TypeOK
  <2> QED BY <2>1, <2>2
<1>3. TypeOK'
  BY <1>1, <1>2 DEF TypeOK
<1>4. InOrder'
  BY <1>1, <1>2 DEF InOrder
<1>5. Understood' /\ Found'
  BY <1>1 DEF Understood, AsksForCheck, Found
<1>6. ExitHasReason'
  BY <1>1 DEF ExitHasReason
<1> QED BY <1>3, <1>4, <1>5, <1>6

\* Every step keeps the invariant.
LEMMA NextInv == IInv /\ [Next]_vars => IInv'
<1> SUFFICES ASSUME IInv, [Next]_vars PROVE IInv'
  OBVIOUS
<1>1. CASE UNCHANGED vars
  <2>1. /\ TypeOK' = TypeOK /\ InOrder' = InOrder /\ Understood' = Understood
    BY <1>1 DEF vars, TypeOK, InOrder, Understood, AsksForCheck
  <2>2. Found' = Found /\ ExitHasReason' = ExitHasReason
    BY <1>1 DEF vars, Found, ExitHasReason
  <2> QED BY <2>1, <2>2 DEF IInv
<1> QED BY <1>1, ParseInv, PassInv, ValidateInv, TestInv, FormatInv, ReplaceInv, OutsideInv
        DEF Next, Execute

\* The invariant holds of every state of every run.
THEOREM Inductive == Spec => []IInv
BY InitInv, NextInv, PTL DEF Spec

-----------------------------------------------------------------------------
(* What the runs check *)

\* TypeOK: whatever is typed, a command, a configuration and an exit code of
\* the contract (internal/apperr) come of it.
THEOREM TypeCorrect == Spec => []TypeOK
<1>1. IInv => TypeOK
  BY DEF IInv
<1> QED BY <1>1, Inductive, PTL

\* ExitCodeTellsTheTruth: what the exit code says of the file is so, --check
\* does not write wherever it stands, whatever other programs do to the file
\* and whenever a signal comes.
THEOREM ExitCodesAreTrue == Spec => []ExitCodeTellsTheTruth
<1>1. IInv => ExitCodeTellsTheTruth
  BY DEF IInv, InOrder, Understood, ExitHasReason, ExitCodeTellsTheTruth
<1> QED BY <1>1, Inductive, PTL

\* FindingsIgnoreOrder: nothing of what is found depends on the order in which
\* the rules stand.
THEOREM OrderIsIgnored == Spec => []FindingsIgnoreOrder
<1>1. IInv => FindingsIgnoreOrder
  <2> SUFFICES ASSUME IInv, findings # {},
                      NEW order \in Bijection(DOMAIN read.rules, DOMAIN read.rules)
               PROVE  Validate([i \in DOMAIN read.rules |-> read.rules[order[i]]]) = findings
    BY DEF FindingsIgnoreOrder
  <2>1. read # None /\ findings = Validate(read.rules)
    BY DEF IInv, Found
  <2>2. read.rules \in Seq({read.rules[k] : k \in DOMAIN read.rules})
    BY <2>1 DEF IInv, TypeOK, IsContent
  <2> QED BY <2>1, <2>2, FindingsOfRearranged DEF Rearranged
<1> QED BY <1>1, Inductive, PTL

\* FlagsMayStandAnywhere: a flag that is the only one of its name means the
\* same wherever it stands as a flag.
THEOREM FlagsStandAnywhere == Spec => []FlagsMayStandAnywhere
<1>1. IInv => FlagsMayStandAnywhere
  <2> SUFFICES ASSUME IInv PROVE FlagsMayStandAnywhere
    OBVIOUS
  <2>1. argv \in Seq(Tokens)
    BY CommandLineAssumption DEF IInv, TypeOK
  <2>2. ASSUME NEW moved \in Moves(argv, GlobalFlags)
        PROVE  ParseArgs(moved) = ParseArgs(argv)
    <3>1. ScanFlags(moved, GlobalFlags) = ScanFlags(argv, GlobalFlags)
      BY <2>1, MovedScan
    <3> QED BY <3>1, Zenon DEF ParseArgs
  <2>3. ASSUME NEW rest, rest = ScanFlags(argv, GlobalFlags).rest,
               rest # <<>>, rest[1].flag = None, rest[1].text \in Subcommands,
               NEW moved \in Moves(Tail(rest), SubFlags[rest[1].text])
        PROVE  ParseRemaining(<<rest[1]>> \o moved) = ParseRemaining(rest)
    <3> DEFINE name == rest[1].text
               tail == Tail(rest)
               whole == <<rest[1]>> \o moved
    <3>1. rest \in Seq(Tokens)
      BY <2>1, <2>3, ScanType
    <3>2. tail \in Seq(Tokens) /\ rest[1] \in Tokens
      BY <2>3, <3>1, ArgsTail, LenProperties, ElementOfSeq
    <3> HIDE DEF tail
    <3>3. /\ ScanFlags(moved, SubFlags[name]) = ScanFlags(tail, SubFlags[name])
          /\ moved \in Seq(Tokens)
          /\ (\E k \in DOMAIN moved : IsHelp(moved[k])) <=> (\E k \in DOMAIN tail : IsHelp(tail[k]))
      BY <2>3, <3>2, MovedScan DEF tail
    <3>4. ParseSubcommand(name, moved) = ParseSubcommand(name, tail)
      <4> DEFINE asks(args) == \E k \in DOMAIN args : IsHelp(args[k])
      <4>1. asks(moved) <=> asks(tail)
        BY <3>3
      <4>2. \A args : (\E i \in DOMAIN args : IsHelp(args[i])) <=> asks(args)
        OBVIOUS
      <4> HIDE DEF asks
      <4>3. CASE asks(tail)
        BY <3>3, <4>1, <4>2, <4>3, Zenon DEF ParseSubcommand
      <4>4. CASE ~asks(tail)
        BY <3>3, <4>1, <4>2, <4>4, Zenon DEF ParseSubcommand
      <4> QED BY <4>3, <4>4
    <3>5. whole # <<>> /\ whole[1] = rest[1] /\ Tail(whole) = moved
      <4>1. <<rest[1]>> \in Seq(Tokens)
        BY <3>2
      <4> QED BY <3>3, <4>1
    <3> HIDE DEF whole
    <3>6. ~IsHelp(rest[1]) /\ rest[1] # [flag |-> "version", text |-> None]
      BY <2>3, CommandLineAssumption DEF IsHelp
    <3>7. "help" \notin Subcommands
      BY DEF Subcommands
    <3>8. \A args : args # <<>> /\ args[1] = rest[1] => ParseRemaining(args) = ParseSubcommand(name, Tail(args))
      BY <2>3, <3>6, <3>7 DEF ParseRemaining
    <3> QED BY <2>3, <3>4, <3>5, <3>8 DEF whole, tail
  <2> QED BY <2>2, <2>3 DEF FlagsMayStandAnywhere
<1> QED BY <1>1, Inductive, PTL

\* HelpIsNotBlocked: whatever global flag is added wherever it is one, help and
\* the version are answered, the two that HelpIsNotBlocked names apart.
THEOREM HelpNeverBlocked == Spec => []HelpIsNotBlocked
<1>1. IInv => HelpIsNotBlocked
  <2> SUFFICES ASSUME IInv PROVE HelpIsNotBlocked
    OBVIOUS
  <2>1. argv \in Seq(Tokens)
    BY CommandLineAssumption DEF IInv, TypeOK
  <2> QED BY <2>1, HelpWithFlag DEF HelpIsNotBlocked
<1> QED BY <1>1, Inductive, PTL

\* Of every policy a run of bpe validate reads the broken rules have errors, and
\* no others that OpenBao reads to their end; the run fails exactly if there
\* is an error.
THEOREM ErrorsAreProofHolds == Spec => []ErrorsAreProof
<1>1. IInv => ErrorsAreProof
  <2> SUFFICES ASSUME IInv, Validated
               PROVE  /\ PathsOf(read.rules, Broken(read.rules)) \subseteq ErrorPaths
                      /\ ErrorPaths \subseteq PathsOf(read.rules, Broken(read.rules) \cup NotReadOut(read.rules))
                      /\ exit = IF ErrorPaths = {} THEN 0 ELSE 1
    BY DEF ErrorsAreProof
  <2>1. \A i \in DOMAIN read.rules : IsValidRule(read.rules[i])
    BY DEF IInv, TypeOK, IsContent, Validated
  <2>2. findings = Validate(read.rules) /\ exit = IF HasError(findings) THEN 1 ELSE 0
    BY DEF IInv, Found, ExitHasReason, Validated
  <2>3. ErrorPaths = {f.path : f \in ErrorsIn(findings)}
    BY DEF ErrorPaths, ErrorsIn
  <2>4. HasError(findings) <=> ErrorPaths # {}
    BY DEF HasError, ErrorPaths
  <2> QED BY <2>1, <2>2, <2>3, <2>4, PathsWithErrors
<1> QED BY <1>1, Inductive, PTL

=============================================================================
