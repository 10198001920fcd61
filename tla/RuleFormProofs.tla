--------------------------- MODULE RuleFormProofs ----------------------------
(***************************************************************************)
(* What the rule form keeps and what it writes, for any rules, texts and   *)
(* parameters, whatever keys the user presses and however often.           *)
(***************************************************************************)
EXTENDS RuleForm, SelectionProofs

-----------------------------------------------------------------------------
(* The inductive invariant *)

\* What is typed, and what is listed, belongs to a row the user has entered.
Entered ==
  /\ typing # None => typing \in touched
  /\ params # None => params.attr \in touched

\* A row the user has not entered shows the rule.
Drafts ==
  rule # None /\ form # None =>
    /\ "path" \notin touched => form.path = rule.path
    /\ "capabilities" \notin touched =>
         form.ticked = Range(rule.attrs["capabilities"].value) \cap Known
    /\ \A a \in Optional \ touched : form.opts[a] = Drafted(a)

IInv == TypeOK /\ Entered /\ Drafts

-----------------------------------------------------------------------------
(* Data *)

\* The attributes by name, each with its kind of value.
LEMMA AttrNames ==
  /\ Optional = {"comment", "expiration", "required_parameters",
                 "allowed_parameters", "denied_parameters"}
  /\ Maps = {"allowed_parameters", "denied_parameters"}
  /\ Attrs = Optional \cup {"capabilities"} /\ "capabilities" \notin Optional
  /\ Values("capabilities") = Seq(Known \cup Foreign)
  /\ Values("comment") = Comments \cup {Blank}
  /\ Values("expiration") = Dates \cup {Blank}
  /\ Values("required_parameters") = Seq(Words)
  /\ \A a \in Maps : Values(a) = Seq(Entries)
BY DEF Optional, Texts, Maps, Attrs, Values

\* An attribute that is absent has the empty value of its kind.
LEMMA AbsentType ==
  ASSUME NEW a \in Attrs
  PROVE  /\ Zero(a) \in Values(a)
         /\ IsSlot(Absent(a), a) /\ Absent(a).value = Zero(a)
         /\ ~ Absent(a).present /\ ~ Absent(a).locked
<1>1. <<>> \in Seq(Known \cup Foreign) /\ <<>> \in Seq(Words) /\ <<>> \in Seq(Entries)
  BY EmptySeq
<1>2. Zero(a) \in Values(a)
  BY <1>1 DEF Values, Zero, Attrs, Optional, Texts, Maps
<1> QED
  BY <1>2 DEF IsSlot, Absent

\* An attribute the program has written.
LEMMA GeneratedType ==
  ASSUME NEW a \in Attrs, NEW v \in Values(a)
  PROVE  /\ IsSlot(Generated(v), a) /\ Generated(v).value = v
         /\ Generated(v).present /\ ~ Generated(v).locked
BY DEF IsSlot, Generated

\* The attribute a form is about.
LEMMA SlotType ==
  ASSUME TypeOK, NEW a \in Attrs
  PROVE  IsSlot(Slot(a), a)
<1>1. CASE rule = None
  BY <1>1, AbsentType DEF Slot
<1>2. CASE rule # None
  BY <1>2 DEF Slot, TypeOK, IsRule
<1> QED
  BY <1>1, <1>2

\* A field shows a value of its kind.
LEMMA DraftedType ==
  ASSUME TypeOK, NEW a \in Optional
  PROVE  /\ Drafted(a) = [set |-> Drafted(a).set, value |-> Drafted(a).value]
         /\ Drafted(a).set \in BOOLEAN /\ Drafted(a).value \in Values(a)
<1>1. a \in Attrs /\ IsSlot(Slot(a), a)
  BY SlotType, AttrNames
<1>2. Shown(a, Slot(a).value) \in Values(a)
  <2>1. Slot(a).value \in Values(a)
    BY <1>1 DEF IsSlot
  <2>2. CASE a = "expiration" /\ Slot(a).value # Blank
    <3>1. Slot(a).value \in Dates
      BY <2>1, <2>2, AttrNames
    <3>2. Seconds[Slot(a).value] \in Dates
      BY <3>1, ConstantsAssumption
    <3> QED
      BY <2>2, <3>2, AttrNames DEF Shown
  <2>3. CASE ~ (a = "expiration" /\ Slot(a).value # Blank)
    BY <2>1, <2>3 DEF Shown
  <2> QED
    BY <2>2, <2>3
<1> QED
  BY <1>1, <1>2 DEF Drafted, IsSlot

\* What is split at its commas is a list of words again.
LEMMA SplitType ==
  ASSUME NEW list \in Seq(Words)
  PROVE  Split(list) \in Seq(Words)
<1> DEFINE lists == [i \in DOMAIN list |-> Parts[list[i]]]
<1>1. Len(list) \in Nat /\ DOMAIN list = 1..Len(list) /\ \A i \in 1..Len(list) : list[i] \in Words
  BY LenProperties, ElementOfSeq
<1>3. lists \in Seq(Seq(Words))
  <2>1. lists \in [1..Len(list) -> Seq(Words)]
    BY <1>1, ConstantsAssumption
  <2> QED
    BY <1>1, <2>1, SeqDef
<1> HIDE DEF lists
<1>4. FlattenSeq(lists) \in Seq(Words)
  BY <1>3, FlattenType
<1> QED
  BY <1>4 DEF Split, lists

\* A parameter map decodes to entries, and to all of them where no two have the
\* same name.
LEMMA DecodedEntries ==
  ASSUME NEW entries \in Seq(Entries)
  PROVE  /\ Decoded(entries) \in Seq(Entries)
         /\ Range(Decoded(entries)) \subseteq Range(entries)
         /\ ValidateParams(entries) => Range(Decoded(entries)) = Range(entries)
<1> DEFINE named == [i \in DOMAIN entries |-> entries[i].name]
           set == {entries[i].name : i \in DOMAIN entries}
           names == SetToSeq(set)
           pick(i) == CHOOSE e \in Range(entries) : e.name = names[i]
<1>1. /\ Len(entries) \in Nat /\ DOMAIN entries = 1..Len(entries)
      /\ \A i \in 1..Len(entries) : entries[i] \in Entries
  BY LenProperties, ElementOfSeq
<1>2. named \in Seq(Words) /\ Range(named) = set
  <2>1. named \in [1..Len(entries) -> Words]
    BY <1>1 DEF Entries
  <2>2. Range(named) = set
    BY DEF Range
  <2> QED
    BY <1>1, <2>1, <2>2, SeqDef
<1>3. IsFiniteSet(set)
  <2> HIDE DEF named, set
  <2> QED
    BY <1>2, RangeIsFinite
<1>4. names \in Seq(set) /\ Range(names) = set
  <2> HIDE DEF set
  <2> QED
    BY <1>3, SetAsList
<1>5. Len(names) \in Nat /\ DOMAIN names = 1..Len(names) /\ \A i \in 1..Len(names) : names[i] \in set
  <2> HIDE DEF set, names
  <2> QED
    BY <1>4, LenProperties, ElementOfSeq
<1>6. Decoded(entries) = [i \in 1..Len(names) |-> pick(i)]
  BY <1>5 DEF Decoded
<1>7. Range(entries) \subseteq Entries
  BY RangeOfSeq
<1>8. ASSUME NEW i \in 1..Len(names)
      PROVE  pick(i) \in Range(entries) /\ pick(i).name = names[i]
  <2>1. PICK j \in DOMAIN entries : names[i] = entries[j].name
    BY <1>5
  <2>2. entries[j] \in Range(entries)
    BY DEF Range
  <2>3. \E e \in Range(entries) : e.name = names[i]
    BY <2>1, <2>2
  <2> HIDE DEF names, set
  <2> QED
    BY <2>3
<1> HIDE DEF names, set, pick
<1>9. Decoded(entries) \in [1..Len(names) -> Entries]
  BY <1>6, <1>7, <1>8
<1>10. Decoded(entries) \in Seq(Entries)
  BY <1>5, <1>9, SeqDef
<1>11. Range(Decoded(entries)) = {pick(i) : i \in 1..Len(names)}
  BY <1>6 DEF Range
<1>12. Range(Decoded(entries)) \subseteq Range(entries)
  BY <1>8, <1>11
<1>13. ASSUME ValidateParams(entries), NEW e \in Range(entries)
       PROVE  e \in Range(Decoded(entries))
  <2>1. PICK j \in DOMAIN entries : e = entries[j]
    BY DEF Range
  <2>2. e.name \in Range(names)
    BY <1>4, <2>1 DEF set
  <2>3. PICK i \in 1..Len(names) : e.name = names[i]
    BY <1>5, <2>2 DEF Range
  <2>4. pick(i) \in Range(entries) /\ pick(i).name = e.name
    BY <1>8, <2>3
  <2>5. PICK k \in DOMAIN entries : pick(i) = entries[k]
    BY <2>4 DEF Range
  <2>6. k = j
    BY <1>13, <2>1, <2>4, <2>5 DEF ValidateParams
  <2>7. e = pick(i)
    BY <2>1, <2>5, <2>6
  <2> QED
    BY <1>11, <2>7
<1> QED
  BY <1>10, <1>12, <1>13

-----------------------------------------------------------------------------
(* What a form comes to *)

\* The capabilities a form comes to: those ticked, and the foreign ones of the
\* rule as they were; the very ones of the rule where their boxes are ticked.
LEMMA CapabilitiesOfForm ==
  ASSUME TypeOK, form # None
  PROVE  LET v == Slot("capabilities").value
         IN  /\ CapabilitySet \in Seq(Known \cup Foreign)
             /\ Range(CapabilitySet) \cap Known = form.ticked
             /\ Only(CapabilitySet, Foreign) = Only(v, Foreign)
             /\ form.ticked = Range(v) \cap Known => CapabilitySet = v
<1> DEFINE v == Slot("capabilities").value
           All == Known \cup Foreign
           kept == Only(v, Foreign \cup form.ticked)
           added == form.ticked \ Range(kept)
           more == Only(Capabilities, added)
<1>1. v \in Seq(All) /\ Range(v) \subseteq All
  <2>1. v \in Seq(All)
    BY SlotType, AttrNames DEF IsSlot
  <2> QED
    BY <2>1, RangeOfSeq
<1>2. /\ Capabilities \in Seq(Known) /\ Capabilities \in Seq(All)
      /\ Range(Capabilities) = Known /\ Known \cap Foreign = {}
  <2>1. Capabilities \in Seq(Known) /\ Known \cap Foreign = {}
    BY ConstantsAssumption
  <2>2. Capabilities \in Seq(All)
    BY <2>1, SeqMonotonic
  <2> QED
    BY <2>1, <2>2 DEF Known
<1>3. form.ticked \subseteq Known
  BY DEF TypeOK, IsForm
<1> HIDE DEF v
<1>4. kept \in Seq(All) /\ Range(kept) = Range(v) \cap (Foreign \cup form.ticked)
  BY <1>1, OnlyType, RangeOfOnly
<1>5. more \in Seq(All) /\ Range(more) = Known \cap added
  BY <1>2, OnlyType, RangeOfOnly
<1>6. CapabilitySet = kept \o more
  BY DEF CapabilitySet, v
<1> HIDE DEF kept, more
<1>7. CapabilitySet \in Seq(All) /\ Range(CapabilitySet) = Range(kept) \cup Range(more)
  BY <1>4, <1>5, <1>6, ConcatProperties, RangeConcatenation
<1>8. Range(CapabilitySet) \cap Known = form.ticked
  BY <1>2, <1>3, <1>4, <1>5, <1>7
<1>9. Only(CapabilitySet, Foreign) = Only(v, Foreign)
  <2>1. Only(CapabilitySet, Foreign) = Only(kept, Foreign) \o Only(more, Foreign)
    BY <1>4, <1>5, <1>6, OnlyOfConcat
  <2>2. Only(kept, Foreign) = Only(v, Foreign)
    <3>1. Only(kept, Foreign) = Only(v, (Foreign \cup form.ticked) \cap Foreign)
      BY <1>1, OnlyOfOnly DEF kept
    <3>2. (Foreign \cup form.ticked) \cap Foreign = Foreign
      OBVIOUS
    <3> QED
      BY <3>1, <3>2
  <2>3. Only(more, Foreign) = <<>>
    <3>1. Range(Only(more, Foreign)) = {} /\ Only(more, Foreign) \in Seq(All)
      BY <1>2, <1>5, RangeOfOnly, OnlyType
    <3> QED
      BY <3>1, RangeOfEmpty
  <2>4. Only(v, Foreign) \in Seq(All)
    BY <1>1, OnlyType
  <2>5. Only(v, Foreign) \o <<>> = Only(v, Foreign)
    BY <2>4, ConcatEmptySeq
  <2> QED
    BY <2>1, <2>2, <2>3, <2>5
<1>10. ASSUME form.ticked = Range(v) \cap Known
       PROVE  CapabilitySet = v
  <2>1. kept = v
    <3>1. Range(v) \subseteq Foreign \cup form.ticked
      BY <1>1, <1>10
    <3> QED
      BY <1>1, <3>1, OnlyOfAll DEF kept
  <2>2. more = <<>>
    <3>1. Range(more) = {}
      BY <1>5, <1>10, <2>1
    <3> QED
      BY <1>5, <3>1, RangeOfEmpty
  <2>3. v \o <<>> = v
    BY <1>1, ConcatEmptySeq
  <2> QED
    BY <1>6, <2>1, <2>2, <2>3
<1> QED
  BY <1>7, <1>8, <1>9, <1>10 DEF v

\* The text of a field means a value of its kind.
LEMMA ReadBackType ==
  ASSUME TypeOK, form # None, NEW a \in Optional
  PROVE  /\ form.opts[a].set \in BOOLEAN /\ form.opts[a].value \in Values(a)
         /\ ReadBack(a) \in Values(a)
<1>1. form.opts[a].set \in BOOLEAN /\ form.opts[a].value \in Values(a)
  BY DEF TypeOK, IsForm
<1>2. CASE a = "required_parameters"
  <2>1. form.opts[a].value \in Seq(Words)
    BY <1>1, <1>2, AttrNames
  <2>2. Split(form.opts[a].value) \in Seq(Words)
    BY <2>1, SplitType
  <2> QED
    BY <1>1, <1>2, <2>2, AttrNames DEF ReadBack
<1>3. CASE a # "required_parameters"
  BY <1>1, <1>3 DEF ReadBack
<1> QED
  BY <1>2, <1>3

\* A field that shows a value means that value, unless its text reads back as
\* another one.
LEMMA UnchangedTextIsNoEdit ==
  ASSUME TypeOK, form # None, NEW a \in Optional,
         form.opts[a] = Drafted(a), Survives(a)
  PROVE  ~ TextEdited(a)
<1>1. form.opts[a].set = Slot(a).present /\ form.opts[a].value = Shown(a, Slot(a).value)
  BY DEF Drafted
<1>2. a \in Attrs /\ Slot(a).value \in Values(a)
  BY SlotType, AttrNames DEF IsSlot
<1>3. CASE a = "expiration"
  <2>1. Slot(a).value \in Dates \cup {Blank}
    BY <1>2, <1>3, AttrNames
  <2>2. Shown(a, Slot(a).value) = Slot(a).value
    BY <1>3, <2>1 DEF Shown, Survives
  <2> QED
    BY <1>1, <1>3, <2>2 DEF TextEdited, ReadBack
<1>4. CASE a = "required_parameters"
  BY <1>1, <1>4 DEF TextEdited, ReadBack, Shown, Survives
<1>5. CASE a \notin {"expiration", "required_parameters"}
  BY <1>1, <1>5 DEF TextEdited, ReadBack, Shown
<1> QED
  BY <1>3, <1>4, <1>5

\* What applying a form writes of an attribute: what is unset is absent, what
\* is set is there, in the words of the form.
LEMMA WrittenOptional ==
  ASSUME TypeOK, form # None, Validate, NEW a \in Optional
  PROVE  /\ IsSlot(Written(a), a)
         /\ Written(a).present <=> form.opts[a].set
         /\ ~ form.opts[a].set => Written(a) = Absent(a)
         /\ form.opts[a].set =>
              /\ SameMeaning(a, form.opts[a].value, Written(a).value)
              /\ Written(a).value = Zero(a) <=> ReadBack(a) = Zero(a)
<1>1. a \in Attrs /\ a # "capabilities"
  BY AttrNames
<1>2. /\ form.opts[a].set \in BOOLEAN /\ form.opts[a].value \in Values(a)
      /\ ReadBack(a) \in Values(a)
  BY ReadBackType
<1>3. CASE ~ form.opts[a].set
  <2>1. Written(a) = Absent(a)
    BY <1>1, <1>3 DEF Written
  <2> QED
    BY <1>1, <1>3, <2>1, AbsentType
<1>4. CASE form.opts[a].set /\ a = "expiration"
  <2>1. ReadBack(a) = form.opts[a].value /\ ReadBack(a) \in Dates
    BY <1>4 DEF ReadBack, Validate
  <2>2. Seconds[ReadBack(a)] \in Dates /\ Seconds[ReadBack(a)] # Blank
    BY <2>1, ConstantsAssumption
  <2>3. Written(a) = Generated(Seconds[ReadBack(a)])
    <3>1. a # "capabilities" /\ a \notin Maps /\ ~ (a # "capabilities" /\ ~ form.opts[a].set)
      BY <1>4 DEF Maps
    <3>2. a = "expiration" /\ form.opts[a].set
      BY <1>4
    <3> QED
      BY <3>1, <3>2, Zenon DEF Written
  <2>4. Seconds[ReadBack(a)] \in Values(a)
    BY <1>4, <2>2, AttrNames
  <2>5. IsSlot(Written(a), a) /\ Written(a).value = Seconds[ReadBack(a)] /\ Written(a).present
    BY <1>1, <2>3, <2>4, GeneratedType
  <2>6. SameMeaning(a, form.opts[a].value, Written(a).value)
    BY <1>4, <2>1, <2>5 DEF SameMeaning
  <2>7. Zero(a) = Blank /\ Written(a).value # Zero(a) /\ ReadBack(a) # Zero(a)
    BY <1>4, <2>1, <2>2, <2>5, ConstantsAssumption DEF Zero
  <2> HIDE DEF Written
  <2> QED
    BY <1>4, <2>5, <2>6, <2>7
<1>5. CASE form.opts[a].set /\ a \in Maps
  <2> DEFINE text == form.opts[a].value
  <2>1. /\ text \in Seq(Entries) /\ ReadBack(a) = text /\ ValidateParams(text)
        /\ a \notin {"comment", "expiration", "required_parameters", "capabilities"}
    BY <1>2, <1>5, AttrNames DEF ReadBack, Validate, Maps
  <2>2. Decoded(text) \in Seq(Entries) /\ Range(Decoded(text)) = Range(text)
    BY <2>1, DecodedEntries
  <2>3. Written(a) = Generated(Decoded(text))
    BY <1>5, <2>1 DEF Written
  <2>4. Decoded(text) \in Values(a)
    BY <1>5, <2>2, AttrNames
  <2>5. IsSlot(Written(a), a) /\ Written(a).value = Decoded(text) /\ Written(a).present
    BY <1>1, <2>3, <2>4, GeneratedType
  <2>6. SameMeaning(a, text, Written(a).value)
    BY <2>1, <2>2, <2>5 DEF SameMeaning
  <2>7. Zero(a) = <<>> /\ (Decoded(text) = <<>> <=> text = <<>>)
    BY <2>1, <2>2, RangeOfEmpty DEF Zero
  <2> QED
    BY <1>5, <2>1, <2>5, <2>6, <2>7
<1>6. CASE form.opts[a].set /\ a \in {"comment", "required_parameters"}
  <2>1. Written(a) = Generated(ReadBack(a))
    BY <1>6 DEF Written, Maps
  <2>2. IsSlot(Written(a), a) /\ Written(a).value = ReadBack(a) /\ Written(a).present
    BY <1>1, <1>2, <2>1, GeneratedType
  <2>3. SameMeaning(a, form.opts[a].value, ReadBack(a))
    BY <1>6 DEF SameMeaning, ReadBack
  <2> QED
    BY <1>6, <2>2, <2>3
<1> QED
  BY <1>2, <1>3, <1>4, <1>5, <1>6, AttrNames

\* What it writes of the capabilities.
LEMMA WrittenCapabilities ==
  ASSUME TypeOK, form # None
  PROVE  /\ IsSlot(Written("capabilities"), "capabilities")
         /\ Written("capabilities").value = CapabilitySet
<1>1. Written("capabilities") = Generated(CapabilitySet)
  <2>1. ASSUME NEW a, a = "capabilities", a # "expiration", a \notin Maps
        PROVE  Written(a) = Generated(CapabilitySet)
    BY <2>1, Zenon DEF Written
  <2>2. "capabilities" # "expiration" /\ "capabilities" \notin Maps
    BY AttrNames
  <2> QED
    BY <2>1, <2>2
<1>2. CapabilitySet \in Values("capabilities")
  BY CapabilitiesOfForm, AttrNames
<1> QED
  BY <1>1, <1>2, GeneratedType, AttrNames

\* A rule that is edited is a rule, and one that is added.
LEMMA WrittenRules ==
  ASSUME TypeOK, form # None, Validate
  PROVE  /\ rule # None /\ ~ UnsafeEdit => IsRule(EditRule)
         /\ IsRule(AddRule)
<1>1. ASSUME NEW a \in Attrs PROVE IsSlot(Written(a), a)
  BY WrittenOptional, WrittenCapabilities, AttrNames
<1>2. Trim[form.path] \in Paths
  BY ConstantsAssumption DEF TypeOK, IsForm
<1>3. ASSUME rule # None, ~ UnsafeEdit
      PROVE  IsRule(EditRule)
  <2>1. IsRule(rule)
    BY <1>3 DEF TypeOK
  <2> DEFINE attrs == [a \in Attrs |-> IF a \in Edits THEN Written(a) ELSE rule.attrs[a]]
  <2>2. ASSUME NEW a \in Attrs PROVE IsSlot(attrs[a], a)
    BY <1>1, <2>1 DEF IsRule
  <2>3. rule.pathLocked => Trim[form.path] = Blank
    BY <1>3, <2>1 DEF UnsafeEdit, NewPath, Locked, IsRule
  <2>4. /\ EditRule = [path |-> Trim[form.path], pathLocked |-> rule.pathLocked, attrs |-> attrs]
        /\ DOMAIN attrs = Attrs
    BY DEF EditRule
  <2>5. rule.pathLocked \in BOOLEAN
    BY <2>1 DEF IsRule
  <2> HIDE DEF attrs
  <2> QED
    BY <1>2, <2>2, <2>3, <2>4, <2>5 DEF IsRule
<1>4. IsRule(AddRule)
  <2> DEFINE attrs == [a \in Attrs |-> EncodeRule(a)]
  <2>1. ASSUME NEW a \in Attrs PROVE IsSlot(attrs[a], a)
    BY <1>1, AbsentType DEF EncodeRule
  <2>2. /\ AddRule = [path |-> Trim[form.path], pathLocked |-> FALSE, attrs |-> attrs]
        /\ DOMAIN attrs = Attrs
    BY DEF AddRule
  <2> HIDE DEF attrs
  <2> QED
    BY <1>2, <2>1, <2>2 DEF IsRule
<1> QED
  BY <1>3, <1>4

-----------------------------------------------------------------------------
(* Drafts *)

\* A form, and a list of parameters, are something.
LEMMA DraftsAreSomething ==
  /\ \A f : IsForm(f) => f # None
  /\ \A p : IsParams(p) => p # None
<1> DEFINE Value == Comments \cup Dates \cup {Blank} \cup Seq(Words) \cup Seq(Entries)
<1>1. ASSUME NEW f, IsForm(f) PROVE f # None
  <2>1. \A a \in Optional : f.opts[a].value \in Value
    BY <1>1, AttrNames DEF IsForm
  <2> HIDE DEF Value
  <2>2. \A a \in Optional : [set |-> f.opts[a].set, value |-> f.opts[a].value] \in [set : BOOLEAN, value : Value]
    BY <1>1, <2>1 DEF IsForm
  <2>3. [a \in Optional |-> [set |-> f.opts[a].set, value |-> f.opts[a].value]]
          \in [Optional -> [set : BOOLEAN, value : Value]]
    BY <2>2
  <2>4. f.opts \in [Optional -> [set : BOOLEAN, value : Value]]
    BY <1>1, <2>3 DEF IsForm
  <2>5. [path |-> f.path, ticked |-> f.ticked, opts |-> f.opts, advanced |-> f.advanced]
          \in [path : Paths, ticked : SUBSET Known,
               opts : [Optional -> [set : BOOLEAN, value : Value]], advanced : BOOLEAN]
    BY <1>1, <2>4 DEF IsForm
  <2>6. f = [path |-> f.path, ticked |-> f.ticked, opts |-> f.opts, advanced |-> f.advanced]
    BY <1>1 DEF IsForm
  <2> QED
    BY <2>5, <2>6, NoneIsNothing DEF Value
<1>2. ASSUME NEW p, IsParams(p) PROVE p # None
  <2>1. [attr |-> p.attr, values |-> p.values, editing |-> p.editing]
          \in [attr : Maps, values : Seq(Entries), editing : Nat]
    BY <1>2 DEF IsParams
  <2>2. p = [attr |-> p.attr, values |-> p.values, editing |-> p.editing]
    BY <1>2 DEF IsParams
  <2> QED
    BY <2>1, <2>2, NoneIsNothing
<1> QED
  BY <1>1, <1>2

\* A draft with one row changed.
LEMMA OptChanged ==
  ASSUME NEW f, IsForm(f), NEW a \in Optional, NEW o,
         o = [set |-> o.set, value |-> o.value], o.set \in BOOLEAN, o.value \in Values(a)
  PROVE  LET g == [f EXCEPT !.opts[a] = o]
         IN  /\ IsForm(g) /\ g.path = f.path /\ g.ticked = f.ticked /\ g.opts[a] = o
             /\ \A b \in Optional \ {a} : g.opts[b] = f.opts[b]
<1> DEFINE opts == [f.opts EXCEPT ![a] = o]
           g == [f EXCEPT !.opts[a] = o]
<1>1. f = [path |-> f.path, ticked |-> f.ticked, opts |-> f.opts, advanced |-> f.advanced]
  BY DEF IsForm
<1>2. g = [path |-> f.path, ticked |-> f.ticked, opts |-> opts, advanced |-> f.advanced]
  BY <1>1
<1>3. f.opts = [b \in Optional |-> [set |-> f.opts[b].set, value |-> f.opts[b].value]]
  BY DEF IsForm
<1>4. /\ DOMAIN opts = Optional /\ opts[a] = o
      /\ \A b \in Optional \ {a} : opts[b] = f.opts[b]
  BY <1>3
<1>5. \A b \in Optional : f.opts[b] = [set |-> f.opts[b].set, value |-> f.opts[b].value]
  BY <1>3
<1>6. ASSUME NEW b \in Optional
      PROVE  /\ opts[b] = [set |-> opts[b].set, value |-> opts[b].value]
             /\ opts[b].set \in BOOLEAN /\ opts[b].value \in Values(b)
  <2>1. CASE b = a
    BY <2>1, <1>4
  <2>2. CASE b # a
    <3>1. opts[b] = f.opts[b]
      BY <2>2, <1>4
    <3> QED
      BY <3>1, <1>5 DEF IsForm
  <2> QED
    BY <2>1, <2>2
<1>7. opts = [b \in Optional |-> opts[b]]
  BY <1>4, <1>3
<1> HIDE DEF opts, g
<1>8. opts = [b \in Optional |-> [set |-> opts[b].set, value |-> opts[b].value]]
  BY <1>6, <1>7
<1>9. g.path = f.path /\ g.ticked = f.ticked /\ g.opts = opts /\ g.advanced = f.advanced
  BY <1>2
<1>10. IsForm(g)
  BY <1>2, <1>6, <1>8, <1>9 DEF IsForm
<1> QED
  BY <1>4, <1>9, <1>10 DEF g

\* A draft with another path, other boxes, or more or fewer rows drawn.
LEMMA FormChanged ==
  ASSUME NEW f, IsForm(f)
  PROVE  /\ \A p \in Paths :
              LET g == [f EXCEPT !.path = p]
              IN IsForm(g) /\ g.path = p /\ g.ticked = f.ticked /\ g.opts = f.opts
         /\ \A t \in SUBSET Known :
              LET g == [f EXCEPT !.ticked = t]
              IN IsForm(g) /\ g.path = f.path /\ g.ticked = t /\ g.opts = f.opts
         /\ LET g == [f EXCEPT !.advanced = ~ @]
            IN IsForm(g) /\ g.path = f.path /\ g.ticked = f.ticked /\ g.opts = f.opts
<1>1. f = [path |-> f.path, ticked |-> f.ticked, opts |-> f.opts, advanced |-> f.advanced]
  BY DEF IsForm
<1>2. ASSUME NEW p \in Paths
      PROVE  [f EXCEPT !.path = p]
               = [path |-> p, ticked |-> f.ticked, opts |-> f.opts, advanced |-> f.advanced]
  BY <1>1
<1>3. ASSUME NEW t \in SUBSET Known
      PROVE  [f EXCEPT !.ticked = t]
               = [path |-> f.path, ticked |-> t, opts |-> f.opts, advanced |-> f.advanced]
  BY <1>1
<1>4. [f EXCEPT !.advanced = ~ @]
        = [path |-> f.path, ticked |-> f.ticked, opts |-> f.opts, advanced |-> ~ f.advanced]
  BY <1>1
<1> QED
  BY <1>2, <1>3, <1>4 DEF IsForm

\* The draft a form starts with shows the rule.
LEMMA NewForms ==
  ASSUME TypeOK
  PROVE  /\ rule = None => IsForm(NewAddForm)
         /\ rule # None =>
              /\ IsForm(NewRuleForm) /\ NewRuleForm.path = rule.path
              /\ NewRuleForm.ticked = Range(rule.attrs["capabilities"].value) \cap Known
              /\ \A a \in Optional : NewRuleForm.opts[a] = Drafted(a)
<1> DEFINE opts == [a \in Optional |-> Drafted(a)]
<1>1. opts = [a \in Optional |-> [set |-> opts[a].set, value |-> opts[a].value]]
  BY DraftedType
<1>2. \A a \in Optional : opts[a].set \in BOOLEAN /\ opts[a].value \in Values(a)
  BY DraftedType
<1>3. \A a \in Optional : opts[a] = Drafted(a)
  OBVIOUS
<1>4. /\ NewAddForm = [path |-> Blank, ticked |-> ByDefault, opts |-> opts, advanced |-> FALSE]
      /\ NewRuleForm = [path |-> rule.path,
                        ticked |-> Range(rule.attrs["capabilities"].value) \cap Known,
                        opts |-> opts,
                        advanced |-> \E a \in Optional \ {"comment"} : rule.attrs[a].present]
  BY DEF NewAddForm, NewRuleForm
<1> HIDE DEF opts
<1>5. Blank \in Paths /\ ByDefault \subseteq Known
  BY ConstantsAssumption
<1>6. IsForm(NewAddForm)
  BY <1>1, <1>2, <1>4, <1>5 DEF IsForm
<1>7. ASSUME rule # None
      PROVE  IsForm(NewRuleForm) /\ NewRuleForm.path = rule.path
  <2>1. rule.path \in Paths
    BY <1>7 DEF TypeOK, IsRule
  <2>2. (\E a \in Optional \ {"comment"} : rule.attrs[a].present) \in BOOLEAN
    OBVIOUS
  <2> QED
    BY <1>1, <1>2, <1>4, <2>1, <2>2 DEF IsForm
<1> QED
  BY <1>3, <1>4, <1>6, <1>7

-----------------------------------------------------------------------------
(* The steps keep the invariant *)

\* What the rule says does not change while a form is filled in.
LEMMA SameRule ==
  ASSUME rule' = rule
  PROVE  \A a : Slot(a)' = Slot(a) /\ Drafted(a)' = Drafted(a)
BY DEF Slot, Drafted

\* A key that changes at most a row it marks as entered keeps the other rows.
LEMMA OtherRowsKeep ==
  ASSUME IInv, form # None, rule' = rule, touched \subseteq touched',
         "path" \notin touched' => form'.path = form.path,
         "capabilities" \notin touched' => form'.ticked = form.ticked,
         \A a \in Optional \ touched' : form'.opts[a] = form.opts[a]
  PROVE  Drafts'
<1>1. \A a : Drafted(a)' = Drafted(a)
  BY SameRule
<1> QED
  BY <1>1 DEF IInv, Drafts

\* What holds on each screen.
LEMMA OnScreen ==
  ASSUME IInv
  PROVE  /\ screen = "editor" => form = None /\ params = None /\ typing = None
         /\ screen = "form" => form # None /\ IsForm(form) /\ params = None
         /\ screen = "params" =>
              /\ form # None /\ IsForm(form) /\ typing = None
              /\ params # None /\ IsParams(params) /\ form.opts[params.attr].set
BY DEF IInv, TypeOK

\* The invariant, on the screen of the form.
LEMMA FormScreen ==
  ASSUME IInv, screen = "form", screen' = "form", rule' = rule, applied' = applied,
         params' = params, IsForm(form'), Drafts', touched \subseteq touched',
         touched' \subseteq Attrs \cup {"path"},
         typing' \in Texts \cup {"path", None}, typing' # None => typing' \in touched'
  PROVE  IInv'
<1>1. params' = None /\ form' # None
  BY OnScreen, DraftsAreSomething
<1>2. Entered'
  BY <1>1 DEF Entered
<1>3. TypeOK'
  BY <1>1 DEF IInv, TypeOK
<1> QED
  BY <1>2, <1>3 DEF IInv

\* The invariant, on the screen of the parameters.
LEMMA ParamsScreen ==
  ASSUME IInv, screen = "params", screen' = "params", IsParams(params'), form' = form,
         params'.attr = params.attr, UNCHANGED <<rule, typing, touched, applied>>
  PROVE  IInv'
<1>1. params' # None /\ params # None /\ form.opts[params.attr].set
  BY OnScreen, DraftsAreSomething
<1>2. Entered'
  BY <1>1 DEF IInv, Entered
<1>3. Drafts'
  <2>1. form # None
    BY OnScreen
  <2> QED
    BY <2>1, OtherRowsKeep
<1>4. TypeOK'
  BY <1>1 DEF IInv, TypeOK
<1> QED
  BY <1>2, <1>3, <1>4 DEF IInv

\* A form that is opened.
LEMMA OpenFormKeeps ==
  ASSUME IInv, OpenForm
  PROVE  IInv'
<1>1. /\ screen = "editor" /\ screen' = "form" /\ touched' = {} /\ rule' = rule
      /\ typing' = None /\ params' = None /\ applied' = applied
  BY OnScreen DEF OpenForm
<1>2. /\ IsForm(form')
      /\ rule # None =>
           /\ form'.path = rule.path
           /\ form'.ticked = Range(rule.attrs["capabilities"].value) \cap Known
           /\ \A a \in Optional : form'.opts[a] = Drafted(a)
  <2>1. TypeOK
    BY DEF IInv
  <2>2. form' = IF rule = None THEN NewAddForm ELSE NewRuleForm
    BY DEF OpenForm
  <2> QED
    BY <2>1, <2>2, NewForms
<1>3. form' # None
  BY <1>2, DraftsAreSomething
<1>4. Drafts'
  <2>1. \A a : Drafted(a)' = Drafted(a)
    BY <1>1, SameRule
  <2> QED
    BY <1>1, <1>2, <2>1 DEF Drafts
<1>5. TypeOK'
  BY <1>1, <1>2, <1>3 DEF IInv, TypeOK
<1>6. Entered'
  BY <1>1 DEF Entered
<1> QED
  BY <1>4, <1>5, <1>6 DEF IInv

\* More or fewer rows drawn.
LEMMA ToggleAdvancedKeeps ==
  ASSUME IInv, ToggleAdvanced
  PROVE  IInv'
<1>1. /\ screen = "form" /\ screen' = "form" /\ rule' = rule /\ typing = None /\ typing' = None
      /\ params' = params /\ touched' = touched /\ applied' = applied
      /\ form' = [form EXCEPT !.advanced = ~ @]
  BY DEF ToggleAdvanced
<1>2. form # None /\ IsForm(form)
  BY <1>1, OnScreen
<1>3. IsForm(form') /\ form'.path = form.path /\ form'.ticked = form.ticked /\ form'.opts = form.opts
  BY <1>1, <1>2, FormChanged
<1>4. Drafts'
  BY <1>1, <1>2, <1>3, OtherRowsKeep
<1>5. touched' \subseteq Attrs \cup {"path"}
  BY <1>1 DEF IInv, TypeOK
<1> QED
  BY <1>1, <1>3, <1>4, <1>5, FormScreen

\* A row that is entered.
LEMMA RowEntered ==
  ASSUME IInv, NEW row \in Attrs \cup {"path"}, OnRow(row)
  PROVE  /\ screen = "form" /\ typing = None /\ form # None /\ IsForm(form) /\ params = None
         /\ touched' = touched \cup {row} /\ touched' \subseteq Attrs \cup {"path"}
         /\ ~ Locked(row)
<1>1. screen = "form" /\ typing = None /\ touched' = touched \cup {row} /\ ~ Locked(row)
  BY DEF OnRow
<1>2. touched \subseteq Attrs \cup {"path"}
  BY DEF IInv, TypeOK
<1> QED
  BY <1>1, <1>2, OnScreen

\* A box ticked, or unticked.
LEMMA ToggleCapabilityKeeps ==
  ASSUME IInv, NEW c \in Known, ToggleCapability(c)
  PROVE  IInv'
<1> DEFINE ticked == IF c \in form.ticked THEN form.ticked \ {c} ELSE form.ticked \cup {c}
<1>1. /\ OnRow("capabilities") /\ screen' = screen /\ rule' = rule /\ typing' = typing
      /\ params' = params /\ applied' = applied
      /\ form' = [form EXCEPT !.ticked = ticked]
  BY DEF ToggleCapability
<1>2. /\ screen = "form" /\ typing = None /\ form # None /\ IsForm(form)
      /\ touched' = touched \cup {"capabilities"} /\ touched' \subseteq Attrs \cup {"path"}
  BY <1>1, RowEntered, AttrNames
<1>3. ticked \in SUBSET Known
  BY <1>2 DEF IsForm
<1> HIDE DEF ticked
<1>4. IsForm(form') /\ form'.path = form.path /\ form'.opts = form.opts
  BY <1>1, <1>2, <1>3, FormChanged
<1>5. Drafts'
  BY <1>1, <1>2, <1>4, OtherRowsKeep
<1> QED
  BY <1>1, <1>2, <1>4, <1>5, FormScreen

\* A row entered with the keyboard: its text is typed, or its parameters are
\* listed.
LEMMA ActivateKeeps ==
  ASSUME IInv, NEW row \in Optional \cup {"path"}, Activate(row)
  PROVE  IInv'
<1>1. OnRow(row) /\ rule' = rule /\ applied' = applied
  BY DEF Activate
<1>2. /\ screen = "form" /\ typing = None /\ form # None /\ IsForm(form) /\ params = None
      /\ touched' = touched \cup {row} /\ touched' \subseteq Attrs \cup {"path"}
  BY <1>1, RowEntered, AttrNames
<1>3. /\ IsForm(form') /\ form'.ticked = form.ticked /\ form'.path = form.path
      /\ \A a \in Optional \ {row} : form'.opts[a] = form.opts[a]
      /\ row \in Optional => form'.opts[row].set /\ form'.opts[row].value = form.opts[row].value
  <2>1. CASE row = "path"
    <3>1. form' = form /\ row \notin Optional
      BY <2>1, AttrNames DEF Activate
    <3> QED
      BY <1>2, <3>1
  <2>2. CASE row # "path"
    <3> DEFINE o == [set |-> TRUE, value |-> form.opts[row].value]
    <3>1. row \in Optional
      BY <2>2
    <3>2. form.opts[row] = [set |-> form.opts[row].set, value |-> form.opts[row].value]
      BY <1>2, <3>1 DEF IsForm
    <3>3. form' = [form EXCEPT !.opts[row] = o]
      <4>1. form' = [form EXCEPT !.opts[row].set = TRUE]
        BY <2>2 DEF Activate
      <4>2. [form.opts[row] EXCEPT !.set = TRUE] = o
        <5>1. ASSUME NEW r, NEW s, NEW v, NEW x, r = [set |-> s, value |-> v]
              PROVE  [r EXCEPT !.set = x] = [set |-> x, value |-> v]
          BY <5>1
        <5> QED
          BY <3>2, <5>1, Zenon
      <4>3. [form EXCEPT !.opts[row].set = TRUE]
              = [form EXCEPT !.opts[row] = [form.opts[row] EXCEPT !.set = TRUE]]
        OBVIOUS
      <4> QED
        BY <4>1, <4>2, <4>3
    <3>4. /\ o = [set |-> o.set, value |-> o.value] /\ o.set \in BOOLEAN
          /\ o.value \in Values(row)
      BY <1>2, <3>1 DEF IsForm
    <3>a. o.set /\ o.value = form.opts[row].value
      OBVIOUS
    <3> HIDE DEF o
    <3>5. /\ IsForm(form') /\ form'.path = form.path /\ form'.ticked = form.ticked
          /\ form'.opts[row] = o /\ \A b \in Optional \ {row} : form'.opts[b] = form.opts[b]
      BY <1>2, <3>1, <3>3, <3>4, OptChanged
    <3>6. form'.opts[row].set /\ form'.opts[row].value = form.opts[row].value
      BY <3>5, <3>a, Zenon
    <3> QED
      BY <3>5, <3>6, Zenon
  <2> QED
    BY <2>1, <2>2
<1>4. Drafts'
  BY <1>1, <1>2, <1>3, OtherRowsKeep
<1>5. CASE row \in Maps
  <2> DEFINE p == [attr |-> row, values |-> form.opts[row].value, editing |-> 0]
  <2>1. screen' = "params" /\ typing' = None /\ params' = p
    BY <1>5 DEF Activate
  <2>2. row \in Optional /\ form.opts[row].value \in Seq(Entries)
    <3>1. row \in Optional /\ form.opts[row].value \in Values(row)
      BY <1>2, <1>5, AttrNames DEF IsForm, Optional
    <3> QED
      BY <1>5, <3>1, AttrNames
  <2>3. 0 \in 0..Len(form.opts[row].value)
    BY <2>2, LenProperties
  <2>4. IsParams(params') /\ params'.attr = row
    BY <1>5, <2>1, <2>2, <2>3 DEF IsParams
  <2>5. params' # None /\ form' # None /\ form'.opts[params'.attr].set
    BY <1>3, <2>2, <2>4, DraftsAreSomething
  <2>6. TypeOK'
    BY <1>1, <1>2, <1>3, <2>1, <2>4, <2>5 DEF IInv, TypeOK
  <2>7. Entered'
    BY <1>2, <2>1, <2>4 DEF Entered
  <2> QED
    BY <1>4, <2>6, <2>7 DEF IInv
<1>6. CASE row \notin Maps
  <2>1. typing' = row /\ screen' = screen /\ params' = params
    BY <1>6 DEF Activate
  <2>2. row \in Texts \cup {"path", None}
    BY <1>6 DEF Optional
  <2> QED
    BY <1>1, <1>2, <1>3, <1>4, <2>1, <2>2, FormScreen
<1> QED
  BY <1>5, <1>6

\* An attribute unset.
LEMMA UnsetCurrentKeeps ==
  ASSUME IInv, NEW a \in Optional, UnsetCurrent(a)
  PROVE  IInv'
<1> DEFINE o == [set |-> FALSE, value |-> Zero(a)]
<1>1. /\ OnRow(a) /\ screen' = screen /\ rule' = rule /\ typing' = typing
      /\ params' = params /\ applied' = applied /\ form' = [form EXCEPT !.opts[a] = o]
  BY DEF UnsetCurrent
<1>2. /\ screen = "form" /\ typing = None /\ form # None /\ IsForm(form)
      /\ touched' = touched \cup {a} /\ touched' \subseteq Attrs \cup {"path"}
  BY <1>1, RowEntered, AttrNames
<1>3. o = [set |-> o.set, value |-> o.value] /\ o.set \in BOOLEAN /\ o.value \in Values(a)
  BY AbsentType, AttrNames
<1> HIDE DEF o
<1>4. /\ IsForm(form') /\ form'.path = form.path /\ form'.ticked = form.ticked
      /\ \A b \in Optional \ {a} : form'.opts[b] = form.opts[b]
  BY <1>1, <1>2, <1>3, OptChanged
<1>5. Drafts'
  BY <1>1, <1>2, <1>4, OtherRowsKeep
<1> QED
  BY <1>1, <1>2, <1>4, <1>5, FormScreen

\* What is typed.
LEMMA SyncInputKeeps ==
  ASSUME IInv, SyncInput
  PROVE  IInv'
<1>1. /\ screen = "form" /\ screen' = "form" /\ typing # None /\ typing' = None /\ rule' = rule
      /\ params' = params /\ touched' = touched /\ applied' = applied
  BY DEF SyncInput
<1>2. /\ form # None /\ IsForm(form) /\ typing \in touched /\ typing \in Texts \cup {"path"}
      /\ touched \subseteq Attrs \cup {"path"}
  BY <1>1, OnScreen DEF IInv, Entered, TypeOK
<1>3. /\ IsForm(form')
      /\ "path" \notin touched => form'.path = form.path
      /\ form'.ticked = form.ticked
      /\ \A a \in Optional \ touched : form'.opts[a] = form.opts[a]
  <2>1. CASE form' = form
    BY <1>2, <2>1
  <2>2. CASE typing = "path" /\ \E p \in Paths : form' = [form EXCEPT !.path = p]
    <3>1. PICK p \in Paths : form' = [form EXCEPT !.path = p]
      BY <2>2
    <3>2. /\ IsForm(form') /\ form'.ticked = form.ticked /\ form'.opts = form.opts
      BY <1>2, <3>1, FormChanged
    <3> QED
      BY <1>2, <2>2, <3>2
  <2>3. CASE typing # "path" /\ \E t \in TypedInto(typing) :
                                  form' = [form EXCEPT !.opts[typing].value = t]
    <3>1. PICK t \in TypedInto(typing) : form' = [form EXCEPT !.opts[typing].value = t]
      BY <2>3
    <3> DEFINE o == [set |-> form.opts[typing].set, value |-> t]
    <3>2. typing \in Texts /\ typing \in Optional
      BY <1>2, <2>3 DEF Optional
    <3>3. t \in Values(typing)
      <4>1. CASE typing = "comment"
        BY <3>1, <4>1, AttrNames DEF TypedInto
      <4>2. CASE typing = "expiration"
        BY <3>1, <4>2, AttrNames DEF TypedInto
      <4>3. CASE typing = "required_parameters"
        <5>1. Lists \subseteq Seq(Words)
          BY ConstantsAssumption
        <5> QED
          BY <3>1, <4>3, <5>1, AttrNames DEF TypedInto
      <4> QED
        BY <3>2, <4>1, <4>2, <4>3 DEF Texts
    <3>4. form.opts[typing] = [set |-> form.opts[typing].set, value |-> form.opts[typing].value]
      BY <1>2, <3>2 DEF IsForm
    <3>5. form' = [form EXCEPT !.opts[typing] = o]
      <4>1. [form.opts[typing] EXCEPT !.value = t] = o
        BY <3>4
      <4>2. [form EXCEPT !.opts[typing].value = t]
              = [form EXCEPT !.opts[typing] = [form.opts[typing] EXCEPT !.value = t]]
        OBVIOUS
      <4> QED
        BY <3>1, <4>1, <4>2
    <3>6. /\ o = [set |-> o.set, value |-> o.value] /\ o.set \in BOOLEAN
          /\ o.value \in Values(typing)
      BY <1>2, <3>2, <3>3 DEF IsForm
    <3> HIDE DEF o
    <3>7. /\ IsForm(form') /\ form'.path = form.path /\ form'.ticked = form.ticked
          /\ \A b \in Optional \ {typing} : form'.opts[b] = form.opts[b]
      BY <1>2, <3>2, <3>5, <3>6, OptChanged
    <3> QED
      BY <1>2, <3>7
  <2> QED
    BY <2>1, <2>2, <2>3 DEF SyncInput
<1>4. Drafts'
  BY <1>1, <1>2, <1>3, OtherRowsKeep
<1> QED
  BY <1>1, <1>2, <1>3, <1>4, FormScreen

\* A form that is done with, applied or not.
LEMMA FormClosed ==
  ASSUME IInv, screen = "form", typing = None, CloseForm, screen' \in {"editor", "panicked"},
         rule' = None \/ IsRule(rule'), applied' \in Nat
  PROVE  IInv'
<1>1. params = None
  BY OnScreen
<1>2. form' = None /\ touched' = {} /\ typing' = None /\ params' = None
  BY <1>1 DEF CloseForm
<1>3. TypeOK'
  BY <1>2 DEF TypeOK
<1>4. Entered' /\ Drafts'
  BY <1>2 DEF Entered, Drafts
<1> QED
  BY <1>3, <1>4 DEF IInv

\* A form that is applied, or whose edit cannot be written.
LEMMA ApplyFormKeeps ==
  ASSUME IInv, ApplyForm
  PROVE  IInv'
<1>1. /\ screen = "form" /\ typing = None /\ Validate /\ CloseForm /\ applied' = applied + 1
      /\ screen' \in {"editor", "panicked"}
  BY DEF ApplyForm
<1>2. TypeOK /\ form # None /\ applied' \in Nat
  BY <1>1, OnScreen DEF IInv, TypeOK
<1>3. rule' = None \/ IsRule(rule')
  <2>1. CASE rule' = AddRule
    BY <1>1, <1>2, <2>1, WrittenRules
  <2>2. CASE rule' = rule
    BY <1>2, <2>2 DEF TypeOK
  <2>3. CASE rule # None /\ ~ UnsafeEdit /\ rule' = EditRule
    BY <1>1, <1>2, <2>3, WrittenRules
  <2> QED
    BY <2>1, <2>2, <2>3 DEF ApplyForm
<1> QED
  BY <1>1, <1>2, <1>3, FormClosed

\* A form that is given up.
LEMMA CancelFormKeeps ==
  ASSUME IInv, CancelForm
  PROVE  IInv'
<1>1. /\ screen = "form" /\ typing = None /\ CloseForm /\ screen' = "editor"
      /\ rule' = rule /\ applied' = applied
  BY DEF CancelForm
<1>2. (rule = None \/ IsRule(rule)) /\ applied \in Nat
  BY DEF IInv, TypeOK
<1> QED
  BY <1>1, <1>2, FormClosed

\* A list of parameters with other entries, or another one shown.
LEMMA ParamsChanged ==
  ASSUME NEW p, IsParams(p)
  PROVE  /\ \A v \in Seq(Entries) : \A e \in 0..Len(v) :
              LET q == [p EXCEPT !.values = v, !.editing = e]
              IN IsParams(q) /\ q.attr = p.attr
         /\ \A e \in 0..Len(p.values) :
              LET q == [p EXCEPT !.editing = e]
              IN IsParams(q) /\ q.attr = p.attr
         /\ \A v \in Seq(Entries) : p.editing = 0 =>
              LET q == [p EXCEPT !.values = v]
              IN IsParams(q) /\ q.attr = p.attr
<1>1. p = [attr |-> p.attr, values |-> p.values, editing |-> p.editing]
  BY DEF IsParams
<1>2. ASSUME NEW v, NEW e
      PROVE  [p EXCEPT !.values = v, !.editing = e]
               = [attr |-> p.attr, values |-> v, editing |-> e]
  <2>1. ASSUME NEW r, NEW a, NEW w, NEW n, r = [attr |-> a, values |-> w, editing |-> n]
        PROVE  [r EXCEPT !.values = v] = [attr |-> a, values |-> v, editing |-> n]
    BY <2>1
  <2>2. ASSUME NEW r, NEW a, NEW w, NEW n, r = [attr |-> a, values |-> w, editing |-> n]
        PROVE  [r EXCEPT !.editing = e] = [attr |-> a, values |-> w, editing |-> e]
    BY <2>2
  <2>3. [p EXCEPT !.values = v, !.editing = e] = [[p EXCEPT !.values = v] EXCEPT !.editing = e]
    BY Zenon
  <2>4. [p EXCEPT !.values = v] = [attr |-> p.attr, values |-> v, editing |-> p.editing]
    BY <1>1, <2>1
  <2> QED
    BY <2>2, <2>3, <2>4
<1>3. ASSUME NEW e
      PROVE  [p EXCEPT !.editing = e] = [attr |-> p.attr, values |-> p.values, editing |-> e]
  BY <1>1
<1>4. ASSUME NEW v
      PROVE  [p EXCEPT !.values = v] = [attr |-> p.attr, values |-> v, editing |-> p.editing]
  BY <1>1
<1>5. ASSUME NEW v \in Seq(Entries)
      PROVE  0 \in 0..Len(v)
  BY LenProperties
<1> QED
  BY <1>2, <1>3, <1>4, <1>5 DEF IsParams

\* An entry added.
LEMMA AddEntryKeeps ==
  ASSUME IInv, AddEntry
  PROVE  IInv'
<1> DEFINE entry == [name |-> Blank, values |-> <<>>]
           v == Append(params.values, entry)
           e == Len(params.values) + 1
<1>1. /\ screen = "params" /\ screen' = "params" /\ form' = form
      /\ UNCHANGED <<rule, typing, touched, applied>>
      /\ params' = [params EXCEPT !.values = v, !.editing = e]
  BY DEF AddEntry, Browsing, InParams
<1>2. IsParams(params)
  BY <1>1, OnScreen
<1>3. entry \in Entries
  <2>1. Blank \in Words /\ <<>> \in Seq(Words)
    BY ConstantsAssumption, EmptySeq
  <2> QED
    BY <2>1 DEF Entries
<1> HIDE DEF entry
<1>4. v \in Seq(Entries) /\ e \in 0..Len(v)
  <2>1. params.values \in Seq(Entries)
    BY <1>2 DEF IsParams
  <2>2. v \in Seq(Entries) /\ Len(v) = e /\ Len(params.values) \in Nat
    BY <1>3, <2>1, AppendProperties, LenProperties
  <2> QED
    BY <2>2
<1> HIDE DEF v, e
<1>5. IsParams(params') /\ params'.attr = params.attr
  BY <1>1, <1>2, <1>4, ParamsChanged
<1> QED
  BY <1>1, <1>5, ParamsScreen

\* An entry opened.
LEMMA OpenEntryKeeps ==
  ASSUME IInv, screen = "params", NEW i \in DOMAIN params.values, OpenEntry(i)
  PROVE  IInv'
<1>1. /\ screen' = "params" /\ form' = form
      /\ UNCHANGED <<rule, typing, touched, applied>>
      /\ params' = [params EXCEPT !.editing = i]
  BY DEF OpenEntry, Browsing, InParams
<1>2. IsParams(params)
  BY OnScreen
<1>3. i \in 0..Len(params.values)
  <2>1. params.values \in Seq(Entries)
    BY <1>2 DEF IsParams
  <2> QED
    BY <2>1, LenProperties
<1>4. IsParams(params') /\ params'.attr = params.attr
  BY <1>1, <1>2, <1>3, ParamsChanged
<1> QED
  BY <1>1, <1>4, ParamsScreen

\* An entry removed.
LEMMA RemoveEntryKeeps ==
  ASSUME IInv, screen = "params", NEW i \in DOMAIN params.values, RemoveEntry(i)
  PROVE  IInv'
<1> DEFINE v == RemoveAt(params.values, i)
<1>1. /\ screen' = "params" /\ form' = form /\ params.editing = 0
      /\ UNCHANGED <<rule, typing, touched, applied>>
      /\ params' = [params EXCEPT !.values = v]
  BY DEF RemoveEntry, Browsing, InParams
<1>2. IsParams(params)
  BY OnScreen
<1>3. v \in Seq(Entries)
  <2>1. params.values \in Seq(Entries)
    BY <1>2 DEF IsParams
  <2> DEFINE s == params.values
  <2> HIDE DEF s
  <2>2. s \in Seq(Entries) /\ Len(s) \in Nat /\ DOMAIN s = 1..Len(s) /\ i \in 1..Len(s)
    BY <2>1, LenProperties DEF s
  <2>3. \A j \in 1..Len(s) : s[j] \in Entries
    BY <2>2, ElementOfSeq
  <2>4. SubSeq(s, 1, i - 1) \in Seq(Entries) /\ SubSeq(s, i + 1, Len(s)) \in Seq(Entries)
    <3>1. i - 1 \in Int /\ i + 1 \in Int /\ Len(s) \in Int /\ 1 \in Int
      BY <2>2
    <3>2. \A j \in 1..(i - 1) : s[j] \in Entries
      BY <2>2, <2>3
    <3>3. \A j \in (i + 1)..Len(s) : s[j] \in Entries
      BY <2>2, <2>3
    <3> QED
      BY <3>1, <3>2, <3>3, SubSeqProperties
  <2>5. RemoveAt(s, i) \in Seq(Entries)
    BY <2>4, ConcatProperties DEF RemoveAt
  <2> QED
    BY <2>5 DEF s
<1> HIDE DEF v
<1>4. IsParams(params') /\ params'.attr = params.attr
  BY <1>1, <1>2, <1>3, ParamsChanged
<1> QED
  BY <1>1, <1>4, ParamsScreen

\* The text of an entry read back.
LEMMA CommitEntryKeeps ==
  ASSUME IInv, CommitEntry
  PROVE  IInv'
<1>1. /\ screen = "params" /\ screen' = "params" /\ form' = form /\ params.editing # 0
      /\ UNCHANGED <<rule, typing, touched, applied>>
  BY DEF CommitEntry, InParams
<1>2. PICK name \in Words, list \in Lists \cup {params.values[params.editing].values} :
        params' = [params EXCEPT !.values[params.editing] = [name |-> name, values |-> Split(list)],
                                 !.editing = 0]
  BY DEF CommitEntry
<1> DEFINE i == params.editing
           entry == [name |-> name, values |-> Split(list)]
           v == [params.values EXCEPT ![i] = entry]
<1>3. IsParams(params)
  BY <1>1, OnScreen
<1>4. params.values \in Seq(Entries) /\ i \in 1..Len(params.values)
  <2>1. params.values \in Seq(Entries) /\ i \in 0..Len(params.values)
    BY <1>3 DEF IsParams
  <2>2. Len(params.values) \in Nat
    BY <2>1, LenProperties
  <2> QED
    BY <1>1, <2>1, <2>2
<1>5. list \in Seq(Words)
  <2>1. params.values[i] \in Entries
    BY <1>4, ElementOfSeq
  <2>2. Lists \subseteq Seq(Words)
    BY ConstantsAssumption
  <2> QED
    BY <2>1, <2>2 DEF Entries
<1>6. entry \in Entries
  BY <1>5, SplitType DEF Entries
<1>7. params' = [params EXCEPT !.values = v, !.editing = 0]
  BY <1>2
<1> HIDE DEF entry
<1>8. v \in Seq(Entries) /\ 0 \in 0..Len(v)
  <2>1. v \in Seq(Entries)
    BY <1>4, <1>6, ExceptSeq
  <2> HIDE DEF v
  <2> QED
    BY <2>1, LenProperties
<1> HIDE DEF v
<1>9. IsParams(params') /\ params'.attr = params.attr
  BY <1>3, <1>7, <1>8, ParamsChanged
<1> QED
  BY <1>1, <1>9, ParamsScreen

\* The parameters applied to the form.
LEMMA ApplyParamsKeeps ==
  ASSUME IInv, ApplyParams
  PROVE  IInv'
<1> DEFINE a == params.attr
           o == [set |-> TRUE, value |-> params.values]
<1>1. /\ screen = "params" /\ screen' = "form" /\ params' = None
      /\ rule' = rule /\ typing' = typing /\ touched' = touched /\ applied' = applied
      /\ form' = [form EXCEPT !.opts[a] = o]
  BY DEF ApplyParams, Browsing, InParams
<1>2. form # None /\ IsForm(form) /\ typing = None /\ params # None /\ IsParams(params)
  BY <1>1, OnScreen
<1>3. a \in Optional /\ a \in touched /\ params.values \in Values(a)
  <2>1. a \in Maps /\ params.values \in Seq(Entries)
    BY <1>2 DEF IsParams
  <2> QED
    BY <1>2, <2>1, AttrNames DEF IInv, Entered, Optional
<1>4. o = [set |-> o.set, value |-> o.value] /\ o.set \in BOOLEAN /\ o.value \in Values(a)
  BY <1>3
<1> HIDE DEF o
<1>5. /\ IsForm(form') /\ form'.path = form.path /\ form'.ticked = form.ticked
      /\ \A b \in Optional \ {a} : form'.opts[b] = form.opts[b]
  BY <1>1, <1>2, <1>3, <1>4, OptChanged
<1>6. Drafts'
  BY <1>1, <1>2, <1>3, <1>5, OtherRowsKeep
<1>7. form' # None
  BY <1>5, DraftsAreSomething
<1>8. TypeOK'
  BY <1>1, <1>2, <1>5, <1>7 DEF IInv, TypeOK
<1>9. Entered'
  BY <1>1, <1>2 DEF Entered
<1> QED
  BY <1>6, <1>8, <1>9 DEF IInv

\* The parameters given up.
LEMMA CancelParamsKeeps ==
  ASSUME IInv, CancelParams
  PROVE  IInv'
<1>1. /\ screen = "params" /\ screen' = "form" /\ params' = None /\ form' = form
      /\ rule' = rule /\ typing' = typing /\ touched' = touched /\ applied' = applied
  BY DEF CancelParams, Browsing, InParams
<1>2. form # None /\ typing = None
  BY <1>1, OnScreen
<1>3. Drafts'
  BY <1>1, <1>2, OtherRowsKeep
<1>4. TypeOK'
  BY <1>1, <1>2 DEF IInv, TypeOK
<1>5. Entered'
  BY <1>1, <1>2 DEF Entered
<1> QED
  BY <1>3, <1>4, <1>5 DEF IInv

\* Before a form is opened there is nothing to keep.
LEMMA InitInv ==
  ASSUME Init
  PROVE  IInv
<1>1. rule = None \/ IsRule(rule)
  BY ConstantsAssumption DEF Init
<1> QED
  BY <1>1 DEF Init, IInv, TypeOK, Entered, Drafts

\* Every step keeps the invariant.
LEMMA NextInv ==
  ASSUME IInv, [Next]_vars
  PROVE  IInv'
<1>1. CASE OpenForm
  BY <1>1, OpenFormKeeps
<1>2. CASE ToggleAdvanced
  BY <1>2, ToggleAdvancedKeeps
<1>3. CASE SyncInput
  BY <1>3, SyncInputKeeps
<1>4. CASE ApplyForm
  BY <1>4, ApplyFormKeeps
<1>5. CASE CancelForm
  BY <1>5, CancelFormKeeps
<1>6. CASE \E c \in Known : ToggleCapability(c)
  BY <1>6, ToggleCapabilityKeeps
<1>7. CASE \E row \in Optional \cup {"path"} : Activate(row)
  BY <1>7, ActivateKeeps
<1>8. CASE \E a \in Optional : UnsetCurrent(a)
  BY <1>8, UnsetCurrentKeeps
<1>9. CASE AddEntry
  BY <1>9, AddEntryKeeps
<1>10. CASE CommitEntry
  BY <1>10, CommitEntryKeeps
<1>11. CASE ApplyParams
  BY <1>11, ApplyParamsKeeps
<1>12. CASE CancelParams
  BY <1>12, CancelParamsKeeps
<1>13. CASE screen = "params" /\ \E i \in DOMAIN params.values : OpenEntry(i) \/ RemoveEntry(i)
  BY <1>13, OpenEntryKeeps, RemoveEntryKeeps
<1>14. CASE UNCHANGED vars
  <2>1. \A a : Drafted(a)' = Drafted(a)
    BY <1>14, SameRule DEF vars
  <2> QED
    BY <1>14, <2>1 DEF vars, IInv, TypeOK, Entered, Drafts
<1> QED
  BY <1>1, <1>2, <1>3, <1>4, <1>5, <1>6, <1>7, <1>8, <1>9, <1>10, <1>11, <1>12, <1>13, <1>14
     DEF Next

\* The invariant holds throughout.
THEOREM Inductive == Spec => []IInv
<1>1. Init => IInv
  BY InitInv
<1>2. IInv /\ [Next]_vars => IInv'
  BY NextInv
<1> QED
  BY <1>1, <1>2, PTL DEF Spec

\* TypeOK, for any rules and any keys: a screen has the draft it shows, and
\* what forms write are rules, however texts are split, trimmed and formatted.
THEOREM TypeCorrect == Spec => []TypeOK
<1>1. IInv => TypeOK
  BY DEF IInv
<1> QED
  BY <1>1, Inductive, PTL

-----------------------------------------------------------------------------
(* What forms keep *)

\* A form that is applied to a rule.
Edited ==
  /\ rule # None /\ form # None /\ Validate /\ ~ EmptyList /\ ~ UnsafeEdit
  /\ rule' = EditRule

\* Nothing but a form that is applied changes the rule.
LEMMA OnlyFormsChangeRules ==
  ASSUME IInv, [Next]_vars
  PROVE  /\ rule # None => rule' = rule \/ Edited
         /\ applied' # applied => ApplyForm
<1>1. CASE ApplyForm
  <2>1. form # None
    BY <1>1, OnScreen DEF ApplyForm
  <2> QED
    BY <1>1, <2>1 DEF ApplyForm, Edited
<1>2. CASE ~ ApplyForm
  <2>1. rule' = rule /\ applied' = applied
    BY <1>2 DEF Next, vars, OpenForm, ToggleAdvanced, SyncInput, CancelForm, ToggleCapability,
                Activate, UnsetCurrent, AddEntry, CommitEntry, ApplyParams, CancelParams,
                OpenEntry, RemoveEntry, InParams, Browsing
  <2> QED
    BY <2>1
<1> QED
  BY <1>1, <1>2

\* What is written of a rule, attribute by attribute.
LEMMA EditedAttributes ==
  ASSUME Edited
  PROVE  /\ rule'.path = Trim[form.path]
         /\ \A a \in Attrs : rule'.attrs[a] = IF a \in Edits THEN Written(a) ELSE rule.attrs[a]
BY DEF Edited, EditRule

\* LockedKept: no form changes a path or an attribute that an edit would lose
\* something of.
THEOREM LockedIsKept == Spec => LockedKept
<1> DEFINE Kept ==
      rule # None =>
        /\ rule.pathLocked => rule'.path = rule.path
        /\ \A a \in Attrs : rule.attrs[a].locked => rule'.attrs[a] = rule.attrs[a]
<1>1. ASSUME IInv, [Next]_vars
      PROVE  [Kept]_vars
  <2>1. CASE rule # None /\ Edited
    <3>1. rule.pathLocked => rule'.path = rule.path
      BY <2>1, EditedAttributes DEF Edited, UnsafeEdit, NewPath, Locked
    <3>2. ASSUME NEW a \in Attrs, rule.attrs[a].locked
          PROVE  rule'.attrs[a] = rule.attrs[a]
      <4>1. a # "path"
        BY DEF Attrs, Optional, Texts, Maps
      <4>2. a \notin Edits
        BY <2>1, <3>2, <4>1 DEF Edited, UnsafeEdit, Locked
      <4> QED
        BY <2>1, <4>2, EditedAttributes
    <3> QED
      BY <3>1, <3>2
  <2>2. CASE rule = None \/ rule' = rule
    BY <2>2
  <2> QED
    BY <1>1, <2>1, <2>2, OnlyFormsChangeRules
<1> HIDE DEF Kept
<1>2. IInv /\ [Next]_vars => [Kept]_vars
  BY <1>1
<1>3. [][Kept]_vars => LockedKept
  BY PTL DEF Kept, LockedKept
<1> QED
  BY <1>2, <1>3, Inductive, PTL DEF Spec

\* An attribute no edit is made for is kept; an edit is made where the text of
\* a field does not mean what the rule says, or a box is not as the rule has it.
LEMMA NoEditKeeps ==
  ASSUME IInv, Edited
  PROVE  /\ form.ticked = Range(Slot("capabilities").value) \cap Known =>
              rule'.attrs["capabilities"] = rule.attrs["capabilities"]
         /\ \A a \in Optional :
              form.opts[a] = Drafted(a) /\ Survives(a) => rule'.attrs[a] = rule.attrs[a]
<1>1. TypeOK /\ form # None
  BY DEF IInv, Edited
<1>2. ASSUME form.ticked = Range(Slot("capabilities").value) \cap Known
      PROVE  rule'.attrs["capabilities"] = rule.attrs["capabilities"]
  <2>1. CapabilitySet = Slot("capabilities").value
    BY <1>1, <1>2, CapabilitiesOfForm
  <2>2. "capabilities" \notin Edits
    BY <2>1, AttrNames DEF Edits
  <2> QED
    BY <2>2, EditedAttributes, AttrNames
<1>3. ASSUME NEW a \in Optional, form.opts[a] = Drafted(a), Survives(a)
      PROVE  rule'.attrs[a] = rule.attrs[a]
  <2>1. a \notin Edits
    BY <1>1, <1>3, UnchangedTextIsNoEdit, AttrNames DEF Edits
  <2> QED
    BY <2>1, EditedAttributes, AttrNames
<1> QED
  BY <1>2, <1>3

\* RestoredKept: a field whose draft is again what it was is left as its author
\* wrote it, whatever keys led there.
THEOREM RestoredIsKept == Spec => RestoredKept
<1> DEFINE Kept ==
      rule # None /\ form # None =>
        /\ form.ticked = Range(Slot("capabilities").value) \cap Known =>
             rule'.attrs["capabilities"] = rule.attrs["capabilities"]
        /\ \A a \in Optional :
             form.opts[a] = Drafted(a) /\ Survives(a) => rule'.attrs[a] = rule.attrs[a]
<1>1. ASSUME IInv, [Next]_vars
      PROVE  [Kept]_vars
  <2>1. CASE Edited
    BY <1>1, <2>1, NoEditKeeps
  <2>2. CASE rule = None \/ rule' = rule
    BY <2>2
  <2> QED
    BY <1>1, <2>1, <2>2, OnlyFormsChangeRules
<1> HIDE DEF Kept
<1>2. IInv /\ [Next]_vars => [Kept]_vars
  BY <1>1
<1>3. [][Kept]_vars => RestoredKept
  BY PTL DEF Kept, RestoredKept
<1> QED
  BY <1>2, <1>3, Inductive, PTL DEF Spec

\* UntouchedKept: a row the user has not entered is left as its author wrote it,
\* unless its text does not read back as its value.
THEOREM UntouchedIsKept == Spec => UntouchedKept
<1> DEFINE Kept ==
      rule # None =>
        /\ "path" \notin touched /\ Trim[rule.path] = rule.path => rule'.path = rule.path
        /\ \A a \in Attrs \ touched : Survives(a) => rule'.attrs[a] = rule.attrs[a]
<1>1. ASSUME IInv, [Next]_vars
      PROVE  [Kept]_vars
  <2>1. CASE rule # None /\ Edited
    <3>1. form # None /\ Slot("capabilities") = rule.attrs["capabilities"]
      BY <2>1 DEF Edited, Slot
    <3>2. ASSUME "path" \notin touched, Trim[rule.path] = rule.path
          PROVE  rule'.path = rule.path
      BY <1>1, <2>1, <3>1, <3>2, EditedAttributes DEF IInv, Drafts
    <3>3. ASSUME NEW a \in Attrs \ touched, Survives(a)
          PROVE  rule'.attrs[a] = rule.attrs[a]
      <4>1. CASE a = "capabilities"
        <5>1. form.ticked = Range(Slot("capabilities").value) \cap Known
          BY <1>1, <2>1, <3>1, <3>3, <4>1 DEF IInv, Drafts
        <5> QED
          BY <1>1, <2>1, <4>1, <5>1, NoEditKeeps
      <4>2. CASE a # "capabilities"
        <5>1. a \in Optional /\ form.opts[a] = Drafted(a)
          BY <1>1, <2>1, <3>1, <3>3, <4>2, AttrNames DEF IInv, Drafts
        <5> QED
          BY <1>1, <2>1, <3>3, <5>1, NoEditKeeps
      <4> QED
        BY <4>1, <4>2
    <3> QED
      BY <3>2, <3>3
  <2>2. CASE rule = None \/ rule' = rule
    BY <2>2
  <2> QED
    BY <1>1, <2>1, <2>2, OnlyFormsChangeRules
<1> HIDE DEF Kept
<1>2. IInv /\ [Next]_vars => [Kept]_vars
  BY <1>1
<1>3. [][Kept]_vars => UntouchedKept
  BY PTL DEF Kept, UntouchedKept
<1> QED
  BY <1>2, <1>3, Inductive, PTL DEF Spec

\* ForeignKept: no form drops, doubles or reorders a capability without a box.
THEOREM ForeignIsKept == Spec => ForeignKept
<1> DEFINE Kept ==
      rule # None =>
        Only(rule'.attrs["capabilities"].value, Foreign)
          = Only(rule.attrs["capabilities"].value, Foreign)
<1>1. ASSUME IInv, [Next]_vars
      PROVE  [Kept]_vars
  <2>1. CASE rule # None /\ Edited
    <3>1. TypeOK /\ form # None /\ Slot("capabilities") = rule.attrs["capabilities"]
      BY <1>1, <2>1 DEF IInv, Edited, Slot
    <3>2. Only(CapabilitySet, Foreign) = Only(rule.attrs["capabilities"].value, Foreign)
      BY <3>1, CapabilitiesOfForm
    <3>3. Written("capabilities").value = CapabilitySet
      BY <3>1, WrittenCapabilities
    <3>4. rule'.attrs["capabilities"] = Written("capabilities")
            \/ rule'.attrs["capabilities"] = rule.attrs["capabilities"]
      BY <2>1, EditedAttributes, AttrNames
    <3> QED
      BY <3>2, <3>3, <3>4
  <2>2. CASE rule = None \/ rule' = rule
    BY <2>2
  <2> QED
    BY <1>1, <2>1, <2>2, OnlyFormsChangeRules
<1> HIDE DEF Kept
<1>2. IInv /\ [Next]_vars => [Kept]_vars
  BY <1>1
<1>3. [][Kept]_vars => ForeignKept
  BY PTL DEF Kept, ForeignKept
<1> QED
  BY <1>2, <1>3, Inductive, PTL DEF Spec

-----------------------------------------------------------------------------
(* What forms write *)

\* What ShownIsWritten asks of one field.
AsShown(a) ==
  ~ Slot(a).locked =>
    IF form.opts[a].set /\ ~ (rule = None /\ ReadBack(a) = Zero(a))
    THEN /\ rule'.attrs[a].present
         /\ SameMeaning(a, form.opts[a].value, rule'.attrs[a].value)
    ELSE ~ rule'.attrs[a].present

\* A field of a rule that is edited: where no edit is made the rule says already
\* what the field shows.
LEMMA EditedAsShown ==
  ASSUME IInv, Edited, NEW a \in Optional
  PROVE  AsShown(a)
<1>1. TypeOK /\ form # None /\ Validate /\ rule # None /\ a \in Attrs
  BY AttrNames DEF IInv, Edited
<1>2. Slot(a) = rule.attrs[a] /\ IsSlot(Slot(a), a)
  BY <1>1, SlotType DEF Slot
<1>3. form.opts[a].set \in BOOLEAN /\ form.opts[a].value \in Values(a)
  BY <1>1, ReadBackType
<1>4. CASE a \in Edits
  <2>1. rule'.attrs[a] = Written(a)
    BY <1>1, <1>4, EditedAttributes
  <2> QED
    BY <1>1, <2>1, WrittenOptional DEF AsShown
<1>5. CASE a \notin Edits
  <2>1. rule'.attrs[a] = Slot(a)
    BY <1>1, <1>2, <1>5, EditedAttributes
  <2>2. ~ TextEdited(a)
    BY <1>5 DEF Edits
  <2>3. CASE form.opts[a].set
    <3>1. Slot(a).present /\ Slot(a).value = ReadBack(a)
      BY <2>2, <2>3, <1>2 DEF TextEdited, IsSlot
    <3>2. SameMeaning(a, form.opts[a].value, Slot(a).value)
      BY <3>1 DEF SameMeaning, ReadBack
    <3> QED
      BY <1>1, <2>1, <2>3, <3>1, <3>2 DEF AsShown
  <2>4. CASE ~ form.opts[a].set
    <3>1. ~ Slot(a).present
      BY <2>2, <2>4, <1>2, <1>3 DEF TextEdited, IsSlot
    <3> QED
      BY <2>1, <2>4, <3>1 DEF AsShown
  <2> QED
    BY <2>3, <2>4
<1> QED
  BY <1>4, <1>5

\* A field of a rule that is added: what is empty is left out.
LEMMA AddedAsShown ==
  ASSUME IInv, rule = None, form # None, Validate, rule' = AddRule, NEW a \in Optional
  PROVE  AsShown(a)
<1>1. TypeOK /\ a \in Attrs
  BY AttrNames DEF IInv
<1>2. rule'.attrs[a] = EncodeRule(a)
  BY <1>1 DEF AddRule
<1>3. form.opts[a].set \in BOOLEAN
  BY <1>1, ReadBackType
<1>4. ~ Absent(a).present /\ Absent(a).value = Zero(a)
  BY <1>1, AbsentType
<1>5. CASE Written(a).value = Zero(a)
  <2>1. ~ rule'.attrs[a].present
    BY <1>2, <1>4, <1>5 DEF EncodeRule
  <2>2. form.opts[a].set => ReadBack(a) = Zero(a)
    BY <1>1, <1>5, WrittenOptional
  <2> QED
    BY <2>1, <2>2 DEF AsShown
<1>6. CASE Written(a).value # Zero(a)
  <2>1. rule'.attrs[a] = Written(a) /\ form.opts[a].set
    BY <1>1, <1>2, <1>4, <1>6, WrittenOptional DEF EncodeRule
  <2>2. Written(a).present /\ SameMeaning(a, form.opts[a].value, Written(a).value)
    BY <1>1, <2>1, WrittenOptional
  <2>3. ReadBack(a) # Zero(a)
    BY <1>1, <1>6, <2>1, WrittenOptional
  <2> QED
    BY <2>1, <2>2, <2>3 DEF AsShown
<1> QED
  BY <1>5, <1>6

\* ShownIsWritten: a form that is applied is what the rule then says, field for
\* field and box for box; only a new rule leaves out what is set but empty.
THEOREM ShownIsWhatIsWritten == Spec => ShownIsWritten
<1> DEFINE Kept ==
      applied' # applied /\ screen' = "editor" =>
        /\ rule'.path = Trim[form.path]
        /\ Range(rule'.attrs["capabilities"].value) \cap Known = form.ticked
        /\ \A a \in Optional : AsShown(a)
<1>1. ASSUME IInv, [Next]_vars
      PROVE  [Kept]_vars
  <2>1. SUFFICES ASSUME applied' # applied, screen' = "editor" PROVE Kept
    OBVIOUS
  <2>2. ApplyForm
    BY <1>1, <2>1, OnlyFormsChangeRules
  <2>3. TypeOK /\ form # None /\ Validate
    BY <1>1, <2>2, OnScreen DEF IInv, ApplyForm
  <2>4. /\ Range(CapabilitySet) \cap Known = form.ticked
        /\ Written("capabilities").value = CapabilitySet
    BY <2>3, CapabilitiesOfForm, WrittenCapabilities
  <2>5. CASE rule = None /\ rule' = AddRule
    <3>1. rule'.path = Trim[form.path]
      BY <2>5 DEF AddRule
    <3>2. rule'.attrs["capabilities"] = EncodeRule("capabilities")
      BY <2>5, AttrNames DEF AddRule
    <3>3. rule'.attrs["capabilities"].value = CapabilitySet
      BY <2>4, <3>2, AbsentType, AttrNames DEF EncodeRule
    <3>4. \A a \in Optional : AsShown(a)
      BY <1>1, <2>3, <2>5, AddedAsShown
    <3> QED
      BY <2>4, <3>1, <3>3, <3>4
  <2>6. CASE rule # None /\ rule' = EditRule /\ ~ EmptyList /\ ~ UnsafeEdit
    <3>1. Edited
      BY <2>3, <2>6 DEF Edited
    <3>2. rule'.path = Trim[form.path]
      BY <3>1, EditedAttributes
    <3>3. Slot("capabilities") = rule.attrs["capabilities"]
      BY <2>6 DEF Slot
    <3>4. rule'.attrs["capabilities"].value = CapabilitySet
      <4>1. CASE "capabilities" \in Edits
        BY <2>4, <3>1, <4>1, EditedAttributes, AttrNames
      <4>2. CASE "capabilities" \notin Edits
        <5>1. CapabilitySet = Slot("capabilities").value
          BY <4>2 DEF Edits
        <5> QED
          BY <3>1, <3>3, <4>2, <5>1, EditedAttributes, AttrNames
      <4> QED
        BY <4>1, <4>2
    <3>5. \A a \in Optional : AsShown(a)
      BY <1>1, <3>1, EditedAsShown
    <3> QED
      BY <2>4, <3>2, <3>4, <3>5
  <2> QED
    BY <2>1, <2>2, <2>5, <2>6 DEF ApplyForm
<1> HIDE DEF Kept
<1>2. IInv /\ [Next]_vars => [Kept]_vars
  BY <1>1
<1>3. [][Kept]_vars => ShownIsWritten
  BY PTL DEF Kept, ShownIsWritten, AsShown
<1> QED
  BY <1>2, <1>3, Inductive, PTL DEF Spec
=============================================================================
