------------------------------ MODULE RuleForm ------------------------------
(***************************************************************************)
(* The rule form and the parameter form (internal/tui/form.go,             *)
(* paramform.go) over one `path` block, and what applying them writes      *)
(* (internal/hclpolicy): drafts are text, the rule is values, and what is  *)
(* shown of a value need not read back as that value.                      *)
(***************************************************************************)
EXTENDS Naturals, Sequences, FiniteSets, SequencesExt, Selection

CONSTANTS
  Capabilities,   \* the capabilities with a checkbox, as they are listed
  ByDefault,      \* those ticked on a new rule
  Foreign,        \* capabilities of a file that BPE does not know
  Blank,          \* the empty text; stands for a text that is no date, too
  Comments,       \* comments but the empty one
  Paths,          \* path labels, Blank among them
  Trim,           \* what strings.TrimSpace leaves of each
  Dates,          \* points in time
  Seconds,        \* each as RFC 3339 prints it, without fractions
  Words,          \* parameter names and values, Blank among them
  Parts,          \* what each is when split at its commas and trimmed
  Lists,          \* the lists a user types
  Rules,          \* the rules a file may hold
  None,           \* nothing: no rule, no form, no row
  MaxTouched,     \* bound: rows of one form the user changes
  MaxEntries,     \* bound: entries of one parameter map
  MaxApplied      \* bound: forms applied

Texts == {"comment", "expiration", "required_parameters"}
Maps == {"allowed_parameters", "denied_parameters"}
Optional == Texts \cup Maps
Attrs == Optional \cup {"capabilities"}

VARIABLES
  rule,      \* the block in the document
  screen,    \* "editor", "form", "params", or "panicked"
  form,      \* the ruleForm
  typing,    \* the row whose text is being typed
  params,    \* the paramForm
  touched,   \* history: the rows the user has changed in this form
  applied    \* forms applied

vars == <<rule, screen, form, typing, params, touched, applied>>

-----------------------------------------------------------------------------
(* The rule in the document *)

Known == Range(Capabilities)

\* An attribute: whether it is there, whether an edit would lose something of
\* it, whether it stands as its author wrote it, and its value. One that does
\* not decode has the value of one that is absent.
Zero(a) == IF a \in {"comment", "expiration"} THEN Blank ELSE <<>>
Absent(a) == [present |-> FALSE, locked |-> FALSE, verbatim |-> TRUE, value |-> Zero(a)]
Generated(v) == [present |-> TRUE, locked |-> FALSE, verbatim |-> FALSE, value |-> v]

Entries == [name : Words, values : Seq(Words)]
Values(a) ==
  CASE a = "capabilities" -> Seq(Known \cup Foreign)
    [] a = "comment" -> Comments \cup {Blank}
    [] a = "expiration" -> Dates \cup {Blank}
    [] a = "required_parameters" -> Seq(Words)
    [] OTHER -> Seq(Entries)

IsSlot(slot, a) ==
  /\ slot = [present |-> slot.present, locked |-> slot.locked,
             verbatim |-> slot.verbatim, value |-> slot.value]
  /\ {slot.present, slot.locked, slot.verbatim} \subseteq BOOLEAN
  /\ slot.value \in Values(a)
  /\ ~slot.present => slot = Absent(a)

\* A block without exactly one label has no path, and it cannot be given one.
IsRule(r) ==
  /\ r = [path |-> r.path, pathLocked |-> r.pathLocked, attrs |-> r.attrs]
  /\ r.path \in Paths /\ r.pathLocked \in BOOLEAN
  /\ r.pathLocked => r.path = Blank
  /\ DOMAIN r.attrs = Attrs /\ \A a \in Attrs : IsSlot(r.attrs[a], a)

ASSUME ConstantsAssumption ==
  /\ Capabilities \in Seq(Known) /\ IsInjective(Capabilities) /\ ByDefault \subseteq Known
  /\ Known \cap Foreign = {}
  /\ Blank \in Paths \cap Words /\ Blank \notin Comments \cup Dates
  /\ Trim \in [Paths -> Paths] /\ Trim[Blank] = Blank
  /\ \A p \in Paths : Trim[Trim[p]] = Trim[p]
  /\ Seconds \in [Dates -> Dates] /\ \A d \in Dates : Seconds[Seconds[d]] = Seconds[d]
  /\ Parts \in [Words -> Seq(Words)] /\ Parts[Blank] = <<>>
  /\ \A w \in Words : \A v \in Range(Parts[w]) : Parts[v] = <<v>>
  /\ Lists \subseteq Seq(Words)
  /\ \A r \in Rules : IsRule(r)
  /\ {MaxTouched, MaxEntries, MaxApplied} \subseteq Nat

\* The ruleForm and the paramForm, one field for one field.
IsForm(f) ==
  /\ f = [path |-> f.path, ticked |-> f.ticked, opts |-> f.opts, advanced |-> f.advanced]
  /\ f.path \in Paths /\ f.ticked \subseteq Known /\ f.advanced \in BOOLEAN
  /\ f.opts = [a \in Optional |-> [set |-> f.opts[a].set, value |-> f.opts[a].value]]
  /\ \A a \in Optional : f.opts[a].set \in BOOLEAN /\ f.opts[a].value \in Values(a)

IsParams(p) ==
  /\ p = [attr |-> p.attr, values |-> p.values, editing |-> p.editing]
  /\ p.attr \in Maps /\ p.values \in Seq(Entries) /\ p.editing \in 0..Len(p.values)

ASSUME NoneIsNothing ==
  LET Value == Comments \cup Dates \cup {Blank} \cup Seq(Words) \cup Seq(Entries)
  IN /\ None \notin [path : Paths, ticked : SUBSET Known,
                     opts : [Optional -> [set : BOOLEAN, value : Value]], advanced : BOOLEAN]
     /\ None \notin [attr : Maps, values : Seq(Entries), editing : Nat]

\* splitCommaList of a list joined with commas.
Split(list) == FlattenSeq([i \in DOMAIN list |-> Parts[list[i]]])

\* A parameter map decodes to its entries in the order of their names.
Decoded(entries) ==
  LET names == SetToSeq({entries[i].name : i \in DOMAIN entries})
  IN [i \in DOMAIN names |-> CHOOSE e \in Range(entries) : e.name = names[i]]

-----------------------------------------------------------------------------
(* The form *)

Slot(a) == IF rule = None THEN Absent(a) ELSE rule.attrs[a]
Locked(row) ==
  /\ rule # None
  /\ IF row = "path" THEN rule.pathLocked ELSE rule.attrs[row].locked

\* What a field shows of a value, as text.
Shown(a, v) == IF a = "expiration" /\ v # Blank THEN Seconds[v] ELSE v
Drafted(a) == [set |-> Slot(a).present, value |-> Shown(a, Slot(a).value)]

\* Fault: a box for every capability of the file.
NewRuleFormTickingAll ==
  [path |-> rule.path,
   ticked |-> Range(rule.attrs["capabilities"].value),
   opts |-> [a \in Optional |-> Drafted(a)],
   advanced |-> \E a \in Optional \ {"comment"} : rule.attrs[a].present]

NewRuleForm ==
  [path |-> rule.path,
   ticked |-> Range(rule.attrs["capabilities"].value) \cap Known,
   opts |-> [a \in Optional |-> Drafted(a)],
   advanced |-> \E a \in Optional \ {"comment"} : rule.attrs[a].present]

NewAddForm ==
  [path |-> Blank, ticked |-> ByDefault,
   opts |-> [a \in Optional |-> Drafted(a)], advanced |-> FALSE]

\* What the text of a field means.
ReadBack(a) == IF a = "required_parameters" THEN Split(form.opts[a].value) ELSE form.opts[a].value

\* Fault: in the order of the boxes.
CapabilitySetAsListed ==
  Only(Capabilities, form.ticked) \o Only(Slot("capabilities").value, Foreign)

\* Fault: only what has a box.
CapabilitySetOfBoxes ==
  LET kept == Only(Slot("capabilities").value, form.ticked)
  IN kept \o Only(Capabilities, form.ticked \ Range(kept))

\* The capabilities ticked: those of the source where they are, the ones BPE
\* does not know among them, then the others as they are listed.
CapabilitySet ==
  LET kept == Only(Slot("capabilities").value, Foreign \cup form.ticked)
  IN kept \o Only(Capabilities, form.ticked \ Range(kept))

ValidateParams(entries) ==
  /\ Blank \notin {entries[i].name : i \in DOMAIN entries}
  /\ \A i, j \in DOMAIN entries : entries[i].name = entries[j].name => i = j

Validate ==
  /\ Trim[form.path] # Blank
  /\ form.opts["expiration"].set => form.opts["expiration"].value \in Dates
  /\ \A a \in Maps : form.opts[a].set => ValidateParams(form.opts[a].value)

\* Fault: unset and empty are the same.
TextEditedByValue(a) ==
  (IF form.opts[a].set THEN ReadBack(a) ELSE Zero(a)) # Slot(a).value

\* Fault: an expiration is written whenever there is one.
TextEditedAnyDate(a) ==
  \/ form.opts[a].set # Slot(a).present
  \/ form.opts[a].set /\ (a = "expiration" \/ ReadBack(a) # Slot(a).value)

TextEdited(a) ==
  \/ form.opts[a].set # Slot(a).present
  \/ form.opts[a].set /\ ReadBack(a) # Slot(a).value

\* The attributes an edit is made for; the others are left as they are.
Edits ==
  {a \in Optional : TextEdited(a)} \cup
  {a \in {"capabilities"} : CapabilitySet # Slot(a).value}

NewPath == Trim[form.path] # rule.path

\* stringsToCty asks cty for a list of no values, and cty panics.
EmptyList ==
  \/ "capabilities" \in Edits /\ CapabilitySet = <<>>
  \/ /\ "required_parameters" \in Edits /\ form.opts["required_parameters"].set
     /\ ReadBack("required_parameters") = <<>>

\* What SetAttributeValue, or RemoveAttribute, leaves of an attribute.
Written(a) ==
  CASE a = "capabilities" -> Generated(CapabilitySet)
    [] a # "capabilities" /\ ~form.opts[a].set -> Absent(a)
    [] a = "expiration" /\ form.opts[a].set -> Generated(Seconds[ReadBack(a)])
    [] a \in Maps /\ form.opts[a].set -> Generated(Decoded(ReadBack(a)))
    [] OTHER -> Generated(ReadBack(a))

\* Fault: only the lock of the path is asked for.
UnsafeEditOfPath == NewPath /\ Locked("path")

\* EditRule changes nothing if one of the edits is of a locked attribute.
UnsafeEdit == (NewPath /\ Locked("path")) \/ \E a \in Edits : Locked(a)
EditRule ==
  [path |-> Trim[form.path], pathLocked |-> rule.pathLocked,
   attrs |-> [a \in Attrs |-> IF a \in Edits THEN Written(a) ELSE rule.attrs[a]]]

\* A new rule is encoded without what is empty.
EncodeRule(a) == IF Written(a).value = Zero(a) THEN Absent(a) ELSE Written(a)
AddRule ==
  [path |-> Trim[form.path], pathLocked |-> FALSE, attrs |-> [a \in Attrs |-> EncodeRule(a)]]

-----------------------------------------------------------------------------
(* The keys of the rule form *)

Init ==
  /\ rule \in Rules \cup {None}
  /\ screen = "editor" /\ form = None /\ typing = None /\ params = None
  /\ touched = {} /\ applied = 0

\* enter on a rule, or the key that adds one.
OpenForm ==
  /\ screen = "editor" /\ applied < MaxApplied
  /\ screen' = "form" /\ touched' = {}
  /\ form' = IF rule = None THEN NewAddForm ELSE NewRuleForm
  /\ UNCHANGED <<rule, typing, params, applied>>

OnRow(row) ==
  /\ screen = "form" /\ typing = None
  /\ row \in {"path", "capabilities", "comment"} \/ form.advanced
  /\ ~Locked(row)
  /\ touched' = touched \cup {row} /\ Cardinality(touched') <= MaxTouched

ToggleAdvanced ==
  /\ screen = "form" /\ typing = None
  /\ form' = [form EXCEPT !.advanced = ~@]
  /\ UNCHANGED <<rule, screen, typing, params, touched, applied>>

ToggleCapability(c) ==
  /\ OnRow("capabilities")
  /\ form' = [form EXCEPT !.ticked = IF c \in @ THEN @ \ {c} ELSE @ \cup {c}]
  /\ UNCHANGED <<rule, screen, typing, params, applied>>

\* Entering a row sets its attribute, whatever is typed then.
Activate(row) ==
  /\ OnRow(row)
  /\ form' = IF row = "path" THEN form ELSE [form EXCEPT !.opts[row].set = TRUE]
  /\ IF row \in Maps
     THEN /\ screen' = "params" /\ typing' = None
          /\ params' = [attr |-> row, values |-> form.opts[row].value, editing |-> 0]
     ELSE typing' = row /\ UNCHANGED <<screen, params>>
  /\ UNCHANGED <<rule, applied>>

UnsetCurrent(a) ==
  /\ OnRow(a)
  /\ form' = [form EXCEPT !.opts[a] = [set |-> FALSE, value |-> Zero(a)]]
  /\ UNCHANGED <<rule, screen, typing, params, applied>>

\* enter and esc both keep what was typed, which may be what was there.
TypedInto(a) ==
  CASE a = "comment" -> Comments \cup {Blank}
    [] a = "expiration" -> Dates \cup {Blank}
    [] OTHER -> Lists
SyncInput ==
  /\ screen = "form" /\ typing # None /\ typing' = None
  /\ \/ form' = form
     \/ typing = "path" /\ \E p \in Paths : form' = [form EXCEPT !.path = p]
     \/ typing # "path" /\ \E t \in TypedInto(typing) :
          form' = [form EXCEPT !.opts[typing].value = t]
  /\ UNCHANGED <<rule, screen, params, touched, applied>>

CloseForm == form' = None /\ touched' = {} /\ UNCHANGED <<typing, params>>

\* A form that cannot be applied stays, with the problem named.
ApplyForm ==
  /\ screen = "form" /\ typing = None /\ Validate
  /\ \/ /\ rule = None
        /\ rule' = AddRule /\ screen' = "editor"
     \/ /\ rule # None /\ EmptyList
        /\ screen' = "panicked" /\ UNCHANGED rule
     \/ /\ rule # None /\ ~EmptyList /\ ~UnsafeEdit
        /\ rule' = EditRule /\ screen' = "editor"
  /\ applied' = applied + 1
  /\ CloseForm

CancelForm ==
  /\ screen = "form" /\ typing = None
  /\ screen' = "editor"
  /\ CloseForm
  /\ UNCHANGED <<rule, applied>>

-----------------------------------------------------------------------------
(* The keys of the parameter form *)

InParams == screen = "params" /\ UNCHANGED <<rule, typing, touched, applied>>
Browsing == InParams /\ params.editing = 0

AddEntry ==
  /\ Browsing /\ Len(params.values) < MaxEntries
  /\ params' = [params EXCEPT !.values = Append(@, [name |-> Blank, values |-> <<>>]),
                              !.editing = Len(params.values) + 1]
  /\ UNCHANGED <<screen, form>>

OpenEntry(i) ==
  /\ Browsing
  /\ params' = [params EXCEPT !.editing = i]
  /\ UNCHANGED <<screen, form>>

RemoveEntry(i) ==
  /\ Browsing
  /\ params' = [params EXCEPT !.values = RemoveAt(@, i)]
  /\ UNCHANGED <<screen, form>>

\* enter and esc both: the name and the values are read back from their text.
CommitEntry ==
  /\ InParams /\ params.editing # 0
  /\ \E name \in Words, list \in Lists \cup {params.values[params.editing].values} :
       params' = [params EXCEPT !.values[params.editing] = [name |-> name, values |-> Split(list)],
                                !.editing = 0]
  /\ UNCHANGED <<screen, form>>

ApplyParams ==
  /\ Browsing /\ ValidateParams(params.values)
  /\ form' = [form EXCEPT !.opts[params.attr] = [set |-> TRUE, value |-> params.values]]
  /\ screen' = "form" /\ params' = None

CancelParams ==
  /\ Browsing
  /\ screen' = "form" /\ params' = None
  /\ UNCHANGED form

Next ==
  \/ OpenForm \/ ToggleAdvanced \/ SyncInput \/ ApplyForm \/ CancelForm
  \/ \E c \in Known : ToggleCapability(c)
  \/ \E row \in Optional \cup {"path"} : Activate(row)
  \/ \E a \in Optional : UnsetCurrent(a)
  \/ AddEntry \/ CommitEntry \/ ApplyParams \/ CancelParams
  \/ screen = "params" /\ \E i \in DOMAIN params.values : OpenEntry(i) \/ RemoveEntry(i)

Spec == Init /\ [][Next]_vars

-----------------------------------------------------------------------------
(* Properties *)

\* The types, and that a screen has the draft it shows.
TypeOK ==
  /\ rule = None \/ IsRule(rule)
  /\ screen \in {"editor", "form", "params", "panicked"}
  /\ (form # None) <=> screen \in {"form", "params"}
  /\ form # None => IsForm(form)
  /\ typing \in Texts \cup {"path", None} /\ (typing # None => screen = "form")
  /\ (params # None) <=> screen = "params"
  /\ params # None => IsParams(params) /\ form.opts[params.attr].set
  /\ touched \subseteq Attrs \cup {"path"} /\ applied \in Nat

\* What an edit would lose something of - an expression, a heredoc, a comment
\* inside a value, a block with two labels - is as it was after any form.
LockedKept ==
  [][rule # None =>
       /\ rule.pathLocked => rule'.path = rule.path
       /\ \A a \in Attrs : rule.attrs[a].locked => rule'.attrs[a] = rule.attrs[a]]_vars

\* A value whose text reads back as the value.
Survives(a) ==
  \/ a \notin {"expiration", "required_parameters"}
  \/ a = "expiration" /\ \A d \in Dates : Slot(a).value = d => Seconds[d] = d
  \/ a = "required_parameters" /\ Split(Slot(a).value) = Slot(a).value

\* A row the user has not entered is left exactly as its author wrote it, its
\* formatting included - unless its text does not read back as its value.
UntouchedKept ==
  [][rule # None =>
       /\ "path" \notin touched /\ Trim[rule.path] = rule.path => rule'.path = rule.path
       /\ \A a \in Attrs \ touched : Survives(a) => rule'.attrs[a] = rule.attrs[a]]_vars

\* So is one whose draft is again what it was, whatever keys led there.
RestoredKept ==
  [][rule # None /\ form # None =>
       /\ form.ticked = Range(Slot("capabilities").value) \cap Known =>
            rule'.attrs["capabilities"] = rule.attrs["capabilities"]
       /\ \A a \in Optional :
            form.opts[a] = Drafted(a) /\ Survives(a) => rule'.attrs[a] = rule.attrs[a]]_vars

\* Two values a field may show in the same words.
SameMeaning(a, text, v) ==
  CASE a = "comment" -> v = text
    [] a = "expiration" -> v \in {text, Seconds[text]}
    [] a = "required_parameters" -> v = Split(text)
    [] OTHER -> Range(v) = Range(text)

\* A form that is applied is what the rule then says: every field that is set
\* is there with what it showed, every other is absent, every box is as ticked.
\* Only a new rule leaves out what is set but empty.
ShownIsWritten ==
  [][applied' # applied /\ screen' = "editor" =>
       /\ rule'.path = Trim[form.path]
       /\ Range(rule'.attrs["capabilities"].value) \cap Known = form.ticked
       /\ \A a \in Optional : ~Slot(a).locked =>
            IF form.opts[a].set /\ ~(rule = None /\ ReadBack(a) = Zero(a))
            THEN /\ rule'.attrs[a].present
                 /\ SameMeaning(a, form.opts[a].value, rule'.attrs[a].value)
            ELSE ~rule'.attrs[a].present]_vars

\* Capabilities BPE does not know have no box, and no edit drops, doubles or
\* reorders them.
ForeignKept ==
  [][rule # None =>
       Only(rule'.attrs["capabilities"].value, Foreign)
         = Only(rule.attrs["capabilities"].value, Foreign)]_vars

\* "a value hclwrite can render - which every constructor below produces"
\* (edit.go): no form ends in a panic.
EveryEditRenders == screen # "panicked"

=============================================================================
