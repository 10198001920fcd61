------------------------------ MODULE RuleList ------------------------------
(***************************************************************************)
(* The main screen: the list of a document's rules, the row that is        *)
(* highlighted in it, and what is done to the highlighted rule             *)
(* (internal/tui/model.go, editor.go, view.go; internal/hclpolicy/edit.go).*)
(*                                                                         *)
(* A rule is named by its number in the list.  The list shows the `path`   *)
(* blocks only, the file may hold others, and the number has to find the   *)
(* same block in the file, on the screen and under the mouse.              *)
(***************************************************************************)
EXTENDS Integers, Sequences, SequencesExt, Selection

CONSTANTS
  Texts,      \* what a block says, its path included
  Documents,  \* the documents that may be opened: blocks, and whether they parse
  Heights,    \* rows of the terminal
  MaxBlocks,  \* bound: blocks of a document
  None        \* no rule, no form, no question

VARIABLES
  blocks,     \* the top-level blocks of the document, in order
  parses,     \* whether the file has no syntax error
  selected,   \* the highlighted rule, counted from 0
  screen,     \* "editor", "form", or "elsewhere"
  form,       \* the rule the form was opened on and what it showed, or None
  dialog,     \* the removal in question: which rule, what it says; or None
  busy,       \* a request to the server is in flight
  warnings,   \* whether the connection has security warnings
  size        \* of the terminal: narrow or not, and its rows

vars == <<blocks, parses, selected, screen, form, dialog, busy, warnings, size>>
document == <<blocks, parses>>
terminal == <<busy, warnings, size>>

Blocks == [path : BOOLEAN, text : Texts]
Sizes == [narrow : BOOLEAN, height : Heights]

\* The rule a form or a question is about, if it is there yet, and its text.
Subjects == [ref : Nat \cup {None}, text : Texts \cup {None}]

ASSUME RuleListAssumption ==
  /\ \A d \in Documents :
       d.blocks \in Seq(Blocks) /\ Len(d.blocks) <= MaxBlocks /\ d.parses \in BOOLEAN
  /\ Heights \subseteq Nat
  /\ MaxBlocks \in Nat
  /\ None \notin Nat \cup Subjects

-----------------------------------------------------------------------------
(* The document *)

PathBlocks == [path : {TRUE}, text : Texts]
OtherBlocks == [path : {FALSE}, text : Texts]

\* The rules as they are decoded: one for each `path` block.
TextsOf(list) == [i \in DOMAIN list |-> list[i].text]
Rules == TextsOf(Only(blocks, PathBlocks))
RuleCount == Len(Rules)

\* Fault: the number of a rule counts every block.
AnyBlock(ref) == ref + 1

\* The block a rule's number stands for: ref path blocks come before it.
PathBlock(ref) ==
  CHOOSE b \in DOMAIN blocks :
    blocks[b].path /\ Len(Only(SubSeq(blocks, 1, b), PathBlocks)) = ref + 1

AddRule(text) == Append(blocks, [path |-> TRUE, text |-> text])
DuplicateRule(ref) == Append(blocks, blocks[PathBlock(ref)])
EditRule(ref, text) == [blocks EXCEPT ![PathBlock(ref)].text = text]
RemoveRule(ref) == RemoveAt(blocks, PathBlock(ref))

-----------------------------------------------------------------------------
(* The screen.  Its rows are counted from 0. *)

\* The name and state of the document, and why it is read-only if it is.
HeaderLines == IF parses THEN 1 ELSE 2

BodyHeight == Max({3, size.height - HeaderLines - 2})
ListWindow == IF size.narrow THEN Max({3, BodyHeight \div 2}) ELSE BodyHeight

\* Fault: one row too few, once the selection has left the window.
ScrollAfter(row, total, height) ==
  IF total <= height THEN 0 ELSE Min({Max({0, row - height}), total - height})

\* The first row shown of a list of `total` rows.
ScrollStart(row, total, height) ==
  IF total <= height THEN 0 ELSE Min({Max({0, row - height \div 2}), total - height})

Top == ScrollStart(selected, RuleCount, ListWindow)
Bottom == Min({RuleCount, Top + ListWindow}) - 1

Banner == busy \/ warnings

\* The frame keeps the last rows for the banner, the status and the keys.
Available == Max({1, size.height - (IF Banner THEN 3 ELSE 2)})

RowOf(rule) == HeaderLines + rule - Top
Shown(rule) == rule \in Top .. Bottom /\ RowOf(rule) < Available

\* The row renderEditor reports for the first rule, the window handleClick
\* takes the list to have, and the rule it makes of a click.
ListTop == HeaderLines + (IF size.narrow THEN 1 ELSE 2)
ListHeight ==
  IF size.narrow THEN Max({3, (size.height - 6) \div 2}) ELSE Max({3, size.height - 6})
Clicked(y) == ScrollStart(selected, RuleCount, ListHeight) + y - ListTop

-----------------------------------------------------------------------------
(* The operations *)

Init ==
  /\ \E d \in Documents : blocks = d.blocks /\ parses = d.parses
  /\ selected = 0
  /\ screen = "editor"
  /\ form = None
  /\ dialog = None
  /\ busy = FALSE
  /\ warnings = FALSE
  /\ size \in Sizes

Editing == screen = "editor" /\ dialog = None

Resize ==
  /\ size' \in Sizes
  /\ UNCHANGED <<blocks, parses, selected, screen, form, dialog, busy, warnings>>

Select(rule) ==
  /\ selected' = rule
  /\ UNCHANGED <<document, screen, form, dialog, terminal>>

Click(y) ==
  /\ Editing /\ ~busy
  /\ y >= ListTop
  /\ Clicked(y) \in 0 .. RuleCount - 1
  /\ Select(Clicked(y))

Move(delta) ==
  /\ Editing
  /\ Select(IF RuleCount = 0 THEN 0 ELSE (selected + delta + RuleCount) % RuleCount)

Home == Editing /\ Select(0)
End == Editing /\ Select(Max({0, RuleCount - 1}))

\* The highlighted rule, in a document that may be changed.
OnSelected == Editing /\ parses /\ selected < RuleCount

OpenEditForm ==
  /\ OnSelected
  /\ form' = [ref |-> selected, text |-> Rules[selected + 1]]
  /\ screen' = "form"
  /\ UNCHANGED <<document, selected, dialog, terminal>>

OpenAddForm ==
  /\ Editing /\ parses
  /\ form' = [ref |-> None, text |-> None]
  /\ screen' = "form"
  /\ UNCHANGED <<document, selected, dialog, terminal>>

DuplicateSelected ==
  /\ OnSelected /\ Len(blocks) < MaxBlocks
  /\ blocks' = DuplicateRule(selected)
  /\ selected' = RuleCount' - 1
  /\ UNCHANGED <<parses, screen, form, dialog, terminal>>

RequestRemove ==
  /\ OnSelected
  /\ dialog' = [ref |-> selected, text |-> Rules[selected + 1]]
  /\ UNCHANGED <<document, selected, screen, form, terminal>>

DeclineRemove ==
  /\ dialog # None
  /\ dialog' = None
  /\ UNCHANGED <<document, selected, screen, form, terminal>>

\* Fault: the highlight stays where the last rule was.
NoClamp(count) == selected

\* Where the highlight is once the document has `count` rules.
Clamp(count) == Min({selected, Max({0, count - 1})})

ConfirmRemove ==
  /\ dialog # None
  /\ blocks' = RemoveRule(dialog.ref)
  /\ selected' = Clamp(RuleCount')
  /\ dialog' = None
  /\ UNCHANGED <<parses, screen, form, terminal>>

LeaveForm == screen = "form" /\ screen' = "editor" /\ form' = None

CancelForm == LeaveForm /\ UNCHANGED <<document, selected, dialog, terminal>>

\* Applying a new rule adds it; applying a form that changed nothing is
\* CancelForm; a form that is refused stays.
ApplyNew ==
  /\ LeaveForm
  /\ form.ref = None /\ Len(blocks) < MaxBlocks
  /\ \E text \in Texts : blocks' = AddRule(text)
  /\ selected' = RuleCount' - 1
  /\ UNCHANGED <<parses, dialog, terminal>>

ApplyEdit ==
  /\ LeaveForm
  /\ form.ref # None
  /\ \E text \in Texts \ {form.text} : blocks' = EditRule(form.ref, text)
  /\ UNCHANGED <<parses, selected, dialog, terminal>>

-----------------------------------------------------------------------------
(* The other screens: reviews, the browser of the server's policies, and   *)
(* the requests that run while one of them is shown.                       *)

Goto(to) == screen' = to /\ UNCHANGED <<form, dialog, warnings, size>>

Leave == Editing /\ Goto("elsewhere") /\ UNCHANGED <<document, selected, busy>>
Return ==
  /\ screen = "elsewhere" /\ ~busy
  /\ Goto("editor")
  /\ UNCHANGED <<document, selected, busy>>

StartRequest ==
  /\ screen = "elsewhere" /\ ~busy
  /\ busy' = TRUE
  /\ UNCHANGED <<document, selected, screen, form, dialog, warnings, size>>

\* Cancelled, failed, or answered with nothing that concerns the document;
\* the answer to a connection brings that connection's warnings.
EndRequest ==
  /\ busy
  /\ busy' = FALSE
  /\ warnings' \in BOOLEAN
  /\ UNCHANGED <<document, selected, screen, form, dialog, size>>

\* Another document in place of this one: a policy the server answered with,
\* or a new and empty one.
AdoptSession ==
  /\ screen = "elsewhere"
  /\ \E d \in Documents : (busy \/ d.blocks = <<>>) /\ blocks' = d.blocks /\ parses' = d.parses
  /\ selected' = 0
  /\ busy' = FALSE
  /\ Goto("editor")

\* This document as it is now on disk or on the server.
Reload ==
  /\ screen = "elsewhere"
  /\ \E d \in Documents : blocks' = d.blocks /\ parses' = d.parses
  /\ selected' = Clamp(RuleCount')
  /\ busy' = FALSE
  /\ Goto("editor")

Next ==
  \/ Resize
  \/ \E y \in 0 .. Max(Heights) - 1 : Click(y)
  \/ \E delta \in {-1, 1} : Move(delta)
  \/ Home \/ End
  \/ OpenEditForm \/ OpenAddForm \/ DuplicateSelected
  \/ RequestRemove \/ DeclineRemove \/ ConfirmRemove
  \/ CancelForm \/ ApplyNew \/ ApplyEdit
  \/ Leave \/ Return \/ StartRequest \/ EndRequest \/ AdoptSession \/ Reload

Spec == Init /\ [][Next]_vars

-----------------------------------------------------------------------------
(* Properties *)

\* Types; and a rule is highlighted whenever there is one, after every
\* removal, reload and change of document (model.go:549, 711, 1117, 1196), and
\* a request runs only while another screen is shown.
TypeOK ==
  /\ blocks \in Seq(Blocks) /\ Len(blocks) <= MaxBlocks
  /\ parses \in BOOLEAN
  /\ selected \in 0 .. Max({0, RuleCount - 1})
  /\ screen \in {"editor", "form", "elsewhere"}
  /\ screen = "form" <=> form # None
  /\ dialog # None => screen = "editor"
  /\ busy \in BOOLEAN /\ (busy => screen = "elsewhere")
  /\ warnings \in BOOLEAN
  /\ size \in Sizes

\* What the user changes is what the screen named: the rule the question
\* showed is the one removed, the rule the form showed is the one edited, a
\* new rule or a copy of the highlighted one comes last and is highlighted;
\* and no other rule, nor any block that is no rule, is touched or moved
\* among its kind (edit.go:529-548: the n-th rule of the list is the n-th
\* `path` block of the file).
WhatIsNamedIsChanged ==
  [][ LET changed == Rules' # Rules
          others == Only(blocks, OtherBlocks)
      IN  screen \in {"editor", "form"} =>
            /\ others' = others
            /\ dialog # None /\ changed =>
                 /\ Rules[dialog.ref + 1] = dialog.text
                 /\ Rules' = RemoveAt(Rules, dialog.ref + 1)
            /\ dialog = None /\ changed =>
                 \/ /\ form # None /\ form.ref # None
                    /\ Rules[form.ref + 1] = form.text
                    /\ \E text \in Texts : Rules' = [Rules EXCEPT ![form.ref + 1] = text]
                 \/ /\ \/ form = None /\ Rules' = Append(Rules, Rules[selected + 1])
                       \/ form # None /\ form.ref = None /\ Front(Rules') = Rules
                    /\ selected' = RuleCount' - 1
    ]_vars

\* The highlighted rule is on the screen (editor.go:104, "scrolled so the
\* selection stays visible"), in a window with room for three rules - but for
\* the row the banner takes from the bottom of the list (view.go:145), which
\* the list does not know of.
SelectedIsDrawn ==
  screen = "editor" /\ RuleCount > 0 /\ size.height >= HeaderLines + 5 =>
    Shown(selected) \/ (Banner /\ RowOf(selected) = size.height - 3)

\* What a doc says and the code does not do: renderEditor returns "the screen
\* row the first rule occupies, which is what lets a mouse click pick a rule"
\* (editor.go:26-27), so a click on a rule picks that rule.
ClickPicksTheRuleShown ==
  Editing => \A rule \in 0 .. RuleCount - 1 : Shown(rule) => Clicked(RowOf(rule)) = rule
=============================================================================
