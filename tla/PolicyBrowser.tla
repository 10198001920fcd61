---------------------------- MODULE PolicyBrowser ----------------------------
(***************************************************************************)
(* The browser of the server's policies (internal/tui/remoteview.go) and   *)
(* the handlers of model.go that fill it: a sorted listing, a filter, a    *)
(* highlighted policy, and requests whose answers change the listing while *)
(* the server's policies change by other hands.                            *)
(*                                                                         *)
(* What a request does to the document, and the questions that follow a    *)
(* refused write, are in RemoteEditor; of the document this module keeps   *)
(* which policy it is.                                                     *)
(***************************************************************************)
EXTENDS Integers, Sequences, SequencesExt, Selection

CONSTANTS
  Order,      \* the names of policies, sorted
  Filters,    \* texts of the filter, Blank among them
  Matches,    \* the names each filter leaves visible
  Blank,      \* the empty filter
  None,       \* no policy, no request, no question
  MaxLate     \* bound: cancelled requests the server has yet to see

Names == ToSet(Order)

ASSUME PolicyBrowserAssumption ==
  /\ Order \in Seq(Names)
  /\ Blank \in Filters
  /\ None \notin Names \cup {"done"}
  /\ MaxLate \in Nat

VARIABLES
  server,     \* the policies there are
  connected,  \* whether there is a store
  names,      \* the listing
  selected,   \* the highlighted policy among the visible, counted from 0
  filter,
  filtering,  \* the filter takes the keys
  screen,     \* "editor", "connect", "browse" or "name"
  target,     \* the policy the deletion in question is of, or None
  session,    \* the policy edited (or None), whether it exists, unsaved edits
  op,         \* the request in flight, or None
  late,       \* cancelled requests that may still reach the server
  untold      \* history: names whose existence may have changed since the
              \* browser was last told of it

listing == <<names, selected>>
filters == <<filter, filtering>>
model == <<connected, listing, filters, screen, target, session>>
vars == <<model, server, op, late, untold>>

Kinds == {"connect", "list", "open", "create", "update", "delete"}

\* A request: the server's answer once it has seen the request, the listing
\* that comes with it, and, as history, the names that changed after that.
Request(kind, name) ==
  [kind |-> kind, name |-> name, answer |-> None, list |-> <<>>, since |-> {}]
Seen(r) == r.answer # None
Changes(r) == r.kind \in {"create", "delete"}
Done(r) == Changes(r) /\ r.answer = "done"

-----------------------------------------------------------------------------
(* The listing *)

Sorted(set) == Only(Order, set)

Through(text, list) == Only(list, Matches[text])
Visible == Through(filter, names)

Current == IF selected < Len(Visible) THEN Visible[selected + 1] ELSE None

Index(list, name) == CHOOSE i \in 0 .. Len(list) - 1 : list[i + 1] = name

\* Fault: the highlight keeps its row.
KeepRow(fresh) == Min({selected, Max({0, Len(Through(filter, fresh)) - 1})})

\* The highlighted row of a fresh listing: that of the same policy, if any.
Follow(fresh) ==
  IF Current \in ToSet(Through(filter, fresh)) THEN Index(Through(filter, fresh), Current) ELSE 0

\* Fault: the highlight keeps its row, whether or not there is one.
NoClamp(list) == selected

Clamp(list) == Min({selected, Max({0, Len(list) - 1})})

\* Fault: the listing is left for the next refresh.
NotRemoved(name) == names

Removed(name) == Only(names, Names \ {name})
Added(name) == Sorted(ToSet(names) \cup {name})

-----------------------------------------------------------------------------
(* The server and its other clients *)

\* What the server can do of what is asked; it may refuse that, too.
Possible(r) ==
  /\ r.kind = "create" => r.name \notin server
  /\ r.kind \in {"open", "update"} => r.name \in server

\* The policies there are when it has done it.
After(r) ==
  CASE r.kind = "create" -> server \cup {r.name}
    [] r.kind = "delete" -> server \ {r.name}
    [] OTHER -> server

\* The browser is not told that something became of the policy.
Untold(name) ==
  /\ untold' = untold \cup {name}
  /\ op' = IF op # None /\ Seen(op) THEN [op EXCEPT !.since = @ \cup {name}] ELSE op

OtherClient ==
  /\ \E name \in Names :
       /\ server' \in {server \cup {name}, server \ {name}} \ {server}
       /\ Untold(name)
  /\ UNCHANGED <<model, late>>

Serve ==
  /\ op # None /\ ~Seen(op)
  /\ \/ /\ Possible(op)
        /\ server' = After(op)
        /\ op' = [op EXCEPT !.answer = "done",
                           !.list = IF op.kind \in {"connect", "list"} THEN Sorted(server) ELSE <<>>]
     \/ op' = [op EXCEPT !.answer = "refused"] /\ UNCHANGED server
  /\ UNCHANGED <<model, late, untold>>

\* A request BPE has given up reaches the server, or never does.
ServeLate ==
  /\ \E r \in late :
       /\ late' = late \ {r}
       /\ \/ Possible(r) /\ server' = After(r) /\ Untold(r.name)
          \/ UNCHANGED <<server, op, untold>>
  /\ UNCHANGED model

-----------------------------------------------------------------------------
(* Requests, and their answers *)

Idle == op = None /\ target = None

Begin(kind, name) == op' = Request(kind, name) /\ UNCHANGED <<server, late, untold>>

\* The browser is not told what became of a request it no longer awaits.
GiveUp ==
  /\ op' = None
  /\ late' = IF Changes(op) /\ ~Seen(op) THEN late \cup {op} ELSE late
  /\ untold' = IF Done(op) THEN untold \cup {op.name} ELSE untold
  /\ UNCHANGED server

Cancel ==
  /\ op # None /\ Cardinality(late) < MaxLate
  /\ GiveUp
  /\ UNCHANGED model

\* The connection fails, before the server has seen the request or after; or
\* the answer is a refusal.  Without a store it is the connection that failed.
HandleRemoteErr ==
  /\ op # None
  /\ \/ op.answer = "refused" /\ op' = None /\ UNCHANGED <<server, late, untold>>
     \/ Cardinality(late) < MaxLate /\ GiveUp
  /\ screen' = IF connected THEN screen ELSE "connect"
  /\ UNCHANGED <<connected, listing, filters, target, session>>

Answered(kind) ==
  /\ op # None /\ op.kind = kind /\ op.answer = "done"
  /\ op' = None
  /\ UNCHANGED <<server, late, target>>

\* The browser has been told of the policy, but for what happened since.
Told == untold' = untold \ ({op.name} \ op.since)

HandleConnected ==
  /\ Answered("connect")
  /\ connected' = TRUE
  /\ names' = op.list
  /\ selected' = 0
  /\ filter' = Blank /\ filtering' = FALSE
  /\ screen' = "browse"
  /\ untold' = op.since
  /\ UNCHANGED session

HandleListed ==
  /\ Answered("list")
  /\ names' = op.list
  /\ selected' = Follow(op.list)
  /\ screen' = "browse"
  /\ untold' = op.since
  /\ UNCHANGED <<connected, filters, session>>

HandleOpened ==
  /\ Answered("open")
  /\ session' = [name |-> op.name, exists |-> TRUE, dirty |-> FALSE]
  /\ screen' = "editor"
  /\ UNCHANGED <<connected, listing, filters, untold>>

\* A policy that was created is added to the listing; its row may be one
\* above the highlight, which keeps its own.
HandleWrote ==
  /\ \/ /\ Answered("create")
        /\ names' = Added(op.name)
        /\ Told
     \/ Answered("update") /\ UNCHANGED <<names, untold>>
  /\ session' = [session EXCEPT !.exists = TRUE, !.dirty = FALSE]
  /\ screen' = "editor"
  /\ UNCHANGED <<connected, selected, filters>>

\* The document, if it was this policy, becomes one that is not on the server.
HandleDeleted ==
  /\ Answered("delete")
  /\ names' = Removed(op.name)
  /\ selected' = Clamp(Through(filter, names'))
  /\ session' = IF session.name = op.name THEN [session EXCEPT !.exists = FALSE] ELSE session
  /\ Told
  /\ UNCHANGED <<connected, filters, screen>>

-----------------------------------------------------------------------------
(* The keys *)

On(s) == Idle /\ screen = s
Show(s) == screen' = s /\ UNCHANGED <<connected, listing, filters, target, session>>
Quiet == UNCHANGED <<server, op, late, untold>>

EnterRemote ==
  /\ On("editor")
  /\ \/ connected /\ Show("browse") /\ Begin("list", None)
     \/ ~connected /\ Show("connect") /\ (Quiet \/ Begin("connect", None))

Connect == On("connect") /\ ~connected /\ Begin("connect", None) /\ UNCHANGED model
CancelConnect == On("connect") /\ Show("editor") /\ Quiet

Highlight(row) ==
  /\ On("browse") /\ ~filtering
  /\ selected' = row
  /\ Quiet /\ UNCHANGED <<connected, names, filters, screen, target, session>>

Move(delta) ==
  Highlight(IF Visible = <<>> THEN 0 ELSE (selected + delta + Len(Visible)) % Len(Visible))
Home == Highlight(0)
End == Highlight(Max({0, Len(Visible) - 1}))

Filter(text, focus) ==
  /\ filter' = text /\ filtering' = focus
  /\ Quiet /\ UNCHANGED <<connected, names, screen, target, session>>

OpenFilter == On("browse") /\ ~filtering /\ Filter(filter, TRUE) /\ UNCHANGED selected
TypeFilter ==
  /\ On("browse") /\ filtering
  /\ \E text \in Filters, focus \in BOOLEAN :
       /\ focus \/ text = filter
       /\ selected' = Clamp(Through(text, names))
       /\ Filter(text, focus)

Command == On("browse") /\ ~filtering

Back == Command /\ Show("editor") /\ Quiet
Refresh == Command /\ Begin("list", None) /\ UNCHANGED model
Open == Command /\ Current # None /\ ~session.dirty /\ Begin("open", Current) /\ UNCHANGED model
New == Command /\ Show("name") /\ Quiet

\* The question whether to delete, answered by typing the policy's name.
AskDelete ==
  /\ Command /\ Current # None
  /\ target' = Current
  /\ Quiet /\ UNCHANGED <<connected, listing, filters, screen, session>>

LeaveQuestion == target' = None /\ UNCHANGED <<connected, listing, filters, screen, session>>
DeclineDelete == target # None /\ LeaveQuestion /\ Quiet
ConfirmDelete(typed) ==
  target # None /\ typed = target /\ LeaveQuestion /\ Begin("delete", target)

LeaveName == On("name") /\ Show("browse") /\ Quiet
NameNew ==
  /\ On("name") /\ ~session.dirty
  /\ \E name \in Names : session' = [name |-> name, exists |-> FALSE, dirty |-> FALSE]
  /\ screen' = "editor"
  /\ Quiet /\ UNCHANGED <<connected, listing, filters, target>>

\* Whatever changes the document's bytes; a local document comes to no policy.
Edit ==
  /\ On("editor")
  /\ session' = [session EXCEPT !.dirty = ~@]
  /\ Quiet /\ UNCHANGED <<connected, listing, filters, screen, target>>

Save ==
  /\ On("editor") /\ session.dirty /\ session.name # None
  /\ Begin(IF session.exists THEN "update" ELSE "create", session.name)
  /\ UNCHANGED model

-----------------------------------------------------------------------------

Init ==
  /\ server \in SUBSET Names
  /\ connected = FALSE
  /\ names = <<>> /\ selected = 0 /\ filter = Blank /\ filtering = FALSE
  /\ screen = "editor"
  /\ target = None
  /\ session = [name |-> None, exists |-> FALSE, dirty |-> FALSE]
  /\ op = None
  /\ late = {}
  /\ untold = {}

Next ==
  \/ OtherClient \/ Serve \/ ServeLate
  \/ Cancel \/ HandleRemoteErr
  \/ HandleConnected \/ HandleListed \/ HandleOpened \/ HandleWrote \/ HandleDeleted
  \/ EnterRemote \/ Connect \/ CancelConnect
  \/ \E delta \in {-1, 1} : Move(delta)
  \/ Home \/ End \/ OpenFilter \/ TypeFilter
  \/ Back \/ Refresh \/ Open \/ New
  \/ AskDelete \/ DeclineDelete \/ \E typed \in Names : ConfirmDelete(typed)
  \/ LeaveName \/ NameNew \/ Edit \/ Save

Spec == Init /\ [][Next]_vars

-----------------------------------------------------------------------------
(* Properties *)

Requests ==
  [kind : Kinds, name : Names \cup {None},
   answer : {None, "refused", "done"}, list : {Sorted(s) : s \in SUBSET Names}, since : SUBSET Names]

\* None stands for no request.
ASSUME NoneIsNothing == None \notin Requests

\* Types; and whenever a policy is visible one is highlighted, whatever was
\* added, removed, listed again or filtered out (remoteview.go:327-334).
TypeOK ==
  /\ server \in SUBSET Names
  /\ connected \in BOOLEAN
  /\ names \in {Sorted(s) : s \in SUBSET Names}
  /\ selected \in 0 .. Max({0, Len(Visible) - 1})
  /\ filter \in Filters /\ filtering \in BOOLEAN
  /\ screen \in {"editor", "connect", "browse", "name"}
  /\ target \in Names \cup {None}
  /\ session \in [name : Names \cup {None}, exists : BOOLEAN, dirty : BOOLEAN]
  /\ op # None => op \in Requests
  /\ late \subseteq Requests /\ Cardinality(late) <= MaxLate
  /\ untold \subseteq Names

\* An answer leaves the highlight on the policy it was on, if that is still
\* there (remoteview.go:191-193: "a refresh that silently moves the selection
\* is how the wrong policy gets deleted"), and what is deleted is the policy
\* that is highlighted.  The creation of a policy is the exception: its name
\* is inserted above the highlight, which stays on its row (remoteview.go:221).
HighlightStays ==
  [][ /\ op # None /\ op' = None /\ op.kind \notin {"connect", "create"} =>
           Current' = Current \/ Current \notin ToSet(Visible')
      /\ op # None /\ op.kind = "delete" => op.name = Current
    ]_vars

\* The listing and the server differ only in policies that somebody else, or
\* a request the user was told nothing of, has created or deleted since: what
\* BPE creates and deletes is brought into the listing without a refresh
\* (model.go:1246-1258, 1278-1283).
ListingIsWhatWasTold ==
  connected =>
    LET listed == ToSet(names)
        pending == IF op # None /\ Done(op) THEN {op.name} ELSE {}
    IN  (listed \ server) \cup (server \ listed) \subseteq untold \cup pending
=============================================================================
