---------------------------- MODULE RemoteEditor ----------------------------
(***************************************************************************)
(* The remote half of `bpe`: the Bubble Tea model (internal/tui/model.go,  *)
(* remote.go), the session it edits (session.go) and the OpenBao client    *)
(* underneath it (internal/baoclient), against a server that other clients *)
(* write to as well.                                                       *)
(*                                                                         *)
(* The editor's Update loop is one actor: every key and every reply is one *)
(* atomic step.  Each remote operation is a goroutine of its own           *)
(* (calls[o], o its remoteOpID): its request may be executed by the        *)
(* server, retried, lost or executed long after the user cancelled it, and *)
(* its reply is posted back to the loop, which accepts or drops it.        *)
(*                                                                         *)
(* A policy's text is a member of Bodies, its writable metadata one of     *)
(* Metas, a diff the pair of texts it compares.  The rule forms, the       *)
(* scrolling screens and the listing's selection are not here; the user    *)
(* may pick any policy name from the browser.                              *)
(***************************************************************************)
EXTENDS Naturals

CONSTANTS
  Names,             \* policy names
  Bodies,            \* policy documents
  Empty,             \* the empty document a new session starts from
  None,              \* no document, no name, no revision
  Ops,               \* remoteOpIDs; bound: goroutines alive at once
  MaxVersion,        \* bound: the versions the server issues for a name
  MaxRetries,        \* defaultMaxRetries: resends of one request
  WriteReplies,      \* what a successful write answers: "empty" (204) or "versioned"
  Reports,           \* whether a read reports a version: a subset of BOOLEAN
  OthersMeta,        \* the metadata other clients give a policy
  AddressConfigured  \* whether --address / BAO_ADDR named a server

Metas == {"none", "set", "odd"}   \* nothing reported; preservable; Unpreservable
Writes == {"create", "update"}
Kinds == Writes \cup {"connect", "list", "open", "look", "reload", "delete"}

ASSUME ConstantsAssumption ==
  /\ Empty \in Bodies
  /\ None \notin Bodies /\ None \notin Names /\ None \notin Ops
  /\ MaxVersion \in Nat /\ MaxRetries \in Nat
  /\ WriteReplies \subseteq {"empty", "versioned"}
  /\ Reports \subseteq BOOLEAN
  /\ OthersMeta \subseteq Metas
  /\ AddressConfigured \in BOOLEAN

VARIABLES
  \* the server
  server,      \* each name's policy; body None when there is none
  issued,      \* each name's highest version so far
  \* remote operations
  calls,       \* the command goroutine of each op
  op,          \* the operation the loop awaits (m.op), None when not m.busy
  \* the screen
  screen, dialog, subject, reviewKind, shown, pending,
  \* the session
  backing, name, exists, rev, original, current,
  \* the rest of the model
  running,     \* the program has not quit
  connected    \* m.store is set

serverVars == <<server, issued>>
opVars == <<calls, op>>
viewVars == <<screen, dialog, subject, reviewKind, shown, pending>>
docVars == <<backing, name, exists, rev, original, current>>
vars == <<serverVars, opVars, viewVars, docVars, running, connected>>

-----------------------------------------------------------------------------
(* Data *)

\* `of` is the text this revision is the revision of.  A read fills it (the
\* code keeps its SHA-256, ContentHash); after a versioned write reply it is
\* a history field.  Nothing in the model's control reads it.
Revision == [has : BOOLEAN, ver : Nat, meta : Metas, of : Bodies \cup {None}]
NoRevision == [has |-> FALSE, ver |-> 0, meta |-> "none", of |-> None]

\* `by` is history: who changed the policy last.
Policy == [body : Bodies \cup {None}, ver : Nat, meta : Metas,
           by : {"editor", "others"}]

Errors == {"", "conflict", "unsupported", "other"}
Reply == [err : Errors, body : Bodies \cup {None}, rev : Revision]
NoReply == [err |-> "", body |-> None, rev |-> NoRevision]
Failure(e) == [NoReply EXCEPT !.err = e]

DiffPair == [left : Bodies, right : Bodies]

\* A command: `wire` while its request may still reach the server, `tries`
\* its resends; `seen` (the diff on screen at dispatch), `consent` (begun by
\* confirming the loss of the edits) and `landed` (the write was executed) are
\* history.
Stages == {"idle", "waiting", "readback", "replied", "gone"}
Call == [kind : Kinds, name : Names \cup {None}, body : Bodies \cup {None},
         rev : Revision, seen : DiffPair \cup {None}, consent : BOOLEAN,
         stage : Stages, wire : BOOLEAN, tries : Nat, landed : BOOLEAN, reply : Reply]
NoCall == [kind |-> "list", name |-> None, body |-> None, rev |-> NoRevision,
           seen |-> None, consent |-> FALSE, stage |-> "idle", wire |-> FALSE, tries |-> 0,
           landed |-> FALSE, reply |-> NoReply]

Busy == op # None
Present(n) == server[n].body # None
Dirty == original # current

-----------------------------------------------------------------------------
(* Operations in flight *)

Request(kind, n) ==
  [NoCall EXCEPT !.kind = kind, !.name = n, !.stage = "waiting"]

Consented(kind, n) == [Request(kind, n) EXCEPT !.consent = TRUE]

\* The code never reuses an id.  It only ever asks whether a reply's id is
\* the awaited one, so an id that no goroutine carries is as good as new.
BeginOp(call) ==
  \E o \in Ops :
    /\ calls[o].stage = "idle"
    /\ calls' = [calls EXCEPT ![o] = call]
    /\ op' = o

CancelOp == op' = None /\ UNCHANGED calls

\* Fault: any reply is taken for the awaited one.
AcceptAnything(o) == running /\ Busy

Accept(o) == running /\ op = o

\* The goroutine is over; a request it left behind may still be executed.
Finished(c) ==
  IF c.wire THEN [c EXCEPT !.stage = "gone", !.reply = NoReply] ELSE NoCall

\* Fault: the reply is handled and the busy state stays.
StayBusy(o) ==
  /\ calls' = [calls EXCEPT ![o] = Finished(@)]
  /\ UNCHANGED op

EndOp(o) ==
  /\ op' = None
  /\ calls' = [calls EXCEPT ![o] = Finished(@)]

\* Fault: metadata in a form the client cannot send is not noticed.
RefuseOnlyWithoutVersion(r) == IF ~r.has THEN "unsupported" ELSE ""

\* Client.Update refuses, before any request, metadata it cannot put back
\* and a revision without a version.
UpdateRefusal(r) ==
  IF r.meta = "odd" THEN "other" ELSE IF ~r.has THEN "unsupported" ELSE ""

WriteCall(r) ==
  LET c == [Request(IF exists THEN "update" ELSE "create", name) EXCEPT
              !.body = current, !.seen = shown]
  IN  IF exists /\ UpdateRefusal(r) # ""
      THEN [c EXCEPT !.stage = "replied", !.reply = Failure(UpdateRefusal(r))]
      ELSE [c EXCEPT !.wire = TRUE, !.rev = IF exists THEN r ELSE NoRevision]

\* `r` is the session's own revision or the reviewed override; a create
\* ignores it.
WritePolicyWith(r) == BeginOp(WriteCall(r))

-----------------------------------------------------------------------------
(* The screen *)

Idle == running /\ ~Busy /\ dialog = "none"
OnScreen(s) == Idle /\ screen = s
Asked(d) == running /\ ~Busy /\ dialog = d

GoTo(s) == screen' = s /\ shown' = None
\* Fault: the looked-at revision outlives the review.
LeaveReviewKeepingLicence == reviewKind' = "save" /\ UNCHANGED pending

LeaveReview == reviewKind' = "save" /\ pending' = None
\* Fault: the diff is shown without what it is against.
ShowWithoutBaseline(l, r) ==
  screen' = "review" /\ shown' = [left |-> None, right |-> r]

ShowDiff(l, r) == screen' = "review" /\ shown' = [left |-> l, right |-> r]
Ask(d, n) == dialog' = d /\ subject' = n
NoQuestion == Ask("none", None)

\* The process exits, and its goroutines with it.
Quit ==
  /\ running' = FALSE
  /\ op' = None
  /\ calls' = [o \in Ops |-> Finished(calls[o])]

AdoptSession(b, n, x, r, text) ==
  /\ backing' = b /\ name' = n /\ exists' = x /\ rev' = r
  /\ original' = text /\ current' = text

\* Any committed change of the document: apply a form, duplicate, remove.
EditDocument ==
  /\ OnScreen("editor")
  /\ current' \in Bodies \ {current}
  /\ UNCHANGED <<serverVars, opVars, viewVars, running, connected,
                 backing, name, exists, rev, original>>

ShowReview ==
  /\ Dirty
  /\ LeaveReview
  /\ ShowDiff(original, current)

PressReview ==
  /\ OnScreen("editor")
  /\ ShowReview
  /\ UNCHANGED <<serverVars, opVars, docVars, dialog, subject, running, connected>>

CloseReview ==
  /\ OnScreen("review")
  /\ LeaveReview
  /\ GoTo("editor")
  /\ UNCHANGED <<serverVars, opVars, docVars, dialog, subject, running, connected>>

PressQuit ==
  /\ OnScreen("editor") \/ OnScreen("review")
  /\ \/ ~Dirty /\ Quit /\ UNCHANGED <<dialog, subject>>
     \/ Dirty /\ Ask("discard", None) /\ UNCHANGED <<running, opVars>>
  /\ UNCHANGED <<serverVars, docVars, screen, reviewKind, shown, pending,
                 connected>>

AnswerDiscard ==
  /\ Asked("discard")
  /\ \/ Quit /\ UNCHANGED viewVars                                    \* d
     \/ /\ NoQuestion
        /\ ShowReview \/ UNCHANGED <<screen, reviewKind, shown, pending>>
        /\ UNCHANGED <<running, opVars>>                           \* s, esc
  /\ UNCHANGED <<serverVars, docVars, connected>>

\* esc and ctrl+c while an operation is in flight.
PressEscapeBusy ==
  /\ running /\ Busy
  /\ CancelOp
  /\ UNCHANGED <<serverVars, viewVars, docVars, running, connected>>

PressQuitBusy ==
  /\ running /\ Busy
  /\ \/ ~Dirty /\ Quit /\ UNCHANGED <<dialog, subject>>
     \/ Dirty /\ CancelOp /\ Ask("discard", None) /\ UNCHANGED running
  /\ UNCHANGED <<serverVars, docVars, screen, reviewKind, shown, pending,
                 connected>>

\* ctrl+s on the save review.
SaveRemote ==
  /\ OnScreen("review") /\ reviewKind = "save" /\ backing = "remote"
  /\ WritePolicyWith(rev)
  /\ UNCHANGED <<serverVars, viewVars, docVars, running, connected>>

\* The same key over a new or local document that is written to a file;
\* a refused file write changes nothing here.
SaveLocal ==
  /\ OnScreen("review") /\ reviewKind = "save" /\ backing = "local"
  /\ GoTo("editor")
  /\ original' = current
  /\ UNCHANGED <<serverVars, opVars, dialog, subject, reviewKind, pending,
                 backing, name, exists, rev, current, running, connected>>

\* ctrl+s on the review of the server's copy; writePolicyWith does nothing
\* for a document without a server.
RetryAfterConflictReview ==
  /\ OnScreen("review") /\ reviewKind = "serverConflict" /\ backing = "remote"
  /\ pending # None
  /\ LeaveReview
  /\ WritePolicyWith(pending)
  /\ UNCHANGED <<serverVars, docVars, screen, shown, dialog, subject, running, connected>>

-----------------------------------------------------------------------------
(* Entering remote mode, the connect, browse and name screens *)

EnterRemote ==
  /\ OnScreen("editor")
  /\ \/ connected /\ GoTo("browse") /\ BeginOp(Request("list", None))
     \/ ~connected /\ AddressConfigured /\ GoTo("connect")
        /\ BeginOp(Request("connect", None))
     \/ ~connected /\ ~AddressConfigured /\ GoTo("connect") /\ UNCHANGED opVars
  /\ UNCHANGED <<serverVars, docVars, dialog, subject, reviewKind, pending,
                 running, connected>>

SubmitConnect ==
  /\ OnScreen("connect")
  /\ BeginOp(Request("connect", None))
  /\ UNCHANGED <<serverVars, viewVars, docVars, running, connected>>

\* esc on the connect, browse and name screens, n on the browser.
Navigate ==
  /\ \/ OnScreen("connect") /\ GoTo("editor")
     \/ OnScreen("browse") /\ (GoTo("editor") \/ GoTo("name"))
     \/ OnScreen("name") /\ GoTo("browse")
  /\ UNCHANGED <<serverVars, opVars, docVars, dialog, subject, reviewKind,
                 pending, running, connected>>

BrowseRefresh ==
  /\ OnScreen("browse") /\ connected
  /\ BeginOp(Request("list", None))
  /\ UNCHANGED <<serverVars, viewVars, docVars, running, connected>>

BrowseOpen ==
  /\ OnScreen("browse") /\ connected /\ ~Dirty
  /\ \E n \in Names : BeginOp(Request("open", n))
  /\ UNCHANGED <<serverVars, viewVars, docVars, running, connected>>

BrowseDelete ==
  /\ OnScreen("browse")
  /\ \E n \in Names : Ask("delete", n)
  /\ UNCHANGED <<serverVars, opVars, docVars, screen, reviewKind, shown,
                 pending, running, connected>>

\* The typed name matches (enter), or the question is cancelled (esc).
AnswerDelete ==
  /\ Asked("delete")
  /\ NoQuestion
  /\ \/ connected /\ BeginOp([Request("delete", subject) EXCEPT !.wire = TRUE])
     \/ UNCHANGED opVars
  /\ UNCHANGED <<serverVars, docVars, screen, reviewKind, shown, pending,
                 running, connected>>

NameNewPolicy ==
  /\ OnScreen("name") /\ connected /\ ~Dirty
  /\ \E n \in Names : AdoptSession("remote", n, FALSE, NoRevision, Empty)
  /\ LeaveReview
  /\ GoTo("editor")
  /\ UNCHANGED <<serverVars, opVars, dialog, subject, running, connected>>

-----------------------------------------------------------------------------
(* The conflict questions *)

FetchServerCopy(call) == backing = "remote" /\ BeginOp(call)

AnswerConflict ==
  /\ Asked("conflict")
  /\ \/ NoQuestion /\ FetchServerCopy(Request("look", name))                        \* v
     \/ Ask("takeServers", None) /\ UNCHANGED opVars                 \* r
     \/ NoQuestion /\ UNCHANGED opVars                               \* esc
  /\ UNCHANGED <<serverVars, docVars, screen, reviewKind, shown, pending,
                 running, connected>>

AnswerTakeServers ==
  /\ Asked("takeServers")
  /\ \/ NoQuestion /\ FetchServerCopy(Consented("reload", name))
     \/ Ask("conflict", None) /\ UNCHANGED opVars
  /\ UNCHANGED <<serverVars, docVars, screen, reviewKind, shown, pending,
                 running, connected>>

AnswerNameTaken ==
  /\ Asked("nameTaken")
  /\ \/ Dirty /\ Ask("draftLoss", subject) /\ UNCHANGED opVars       \* o
     \/ ~Dirty /\ NoQuestion /\ BeginOp(Request("open", subject))    \* o
     \/ NoQuestion /\ UNCHANGED opVars                               \* esc
  /\ UNCHANGED <<serverVars, docVars, screen, reviewKind, shown, pending,
                 running, connected>>

AnswerDraftLoss ==
  /\ Asked("draftLoss")
  /\ \/ NoQuestion /\ BeginOp(Consented("open", subject))
     \/ Ask("nameTaken", subject) /\ UNCHANGED opVars
  /\ UNCHANGED <<serverVars, docVars, screen, reviewKind, shown, pending,
                 running, connected>>

-----------------------------------------------------------------------------
(* The command goroutines and the server *)

\* The command has its result r.  Unless the request may still be executed,
\* what it carried is forgotten.
Settle(c, r) ==
  LET kept == IF c.wire THEN c ELSE NoCall IN
  [kind |-> c.kind, name |-> c.name, body |-> kept.body, rev |-> kept.rev,
   seen |-> kept.seen, consent |-> c.consent, stage |-> "replied",
   wire |-> c.wire, tries |-> 0, landed |-> c.landed, reply |-> r]

Answer(o, r) == calls' = [calls EXCEPT ![o] = Settle(calls[o], r)]

\* The policy as a read reports it now, with or without a version.
Reported(n, v) ==
  [has |-> v, ver |-> IF v THEN server[n].ver ELSE 0, meta |-> server[n].meta,
   of |-> server[n].body]

ServerAnswersList(o) ==
  /\ calls[o].stage = "waiting" /\ calls[o].kind \in {"connect", "list"}
  /\ Answer(o, NoReply)
  /\ UNCHANGED <<serverVars, op, viewVars, docVars, running, connected>>

ServerAnswersRead(o) ==
  LET n == calls[o].name IN
  /\ calls[o].stage = "waiting" /\ calls[o].kind \in {"open", "look", "reload"}
  /\ IF Present(n)
     THEN \E v \in Reports :
            Answer(o, [err |-> "", body |-> server[n].body, rev |-> Reported(n, v)])
     ELSE Answer(o, Failure("other"))
  /\ UNCHANGED <<serverVars, op, viewVars, docVars, running, connected>>

\* cas = -1 demands that there is no policy, cas = v that it is at version v.
CasHolds(c) ==
  IF c.kind = "create" THEN ~Present(c.name)
  ELSE Present(c.name) /\ server[c.name].ver = c.rev.ver

\* The answer to c is lost on the way back: the client resends the request
\* while retries last and its context lives, or gives up.
Unanswered(o, c) ==
  {Settle(c, Failure("other"))} \cup
  (IF c.tries < MaxRetries /\ Accept(o)
   THEN {[c EXCEPT !.wire = TRUE, !.tries = @ + 1]} ELSE {})

\* The server has executed or refused o's request; `next` are the states its
\* answer may leave the command in.  Nobody listens unless o still waits.
Executed(o, c, next) ==
  \E d \in CASE c.stage = "gone" -> {NoCall}
            [] c.stage = "replied" -> {Settle(c, c.reply)}
            [] OTHER -> next \cup Unanswered(o, c) :
    calls' = [calls EXCEPT ![o] = d]

Received(o) == [calls[o] EXCEPT !.wire = FALSE]

\* A write that produced version v answers 204 with no body, which sends the
\* client to read the policy back, or reports v and nothing else.
WriteAnswers(c, v) ==
  {IF k = "empty" THEN [c EXCEPT !.stage = "readback"]
   ELSE Settle(c, [err |-> "", body |-> None,
                   rev |-> [has |-> TRUE, ver |-> v, meta |-> "none", of |-> c.body]])
   : k \in WriteReplies}

\* applyTo: a POST resets the metadata it is not sent, and only what was
\* understood can be sent.
PutBack(m) == IF m = "set" THEN "set" ELSE "none"

WriteLands(o) ==
  LET c == calls[o]  v == issued[c.name] + 1 IN
  /\ c.wire /\ c.kind \in Writes /\ CasHolds(c)
  /\ v <= MaxVersion
  /\ server' = [server EXCEPT ![c.name] =
                  [body |-> c.body, ver |-> v, meta |-> PutBack(c.rev.meta),
                   by |-> "editor"]]
  /\ issued' = [issued EXCEPT ![c.name] = v]
  /\ LET d == [Received(o) EXCEPT !.landed = TRUE] IN
       Executed(o, d, WriteAnswers(d, v))
  /\ UNCHANGED <<op, viewVars, docVars, running, connected>>

\* What a server answers to an update of a policy that is gone is not known:
\* a check-and-set failure or anything else.
WriteRefused(o) ==
  LET c == calls[o] IN
  /\ c.wire /\ c.kind \in Writes /\ ~CasHolds(c)
  /\ \E e \in IF Present(c.name) THEN {"conflict"} ELSE {"conflict", "other"} :
       Executed(o, Received(o), {Settle(Received(o), Failure(e))})
  /\ UNCHANGED <<serverVars, op, viewVars, docVars, running, connected>>

\* No check-and-set here; deleting what is not there succeeds.
DeleteLands(o) ==
  LET c == calls[o] IN
  /\ c.wire /\ c.kind = "delete"
  /\ server' = [server EXCEPT ![c.name] =
                  [body |-> None, ver |-> 0, meta |-> "none", by |-> "editor"]]
  /\ Executed(o, Received(o), {Settle(Received(o), NoReply)})
  /\ UNCHANGED <<issued, op, viewVars, docVars, running, connected>>

\* Cancelled, timed out, refused connection, TLS, 401, 403: the command
\* returns an error; a request already sent may still be executed.
CallFails(o) ==
  /\ calls[o].stage = "waiting"
  /\ Answer(o, Failure("other"))
  /\ UNCHANGED <<serverVars, op, viewVars, docVars, running, connected>>

\* Fault: whatever the read after a write finds is believed.
ReadBackBlindly(o) ==
  LET c == calls[o] IN
  /\ c.stage = "readback"
  /\ \E r \in {NoRevision} \cup
              (IF Present(c.name)
               THEN {Reported(c.name, v) : v \in Reports} ELSE {}) :
       Answer(o, [err |-> "", body |-> None, rev |-> r])
  /\ UNCHANGED <<serverVars, op, viewVars, docVars, running, connected>>

\* revisionAfterWrite: only a read that finds exactly what was written is
\* believed.
ReadBack(o) ==
  LET c == calls[o] IN
  /\ c.stage = "readback"
  /\ \E r \in {NoRevision} \cup
              (IF server[c.name].body = c.body
               THEN {Reported(c.name, v) : v \in Reports} ELSE {}) :
       Answer(o, [err |-> "", body |-> None, rev |-> r])
  /\ UNCHANGED <<serverVars, op, viewVars, docVars, running, connected>>

OthersWrite ==
  /\ \E n \in Names, b \in Bodies, m \in OthersMeta :
       /\ issued[n] < MaxVersion
       /\ server' = [server EXCEPT ![n] =
                       [body |-> b, ver |-> issued[n] + 1, meta |-> m, by |-> "others"]]
       /\ issued' = [issued EXCEPT ![n] = @ + 1]
  /\ UNCHANGED <<opVars, viewVars, docVars, running, connected>>

OthersDelete ==
  /\ \E n \in Names :
       /\ Present(n)
       /\ server' = [server EXCEPT ![n] =
                       [body |-> None, ver |-> 0, meta |-> "none", by |-> "others"]]
  /\ UNCHANGED <<issued, opVars, viewVars, docVars, running, connected>>

-----------------------------------------------------------------------------
(* The replies, as the event loop handles them *)

Replied(o, kinds) ==
  calls[o].stage = "replied" /\ calls[o].kind \in kinds

Succeeded(o, kinds) ==
  Replied(o, kinds) /\ calls[o].reply.err = "" /\ Accept(o) /\ EndOp(o)

\* A reply that is not awaited is discarded in full.
HandleStale(o) ==
  /\ running /\ Replied(o, Kinds) /\ ~Accept(o)
  /\ calls' = [calls EXCEPT ![o] = Finished(@)]
  /\ UNCHANGED <<serverVars, op, viewVars, docVars, running, connected>>

HandleListing(o) ==
  /\ Succeeded(o, {"connect", "list"})
  /\ connected' = TRUE
  /\ GoTo("browse")
  /\ UNCHANGED <<serverVars, docVars, dialog, subject, reviewKind, pending,
                 running>>

HandleOpened(o) ==
  LET c == calls[o] IN
  /\ Succeeded(o, {"open"}) /\ connected
  /\ AdoptSession("remote", c.name, TRUE, c.reply.rev, c.reply.body)
  /\ LeaveReview
  /\ GoTo("editor")
  /\ UNCHANGED <<serverVars, dialog, subject, running, connected>>

\* Fault: the looked-at revision is attached to the session.
HandleLookedTakingRevision(o) ==
  LET r == calls[o].reply IN
  /\ Succeeded(o, {"look"})
  /\ pending' = r.rev /\ rev' = r.rev
  /\ reviewKind' = "serverConflict"
  /\ ShowDiff(r.body, current)
  /\ UNCHANGED <<serverVars, backing, name, exists, original, current, dialog,
                 subject, running, connected>>

\* Looking, not taking: the session is not touched.
HandleLooked(o) ==
  LET r == calls[o].reply IN
  /\ Succeeded(o, {"look"})
  /\ pending' = r.rev
  /\ reviewKind' = "serverConflict"
  /\ ShowDiff(r.body, current)
  /\ UNCHANGED <<serverVars, docVars, dialog, subject, running, connected>>

\* Fault: a reload moves the revision and keeps the old text.
HandleReloadedRevisionOnly(o) ==
  LET r == calls[o].reply IN
  /\ Succeeded(o, {"reload"})
  /\ AdoptSession(backing, name, TRUE, r.rev, original)
  /\ LeaveReview
  /\ GoTo("editor")
  /\ UNCHANGED <<serverVars, dialog, subject, running, connected>>

HandleReloaded(o) ==
  LET r == calls[o].reply IN
  /\ Succeeded(o, {"reload"})
  /\ AdoptSession(backing, name, TRUE, r.rev, r.body)
  /\ LeaveReview
  /\ GoTo("editor")
  /\ UNCHANGED <<serverVars, dialog, subject, running, connected>>

HandleWrote(o) ==
  /\ Succeeded(o, Writes)
  /\ exists' = TRUE
  /\ rev' = calls[o].reply.rev
  /\ original' = current
  /\ GoTo("editor")
  /\ UNCHANGED <<serverVars, dialog, subject, reviewKind, pending, backing,
                 name, current, running, connected>>

HandleDeleted(o) ==
  /\ Succeeded(o, {"delete"})
  /\ IF backing = "remote" /\ name = calls[o].name
     THEN exists' = FALSE /\ rev' = NoRevision
     ELSE UNCHANGED <<exists, rev>>
  /\ UNCHANGED <<serverVars, viewVars, backing, name, original, current,
                 running, connected>>

\* Every branch leaves the session alone.
HandleRemoteErr(o) ==
  LET c == calls[o]  e == c.reply.err IN
  /\ Replied(o, Kinds) /\ e # "" /\ Accept(o) /\ EndOp(o)
  /\ CASE e = "conflict" /\ c.kind = "create" -> Ask("nameTaken", name)
       [] e = "conflict" /\ c.kind # "create" -> Ask("conflict", None)
       [] OTHER -> UNCHANGED <<dialog, subject>>
  /\ IF e = "other" /\ ~connected /\ screen # "connect"
     THEN GoTo("connect") ELSE UNCHANGED <<screen, shown>>
  /\ UNCHANGED <<serverVars, docVars, reviewKind, pending, running, connected>>

-----------------------------------------------------------------------------
(* The whole *)

\* `bpe` with no file, beside a server that already has some policies.
Init ==
  /\ \E held \in [Names -> Bodies \cup {None}], m \in OthersMeta :
       server = [n \in Names |->
                   [body |-> held[n], ver |-> 0,
                    meta |-> IF held[n] = None THEN "none" ELSE m,
                    by |-> "others"]]
  /\ issued = [n \in Names |-> 0]
  /\ calls = [o \in Ops |-> NoCall]
  /\ op = None
  /\ screen = "editor" /\ dialog = "none" /\ subject = None
  /\ reviewKind = "save" /\ shown = None /\ pending = None
  /\ backing = "local" /\ name = None /\ exists = FALSE /\ rev = NoRevision
  /\ original = Empty /\ current = Empty
  /\ running = TRUE /\ connected = FALSE

Edits ==
  \/ EditDocument \/ PressReview \/ CloseReview \/ PressQuit \/ AnswerDiscard
  \/ PressEscapeBusy \/ PressQuitBusy
  \/ SaveRemote \/ SaveLocal \/ RetryAfterConflictReview
Remote ==
  \/ EnterRemote \/ SubmitConnect \/ Navigate
  \/ BrowseRefresh \/ BrowseOpen \/ BrowseDelete \/ AnswerDelete \/ NameNewPolicy
  \/ AnswerConflict \/ AnswerTakeServers \/ AnswerNameTaken \/ AnswerDraftLoss
Commands(o) ==
  \/ ServerAnswersList(o) \/ ServerAnswersRead(o)
  \/ WriteLands(o) \/ WriteRefused(o) \/ DeleteLands(o)
  \/ CallFails(o) \/ ReadBack(o)
Replies(o) ==
  \/ HandleStale(o) \/ HandleListing(o) \/ HandleOpened(o) \/ HandleLooked(o)
  \/ HandleReloaded(o) \/ HandleWrote(o) \/ HandleDeleted(o) \/ HandleRemoteErr(o)

Next ==
  \/ Edits \/ Remote
  \/ \E o \in Ops : Commands(o) \/ Replies(o)
  \/ OthersWrite \/ OthersDelete

\* The HTTP client's timeout ends every request, the read that follows a
\* write included, and the event loop handles every message.  Nothing is
\* assumed of the user, of the network or of the server.
Fairness ==
  \A o \in Ops : WF_vars(CallFails(o)) /\ WF_vars(ReadBack(o)) /\ WF_vars(Replies(o))

Spec == Init /\ [][Next]_vars
FairSpec == Spec /\ Fairness

-----------------------------------------------------------------------------
(* Properties *)

CallsTyped == calls \in [Ops -> Call]
RestTyped ==
  /\ server \in [Names -> Policy] /\ issued \in [Names -> Nat]
  /\ op \in Ops \cup {None}
  /\ screen \in {"editor", "review", "connect", "browse", "name"}
  /\ dialog \in {"none", "discard", "conflict", "takeServers", "nameTaken",
                 "draftLoss", "delete"}
  /\ subject \in Names \cup {None}
  /\ reviewKind \in {"save", "serverConflict"}
  /\ shown \in DiffPair \cup {None} /\ pending \in Revision \cup {None}
  /\ backing \in {"local", "remote"} /\ name \in Names \cup {None}
  /\ exists \in BOOLEAN /\ rev \in Revision
  /\ original \in Bodies /\ current \in Bodies
  /\ running \in BOOLEAN /\ connected \in BOOLEAN
TypeOK == CallsTyped /\ RestTyped

\* An update the server is about to accept replaces exactly the text, by
\* exactly the text, of the diff that was on screen when the user confirmed
\* it: no interleaving of other clients, refused, cancelled or failed writes,
\* looks at the server's copy and edits gets an unseen change overwritten.
OnlyShownContentIsOverwritten ==
  \A o \in Ops :
    LET c == calls[o] IN
    c.wire /\ c.kind = "update" /\ CasHolds(c) =>
      c.seen = [left |-> server[c.name].body, right |-> c.body]

\* The session's baseline and its revision move together: while its version
\* is the server's current one, its original is the server's text.  This is
\* what revisionAfterWrite's comparison and MarkRemoteSaved are for.
MatchingRevisionMeansMatchingText ==
  backing = "remote" /\ exists /\ rev.has /\ Present(name)
    /\ rev.ver = server[name].ver => original = server[name].body

\* The revision a look at the server's copy reported is held only while that
\* very copy is compared on screen with the document as it is.
LicenceOnlyWhileShown ==
  pending # None =>
    /\ screen = "review" /\ reviewKind = "serverConflict"
    /\ shown = [left |-> pending.of, right |-> current]

\* Unsaved edits change only under the user's hands: typed in the editor, or
\* replaced by the reply to the very operation begun by confirming the loss,
\* never by a late, superseded or different reply.
EditsNeedConsent ==
  [][Dirty /\ current' # current =>
       IF Busy THEN calls[op].consent ELSE screen = "editor"]_vars

\* An update by this editor leaves the policy's writable metadata as it was,
\* which a POST would otherwise clear.
MetadataSurvives ==
  [][\A n \in Names :
       server'[n] # server[n] /\ server'[n].by = "editor"
         /\ Present(n) /\ server'[n].body # None
       => server'[n].meta = server[n].meta]_vars

\* The editor never stays locked on an operation: it is answered, fails or
\* is abandoned, however the network and the user behave.
BusyEnds == Busy ~> ~Busy

-----------------------------------------------------------------------------
(* What the documentation says and the code does not do *)

\* "the server was not written to" (model.go): a write answered with a
\* conflict was not executed.
ConflictMeansNotWritten ==
  \A o \in Ops :
    calls[o].stage = "replied" /\ calls[o].reply.err = "conflict" => ~calls[o].landed

\* What the refinement shows the abstract specification.
Confirmed ==
  {[op |-> o, kind |-> calls[o].kind, name |-> calls[o].name,
    left |-> IF calls[o].kind = "update" THEN calls[o].seen.left ELSE None,
    right |-> calls[o].body] : o \in {p \in Ops : calls[p].wire}}

Abstract == INSTANCE ReviewedPolicies WITH
  policies <- [n \in Names |-> [body |-> server[n].body, by |-> server[n].by]],
  confirmed <- Confirmed
AbstractSpec == Abstract!Spec

=============================================================================
