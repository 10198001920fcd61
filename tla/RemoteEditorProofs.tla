------------------------- MODULE RemoteEditorProofs -------------------------
(***************************************************************************)
(* What holds of the remote editor for every number of policies, texts,    *)
(* operations, retries and versions, whatever the other clients and the    *)
(* network do, in three parts.                                             *)
(*                                                                         *)
(* The types: the shapes of commands, requests and answers.                *)
(*                                                                         *)
(* Safety: what each of them knows of the server, from which it follows    *)
(* that nothing the user has not seen is overwritten and that no edit is   *)
(* lost unasked.                                                           *)
(*                                                                         *)
(* The server: the editor implements ReviewedPolicies, so that what        *)
(* reaches the server is what the user confirmed, whatever is retried,     *)
(* lost, cancelled or executed late; and an update leaves the policy's     *)
(* metadata as it was.  A confirmed change is a request that may still     *)
(* reach the server, so each step is sorted by what it does to the         *)
(* requests on the wire: none moves, one is sent, one arrives, one is      *)
(* given up.                                                               *)
(***************************************************************************)
EXTENDS RemoteEditorInv, TLAPS

-----------------------------------------------------------------------------
(* The shapes of commands *)

\* The empty records are records of their types.
LEMMA EmptyRecords ==
  /\ NoRevision \in Revision /\ NoReply \in Reply
  /\ NoCall \in Call /\ CallShape(NoCall)
BY ConstantsAssumption
   DEF NoRevision, Revision, NoReply, Reply, NoCall, Call, CallShape, Metas,
       Errors, Kinds, Writes, Stages, ReadKinds

\* A failure is a reply with an error and nothing in it.
LEMMA FailureType ==
  ASSUME NEW e \in Errors
  PROVE  /\ Failure(e) \in Reply
         /\ Failure(e).err = e
BY EmptyRecords DEF Failure, NoReply, Reply, Errors

\* What a new request is made of.
LEMMA RequestType ==
  ASSUME NEW k \in Kinds, NEW n \in Names \cup {None},
         k \notin {"connect", "list"} => n \in Names,
         k \notin Writes
  PROVE  /\ Request(k, n) \in Call /\ CallShape(Request(k, n))
         /\ Request(k, n).stage = "waiting" /\ ~Request(k, n).wire
         /\ Consented(k, n) \in Call /\ CallShape(Consented(k, n))
         /\ Consented(k, n).stage = "waiting" /\ ~Consented(k, n).wire
BY EmptyRecords
   DEF Request, Consented, NoCall, Call, CallShape, Stages, Writes, ReadKinds

\* A command that has its result keeps its type and its shape.
LEMMA SettleType ==
  ASSUME NEW c \in Call, NEW r \in Reply,
         CallShape(c), c.stage # "idle",
         c.kind \in ReadKinds /\ r.err = "" => r.body \in Bodies /\ r.rev.of = r.body
  PROVE  /\ Settle(c, r) \in Call /\ CallShape(Settle(c, r))
         /\ Settle(c, r).stage = "replied"
<1>1. CASE c.wire
  BY <1>1 DEF Settle, Call, CallShape, Stages, Writes, ReadKinds
<1>2. CASE ~c.wire
  BY <1>2, EmptyRecords DEF Settle, NoCall, Call, CallShape, Stages, Writes, ReadKinds
<1> QED
  BY <1>1, <1>2

\* So does one whose goroutine is over.
LEMMA FinishedType ==
  ASSUME NEW c \in Call, CallShape(c)
  PROVE  Finished(c) \in Call /\ CallShape(Finished(c))
<1>1. CASE c.wire
  <2>1. Finished(c) = [c EXCEPT !.stage = "gone", !.reply = NoReply]
    BY <1>1 DEF Finished
  <2> QED
    BY <1>1, <2>1, EmptyRecords DEF Call, CallShape, Stages, Writes, ReadKinds
<1>2. CASE ~c.wire
  BY <1>2, EmptyRecords DEF Finished
<1> QED
  BY <1>1, <1>2

\* A write carries the document under the session's name.
LEMMA WriteCallType ==
  ASSUME NEW r \in Revision, TypeInv, backing = "remote"
  PROVE  /\ WriteCall(r) \in Call /\ CallShape(WriteCall(r))
         /\ WriteCall(r).stage \in {"waiting", "replied"}
<1> DEFINE c == [Request(IF exists THEN "update" ELSE "create", name) EXCEPT
                   !.body = current, !.seen = shown]
<1>1. /\ c \in Call
      /\ c.kind = (IF exists THEN "update" ELSE "create") /\ c.name = name
      /\ c.body = current /\ c.stage = "waiting" /\ ~c.wire
  BY EmptyRecords
     DEF Request, NoCall, Call, Kinds, Writes, Stages, TypeInv, StateOK, RestTyped
<1>2. UpdateRefusal(r) \in Errors
  BY DEF UpdateRefusal, Errors
<1>3. Failure(UpdateRefusal(r)) \in Reply /\ Failure(UpdateRefusal(r)).err = UpdateRefusal(r)
  BY <1>2, FailureType
<1>4. name \in Names /\ current \in Bodies
  BY DEF TypeInv, StateOK, RestTyped
<1> HIDE DEF c
<1>5. CASE exists /\ UpdateRefusal(r) # ""
  <2>1. WriteCall(r) = [c EXCEPT !.stage = "replied", !.reply = Failure(UpdateRefusal(r))]
    BY <1>5 DEF WriteCall, c
  <2> QED
    BY <2>1, <1>1, <1>3, <1>4, <1>5 DEF Call, CallShape, Stages, Writes, ReadKinds
<1>6. CASE ~(exists /\ UpdateRefusal(r) # "")
  <2>1. WriteCall(r) = [c EXCEPT !.wire = TRUE, !.rev = IF exists THEN r ELSE NoRevision]
    BY <1>6 DEF WriteCall, c
  <2> QED
    BY <2>1, <1>1, <1>4, EmptyRecords DEF Call, CallShape, Stages, Writes, ReadKinds
<1> QED
  BY <1>5, <1>6

-----------------------------------------------------------------------------
(* Steps of the commands *)

\* One command changes.
LEMMA OneCall ==
  ASSUME CallsOK, NEW o \in Ops, NEW d \in Call, CallShape(d),
         calls' = [calls EXCEPT ![o] = d]
  PROVE  CallsOK' /\ calls'[o] = d /\ \A p \in Ops \ {o} : calls'[p] = calls[p]
BY DEF CallsOK, CallsTyped, CallShape

\* An operation begins.
LEMMA BeginType ==
  ASSUME CallsOK, NEW d \in Call, CallShape(d), BeginOp(d)
  PROVE  /\ CallsOK' /\ op' \in Ops /\ calls'[op'] = d
         /\ calls[op'].stage = "idle"
         /\ \A p \in Ops \ {op'} : calls'[p] = calls[p]
<1>1. PICK o \in Ops : /\ calls[o].stage = "idle"
                       /\ calls' = [calls EXCEPT ![o] = d]
                       /\ op' = o
  BY DEF BeginOp
<1>2. CallsOK' /\ calls'[o] = d /\ \A p \in Ops \ {o} : calls'[p] = calls[p]
  BY <1>1, OneCall
<1> QED
  BY <1>1, <1>2

\* The process exits.
LEMMA QuitType ==
  ASSUME CallsOK, Quit
  PROVE  CallsOK'
<1>1. \A o \in Ops : Finished(calls[o]) \in Call /\ CallShape(Finished(calls[o]))
  BY FinishedType DEF CallsOK, CallsTyped
<1>2. calls' = [o \in Ops |-> Finished(calls[o])]
  BY DEF Quit
<1>3. \A o \in Ops : calls'[o] = Finished(calls[o])
  BY <1>2
<1>4. calls' \in [Ops -> Call]
  BY <1>1, <1>2
<1>5. \A o \in Ops : CallShape(calls'[o])
  BY <1>1, <1>3
<1> QED
  BY <1>4, <1>5 DEF CallsOK, CallsTyped, CallShape

-----------------------------------------------------------------------------
(* Type correctness *)

\* Commands that do not move keep their types.
LEMMA CallsSame == CallsOK /\ calls' = calls => CallsOK'
BY DEF CallsOK, CallsTyped, CallShape

\* Any two texts can be compared.
LEMMA EmptyDiff == \A l, r \in Bodies : [left |-> l, right |-> r] \in DiffPair
BY DEF DiffPair

\* The keys that leave the commands alone, the replies aside.
LEMMA QuietKeysType ==
  ASSUME TypeInv,
         \/ EditDocument \/ PressReview \/ CloseReview \/ SaveLocal \/ Navigate
         \/ BrowseDelete \/ NameNewPolicy
  PROVE  TypeInv'
<1> USE DEF Idle, OnScreen, Asked, GoTo, LeaveReview, ShowDiff, Ask, NoQuestion,
            Busy, serverVars, opVars, viewVars, docVars
<1>1. CallsOK /\ StateOK /\ Awaiting
  BY DEF TypeInv
<1>2. calls' = calls /\ op' = op /\ ~Busy /\ CallsOK'
  BY <1>1, CallsSame
     DEF EditDocument, PressReview, CloseReview, SaveLocal, Navigate,
         BrowseDelete, NameNewPolicy
<1>3. Awaiting'
  BY <1>2 DEF Awaiting
<1>4. StateOK'
  <2>1. CASE EditDocument
    BY <1>1, <2>1 DEF StateOK, RestTyped, EditDocument
  <2>2. CASE PressReview
    BY <1>1, <2>2, EmptyDiff DEF StateOK, RestTyped, PressReview, ShowReview, Dirty
  <2>3. CASE CloseReview
    BY <1>1, <2>3 DEF StateOK, RestTyped, CloseReview
  <2>4. CASE SaveLocal
    BY <1>1, <2>4 DEF StateOK, RestTyped, SaveLocal
  <2>5. CASE Navigate
    BY <1>1, <2>5 DEF StateOK, RestTyped, Navigate
  <2>6. CASE BrowseDelete
    BY <1>1, <2>6 DEF StateOK, RestTyped, BrowseDelete
  <2>7. CASE NameNewPolicy
    BY <1>1, <2>7, EmptyRecords, ConstantsAssumption DEF StateOK, RestTyped, NameNewPolicy, AdoptSession
  <2> QED
    BY <2>1, <2>2, <2>3, <2>4, <2>5, <2>6, <2>7
<1> QED
  BY <1>2, <1>3, <1>4 DEF TypeInv

\* The keys that may begin an operation.
Began ==
  /\ CallsOK' /\ op' \in Ops /\ calls'[op'].stage \in {"waiting", "replied"}
  /\ dialog' = "none" /\ (calls'[op'].kind \in Writes => backing' = "remote")

\* An operation that begins with a well-shaped command is awaited.
LEMMA BeganType ==
  ASSUME CallsOK, NEW d \in Call, CallShape(d), d.stage \in {"waiting", "replied"},
         BeginOp(d), dialog' = "none", d.kind \in Writes => backing' = "remote"
  PROVE  Began
BY BeginType DEF Began

\* So it is for the requests that write nothing.
LEMMA RequestBegan ==
  ASSUME CallsOK, NEW k \in Kinds \ Writes, NEW n \in Names \cup {None},
         k \notin {"connect", "list"} => n \in Names,
         BeginOp(Request(k, n)) \/ BeginOp(Consented(k, n)), dialog' = "none"
  PROVE  Began
<1>1. PICK d \in {Request(k, n), Consented(k, n)} : BeginOp(d)
  OBVIOUS
<1>2. d \in Call /\ CallShape(d) /\ d.stage = "waiting"
  BY RequestType
<1>3. d.kind = k
  BY EmptyRecords DEF Request, Consented, NoCall, Call
<1> QED
  BY <1>1, <1>2, <1>3, BeganType

\* The keys that may begin an operation keep the types.
LEMMA BeginKeysType ==
  ASSUME TypeInv,
         \/ SaveRemote \/ RetryAfterConflictReview \/ EnterRemote \/ SubmitConnect
         \/ BrowseRefresh \/ BrowseOpen \/ AnswerDelete \/ AnswerConflict
         \/ AnswerTakeServers \/ AnswerNameTaken \/ AnswerDraftLoss
  PROVE  TypeInv'
<1> USE DEF Idle, OnScreen, Asked, GoTo, LeaveReview, Ask, NoQuestion,
            serverVars, opVars, viewVars, docVars
<1>1. CallsOK /\ StateOK /\ Awaiting
  BY DEF TypeInv
<1>2. ~Busy
  BY DEF SaveRemote, RetryAfterConflictReview, EnterRemote, SubmitConnect,
         BrowseRefresh, BrowseOpen, AnswerDelete, AnswerConflict,
         AnswerTakeServers, AnswerNameTaken, AnswerDraftLoss
<1>3. Began \/ (calls' = calls /\ op' = op)
  <2>1. CASE SaveRemote
    <3>1. BeginOp(WriteCall(rev)) /\ backing = "remote" /\ rev \in Revision
          /\ dialog' = "none" /\ backing' = backing
      BY <1>1, <2>1 DEF SaveRemote, WritePolicyWith, StateOK, RestTyped
    <3> QED
      BY <3>1, <1>1, WriteCallType, BeganType DEF TypeInv
  <2>2. CASE RetryAfterConflictReview
    <3>1. BeginOp(WriteCall(pending)) /\ pending \in Revision
          /\ dialog' = "none" /\ backing' = backing
      BY <1>1, <2>2 DEF RetryAfterConflictReview, WritePolicyWith, StateOK, RestTyped
    <3>2. backing = "remote"
      BY <1>1, <2>2 DEF RetryAfterConflictReview
    <3> QED
      BY <3>1, <3>2, <1>1, WriteCallType, BeganType DEF TypeInv
  <2>3. CASE EnterRemote
    BY <1>1, <2>3, RequestBegan
       DEF EnterRemote, FetchServerCopy, StateOK, RestTyped, Kinds, Writes
  <2>4. CASE SubmitConnect
    BY <1>1, <2>4, RequestBegan
       DEF SubmitConnect, FetchServerCopy, StateOK, RestTyped, Kinds, Writes
  <2>5. CASE BrowseRefresh
    BY <1>1, <2>5, RequestBegan
       DEF BrowseRefresh, FetchServerCopy, StateOK, RestTyped, Kinds, Writes
  <2>6. CASE BrowseOpen
    BY <1>1, <2>6, RequestBegan
       DEF BrowseOpen, FetchServerCopy, StateOK, RestTyped, Kinds, Writes
  <2>7. CASE AnswerDelete
    <3>1. CASE BeginOp([Request("delete", subject) EXCEPT !.wire = TRUE])
      <4> DEFINE d == [Request("delete", subject) EXCEPT !.wire = TRUE]
      <4>1. subject \in Names /\ dialog' = "none"
        BY <1>1, <2>7 DEF AnswerDelete, StateOK
      <4>2. Request("delete", subject) \in Call
        BY <4>1, RequestType DEF Kinds, Writes
      <4>3. d \in Call /\ CallShape(d) /\ d.stage = "waiting" /\ d.kind = "delete"
        BY <4>1, <4>2 DEF Request, NoCall, Call, CallShape, Writes, ReadKinds
      <4> QED
        BY <3>1, <4>1, <4>3, <1>1, BeganType DEF Writes
    <3> QED
      BY <2>7, <3>1 DEF AnswerDelete
  <2>8. CASE AnswerConflict
    BY <1>1, <2>8, RequestBegan
       DEF AnswerConflict, FetchServerCopy, StateOK, RestTyped, Kinds, Writes
  <2>9. CASE AnswerTakeServers
    BY <1>1, <2>9, RequestBegan
       DEF AnswerTakeServers, FetchServerCopy, StateOK, RestTyped, Kinds, Writes
  <2>10. CASE AnswerNameTaken
    BY <1>1, <2>10, RequestBegan
       DEF AnswerNameTaken, FetchServerCopy, StateOK, RestTyped, Kinds, Writes
  <2>11. CASE AnswerDraftLoss
    BY <1>1, <2>11, RequestBegan
       DEF AnswerDraftLoss, FetchServerCopy, StateOK, RestTyped, Kinds, Writes
  <2> QED
    BY <2>1, <2>2, <2>3, <2>4, <2>5, <2>6, <2>7, <2>8, <2>9, <2>10, <2>11
<1>4. CallsOK' /\ op' \in Ops \cup {None} /\ Awaiting'
  BY <1>1, <1>2, <1>3, CallsSame DEF Began, Awaiting, Busy, StateOK, RestTyped
<1>5. StateOK'
  <2>1. CASE SaveRemote
    BY <1>1, <1>4, <2>1 DEF StateOK, RestTyped, SaveRemote
  <2>2. CASE RetryAfterConflictReview
    BY <1>1, <1>4, <2>2 DEF StateOK, RestTyped, RetryAfterConflictReview
  <2>3. CASE EnterRemote
    BY <1>1, <1>4, <2>3 DEF StateOK, RestTyped, EnterRemote
  <2>4. CASE SubmitConnect
    BY <1>1, <1>4, <2>4 DEF StateOK, RestTyped, SubmitConnect
  <2>5. CASE BrowseRefresh
    BY <1>1, <1>4, <2>5 DEF StateOK, RestTyped, BrowseRefresh
  <2>6. CASE BrowseOpen
    BY <1>1, <1>4, <2>6 DEF StateOK, RestTyped, BrowseOpen
  <2>7. CASE AnswerDelete
    BY <1>1, <1>4, <2>7 DEF StateOK, RestTyped, AnswerDelete
  <2>8. CASE AnswerConflict
    BY <1>1, <1>4, <2>8 DEF StateOK, RestTyped, AnswerConflict
  <2>9. CASE AnswerTakeServers
    BY <1>1, <1>4, <2>9 DEF StateOK, RestTyped, AnswerTakeServers
  <2>10. CASE AnswerNameTaken
    BY <1>1, <1>4, <2>10 DEF StateOK, RestTyped, AnswerNameTaken
  <2>11. CASE AnswerDraftLoss
    BY <1>1, <1>4, <2>11 DEF StateOK, RestTyped, AnswerDraftLoss
  <2> QED
    BY <2>1, <2>2, <2>3, <2>4, <2>5, <2>6, <2>7, <2>8, <2>9, <2>10, <2>11
<1> QED
  BY <1>4, <1>5 DEF TypeInv

\* The keys that end an operation or the program.
LEMMA EndKeysType ==
  ASSUME TypeInv,
         PressQuit \/ AnswerDiscard \/ PressEscapeBusy \/ PressQuitBusy
  PROVE  TypeInv'
<1> USE DEF Idle, OnScreen, Asked, LeaveReview, ShowDiff, Ask, NoQuestion,
            serverVars, opVars, viewVars, docVars
<1>1. CallsOK /\ StateOK /\ Awaiting
  BY DEF TypeInv
<1>2. \/ Quit
      \/ calls' = calls /\ (op' = None \/ (op' = op /\ ~Busy))
  BY DEF PressQuit, AnswerDiscard, PressEscapeBusy, PressQuitBusy, CancelOp
<1>3. CallsOK'
  BY <1>1, <1>2, QuitType, CallsSame
<1>4. ~Busy'
  BY <1>2 DEF Quit, Busy
<1>5. StateOK'
  <2>1. CASE PressQuit
    BY <1>1, <1>4, <2>1 DEF StateOK, RestTyped, PressQuit, Quit, Busy
  <2>2. CASE AnswerDiscard
    BY <1>1, <1>4, <2>2, EmptyDiff
       DEF StateOK, RestTyped, AnswerDiscard, Quit, ShowReview, Busy
  <2>3. CASE PressEscapeBusy
    BY <1>1, <1>4, <2>3 DEF StateOK, RestTyped, PressEscapeBusy, Busy
  <2>4. CASE PressQuitBusy
    BY <1>1, <1>4, <2>4 DEF StateOK, RestTyped, PressQuitBusy, Quit, Busy
  <2> QED
    BY <2>1, <2>2, <2>3, <2>4
<1> QED
  BY <1>3, <1>4, <1>5 DEF TypeInv, Awaiting

-----------------------------------------------------------------------------
(* The commands and the replies keep the types *)

\* One command takes a step of its own.
LEMMA CommandStep ==
  ASSUME CallsOK, Awaiting, NEW o \in Ops, NEW d \in Call, CallShape(d),
         d.kind = calls[o].kind,
         op = o => d.stage \in {"waiting", "readback", "replied"},
         calls' = [calls EXCEPT ![o] = d], UNCHANGED <<op, dialog, backing>>
  PROVE  CallsOK' /\ Awaiting'
<1>1. CallsOK' /\ calls'[o] = d /\ \A p \in Ops \ {o} : calls'[p] = calls[p]
  BY OneCall
<1>2. op \in Ops /\ op # o => calls'[op] = calls[op]
  BY <1>1
<1> QED
  BY <1>1, <1>2 DEF Awaiting, Busy, CallsOK, CallsTyped

\* A command nobody awaits may become anything of its type.
LEMMA CommandForgotten ==
  ASSUME CallsOK, Awaiting, NEW o \in Ops, op # o,
         NEW d \in Call, CallShape(d),
         calls' = [calls EXCEPT ![o] = d], UNCHANGED <<op, dialog, backing>>
  PROVE  CallsOK' /\ Awaiting'
<1>1. CallsOK' /\ calls'[o] = d /\ \A p \in Ops \ {o} : calls'[p] = calls[p]
  BY OneCall
<1>2. op \in Ops => calls'[op] = calls[op]
  BY <1>1
<1> QED
  BY <1>1, <1>2 DEF Awaiting, Busy, CallsOK, CallsTyped

\* A command gets its result.
LEMMA AnswerType ==
  ASSUME CallsOK, Awaiting, NEW o \in Ops, NEW r \in Reply,
         calls[o].stage # "idle",
         calls[o].kind \in ReadKinds /\ r.err = ""
           => r.body \in Bodies /\ r.rev.of = r.body,
         Answer(o, r), UNCHANGED <<op, dialog, backing>>
  PROVE  CallsOK' /\ Awaiting'
<1>1. calls[o] \in Call /\ CallShape(calls[o])
  BY DEF CallsOK, CallsTyped
<1>2. /\ Settle(calls[o], r) \in Call /\ CallShape(Settle(calls[o], r))
      /\ Settle(calls[o], r).stage = "replied"
  BY <1>1, SettleType
<1>3. Settle(calls[o], r).kind = calls[o].kind
  BY DEF Settle
<1> QED
  BY <1>2, <1>3, CommandStep DEF Answer

\* A request that was executed or refused leaves the wire.
LEMMA ReceivedType ==
  ASSUME CallsOK, NEW o \in Ops, calls[o].wire,
         NEW c \in {Received(o), [Received(o) EXCEPT !.landed = TRUE]}
  PROVE  /\ c \in Call /\ CallShape(c) /\ ~c.wire
         /\ c.stage = calls[o].stage /\ c.stage \notin {"idle", "readback"}
         /\ c.kind = calls[o].kind /\ c.kind \in Writes \cup {"delete"}
         /\ c.name = calls[o].name /\ c.name \in Names
         /\ c.rev = calls[o].rev /\ c.seen = calls[o].seen
         /\ c.body = calls[o].body /\ (c.kind \in Writes => c.body \in Bodies)
<1>1. calls[o] \in Call /\ CallShape(calls[o])
  BY DEF CallsOK, CallsTyped
<1> DEFINE w == calls[o]
<1>2. w \in Call /\ CallShape(w) /\ w.wire
  BY <1>1
<1>3. c = [w EXCEPT !.wire = FALSE] \/ c = [w EXCEPT !.wire = FALSE, !.landed = TRUE]
  BY DEF Received
<1> HIDE DEF w
<1>4. /\ c \in Call /\ ~c.wire /\ c.stage = w.stage /\ c.kind = w.kind
      /\ c.name = w.name /\ c.rev = w.rev /\ c.seen = w.seen /\ c.body = w.body
      /\ c.reply = w.reply
  BY <1>2, <1>3 DEF Call
<1>5. w.stage \notin {"idle", "readback"} /\ w.kind \in Writes \cup {"delete"} /\ w.name \in Names
  BY <1>2 DEF CallShape, Writes
<1>6. CallShape(c)
  BY <1>2, <1>4 DEF CallShape
<1> QED
  BY <1>2, <1>4, <1>5, <1>6 DEF w, CallShape

\* Whatever becomes of an executed request, its command keeps its type.
LEMMA ExecutedType ==
  ASSUME CallsOK, Awaiting, NEW o \in Ops, calls[o].wire,
         NEW c \in {Received(o), [Received(o) EXCEPT !.landed = TRUE]},
         NEW next,
         \A d \in next : d \in Call /\ CallShape(d) /\ d.kind = c.kind
                         /\ d.stage \in {"readback", "replied"},
         Executed(o, c, next), UNCHANGED <<op, dialog, backing>>
  PROVE  CallsOK' /\ Awaiting'
<1>1. /\ c \in Call /\ CallShape(c) /\ ~c.wire
      /\ c.stage = calls[o].stage /\ c.stage \notin {"idle", "readback"}
      /\ c.kind = calls[o].kind /\ c.kind \in Writes \cup {"delete"}
      /\ c.name \in Names /\ (c.kind \in Writes => c.body \in Bodies)
  BY ReceivedType
<1>2. c.kind \notin ReadKinds
  BY <1>1 DEF Writes, ReadKinds
<1>3. CASE c.stage = "gone"
  <2>1. calls' = [calls EXCEPT ![o] = NoCall]
    BY <1>3 DEF Executed
  <2>2. op # o
    BY <1>1, <1>3, ConstantsAssumption DEF Awaiting, Busy
  <2> QED
    BY <2>1, <2>2, EmptyRecords, CommandForgotten
<1>4. CASE c.stage = "replied"
  <2>1. calls' = [calls EXCEPT ![o] = Settle(c, c.reply)]
    BY <1>4 DEF Executed
  <2>2. c.reply \in Reply
    BY <1>1 DEF Call
  <2>3. /\ Settle(c, c.reply) \in Call /\ CallShape(Settle(c, c.reply))
        /\ Settle(c, c.reply).stage = "replied"
        /\ Settle(c, c.reply).kind = c.kind
    BY <1>1, <1>2, <2>2, SettleType DEF Settle
  <2> QED
    BY <1>1, <2>1, <2>3, CommandStep
<1>5. CASE c.stage \notin {"gone", "replied"}
  <2>1. PICK d \in next \cup Unanswered(o, c) : calls' = [calls EXCEPT ![o] = d]
    BY <1>5 DEF Executed
  <2>2. /\ d \in Call /\ CallShape(d) /\ d.kind = c.kind
        /\ d.stage \in {"waiting", "readback", "replied"}
    <3>1. CASE d \in next
      BY <3>1
    <3>2. CASE d = Settle(c, Failure("other"))
      <4>1. Failure("other") \in Reply
        BY FailureType DEF Errors
      <4> QED
        BY <1>1, <1>2, <3>2, <4>1, SettleType DEF Settle
    <3>3. CASE d = [c EXCEPT !.wire = TRUE, !.tries = @ + 1]
      <4>1. /\ d \in Call /\ d.stage = c.stage /\ d.kind = c.kind /\ d.name = c.name
            /\ d.body = c.body /\ d.wire /\ d.reply = c.reply
        <5>1. c.tries \in Nat /\ c.tries + 1 \in Nat
          BY <1>1 DEF Call
        <5> DEFINE t == c.tries + 1
        <5>2. d = [c EXCEPT !.wire = TRUE, !.tries = t] /\ t \in Nat
          BY <3>3, <5>1
        <5> HIDE DEF t
        <5> QED
          BY <1>1, <5>2 DEF Call
      <4>2. d.stage = "waiting"
        BY <1>1, <1>5, <4>1 DEF Call, Stages
      <4> QED
        BY <1>1, <4>1, <4>2 DEF CallShape
    <3> QED
      BY <2>1, <3>1, <3>2, <3>3 DEF Unanswered
  <2> QED
    BY <1>1, <2>1, <2>2, CommandStep
<1> QED
  BY <1>3, <1>4, <1>5

\* What a read reports is a revision of the text it returns.
LEMMA ReportedType ==
  ASSUME StateOK, NEW n \in Names, NEW v \in Reports
  PROVE  /\ Reported(n, v) \in Revision
         /\ Reported(n, v).of = server[n].body
         /\ Reported(n, v).ver = (IF v THEN server[n].ver ELSE 0)
         /\ Reported(n, v).has = v
BY ConstantsAssumption DEF StateOK, RestTyped, Policy, Reported, Revision

\* The answers to a write are commands of the write, answered or about to
\* read back.
LEMMA WriteAnswersType ==
  ASSUME CallsOK, NEW o \in Ops, calls[o].wire, calls[o].kind \in Writes,
         NEW v \in Nat,
         NEW c, c = [Received(o) EXCEPT !.landed = TRUE],
         NEW d \in WriteAnswers(c, v)
  PROVE  d \in Call /\ CallShape(d) /\ d.kind = c.kind /\ d.stage \in {"readback", "replied"}
<1>1. /\ c \in Call /\ CallShape(c) /\ ~c.wire /\ c.stage # "idle"
      /\ c.kind \in Writes /\ c.name \in Names /\ c.body \in Bodies
  BY ReceivedType
<1>2. c.kind \notin ReadKinds
  BY <1>1 DEF Writes, ReadKinds
<1>3. CASE d = [c EXCEPT !.stage = "readback"]
  BY <1>1, <1>3 DEF Call, CallShape, Stages, Writes, ReadKinds
<1>4. CASE d = Settle(c, [err |-> "", body |-> None,
                 rev |-> [has |-> TRUE, ver |-> v, meta |-> "none", of |-> c.body]])
  <2>1. [has |-> TRUE, ver |-> v, meta |-> "none", of |-> c.body] \in Revision
    BY <1>1 DEF Revision, Metas
  <2> DEFINE r == [err |-> "", body |-> None,
                 rev |-> [has |-> TRUE, ver |-> v, meta |-> "none", of |-> c.body]]
  <2>2. r \in Reply
    BY <2>1 DEF Reply, Errors
  <2> HIDE DEF r
  <2>3. d = Settle(c, r)
    BY <1>4 DEF r
  <2> QED
    BY <1>1, <1>2, <2>2, <2>3, SettleType DEF Settle
<1> QED
  BY <1>3, <1>4 DEF WriteAnswers

\* What is not a command and does not move keeps its type.
LEMMA StateSame ==
  ASSUME StateOK,
         UNCHANGED <<serverVars, op, viewVars, docVars, running, connected>>
  PROVE  StateOK'
BY DEF StateOK, RestTyped, serverVars, viewVars, docVars

\* A step of a command or of the server on its behalf.
LEMMA CommandsType ==
  ASSUME TypeInv, NEW o \in Ops, Commands(o)
  PROVE  TypeInv'
<1> USE DEF serverVars, viewVars, docVars
<1>1. CallsOK /\ StateOK /\ Awaiting
  BY DEF TypeInv
<1>2. calls[o] \in Call /\ CallShape(calls[o])
  BY <1>1 DEF CallsOK, CallsTyped
<1>3. UNCHANGED <<op, dialog, backing>>
  BY DEF Commands, ServerAnswersList, ServerAnswersRead, WriteLands, WriteRefused,
         DeleteLands, CallFails, ReadBack
<1>4. /\ calls[o].stage # "idle" /\ calls[o].kind \notin {"connect", "list"}
           => calls[o].name \in Names
      /\ calls[o].wire => calls[o].stage # "idle" /\ calls[o].name \in Names
      /\ calls[o].wire /\ calls[o].kind \in Writes => calls[o].body \in Bodies
  BY <1>2 DEF CallShape, Writes
<1>5. \A e \in Errors : Failure(e) \in Reply /\ Failure(e).err = e
  BY FailureType
<1>6. CASE ServerAnswersList(o)
  <2>1. calls[o].kind \notin ReadKinds
    BY <1>6 DEF ServerAnswersList, ReadKinds
  <2>2. CallsOK' /\ Awaiting'
    BY <1>1, <1>3, <1>6, <2>1, EmptyRecords, AnswerType DEF ServerAnswersList
  <2>3. StateOK'
    BY <1>1, <1>6 DEF StateOK, RestTyped, ServerAnswersList
  <2> QED
    BY <2>2, <2>3 DEF TypeInv
<1>7. CASE ServerAnswersRead(o)
  <2> DEFINE n == calls[o].name
  <2>1. n \in Names /\ calls[o].stage # "idle"
    BY <1>4, <1>7 DEF ServerAnswersRead
  <2>2. CallsOK' /\ Awaiting'
    <3>1. CASE Present(n)
      <4>1. PICK v \in Reports :
              Answer(o, [err |-> "", body |-> server[n].body, rev |-> Reported(n, v)])
        BY <1>7, <3>1 DEF ServerAnswersRead
      <4>2. server[n].body \in Bodies
        BY <1>1, <2>1, <3>1 DEF Present, StateOK, RestTyped, Policy
      <4>3. Reported(n, v) \in Revision /\ Reported(n, v).of = server[n].body
        BY <1>1, <2>1, ReportedType
      <4> DEFINE r == [err |-> "", body |-> server[n].body, rev |-> Reported(n, v)]
      <4>4. r \in Reply /\ r.body \in Bodies /\ r.rev.of = r.body
        BY <4>2, <4>3 DEF Reply, Errors
      <4> HIDE DEF n, r
      <4>5. Answer(o, r)
        BY <4>1 DEF r
      <4> QED
        BY <1>1, <1>3, <2>1, <4>4, <4>5, AnswerType
    <3>2. CASE ~Present(n)
      <4>1. Answer(o, Failure("other"))
        BY <1>7, <3>2 DEF ServerAnswersRead
      <4> QED
        BY <1>1, <1>3, <1>5, <2>1, <4>1, AnswerType DEF Errors
    <3> QED
      BY <3>1, <3>2
  <2>3. UNCHANGED <<serverVars, op, viewVars, docVars, running, connected>>
    BY <1>7 DEF ServerAnswersRead
  <2> QED
    BY <1>1, <2>2, <2>3, StateSame DEF TypeInv
<1>8. CASE WriteLands(o)
  <2> DEFINE c == calls[o]
             v == issued[c.name] + 1
             d == [Received(o) EXCEPT !.landed = TRUE]
  <2>1. /\ c.wire /\ c.kind \in Writes /\ c.name \in Names /\ c.body \in Bodies
        /\ issued[c.name] \in Nat /\ v \in Nat
    BY <1>1, <1>4, <1>8 DEF WriteLands, StateOK, RestTyped
  <2>2. /\ server' = [server EXCEPT ![c.name] =
                        [body |-> c.body, ver |-> v, meta |-> PutBack(c.rev.meta),
                         by |-> "editor"]]
        /\ issued' = [issued EXCEPT ![c.name] = v]
        /\ Executed(o, d, WriteAnswers(d, v))
    BY <1>8 DEF WriteLands
  <2>3. \A x \in WriteAnswers(d, v) :
          x \in Call /\ CallShape(x) /\ x.kind = d.kind /\ x.stage \in {"readback", "replied"}
    BY <1>1, <2>1, WriteAnswersType
  <2>4. CallsOK' /\ Awaiting'
    <3> HIDE DEF v
    <3> QED
      BY <1>1, <1>3, <2>1, <2>2, <2>3, ExecutedType
  <2>5. PutBack(c.rev.meta) \in Metas
    BY DEF PutBack, Metas
  <2>6. server' \in [Names -> Policy] /\ issued' \in [Names -> Nat]
    <3> HIDE DEF c, v, d
    <3> QED
      BY <1>1, <2>1, <2>2, <2>5 DEF StateOK, RestTyped, Policy
  <2>7. StateOK'
    BY <1>1, <1>8, <2>6 DEF StateOK, RestTyped, WriteLands
  <2> QED
    BY <2>4, <2>7 DEF TypeInv
<1>9. CASE WriteRefused(o)
  <2> DEFINE d == Received(o)
  <2>1. PICK e \in {"conflict", "other"} : Executed(o, d, {Settle(d, Failure(e))})
    BY <1>9 DEF WriteRefused
  <2>2. calls[o].wire
    BY <1>9 DEF WriteRefused
  <2>3. /\ d \in Call /\ CallShape(d) /\ d.stage # "idle"
        /\ d.kind \in Writes \cup {"delete"}
    BY <1>1, <2>2, ReceivedType
  <2>4. d.kind \notin ReadKinds
    BY <2>3 DEF Writes, ReadKinds
  <2>5. /\ Settle(d, Failure(e)) \in Call /\ CallShape(Settle(d, Failure(e)))
        /\ Settle(d, Failure(e)).stage = "replied"
        /\ Settle(d, Failure(e)).kind = d.kind
    BY <1>5, <2>3, <2>4, SettleType DEF Errors, Settle
  <2>6. CallsOK' /\ Awaiting'
    <3> DEFINE next == {Settle(d, Failure(e))}
    <3>1. \A x \in next : x \in Call /\ CallShape(x) /\ x.kind = d.kind
                             /\ x.stage \in {"readback", "replied"}
      BY <2>5
    <3>2. Executed(o, d, next) /\ d \in {Received(o), [Received(o) EXCEPT !.landed = TRUE]}
      BY <2>1
    <3> HIDE DEF d, next
    <3> QED
      BY <1>1, <1>3, <2>2, <3>1, <3>2, ExecutedType
  <2>7. StateOK'
    BY <1>1, <1>9 DEF StateOK, RestTyped, WriteRefused
  <2> QED
    BY <2>6, <2>7 DEF TypeInv
<1>10. CASE DeleteLands(o)
  <2> DEFINE d == Received(o)
  <2>1. Executed(o, d, {Settle(d, NoReply)}) /\ calls[o].wire
    BY <1>10 DEF DeleteLands
  <2>2. /\ d \in Call /\ CallShape(d) /\ d.stage # "idle"
        /\ d.kind \in Writes \cup {"delete"}
    BY <1>1, <2>1, ReceivedType
  <2>3. d.kind \notin ReadKinds
    BY <2>2 DEF Writes, ReadKinds
  <2>4. /\ Settle(d, NoReply) \in Call /\ CallShape(Settle(d, NoReply))
        /\ Settle(d, NoReply).stage = "replied"
        /\ Settle(d, NoReply).kind = d.kind
    BY <2>2, <2>3, EmptyRecords, SettleType DEF Settle
  <2>5. CallsOK' /\ Awaiting'
    <3> DEFINE next == {Settle(d, NoReply)}
    <3>1. \A x \in next : x \in Call /\ CallShape(x) /\ x.kind = d.kind
                             /\ x.stage \in {"readback", "replied"}
      BY <2>4
    <3>2. Executed(o, d, next) /\ d \in {Received(o), [Received(o) EXCEPT !.landed = TRUE]}
      BY <2>1
    <3> HIDE DEF d, next
    <3> QED
      BY <1>1, <1>3, <2>1, <3>1, <3>2, ExecutedType
  <2>6. server' \in [Names -> Policy]
    BY <1>1, <1>10 DEF StateOK, RestTyped, Policy, DeleteLands, Metas
  <2>7. StateOK'
    BY <1>1, <1>10, <2>6 DEF StateOK, RestTyped, DeleteLands
  <2> QED
    BY <2>5, <2>7 DEF TypeInv
<1>11. CASE CallFails(o)
  <2>1. CallsOK' /\ Awaiting'
    BY <1>1, <1>3, <1>5, <1>11, AnswerType DEF CallFails, Errors
  <2>2. StateOK'
    BY <1>1, <1>11 DEF StateOK, RestTyped, CallFails
  <2> QED
    BY <2>1, <2>2 DEF TypeInv
<1>12. CASE ReadBack(o)
  <2>1. calls[o].kind \in Writes /\ calls[o].stage # "idle"
    BY <1>2, <1>12 DEF ReadBack, CallShape
  <2>2. calls[o].name \in Names /\ calls[o].kind \notin ReadKinds
    BY <1>4, <2>1 DEF Writes, ReadKinds
  <2>3. PICK r \in {NoRevision} \cup {Reported(calls[o].name, v) : v \in Reports} :
          Answer(o, [err |-> "", body |-> None, rev |-> r])
    BY <1>12 DEF ReadBack
  <2>4. r \in Revision
    BY <1>1, <2>2, EmptyRecords, ReportedType
  <2>5. [err |-> "", body |-> None, rev |-> r] \in Reply
    BY <2>4 DEF Reply, Errors
  <2>6. CallsOK' /\ Awaiting'
    BY <1>1, <1>3, <2>1, <2>2, <2>3, <2>5, AnswerType
  <2>7. UNCHANGED <<serverVars, op, viewVars, docVars, running, connected>>
    BY <1>12 DEF ReadBack
  <2> QED
    BY <1>1, <2>6, <2>7, StateSame DEF TypeInv
<1> QED
  BY <1>6, <1>7, <1>8, <1>9, <1>10, <1>11, <1>12 DEF Commands

\* The goroutine of a reply is over.
LEMMA EndOpType ==
  ASSUME CallsOK, NEW o \in Ops, EndOp(o)
  PROVE  CallsOK' /\ ~Busy' /\ Awaiting'
<1>1. Finished(calls[o]) \in Call /\ CallShape(Finished(calls[o]))
  BY FinishedType DEF CallsOK, CallsTyped
<1>2. calls' = [calls EXCEPT ![o] = Finished(calls[o])] /\ op' = None
  BY DEF EndOp
<1>3. CallsOK'
  BY <1>1, <1>2, OneCall
<1> QED
  BY <1>2, <1>3 DEF Busy, Awaiting

\* What a successful read brings back.
LEMMA ReadReplyType ==
  ASSUME CallsOK, NEW o \in Ops, Replied(o, Kinds), calls[o].reply.err = ""
  PROVE  /\ calls[o].reply.rev \in Revision
         /\ calls[o].kind \in ReadKinds =>
              calls[o].name \in Names /\ calls[o].reply.body \in Bodies
<1>1. calls[o] \in Call /\ CallShape(calls[o]) /\ calls[o].stage = "replied"
  BY DEF CallsOK, CallsTyped, Replied
<1> QED
  BY <1>1 DEF Call, CallShape, Reply, ReadKinds

\* Handling a reply.
LEMMA RepliesType ==
  ASSUME TypeInv, NEW o \in Ops, Replies(o)
  PROVE  TypeInv'
<1> USE DEF serverVars, viewVars, docVars, GoTo, LeaveReview, ShowDiff, Ask
<1>1. CallsOK /\ StateOK /\ Awaiting
  BY DEF TypeInv
<1>2. Replied(o, Kinds)
  BY DEF Replies, HandleStale, HandleListing, HandleOpened, HandleLooked,
         HandleReloaded, HandleWrote, HandleDeleted, HandleRemoteErr, Succeeded,
         Replied, Kinds, Writes
<1>3. CASE HandleStale(o)
  <2>1. op # o /\ UNCHANGED <<op, dialog, backing>>
    BY <1>3 DEF HandleStale, Accept
  <2>2. Finished(calls[o]) \in Call /\ CallShape(Finished(calls[o]))
    BY <1>1, FinishedType DEF CallsOK, CallsTyped
  <2>3. calls' = [calls EXCEPT ![o] = Finished(calls[o])]
    BY <1>3 DEF HandleStale
  <2>4. CallsOK' /\ Awaiting'
    BY <1>1, <2>1, <2>2, <2>3, CommandForgotten
  <2>5. UNCHANGED <<serverVars, op, viewVars, docVars, running, connected>>
    BY <1>3 DEF HandleStale
  <2> QED
    BY <1>1, <2>4, <2>5, StateSame DEF TypeInv
<1>4. CASE HandleListing(o)
  <2>1. CallsOK' /\ ~Busy' /\ Awaiting'
    BY <1>1, <1>4, EndOpType DEF HandleListing, Succeeded
  <2>2. StateOK'
    BY <1>1, <1>4, <2>1 DEF StateOK, RestTyped, HandleListing, Busy
  <2> QED
    BY <2>1, <2>2 DEF TypeInv
<1>5. CASE HandleOpened(o)
  <2>1. CallsOK' /\ ~Busy' /\ Awaiting'
    BY <1>1, <1>5, EndOpType DEF HandleOpened, Succeeded
  <2>2. /\ calls[o].reply.rev \in Revision /\ calls[o].name \in Names
        /\ calls[o].reply.body \in Bodies
    BY <1>1, <1>2, <1>5, ReadReplyType
       DEF HandleOpened, Succeeded, Replied, ReadKinds
  <2>3. StateOK'
    BY <1>1, <1>5, <2>1, <2>2
       DEF StateOK, RestTyped, HandleOpened, AdoptSession, Busy
  <2> QED
    BY <2>1, <2>3 DEF TypeInv
<1>6. CASE HandleLooked(o)
  <2>1. CallsOK' /\ ~Busy' /\ Awaiting'
    BY <1>1, <1>6, EndOpType DEF HandleLooked, Succeeded
  <2>2. calls[o].reply.rev \in Revision /\ calls[o].reply.body \in Bodies
    BY <1>1, <1>2, <1>6, ReadReplyType
       DEF HandleLooked, Succeeded, Replied, ReadKinds
  <2>3. [left |-> calls[o].reply.body, right |-> current] \in DiffPair
    BY <1>1, <2>2, EmptyDiff DEF StateOK, RestTyped
  <2>4. StateOK'
    BY <1>1, <1>6, <2>1, <2>2, <2>3 DEF StateOK, RestTyped, HandleLooked, Busy
  <2> QED
    BY <2>1, <2>4 DEF TypeInv
<1>7. CASE HandleReloaded(o)
  <2>1. CallsOK' /\ ~Busy' /\ Awaiting'
    BY <1>1, <1>7, EndOpType DEF HandleReloaded, Succeeded
  <2>2. calls[o].reply.rev \in Revision /\ calls[o].reply.body \in Bodies
    BY <1>1, <1>2, <1>7, ReadReplyType
       DEF HandleReloaded, Succeeded, Replied, ReadKinds
  <2>3. StateOK'
    BY <1>1, <1>7, <2>1, <2>2
       DEF StateOK, RestTyped, HandleReloaded, AdoptSession, Busy
  <2> QED
    BY <2>1, <2>3 DEF TypeInv
<1>8. CASE HandleWrote(o)
  <2>1. CallsOK' /\ ~Busy' /\ Awaiting'
    BY <1>1, <1>8, EndOpType DEF HandleWrote, Succeeded
  <2>2. calls[o].reply.rev \in Revision
    BY <1>1, <1>2, <1>8, ReadReplyType DEF HandleWrote, Succeeded
  <2>3. StateOK'
    BY <1>1, <1>8, <2>1, <2>2 DEF StateOK, RestTyped, HandleWrote, Busy
  <2> QED
    BY <2>1, <2>3 DEF TypeInv
<1>9. CASE HandleDeleted(o)
  <2>1. CallsOK' /\ ~Busy' /\ Awaiting'
    BY <1>1, <1>9, EndOpType DEF HandleDeleted, Succeeded
  <2>2. StateOK'
    <3>1. exists' \in BOOLEAN /\ rev' \in Revision
      BY <1>1, <1>9, EmptyRecords DEF StateOK, RestTyped, HandleDeleted
    <3>2. UNCHANGED <<serverVars, viewVars, backing, name, original, current,
                      running, connected>>
      BY <1>9 DEF HandleDeleted
    <3> QED
      BY <1>1, <2>1, <3>1, <3>2 DEF StateOK, RestTyped, Busy
  <2> QED
    BY <2>1, <2>2 DEF TypeInv
<1>10. CASE HandleRemoteErr(o)
  <2> DEFINE c == calls[o]
             e == c.reply.err
  <2>1. CallsOK' /\ ~Busy' /\ Awaiting'
    BY <1>1, <1>10, EndOpType DEF HandleRemoteErr
  <2>2. /\ e = "conflict" /\ c.kind = "create" => Ask("nameTaken", name)
        /\ e = "conflict" /\ c.kind # "create" => Ask("conflict", None)
        /\ e # "conflict" => UNCHANGED <<dialog, subject>>
        /\ GoTo("connect") \/ UNCHANGED <<screen, shown>>
        /\ UNCHANGED <<serverVars, docVars, reviewKind, pending, running, connected>>
    BY <1>10 DEF HandleRemoteErr
  <2>3. (dialog' = "nameTaken" /\ subject' = name /\ e = "conflict" /\ c.kind = "create")
        \/ (dialog' = "conflict" /\ subject' = None) \/ UNCHANGED <<dialog, subject>>
    BY <2>2
  <2>4. e = "conflict" /\ c.kind = "create" => name \in Names
    BY <1>1, <1>10, ConstantsAssumption
       DEF HandleRemoteErr, Accept, Awaiting, Busy, StateOK, Writes
  <2>5. StateOK'
    BY <1>1, <2>1, <2>2, <2>3, <2>4 DEF StateOK, RestTyped, Busy
  <2> QED
    BY <2>1, <2>5 DEF TypeInv
<1> QED
  BY <1>3, <1>4, <1>5, <1>6, <1>7, <1>8, <1>9, <1>10 DEF Replies

\* The server's other clients.
LEMMA OthersType ==
  ASSUME TypeInv, OthersWrite \/ OthersDelete
  PROVE  TypeInv'
<1>1. CallsOK /\ StateOK /\ Awaiting
  BY DEF TypeInv
<1>2. UNCHANGED <<calls, op, viewVars, docVars, running, connected>>
  BY DEF OthersWrite, OthersDelete, opVars
<1>3. CallsOK' /\ Awaiting'
  BY <1>1, <1>2, CallsSame DEF Awaiting, Busy, viewVars, docVars
<1>4. server' \in [Names -> Policy] /\ issued' \in [Names -> Nat]
  <2>1. CASE OthersWrite
    <3>1. PICK n \in Names, b \in Bodies, m \in OthersMeta :
            /\ server' = [server EXCEPT ![n] =
                 [body |-> b, ver |-> issued[n] + 1, meta |-> m, by |-> "others"]]
            /\ issued' = [issued EXCEPT ![n] = @ + 1]
      BY <2>1 DEF OthersWrite
    <3>2. m \in Metas /\ issued[n] \in Nat
      BY <1>1, ConstantsAssumption DEF StateOK, RestTyped
    <3> QED
      BY <1>1, <3>1, <3>2 DEF StateOK, RestTyped, Policy
  <2>2. CASE OthersDelete
    BY <1>1, <2>2 DEF OthersDelete, StateOK, RestTyped, Policy, Metas
  <2> QED
    BY <2>1, <2>2
<1>5. StateOK'
  BY <1>1, <1>2, <1>4 DEF StateOK, RestTyped, viewVars, docVars
<1> QED
  BY <1>3, <1>5 DEF TypeInv

\* The first state is well typed.
LEMMA InitType == Init => TypeInv
<1> SUFFICES ASSUME Init PROVE TypeInv
  OBVIOUS
<1>1. CallsOK
  BY EmptyRecords DEF Init, CallsOK, CallsTyped
<1>2. server \in [Names -> Policy]
  <2>1. PICK held \in [Names -> Bodies \cup {None}], m \in OthersMeta :
          server = [n \in Names |->
                     [body |-> held[n], ver |-> 0,
                      meta |-> IF held[n] = None THEN "none" ELSE m,
                      by |-> "others"]]
    BY DEF Init
  <2>2. m \in Metas /\ "none" \in Metas
    BY ConstantsAssumption DEF Metas
  <2> QED
    BY <2>1, <2>2 DEF Policy
<1>3. StateOK
  BY <1>2, EmptyRecords, ConstantsAssumption DEF Init, StateOK, RestTyped
<1> QED
  BY <1>1, <1>3 DEF Init, TypeInv, Awaiting, Busy

\* A step that changes nothing keeps the types.
LEMMA StutterType ==
  ASSUME TypeInv, UNCHANGED vars
  PROVE  TypeInv'
<1>1. CallsOK /\ StateOK /\ Awaiting
  BY DEF TypeInv
<1>2. CallsOK' /\ Awaiting'
  BY <1>1, CallsSame DEF vars, opVars, viewVars, docVars, Awaiting, Busy
<1> QED
  BY <1>1, <1>2, StateSame DEF vars, opVars, TypeInv

\* Every reachable state is well formed: every variable has its type, and what
\* the handlers rely on without checking is there - a name under a remote
\* document, a target under a question, a diff under the review screen, a
\* goroutine behind the awaited operation, a text in every successful read.
THEOREM TypeCorrect == Spec => []TypeInv
<1>1. ASSUME TypeInv, [Next]_vars PROVE TypeInv'
  <2>1. CASE Edits
    BY <1>1, <2>1, QuietKeysType, BeginKeysType, EndKeysType DEF Edits
  <2>2. CASE Remote
    BY <1>1, <2>2, QuietKeysType, BeginKeysType DEF Remote
  <2>3. CASE \E o \in Ops : Commands(o) \/ Replies(o)
    BY <1>1, <2>3, CommandsType, RepliesType
  <2>4. CASE OthersWrite \/ OthersDelete
    BY <1>1, <2>4, OthersType
  <2>5. CASE UNCHANGED vars
    BY <1>1, <2>5, StutterType
  <2> QED
    BY <1>1, <2>1, <2>2, <2>3, <2>4, <2>5 DEF Next
<1> QED
  BY InitType, <1>1, PTL DEF Spec

\* The model's type invariant, for every value of the constants.
THEOREM TypeOKHolds == Spec => []TypeOK
<1>1. TypeInv => TypeOK
  BY DEF TypeInv, CallsOK, StateOK, TypeOK
<1> QED
  BY <1>1, TypeCorrect, PTL

-----------------------------------------------------------------------------
(* Versions only grow *)

\* However the server moves, what was honest stays so and what was stale too.
ServerAdvances ==
  /\ VersionsIssued'
  /\ \A n \in Names, r \in Revision :
       /\ Honest(n, r) => Honest(n, r)'
       /\ Stale(n, r) => Stale(n, r)'

\* A server that does not move advances, trivially.
LEMMA ServerRests ==
  ASSUME VersionsIssued, UNCHANGED serverVars
  PROVE  ServerAdvances
BY DEF ServerAdvances, VersionsIssued, Honest, Stale, Present, serverVars

\* A write gives a policy the next version.
LEMMA ServerIssues ==
  ASSUME StateOK, VersionsIssued, NEW n \in Names, NEW p \in Policy,
         p.ver = issued[n] + 1,
         server' = [server EXCEPT ![n] = p],
         issued' = [issued EXCEPT ![n] = issued[n] + 1]
  PROVE  ServerAdvances
<1>1. /\ server \in [Names -> Policy] /\ issued \in [Names -> Nat]
      /\ \A m \in Names : server[m].ver \in Nat
  BY DEF StateOK, RestTyped, Policy
<1>2. /\ server'[n] = p /\ issued'[n] = issued[n] + 1 /\ issued[n] \in Nat
      /\ \A m \in Names \ {n} : server'[m] = server[m] /\ issued'[m] = issued[m]
  BY <1>1
<1>3. VersionsIssued'
  BY <1>1, <1>2 DEF VersionsIssued
<1>4. ASSUME NEW m \in Names, NEW r \in Revision
      PROVE  /\ Honest(m, r) => Honest(m, r)'
             /\ Stale(m, r) => Stale(m, r)'
  <2>1. r.ver \in Nat
    BY DEF Revision
  <2>2. CASE m = n
    BY <1>2, <2>1, <2>2 DEF Honest, Stale, Present
  <2>3. CASE m # n
    BY <1>2, <2>3 DEF Honest, Stale, Present
  <2> QED
    BY <2>2, <2>3
<1> QED
  BY <1>3, <1>4 DEF ServerAdvances

\* A delete leaves a policy without a version, and issues none.
LEMMA ServerRemoves ==
  ASSUME StateOK, VersionsIssued, NEW n \in Names, NEW p \in Policy,
         p.body = None, p.ver = 0,
         server' = [server EXCEPT ![n] = p], issued' = issued
  PROVE  ServerAdvances
<1>1. /\ server \in [Names -> Policy] /\ issued \in [Names -> Nat]
  BY DEF StateOK, RestTyped
<1>2. /\ server'[n] = p /\ issued[n] \in Nat
      /\ \A m \in Names \ {n} : server'[m] = server[m]
  BY <1>1
<1>3. VersionsIssued'
  BY <1>1, <1>2 DEF VersionsIssued
<1>4. ASSUME NEW m \in Names, NEW r \in Revision
      PROVE  /\ Honest(m, r) => Honest(m, r)'
             /\ Stale(m, r) => Stale(m, r)'
  <2>1. CASE m = n
    BY <1>2, <2>1 DEF Honest, Stale, Present
  <2>2. CASE m # n
    BY <1>2, <2>2 DEF Honest, Stale, Present
  <2> QED
    BY <2>1, <2>2
<1> QED
  BY <1>3, <1>4 DEF ServerAdvances

-----------------------------------------------------------------------------
(* What the parts of the invariant depend on *)

\* What a command carries stays true of a server that advances.
LEMMA CallStaysHonest ==
  ASSUME ServerAdvances, NEW c \in Call, CallShape(c), CallHonest(c)
  PROVE  CallHonest(c)'
<1>1. c.rev \in Revision /\ c.reply.rev \in Revision
  BY DEF Call, Reply
<1>2. CASE c.kind = "update" /\ (c.wire \/ c.stage = "waiting")
  <2>1. c.name \in Names
    BY <1>2 DEF CallShape
  <2>2. Reviewed(c)'
    BY <1>1, <1>2, <2>1 DEF CallHonest, Reviewed, ServerAdvances
  <2>3. c.stage = "replied" /\ c.reply.err = "" => Honest(c.name, c.reply.rev)'
    BY <1>1, <1>2, <2>1 DEF CallHonest, ServerAdvances, Writes
  <2> QED
    BY <2>2, <2>3 DEF CallHonest
<1>3. CASE ~(c.kind = "update" /\ (c.wire \/ c.stage = "waiting"))
  <2>1. c.stage = "replied" /\ c.kind \in Writes \cup ReadKinds => c.name \in Names
    BY DEF CallShape, Writes, ReadKinds
  <2> QED
    BY <1>1, <1>3, <2>1 DEF CallHonest, ServerAdvances
<1> QED
  BY <1>2, <1>3

\* So does what the session holds.
LEMMA SessionStays ==
  ASSUME TypeInv, ServerAdvances, UNCHANGED docVars
  PROVE  /\ SessionHonest => SessionHonest'
         /\ SessionStale => SessionStale'
<1>1. backing = "remote" => name \in Names
  BY DEF TypeInv, StateOK
<1>2. rev \in Revision
  BY DEF TypeInv, StateOK, RestTyped
<1>3. /\ backing' = backing /\ name' = name /\ exists' = exists
      /\ rev' = rev /\ original' = original
  BY DEF docVars
<1>4. backing = "remote" => /\ Honest(name, rev) => Honest(name, rev)'
                            /\ Stale(name, rev) => Stale(name, rev)'
  BY <1>1, <1>2, <1>3 DEF ServerAdvances, Honest, Stale, Present
<1> QED
  BY <1>3, <1>4 DEF SessionHonest, SessionStale

\* So does what is on screen.
LEMMA ViewStays ==
  ASSUME TypeInv, ServerAdvances, UNCHANGED <<docVars, viewVars>>, ViewOK
  PROVE  ViewOK'
<1>1. UNCHANGED docVars
  OBVIOUS
<1>2. SessionStale => SessionStale'
  BY <1>1, SessionStays
<1>3. backing = "remote" => name \in Names
  BY DEF TypeInv, StateOK
<1>4. rev \in Revision /\ pending \in Revision \cup {None}
  BY DEF TypeInv, StateOK, RestTyped
<1>5. /\ backing' = backing /\ name' = name /\ exists' = exists
      /\ rev' = rev /\ original' = original /\ current' = current
      /\ screen' = screen /\ dialog' = dialog /\ reviewKind' = reviewKind
      /\ shown' = shown /\ pending' = pending
  BY DEF docVars, viewVars
<1>6. /\ backing = "remote" /\ Stale(name, rev) => Stale(name, rev)'
      /\ backing = "remote" /\ pending # None /\ Honest(name, pending)
           => Honest(name, pending)'
  BY <1>3, <1>4, <1>5 DEF ServerAdvances, Honest, Stale, Present
<1> QED
  BY <1>2, <1>5, <1>6 DEF ViewOK

\* So does what is expected of the awaited operation.
LEMMA AwaitedStays ==
  ASSUME TypeInv, ServerAdvances, UNCHANGED <<docVars, viewVars>>,
         NEW c \in Call, AwaitedOK(c)
  PROVE  AwaitedOK(c)'
<1>1. UNCHANGED docVars
  OBVIOUS
<1>2. SessionStale => SessionStale'
  BY <1>1, SessionStays
<1>3. /\ backing' = backing /\ name' = name /\ rev' = rev
      /\ original' = original /\ current' = current
      /\ screen' = screen /\ pending' = pending
  BY DEF docVars, viewVars
<1> QED
  BY <1>2, <1>3 DEF AwaitedOK, Dirty

\* One command takes a step, the rest of the editor none.
LEMMA CommandKeepsSafety ==
  ASSUME TypeInv, SafetyInv, ServerAdvances, UNCHANGED <<op, docVars, viewVars>>,
         NEW o \in Ops, NEW d \in Call,
         calls' = [calls EXCEPT ![o] = d],
         CallHonest(d)', op = o => AwaitedOK(d)'
  PROVE  SafetyInv'
<1>1. /\ VersionsIssued' /\ SessionHonest' /\ ViewOK'
  BY SessionStays, ViewStays DEF SafetyInv, ServerAdvances
<1>2. /\ calls \in [Ops -> Call] /\ calls'[o] = d
      /\ \A p \in Ops \ {o} : calls'[p] = calls[p]
      /\ \A p \in Ops : calls[p] \in Call /\ CallShape(calls[p])
  BY DEF TypeInv, CallsOK, CallsTyped
<1>3. ASSUME NEW p \in Ops PROVE CallHonest(calls[p])'
  <2>1. CASE p = o
    BY <1>2, <2>1 DEF CallHonest, Reviewed, Honest, Stale, Present
  <2>2. CASE p # o
    <3>1. PICK c \in Call : c = calls[p] /\ CallShape(c) /\ CallHonest(c)
      BY <1>2 DEF SafetyInv
    <3>2. CallHonest(c)'
      BY <3>1, CallStaysHonest
    <3>3. calls'[p] = c
      BY <1>2, <2>2, <3>1
    <3> QED
      BY <3>2, <3>3 DEF CallHonest, Reviewed, Honest, Stale, Present
  <2> QED
    BY <2>1, <2>2
<1>4. ASSUME op' \in Ops PROVE AwaitedOK(calls[op])'
  <2>1. op' = op /\ op \in Ops
    BY <1>4
  <2>2. CASE op = o
    BY <1>2, <2>1, <2>2 DEF AwaitedOK, Dirty, SessionStale, Stale, Present
  <2>3. CASE op # o
    <3>1. PICK c \in Call : c = calls[op] /\ AwaitedOK(c)
      BY <1>2, <2>1 DEF SafetyInv
    <3>2. AwaitedOK(c)'
      BY <3>1, AwaitedStays
    <3>3. calls'[op'] = c
      BY <1>2, <2>1, <2>3, <3>1
    <3> QED
      BY <3>2, <3>3 DEF AwaitedOK, Dirty, SessionStale, Stale, Present
  <2> QED
    BY <2>2, <2>3
<1> QED
  BY <1>1, <1>3, <1>4 DEF SafetyInv

\* The server moves, the editor does not.
LEMMA ServerKeepsSafety ==
  ASSUME TypeInv, SafetyInv, ServerAdvances,
         UNCHANGED <<calls, op, docVars, viewVars>>
  PROVE  SafetyInv'
<1>1. /\ VersionsIssued' /\ SessionHonest' /\ ViewOK'
  BY SessionStays, ViewStays DEF SafetyInv, ServerAdvances
<1>2. \A p \in Ops : calls[p] \in Call /\ CallShape(calls[p])
  BY DEF TypeInv, CallsOK, CallsTyped
<1>3. ASSUME NEW p \in Ops PROVE CallHonest(calls[p])'
  <2>1. PICK c \in Call : c = calls[p] /\ CallShape(c) /\ CallHonest(c)
    BY <1>2 DEF SafetyInv
  <2>2. CallHonest(c)' /\ calls'[p] = c
    BY <2>1, CallStaysHonest
  <2> QED
    BY <2>2 DEF CallHonest, Reviewed, Honest, Stale, Present
<1>4. ASSUME op' \in Ops PROVE AwaitedOK(calls[op])'
  <2>1. op' = op /\ op \in Ops
    BY <1>4
  <2>2. PICK c \in Call : c = calls[op] /\ AwaitedOK(c)
    BY <1>2, <2>1 DEF SafetyInv
  <2>3. AwaitedOK(c)' /\ calls'[op'] = c
    BY <2>1, <2>2, AwaitedStays
  <2> QED
    BY <2>3 DEF AwaitedOK, Dirty, SessionStale, Stale, Present
<1> QED
  BY <1>1, <1>3, <1>4 DEF SafetyInv

\* The other clients break nothing: what they change is stale or unseen.
LEMMA OthersSafety ==
  ASSUME TypeInv, SafetyInv, OthersWrite \/ OthersDelete
  PROVE  SafetyInv'
<1>1. UNCHANGED <<calls, op, docVars, viewVars>>
  BY DEF OthersWrite, OthersDelete, opVars
<1>2. StateOK /\ VersionsIssued
  BY DEF TypeInv, SafetyInv
<1>3. ServerAdvances
  <2>1. CASE OthersWrite
    <3>1. PICK n \in Names, b \in Bodies, m \in OthersMeta :
            /\ server' = [server EXCEPT ![n] =
                 [body |-> b, ver |-> issued[n] + 1, meta |-> m, by |-> "others"]]
            /\ issued' = [issued EXCEPT ![n] = @ + 1]
      BY <2>1 DEF OthersWrite
    <3>2. m \in Metas /\ issued[n] \in Nat
      BY <1>2, ConstantsAssumption DEF StateOK, RestTyped
    <3> DEFINE p == [body |-> b, ver |-> issued[n] + 1, meta |-> m, by |-> "others"]
    <3>3. p \in Policy /\ p.ver = issued[n] + 1
      BY <3>2 DEF Policy
    <3> HIDE DEF p
    <3>4. /\ server' = [server EXCEPT ![n] = p]
          /\ issued' = [issued EXCEPT ![n] = issued[n] + 1]
      BY <3>1 DEF p
    <3> QED
      BY <1>2, <3>3, <3>4, ServerIssues
  <2>2. CASE OthersDelete
    <3> DEFINE p == [body |-> None, ver |-> 0, meta |-> "none", by |-> "others"]
    <3>1. PICK n \in Names : server' = [server EXCEPT ![n] = p]
      BY <2>2 DEF OthersDelete
    <3>2. p \in Policy /\ p.body = None /\ p.ver = 0
      BY DEF Policy, Metas
    <3>3. issued' = issued
      BY <2>2 DEF OthersDelete
    <3> HIDE DEF p
    <3> QED
      BY <1>2, <3>1, <3>2, <3>3, ServerRemoves
  <2> QED
    BY <2>1, <2>2
<1> QED
  BY <1>1, <1>3, ServerKeepsSafety

-----------------------------------------------------------------------------
(* The commands *)

\* A result says nothing but the truth, and what is still under way stays so.
LEMMA SettledHonest ==
  ASSUME NEW c \in Call, CallHonest(c), NEW r \in Reply,
         c.kind \in Writes \cup ReadKinds /\ r.err = "" => Honest(c.name, r.rev)
  PROVE  CallHonest(Settle(c, r))
<1>1. CASE c.wire
  BY <1>1 DEF CallHonest, Reviewed, Settle
<1>2. CASE ~c.wire
  BY <1>2 DEF CallHonest, Settle
<1> QED
  BY <1>1, <1>2

\* The awaited command gets its result.
LEMMA SettledAwaited ==
  ASSUME NEW c \in Call, AwaitedOK(c), NEW r \in Reply,
         c.kind \in Writes /\ r.err = "" /\ r.rev.has => r.rev.of = current,
         r.err = "conflict" => c.kind = "create" \/ SessionStale
  PROVE  AwaitedOK(Settle(c, r))
BY DEF AwaitedOK, Settle

\* A command steps while the server rests.
LEMMA CommandRests ==
  ASSUME TypeInv, SafetyInv, UNCHANGED <<serverVars, op, viewVars, docVars>>,
         NEW o \in Ops, NEW d \in Call, CallShape(d),
         calls' = [calls EXCEPT ![o] = d],
         CallHonest(d), op = o => AwaitedOK(d)
  PROVE  SafetyInv'
<1>1. ServerAdvances
  BY ServerRests DEF SafetyInv
<1>2. CallHonest(d)'
  BY <1>1, CallStaysHonest
<1>3. op = o => AwaitedOK(d)'
  BY <1>1, AwaitedStays
<1> QED
  BY <1>1, <1>2, <1>3, CommandKeepsSafety

\* A command with its result while the server rests.
LEMMA AnswerRests ==
  ASSUME TypeInv, SafetyInv, UNCHANGED <<serverVars, op, viewVars, docVars>>,
         NEW o \in Ops, NEW r \in Reply, calls[o].stage # "idle", Answer(o, r),
         calls[o].kind \in ReadKinds /\ r.err = ""
           => r.body \in Bodies /\ r.rev.of = r.body,
         calls[o].kind \in Writes \cup ReadKinds /\ r.err = ""
           => Honest(calls[o].name, r.rev),
         op = o /\ calls[o].kind \in Writes /\ r.err = "" /\ r.rev.has
           => r.rev.of = current,
         r.err # "conflict"
  PROVE  SafetyInv'
<1>1. PICK c \in Call : c = calls[o] /\ CallShape(c) /\ CallHonest(c)
  BY DEF TypeInv, CallsOK, CallsTyped, SafetyInv
<1>2. PICK d : d = Settle(c, r)
  OBVIOUS
<1>3. d \in Call /\ CallShape(d)
  BY <1>1, <1>2, SettleType
<1>4. CallHonest(d)
  BY <1>1, <1>2, SettledHonest
<1>5. op = o => AwaitedOK(c)
  BY <1>1 DEF SafetyInv
<1>6. op = o => AwaitedOK(d)
  BY <1>1, <1>2, <1>5, SettledAwaited
<1>7. calls' = [calls EXCEPT ![o] = d]
  BY <1>1, <1>2 DEF Answer
<1> QED
  BY <1>3, <1>4, <1>6, <1>7, CommandRests

\* The revision of a policy as it is is honest.
LEMMA ReportedHonest ==
  ASSUME StateOK, VersionsIssued, NEW n \in Names, NEW v \in Reports
  PROVE  Honest(n, Reported(n, v))
BY ReportedType DEF Honest, VersionsIssued, Present

\* No revision claims nothing.
LEMMA NoRevisionHonest == \A n : Honest(n, NoRevision)
BY DEF Honest, NoRevision

\* The answers to reads and listings, the failures and the read after a write.
LEMMA AnswersSafety ==
  ASSUME TypeInv, SafetyInv, NEW o \in Ops,
         ServerAnswersList(o) \/ ServerAnswersRead(o) \/ CallFails(o) \/ ReadBack(o)
  PROVE  SafetyInv'
<1>1. StateOK /\ VersionsIssued /\ calls[o] \in Call /\ CallShape(calls[o])
  BY DEF TypeInv, SafetyInv, CallsOK, CallsTyped
<1>2. UNCHANGED <<serverVars, op, viewVars, docVars>>
  BY DEF ServerAnswersList, ServerAnswersRead, CallFails, ReadBack
<1>3. Failure("other") \in Reply /\ Failure("other").err = "other"
  BY FailureType DEF Errors
<1>4. CASE ServerAnswersList(o)
  BY <1>2, <1>4, EmptyRecords, AnswerRests
     DEF ServerAnswersList, Writes, ReadKinds, NoReply
<1>5. CASE CallFails(o)
  BY <1>2, <1>3, <1>5, AnswerRests DEF CallFails
<1>6. CASE ServerAnswersRead(o)
  <2> DEFINE n == calls[o].name
  <2>1. n \in Names /\ calls[o].kind \in ReadKinds /\ calls[o].stage = "waiting"
    BY <1>1, <1>6 DEF CallShape, ServerAnswersRead, ReadKinds
  <2>2. CASE Present(n)
    <3>1. PICK v \in Reports :
            Answer(o, [err |-> "", body |-> server[n].body, rev |-> Reported(n, v)])
      BY <1>6, <2>2 DEF ServerAnswersRead
    <3> DEFINE r == [err |-> "", body |-> server[n].body, rev |-> Reported(n, v)]
    <3>2. server[n].body \in Bodies
      BY <1>1, <2>1, <2>2 DEF StateOK, RestTyped, Policy, Present
    <3>3. Honest(n, Reported(n, v)) /\ Reported(n, v) \in Revision
          /\ Reported(n, v).of = server[n].body
      BY <1>1, <2>1, ReportedHonest, ReportedType
    <3>4. r \in Reply /\ r.err = "" /\ r.body \in Bodies /\ r.rev.of = r.body
          /\ Honest(n, r.rev)
      BY <3>2, <3>3 DEF Reply, Errors
    <3>5. Answer(o, r)
      BY <3>1
    <3> HIDE DEF r
    <3> QED
      BY <1>2, <2>1, <3>4, <3>5, AnswerRests DEF ReadKinds, Writes
  <2>3. CASE ~Present(n)
    <3>1. Answer(o, Failure("other"))
      BY <1>6, <2>3 DEF ServerAnswersRead
    <3> QED
      BY <1>2, <1>3, <2>1, <3>1, AnswerRests
  <2> QED
    BY <2>2, <2>3
<1>7. CASE ReadBack(o)
  <2> DEFINE c == calls[o]
  <2>1. c.stage = "readback" /\ c.kind \in Writes /\ c.name \in Names /\ c.body \in Bodies
    BY <1>1, <1>7 DEF CallShape, ReadBack, Writes
  <2>2. PICK r \in {NoRevision} \cup
               (IF server[c.name].body = c.body
                THEN {Reported(c.name, v) : v \in Reports} ELSE {}) :
          Answer(o, [err |-> "", body |-> None, rev |-> r])
    BY <1>7 DEF ReadBack
  <2>3. r \in Revision /\ Honest(c.name, r) /\ (r.has => r.of = c.body)
    <3>1. CASE r = NoRevision
      BY <3>1, EmptyRecords, NoRevisionHonest DEF NoRevision
    <3>2. CASE server[c.name].body = c.body /\ r \in {Reported(c.name, v) : v \in Reports}
      BY <1>1, <2>1, <3>2, ReportedHonest, ReportedType
    <3> QED
      BY <2>2, <3>1, <3>2
  <2>4. op = o => c.body = current
    BY <2>1 DEF SafetyInv, AwaitedOK
  <2> DEFINE a == [err |-> "", body |-> None, rev |-> r]
  <2>5. a \in Reply /\ a.err = "" /\ a.rev = r
    BY <2>3 DEF Reply, Errors
  <2>6. Answer(o, a)
    BY <2>2
  <2> HIDE DEF a
  <2> QED
    BY <1>2, <2>1, <2>3, <2>4, <2>5, <2>6, AnswerRests DEF Writes, ReadKinds
<1> QED
  BY <1>4, <1>5, <1>6, <1>7

\* The request is executed or refused, whatever becomes of its answer.
LEMMA ExecutedSafety ==
  ASSUME TypeInv, SafetyInv, ServerAdvances, UNCHANGED <<op, docVars, viewVars>>,
         NEW o \in Ops, calls[o].wire,
         NEW c \in {Received(o), [Received(o) EXCEPT !.landed = TRUE]},
         NEW next,
         \A d \in next : /\ d \in Call /\ CallHonest(d)'
                         /\ op = o /\ c.stage = "waiting" => AwaitedOK(d),
         Executed(o, c, next)
  PROVE  SafetyInv'
<1>1. PICK k \in Call : k = calls[o] /\ CallShape(k) /\ CallHonest(k)
  BY DEF TypeInv, CallsOK, CallsTyped, SafetyInv
<1>2. /\ c \in Call /\ ~c.wire /\ CallShape(c)
      /\ c.stage = k.stage /\ c.stage \notin {"idle", "readback"}
      /\ c.kind = k.kind /\ c.kind \in Writes \cup {"delete"}
      /\ c.name = k.name /\ c.rev = k.rev /\ c.seen = k.seen /\ c.body = k.body
  BY <1>1, ReceivedType DEF TypeInv
<1>3. c.reply = k.reply /\ c.consent = k.consent
  BY <1>1 DEF Received, Call
<1>4. op = o => AwaitedOK(k)
  BY <1>1 DEF SafetyInv
<1>5. CallHonest(c) /\ (op = o => AwaitedOK(c))
  <2>1. CallHonest(c)
    BY <1>1, <1>2, <1>3 DEF CallHonest, Reviewed
  <2>2. AwaitedOK(k) => AwaitedOK(c)
    BY <1>2, <1>3 DEF AwaitedOK
  <2> QED
    BY <1>4, <2>1, <2>2
<1>6. CASE c.stage = "gone"
  <2>1. calls' = [calls EXCEPT ![o] = NoCall]
    BY <1>6 DEF Executed
  <2>2. op # o
    BY <1>1, <1>2, <1>6, ConstantsAssumption DEF TypeInv, Awaiting, Busy
  <2>3. PICK n \in Call : n = NoCall
    BY EmptyRecords
  <2>4. CallHonest(n)'
    BY <2>3 DEF NoCall, CallHonest
  <2> QED
    BY <2>1, <2>2, <2>3, <2>4, CommandKeepsSafety
<1>7. ASSUME NEW r \in Reply,
             (r = c.reply /\ c.stage = "replied") \/ r = Failure("other"),
             calls' = [calls EXCEPT ![o] = Settle(c, r)]
      PROVE  SafetyInv'
  <2>1. PICK d : d = Settle(c, r)
    OBVIOUS
  <2>2. c.kind \notin ReadKinds
    BY <1>2 DEF Writes, ReadKinds
  <2>3. d \in Call /\ CallShape(d)
    BY <1>2, <2>1, <2>2, SettleType
  <2>4. CallHonest(d)
    <3>1. c.kind \in Writes \cup ReadKinds /\ r.err = "" => Honest(c.name, r.rev)
      <4>1. Failure("other").err = "other"
        BY FailureType DEF Errors
      <4> QED
        BY <1>5, <1>7, <4>1 DEF CallHonest
    <3> QED
      BY <1>2, <1>5, <2>1, <3>1, SettledHonest
  <2>5. op = o => AwaitedOK(d)
    <3>1. SUFFICES ASSUME op = o PROVE AwaitedOK(d)
      OBVIOUS
    <3>2. /\ c.kind \in Writes /\ r.err = "" /\ r.rev.has => r.rev.of = current
          /\ r.err = "conflict" => c.kind = "create" \/ SessionStale
      BY <1>5, <1>7, <3>1, FailureType DEF Errors, AwaitedOK
    <3> QED
      BY <1>2, <1>5, <2>1, <3>1, <3>2, SettledAwaited
  <2>6. CallHonest(d)' /\ (op = o => AwaitedOK(d)')
    BY <2>3, <2>4, <2>5, CallStaysHonest, AwaitedStays
  <2> QED
    BY <1>7, <2>1, <2>3, <2>6, CommandKeepsSafety
<1>8. CASE c.stage = "replied"
  <2>1. calls' = [calls EXCEPT ![o] = Settle(c, c.reply)]
    BY <1>8 DEF Executed
  <2> QED
    BY <1>2, <1>7, <1>8, <2>1 DEF Call
<1>9. CASE c.stage = "waiting"
  <2>1. PICK d \in next \cup Unanswered(o, c) : calls' = [calls EXCEPT ![o] = d]
    BY <1>9 DEF Executed
  <2>2. CASE d \in next
    <3>1. d \in Call /\ CallHonest(d)' /\ (op = o => AwaitedOK(d)')
      BY <1>9, <2>2, AwaitedStays
    <3> QED
      BY <2>1, <3>1, CommandKeepsSafety
  <2>3. CASE d = Settle(c, Failure("other"))
    BY <1>7, <2>1, <2>3, FailureType DEF Errors
  <2>4. CASE d = [c EXCEPT !.wire = TRUE, !.tries = @ + 1]
    <3>1. /\ d \in Call /\ d.stage = c.stage /\ d.kind = c.kind /\ d.name = c.name
          /\ d.body = c.body /\ d.rev = c.rev /\ d.seen = c.seen
          /\ d.consent = c.consent /\ d.reply = c.reply
      <4>1. c.tries \in Nat /\ c.tries + 1 \in Nat
        BY <1>2 DEF Call
      <4> DEFINE t == c.tries + 1
      <4>2. d = [c EXCEPT !.wire = TRUE, !.tries = t] /\ t \in Nat
        BY <2>4, <4>1
      <4> HIDE DEF t
      <4> QED
        BY <1>2, <4>2 DEF Call
    <3>2. CallShape(d)
      BY <1>2, <1>9, <3>1 DEF CallShape
    <3>3. CallHonest(d)
      BY <1>5, <1>9, <3>1 DEF CallHonest, Reviewed
    <3>4. op = o => AwaitedOK(d)
      BY <1>5, <3>1 DEF AwaitedOK
    <3>5. CallHonest(d)' /\ (op = o => AwaitedOK(d)')
      BY <3>1, <3>2, <3>3, <3>4, CallStaysHonest, AwaitedStays
    <3> QED
      BY <2>1, <3>1, <3>5, CommandKeepsSafety
  <2> QED
    BY <2>1, <2>2, <2>3, <2>4 DEF Unanswered
<1> QED
  BY <1>2, <1>6, <1>8, <1>9 DEF Call, Stages

\* An update refused for its version will be refused forever.
LEMMA RefusedIsStale ==
  ASSUME StateOK, VersionsIssued, NEW c \in Call, c.name \in Names,
         c.kind = "update", ~CasHolds(c), Reviewed(c)
  PROVE  Stale(c.name, c.rev)
BY DEF StateOK, RestTyped, Policy, Call, Revision, CasHolds, Reviewed, Honest,
       Stale, Present

\* A refused write: the conflict it reports is one the session will never
\* write through.
LEMMA RefusedSafety ==
  ASSUME TypeInv, SafetyInv, NEW o \in Ops, WriteRefused(o)
  PROVE  SafetyInv'
<1>1. PICK e \in {"conflict", "other"} :
        Executed(o, Received(o), {Settle(Received(o), Failure(e))})
  BY DEF WriteRefused
<1>2. calls[o].wire /\ calls[o].kind \in Writes /\ ~CasHolds(calls[o])
  BY DEF WriteRefused
<1>3. PICK k \in Call : k = calls[o] /\ CallShape(k) /\ CallHonest(k)
  BY DEF TypeInv, CallsOK, CallsTyped, SafetyInv
<1>4. PICK c \in Call : c = Received(o)
  BY <1>2, ReceivedType DEF TypeInv
<1>5. /\ ~c.wire /\ c.stage = k.stage /\ c.kind = k.kind /\ c.stage # "idle"
      /\ c.name = k.name /\ c.rev = k.rev /\ c.seen = k.seen /\ c.body = k.body
      /\ c.reply = k.reply /\ c.consent = k.consent /\ CallShape(c) /\ k.name \in Names
  <2>1. c.reply = k.reply /\ c.consent = k.consent
    BY <1>3, <1>4 DEF Received, Call
  <2> QED
    BY <1>2, <1>3, <1>4, <2>1, ReceivedType DEF TypeInv
<1>6. ServerAdvances /\ UNCHANGED <<op, docVars, viewVars>>
  BY ServerRests DEF SafetyInv, WriteRefused
<1>7. PICK r \in Reply : r = Failure(e) /\ r.err = e
  BY FailureType DEF Errors
<1>8. op = o /\ k.stage = "waiting" /\ k.kind = "update" => SessionStale
  <2>1. SUFFICES ASSUME op = o, k.stage = "waiting", k.kind = "update"
                 PROVE  SessionStale
    OBVIOUS
  <2>2. AwaitedOK(k)
    BY <1>3, <2>1 DEF SafetyInv
  <2>3. Reviewed(k) /\ ~CasHolds(k) /\ k.name = name
    BY <1>2, <1>3, <2>1, <2>2 DEF CallHonest, AwaitedOK, Writes
  <2>4. Stale(name, k.rev)
    BY <1>5, <2>1, <2>3, RefusedIsStale DEF TypeInv, SafetyInv
  <2> QED
    BY <2>1, <2>2, <2>4 DEF AwaitedOK, SessionStale
<1>9. PICK d : d = Settle(c, r)
  OBVIOUS
<1>10. c.kind \notin ReadKinds /\ c.kind \in Writes
  BY <1>2, <1>3, <1>5 DEF Writes, ReadKinds
<1>11. d \in Call /\ CallShape(d)
  BY <1>5, <1>9, <1>10, SettleType
<1>12. CallHonest(d)
  <2>1. CallHonest(c)
    BY <1>3, <1>5 DEF CallHonest, Reviewed
  <2> QED
    BY <1>7, <1>9, <2>1, SettledHonest
<1>13. op = o /\ c.stage = "waiting" => AwaitedOK(d)
  <2>1. SUFFICES ASSUME op = o, c.stage = "waiting" PROVE AwaitedOK(d)
    OBVIOUS
  <2>2. AwaitedOK(k)
    BY <1>3, <2>1 DEF SafetyInv
  <2>3. AwaitedOK(c)
    BY <1>5, <2>2 DEF AwaitedOK
  <2>4. c.kind = "create" \/ SessionStale
    BY <1>5, <1>8, <1>10, <2>1 DEF Writes
  <2> QED
    BY <1>7, <1>9, <2>3, <2>4, SettledAwaited
<1>14. CallHonest(d)'
  BY <1>6, <1>11, <1>12, CallStaysHonest
<1> DEFINE next == {d}
<1>15. Executed(o, c, next) /\ c \in {Received(o), [Received(o) EXCEPT !.landed = TRUE]}
  BY <1>1, <1>4, <1>7, <1>9
<1>16. \A x \in next : /\ x \in Call /\ CallHonest(x)'
                       /\ op = o /\ c.stage = "waiting" => AwaitedOK(x)
  BY <1>11, <1>13, <1>14
<1> HIDE DEF next
<1> QED
  BY <1>2, <1>6, <1>15, <1>16, ExecutedSafety

\* A delete that lands.
LEMMA DeleteSafety ==
  ASSUME TypeInv, SafetyInv, NEW o \in Ops, DeleteLands(o)
  PROVE  SafetyInv'
<1>1. /\ calls[o].wire /\ calls[o].kind = "delete"
      /\ Executed(o, Received(o), {Settle(Received(o), NoReply)})
      /\ UNCHANGED <<op, docVars, viewVars>>
  BY DEF DeleteLands
<1>2. PICK k \in Call : k = calls[o] /\ CallShape(k) /\ CallHonest(k)
  BY DEF TypeInv, CallsOK, CallsTyped, SafetyInv
<1>3. PICK c \in Call : c = Received(o)
  BY <1>1, ReceivedType DEF TypeInv
<1>4. /\ c.stage = k.stage /\ c.kind = "delete" /\ c.stage # "idle"
      /\ c.name \in Names /\ CallShape(c) /\ c.reply = k.reply /\ c.consent = k.consent
      /\ c.name = k.name
  <2>1. c.reply = k.reply /\ c.consent = k.consent
    BY <1>2, <1>3 DEF Received, Call
  <2> QED
    BY <1>1, <1>2, <1>3, <2>1, ReceivedType DEF TypeInv
<1>5. ServerAdvances
  <2> DEFINE p == [body |-> None, ver |-> 0, meta |-> "none", by |-> "editor"]
  <2>1. server' = [server EXCEPT ![k.name] = p] /\ issued' = issued
    BY <1>2 DEF DeleteLands
  <2>2. p \in Policy /\ p.body = None /\ p.ver = 0
    BY DEF Policy, Metas
  <2>3. StateOK /\ VersionsIssued
    BY DEF TypeInv, SafetyInv
  <2> HIDE DEF p
  <2> QED
    BY <1>4, <2>1, <2>2, <2>3, ServerRemoves
<1>6. PICK r \in Reply : r = NoReply /\ r.err = ""
  BY EmptyRecords DEF NoReply
<1>7. PICK d : d = Settle(c, r)
  OBVIOUS
<1>8. d \in Call /\ CallShape(d) /\ d.kind = "delete"
  BY <1>4, <1>7, SettleType DEF ReadKinds, Settle
<1>9. CallHonest(d)'
  BY <1>8 DEF CallHonest, Writes, ReadKinds
<1>10. op = o => AwaitedOK(d)
  <2>1. SUFFICES ASSUME op = o PROVE AwaitedOK(d)
    OBVIOUS
  <2>2. c.kind \notin Writes /\ c.kind = k.kind
    BY <1>1, <1>2, <1>4 DEF Writes
  <2>3. AwaitedOK(k)
    BY <1>2, <2>1 DEF SafetyInv
  <2>4. AwaitedOK(c)
    BY <1>4, <2>2, <2>3 DEF AwaitedOK
  <2> QED
    BY <1>6, <1>7, <2>2, <2>4, SettledAwaited
<1> DEFINE next == {d}
<1>11. Executed(o, c, next) /\ c \in {Received(o), [Received(o) EXCEPT !.landed = TRUE]}
  BY <1>1, <1>3, <1>6, <1>7
<1>12. \A x \in next : /\ x \in Call /\ CallHonest(x)'
                       /\ op = o /\ c.stage = "waiting" => AwaitedOK(x)
  BY <1>8, <1>9, <1>10
<1> HIDE DEF next
<1> QED
  BY <1>1, <1>5, <1>11, <1>12, ExecutedSafety

\* The answer to a write that landed says the truth about what was written.
LEMMA WriteSafety ==
  ASSUME TypeInv, SafetyInv, NEW o \in Ops, WriteLands(o)
  PROVE  SafetyInv'
<1>1. PICK k \in Call : k = calls[o] /\ CallShape(k) /\ CallHonest(k)
  BY DEF TypeInv, CallsOK, CallsTyped, SafetyInv
<1>2. PICK v : v = issued[k.name] + 1
  OBVIOUS
<1>3. PICK c : c = [Received(o) EXCEPT !.landed = TRUE]
  OBVIOUS
<1>4. /\ k.wire /\ k.kind \in Writes /\ k.name \in Names /\ k.body \in Bodies
      /\ issued[k.name] \in Nat /\ v \in Nat
  <2>1. k.wire /\ k.kind \in Writes
    BY <1>1 DEF WriteLands
  <2>2. k.name \in Names /\ k.body \in Bodies
    BY <1>1, <2>1 DEF CallShape, Writes
  <2> QED
    BY <1>2, <2>1, <2>2 DEF TypeInv, StateOK, RestTyped
<1>5. /\ server' = [server EXCEPT ![k.name] =
                      [body |-> k.body, ver |-> v, meta |-> PutBack(k.rev.meta),
                       by |-> "editor"]]
      /\ issued' = [issued EXCEPT ![k.name] = v]
      /\ Executed(o, c, WriteAnswers(c, v))
      /\ UNCHANGED <<op, docVars, viewVars>>
  BY <1>1, <1>2, <1>3 DEF WriteLands
<1>6. /\ c \in Call /\ ~c.wire /\ c.stage = k.stage /\ c.stage # "idle" /\ c.kind = k.kind
      /\ c.name = k.name /\ c.rev = k.rev /\ c.seen = k.seen /\ c.body = k.body
      /\ c.reply = k.reply /\ c.consent = k.consent /\ CallShape(c)
  <2>1. c.reply = k.reply /\ c.consent = k.consent
    BY <1>1, <1>3 DEF Received, Call
  <2> QED
    BY <1>1, <1>3, <1>4, <2>1, ReceivedType DEF TypeInv
<1> DEFINE p == [body |-> k.body, ver |-> v, meta |-> PutBack(k.rev.meta), by |-> "editor"]
<1>7. p \in Policy /\ p.body = k.body /\ p.ver = v
  BY <1>4 DEF Policy, PutBack, Metas
<1>8. server' = [server EXCEPT ![k.name] = p]
  BY <1>5
<1> HIDE DEF p
<1>9. ServerAdvances
  BY <1>2, <1>4, <1>5, <1>7, <1>8, ServerIssues DEF TypeInv, SafetyInv
<1> DEFINE r == [has |-> TRUE, ver |-> v, meta |-> "none", of |-> k.body]
           a == [err |-> "", body |-> None, rev |-> r]
<1>10. r \in Revision /\ r.of = k.body /\ Honest(k.name, r)'
  <2>1. server'[k.name] = p /\ issued'[k.name] = v
    BY <1>4, <1>5, <1>8 DEF TypeInv, StateOK, RestTyped
  <2> QED
    BY <1>4, <1>7, <2>1 DEF Revision, Metas, Honest, Present
<1>11. a \in Reply /\ a.err = "" /\ a.rev = r
  BY <1>10 DEF Reply, Errors
<1>12. ASSUME NEW d \in WriteAnswers(c, v)
       PROVE  /\ d \in Call /\ CallHonest(d)'
              /\ op = o /\ c.stage = "waiting" => AwaitedOK(d)
  <2>1. d \in Call
    BY <1>1, <1>3, <1>4, <1>12, WriteAnswersType DEF TypeInv
  <2>2. op = o /\ c.stage = "waiting" => AwaitedOK(c) /\ c.body = current
    <3>1. op = o => AwaitedOK(k)
      BY <1>1 DEF SafetyInv
    <3> QED
      BY <1>4, <1>6, <3>1 DEF AwaitedOK
  <2>3. CASE d = [c EXCEPT !.stage = "readback"]
    <3>1. /\ d.stage = "readback" /\ ~d.wire /\ d.kind = c.kind /\ d.name = c.name
          /\ d.body = c.body /\ d.rev = c.rev /\ d.consent = c.consent
      BY <1>6, <2>3 DEF Call
    <3> QED
      BY <1>4, <1>6, <2>1, <2>2, <3>1 DEF CallHonest, AwaitedOK, Writes
  <2>4. CASE d = Settle(c, a)
    <3>1. /\ d.stage = "replied" /\ ~d.wire /\ d.kind = c.kind /\ d.name = c.name
          /\ d.reply = a
      BY <1>6, <2>4 DEF Settle
    <3>2. CallHonest(d)'
      BY <1>6, <1>10, <1>11, <3>1 DEF CallHonest, Honest, Present
    <3>3. op = o /\ c.stage = "waiting" => AwaitedOK(d)
      BY <1>6, <1>10, <1>11, <2>2, <2>4, SettledAwaited
    <3> QED
      BY <2>1, <3>2, <3>3
  <2>5. d = [c EXCEPT !.stage = "readback"] \/ d = Settle(c, a)
    BY <1>6, <1>12 DEF WriteAnswers, a, r
  <2> QED
    BY <2>3, <2>4, <2>5
<1>13. k.wire /\ c \in {Received(o), [Received(o) EXCEPT !.landed = TRUE]}
  BY <1>3, <1>4
<1> DEFINE next == WriteAnswers(c, v)
<1>14. Executed(o, c, next) /\ \A d \in next : /\ d \in Call /\ CallHonest(d)'
                                               /\ op = o /\ c.stage = "waiting" => AwaitedOK(d)
  BY <1>5, <1>12
<1> HIDE DEF next
<1> QED
  BY <1>1, <1>5, <1>9, <1>13, <1>14, ExecutedSafety

\* Every step of every command.
LEMMA CommandsSafety ==
  ASSUME TypeInv, SafetyInv, NEW o \in Ops, Commands(o)
  PROVE  SafetyInv'
BY AnswersSafety, WriteSafety, RefusedSafety, DeleteSafety DEF Commands

-----------------------------------------------------------------------------
(* The keys *)

\* A goroutine that is over leaves nothing untrue behind.
LEMMA FinishedHonest ==
  ASSUME NEW c \in Call, CallHonest(c)
  PROVE  CallHonest(Finished(c))
<1>1. CASE c.wire
  <2>1. PICK d : d = Finished(c)
    OBVIOUS
  <2>2. /\ d.stage = "gone" /\ d.wire = c.wire /\ d.kind = c.kind /\ d.name = c.name
        /\ d.body = c.body /\ d.rev = c.rev /\ d.seen = c.seen
    BY <1>1, <2>1 DEF Finished, Call
  <2>3. CallHonest(d)
    BY <1>1, <2>2 DEF CallHonest, Reviewed
  <2> QED
    BY <2>1, <2>3
<1>2. CASE ~c.wire
  BY <1>2 DEF Finished, NoCall, CallHonest
<1> QED
  BY <1>1, <1>2

\* Nothing is awaited any more.
LEMMA NothingAwaited ==
  ASSUME TypeInv, SafetyInv, UNCHANGED serverVars, op' = None,
         \A p \in Ops : calls'[p] \in {calls[p], Finished(calls[p])},
         SessionHonest', ViewOK'
  PROVE  SafetyInv'
<1>1. VersionsIssued' /\ ServerAdvances
  BY ServerRests DEF SafetyInv, ServerAdvances
<1>2. ASSUME NEW p \in Ops PROVE CallHonest(calls[p])'
  <2>1. PICK c \in Call : c = calls[p] /\ CallShape(c) /\ CallHonest(c)
    BY DEF TypeInv, CallsOK, CallsTyped, SafetyInv
  <2>2. PICK d \in Call : d = calls'[p] /\ CallShape(d) /\ CallHonest(d)
    BY <2>1, FinishedType, FinishedHonest
  <2>3. CallHonest(d)'
    BY <1>1, <2>2, CallStaysHonest
  <2> QED
    BY <2>2, <2>3 DEF CallHonest, Reviewed, Honest, Stale, Present
<1>3. op' \notin Ops
  BY ConstantsAssumption
<1> QED
  BY <1>1, <1>2, <1>3 DEF SafetyInv

\* An operation begins.
LEMMA BeginSafety ==
  ASSUME TypeInv, SafetyInv, UNCHANGED serverVars,
         NEW d \in Call, CallShape(d), BeginOp(d),
         CallHonest(d), AwaitedOK(d)', SessionHonest', ViewOK'
  PROVE  SafetyInv'
<1>1. VersionsIssued' /\ ServerAdvances
  BY ServerRests DEF SafetyInv, ServerAdvances
<1>2. /\ op' \in Ops /\ calls'[op'] = d
      /\ \A p \in Ops \ {op'} : calls'[p] = calls[p]
  BY BeginType DEF TypeInv
<1>3. ASSUME NEW p \in Ops PROVE CallHonest(calls[p])'
  <2>1. PICK c \in Call : c = calls'[p] /\ CallShape(c) /\ CallHonest(c)
    BY <1>2 DEF TypeInv, CallsOK, CallsTyped, SafetyInv
  <2>2. CallHonest(c)'
    BY <1>1, <2>1, CallStaysHonest
  <2> QED
    BY <2>1, <2>2 DEF CallHonest, Reviewed, Honest, Stale, Present
<1>4. AwaitedOK(calls[op])'
  BY <1>2 DEF AwaitedOK, Dirty, SessionStale, Stale, Present
<1> QED
  BY <1>1, <1>3, <1>4 DEF SafetyInv

\* The keys that leave the commands alone.
LEMMA QuietKeysSafety ==
  ASSUME TypeInv, SafetyInv,
         \/ EditDocument \/ PressReview \/ CloseReview \/ SaveLocal \/ Navigate
         \/ BrowseDelete \/ NameNewPolicy
  PROVE  SafetyInv'
<1> USE DEF Idle, OnScreen, GoTo, LeaveReview, ShowDiff, Ask, Busy,
            serverVars, opVars, viewVars, docVars
<1>1. SessionHonest /\ ViewOK
  BY DEF SafetyInv
<1>2. calls' = calls /\ op' = None /\ UNCHANGED serverVars
  BY DEF EditDocument, PressReview, CloseReview, SaveLocal, Navigate,
         BrowseDelete, NameNewPolicy
<1>3. SessionHonest' /\ ViewOK'
  <2> USE DEF SessionHonest, ViewOK, SessionStale, Honest, Stale, Present
  <2>1. CASE EditDocument
    BY <1>1, <2>1 DEF EditDocument
  <2>2. CASE PressReview
    BY <1>1, <2>2 DEF PressReview, ShowReview
  <2>3. CASE CloseReview
    BY <1>1, <2>3 DEF CloseReview
  <2>4. CASE SaveLocal
    BY <1>1, <2>4 DEF SaveLocal
  <2>5. CASE Navigate
    BY <1>1, <2>5 DEF Navigate
  <2>6. CASE BrowseDelete
    BY <1>1, <2>6 DEF BrowseDelete
  <2>7. CASE NameNewPolicy
    BY <1>1, <2>7 DEF NameNewPolicy, AdoptSession
  <2> QED
    BY <2>1, <2>2, <2>3, <2>4, <2>5, <2>6, <2>7
<1> QED
  BY <1>2, <1>3, NothingAwaited

\* The keys that end an operation or the program.
LEMMA EndKeysSafety ==
  ASSUME TypeInv, SafetyInv,
         PressQuit \/ AnswerDiscard \/ PressEscapeBusy \/ PressQuitBusy
  PROVE  SafetyInv'
<1> USE DEF Idle, OnScreen, Asked, GoTo, LeaveReview, ShowDiff, Ask, NoQuestion, Busy,
            serverVars, opVars, viewVars, docVars
<1>1. SessionHonest /\ ViewOK
  BY DEF SafetyInv
<1>2. /\ op' = None /\ UNCHANGED serverVars
      /\ \A p \in Ops : calls'[p] \in {calls[p], Finished(calls[p])}
  BY DEF PressQuit, AnswerDiscard, PressEscapeBusy, PressQuitBusy, Quit, CancelOp
<1>3. SessionHonest' /\ ViewOK'
  <2> USE DEF SessionHonest, ViewOK, SessionStale, Honest, Stale, Present
  <2>1. CASE PressQuit
    BY <1>1, <2>1 DEF PressQuit
  <2>2. CASE AnswerDiscard
    <3>1. UNCHANGED <<serverVars, docVars>>
      BY <2>2 DEF AnswerDiscard
    <3>2. \/ UNCHANGED viewVars
          \/ ShowReview /\ dialog' = "none"
          \/ UNCHANGED <<screen, reviewKind, shown, pending>> /\ dialog' = "none"
      BY <2>2 DEF AnswerDiscard
    <3> QED
      BY <1>1, <3>1, <3>2 DEF ShowReview
  <2>3. CASE PressEscapeBusy
    BY <1>1, <2>3 DEF PressEscapeBusy
  <2>4. CASE PressQuitBusy
    BY <1>1, <2>4 DEF PressQuitBusy
  <2> QED
    BY <2>1, <2>2, <2>3, <2>4
<1> QED
  BY <1>2, <1>3, NothingAwaited

\* A read or a listing begins.
LEMMA RequestSafety ==
  ASSUME TypeInv, SafetyInv, UNCHANGED serverVars,
         NEW k \in Kinds \ Writes, NEW n \in Names \cup {None},
         k \notin {"connect", "list"} => n \in Names,
         BeginOp(Request(k, n)) \/ BeginOp(Consented(k, n)),
         k = "look" => backing' = "remote" /\ n = name' /\ SessionStale',
         k = "reload" => n = name',
         k \in {"connect", "list"} => screen' # "review",
         k \in {"open", "reload"} => BeginOp(Consented(k, n)) \/ ~Dirty',
         SessionHonest', ViewOK'
  PROVE  SafetyInv'
<1>1. PICK d \in {Request(k, n), Consented(k, n)} :
        /\ BeginOp(d)
        /\ k \in {"open", "reload"} /\ Dirty' => d = Consented(k, n)
  OBVIOUS
<1>2. /\ d \in Call /\ CallShape(d) /\ d.stage = "waiting" /\ ~d.wire
  BY RequestType
<1>3. d.kind = k /\ d.name = n /\ (d = Consented(k, n) => d.consent)
  BY EmptyRecords DEF Request, Consented, NoCall, Call
<1>4. CallHonest(d)
  BY <1>2, <1>3 DEF CallHonest, Writes
<1>5. AwaitedOK(d)'
  BY <1>1, <1>2, <1>3 DEF AwaitedOK, Writes, Dirty, SessionStale, Stale, Present
<1> QED
  BY <1>1, <1>2, <1>4, <1>5, BeginSafety

\* A delete begins.
LEMMA DeleteBegins ==
  ASSUME TypeInv, SafetyInv, UNCHANGED serverVars, NEW n \in Names,
         BeginOp([Request("delete", n) EXCEPT !.wire = TRUE]),
         SessionHonest', ViewOK'
  PROVE  SafetyInv'
<1>1. PICK d : d = [Request("delete", n) EXCEPT !.wire = TRUE]
  OBVIOUS
<1>2. Request("delete", n) \in Call
  BY RequestType DEF Kinds, Writes
<1>3. d \in Call /\ CallShape(d) /\ d.stage = "waiting" /\ d.kind = "delete"
  BY <1>1, <1>2 DEF Request, NoCall, Call, CallShape, Writes, ReadKinds
<1>4. CallHonest(d)
  BY <1>3 DEF CallHonest, Writes
<1>5. AwaitedOK(d)'
  BY <1>3 DEF AwaitedOK, Writes
<1> QED
  BY <1>1, <1>3, <1>4, <1>5, BeginSafety

\* A write begins: it carries what the review on screen shows and the revision
\* that review was about.
LEMMA WriteBegins ==
  ASSUME TypeInv, SafetyInv, UNCHANGED serverVars, NEW r \in Revision,
         backing = "remote", screen = "review", BeginOp(WriteCall(r)),
         exists => Honest(name, r),
         exists /\ r.has => shown.left = r.of \/ Stale(name, r),
         r = rev \/ SessionStale,
         UNCHANGED docVars, pending' = None, SessionHonest', ViewOK'
  PROVE  SafetyInv'
<1>1. PICK d : d = WriteCall(r)
  OBVIOUS
<1>2. d \in Call /\ CallShape(d)
  BY <1>1, WriteCallType
<1> DEFINE c == [Request(IF exists THEN "update" ELSE "create", name) EXCEPT
                   !.body = current, !.seen = shown]
<1>3. /\ c \in Call
      /\ c.kind = (IF exists THEN "update" ELSE "create") /\ c.name = name
      /\ c.body = current /\ c.seen = shown /\ c.stage = "waiting"
  BY EmptyRecords
     DEF Request, NoCall, Call, Kinds, Writes, Stages, TypeInv, StateOK, RestTyped
<1> HIDE DEF c
<1>4. UpdateRefusal(r) \in {"", "other", "unsupported"}
  BY DEF UpdateRefusal
<1>5. Failure(UpdateRefusal(r)) \in Reply /\ Failure(UpdateRefusal(r)).err = UpdateRefusal(r)
  BY <1>4, FailureType DEF Errors
<1>6. shown \in DiffPair /\ shown.right = current
  BY DEF TypeInv, StateOK, SafetyInv, ViewOK
<1>7. d.kind = c.kind /\ d.name = name /\ d.body = current
  <2>1. CASE exists /\ UpdateRefusal(r) # ""
    BY <1>1, <1>3, <2>1 DEF WriteCall, c, Call
  <2>2. CASE ~(exists /\ UpdateRefusal(r) # "")
    BY <1>1, <1>3, <2>2 DEF WriteCall, c, Call
  <2> QED
    BY <2>1, <2>2
<1>8. \/ d.stage = "replied" /\ ~d.wire /\ d.reply.err \notin {"", "conflict"}
      \/ d.stage = "waiting" /\ d.kind = "create"
      \/ d.stage = "waiting" /\ d.kind = "update" /\ exists /\ r.has
           /\ d.rev = r /\ d.seen = shown
  <2>1. CASE exists /\ UpdateRefusal(r) # ""
    <3>1. d = [c EXCEPT !.stage = "replied", !.reply = Failure(UpdateRefusal(r))]
      BY <1>1, <2>1 DEF WriteCall, c
    <3>2. ~c.wire
      BY DEF c, Request, NoCall
    <3> QED
      BY <1>3, <1>4, <1>5, <2>1, <3>1, <3>2 DEF Call
  <2>2. CASE ~exists
    <3>1. d = [c EXCEPT !.wire = TRUE, !.rev = NoRevision]
      BY <1>1, <2>2 DEF WriteCall, c
    <3> QED
      BY <1>3, <2>2, <3>1 DEF Call
  <2>3. CASE exists /\ UpdateRefusal(r) = ""
    <3>1. d = [c EXCEPT !.wire = TRUE, !.rev = r]
      BY <1>1, <2>3 DEF WriteCall, c
    <3>2. r.has
      BY <2>3 DEF UpdateRefusal
    <3> QED
      BY <1>3, <2>3, <3>1, <3>2 DEF Call
  <2> QED
    BY <2>1, <2>2, <2>3
<1>9. CallHonest(d)
  BY <1>6, <1>7, <1>8 DEF CallHonest, Reviewed
<1>10. AwaitedOK(d)'
  <2>1. d.kind \in Writes
    BY <1>3, <1>7 DEF Writes
  <2>2. SessionStale => SessionStale'
    BY ServerRests, SessionStays DEF SafetyInv
  <2>3. /\ name' = name /\ backing' = backing /\ current' = current /\ rev' = rev
    BY DEF docVars
  <2> QED
    BY <1>7, <1>8, <2>1, <2>2, <2>3 DEF AwaitedOK, Writes
<1> QED
  BY <1>1, <1>2, <1>9, <1>10, BeginSafety

\* The keys that may begin an operation.
LEMMA BeginKeysSafety ==
  ASSUME TypeInv, SafetyInv,
         \/ SaveRemote \/ RetryAfterConflictReview \/ EnterRemote \/ SubmitConnect
         \/ BrowseRefresh \/ BrowseOpen \/ AnswerDelete \/ AnswerConflict
         \/ AnswerTakeServers \/ AnswerNameTaken \/ AnswerDraftLoss
  PROVE  SafetyInv'
<1> USE DEF Idle, OnScreen, Asked, GoTo, LeaveReview, Ask, NoQuestion,
            serverVars, opVars, viewVars, docVars
<1>1. StateOK /\ RestTyped /\ SessionHonest /\ ViewOK
  BY DEF TypeInv, StateOK, SafetyInv
<1>2. UNCHANGED serverVars /\ UNCHANGED docVars /\ op = None
  BY DEF SaveRemote, RetryAfterConflictReview, EnterRemote, SubmitConnect,
         BrowseRefresh, BrowseOpen, AnswerDelete, AnswerConflict,
         AnswerTakeServers, AnswerNameTaken, AnswerDraftLoss, Busy
<1>3. SessionHonest' /\ (SessionStale => SessionStale')
  BY <1>1, <1>2, ServerRests, SessionStays DEF SafetyInv
<1>4. ViewOK'
  <2> USE DEF ViewOK, SessionStale, Honest, Stale, Present
  <2>1. CASE SaveRemote
    BY <1>1, <2>1 DEF SaveRemote
  <2>2. CASE RetryAfterConflictReview
    BY <1>1, <2>2 DEF RetryAfterConflictReview
  <2>3. CASE EnterRemote
    BY <1>1, <2>3 DEF EnterRemote
  <2>4. CASE SubmitConnect
    BY <1>1, <2>4 DEF SubmitConnect
  <2>5. CASE BrowseRefresh
    BY <1>1, <2>5 DEF BrowseRefresh
  <2>6. CASE BrowseOpen
    BY <1>1, <2>6 DEF BrowseOpen
  <2>7. CASE AnswerDelete
    BY <1>1, <2>7 DEF AnswerDelete
  <2>8. CASE AnswerConflict
    BY <1>1, <2>8 DEF AnswerConflict
  <2>9. CASE AnswerTakeServers
    BY <1>1, <2>9 DEF AnswerTakeServers
  <2>10. CASE AnswerNameTaken
    BY <1>1, <2>10 DEF AnswerNameTaken
  <2>11. CASE AnswerDraftLoss
    BY <1>1, <2>11 DEF AnswerDraftLoss
  <2> QED
    BY <2>1, <2>2, <2>3, <2>4, <2>5, <2>6, <2>7, <2>8, <2>9, <2>10, <2>11
<1>5. calls' = calls /\ op' = op => SafetyInv'
  BY <1>2, <1>3, <1>4, NothingAwaited
<1>6. CASE SaveRemote
  <2>1. /\ BeginOp(WriteCall(rev)) /\ backing = "remote" /\ screen = "review"
        /\ rev \in Revision /\ reviewKind = "save" /\ pending' = None
    BY <1>1, <1>6 DEF SaveRemote, WritePolicyWith, RestTyped, ViewOK
  <2>2. exists => Honest(name, rev) /\ (rev.has => shown.left = rev.of \/ Stale(name, rev))
    BY <1>1, <2>1 DEF SessionHonest, ViewOK
  <2> QED
    BY <1>2, <1>3, <1>4, <2>1, <2>2, WriteBegins
<1>7. CASE RetryAfterConflictReview
  <2>1. /\ BeginOp(WriteCall(pending)) /\ screen = "review"
        /\ pending \in Revision /\ pending # None /\ pending' = None
    BY <1>1, <1>7 DEF RetryAfterConflictReview, WritePolicyWith, RestTyped
  <2>2. /\ backing = "remote" /\ Honest(name, pending) /\ shown.left = pending.of
        /\ SessionStale
    BY <1>1, <2>1 DEF ViewOK
  <2> QED
    BY <1>2, <1>3, <1>4, <2>1, <2>2, WriteBegins
<1>8. CASE EnterRemote
  BY <1>2, <1>3, <1>4, <1>5, <1>8, RequestSafety DEF EnterRemote, Kinds, Writes
<1>9. CASE SubmitConnect
  BY <1>2, <1>3, <1>4, <1>9, RequestSafety DEF SubmitConnect, Kinds, Writes
<1>10. CASE BrowseRefresh
  BY <1>2, <1>3, <1>4, <1>10, RequestSafety DEF BrowseRefresh, Kinds, Writes
<1>11. CASE BrowseOpen
  BY <1>2, <1>3, <1>4, <1>11, RequestSafety DEF BrowseOpen, Kinds, Writes, Dirty
<1>12. CASE AnswerDelete
  <2>1. subject \in Names
    BY <1>1, <1>12 DEF AnswerDelete, StateOK
  <2> QED
    BY <1>2, <1>3, <1>4, <1>5, <1>12, <2>1, DeleteBegins DEF AnswerDelete
<1>13. CASE AnswerConflict
  <2>1. SessionStale'
    BY <1>1, <1>3, <1>13 DEF AnswerConflict, ViewOK
  <2>2. CASE FetchServerCopy(Request("look", name))
    <3>1. BeginOp(Request("look", name)) /\ backing' = "remote" /\ name' = name /\ name \in Names
      BY <1>1, <1>2, <2>2 DEF FetchServerCopy, StateOK
    <3> QED
      BY <1>2, <1>3, <1>4, <2>1, <3>1, RequestSafety DEF Kinds, Writes
  <2> QED
    BY <1>5, <1>13, <2>2 DEF AnswerConflict
<1>14. CASE AnswerTakeServers
  <2>1. CASE FetchServerCopy(Consented("reload", name))
    <3>1. BeginOp(Consented("reload", name)) /\ name' = name /\ name \in Names
      BY <1>1, <1>2, <2>1 DEF FetchServerCopy, StateOK
    <3> QED
      BY <1>2, <1>3, <1>4, <3>1, RequestSafety DEF Kinds, Writes
  <2> QED
    BY <1>5, <1>14, <2>1 DEF AnswerTakeServers
<1>15. CASE AnswerNameTaken
  <2>1. subject \in Names
    BY <1>1, <1>15 DEF AnswerNameTaken, StateOK
  <2>2. CASE ~Dirty /\ BeginOp(Request("open", subject))
    <3>1. ~Dirty'
      BY <1>2, <2>2 DEF Dirty
    <3> QED
      BY <1>2, <1>3, <1>4, <2>1, <2>2, <3>1, RequestSafety DEF Kinds, Writes
  <2> QED
    BY <1>5, <1>15, <2>2 DEF AnswerNameTaken
<1>16. CASE AnswerDraftLoss
  <2>1. subject \in Names
    BY <1>1, <1>16 DEF AnswerDraftLoss, StateOK
  <2>2. CASE BeginOp(Consented("open", subject))
    BY <1>2, <1>3, <1>4, <2>1, <2>2, RequestSafety DEF Kinds, Writes
  <2> QED
    BY <1>5, <1>16, <2>2 DEF AnswerDraftLoss
<1> QED
  BY <1>6, <1>7, <1>8, <1>9, <1>10, <1>11, <1>12, <1>13, <1>14, <1>15, <1>16

-----------------------------------------------------------------------------
(* The replies *)

\* A reply that is not awaited changes nothing.
LEMMA StaleReplySafety ==
  ASSUME TypeInv, SafetyInv, NEW o \in Ops, HandleStale(o)
  PROVE  SafetyInv'
<1>1. PICK c \in Call : c = calls[o] /\ CallShape(c) /\ CallHonest(c)
  BY DEF TypeInv, CallsOK, CallsTyped, SafetyInv
<1>2. PICK d : d = Finished(c)
  OBVIOUS
<1>3. d \in Call /\ CallShape(d) /\ CallHonest(d)
  BY <1>1, <1>2, FinishedType, FinishedHonest
<1>4. /\ calls' = [calls EXCEPT ![o] = d] /\ op # o
      /\ UNCHANGED <<serverVars, op, viewVars, docVars>>
  BY <1>1, <1>2 DEF HandleStale, Accept
<1> QED
  BY <1>3, <1>4, CommandRests

\* The replies: each one brings to the session and the screen what its
\* command had promised.
LEMMA RepliesSafety ==
  ASSUME TypeInv, SafetyInv, NEW o \in Ops, Replies(o)
  PROVE  SafetyInv'
<1> USE DEF GoTo, LeaveReview, ShowDiff, Ask, serverVars, viewVars, docVars
<1> DEFINE Handled ==
      \/ HandleListing(o) \/ HandleOpened(o) \/ HandleLooked(o) \/ HandleReloaded(o)
      \/ HandleWrote(o) \/ HandleDeleted(o) \/ HandleRemoteErr(o)
<1>1. CASE HandleStale(o)
  BY <1>1, StaleReplySafety
<1>2. CASE Handled
  <2>1. PICK c \in Call : c = calls[o] /\ CallShape(c) /\ CallHonest(c)
    BY DEF TypeInv, CallsOK, CallsTyped, SafetyInv
  <2>2. c.stage = "replied" /\ op = o /\ EndOp(o) /\ UNCHANGED serverVars
    BY <1>2, <2>1
       DEF HandleListing, HandleOpened, HandleLooked, HandleReloaded, HandleWrote,
           HandleDeleted, HandleRemoteErr, Succeeded, Replied, Accept
  <2>3. AwaitedOK(c) /\ Busy /\ dialog = "none"
    BY <2>1, <2>2, ConstantsAssumption DEF SafetyInv, TypeInv, Awaiting, Busy
  <2>4. /\ op' = None
        /\ \A p \in Ops : calls'[p] \in {calls[p], Finished(calls[p])}
    BY <2>1, <2>2 DEF EndOp, TypeInv, CallsOK, CallsTyped
  <2>5. SessionHonest /\ ViewOK /\ StateOK
    BY DEF SafetyInv, TypeInv
  <2>6. SessionHonest' /\ ViewOK'
    <3> USE DEF SessionHonest, ViewOK, SessionStale, Honest, Stale, Present
    <3>1. CASE HandleListing(o)
      <4>1. screen # "review"
        BY <2>1, <2>3, <3>1 DEF HandleListing, Succeeded, Replied, AwaitedOK
      <4> QED
        BY <2>3, <2>5, <3>1, <4>1 DEF HandleListing
    <3>2. CASE HandleOpened(o)
      <4>1. Honest(c.name, c.reply.rev) /\ c.reply.rev.of = c.reply.body
        BY <2>1, <2>2, <3>2
           DEF HandleOpened, Succeeded, Replied, CallHonest, CallShape, ReadKinds
      <4> QED
        BY <2>1, <2>3, <2>5, <3>2, <4>1 DEF HandleOpened, AdoptSession
    <3>3. CASE HandleLooked(o)
      <4>1. /\ Honest(c.name, c.reply.rev) /\ c.reply.rev.of = c.reply.body
            /\ backing = "remote" /\ c.name = name /\ SessionStale
        BY <2>1, <2>2, <2>3, <3>3
           DEF HandleLooked, Succeeded, Replied, CallHonest, CallShape, ReadKinds,
               AwaitedOK
      <4> QED
        BY <2>1, <2>3, <2>5, <3>3, <4>1 DEF HandleLooked
    <3>4. CASE HandleReloaded(o)
      <4>1. /\ Honest(c.name, c.reply.rev) /\ c.reply.rev.of = c.reply.body
            /\ c.name = name
        BY <2>1, <2>2, <2>3, <3>4
           DEF HandleReloaded, Succeeded, Replied, CallHonest, CallShape, ReadKinds,
               AwaitedOK
      <4> QED
        BY <2>1, <2>3, <2>5, <3>4, <4>1 DEF HandleReloaded, AdoptSession
    <3>5. CASE HandleWrote(o)
      <4>1. c.kind \in Writes /\ c.reply.err = ""
        BY <2>1, <3>5 DEF HandleWrote, Succeeded, Replied
      <4>2. /\ Honest(name, c.reply.rev) /\ (c.reply.rev.has => c.reply.rev.of = current)
            /\ pending = None
        BY <2>1, <2>2, <2>3, <4>1 DEF CallHonest, AwaitedOK
      <4> QED
        BY <2>1, <2>3, <2>5, <3>5, <4>2 DEF HandleWrote
    <3>6. CASE HandleDeleted(o)
      BY <2>3, <2>5, <3>6 DEF HandleDeleted
    <3>7. CASE HandleRemoteErr(o)
      <4>1. UNCHANGED <<serverVars, docVars, reviewKind, pending>>
        BY <3>7 DEF HandleRemoteErr
      <4>2. dialog' = "conflict" => SessionStale
        BY <2>1, <2>2, <2>3, <3>7 DEF HandleRemoteErr, AwaitedOK
      <4>3. \/ UNCHANGED <<screen, shown>>
            \/ screen' = "connect" /\ pending = None
        BY <2>5, <3>7 DEF HandleRemoteErr, StateOK
      <4>4. dialog' \in {"none", "nameTaken", "conflict"}
        BY <2>3, <3>7 DEF HandleRemoteErr
      <4> QED
        BY <2>5, <4>1, <4>2, <4>3, <4>4
    <3> QED
      BY <1>2, <3>1, <3>2, <3>3, <3>4, <3>5, <3>6, <3>7
  <2> QED
    BY <2>2, <2>4, <2>6, NothingAwaited
<1> QED
  BY <1>1, <1>2 DEF Replies

-----------------------------------------------------------------------------
(* The safety theorems *)

\* The first state is safe.
LEMMA InitSafety ==
  ASSUME Init
  PROVE  SafetyInv
<1>1. /\ \A n \in Names : server[n].ver = 0 /\ issued[n] = 0
      /\ \A o \in Ops : calls[o] = NoCall
  BY DEF Init
<1>2. ASSUME NEW o \in Ops PROVE CallHonest(calls[o])
  <2>1. PICK c : c = calls[o] /\ c = NoCall
    BY <1>1
  <2>2. CallHonest(c)
    BY <2>1 DEF CallHonest, NoCall, Writes, ReadKinds
  <2> QED
    BY <2>1, <2>2
<1>3. VersionsIssued
  <2>1. ASSUME NEW n \in Names PROVE server[n].ver <= issued[n]
    <3>1. server[n].ver = 0 /\ issued[n] = 0
      BY <1>1
    <3> QED
      BY <3>1
  <2> QED
    BY <2>1 DEF VersionsIssued
<1>4. SessionHonest /\ ViewOK
  BY DEF Init, SessionHonest, ViewOK
<1>5. op \notin Ops
  BY ConstantsAssumption DEF Init
<1> QED
  BY <1>2, <1>3, <1>4, <1>5 DEF SafetyInv

\* The inductive invariant behind the safety properties holds of every
\* reachable state.
THEOREM Inductive == Spec => []IInv
<1>1. Init => IInv
  BY InitType, InitSafety DEF IInv
<1>2. ASSUME IInv, [Next]_vars PROVE SafetyInv'
  <2>1. TypeInv /\ SafetyInv
    BY <1>2 DEF IInv
  <2>2. CASE Edits
    BY <2>1, <2>2, QuietKeysSafety, BeginKeysSafety, EndKeysSafety DEF Edits
  <2>3. CASE Remote
    BY <2>1, <2>3, QuietKeysSafety, BeginKeysSafety DEF Remote
  <2>4. ASSUME NEW o \in Ops, Commands(o) \/ Replies(o) PROVE SafetyInv'
    BY <2>1, <2>4, CommandsSafety, RepliesSafety
  <2>5. CASE OthersWrite \/ OthersDelete
    BY <2>1, <2>5, OthersSafety
  <2>6. CASE UNCHANGED vars
    <3>1. UNCHANGED <<calls, op, docVars, viewVars, serverVars>>
      BY <2>6 DEF vars, opVars
    <3> QED
      BY <2>1, <3>1, ServerRests, ServerKeepsSafety DEF SafetyInv
  <2> QED
    BY <1>2, <2>2, <2>3, <2>4, <2>5, <2>6 DEF Next
<1>3. IInv => TypeInv
  BY DEF IInv
<1>4. IInv <=> TypeInv /\ SafetyInv
  BY DEF IInv
<1>5. IInv /\ [Next]_vars => SafetyInv'
  BY <1>2
<1>6. TypeInv' /\ SafetyInv' => IInv'
  BY DEF IInv
<1> QED
  BY <1>1, <1>3, <1>5, <1>6, TypeCorrect, PTL DEF Spec

\* Whatever the other clients and the network do, an update the server is
\* about to accept replaces exactly the text the user saw on the left of the
\* diff, by exactly the text on its right.
THEOREM OnlyShownOverwritten == Spec => []OnlyShownContentIsOverwritten
<1>1. IInv => OnlyShownContentIsOverwritten
  <2>1. SUFFICES ASSUME TypeInv, SafetyInv, NEW o \in Ops,
                        calls[o].wire, calls[o].kind = "update", CasHolds(calls[o])
                 PROVE  calls[o].seen = [left |-> server[calls[o].name].body,
                                         right |-> calls[o].body]
    BY DEF IInv, OnlyShownContentIsOverwritten
  <2>2. PICK c \in Call : c = calls[o] /\ CallHonest(c)
    BY <2>1 DEF TypeInv, CallsOK, CallsTyped, SafetyInv
  <2>3. Reviewed(c) /\ Present(c.name) /\ server[c.name].ver = c.rev.ver
    BY <2>1, <2>2 DEF CallHonest, CasHolds
  <2>4. c.seen.left = server[c.name].body
    BY <2>3 DEF Reviewed, Honest, Stale
  <2>5. c.seen \in DiffPair /\ c.seen.right = c.body
    BY <2>3 DEF Reviewed
  <2>6. c.seen = [left |-> c.seen.left, right |-> c.seen.right]
    BY <2>5 DEF DiffPair
  <2> QED
    BY <2>2, <2>4, <2>5, <2>6
<1> QED
  BY <1>1, Inductive, PTL

\* A session at the server's version has the server's text as its baseline.
THEOREM MatchingRevision == Spec => []MatchingRevisionMeansMatchingText
<1>1. IInv => MatchingRevisionMeansMatchingText
  BY DEF IInv, SafetyInv, SessionHonest, Honest, MatchingRevisionMeansMatchingText
<1> QED
  BY <1>1, Inductive, PTL

\* The looked-at revision is held only while its copy is on screen.
THEOREM LicenceShown == Spec => []LicenceOnlyWhileShown
<1>1. IInv => LicenceOnlyWhileShown
  <2>1. SUFFICES ASSUME TypeInv, SafetyInv, pending # None
                 PROVE  /\ screen = "review" /\ reviewKind = "serverConflict"
                        /\ shown = [left |-> pending.of, right |-> current]
    BY DEF IInv, LicenceOnlyWhileShown
  <2>2. /\ screen = "review" /\ reviewKind = "serverConflict"
        /\ shown.left = pending.of /\ shown.right = current
    BY <2>1 DEF SafetyInv, ViewOK
  <2>3. shown \in DiffPair
    BY <2>1, <2>2 DEF TypeInv, StateOK
  <2>4. shown = [left |-> shown.left, right |-> shown.right]
    BY <2>3 DEF DiffPair
  <2> QED
    BY <2>2, <2>4
<1> QED
  BY <1>1, Inductive, PTL

\* Unsaved edits change only where the user types, or under the very operation
\* begun by confirming their loss.
THEOREM EditsKept == Spec => EditsNeedConsent
<1> DEFINE Kept == Dirty /\ current' # current =>
                     IF Busy THEN calls[op].consent ELSE screen = "editor"
<1>1. ASSUME IInv, [Next]_vars PROVE [Kept]_vars
  <2>1. TypeInv /\ SafetyInv
    BY <1>1 DEF IInv
  <2>2. CASE Edits
    <3>1. current' = current \/ EditDocument
      BY <2>2
         DEF Edits, PressReview, CloseReview, PressQuit, AnswerDiscard,
             PressEscapeBusy, PressQuitBusy, SaveRemote, SaveLocal,
             RetryAfterConflictReview, docVars
    <3> QED
      BY <3>1 DEF EditDocument, OnScreen, Idle
  <2>3. CASE Remote
    <3>1. current' = current \/ NameNewPolicy
      BY <2>3
         DEF Remote, EnterRemote, SubmitConnect, Navigate, BrowseRefresh, BrowseOpen,
             BrowseDelete, AnswerDelete, AnswerConflict, AnswerTakeServers,
             AnswerNameTaken, AnswerDraftLoss, docVars
    <3> QED
      BY <3>1 DEF NameNewPolicy
  <2>4. ASSUME NEW o \in Ops, Commands(o) PROVE Kept
    BY <2>4
       DEF Commands, ServerAnswersList, ServerAnswersRead, WriteLands, WriteRefused,
           DeleteLands, CallFails, ReadBack, docVars
  <2>5. ASSUME NEW o \in Ops, Replies(o) PROVE Kept
    <3>1. current' = current \/ HandleOpened(o) \/ HandleReloaded(o)
      BY <2>5
         DEF Replies, HandleStale, HandleListing, HandleLooked, HandleWrote,
             HandleDeleted, HandleRemoteErr, docVars
    <3>2. ASSUME HandleOpened(o) \/ HandleReloaded(o) PROVE Kept
      <4>1. op = o /\ calls[o].kind \in {"open", "reload"}
        BY <3>2 DEF HandleOpened, HandleReloaded, Succeeded, Replied, Accept
      <4>2. PICK c \in Call : c = calls[o]
        BY <2>1 DEF TypeInv, CallsOK, CallsTyped
      <4>3. AwaitedOK(c) /\ c.kind \in {"open", "reload"}
        BY <2>1, <4>1, <4>2 DEF SafetyInv
      <4>4. c.consent \/ ~Dirty
        BY <4>3 DEF AwaitedOK
      <4>5. Busy
        BY <4>1, ConstantsAssumption DEF Busy
      <4> QED
        BY <4>1, <4>2, <4>4, <4>5
    <3> QED
      BY <3>1, <3>2
  <2>6. CASE OthersWrite \/ OthersDelete
    BY <2>6 DEF OthersWrite, OthersDelete, docVars
  <2> QED
    BY <1>1, <2>2, <2>3, <2>4, <2>5, <2>6 DEF Next
<1>2. IInv /\ [Next]_vars => [Kept]_vars
  BY <1>1
<1> QED
  BY <1>2, Inductive, PTL DEF Spec, EditsNeedConsent

-----------------------------------------------------------------------------
(* The requests on the wire *)

\* What the abstract specification sees of o's command.
Outstanding(o, c) ==
  [op |-> o, kind |-> c.kind, name |-> c.name,
   left |-> IF c.kind = "update" THEN c.seen.left ELSE None, right |-> c.body]

\* Two commands carry the same request, or neither carries one.
SameWire(c, d) ==
  /\ d.wire = c.wire
  /\ c.wire => /\ d.kind = c.kind /\ d.name = c.name
               /\ d.body = c.body /\ d.seen = c.seen /\ d.rev = c.rev

\* No request moves: nothing is confirmed and nothing withdrawn.
LEMMA NoRequestMoves ==
  ASSUME \A p \in Ops : SameWire(calls[p], calls'[p])
  PROVE  Confirmed' = Confirmed
BY DEF SameWire, Confirmed

\* The request of o leaves the wire: it is no longer outstanding.
LEMMA RequestLeaves ==
  ASSUME NEW o \in Ops, calls[o].wire, ~calls'[o].wire,
         \A p \in Ops \ {o} : calls'[p] = calls[p]
  PROVE  /\ Outstanding(o, calls[o]) \in Confirmed
         /\ Confirmed' = Confirmed \ {Outstanding(o, calls[o])}
<1>1. \A p \in Ops \ {o} : Outstanding(p, calls[p]) # Outstanding(o, calls[o])
  BY DEF Outstanding
<1> QED
  BY <1>1 DEF Confirmed, Outstanding

\* A request of o is sent: one more change is outstanding, of an operation
\* that had none.
LEMMA RequestSent ==
  ASSUME NEW o \in Ops, ~calls[o].wire, calls'[o].wire,
         \A p \in Ops \ {o} : calls'[p] = calls[p]
  PROVE  /\ Confirmed' = Confirmed \cup {Outstanding(o, calls'[o])}
         /\ \A d \in Confirmed : d.op # o
BY DEF Confirmed, Outstanding

\* A command whose goroutine ends or gets its result leaves its request alone.
LEMMA EndsSameWire ==
  ASSUME NEW c
  PROVE  /\ \A r : SameWire(c, Settle(c, r))
         /\ c \in Call => SameWire(c, Finished(c))
<1>1. ASSUME NEW r PROVE SameWire(c, Settle(c, r))
  BY DEF SameWire, Settle
<1>2. ASSUME c \in Call PROVE SameWire(c, Finished(c))
  <2>1. CASE c.wire
    BY <1>2, <2>1 DEF SameWire, Finished, Call
  <2>2. CASE ~c.wire
    BY <1>2, <2>2 DEF SameWire, Finished, NoCall, Call
  <2> QED
    BY <2>1, <2>2
<1> QED
  BY <1>1, <1>2

-----------------------------------------------------------------------------
(* The abstract steps *)

Policies == [n \in Names |-> [body |-> server[n].body, by |-> server[n].by]]

\* A step of no request that leaves the server alone is no step at all.
LEMMA Rests ==
  ASSUME UNCHANGED server, \A p \in Ops : SameWire(calls[p], calls'[p])
  PROVE  UNCHANGED Abstract!vars
BY NoRequestMoves DEF Abstract!vars

\* What is sent is a change the abstract specification knows.
LEMMA OutstandingIsAChange ==
  ASSUME NEW o \in Ops, NEW c \in Call, c.wire, CallShape(c), CallHonest(c)
  PROVE  Outstanding(o, c) \in Abstract!Change
<1>1. /\ c.kind \in {"create", "update", "delete"} /\ c.name \in Names
      /\ c.body \in Bodies \cup {None}
  BY DEF CallShape, Call, Writes
<1>2. c.kind = "update" => c.seen.left \in Bodies
  BY DEF CallHonest, Reviewed, DiffPair
<1> QED
  BY <1>1, <1>2 DEF Outstanding, Abstract!Change

\* What the requests in flight satisfy in every reachable state.
LEMMA CommandFacts ==
  ASSUME IInv, NEW o \in Ops
  PROVE  /\ calls[o] \in Call /\ CallShape(calls[o]) /\ CallHonest(calls[o])
         /\ calls[o].wire => Outstanding(o, calls[o]) \in Confirmed
BY DEF IInv, TypeInv, CallsOK, CallsTyped, SafetyInv, Confirmed, Outstanding

\* One request leaves the wire, and the server is not touched: the change is
\* withdrawn.
LEMMA Withdraws ==
  ASSUME NEW o \in Ops, calls[o].wire, ~calls'[o].wire,
         \A p \in Ops \ {o} : calls'[p] = calls[p], UNCHANGED server
  PROVE  Abstract!Withdraw
<1>1. /\ Outstanding(o, calls[o]) \in Confirmed
      /\ Confirmed' = Confirmed \ {Outstanding(o, calls[o])}
  BY RequestLeaves
<1> QED
  BY <1>1 DEF Abstract!Withdraw

\* A command that is executed or refused keeps its request on the wire, to be
\* sent again, or takes it off.
LEMMA ExecutedWire ==
  ASSUME IInv, NEW o \in Ops, calls[o].wire,
         NEW c \in {Received(o), [Received(o) EXCEPT !.landed = TRUE]},
         NEW next, \A d \in next : ~d.wire,
         Executed(o, c, next)
  PROVE  /\ ~calls'[o].wire \/ SameWire(calls[o], calls'[o])
         /\ \A p \in Ops \ {o} : calls'[p] = calls[p]
<1>1. CallsOK /\ calls \in [Ops -> Call]
  BY DEF IInv, TypeInv, CallsOK, CallsTyped
<1>2. /\ c \in Call /\ ~c.wire /\ c.kind = calls[o].kind /\ c.name = calls[o].name
      /\ c.seen = calls[o].seen /\ c.body = calls[o].body /\ c.rev = calls[o].rev
  BY <1>1, ReceivedType
<1>3. ASSUME NEW r PROVE ~Settle(c, r).wire
  BY <1>2 DEF Settle
<1>4. PICK d \in {NoCall, Settle(c, c.reply)} \cup next \cup Unanswered(o, c) :
        calls' = [calls EXCEPT ![o] = d]
  <2>1. CASE c.stage = "gone"
    BY <2>1 DEF Executed
  <2>2. CASE c.stage = "replied"
    BY <2>2 DEF Executed
  <2>3. CASE c.stage \notin {"gone", "replied"}
    BY <2>3 DEF Executed
  <2> QED
    BY <2>1, <2>2, <2>3
<1>5. ~d.wire \/ d = [c EXCEPT !.wire = TRUE, !.tries = @ + 1]
  BY <1>3, <1>4 DEF Unanswered, NoCall
<1>6. CASE ~d.wire
  BY <1>1, <1>4, <1>6
<1>7. CASE d = [c EXCEPT !.wire = TRUE, !.tries = @ + 1]
  <2>1. /\ d.wire /\ d.kind = c.kind /\ d.name = c.name
        /\ d.seen = c.seen /\ d.body = c.body /\ d.rev = c.rev
    BY <1>2, <1>7 DEF Call
  <2> QED
    BY <1>1, <1>2, <1>4, <2>1 DEF SameWire
<1> QED
  BY <1>5, <1>6, <1>7

\* The changes confirmed are those before, or those but the one executed.
LEMMA ExecutedConfirmed ==
  ASSUME IInv, NEW o \in Ops, calls[o].wire,
         ~calls'[o].wire \/ SameWire(calls[o], calls'[o]),
         \A p \in Ops \ {o} : calls'[p] = calls[p]
  PROVE  Confirmed' \in {Confirmed, Confirmed \ {Outstanding(o, calls[o])}}
<1>1. CASE ~calls'[o].wire
  BY <1>1, RequestLeaves
<1>2. CASE SameWire(calls[o], calls'[o])
  <2>1. \A p \in Ops : SameWire(calls[p], calls'[p])
    BY <1>2 DEF SameWire
  <2> QED
    BY <2>1, NoRequestMoves
<1> QED
  BY <1>1, <1>2

\* A write the server executes lands the change the user confirmed: an update
\* finds the text on the left of the diff, a create finds nothing.
LEMMA WriteIsALanding ==
  ASSUME IInv, NEW o \in Ops, WriteLands(o)
  PROVE  Abstract!Land
<1> DEFINE c == calls[o]
           d == [Received(o) EXCEPT !.landed = TRUE]
           v == issued[c.name] + 1
<1>1. /\ c \in Call /\ CallShape(c) /\ CallHonest(c) /\ c.wire
      /\ c.kind \in Writes /\ CasHolds(c) /\ Outstanding(o, c) \in Confirmed
  BY CommandFacts DEF WriteLands
<1>2. c.name \in Names /\ c.body \in Bodies
  BY <1>1 DEF CallShape, Writes
<1>3. server \in [Names -> Policy]
  BY DEF IInv, TypeInv, StateOK, RestTyped
<1>4. Executed(o, d, WriteAnswers(d, v))
  BY DEF WriteLands
<1>5. \A e \in WriteAnswers(d, v) : ~e.wire
  <2>1. d \in Call /\ ~d.wire
    BY <1>1, ReceivedType DEF IInv, TypeInv
  <2> HIDE DEF d, v
  <2>2. [d EXCEPT !.stage = "readback"].wire = d.wire
    BY <2>1 DEF Call
  <2>3. ASSUME NEW r PROVE ~Settle(d, r).wire
    BY <2>1 DEF Settle
  <2> QED
    BY <2>1, <2>2, <2>3 DEF WriteAnswers
<1>6. Confirmed' \in {Confirmed, Confirmed \ {Outstanding(o, c)}}
  <2> HIDE DEF v
  <2>1. d \in {Received(o), [Received(o) EXCEPT !.landed = TRUE]}
    OBVIOUS
  <2> HIDE DEF d
  <2> QED
    BY <1>1, <1>4, <1>5, <2>1, ExecutedWire, ExecutedConfirmed
<1>7. server[c.name].body = Outstanding(o, c).left
  <2>1. CASE c.kind = "create"
    BY <1>1, <2>1 DEF CasHolds, Present, Outstanding
  <2>2. CASE c.kind = "update"
    <3>1. Reviewed(c) /\ Present(c.name) /\ server[c.name].ver = c.rev.ver
      BY <1>1, <2>2 DEF CallHonest, CasHolds
    <3> QED
      BY <2>2, <3>1 DEF Reviewed, Honest, Stale, Outstanding
  <2> QED
    BY <1>1, <2>1, <2>2 DEF Writes
<1>8. Policies' = [Policies EXCEPT ![c.name] = [body |-> c.body, by |-> "editor"]]
  <2>1. server' = [server EXCEPT ![c.name] =
                     [body |-> c.body, ver |-> v, meta |-> PutBack(c.rev.meta),
                      by |-> "editor"]]
    BY DEF WriteLands
  <2> HIDE DEF c, v
  <2> QED
    BY <1>2, <1>3, <2>1 DEF Policies
<1>9. /\ Outstanding(o, c).kind = c.kind /\ Outstanding(o, c).name = c.name
      /\ Outstanding(o, c).right = c.body /\ c.kind # "delete"
  BY <1>1 DEF Outstanding, Writes
<1>10. Policies[c.name].body = Outstanding(o, c).left
  BY <1>2, <1>7 DEF Policies
<1> HIDE DEF c
<1> QED
  BY <1>1, <1>6, <1>8, <1>9, <1>10 DEF Abstract!Land, Policies

\* So does a delete, which removes whatever is there.
LEMMA DeleteIsALanding ==
  ASSUME IInv, NEW o \in Ops, DeleteLands(o)
  PROVE  Abstract!Land
<1> DEFINE c == calls[o]
<1>1. /\ c \in Call /\ CallShape(c) /\ c.wire /\ c.kind = "delete"
      /\ Outstanding(o, c) \in Confirmed
  BY CommandFacts DEF DeleteLands
<1>2. c.name \in Names
  BY <1>1 DEF CallShape
<1>3. server \in [Names -> Policy]
  BY DEF IInv, TypeInv, StateOK, RestTyped
<1>4. Confirmed' \in {Confirmed, Confirmed \ {Outstanding(o, c)}}
  <2> DEFINE d == Received(o)
             next == {Settle(d, NoReply)}
  <2>1. Executed(o, d, next)
    BY DEF DeleteLands
  <2>2. d \in Call /\ ~d.wire
    BY <1>1, ReceivedType DEF IInv, TypeInv
  <2>3. \A e \in next : ~e.wire
    BY <2>2 DEF Settle
  <2>4. d \in {Received(o), [Received(o) EXCEPT !.landed = TRUE]}
    OBVIOUS
  <2> HIDE DEF d, next
  <2> QED
    BY <1>1, <2>1, <2>3, <2>4, ExecutedWire, ExecutedConfirmed
<1>5. Policies' = [Policies EXCEPT ![c.name] = [body |-> None, by |-> "editor"]]
  BY <1>2, <1>3 DEF DeleteLands, Policies
<1>6. Outstanding(o, c).kind = "delete" /\ Outstanding(o, c).name = c.name
  BY <1>1 DEF Outstanding
<1> HIDE DEF c
<1> QED
  BY <1>1, <1>4, <1>5, <1>6 DEF Abstract!Land, Policies

\* One command gets its result: no request moves.
LEMMA AnswerRestsAbstractly ==
  ASSUME IInv, NEW o \in Ops, NEW r, Answer(o, r), UNCHANGED server
  PROVE  UNCHANGED Abstract!vars
<1>1. calls \in [Ops -> Call]
  BY DEF IInv, TypeInv, CallsOK, CallsTyped
<1>2. \A p \in Ops : calls'[p] = IF p = o THEN Settle(calls[o], r) ELSE calls[p]
  BY <1>1 DEF Answer
<1>3. \A p \in Ops : SameWire(calls[p], calls'[p])
  BY <1>2, EndsSameWire DEF SameWire
<1> QED
  BY <1>3, Rests

\* Every step of a command and of the server under it is a step of the
\* abstract specification, or none.
LEMMA CommandsRefine ==
  ASSUME IInv, NEW o \in Ops, Commands(o)
  PROVE  [Abstract!Next]_(Abstract!vars)
<1> USE DEF serverVars
<1>1. CASE ServerAnswersList(o)
  BY <1>1, AnswerRestsAbstractly DEF ServerAnswersList
<1>2. CASE ServerAnswersRead(o)
  <2>1. (\E r : Answer(o, r)) /\ UNCHANGED server
    BY <1>2 DEF ServerAnswersRead
  <2> QED
    BY <2>1, AnswerRestsAbstractly
<1>3. CASE WriteLands(o)
  BY <1>3, WriteIsALanding DEF Abstract!Next
<1>4. CASE WriteRefused(o)
  <2>1. PICK e : Executed(o, Received(o), {Settle(Received(o), Failure(e))})
    BY <1>4 DEF WriteRefused
  <2> DEFINE d == Received(o)
             next == {Settle(d, Failure(e))}
  <2>2. calls[o].wire /\ UNCHANGED server
    BY <1>4 DEF WriteRefused
  <2>3. d \in Call /\ ~d.wire
    BY <2>2, ReceivedType DEF IInv, TypeInv
  <2>4. \A f \in next : ~f.wire
    BY <2>3 DEF Settle
  <2>5. /\ d \in {Received(o), [Received(o) EXCEPT !.landed = TRUE]}
        /\ Executed(o, d, next)
    BY <2>1
  <2> HIDE DEF d, next
  <2>6. /\ ~calls'[o].wire \/ SameWire(calls[o], calls'[o])
        /\ \A p \in Ops \ {o} : calls'[p] = calls[p]
    BY <2>2, <2>4, <2>5, ExecutedWire
  <2>7. CASE ~calls'[o].wire
    BY <2>2, <2>6, <2>7, Withdraws DEF Abstract!Next
  <2>8. CASE SameWire(calls[o], calls'[o])
    <3>1. \A p \in Ops : SameWire(calls[p], calls'[p])
      BY <2>6, <2>8 DEF SameWire
    <3> QED
      BY <2>2, <3>1, Rests
  <2> QED
    BY <2>6, <2>7, <2>8
<1>5. CASE DeleteLands(o)
  BY <1>5, DeleteIsALanding DEF Abstract!Next
<1>6. CASE CallFails(o)
  BY <1>6, AnswerRestsAbstractly DEF CallFails
<1>7. CASE ReadBack(o)
  <2>1. (\E r : Answer(o, r)) /\ UNCHANGED server
    BY <1>7 DEF ReadBack
  <2> QED
    BY <2>1, AnswerRestsAbstractly
<1> QED
  BY <1>1, <1>2, <1>3, <1>4, <1>5, <1>6, <1>7 DEF Commands

\* A goroutine that ends, alone or with the program, leaves every request
\* where it is.
LEMMA EndingRests ==
  ASSUME IInv, UNCHANGED server,
         \/ \E o \in Ops : calls' = [calls EXCEPT ![o] = Finished(@)]
         \/ calls' = [o \in Ops |-> Finished(calls[o])]
         \/ UNCHANGED calls
  PROVE  UNCHANGED Abstract!vars
<1>1. calls \in [Ops -> Call]
  BY DEF IInv, TypeInv, CallsOK, CallsTyped
<1>2. \A p \in Ops : calls'[p] \in {calls[p], Finished(calls[p])}
  BY <1>1
<1>3. \A p \in Ops : SameWire(calls[p], calls'[p])
  BY <1>1, <1>2, EndsSameWire DEF SameWire
<1> QED
  BY <1>3, Rests

\* The replies change the session and the screen, never what is outstanding.
LEMMA RepliesRefine ==
  ASSUME IInv, NEW o \in Ops, Replies(o)
  PROVE  UNCHANGED Abstract!vars
<1>1. UNCHANGED server /\ calls' = [calls EXCEPT ![o] = Finished(@)]
  BY DEF Replies, HandleStale, HandleListing, HandleOpened, HandleLooked,
         HandleReloaded, HandleWrote, HandleDeleted, HandleRemoteErr,
         Succeeded, EndOp, serverVars
<1> QED
  BY <1>1, EndingRests

\* So do the keys that send nothing.
LEMMA OtherKeysRefine ==
  ASSUME IInv,
         \/ EditDocument \/ PressReview \/ CloseReview \/ PressQuit \/ AnswerDiscard
         \/ PressEscapeBusy \/ PressQuitBusy \/ SaveLocal
         \/ Navigate \/ BrowseDelete \/ NameNewPolicy
  PROVE  UNCHANGED Abstract!vars
<1>1. UNCHANGED server /\ (UNCHANGED calls \/ Quit)
  BY DEF EditDocument, PressReview, CloseReview, PressQuit, AnswerDiscard,
         PressEscapeBusy, PressQuitBusy, SaveLocal, Navigate, BrowseDelete,
         NameNewPolicy, CancelOp, serverVars, opVars
<1> QED
  BY <1>1, EndingRests DEF Quit

-----------------------------------------------------------------------------
(* What the user sends *)

\* A command that starts with a request on the wire is a confirmation, one
\* without is no step.
LEMMA BeginRefines ==
  ASSUME IInv, IInv', UNCHANGED server, NEW d, BeginOp(d), d.wire \in BOOLEAN
  PROVE  [Abstract!Next]_(Abstract!vars)
<1>1. PICK o \in Ops : calls[o].stage = "idle" /\ calls' = [calls EXCEPT ![o] = d]
  BY DEF BeginOp
<1>2. calls \in [Ops -> Call] /\ CallShape(calls[o])
  BY DEF IInv, TypeInv, CallsOK, CallsTyped
<1>3. ~calls[o].wire
  BY <1>1, <1>2 DEF CallShape
<1>4. calls'[o] = d /\ \A p \in Ops \ {o} : calls'[p] = calls[p]
  BY <1>1, <1>2
<1>5. CASE d.wire
  <2>1. /\ Confirmed' = Confirmed \cup {Outstanding(o, calls'[o])}
        /\ \A x \in Confirmed : x.op # o
    BY <1>3, <1>4, <1>5, RequestSent
  <2>2. Outstanding(o, d) \in Abstract!Change
    <3>1. (calls[o] \in Call /\ CallShape(calls[o]) /\ CallHonest(calls[o]))'
      BY DEF IInv, TypeInv, CallsOK, CallsTyped, SafetyInv
    <3>2. d \in Call /\ CallShape(d) /\ (CallHonest(calls[o]))'
      BY <1>4, <3>1 DEF CallShape
    <3>3. d.kind = "update" => d.seen.left \in Bodies
      BY <1>4, <1>5, <3>2 DEF CallHonest, Reviewed, DiffPair
    <3>4. /\ d.kind \in {"create", "update", "delete"} /\ d.name \in Names
          /\ d.body \in Bodies \cup {None}
      BY <1>5, <3>2 DEF CallShape, Call, Writes
    <3> QED
      BY <3>3, <3>4 DEF Outstanding, Abstract!Change
  <2>3. Outstanding(o, d).op = o
    BY DEF Outstanding
  <2>4. Abstract!Confirm
    BY <1>4, <2>1, <2>2, <2>3 DEF Abstract!Confirm
  <2> QED
    BY <2>4 DEF Abstract!Next
<1>6. CASE ~d.wire
  <2>1. \A p \in Ops : SameWire(calls[p], calls'[p])
    BY <1>2, <1>3, <1>4, <1>6 DEF SameWire, Call
  <2> QED
    BY <2>1, Rests
<1> QED
  BY <1>5, <1>6

\* The keys that may begin an operation send what was confirmed with them.
LEMMA BeginKeysRefine ==
  ASSUME IInv, IInv',
         \/ SaveRemote \/ RetryAfterConflictReview \/ EnterRemote \/ SubmitConnect
         \/ BrowseRefresh \/ BrowseOpen \/ AnswerDelete \/ AnswerConflict
         \/ AnswerTakeServers \/ AnswerNameTaken \/ AnswerDraftLoss
  PROVE  [Abstract!Next]_(Abstract!vars)
<1>1. UNCHANGED server /\ (UNCHANGED calls \/ \E d : BeginOp(d))
  BY DEF SaveRemote, RetryAfterConflictReview, EnterRemote, SubmitConnect,
         BrowseRefresh, BrowseOpen, AnswerDelete, AnswerConflict,
         AnswerTakeServers, AnswerNameTaken, AnswerDraftLoss,
         WritePolicyWith, FetchServerCopy, serverVars, opVars
<1>2. CASE UNCHANGED calls
  BY <1>1, <1>2, EndingRests
<1>3. CASE \E d : BeginOp(d)
  <2>1. PICK d : BeginOp(d)
    BY <1>3
  <2>2. PICK o \in Ops : calls' = [calls EXCEPT ![o] = d]
    BY <2>1 DEF BeginOp
  <2>3. calls \in [Ops -> Call] /\ calls' \in [Ops -> Call]
    BY DEF IInv, TypeInv, CallsOK, CallsTyped
  <2>4. d \in Call
    BY <2>2, <2>3
  <2> QED
    BY <1>1, <2>1, <2>4, BeginRefines DEF Call
<1> QED
  BY <1>1, <1>2, <1>3

\* What the other clients do is what the abstract specification lets them do.
LEMMA OthersRefine ==
  ASSUME IInv, OthersWrite \/ OthersDelete
  PROVE  Abstract!Others
<1>1. server \in [Names -> Policy]
  BY DEF IInv, TypeInv, StateOK, RestTyped
<1>2. Confirmed' = Confirmed
  BY DEF OthersWrite, OthersDelete, opVars, Confirmed
<1>3. CASE OthersWrite
  <2>1. PICK n \in Names, b \in Bodies, m \in OthersMeta :
          server' = [server EXCEPT ![n] =
                      [body |-> b, ver |-> issued[n] + 1, meta |-> m, by |-> "others"]]
    BY <1>3 DEF OthersWrite
  <2>2. Policies' = [Policies EXCEPT ![n] = [body |-> b, by |-> "others"]]
    BY <1>1, <2>1 DEF Policies
  <2> QED
    BY <1>2, <2>2 DEF Abstract!Others, Policies
<1>4. CASE OthersDelete
  <2>1. PICK n \in Names :
          server' = [server EXCEPT ![n] =
                      [body |-> None, ver |-> 0, meta |-> "none", by |-> "others"]]
    BY <1>4 DEF OthersDelete
  <2>2. Policies' = [Policies EXCEPT ![n] = [body |-> None, by |-> "others"]]
    BY <1>1, <2>1 DEF Policies
  <2> QED
    BY <1>2, <2>2 DEF Abstract!Others, Policies
<1> QED
  BY <1>3, <1>4

-----------------------------------------------------------------------------
(* The refinement *)

\* The first state: nothing is confirmed, and every policy is another's.
LEMMA InitRefines == Init => Abstract!Init
<1> SUFFICES ASSUME Init PROVE Abstract!Init
  OBVIOUS
<1>1. Confirmed = {}
  <2>1. \A o \in Ops : ~calls[o].wire
    BY DEF Init, NoCall
  <2> QED
    BY <2>1 DEF Confirmed
<1>2. Policies \in [Names -> [body : Bodies \cup {None}, by : {"others"}]]
  BY DEF Init, Policies
<1> QED
  BY <1>1, <1>2 DEF Abstract!Init, Policies

\* The editor, its client and the server it shares implement the abstract
\* specification: a policy changes only by the hand of another client or by a
\* change the user has confirmed, and an update of the user's replaces the very
\* text the review showed, for every number of policies, texts, operations,
\* versions and retries.
THEOREM ImplementsReviewedPolicies == Spec => AbstractSpec
<1>1. ASSUME IInv, IInv', [Next]_vars PROVE [Abstract!Next]_(Abstract!vars)
  <2>1. CASE Edits
    BY <1>1, <2>1, OtherKeysRefine, BeginKeysRefine DEF Edits
  <2>2. CASE Remote
    BY <1>1, <2>2, OtherKeysRefine, BeginKeysRefine DEF Remote
  <2>3. ASSUME NEW o \in Ops, Commands(o) \/ Replies(o)
        PROVE  [Abstract!Next]_(Abstract!vars)
    BY <1>1, <2>3, CommandsRefine, RepliesRefine
  <2>4. CASE OthersWrite \/ OthersDelete
    BY <1>1, <2>4, OthersRefine DEF Abstract!Next
  <2>5. CASE UNCHANGED vars
    <3>1. UNCHANGED server /\ UNCHANGED calls
      BY <2>5 DEF vars, serverVars, opVars
    <3> QED
      BY <1>1, <3>1, EndingRests
  <2> QED
    BY <1>1, <2>1, <2>2, <2>3, <2>4, <2>5 DEF Next
<1>2. IInv /\ IInv' /\ [Next]_vars => [Abstract!Next]_(Abstract!vars)
  BY <1>1
<1> QED
  BY <1>2, InitRefines, Inductive, PTL DEF Spec, AbstractSpec, Abstract!Spec

-----------------------------------------------------------------------------
(* The metadata of a policy *)

\* What a step may do to a policy on the server: nothing, give it the next
\* version, or remove it.
PolicyMoves(n) ==
  \/ server'[n] = server[n] /\ issued'[n] = issued[n]
  \/ issued'[n] = issued[n] + 1 /\ server'[n].ver = issued[n] + 1
  \/ server'[n].body = None /\ issued'[n] = issued[n]

\* No step does anything else.
LEMMA EveryPolicyMoves ==
  ASSUME IInv, [Next]_vars
  PROVE  \A n \in Names : PolicyMoves(n)
<1>1. server \in [Names -> Policy] /\ issued \in [Names -> Nat]
  BY DEF IInv, TypeInv, StateOK, RestTyped
<1>2. CASE UNCHANGED serverVars
  BY <1>2 DEF serverVars, PolicyMoves
<1>3. ASSUME NEW o \in Ops, WriteLands(o) PROVE \A n \in Names : PolicyMoves(n)
  <2> DEFINE m == calls[o].name
             q == [body |-> calls[o].body, ver |-> issued[m] + 1,
                   meta |-> PutBack(calls[o].rev.meta), by |-> "editor"]
  <2>1. /\ server' = [server EXCEPT ![m] = q]
        /\ issued' = [issued EXCEPT ![m] = issued[m] + 1]
    BY <1>3 DEF WriteLands
  <2>2. q.ver = issued[m] + 1
    OBVIOUS
  <2> HIDE DEF m, q
  <2> QED
    BY <1>1, <2>1, <2>2 DEF PolicyMoves
<1>4. ASSUME NEW o \in Ops, DeleteLands(o) PROVE \A n \in Names : PolicyMoves(n)
  <2> DEFINE m == calls[o].name
  <2>1. /\ server' = [server EXCEPT ![m] =
                       [body |-> None, ver |-> 0, meta |-> "none", by |-> "editor"]]
        /\ issued' = issued
    BY <1>4 DEF DeleteLands
  <2> HIDE DEF m
  <2> QED
    BY <1>1, <2>1 DEF PolicyMoves
<1>5. CASE OthersWrite
  BY <1>1, <1>5 DEF OthersWrite, PolicyMoves
<1>6. CASE OthersDelete
  BY <1>1, <1>6 DEF OthersDelete, PolicyMoves
<1>7. \/ UNCHANGED serverVars
      \/ \E o \in Ops : WriteLands(o) \/ DeleteLands(o)
      \/ OthersWrite \/ OthersDelete
  <2>1. CASE Edits
    BY <2>1 DEF Edits, EditDocument, PressReview, CloseReview, PressQuit, AnswerDiscard,
                PressEscapeBusy, PressQuitBusy, SaveRemote, SaveLocal,
                RetryAfterConflictReview
  <2>2. CASE Remote
    BY <2>2 DEF Remote, EnterRemote, SubmitConnect, Navigate, BrowseRefresh, BrowseOpen,
                BrowseDelete, AnswerDelete, NameNewPolicy, AnswerConflict,
                AnswerTakeServers, AnswerNameTaken, AnswerDraftLoss
  <2>3. ASSUME NEW o \in Ops, Commands(o)
        PROVE  UNCHANGED serverVars \/ WriteLands(o) \/ DeleteLands(o)
    BY <2>3 DEF Commands, ServerAnswersList, ServerAnswersRead, WriteRefused, CallFails,
                ReadBack
  <2>4. ASSUME NEW o \in Ops, Replies(o) PROVE UNCHANGED serverVars
    BY <2>4 DEF Replies, HandleStale, HandleListing, HandleOpened, HandleLooked,
                HandleReloaded, HandleWrote, HandleDeleted, HandleRemoteErr
  <2>5. CASE UNCHANGED vars
    BY <2>5 DEF vars
  <2> QED
    BY <2>1, <2>2, <2>3, <2>4, <2>5 DEF Next
<1> QED
  BY <1>2, <1>3, <1>4, <1>5, <1>6, <1>7

\* What a revision says of the metadata stays so.
LEMMA FaithfulStays ==
  ASSUME IInv, \A n \in Names : PolicyMoves(n), NEW n \in Names, NEW r \in Revision,
         Faithful(n, r)
  PROVE  Faithful(n, r)'
<1>1. r.ver \in Nat /\ issued[n] \in Nat
  BY DEF IInv, TypeInv, StateOK, RestTyped, Revision
<1>2. PolicyMoves(n)
  OBVIOUS
<1> QED
  BY <1>1, <1>2 DEF PolicyMoves, Faithful, Present

\* So does what a command carries.
LEMMA CallStaysFaithful ==
  ASSUME IInv, \A n \in Names : PolicyMoves(n), NEW c \in Call, CallShape(c)
  PROVE  /\ WireFaithful(c) => WireFaithful(c)'
         /\ ReplyFaithful(c) => ReplyFaithful(c)'
<1>1. c.rev \in Revision /\ c.reply.rev \in Revision
  BY DEF Call, Reply
<1>2. /\ c.wire => c.name \in Names
      /\ c.stage = "replied" /\ c.kind \in Writes \cup ReadKinds => c.name \in Names
  BY DEF CallShape, Writes, ReadKinds
<1>3. ASSUME WireFaithful(c) PROVE WireFaithful(c)'
  BY <1>1, <1>2, <1>3, FaithfulStays DEF WireFaithful
<1>4. ASSUME ReplyFaithful(c) PROVE ReplyFaithful(c)'
  BY <1>1, <1>2, <1>4, FaithfulStays DEF ReplyFaithful
<1> QED
  BY <1>3, <1>4

\* A revision reported by a read is faithful, and so is none at all.
LEMMA ReportedFaithful ==
  ASSUME IInv, NEW n \in Names
  PROVE  /\ \A v \in Reports : Faithful(n, Reported(n, v))
         /\ Faithful(n, NoRevision)
<1>1. Faithful(n, NoRevision)
  BY DEF Faithful, NoRevision
<1>2. ASSUME NEW v \in Reports PROVE Faithful(n, Reported(n, v))
  <2>1. server[n].ver <= issued[n]
    BY DEF IInv, SafetyInv, VersionsIssued
  <2> QED
    BY <2>1 DEF Faithful, Reported
<1> QED
  BY <1>1, <1>2

\* One command changes: it sends what it sent before or nothing, and its
\* reply, if it has one, is faithful.
LEMMA OneCallFaithful ==
  ASSUME IInv, \A n \in Names : PolicyMoves(n), MetaInv, NEW o \in Ops,
         UNCHANGED <<docVars, viewVars>>,
         \A p \in Ops \ {o} : calls'[p] = calls[p],
         ~calls'[o].wire \/ SameWire(calls[o], calls'[o]),
         ReplyFaithful(calls[o])'
  PROVE  MetaInv'
<1>1. \A p \in Ops : /\ calls[p] \in Call /\ CallShape(calls[p])
                     /\ WireFaithful(calls[p]) /\ ReplyFaithful(calls[p])
  BY DEF IInv, TypeInv, CallsOK, CallsTyped, MetaInv
<1>2. ASSUME NEW p \in Ops PROVE (WireFaithful(calls[p]) /\ ReplyFaithful(calls[p]))'
  <2>1. PICK c \in Call : c = calls[p] /\ CallShape(c) /\ WireFaithful(c) /\ ReplyFaithful(c)
    BY <1>1
  <2>2. WireFaithful(c)' /\ ReplyFaithful(c)'
    BY <2>1, CallStaysFaithful
  <2>3. CASE p # o
    <3>1. calls'[p] = c
      BY <2>1, <2>3
    <3> QED
      BY <2>2, <3>1 DEF WireFaithful, ReplyFaithful, Faithful, Present
  <2>4. CASE p = o
    <3>1. WireFaithful(calls[o])'
      BY <2>1, <2>2, <2>4 DEF SameWire, WireFaithful, Faithful, Present
    <3> QED
      BY <2>4, <3>1
  <2> QED
    BY <2>3, <2>4
<1>3. /\ backing' = backing /\ name' = name /\ rev' = rev /\ pending' = pending
  BY DEF docVars, viewVars
<1>4. /\ rev \in Revision /\ pending \in Revision \cup {None}
      /\ backing = "remote" => name \in Names
      /\ pending # None => backing = "remote"
  BY DEF IInv, TypeInv, StateOK, RestTyped, SafetyInv, ViewOK
<1>5. /\ backing = "remote" => Faithful(name, rev)'
      /\ pending # None => Faithful(name, pending)'
  BY <1>3, <1>4, FaithfulStays DEF MetaInv, Faithful, Present
<1> QED
  BY <1>2, <1>3, <1>5 DEF MetaInv

\* What becomes of an executed request: if it answers with success at all, it
\* had been answered before, and keeps that answer.
LEMMA ExecutedReply ==
  ASSUME IInv, \A n \in Names : PolicyMoves(n), MetaInv, NEW o \in Ops, calls[o].wire,
         NEW c \in {Received(o), [Received(o) EXCEPT !.landed = TRUE]},
         NEW next, Executed(o, c, next),
         \A d \in next : d.stage = "replied" =>
           d.reply.err # "" \/ d.kind \notin Writes \cup ReadKinds
  PROVE  ReplyFaithful(calls[o])'
<1>1. CallsOK /\ calls \in [Ops -> Call]
  BY DEF IInv, TypeInv, CallsOK, CallsTyped
<1>2. /\ c \in Call /\ ~c.wire /\ c.stage = calls[o].stage
      /\ c.kind = calls[o].kind /\ c.name = calls[o].name /\ CallShape(c)
      /\ c.stage \notin {"idle", "readback"}
  BY <1>1, ReceivedType
<1>3. c.reply = calls[o].reply
  BY <1>1 DEF Received, Call
<1>4. ReplyFaithful(c)'
  <2>1. ReplyFaithful(c)
    BY <1>2, <1>3 DEF MetaInv, ReplyFaithful
  <2> QED
    BY <1>2, <2>1, CallStaysFaithful
<1>5. ASSUME NEW d, calls' = [calls EXCEPT ![o] = d],
             \/ d.stage # "replied" \/ d.reply.err # ""
             \/ d.kind \notin Writes \cup ReadKinds
      PROVE  ReplyFaithful(calls[o])'
  BY <1>1, <1>5 DEF ReplyFaithful
<1>6. Failure("other").err = "other"
  BY FailureType DEF Errors
<1>7. ASSUME NEW r PROVE /\ Settle(c, r).stage = "replied" /\ Settle(c, r).reply = r
                         /\ Settle(c, r).kind = c.kind /\ Settle(c, r).name = c.name
  BY DEF Settle
<1>8. CASE c.stage = "gone"
  <2>1. calls' = [calls EXCEPT ![o] = NoCall]
    BY <1>8 DEF Executed
  <2>2. NoCall.stage # "replied"
    BY DEF NoCall
  <2> QED
    BY <1>5, <2>1, <2>2
<1>9. CASE c.stage = "replied"
  <2>1. calls' = [calls EXCEPT ![o] = Settle(c, c.reply)]
    BY <1>9 DEF Executed
  <2>2. PICK d : d = Settle(c, c.reply)
    OBVIOUS
  <2>3. calls'[o] = d /\ d.stage = c.stage /\ d.reply = c.reply /\ d.kind = c.kind /\ d.name = c.name
    BY <1>1, <1>7, <1>9, <2>1, <2>2
  <2> QED
    BY <1>4, <2>3 DEF ReplyFaithful, Faithful, Present
<1>10. CASE c.stage \notin {"gone", "replied"}
  <2>1. PICK d \in next \cup Unanswered(o, c) : calls' = [calls EXCEPT ![o] = d]
    BY <1>10 DEF Executed
  <2>2. CASE d \in next
    BY <1>5, <2>1, <2>2
  <2>3. CASE d = Settle(c, Failure("other"))
    BY <1>5, <1>6, <1>7, <2>1, <2>3
  <2>4. CASE d = [c EXCEPT !.wire = TRUE, !.tries = @ + 1]
    <3>1. d.stage = c.stage
      BY <1>2, <2>4 DEF Call
    <3> QED
      BY <1>5, <1>10, <2>1, <3>1
  <2> QED
    BY <2>1, <2>2, <2>3, <2>4 DEF Unanswered
<1> QED
  BY <1>8, <1>9, <1>10

\* A result that is a failure, or whose revision is faithful.
LEMMA AnswerFaithful ==
  ASSUME IInv, \A n \in Names : PolicyMoves(n), MetaInv, NEW o \in Ops, NEW r,
         Answer(o, r), UNCHANGED <<serverVars, docVars, viewVars>>,
         \/ r.err # "" \/ calls[o].kind \notin Writes \cup ReadKinds
         \/ Faithful(calls[o].name, r.rev)
  PROVE  MetaInv'
<1>1. calls \in [Ops -> Call]
  BY DEF IInv, TypeInv, CallsOK, CallsTyped
<1>2. PICK d : d = Settle(calls[o], r)
  OBVIOUS
<1>3. calls'[o] = d /\ \A p \in Ops \ {o} : calls'[p] = calls[p]
  BY <1>1, <1>2 DEF Answer
<1>4. SameWire(calls[o], d)
  BY <1>2, EndsSameWire
<1>5. d.kind = calls[o].kind /\ d.name = calls[o].name /\ d.reply = r
  BY <1>2 DEF Settle
<1>6. ReplyFaithful(calls[o])'
  BY <1>3, <1>5 DEF ReplyFaithful, Faithful, Present, serverVars
<1>7. UNCHANGED <<docVars, viewVars>>
  OBVIOUS
<1>8. ~calls'[o].wire \/ SameWire(calls[o], calls'[o])
  BY <1>3, <1>4
<1> QED
  BY <1>3, <1>6, <1>7, <1>8, OneCallFaithful

\* The steps of the commands, if the server answers writes with 204.
LEMMA CommandsFaithful ==
  ASSUME WriteReplies \subseteq {"empty"},
         IInv, \A n \in Names : PolicyMoves(n), MetaInv, NEW o \in Ops, Commands(o)
  PROVE  MetaInv'
<1>1. calls[o] \in Call /\ CallShape(calls[o]) /\ CallsOK
  BY DEF IInv, TypeInv, CallsOK, CallsTyped
<1>2. UNCHANGED <<docVars, viewVars>>
  BY DEF Commands, ServerAnswersList, ServerAnswersRead, WriteLands, WriteRefused,
         DeleteLands, CallFails, ReadBack
<1>3. \A e \in Errors : Failure(e).err = e
  BY FailureType
<1>4. CASE ServerAnswersList(o)
  <2>1. calls[o].kind \notin Writes \cup ReadKinds
    BY <1>4 DEF ServerAnswersList, Writes, ReadKinds
  <2> QED
    BY <1>4, <2>1, AnswerFaithful DEF ServerAnswersList
<1>5. CASE ServerAnswersRead(o)
  <2> DEFINE n == calls[o].name
  <2>1. n \in Names /\ UNCHANGED <<serverVars, docVars, viewVars>>
    BY <1>1, <1>5 DEF CallShape, ServerAnswersRead
  <2>2. CASE Present(n)
    <3>1. PICK v \in Reports :
            Answer(o, [err |-> "", body |-> server[n].body, rev |-> Reported(n, v)])
      BY <1>5, <2>2 DEF ServerAnswersRead
    <3>2. Faithful(n, Reported(n, v))
      BY <2>1, ReportedFaithful
    <3> QED
      BY <2>1, <3>1, <3>2, AnswerFaithful
  <2>3. CASE ~Present(n)
    <3>1. Answer(o, Failure("other"))
      BY <1>5, <2>3 DEF ServerAnswersRead
    <3> QED
      BY <1>3, <2>1, <3>1, AnswerFaithful DEF Errors
  <2> QED
    BY <2>2, <2>3
<1>6. CASE CallFails(o)
  BY <1>3, <1>6, AnswerFaithful DEF CallFails, Errors
<1>7. CASE ReadBack(o)
  <2>1. calls[o].name \in Names /\ UNCHANGED <<serverVars, docVars, viewVars>>
    BY <1>1, <1>7 DEF CallShape, ReadBack, Writes
  <2>2. PICK r \in {NoRevision} \cup {Reported(calls[o].name, v) : v \in Reports} :
          Answer(o, [err |-> "", body |-> None, rev |-> r])
    BY <1>7 DEF ReadBack
  <2>3. Faithful(calls[o].name, r)
    BY <2>1, <2>2, ReportedFaithful
  <2> QED
    BY <2>1, <2>2, <2>3, AnswerFaithful
<1>8. ASSUME NEW c \in {Received(o), [Received(o) EXCEPT !.landed = TRUE]}, NEW next,
             calls[o].wire, Executed(o, c, next), \A d \in next : ~d.wire,
             \A d \in next : d.stage = "replied" =>
               d.reply.err # "" \/ d.kind \notin Writes \cup ReadKinds
      PROVE  MetaInv'
  <2>1. /\ ~calls'[o].wire \/ SameWire(calls[o], calls'[o])
        /\ \A p \in Ops \ {o} : calls'[p] = calls[p]
    BY <1>8, ExecutedWire
  <2>2. ReplyFaithful(calls[o])'
    BY <1>8, ExecutedReply
  <2> QED
    BY <1>2, <2>1, <2>2, OneCallFaithful
<1>9. CASE WriteLands(o)
  <2> DEFINE d == [Received(o) EXCEPT !.landed = TRUE]
             v == issued[calls[o].name] + 1
             next == WriteAnswers(d, v)
  <2>1. calls[o].wire /\ Executed(o, d, next)
    BY <1>9 DEF WriteLands
  <2>2. d \in Call /\ ~d.wire
    BY <1>1, <2>1, ReceivedType
  <2>3. d \in {Received(o), [Received(o) EXCEPT !.landed = TRUE]}
    OBVIOUS
  <2> HIDE DEF d, v
  <2>4. \A e \in next : e = [d EXCEPT !.stage = "readback"]
    BY DEF WriteAnswers
  <2>5. \A e \in next : ~e.wire /\ e.stage = "readback"
    BY <2>2, <2>4 DEF Call
  <2> HIDE DEF next
  <2> QED
    BY <1>8, <2>1, <2>3, <2>5
<1>10. CASE WriteRefused(o)
  <2>1. PICK e \in {"conflict", "other"} :
          Executed(o, Received(o), {Settle(Received(o), Failure(e))})
    BY <1>10 DEF WriteRefused
  <2> DEFINE d == Received(o)
             next == {Settle(d, Failure(e))}
  <2>2. calls[o].wire /\ Executed(o, d, next)
    BY <1>10, <2>1 DEF WriteRefused
  <2>3. d \in Call /\ ~d.wire
    BY <1>1, <2>2, ReceivedType
  <2>4. d \in {Received(o), [Received(o) EXCEPT !.landed = TRUE]}
    OBVIOUS
  <2>5. Failure(e).err # ""
    BY <1>3 DEF Errors
  <2> HIDE DEF d
  <2>6. \A f \in next : ~f.wire /\ f.reply.err # ""
    <3>1. \A r : Settle(d, r).wire = d.wire /\ Settle(d, r).reply = r
      BY DEF Settle
    <3> QED
      BY <2>3, <2>5, <3>1
  <2> HIDE DEF next
  <2> QED
    BY <1>8, <2>2, <2>4, <2>6
<1>11. CASE DeleteLands(o)
  <2> DEFINE d == Received(o)
             next == {Settle(d, NoReply)}
  <2>1. calls[o].wire /\ Executed(o, d, next) /\ calls[o].kind = "delete"
    BY <1>11 DEF DeleteLands
  <2>2. ~d.wire /\ d.kind = "delete"
    BY <1>1, <2>1, ReceivedType
  <2>3. d \in {Received(o), [Received(o) EXCEPT !.landed = TRUE]}
    OBVIOUS
  <2> HIDE DEF d
  <2>4. \A f \in next : ~f.wire /\ f.kind = "delete"
    BY <2>2 DEF Settle
  <2> HIDE DEF next
  <2> QED
    BY <1>8, <2>1, <2>3, <2>4 DEF Writes, ReadKinds
<1> QED
  BY <1>4, <1>5, <1>6, <1>7, <1>9, <1>10, <1>11 DEF Commands

\* A goroutine that ends takes its reply with it.
LEMMA EndingFaithful ==
  ASSUME IInv, \A n \in Names : PolicyMoves(n), MetaInv,
         \A p \in Ops : calls'[p] \in {calls[p], Finished(calls[p])}
  PROVE  \A p \in Ops : (WireFaithful(calls[p]) /\ ReplyFaithful(calls[p]))'
<1> SUFFICES ASSUME NEW p \in Ops
             PROVE  (WireFaithful(calls[p]) /\ ReplyFaithful(calls[p]))'
  OBVIOUS
<1>1. PICK c \in Call : c = calls[p] /\ CallShape(c) /\ WireFaithful(c) /\ ReplyFaithful(c)
  BY DEF IInv, TypeInv, CallsOK, CallsTyped, MetaInv
<1>2. WireFaithful(c)' /\ ReplyFaithful(c)'
  BY <1>1, CallStaysFaithful
<1>3. CASE calls'[p] = c
  BY <1>2, <1>3 DEF WireFaithful, ReplyFaithful, Faithful, Present
<1>4. CASE calls'[p] = Finished(c)
  <2>1. PICK d : d = Finished(c)
    OBVIOUS
  <2>2. d.stage # "replied"
    BY <2>1 DEF Finished, NoCall, Call
  <2>3. SameWire(c, d)
    BY <2>1, EndsSameWire
  <2>4. calls'[p] = d
    BY <1>4, <2>1
  <2>5. ReplyFaithful(calls[p])'
    BY <2>2, <2>4 DEF ReplyFaithful
  <2>6. WireFaithful(calls[p])'
    BY <1>2, <2>3, <2>4 DEF SameWire, WireFaithful, Faithful, Present
  <2> QED
    BY <2>5, <2>6
<1> QED
  BY <1>1, <1>3, <1>4

\* The replies: what the session takes is what the reply says.
LEMMA RepliesFaithful ==
  ASSUME IInv, \A n \in Names : PolicyMoves(n), MetaInv, NEW o \in Ops, Replies(o)
  PROVE  MetaInv'
<1> USE DEF serverVars, viewVars, docVars, GoTo, LeaveReview
<1>1. calls' = [calls EXCEPT ![o] = Finished(@)] /\ UNCHANGED serverVars
  BY DEF Replies, HandleStale, HandleListing, HandleOpened, HandleLooked,
         HandleReloaded, HandleWrote, HandleDeleted, HandleRemoteErr,
         Succeeded, EndOp
<1>2. calls \in [Ops -> Call] /\ Faithful(name, NoRevision)
  BY DEF IInv, TypeInv, CallsOK, CallsTyped, Faithful, NoRevision
<1>3. \A p \in Ops : (WireFaithful(calls[p]) /\ ReplyFaithful(calls[p]))'
  BY <1>1, <1>2, EndingFaithful
<1>4. PICK c \in Call : c = calls[o] /\ ReplyFaithful(c)
  BY <1>2 DEF MetaInv
<1>5. op = o => AwaitedOK(c)
  BY <1>4 DEF IInv, SafetyInv
<1>6. pending # None => backing = "remote"
  BY DEF IInv, SafetyInv, ViewOK
<1>7. /\ backing' = "remote" => Faithful(name, rev)'
      /\ pending' # None => Faithful(name, pending)'
  <2> USE DEF Faithful, Present, MetaInv
  <2>1. CASE HandleStale(o)
    BY <2>1 DEF HandleStale
  <2>2. CASE HandleListing(o)
    BY <2>2 DEF HandleListing
  <2>3. CASE HandleOpened(o)
    <3>1. Faithful(c.name, c.reply.rev)
      BY <1>4, <2>3 DEF HandleOpened, Succeeded, Replied, ReplyFaithful, ReadKinds
    <3> QED
      BY <1>4, <2>3, <3>1 DEF HandleOpened, AdoptSession
  <2>4. CASE HandleLooked(o)
    <3>1. Faithful(c.name, c.reply.rev) /\ op = o /\ c.kind = "look"
      BY <1>4, <2>4 DEF HandleLooked, Succeeded, Replied, ReplyFaithful, ReadKinds, Accept
    <3>2. c.name = name
      BY <1>5, <3>1 DEF AwaitedOK
    <3> QED
      BY <1>4, <2>4, <3>1, <3>2 DEF HandleLooked
  <2>5. CASE HandleReloaded(o)
    <3>1. Faithful(c.name, c.reply.rev) /\ op = o /\ c.kind = "reload"
      BY <1>4, <2>5 DEF HandleReloaded, Succeeded, Replied, ReplyFaithful, ReadKinds, Accept
    <3>2. c.name = name
      BY <1>5, <3>1 DEF AwaitedOK
    <3> QED
      BY <1>4, <2>5, <3>1, <3>2 DEF HandleReloaded, AdoptSession
  <2>6. CASE HandleWrote(o)
    <3>1. Faithful(c.name, c.reply.rev) /\ op = o /\ c.kind \in Writes
      BY <1>4, <2>6 DEF HandleWrote, Succeeded, Replied, ReplyFaithful, Accept
    <3>2. c.name = name /\ pending = None
      BY <1>5, <3>1 DEF AwaitedOK
    <3> QED
      BY <1>4, <2>6, <3>1, <3>2 DEF HandleWrote
  <2>7. CASE HandleDeleted(o)
    BY <1>2, <2>7 DEF HandleDeleted
  <2>8. CASE HandleRemoteErr(o)
    BY <2>8 DEF HandleRemoteErr
  <2> QED
    BY <2>1, <2>2, <2>3, <2>4, <2>5, <2>6, <2>7, <2>8 DEF Replies
<1> QED
  BY <1>3, <1>7 DEF MetaInv

\* The keys that begin nothing.
LEMMA OtherKeysFaithful ==
  ASSUME IInv, \A n \in Names : PolicyMoves(n), MetaInv,
         \/ EditDocument \/ PressReview \/ CloseReview \/ PressQuit \/ AnswerDiscard
         \/ PressEscapeBusy \/ PressQuitBusy \/ SaveLocal
         \/ Navigate \/ BrowseDelete \/ NameNewPolicy
  PROVE  MetaInv'
<1> USE DEF serverVars, opVars, viewVars, docVars, LeaveReview, ShowReview, GoTo, Ask,
            NoQuestion, CancelOp
<1>1. UNCHANGED serverVars /\ (UNCHANGED calls \/ Quit)
  BY DEF EditDocument, PressReview, CloseReview, PressQuit, AnswerDiscard,
         PressEscapeBusy, PressQuitBusy, SaveLocal, Navigate, BrowseDelete,
         NameNewPolicy
<1>2. \A p \in Ops : calls'[p] \in {calls[p], Finished(calls[p])}
  BY <1>1 DEF Quit
<1>3. \A p \in Ops : (WireFaithful(calls[p]) /\ ReplyFaithful(calls[p]))'
  BY <1>2, EndingFaithful
<1>4. CASE NameNewPolicy
  <2>1. rev' = NoRevision /\ pending' = None
    BY <1>4 DEF NameNewPolicy, AdoptSession
  <2> QED
    BY <1>3, <2>1 DEF MetaInv, Faithful, NoRevision
<1>5. CASE ~NameNewPolicy
  <2>1. UNCHANGED <<backing, name, rev>> /\ pending' \in {pending, None}
    BY <1>5 DEF EditDocument, PressReview, CloseReview, PressQuit, AnswerDiscard,
                PressEscapeBusy, PressQuitBusy, SaveLocal, Navigate, BrowseDelete, Quit
  <2> QED
    BY <1>1, <1>3, <2>1 DEF MetaInv, Faithful, Present
<1> QED
  BY <1>4, <1>5

\* What a write begins with: an update on the wire carries the revision it was
\* given, which has a version and metadata that can be put back.
LEMMA WriteCallFaithful ==
  ASSUME IInv, backing = "remote", NEW r \in Revision, Faithful(name, r)
  PROVE  /\ WireFaithful(WriteCall(r)) /\ ReplyFaithful(WriteCall(r))
<1> DEFINE c == [Request(IF exists THEN "update" ELSE "create", name) EXCEPT
                   !.body = current, !.seen = shown]
<1>1. /\ c \in Call /\ c.kind = (IF exists THEN "update" ELSE "create")
      /\ c.name = name /\ c.stage = "waiting" /\ ~c.wire
  BY EmptyRecords
     DEF Request, NoCall, Call, Kinds, Writes, Stages, IInv, TypeInv, StateOK, RestTyped
<1>2. UpdateRefusal(r) \in Errors
  BY DEF UpdateRefusal, Errors
<1>3. Failure(UpdateRefusal(r)).err = UpdateRefusal(r)
  BY <1>2, FailureType
<1> HIDE DEF c
<1>4. PICK d : d = WriteCall(r)
  OBVIOUS
<1>5. CASE exists /\ UpdateRefusal(r) # ""
  <2>1. d = [c EXCEPT !.stage = "replied", !.reply = Failure(UpdateRefusal(r))]
    BY <1>4, <1>5 DEF WriteCall, c
  <2>2. ~d.wire /\ d.reply = Failure(UpdateRefusal(r))
    BY <1>1, <2>1 DEF Call
  <2> QED
    BY <1>3, <1>4, <1>5, <2>2 DEF WireFaithful, ReplyFaithful
<1>6. CASE exists /\ UpdateRefusal(r) = ""
  <2>1. d = [c EXCEPT !.wire = TRUE, !.rev = r]
    BY <1>4, <1>6 DEF WriteCall, c
  <2>2. d.stage = "waiting" /\ d.rev = r /\ d.name = name
    BY <1>1, <2>1 DEF Call
  <2>3. r.has /\ r.meta # "odd"
    BY <1>6 DEF UpdateRefusal
  <2> QED
    BY <1>4, <2>2, <2>3 DEF WireFaithful, ReplyFaithful
<1>7. CASE ~exists
  <2>1. d = [c EXCEPT !.wire = TRUE, !.rev = NoRevision]
    BY <1>4, <1>7 DEF WriteCall, c
  <2>2. d.stage = "waiting" /\ d.kind = "create"
    BY <1>1, <1>7, <2>1 DEF Call
  <2> QED
    BY <1>4, <2>2 DEF WireFaithful, ReplyFaithful
<1> QED
  BY <1>5, <1>6, <1>7

\* The keys that may begin an operation.
LEMMA BeginKeysFaithful ==
  ASSUME IInv, \A n \in Names : PolicyMoves(n), MetaInv,
         \/ SaveRemote \/ RetryAfterConflictReview \/ EnterRemote \/ SubmitConnect
         \/ BrowseRefresh \/ BrowseOpen \/ AnswerDelete \/ AnswerConflict
         \/ AnswerTakeServers \/ AnswerNameTaken \/ AnswerDraftLoss
  PROVE  MetaInv'
<1> USE DEF serverVars, opVars, viewVars, docVars, LeaveReview, GoTo, Ask, NoQuestion
<1>1. /\ UNCHANGED serverVars /\ UNCHANGED docVars
      /\ pending' \in {pending, None}
  BY DEF SaveRemote, RetryAfterConflictReview, EnterRemote, SubmitConnect,
         BrowseRefresh, BrowseOpen, AnswerDelete, AnswerConflict,
         AnswerTakeServers, AnswerNameTaken, AnswerDraftLoss
<1>2. /\ backing = "remote" => Faithful(name, rev)'
      /\ pending' # None => Faithful(name, pending)'
  BY <1>1 DEF MetaInv, Faithful, Present
<1>3. calls \in [Ops -> Call]
  BY DEF IInv, TypeInv, CallsOK, CallsTyped
<1>4. UNCHANGED calls => \A p \in Ops : (WireFaithful(calls[p]) /\ ReplyFaithful(calls[p]))'
  BY EndingFaithful
<1>5. ASSUME NEW d, BeginOp(d), WireFaithful(d) /\ ReplyFaithful(d)
      PROVE  \A p \in Ops : (WireFaithful(calls[p]) /\ ReplyFaithful(calls[p]))'
  <2>1. PICK o \in Ops : calls' = [calls EXCEPT ![o] = d]
    BY <1>5 DEF BeginOp
  <2>2. \A p \in Ops : calls'[p] \in {calls[p], d}
    BY <1>3, <2>1
  <2> QED
    BY <1>1, <1>5, <2>2 DEF MetaInv, WireFaithful, ReplyFaithful, Faithful, Present
<1>6. ASSUME NEW k, NEW n, k \notin Writes, BeginOp(Request(k, n)) \/ BeginOp(Consented(k, n))
      PROVE  \A p \in Ops : (WireFaithful(calls[p]) /\ ReplyFaithful(calls[p]))'
  <2>1. PICK d : d \in {Request(k, n), Consented(k, n)} /\ BeginOp(d)
    BY <1>6
  <2>2. ~d.wire /\ d.stage = "waiting"
    BY <2>1 DEF Request, Consented, NoCall
  <2> QED
    BY <1>5, <2>1, <2>2 DEF WireFaithful, ReplyFaithful
<1>7. \A p \in Ops : (WireFaithful(calls[p]) /\ ReplyFaithful(calls[p]))'
  <2>1. CASE SaveRemote
    <3>1. BeginOp(WriteCall(rev)) /\ backing = "remote" /\ rev \in Revision
      BY <2>1 DEF SaveRemote, WritePolicyWith, IInv, TypeInv, StateOK, RestTyped
    <3>2. WireFaithful(WriteCall(rev)) /\ ReplyFaithful(WriteCall(rev))
      BY <3>1, WriteCallFaithful DEF MetaInv
    <3> QED
      BY <1>5, <3>1, <3>2
  <2>2. CASE RetryAfterConflictReview
    <3>1. BeginOp(WriteCall(pending)) /\ backing = "remote" /\ pending # None
          /\ pending \in Revision
      BY <2>2 DEF RetryAfterConflictReview, WritePolicyWith, IInv, TypeInv, StateOK,
                  RestTyped
    <3>2. WireFaithful(WriteCall(pending)) /\ ReplyFaithful(WriteCall(pending))
      BY <3>1, WriteCallFaithful DEF MetaInv
    <3> QED
      BY <1>5, <3>1, <3>2
  <2>3. CASE AnswerDelete
    <3>1. CASE BeginOp([Request("delete", subject) EXCEPT !.wire = TRUE])
      <4>1. PICK d : d = [Request("delete", subject) EXCEPT !.wire = TRUE]
        OBVIOUS
      <4>2. d.kind = "delete" /\ d.stage = "waiting"
        BY <4>1 DEF Request, NoCall
      <4> QED
        BY <1>5, <3>1, <4>1, <4>2 DEF WireFaithful, ReplyFaithful
    <3> QED
      BY <1>4, <2>3, <3>1 DEF AnswerDelete
  <2>4. CASE EnterRemote \/ SubmitConnect \/ BrowseRefresh \/ BrowseOpen
    BY <1>4, <1>6, <2>4 DEF EnterRemote, SubmitConnect, BrowseRefresh, BrowseOpen, Writes
  <2>5. CASE AnswerConflict \/ AnswerTakeServers
    BY <1>4, <1>6, <2>5 DEF AnswerConflict, AnswerTakeServers, FetchServerCopy, Writes
  <2>6. CASE AnswerNameTaken \/ AnswerDraftLoss
    BY <1>4, <1>6, <2>6 DEF AnswerNameTaken, AnswerDraftLoss, Writes
  <2> QED
    BY <2>1, <2>2, <2>3, <2>4, <2>5, <2>6
<1> QED
  BY <1>1, <1>2, <1>7 DEF MetaInv

\* On a server that answers writes with 204, an update leaves the policy's
\* metadata as it was, whatever other clients write and however late it is
\* executed.  Where a write is answered with a version the revision that comes
\* back knows nothing of the metadata, and the next update clears them.
THEOREM MetadataKept ==
  ASSUME WriteReplies \subseteq {"empty"}
  PROVE  Spec => MetadataSurvives
<1> DEFINE Kept == \A n \in Names :
                     server'[n] # server[n] /\ server'[n].by = "editor"
                       /\ Present(n) /\ server'[n].body # None
                     => server'[n].meta = server[n].meta
<1>1. Init => MetaInv
  <2> SUFFICES ASSUME Init PROVE MetaInv
    OBVIOUS
  <2>1. \A o \in Ops : calls[o] = NoCall
    BY DEF Init
  <2>2. ASSUME NEW c, c = NoCall PROVE WireFaithful(c) /\ ReplyFaithful(c)
    BY <2>2 DEF NoCall, WireFaithful, ReplyFaithful
  <2> QED
    BY <2>1, <2>2 DEF Init, MetaInv
<1>2. ASSUME IInv, MetaInv, [Next]_vars PROVE MetaInv'
  <2>1. \A n \in Names : PolicyMoves(n)
    BY <1>2, EveryPolicyMoves
  <2>2. CASE Edits
    BY <1>2, <2>1, <2>2, OtherKeysFaithful, BeginKeysFaithful DEF Edits
  <2>3. CASE Remote
    BY <1>2, <2>1, <2>3, OtherKeysFaithful, BeginKeysFaithful DEF Remote
  <2>4. ASSUME NEW o \in Ops, Commands(o) \/ Replies(o) PROVE MetaInv'
    BY <1>2, <2>1, <2>4, CommandsFaithful, RepliesFaithful
  <2>5. CASE OthersWrite \/ OthersDelete \/ UNCHANGED vars
    <3>1. UNCHANGED <<calls, docVars, viewVars>>
      BY <2>5 DEF OthersWrite, OthersDelete, opVars, vars
    <3>2. \A p \in Ops : (WireFaithful(calls[p]) /\ ReplyFaithful(calls[p]))'
      BY <1>2, <2>1, <3>1, EndingFaithful
    <3>3. /\ backing' = backing /\ name' = name /\ rev' = rev /\ pending' = pending
      BY <3>1 DEF docVars, viewVars
    <3>4. /\ rev \in Revision /\ pending \in Revision \cup {None}
          /\ backing = "remote" => name \in Names
          /\ pending # None => backing = "remote"
      BY <1>2 DEF IInv, TypeInv, StateOK, RestTyped, SafetyInv, ViewOK
    <3>5. /\ backing = "remote" => Faithful(name, rev)'
          /\ pending # None => Faithful(name, pending)'
      BY <1>2, <2>1, <3>3, <3>4, FaithfulStays DEF MetaInv, Faithful, Present
    <3> QED
      BY <3>2, <3>3, <3>5 DEF MetaInv
  <2> QED
    BY <1>2, <2>2, <2>3, <2>4, <2>5 DEF Next
<1>3. ASSUME IInv, MetaInv, [Next]_vars PROVE Kept
  <2> SUFFICES ASSUME NEW n \in Names,
                      server'[n] # server[n], server'[n].by = "editor",
                      Present(n), server'[n].body # None
               PROVE  server'[n].meta = server[n].meta
    OBVIOUS
  <2>1. server \in [Names -> Policy]
    BY <1>3 DEF IInv, TypeInv, StateOK, RestTyped
  <2>2. PICK o \in Ops : WriteLands(o) \/ DeleteLands(o)
    <3>1. ~(OthersWrite \/ OthersDelete)
      BY <2>1 DEF OthersWrite, OthersDelete
    <3>2. server' # server
      OBVIOUS
    <3>3. ~Edits
      BY <3>2 DEF Edits, EditDocument, PressReview, CloseReview, PressQuit, AnswerDiscard,
                  PressEscapeBusy, PressQuitBusy, SaveRemote, SaveLocal,
                  RetryAfterConflictReview, serverVars
    <3>4. ~Remote
      BY <3>2 DEF Remote, EnterRemote, SubmitConnect, Navigate, BrowseRefresh, BrowseOpen,
                  BrowseDelete, AnswerDelete, NameNewPolicy, AnswerConflict,
                  AnswerTakeServers, AnswerNameTaken, AnswerDraftLoss, serverVars
    <3>5. ASSUME NEW o \in Ops, Commands(o) \/ Replies(o) PROVE WriteLands(o) \/ DeleteLands(o)
      BY <3>2, <3>5
         DEF Commands, ServerAnswersList, ServerAnswersRead, WriteRefused, CallFails,
             ReadBack, Replies, HandleStale, HandleListing, HandleOpened, HandleLooked,
             HandleReloaded, HandleWrote, HandleDeleted, HandleRemoteErr, serverVars
    <3> QED
      BY <1>3, <3>1, <3>2, <3>3, <3>4, <3>5 DEF Next, vars, serverVars
  <2>3. CASE WriteLands(o)
    <3>1. PICK c \in Call : /\ c = calls[o] /\ CallShape(c) /\ WireFaithful(c)
                            /\ c.wire /\ c.kind \in Writes /\ CasHolds(c)
      BY <1>3, <2>3 DEF WriteLands, IInv, TypeInv, CallsOK, CallsTyped, MetaInv
    <3>2. PICK v : server' = [server EXCEPT ![c.name] =
                     [body |-> c.body, ver |-> v, meta |-> PutBack(c.rev.meta),
                      by |-> "editor"]]
      BY <2>3, <3>1 DEF WriteLands
    <3>3. n = c.name /\ server'[n].meta = PutBack(c.rev.meta)
      BY <2>1, <3>2
    <3>4. c.kind = "update" /\ server[n].ver = c.rev.ver
      BY <3>1, <3>3 DEF CasHolds, Writes
    <3>5. c.rev.has /\ c.rev.meta # "odd" /\ Faithful(n, c.rev)
      BY <3>1, <3>3, <3>4 DEF WireFaithful
    <3>6. server[n].meta = c.rev.meta
      BY <3>4, <3>5 DEF Faithful
    <3>7. c.rev.meta \in {"none", "set"}
      BY <3>5 DEF Call, Revision, Metas
    <3> QED
      BY <3>3, <3>6, <3>7 DEF PutBack
  <2>4. CASE DeleteLands(o)
    <3>1. PICK m : server' = [server EXCEPT ![m] =
                     [body |-> None, ver |-> 0, meta |-> "none", by |-> "editor"]]
      BY <2>4 DEF DeleteLands
    <3> QED
      BY <2>1, <3>1
  <2> QED
    BY <2>2, <2>3, <2>4
<1>4. IInv /\ MetaInv /\ [Next]_vars => MetaInv'
  BY <1>2
<1>5. IInv /\ MetaInv /\ [Next]_vars => [Kept]_vars
  BY <1>3
<1> HIDE DEF Kept
<1>6. [][Kept]_vars => MetadataSurvives
  BY PTL DEF MetadataSurvives, Kept
<1> QED
  BY <1>1, <1>4, <1>5, <1>6, Inductive, PTL DEF Spec
=============================================================================
