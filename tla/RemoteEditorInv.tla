--------------------------- MODULE RemoteEditorInv ---------------------------
(***************************************************************************)
(* The inductive invariant behind RemoteEditor's safety properties.        *)
(***************************************************************************)
EXTENDS RemoteEditor

ReadKinds == {"open", "look", "reload"}

\* What the handlers rely on about the shape of the data: the name a command
\* carries, the text it writes, the text a successful read brings back.
CallShape(c) ==
  /\ c.stage # "idle" /\ c.kind \notin {"connect", "list"} => c.name \in Names
  /\ c.wire => c.stage # "idle" /\ c.kind \in Writes \cup {"delete"}
  /\ c.kind \in Writes /\ (c.wire \/ c.stage \in {"waiting", "readback"})
       => c.body \in Bodies
  /\ c.stage = "readback" => c.kind \in Writes /\ ~c.wire
  /\ c.stage = "replied" /\ c.kind \in ReadKinds /\ c.reply.err = ""
       => c.reply.body \in Bodies /\ c.reply.rev.of = c.reply.body

CallsOK == CallsTyped /\ \A o \in Ops : CallShape(calls[o])

StateOK ==
  /\ RestTyped
  /\ backing = "remote" => name \in Names /\ connected
  /\ dialog \in {"nameTaken", "draftLoss", "delete"} => subject \in Names
  /\ screen = "review" => shown \in DiffPair

Awaiting ==
  Busy => /\ dialog = "none"
          /\ calls[op].stage \in {"waiting", "readback", "replied"}
          /\ calls[op].kind \in Writes => backing = "remote"

TypeInv == CallsOK /\ StateOK /\ Awaiting

\* A revision was a revision of its text: should the server still be at that
\* version, it still holds that text.  Versions are never issued twice.
Honest(n, r) ==
  r.has => /\ r.ver <= issued[n]
           /\ Present(n) /\ server[n].ver = r.ver => server[n].body = r.of

\* A server that is not at r's version now never will be.
Stale(n, r) ==
  r.has => /\ r.ver <= issued[n]
           /\ Present(n) => server[n].ver # r.ver

VersionsIssued == \A n \in Names : server[n].ver <= issued[n]

\* The session's revision is the revision of its baseline.
SessionHonest ==
  backing = "remote" /\ exists =>
    Honest(name, rev) /\ (rev.has => rev.of = original)

SessionStale == backing = "remote" /\ exists => Stale(name, rev)

\* An update on its way carries the text that was reviewed and the revision of
\* the text it was reviewed against, unless it is bound to be refused.
Reviewed(c) ==
  /\ c.rev.has /\ Honest(c.name, c.rev)
  /\ c.seen \in DiffPair /\ c.seen.right = c.body
  /\ c.seen.left = c.rev.of \/ Stale(c.name, c.rev)

CallHonest(c) ==
  /\ c.kind = "update" /\ (c.wire \/ c.stage = "waiting") => Reviewed(c)
  /\ c.stage = "replied" /\ c.kind \in Writes \cup ReadKinds /\ c.reply.err = ""
       => Honest(c.name, c.reply.rev)

\* The awaited operation is about the document as it is: its write carries
\* that document, under a review that has given its licence up; a conflict
\* means that the session's own revision is refused for good; what will
\* replace the document replaces no edits but those given up.
AwaitedOK(c) ==
  /\ c.kind \in Writes =>
       /\ backing = "remote" /\ c.name = name /\ pending = None
       /\ c.stage \in {"waiting", "readback"} => c.body = current
       /\ c.stage = "replied" /\ c.reply.err = "" /\ c.reply.rev.has
            => c.reply.rev.of = current
  /\ c.kind = "update" /\ c.stage = "waiting" => c.rev = rev \/ SessionStale
  /\ c.stage = "replied" /\ c.reply.err = "conflict" =>
       c.kind = "create" \/ SessionStale
  /\ c.kind = "look" => backing = "remote" /\ c.name = name /\ SessionStale
  /\ c.kind = "reload" => c.name = name
  /\ c.kind \in {"connect", "list"} => screen # "review"
  /\ c.kind \in {"open", "reload"} => c.consent \/ ~Dirty

\* What the screen shows is what is, and a conflict under discussion is real.
ViewOK ==
  /\ pending # None =>
       /\ reviewKind = "serverConflict" /\ backing = "remote"
       /\ Honest(name, pending) /\ SessionStale
       /\ screen = "review" /\ shown.left = pending.of
  /\ screen = "review" => shown.right = current
  /\ screen = "review" /\ reviewKind = "save" /\ backing = "remote" /\ exists =>
       shown.left = original \/ Stale(name, rev)
  /\ dialog \in {"conflict", "takeServers"} => SessionStale

SafetyInv ==
  /\ VersionsIssued /\ SessionHonest /\ ViewOK
  /\ \A o \in Ops : CallHonest(calls[o])
  /\ op \in Ops => AwaitedOK(calls[op])

IInv == TypeInv /\ SafetyInv

-----------------------------------------------------------------------------
(* Metadata, on a server that answers writes with 204 *)

\* What r says of the metadata is so if the server is at r's version.
Faithful(n, r) ==
  r.has => /\ r.ver <= issued[n]
           /\ Present(n) /\ server[n].ver = r.ver => server[n].meta = r.meta

\* An update on its way knows the metadata it must put back, and can.
WireFaithful(c) ==
  c.wire /\ c.kind = "update" =>
    c.rev.has /\ c.rev.meta # "odd" /\ Faithful(c.name, c.rev)

ReplyFaithful(c) ==
  c.stage = "replied" /\ c.kind \in Writes \cup ReadKinds /\ c.reply.err = ""
    => Faithful(c.name, c.reply.rev)

MetaInv ==
  /\ backing = "remote" => Faithful(name, rev)
  /\ pending # None => Faithful(name, pending)
  /\ \A o \in Ops : WireFaithful(calls[o]) /\ ReplyFaithful(calls[o])

=============================================================================
