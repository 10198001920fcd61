----------------------------- MODULE LocalFile -----------------------------
(***************************************************************************)
(* The local half of `bpe`: one policy file, the editors (internal/tui/    *)
(* session.go, model.go) and `bpe format` runs (cmd/bpe/dispatch.go) that  *)
(* write it through internal/fileio, other programs that write it as they  *)
(* like, and failures of a system call, of a program and of the machine.   *)
(*                                                                         *)
(* fileio.Replace and the session's saves are split at the system calls    *)
(* another program can see the effect of or come between; a file read is   *)
(* one step, because it reads one open file.  The rule screens are         *)
(* EditDocument, a document is a member of Texts.                          *)
(***************************************************************************)
EXTENDS Naturals

CONSTANTS
  Editors,     \* `bpe [file]` processes
  Formatters,  \* `bpe format file` processes
  Texts,       \* policy documents
  Empty,       \* the empty document a new session starts from
  Tidy,        \* what hclwrite.Format produces and leaves alone
  Modes,       \* permission bits
  Private,     \* 0600
  Ids,         \* bound: inodes (device and number) there can be at once
  Faults,      \* which failures happen, of AllFaults
  None         \* no file, no snapshot, no inode

AllFaults == {"read", "write", "rename", "dirsync", "kill", "power"}
Damaged == {"partial", "garbage"}   \* part of a write; a file whose data was lost
Procs == Editors \cup Formatters

ASSUME ConstantsAssumption ==
  /\ Empty \in Texts /\ Tidy \subseteq Texts /\ Private \in Modes
  /\ Editors \cap Formatters = {}
  /\ Texts \cap Damaged = {}
  /\ None \notin Ids /\ None \notin Texts \cup Damaged
  /\ Procs \cap {"others", "saveas"} = {}
  /\ Faults \subseteq AllFaults

VARIABLES
  \* the file system
  file,       \* what the path names, None when there is nothing
  disk,       \* what it would name after a power failure
  temps,      \* the temporary files in its directory
  \* each program
  at,         \* the screen it shows, or the system call it is about to make
  doc,        \* its document and what it knows of the file
  tmp,        \* the file it is writing
  report,     \* how its last save ended
  \* history
  leftovers   \* temporary files of programs that died

fsVars == <<file, disk, temps, leftovers>>
vars == <<fsVars, at, doc, tmp, report>>

-----------------------------------------------------------------------------
(* Data *)

\* `linked` is a second hard link; `symlink` says the path is a symbolic link
\* to this file; `synced` that its data is on disk.  `by` is history: the
\* program whose Replace made it, a save-as, or somebody else.
File == [id : Ids, text : Texts \cup Damaged, mode : Modes, linked : BOOLEAN,
         symlink : BOOLEAN, synced : BOOLEAN, by : Procs \cup {"others", "saveas"}]

Snapshot == [id : Ids, mode : Modes, text : Texts \cup Damaged]
ASSUME NoneIsNothing == None \notin File /\ None \notin Snapshot

SnapshotOf(f) == [id |-> f.id, mode |-> f.mode, text |-> f.text]

\* Fault: the content hash is not compared.
DiffersByStat(s, t) == s.id # t.id \/ s.mode # t.mode

\* Snapshot.diff: identity, permissions, content.
Differs(s, t) == s.id # t.id \/ s.mode # t.mode \/ s.text # t.text

\* Three fields are history.  `changed`: somebody else has changed the file
\* since this program last read it for its user or wrote it.  `stale`: this
\* program has written the file and not taken a snapshot since.  `unseen`: in
\* which of its blind windows somebody else changed the file.
Windows == {"check", "refresh"}
Doc == [backing : {"new", "local"}, original : Texts \cup Damaged,
        current : Texts \cup Damaged, snap : Snapshot \cup {None},
        changed : BOOLEAN, stale : BOOLEAN, unseen : SUBSET Windows]
NoDoc == [backing |-> "new", original |-> Empty, current |-> Empty, snap |-> None,
          changed |-> FALSE, stale |-> FALSE, unseen |-> {}]

Read(s) == [NoDoc EXCEPT !.backing = "local", !.original = s.text,
                         !.current = s.text, !.snap = s]

Dirty(p) == doc[p].original # doc[p].current

Screens == {"off", "editor", "review", "look", "conflict", "path"}
Replacing == {"lstat", "verify", "temp", "rename", "sync", "refresh"}
SavingAs == {"create", "fill", "adopt"}
Conflicts == {"changed", "deleted"}
Reports == Conflicts \cup {"none", "saved", "unsure", "refused", "exists", "failed"}

Fresh == Ids \ (temps \cup {tmp[p] : p \in Procs}
                \cup {f.id : f \in {file, disk} \ {None}})

\* What fileio.Read may return: it follows a symbolic link, and may fail.
ReadResults ==
  (IF file = None THEN {} ELSE {SnapshotOf(file)})
    \cup (IF file = None \/ "read" \in Faults THEN {None} ELSE {})

-----------------------------------------------------------------------------
(* What a change to the file does to the other programs' history *)

OpenWindows(p) ==
  (IF at[p] \in {"verify", "temp", "rename"} THEN {"check"} ELSE {})
    \cup (IF doc[p].stale THEN {"refresh"} ELSE {})

Overtaken(p) ==
  IF at[p] = "off" THEN doc[p]
  ELSE [doc[p] EXCEPT !.changed = TRUE, !.unseen = @ \cup OpenWindows(p)]

\* p's own document becomes d; everybody else has been overtaken.
Overtake(p, d) == doc' = [q \in Procs |-> IF q = p THEN d ELSE Overtaken(q)]

Step(p, next) == at' = [at EXCEPT ![p] = next]
SetDoc(p, d) == doc' = [doc EXCEPT ![p] = d]
SetReport(p, r) == report' = [report EXCEPT ![p] = r]
Holding(p, i) == tmp' = [tmp EXCEPT ![p] = i]

\* A save ends: `bpe format` exits, the editor shows a screen.
End(p, r, screen, d) ==
  /\ Step(p, IF p \in Formatters THEN "off" ELSE screen)
  /\ SetDoc(p, IF p \in Formatters THEN NoDoc ELSE d)
  /\ SetReport(p, r)
  /\ Holding(p, None)

\* Fault: the document is marked saved before the write.
RefuseMarked(p, r) ==
  End(p, r, IF r \in Conflicts THEN "conflict" ELSE "review",
      [doc[p] EXCEPT !.original = doc[p].current])

\* A refused or failed write: Session.Save leaves the document as it was.  A
\* conflict is asked about, anything else is shown over the review.
Refuse(p, r) ==
  End(p, r, IF r \in Conflicts THEN "conflict" ELSE "review", doc[p])

-----------------------------------------------------------------------------
(* fileio.Replace *)

\* Save and runFormat call Replace with the snapshot of the read.
Replace(p, d) ==
  /\ Step(p, "lstat")
  /\ SetDoc(p, [d EXCEPT !.unseen = @ \ {"check"}])
  /\ SetReport(p, "none")
  /\ UNCHANGED <<fsVars, tmp>>

\* Fault: a second hard link is not noticed.
LstatSymlink(p) ==
  /\ at[p] = "lstat"
  /\ UNCHANGED fsVars
  /\ \/ (file = None \/ "read" \in Faults) /\ Refuse(p, "deleted")
     \/ /\ file # None
        /\ IF file.symlink
           THEN Refuse(p, "refused")
           ELSE Step(p, "verify") /\ UNCHANGED <<doc, tmp, report>>

Lstat(p) ==
  /\ at[p] = "lstat"
  /\ UNCHANGED fsVars
  /\ \/ (file = None \/ "read" \in Faults) /\ Refuse(p, "deleted")
     \/ /\ file # None
        /\ IF file.symlink \/ file.linked
           THEN Refuse(p, "refused")
           ELSE Step(p, "verify") /\ UNCHANGED <<doc, tmp, report>>

Verify(p) ==
  /\ at[p] = "verify"
  /\ UNCHANGED fsVars
  /\ \E s \in ReadResults :
       IF s = None THEN Refuse(p, "deleted")
       ELSE IF doc[p].snap = None \/ Differs(doc[p].snap, s) THEN Refuse(p, "changed")
       ELSE Step(p, "temp") /\ UNCHANGED <<doc, tmp, report>>

\* Fault: the error of CreateTemp is not checked.
WriteTempUnchecked(p) ==
  /\ at[p] = "temp"
  /\ \E i \in Fresh \cup {None} : Holding(p, i) /\ temps' = temps \cup {i}
  /\ Step(p, "rename")
  /\ UNCHANGED <<file, disk, leftovers, doc, report>>

\* CreateTemp, Write, Sync, Chmod, Close.  Whichever fails, the temporary file
\* is removed before Replace returns.
WriteTemp(p) ==
  /\ at[p] = "temp"
  /\ \/ /\ \E i \in Fresh : Holding(p, i) /\ temps' = temps \cup {i}
        /\ Step(p, "rename")
        /\ UNCHANGED <<file, disk, leftovers, doc, report>>
     \/ /\ "write" \in Faults \/ Fresh = {}
        /\ Refuse(p, "failed")
        /\ UNCHANGED fsVars

\* Fault: the temporary file is not synced.
UnsyncedTempFile(p) ==
  [id |-> tmp[p], text |-> doc[p].current, mode |-> doc[p].snap.mode, linked |-> FALSE,
   symlink |-> FALSE, synced |-> FALSE, by |-> p]

\* The temporary file as WriteTemp leaves it.
TempFile(p) ==
  [id |-> tmp[p], text |-> doc[p].current, mode |-> doc[p].snap.mode, linked |-> FALSE,
   symlink |-> FALSE, synced |-> TRUE, by |-> p]

\* Fault: a failed rename leaves the temporary file behind.
RenameLeavingTemp(p) ==
  /\ at[p] = "rename" /\ "rename" \in Faults
  /\ Refuse(p, "failed")
  /\ UNCHANGED fsVars

Rename(p) ==
  /\ at[p] = "rename"
  /\ temps' = temps \ {tmp[p]}
  /\ UNCHANGED <<disk, leftovers>>
  /\ \/ /\ file' = TempFile(p)
        /\ Overtake(p, [doc[p] EXCEPT !.changed = FALSE, !.stale = TRUE, !.unseen = {}])
        /\ Step(p, "sync")
        /\ Holding(p, None)
        /\ UNCHANGED report
     \/ /\ "rename" \in Faults
        /\ UNCHANGED file
        /\ Refuse(p, "failed")

Saved(p) == [doc[p] EXCEPT !.original = doc[p].current]

\* Fault: the directory is not synced.
SkipSyncDir(p) ==
  /\ at[p] = "sync"
  /\ UNCHANGED <<file, disk, temps, leftovers>>
  /\ IF p \in Formatters
     THEN End(p, "saved", "off", NoDoc)
     ELSE Step(p, "refresh") /\ SetDoc(p, Saved(p)) /\ UNCHANGED <<tmp, report>>

\* syncDir, and markSaved on the way out: the file was written either way.
SyncDir(p) ==
  /\ at[p] = "sync"
  /\ UNCHANGED <<file, temps, leftovers>>
  /\ \/ /\ disk' = file
        /\ IF p \in Formatters
           THEN End(p, "saved", "off", NoDoc)
           ELSE Step(p, "refresh") /\ SetDoc(p, Saved(p)) /\ UNCHANGED <<tmp, report>>
     \/ /\ "dirsync" \in Faults
        /\ UNCHANGED disk
        /\ End(p, "unsure", "editor", Saved(p))

-----------------------------------------------------------------------------
(* The editor *)

Unwritten == UNCHANGED <<fsVars, tmp, report>>

New(p) ==
  /\ at[p] = "off" /\ p \in Editors
  /\ Step(p, "editor") /\ SetDoc(p, NoDoc)
  /\ SetReport(p, "none") /\ UNCHANGED <<fsVars, tmp>>

Open(p) ==
  /\ at[p] = "off" /\ p \in Editors
  /\ \E s \in ReadResults \ {None} : SetDoc(p, Read(s))
  /\ Step(p, "editor")
  /\ SetReport(p, "none") /\ UNCHANGED <<fsVars, tmp>>

\* A file that does not parse is read-only; a damaged one may still parse.
EditDocument(p) ==
  /\ at[p] = "editor"
  /\ \E t \in Texts : SetDoc(p, [doc[p] EXCEPT !.current = t])
  /\ UNCHANGED at /\ Unwritten

ShowReview(p) ==
  /\ at[p] \in {"editor", "look"} /\ Dirty(p)
  /\ Step(p, "review") /\ UNCHANGED doc /\ Unwritten

\* esc, from every screen the save flow shows.
Back(p) ==
  /\ \/ at[p] \in {"review", "look"} /\ Step(p, "editor")
     \/ at[p] \in {"conflict", "path"} /\ Step(p, "review")
  /\ UNCHANGED doc /\ Unwritten

Quit(p) ==
  /\ at[p] \in {"editor", "review", "look"}
  /\ Step(p, "off") /\ SetDoc(p, NoDoc) /\ Unwritten

Save(p) ==
  /\ at[p] = "review"
  /\ IF doc[p].backing = "local"
     THEN Replace(p, doc[p])
     ELSE Step(p, "path") /\ UNCHANGED doc /\ Unwritten

\* refreshSnapshot after a save: a failure is reported over the review.
Refresh(p) ==
  /\ at[p] = "refresh"
  /\ UNCHANGED fsVars
  /\ \E s \in ReadResults :
       IF s = None THEN Refuse(p, "failed")
       ELSE End(p, "saved", "editor", [doc[p] EXCEPT !.snap = s, !.stale = FALSE])

\* Fault: the document is replaced, its snapshot is not.
ReloadText(p) ==
  /\ at[p] = "conflict"
  /\ \E s \in ReadResults :
       IF s = None THEN Step(p, "review") /\ UNCHANGED doc
       ELSE Step(p, "editor") /\ SetDoc(p, [Read(s) EXCEPT !.snap = doc[p].snap])
  /\ Unwritten

Reload(p) ==
  /\ at[p] = "conflict"
  /\ \E s \in ReadResults :
       IF s = None THEN Step(p, "review") /\ UNCHANGED doc
       ELSE Step(p, "editor") /\ SetDoc(p, Read(s))
  /\ Unwritten

LookAtDisk(p) ==
  /\ at[p] = "conflict"
  /\ \E s \in ReadResults : Step(p, IF s = None THEN "review" ELSE "look")
  /\ UNCHANGED doc /\ Unwritten

-----------------------------------------------------------------------------
(* Save as *)

SaveAs(p) ==
  /\ at[p] = "path"
  /\ IF file # None
     THEN SetReport(p, "exists") /\ UNCHANGED at
     ELSE Step(p, "create") /\ SetReport(p, "none")
  /\ UNCHANGED <<fsVars, doc, tmp>>

\* The data of the inode that p has open becomes t.
Inode(f, i, t) ==
  IF f # None /\ f.id = i THEN [f EXCEPT !.text = t, !.synced = FALSE, !.by = "saveas"] ELSE f

\* os.WriteFile opens with O_CREATE and O_TRUNC: a file that has appeared
\* since is emptied, through a symbolic link too.
Create(p) ==
  /\ at[p] = "create"
  /\ UNCHANGED <<temps, leftovers>>
  /\ \/ /\ IF file = None
           THEN /\ \E i \in Fresh :
                     /\ Holding(p, i)
                     /\ file' = [id |-> i, text |-> "partial", mode |-> Private,
                                 linked |-> FALSE, symlink |-> FALSE, synced |-> FALSE,
                                 by |-> "saveas"]
                /\ UNCHANGED disk
           ELSE /\ Holding(p, file.id)
                /\ file' = Inode(file, file.id, "partial")
                /\ disk' = Inode(disk, file.id, "partial")
        /\ Overtake(p, [doc[p] EXCEPT !.changed = FALSE, !.stale = TRUE, !.unseen = {}])
        /\ Step(p, "fill")
        /\ UNCHANGED report
     \/ /\ "write" \in Faults \/ Fresh = {}
        /\ End(p, "failed", "path", doc[p])
        /\ UNCHANGED <<file, disk>>

Fill(p) ==
  /\ at[p] = "fill"
  /\ UNCHANGED <<temps, leftovers>>
  /\ \/ /\ file' = Inode(file, tmp[p], doc[p].current)
        /\ disk' = Inode(disk, tmp[p], doc[p].current)
        /\ LET adopted == [Saved(p) EXCEPT !.backing = "local", !.snap = None]
           IN IF file' # file THEN Overtake(p, adopted) ELSE SetDoc(p, adopted)
        /\ Step(p, "adopt") /\ Holding(p, None)
        /\ UNCHANGED report
     \/ /\ "write" \in Faults
        /\ End(p, "failed", "path", doc[p])
        /\ UNCHANGED <<file, disk>>

Adopt(p) ==
  /\ at[p] = "adopt"
  /\ UNCHANGED fsVars
  /\ \E s \in ReadResults :
       IF s = None THEN End(p, "failed", "path", doc[p])
       ELSE End(p, "saved", "editor", [doc[p] EXCEPT !.snap = s, !.stale = FALSE])

-----------------------------------------------------------------------------
(* bpe format *)

\* A file that is formatted, does not parse, cannot be read or is only to be
\* checked is not written.
Format(p) ==
  /\ at[p] = "off" /\ p \in Formatters
  /\ \E s \in ReadResults \ {None} :
       /\ s.text \notin Tidy
       /\ \E t \in Tidy : Replace(p, [Read(s) EXCEPT !.current = t])

-----------------------------------------------------------------------------
(* Failures, and the programs outside *)

Die(p) ==
  /\ at[p] # "off" /\ "kill" \in Faults
  /\ Step(p, "off") /\ SetDoc(p, NoDoc) /\ Holding(p, None)
  /\ leftovers' = leftovers \cup (temps \cap {tmp[p]})
  /\ UNCHANGED <<file, disk, temps, report>>

\* Unsynced data is lost or not, and so are names the directory has not synced.
Survivor(f) ==
  IF f = None THEN {None}
  ELSE {[f EXCEPT !.synced = TRUE]}
       \cup (IF f.synced THEN {} ELSE {[f EXCEPT !.synced = TRUE, !.text = "garbage"]})

PowerFailure ==
  /\ "power" \in Faults
  /\ file' \in Survivor(file) \cup Survivor(disk)
  /\ disk' = file'
  /\ leftovers' = temps
  /\ at' = [p \in Procs |-> "off"] /\ doc' = [p \in Procs |-> NoDoc]
  /\ tmp' = [p \in Procs |-> None]
  /\ UNCHANGED <<temps, report>>

OvertakeAll == doc' = [p \in Procs |-> Overtaken(p)]

\* What others do is on disk when they are done.
OthersPut(f) ==
  /\ file' = f /\ disk' = f
  /\ OvertakeAll /\ UNCHANGED <<temps, leftovers, at, tmp, report>>

OthersReplace ==
  \E i \in Fresh, t \in Texts, m \in Modes :
    OthersPut([id |-> i, text |-> t, mode |-> m, linked |-> FALSE, symlink |-> FALSE,
               synced |-> TRUE, by |-> "others"])

\* In place: text, permissions, a hard link more or less, a symbolic link.
OthersRewrite ==
  /\ file # None
  /\ \/ \E t \in Texts : OthersPut([file EXCEPT !.text = t, !.synced = TRUE, !.by = "others"])
     \/ \E m \in Modes : OthersPut([file EXCEPT !.mode = m])
     \/ OthersPut([file EXCEPT !.linked = ~ @])
     \/ OthersPut([file EXCEPT !.symlink = TRUE])

OthersDelete == file # None /\ OthersPut(None)

OthersTidyUp ==
  /\ leftovers # {}
  /\ temps' = temps \ leftovers /\ leftovers' = {}
  /\ UNCHANGED <<file, disk, at, doc, tmp, report>>

-----------------------------------------------------------------------------

Init ==
  /\ \E i \in Ids, t \in Texts, m \in Modes :
       file \in {None, [id |-> i, text |-> t, mode |-> m, linked |-> FALSE,
                        symlink |-> FALSE, synced |-> TRUE, by |-> "others"]}
  /\ disk = file /\ temps = {} /\ leftovers = {}
  /\ at = [p \in Procs |-> "off"] /\ doc = [p \in Procs |-> NoDoc]
  /\ tmp = [p \in Procs |-> None] /\ report = [p \in Procs |-> "none"]

ReplaceStep(p) ==
  Lstat(p) \/ Verify(p) \/ WriteTemp(p) \/ Rename(p) \/ SyncDir(p)

SessionStep(p) ==
  \/ New(p) \/ Open(p) \/ EditDocument(p) \/ ShowReview(p) \/ Back(p) \/ Quit(p)
  \/ Save(p) \/ Refresh(p) \/ Reload(p) \/ LookAtDisk(p)
  \/ SaveAs(p) \/ Create(p) \/ Fill(p) \/ Adopt(p)

Others == OthersReplace \/ OthersRewrite \/ OthersDelete \/ OthersTidyUp

Next ==
  \/ \E p \in Procs : ReplaceStep(p) \/ SessionStep(p) \/ Format(p) \/ Die(p)
  \/ Others \/ PowerFailure

Spec == Init /\ [][Next]_vars

-----------------------------------------------------------------------------
(* Properties *)

TypeOK ==
  /\ file \in File \cup {None} /\ disk \in File \cup {None}
  /\ temps \subseteq Ids /\ leftovers \subseteq Ids
  /\ at \in [Procs -> Screens \cup Replacing \cup SavingAs]
  /\ doc \in [Procs -> Doc]
  /\ tmp \in [Procs -> Ids \cup {None}]
  /\ report \in [Procs -> Reports]

Reported(p, r) == report'[p] = r /\ report[p] # r
Renames(p) == at[p] = "rename" /\ at'[p] = "sync"

\* What a Replace puts in place of the file that was read: that file's text was
\* the text the user started from, it was no link, and its permissions stay.
ReplacesWhatWasRead(p) ==
  /\ file # None
  /\ file.text = doc[p].original
  /\ ~ file.symlink /\ ~ file.linked
  /\ file'.mode = file.mode

\* A save or a format run overwrites a file only if it holds what the program
\* last read or wrote itself, is neither a symbolic link nor hard-linked, and
\* keeps its permissions - unless somebody changed it in one of the program's
\* two blind windows: after Replace's check (fileio.go:189), or between a save
\* and the snapshot taken after it (session.go:374).
LostOnlyInBlindWindows ==
  [][\A p \in Procs : Renames(p) /\ doc[p].unseen = {} => ReplacesWhatWasRead(p)]_vars

\* Whenever the editor waits for a key and nobody else has touched the file
\* since it was read or written, the baseline that unsaved changes are counted
\* from (Session.original) is what the file holds, and the snapshot the next
\* save is checked against is of that file, unless the last save left it stale.
\* (A second save-as that fails in the middle may leave part of the document.)
BaselineIsOnDisk ==
  \A p \in Editors :
    at[p] \in Screens \ {"off"} /\ doc[p].backing = "local" /\ ~ doc[p].changed =>
      /\ file # None
      /\ file.text = doc[p].original \/ file.text = "partial"
      /\ doc[p].stale \/ doc[p].snap = SnapshotOf(file)

\* A half-written or lost file is never the work of Replace, whatever fails and
\* whenever: only the save-as write (session.go:395) can leave one.
OnlySaveAsTears ==
  \A f \in {file, disk} \ {None} : f.text \in Damaged => f.by = "saveas"

\* A save that was reported without a reservation survives a power failure:
\* Replace returns nil only after the directory is synced.
ReportedSavesSurvive ==
  [][PowerFailure =>
       \A p \in Procs : file # None /\ file.by = p /\ report[p] = "saved" =>
                          file'.id = file.id /\ file'.text = file.text]_vars

\* No temporary file outlives the Replace that made it, however that ends,
\* except when the program itself dies.
TempsRemoved ==
  temps = leftovers \cup {tmp[p] : p \in {q \in Procs : at[q] = "rename"}}

\* Replace reports a changed file only if somebody else changed it, or the
\* editor still holds the snapshot from before its own last write.
ConflictIsReal ==
  [][\A p \in Procs : Reported(p, "changed") => doc[p].changed \/ doc[p].stale]_vars

-----------------------------------------------------------------------------
(* What the documents say *)

\* README.md:385-393: only the window between the check and the rename is open.
LostOnlyInTheWindow ==
  [][\A p \in Procs : Renames(p) /\ "check" \notin doc[p].unseen => ReplacesWhatWasRead(p)]_vars

\* session.go:29: "never silently replace one it has not read".
SaveAsReplacesNothing ==
  [][\A p \in Procs : at[p] = "create" /\ at'[p] = "fill" => file = None]_vars

=============================================================================
