-------------------------- MODULE LocalFileProofs --------------------------
(***************************************************************************)
(* What holds of a local policy file for every number of editors, of       *)
(* `bpe format` runs, of texts and of inodes, whatever other programs do   *)
(* to the file and whichever failures there are.                           *)
(***************************************************************************)
EXTENDS LocalFileInv, TLAPS

-----------------------------------------------------------------------------
(* Data *)

\* The document of a new session, field by field.
LEMMA EmptyDoc ==
  /\ NoDoc \in Doc
  /\ NoDoc.backing = "new" /\ NoDoc.current = Empty /\ NoDoc.original = Empty
  /\ NoDoc.snap = None /\ ~ NoDoc.changed /\ ~ NoDoc.stale /\ NoDoc.unseen = {}
BY ConstantsAssumption DEF NoDoc, Doc, Windows

\* A snapshot of a file is one, and is not nothing.
LEMMA SnapshotType ==
  ASSUME NEW f \in File
  PROVE  /\ SnapshotOf(f) \in Snapshot /\ SnapshotOf(f) # None
         /\ SnapshotOf(f).id = f.id /\ SnapshotOf(f).mode = f.mode
         /\ SnapshotOf(f).text = f.text
BY NoneIsNothing DEF SnapshotOf, Snapshot, File

\* Two snapshots that do not differ are the same.
LEMMA NoDifference ==
  ASSUME NEW s \in Snapshot, NEW t \in Snapshot, ~ Differs(s, t)
  PROVE  s = t
BY DEF Differs, Snapshot

\* What a read returns: nothing, or the file as it is.
LEMMA ReadIsOfTheFile ==
  ASSUME TypeOK, NEW s \in ReadResults, s # None
  PROVE  s \in Snapshot /\ file # None /\ file \in File /\ s = SnapshotOf(file)
BY SnapshotType DEF ReadResults, TypeOK

\* The session a read starts.
LEMMA ReadType ==
  ASSUME NEW s \in Snapshot
  PROVE  /\ Read(s) \in Doc
         /\ Read(s).backing = "local" /\ Read(s).original = s.text
         /\ Read(s).current = s.text /\ Read(s).snap = s
         /\ ~ Read(s).changed /\ ~ Read(s).stale /\ Read(s).unseen = {}
BY EmptyDoc DEF Read, NoDoc, Doc, Snapshot

\* What a program's history becomes when somebody else changes the file.
LEMMA OvertakenType ==
  ASSUME TypeOK, NEW q \in Procs
  PROVE  /\ Overtaken(q) \in Doc
         /\ at[q] = "off" => Overtaken(q) = doc[q]
         /\ at[q] # "off" =>
              /\ Overtaken(q).changed
              /\ Overtaken(q).unseen = doc[q].unseen \cup OpenWindows(q)
              /\ Overtaken(q).backing = doc[q].backing
              /\ Overtaken(q).original = doc[q].original
              /\ Overtaken(q).current = doc[q].current
              /\ Overtaken(q).snap = doc[q].snap
              /\ Overtaken(q).stale = doc[q].stale
<1>1. doc[q] \in Doc /\ OpenWindows(q) \subseteq Windows
  BY DEF TypeOK, OpenWindows, Windows
<1> QED
  BY <1>1 DEF Overtaken, Doc

-----------------------------------------------------------------------------
(* The other programs *)

\* A program that takes no step: the file stays, or it is overtaken.
Rests(q) ==
  /\ at'[q] = at[q] /\ tmp'[q] = tmp[q] /\ report'[q] = report[q]
  /\ \/ doc'[q] = doc[q] /\ file' = file
     \/ doc'[q] = Overtaken(q)

\* What it relies on stays.
LEMMA RestingKeeps ==
  ASSUME TypeOK, NEW q \in Procs, Program(q), Rests(q)
  PROVE  Program(q)'
<1>1. PICK d \in Doc : d = doc[q]
  BY DEF TypeOK
<1>2. CASE doc'[q] = doc[q] /\ file' = file
  BY <1>2 DEF Program, ProgramShape, UpToDate, Checked, SnapshotFits, Rests
<1>3. CASE doc'[q] = Overtaken(q) /\ at[q] = "off"
  <2>1. doc'[q] = NoDoc
    BY <1>3, OvertakenType DEF Program, ProgramShape
  <2> QED
    BY <1>3, <2>1, EmptyDoc, ConstantsAssumption
       DEF Program, ProgramShape, UpToDate, Checked, SnapshotFits, Rests, Replacing, SavingAs
<1>4. CASE doc'[q] = Overtaken(q) /\ at[q] # "off"
  <2>1. PICK e \in Doc : e = Overtaken(q)
    BY OvertakenType
  <2>2. /\ e.changed /\ e.unseen = d.unseen \cup OpenWindows(q)
        /\ e.backing = d.backing /\ e.original = d.original
        /\ e.current = d.current /\ e.snap = d.snap /\ e.stale = d.stale
    BY <1>1, <1>4, <2>1, OvertakenType
  <2>3. doc'[q] = e /\ at'[q] = at[q] /\ tmp'[q] = tmp[q] /\ report'[q] = report[q]
    BY <1>4, <2>1 DEF Rests
  <2>4. ProgramShape(q)'
    BY <1>1, <1>4, <2>2, <2>3 DEF Program, ProgramShape
  <2>5. UpToDate(q)'
    BY <2>2, <2>3 DEF UpToDate
  <2>6. /\ at[q] \in {"verify", "temp", "rename"} => "check" \in e.unseen
        /\ d.stale => "refresh" \in e.unseen
    BY <1>1, <2>2 DEF OpenWindows
  <2>7. Checked(q)'
    BY <2>3, <2>6 DEF Checked
  <2>8. "refresh" \notin e.unseen => "refresh" \notin d.unseen
    BY <2>2
  <2>9. SnapshotFits(q)'
    BY <1>1, <2>2, <2>3, <2>6, <2>8 DEF Program, SnapshotFits
  <2> QED
    BY <2>4, <2>5, <2>7, <2>9 DEF Program
<1> QED
  BY <1>2, <1>3, <1>4 DEF Rests

-----------------------------------------------------------------------------
(* A step that leaves the file system alone *)

\* Every screen, system call and report, by name.
LEMMA Names ==
  /\ "partial" \in Damaged /\ "garbage" \in Damaged
  /\ Formatters \subseteq Procs /\ Editors \subseteq Procs
  /\ Editors \cap Formatters = {}
  /\ \A t \in Texts : t \notin Damaged
  /\ \A p \in Procs : p # "others" /\ p # "saveas"
BY ConstantsAssumption DEF Damaged, Procs

Stages == Screens \cup Replacing \cup SavingAs

\* p goes to a with document d and report r, holding no file of its own.
Moves(p, a, d, r) ==
  /\ at' = [at EXCEPT ![p] = a] /\ doc' = [doc EXCEPT ![p] = d]
  /\ tmp' = [tmp EXCEPT ![p] = None] /\ report' = [report EXCEPT ![p] = r]

\* Such a move, seen by p and by the others.
LEMMA MovesOnlyItself ==
  ASSUME TypeOK, NEW p \in Procs, NEW a \in Stages, NEW d \in Doc, NEW r \in Reports,
         Moves(p, a, d, r)
  PROVE  /\ at'[p] = a /\ doc'[p] = d /\ tmp'[p] = None /\ report'[p] = r
         /\ \A q \in Procs : q # p =>
              at'[q] = at[q] /\ doc'[q] = doc[q] /\ tmp'[q] = tmp[q] /\ report'[q] = report[q]
         /\ at' \in [Procs -> Stages] /\ doc' \in [Procs -> Doc]
         /\ tmp' \in [Procs -> Ids \cup {None}] /\ report' \in [Procs -> Reports]
BY DEF TypeOK, Moves, Stages

\* The invariant is kept if p's own part is, no temporary file is involved, and
\* what p says of a file of its own is so.
LEMMA FileAloneKeeps ==
  ASSUME IInv, NEW p \in Procs, NEW a \in Stages, NEW d \in Doc, NEW r \in Reports,
         UNCHANGED fsVars, Moves(p, a, d, r),
         at[p] # "rename", a \notin {"rename", "fill"},
         file # None /\ file.by = p =>
           /\ r = "saved" \/ a = "refresh" => disk = file
           /\ a \notin SavingAs,
         Program(p)'
  PROVE  IInv'
<1> USE DEF IInv
<1>1. UNCHANGED <<file, disk, temps, leftovers>>
  BY DEF fsVars
<1>2. TypeOK'
  BY <1>1, MovesOnlyItself DEF TypeOK, Stages
<1>3. \A q \in Procs : at'[q] = "rename" <=> at[q] = "rename"
  BY MovesOnlyItself
<1>4. \A q \in Procs : at[q] = "rename" => tmp'[q] = tmp[q]
  BY MovesOnlyItself
<1>5. {tmp[q] : q \in {o \in Procs : at[o] = "rename"}}'
        = {tmp[q] : q \in {o \in Procs : at[o] = "rename"}}
  BY <1>3, <1>4
<1>6. TempsApart'
  <2>1. \A q \in Procs : at'[q] = "fill" => at[q] = "fill" /\ tmp'[q] = tmp[q]
    BY MovesOnlyItself
  <2> QED
    BY <1>1, <1>3, <1>4, <1>5, <2>1 DEF Directory, TempsApart, TempsRemoved
<1>7. Whole'
  BY <1>1 DEF Directory, Whole
<1>8. OnDisk'
  BY <1>1, MovesOnlyItself DEF Directory, OnDisk
<1>9. ASSUME NEW q \in Procs PROVE Program(q)'
  <2>1. CASE q = p
    BY <2>1
  <2>2. CASE q # p
    BY <1>1, <2>2, MovesOnlyItself, RestingKeeps DEF Rests
  <2> QED
    BY <2>1, <2>2
<1> QED
  BY <1>2, <1>6, <1>7, <1>8, <1>9 DEF Directory

-----------------------------------------------------------------------------
(* Saves that end *)

\* A save that ends is such a move: of an editor to a screen, of `bpe format`
\* out of the system.
LEMMA EndMoves ==
  ASSUME NEW p, NEW r, NEW screen, NEW d, End(p, r, screen, d)
  PROVE  /\ p \in Formatters => Moves(p, "off", NoDoc, r)
         /\ p \notin Formatters => Moves(p, screen, d, r)
BY DEF End, Moves, Step, SetDoc, SetReport, Holding

\* A formatter that has ended relies on nothing.
LEMMA OffIsFine ==
  ASSUME NEW p \in Procs, at'[p] = "off", doc'[p] = NoDoc, tmp'[p] = None
  PROVE  Program(p)'
BY EmptyDoc, ConstantsAssumption
   DEF Program, ProgramShape, UpToDate, Checked, SnapshotFits, Replacing, SavingAs

\* A document between two system calls of a save: its baseline and its snapshot
\* are the file's unless somebody else came between.
Sound(d) ==
  /\ ~ d.changed /\ d.backing = "local" =>
       /\ file # None
       /\ file.text = d.original \/ (file.text = "partial" /\ d.snap = None)
       /\ d.stale \/ d.snap = SnapshotOf(file)
  /\ "refresh" \notin d.unseen =>
       /\ d.stale => ~ d.changed
       /\ d.backing = "local" /\ ~ d.stale => d.snap # None /\ d.snap.text = d.original

\* Every program's document is, except right after its rename.
LEMMA DocumentsAreSound ==
  ASSUME NEW p \in Procs, Program(p), at[p] # "sync"
  PROVE  Sound(doc[p])
BY DEF Program, UpToDate, SnapshotFits, Sound

\* A save that ends on a screen, with a document as good as before.
LEMMA EndKeeps ==
  ASSUME IInv, NEW p \in Procs, NEW r \in Reports, NEW screen \in Screens, NEW d \in Doc,
         UNCHANGED fsVars, End(p, r, screen, d), at[p] # "rename",
         file # None /\ file.by = p /\ r = "saved" => disk = file,
         d.current \in Texts, screen # "off",
         screen = "path" /\ d.backing = "local" => d.snap = None,
         Sound(d)
  PROVE  IInv'
<1> USE DEF IInv
<1>1. CASE p \in Formatters
  <2>1. Moves(p, "off", NoDoc, r)
    BY <1>1, EndMoves
  <2>2. at'[p] = "off" /\ doc'[p] = NoDoc /\ tmp'[p] = None
    BY <2>1, MovesOnlyItself, EmptyDoc DEF Stages, Screens
  <2> QED
    BY <2>1, <2>2, OffIsFine, FileAloneKeeps, EmptyDoc DEF Stages, Screens, SavingAs
<1>2. CASE p \notin Formatters
  <2>1. Moves(p, screen, d, r) /\ screen \in Stages
    BY <1>2, EndMoves DEF Stages
  <2>2. at'[p] = screen /\ doc'[p] = d /\ tmp'[p] = None /\ file' = file
    BY <2>1, MovesOnlyItself DEF fsVars
  <2>3. screen \in {"editor", "review", "look", "conflict", "path"}
    BY DEF Screens
  <2>4. ProgramShape(p)'
    BY <1>2, <2>2, <2>3 DEF ProgramShape, Replacing, SavingAs
  <2>5. UpToDate(p)'
    BY <2>2, <2>3 DEF UpToDate, Sound
  <2>6. Checked(p)' /\ SnapshotFits(p)'
    BY <2>2, <2>3 DEF Checked, SnapshotFits, Sound
  <2>7. Program(p)'
    BY <2>4, <2>5, <2>6 DEF Program
  <2> QED
    BY <2>1, <2>3, <2>7, FileAloneKeeps DEF SavingAs
<1> QED
  BY <1>1, <1>2

\* A refusal before anything is written leaves the document as it was.
LEMMA RefuseKeeps ==
  ASSUME IInv, NEW p \in Procs, NEW r \in Reports \ {"saved"}, UNCHANGED fsVars,
         Refuse(p, r), at[p] \in {"lstat", "verify", "temp", "refresh"}
  PROVE  IInv'
<1> USE DEF IInv
<1>1. PICK screen \in {"conflict", "review"} : End(p, r, screen, doc[p])
  BY DEF Refuse
<1>2. PICK d \in Doc : d = doc[p]
  BY DEF TypeOK
<1>3. d.current \in Texts /\ d.backing = "local" /\ Sound(d)
  BY <1>2, DocumentsAreSound DEF Program, ProgramShape, Replacing
<1> QED
  BY <1>1, <1>2, <1>3, EndKeeps DEF Screens, Reports

-----------------------------------------------------------------------------
(* fileio.Replace *)

\* Going on to the next screen or system call with the same document is a move.
LEMMA StepMoves ==
  ASSUME TypeOK, NEW p \in Procs, NEW a, Step(p, a), tmp[p] = None,
         UNCHANGED <<doc, tmp, report>>
  PROVE  Moves(p, a, doc[p], report[p])
BY DEF TypeOK, Moves, Step

\* Session.Save and runFormat call it: the document is checked against the
\* snapshot it came with.
LEMMA ReplaceKeeps ==
  ASSUME IInv, NEW p \in Procs, NEW d \in Doc, Replace(p, d),
         at[p] \in {"off", "review"}, d.current \in Texts, d.backing = "local",
         Sound(d)
  PROVE  IInv'
<1> USE DEF IInv
<1>1. PICK e \in Doc : e = [d EXCEPT !.unseen = @ \ {"check"}]
  BY DEF Doc
<1>2. /\ e.current = d.current /\ e.original = d.original /\ e.backing = d.backing
      /\ e.changed = d.changed /\ e.stale = d.stale /\ e.snap = d.snap
      /\ e.unseen = d.unseen \ {"check"}
  BY <1>1 DEF Doc
<1>3. tmp[p] = None
  BY DEF Program, ProgramShape
<1>4. UNCHANGED fsVars /\ Moves(p, "lstat", e, "none")
  BY <1>1, <1>3 DEF Replace, Moves, Step, SetDoc, SetReport, TypeOK
<1>5. "lstat" \in Stages /\ "none" \in Reports
  BY DEF Stages, Replacing, Reports
<1>6. at'[p] = "lstat" /\ doc'[p] = e /\ tmp'[p] = None /\ report'[p] = "none" /\ file' = file
  BY <1>4, <1>5, MovesOnlyItself DEF fsVars
<1>7. ProgramShape(p)'
  BY <1>2, <1>6 DEF ProgramShape, Replacing, SavingAs
<1>8. UpToDate(p)'
  BY <1>2, <1>6 DEF UpToDate, Sound
<1>9. Checked(p)' /\ SnapshotFits(p)'
  BY <1>2, <1>6 DEF Checked, SnapshotFits, Sound
<1> QED
  BY <1>4, <1>5, <1>7, <1>8, <1>9, FileAloneKeeps DEF Program, SavingAs

\* The lstat: a missing file and a link are refused.
LEMMA LstatKeeps == ASSUME IInv, NEW p \in Procs, Lstat(p) PROVE IInv'
<1> USE DEF IInv
<1>1. CASE Refuse(p, "deleted") \/ Refuse(p, "refused")
  BY <1>1, RefuseKeeps DEF Lstat, Reports, Conflicts
<1>2. CASE /\ file # None /\ ~ file.symlink /\ ~ file.linked
           /\ Step(p, "verify") /\ UNCHANGED <<doc, tmp, report>>
  <2>1. UNCHANGED fsVars /\ at[p] = "lstat" /\ file' = file
    BY DEF Lstat, fsVars
  <2>2. tmp[p] = None
    BY <2>1 DEF Program, ProgramShape
  <2>3. Moves(p, "verify", doc[p], report[p]) /\ "verify" \in Stages
    BY <1>2, <2>2, StepMoves DEF Stages, Replacing
  <2>4. doc[p] \in Doc /\ report[p] \in Reports /\ report[p] = "none"
    BY <2>1 DEF TypeOK, Program, ProgramShape, Replacing
  <2>5. at'[p] = "verify" /\ doc'[p] = doc[p] /\ tmp'[p] = None /\ report'[p] = report[p]
    BY <2>3, <2>4, MovesOnlyItself
  <2>6. ProgramShape(p)'
    BY <2>1, <2>5 DEF Program, ProgramShape, Replacing, SavingAs
  <2>7. UpToDate(p)' /\ SnapshotFits(p)'
    BY <2>1, <2>5 DEF Program, UpToDate, SnapshotFits
  <2>8. Checked(p)'
    BY <1>2, <2>1, <2>5 DEF Checked
  <2> QED
    BY <2>1, <2>3, <2>4, <2>6, <2>7, <2>8, FileAloneKeeps DEF Program, SavingAs
<1> QED
  BY <1>1, <1>2 DEF Lstat

\* The check: it is passed only by the very file that was read.
LEMMA VerifyKeeps == ASSUME IInv, NEW p \in Procs, Verify(p) PROVE IInv'
<1> USE DEF IInv
<1>1. CASE Refuse(p, "deleted") \/ Refuse(p, "changed")
  BY <1>1, RefuseKeeps DEF Verify, Reports, Conflicts
<1>2. ASSUME NEW s \in ReadResults, s # None, doc[p].snap # None,
             ~ Differs(doc[p].snap, s),
             Step(p, "temp"), UNCHANGED <<doc, tmp, report>>
      PROVE  IInv'
  <2>1. UNCHANGED fsVars /\ at[p] = "verify" /\ file' = file
    BY DEF Verify, fsVars
  <2>2. tmp[p] = None
    BY <2>1 DEF Program, ProgramShape
  <2>3. Moves(p, "temp", doc[p], report[p]) /\ "temp" \in Stages
    BY <1>2, <2>2, StepMoves DEF Stages, Replacing
  <2>4. doc[p] \in Doc /\ report[p] \in Reports /\ report[p] = "none"
    BY <2>1 DEF TypeOK, Program, ProgramShape, Replacing
  <2>5. at'[p] = "temp" /\ doc'[p] = doc[p] /\ tmp'[p] = None /\ report'[p] = report[p]
    BY <2>3, <2>4, MovesOnlyItself
  <2>6. doc[p].snap = SnapshotOf(file)
    <3>1. s \in Snapshot /\ s = SnapshotOf(file)
      BY <1>2, ReadIsOfTheFile
    <3>2. doc[p].snap \in Snapshot
      BY <1>2, <2>4 DEF Doc
    <3> QED
      BY <1>2, <3>1, <3>2, NoDifference
  <2>7. ProgramShape(p)'
    BY <1>2, <2>1, <2>5 DEF Program, ProgramShape, Replacing, SavingAs
  <2>8. UpToDate(p)' /\ SnapshotFits(p)'
    BY <2>1, <2>5 DEF Program, UpToDate, SnapshotFits
  <2>9. Checked(p)'
    BY <2>1, <2>5, <2>6 DEF Program, Checked
  <2> QED
    BY <2>1, <2>3, <2>4, <2>7, <2>8, <2>9, FileAloneKeeps DEF Program, SavingAs
<1> QED
  BY <1>1, <1>2 DEF Verify

\* The temporary file: nobody else's, and no file that has a name.
LEMMA WriteTempKeeps == ASSUME IInv, NEW p \in Procs, WriteTemp(p) PROVE IInv'
<1> USE DEF IInv
<1>1. CASE UNCHANGED fsVars /\ Refuse(p, "failed")
  BY <1>1, RefuseKeeps DEF WriteTemp, Reports
<1>2. ASSUME NEW i \in Fresh, Holding(p, i), temps' = temps \cup {i}, Step(p, "rename"),
             UNCHANGED <<file, disk, leftovers, doc, report>>
      PROVE  IInv'
  <2>1. at[p] = "temp"
    BY DEF WriteTemp
  <2>2. /\ at'[p] = "rename" /\ tmp'[p] = i
        /\ \A q \in Procs : q # p => at'[q] = at[q] /\ tmp'[q] = tmp[q]
    BY <1>2 DEF TypeOK, Step, Holding
  <2>3. /\ i \in Ids /\ i \notin temps
        /\ \A q \in Procs : tmp[q] # i
        /\ \A f \in {file, disk} \ {None} : f.id # i
    BY DEF Fresh
  <2>4. TypeOK'
    BY <1>2, <2>3 DEF TypeOK, Step, Holding, Replacing
  <2>5. TempsApart'
    <3>1. {o \in Procs : at'[o] = "rename"} = {o \in Procs : at[o] = "rename"} \cup {p}
      BY <2>2
    <3>2. {tmp'[q] : q \in {o \in Procs : at'[o] = "rename"}}
            = {tmp[q] : q \in {o \in Procs : at[o] = "rename"}} \cup {i}
      BY <2>1, <2>2, <3>1
    <3>3. TempsRemoved'
      BY <1>2, <3>2 DEF Directory, TempsApart, TempsRemoved
    <3>4. i \notin leftovers
      BY <2>3 DEF Directory, TempsApart, TempsRemoved
    <3> QED
      BY <1>2, <2>1, <2>2, <2>3, <3>3, <3>4 DEF Directory, TempsApart
  <2>6. Whole'
    BY <1>2 DEF Directory, Whole
  <2>7. OnDisk'
    BY <1>2, <2>2 DEF Directory, OnDisk, SavingAs
  <2>8. Program(p)'
    <3>1. ProgramShape(p)'
      BY <1>2, <2>1, <2>2, <2>3 DEF Program, ProgramShape, Replacing, SavingAs
    <3>2. UpToDate(p)' /\ Checked(p)' /\ SnapshotFits(p)'
      BY <1>2, <2>1, <2>2 DEF Program, UpToDate, Checked, SnapshotFits
    <3> QED
      BY <3>1, <3>2 DEF Program
  <2>9. ASSUME NEW q \in Procs, q # p PROVE Program(q)'
    BY <1>2, <2>2, <2>9, RestingKeeps DEF Rests
  <2> QED
    BY <2>4, <2>5, <2>6, <2>7, <2>8, <2>9 DEF Directory
<1> QED
  BY <1>1, <1>2 DEF WriteTemp

\* Taking p's temporary file out of the directory, while p stops being about
\* to rename it.
LEMMA TempGone ==
  ASSUME TypeOK, TempsApart, NEW p \in Procs, at[p] = "rename", at'[p] # "rename",
         temps' = temps \ {tmp[p]}, leftovers' = leftovers,
         \A q \in Procs : q # p => at'[q] = at[q] /\ tmp'[q] = tmp[q]
  PROVE  TempsRemoved'
<1>1. {o \in Procs : at'[o] = "rename"} = {o \in Procs : at[o] = "rename"} \ {p}
  OBVIOUS
<1>2. {tmp'[q] : q \in {o \in Procs : at'[o] = "rename"}}
        = {tmp[q] : q \in {o \in Procs : at[o] = "rename"}} \ {tmp[p]}
  BY <1>1 DEF TempsApart
<1>3. tmp[p] \notin leftovers
  BY DEF TempsApart
<1> QED
  BY <1>2, <1>3 DEF TempsApart, TempsRemoved

\* A rename that fails.
LEMMA RenameFails ==
  ASSUME IInv, NEW p \in Procs, Rename(p), file' = file, Refuse(p, "failed")
  PROVE  IInv'
<1> USE DEF IInv
<1>1. /\ at[p] = "rename" /\ temps' = temps \ {tmp[p]}
      /\ UNCHANGED <<file, disk, leftovers>>
  BY DEF Rename
<1>2. PICK d \in Doc : d = doc[p]
  BY DEF TypeOK
<1>3. PICK a \in {"off", "review"}, e \in {NoDoc, d} :
        Moves(p, a, e, "failed") /\ (a = "off" => e = NoDoc) /\ (a = "review" => e = d)
        /\ (p \in Formatters => a = "off")
  BY <1>2, EndMoves DEF Refuse, Conflicts
<1>4. e \in Doc /\ a \in Stages /\ "failed" \in Reports
  BY <1>3, EmptyDoc DEF Stages, Screens, Reports
<1>5. /\ at'[p] = a /\ doc'[p] = e /\ tmp'[p] = None /\ report'[p] = "failed"
      /\ \A q \in Procs : q # p =>
           at'[q] = at[q] /\ doc'[q] = doc[q] /\ tmp'[q] = tmp[q] /\ report'[q] = report[q]
      /\ at' \in [Procs -> Stages] /\ doc' \in [Procs -> Doc]
      /\ tmp' \in [Procs -> Ids \cup {None}] /\ report' \in [Procs -> Reports]
  BY <1>3, <1>4, MovesOnlyItself
<1>6. TypeOK'
  BY <1>1, <1>5 DEF TypeOK, Stages
<1>7. TempsApart'
  <2>1. TempsRemoved'
    BY <1>1, <1>3, <1>5, TempGone DEF Directory
  <2> QED
    BY <1>1, <1>3, <1>5, <2>1 DEF Directory, TempsApart
<1>8. Whole' /\ OnDisk'
  BY <1>1, <1>3, <1>5 DEF Directory, Whole, OnDisk, SavingAs
<1>9. Program(p)'
  <2>1. CASE a = "off"
    BY <1>3, <1>5, <2>1, OffIsFine
  <2>2. CASE a = "review"
    <3>1. ProgramShape(p)'
      BY <1>1, <1>2, <1>3, <1>5, <2>2 DEF Program, ProgramShape, Replacing, SavingAs
    <3>2. UpToDate(p)' /\ Checked(p)' /\ SnapshotFits(p)'
      BY <1>1, <1>2, <1>3, <1>5, <2>2 DEF Program, UpToDate, Checked, SnapshotFits
    <3> QED
      BY <3>1, <3>2 DEF Program
  <2> QED
    BY <2>1, <2>2
<1>10. ASSUME NEW q \in Procs, q # p PROVE Program(q)'
  BY <1>1, <1>5, <1>10, RestingKeeps DEF Rests
<1> QED
  BY <1>6, <1>7, <1>8, <1>9, <1>10 DEF Directory

\* What the temporary file is.
LEMMA TempFileType ==
  ASSUME IInv, NEW p \in Procs, at[p] = "rename"
  PROVE  /\ TempFile(p) \in File /\ TempFile(p) # None
         /\ TempFile(p).id = tmp[p] /\ tmp[p] \in Ids
         /\ TempFile(p).text = doc[p].current /\ doc[p].current \in Texts
         /\ doc[p].snap \in Snapshot /\ TempFile(p).mode = doc[p].snap.mode
         /\ ~ TempFile(p).linked /\ ~ TempFile(p).symlink /\ TempFile(p).synced
         /\ TempFile(p).by = p
<1>1. /\ tmp[p] \in Ids /\ doc[p].current \in Texts
      /\ doc[p].snap # None /\ doc[p] \in Doc
  BY DEF IInv, TypeOK, Program, ProgramShape
<1>2. doc[p].snap \in Snapshot
  BY <1>1 DEF Doc
<1>3. doc[p].snap.mode \in Modes
  BY <1>2 DEF Snapshot
<1>4. TempFile(p) \in File
  BY <1>1, <1>3 DEF TempFile, File
<1> QED
  BY <1>1, <1>2, <1>4, NoneIsNothing DEF TempFile

\* The file is p's own now, and everybody else has been overtaken.
LEMMA RenameKeeps == ASSUME IInv, NEW p \in Procs, Rename(p) PROVE IInv'
<1> USE DEF IInv
<1>1. /\ at[p] = "rename" /\ temps' = temps \ {tmp[p]}
      /\ UNCHANGED <<disk, leftovers>>
  BY DEF Rename
<1>2. CASE UNCHANGED file /\ Refuse(p, "failed")
  BY <1>2, RenameFails
<1>3. CASE /\ file' = TempFile(p)
           /\ Overtake(p, [doc[p] EXCEPT !.changed = FALSE, !.stale = TRUE, !.unseen = {}])
           /\ Step(p, "sync") /\ Holding(p, None) /\ UNCHANGED report
  <2>1. PICK f \in File : f = TempFile(p)
    BY <1>1, TempFileType
  <2>2. /\ file' = f /\ f # None /\ f.id = tmp[p] /\ f.text = doc[p].current
        /\ f.text \in Texts /\ f.synced /\ f.by = p
    BY <1>1, <1>3, <2>1, TempFileType
  <2>3. PICK d \in Doc : d = doc[p]
    BY DEF TypeOK
  <2>4. PICK e \in Doc : e = [d EXCEPT !.changed = FALSE, !.stale = TRUE, !.unseen = {}]
    BY DEF Doc
  <2>5. /\ ~ e.changed /\ e.stale /\ e.unseen = {} /\ e.current = d.current
        /\ e.backing = d.backing /\ e.snap = d.snap
    BY <2>4 DEF Doc
  <2>6. /\ doc'[p] = e /\ doc' \in [Procs -> Doc]
        /\ \A q \in Procs : q # p => doc'[q] = Overtaken(q)
    BY <1>3, <2>3, <2>4, OvertakenType DEF Overtake
  <2>7. /\ at'[p] = "sync" /\ tmp'[p] = None
        /\ \A q \in Procs : q # p => at'[q] = at[q] /\ tmp'[q] = tmp[q]
    BY <1>3 DEF TypeOK, Step, Holding
  <2>8. TypeOK'
    BY <1>1, <1>3, <2>2, <2>6 DEF TypeOK, Step, Holding, Replacing
  <2>9. TempsApart'
    <3>1. TempsRemoved'
      BY <1>1, <2>7, TempGone DEF Directory
    <3>2. \A g \in {file', disk'} \ {None} : g.id \notin temps'
      BY <1>1, <2>2 DEF Directory, TempsApart
    <3> QED
      BY <1>1, <2>7, <3>1, <3>2 DEF Directory, TempsApart
  <2>10. Whole'
    BY <1>1, <2>2, Names DEF Directory, Whole
  <2>11. OnDisk'
    <3>1. report'[p] = "none"
      BY <1>1, <1>3 DEF Program, ProgramShape, Replacing
    <3> QED
      BY <2>2, <2>7, <3>1 DEF OnDisk, SavingAs
  <2>12. Program(p)'
    <3>1. ProgramShape(p)'
      BY <1>1, <1>3, <2>3, <2>5, <2>6, <2>7 DEF Program, ProgramShape, Replacing, SavingAs
    <3>2. UpToDate(p)'
      BY <2>2, <2>3, <2>5, <2>6, <2>7 DEF UpToDate
    <3>3. Checked(p)' /\ SnapshotFits(p)'
      BY <2>5, <2>6, <2>7 DEF Checked, SnapshotFits
    <3> QED
      BY <3>1, <3>2, <3>3 DEF Program
  <2>13. ASSUME NEW q \in Procs, q # p PROVE Program(q)'
    BY <1>3, <2>6, <2>7, <2>13, RestingKeeps DEF Rests
  <2> QED
    BY <2>8, <2>9, <2>10, <2>11, <2>12, <2>13 DEF Directory
<1> QED
  BY <1>2, <1>3 DEF Rename

\* After a write the text written is the baseline.
LEMMA SavedType ==
  ASSUME TypeOK, NEW p \in Procs
  PROVE  /\ Saved(p) \in Doc
         /\ Saved(p).original = doc[p].current /\ Saved(p).current = doc[p].current
         /\ Saved(p).backing = doc[p].backing /\ Saved(p).snap = doc[p].snap
         /\ Saved(p).changed = doc[p].changed /\ Saved(p).stale = doc[p].stale
         /\ Saved(p).unseen = doc[p].unseen
<1>1. doc[p] \in Doc
  BY DEF TypeOK
<1> QED
  BY <1>1 DEF Saved, Doc

\* A directory that could not be synced is reported and nothing else changes.
LEMMA SyncDirFails ==
  ASSUME IInv, NEW p \in Procs, at[p] = "sync", UNCHANGED fsVars,
         End(p, "unsure", "editor", Saved(p))
  PROVE  IInv'
<1> USE DEF IInv
<1>1. PICK e \in Doc : e = Saved(p)
  BY SavedType
<1>2. e.current \in Texts /\ e.stale /\ Sound(e)
  BY <1>1, SavedType DEF Program, ProgramShape, UpToDate, SnapshotFits, Sound
<1> QED
  BY <1>1, <1>2, EndKeeps DEF Reports, Screens

\* A synced directory holds the file p wrote, or the one that replaced it.
LEMMA SyncDirKeeps == ASSUME IInv, NEW p \in Procs, SyncDir(p) PROVE IInv'
<1> USE DEF IInv
<1>1. at[p] = "sync" /\ UNCHANGED <<file, temps, leftovers>>
  BY DEF SyncDir
<1>2. CASE UNCHANGED disk /\ End(p, "unsure", "editor", Saved(p))
  BY <1>1, <1>2, SyncDirFails DEF fsVars
<1>3. ASSUME disk' = file, NEW a \in {"off", "refresh"}, NEW e \in Doc, NEW r \in Reports,
             Moves(p, a, e, r), a = "off" => e = NoDoc,
             a = "refresh" => e = Saved(p) /\ r = report[p] /\ p \notin Formatters
      PROVE  IInv'
  <2>1. a \in Stages
    BY DEF Stages, Screens, Replacing
  <2>2. /\ at'[p] = a /\ doc'[p] = e /\ tmp'[p] = None /\ report'[p] = r
        /\ \A q \in Procs : q # p =>
             at'[q] = at[q] /\ doc'[q] = doc[q] /\ tmp'[q] = tmp[q] /\ report'[q] = report[q]
        /\ at' \in [Procs -> Stages] /\ doc' \in [Procs -> Doc]
        /\ tmp' \in [Procs -> Ids \cup {None}] /\ report' \in [Procs -> Reports]
    BY <1>3, <2>1, MovesOnlyItself
  <2>3. TypeOK'
    BY <1>1, <1>3, <2>2 DEF TypeOK, Stages
  <2>4. TempsApart'
    <3>1. {o \in Procs : at'[o] = "rename"} = {o \in Procs : at[o] = "rename"}
      BY <1>1, <2>2
    <3>2. {tmp'[q] : q \in {o \in Procs : at'[o] = "rename"}}
            = {tmp[q] : q \in {o \in Procs : at[o] = "rename"}}
      BY <1>1, <2>2, <3>1
    <3> QED
      BY <1>1, <1>3, <2>2, <3>2 DEF Directory, TempsApart, TempsRemoved
  <2>5. Whole' /\ OnDisk'
    BY <1>1, <1>3, <2>2 DEF Directory, Whole, OnDisk, SavingAs
  <2>6. Program(p)'
    <3>1. CASE a = "off"
      BY <1>3, <2>2, <3>1, OffIsFine
    <3>2. CASE a = "refresh"
      <4>1. ProgramShape(p)'
        BY <1>1, <1>3, <2>2, <3>2, SavedType DEF Program, ProgramShape, Replacing, SavingAs
      <4>2. UpToDate(p)'
        BY <1>1, <1>3, <2>2, <3>2, SavedType DEF Program, ProgramShape, UpToDate
      <4>3. Checked(p)' /\ SnapshotFits(p)'
        BY <1>1, <1>3, <2>2, <3>2, SavedType DEF Program, ProgramShape, Checked, SnapshotFits
      <4> QED
        BY <4>1, <4>2, <4>3 DEF Program
    <3> QED
      BY <3>1, <3>2
  <2>7. ASSUME NEW q \in Procs, q # p PROVE Program(q)'
    BY <1>1, <2>2, <2>7, RestingKeeps DEF Rests
  <2> QED
    BY <2>3, <2>4, <2>5, <2>6, <2>7 DEF Directory
<1>4. CASE disk' = file /\ p \in Formatters /\ End(p, "saved", "off", NoDoc)
  BY <1>3, <1>4, EndMoves, EmptyDoc DEF Reports
<1>5. CASE /\ disk' = file /\ p \notin Formatters
           /\ Step(p, "refresh") /\ SetDoc(p, Saved(p)) /\ UNCHANGED <<tmp, report>>
  <2>1. tmp[p] = None
    BY <1>1 DEF Program, ProgramShape
  <2>2. Moves(p, "refresh", Saved(p), report[p])
    BY <1>5, <2>1 DEF Moves, Step, SetDoc, TypeOK
  <2> QED
    BY <1>3, <1>5, <2>2, SavedType DEF TypeOK
<1> QED
  BY <1>2, <1>4, <1>5 DEF SyncDir

-----------------------------------------------------------------------------
(* The editor *)

\* What an editor shows next, with a document that is sound.
LEMMA ShowKeeps ==
  ASSUME IInv, NEW p \in Editors, NEW a \in (Screens \ {"off"}) \cup {"create"},
         NEW d \in Doc, NEW r \in Reports,
         UNCHANGED fsVars, Moves(p, a, d, r), at[p] # "rename",
         r = "saved" => r = report[p],
         a = "create" => file = None,
         d.current \in Texts \/ (a = "editor" /\ d.current = d.original),
         a \in {"path", "create"} /\ d.backing = "local" => d.snap = None,
         Sound(d)
  PROVE  IInv'
<1> USE DEF IInv
<1>1. p \in Procs /\ p \notin Formatters /\ a \in Stages
  BY Names DEF Stages, SavingAs
<1>2. at'[p] = a /\ doc'[p] = d /\ tmp'[p] = None /\ file' = file
  BY <1>1, MovesOnlyItself DEF fsVars
<1>3. a \in {"editor", "review", "look", "conflict", "path", "create"}
  BY DEF Screens
<1>4. ProgramShape(p)'
  BY <1>1, <1>2, <1>3 DEF ProgramShape, Replacing, SavingAs
<1>5. UpToDate(p)'
  BY <1>2, <1>3 DEF UpToDate, Sound
<1>6. Checked(p)' /\ SnapshotFits(p)'
  BY <1>2, <1>3 DEF Checked, SnapshotFits, Sound
<1>7. file # None /\ file.by = p =>
        /\ r = "saved" \/ a = "refresh" => disk = file
        /\ a \notin SavingAs
  BY <1>1, <1>3 DEF Directory, OnDisk, SavingAs
<1> QED
  BY <1>1, <1>3, <1>4, <1>5, <1>6, <1>7, FileAloneKeeps DEF Program

\* A screen's move, from the parts of the handlers.
LEMMA ScreenMoves ==
  ASSUME IInv, NEW p \in Procs, NEW a, NEW d, at[p] \in Screens \cup {"refresh"},
         Step(p, a), UNCHANGED <<fsVars, tmp>>,
         SetDoc(p, d) \/ (UNCHANGED doc /\ d = doc[p]),
         NEW r, SetReport(p, r) \/ (UNCHANGED report /\ r = report[p])
  PROVE  Moves(p, a, d, r) /\ UNCHANGED fsVars
<1>1. tmp[p] = None
  BY DEF IInv, Program, ProgramShape, Screens
<1> QED
  BY <1>1 DEF IInv, TypeOK, Moves, Step, SetDoc, SetReport

\* Only editors show screens.
LEMMA OnScreen ==
  ASSUME IInv, NEW p \in Procs,
         at[p] \in {"editor", "review", "look", "conflict", "path", "refresh"} \cup SavingAs
  PROVE  /\ p \in Editors /\ doc[p] \in Doc /\ report[p] \in Reports /\ Sound(doc[p])
         /\ doc[p].current \in Texts \/ (at[p] = "editor" /\ doc[p].current = doc[p].original)
BY DocumentsAreSound DEF IInv, TypeOK, Program, ProgramShape, Replacing, SavingAs, Procs

\* A new session, and one that opens the file.
LEMMA OpenKeeps == ASSUME IInv, NEW p \in Procs, New(p) \/ Open(p) PROVE IInv'
<1>1. PICK d \in Doc : /\ SetDoc(p, d) /\ d.current = d.original /\ Sound(d)
  <2>1. CASE New(p)
    BY <2>1, EmptyDoc DEF New, Sound
  <2>2. CASE Open(p)
    <3>1. PICK s \in ReadResults \ {None} : SetDoc(p, Read(s))
      BY <2>2 DEF Open
    <3>2. s \in Snapshot /\ file # None /\ file \in File /\ s = SnapshotOf(file)
      BY <3>1, ReadIsOfTheFile DEF IInv
    <3>3. s.text = file.text /\ s # None
      BY <3>1, <3>2, SnapshotType
    <3>4. Sound(Read(s))
      BY <3>2, <3>3, ReadType DEF Sound
    <3> QED
      BY <3>1, <3>2, <3>4, ReadType
  <2> QED
    BY <2>1, <2>2
<1>2. /\ at[p] = "off" /\ p \in Editors /\ Step(p, "editor") /\ SetReport(p, "none")
      /\ UNCHANGED <<fsVars, tmp>>
  BY DEF New, Open
<1>3. Moves(p, "editor", d, "none") /\ UNCHANGED fsVars
  BY <1>1, <1>2, ScreenMoves DEF Screens
<1> QED
  BY <1>1, <1>2, <1>3, ShowKeeps DEF Screens, Reports

\* An edit leaves the baseline and the snapshot alone.
LEMMA EditKeeps == ASSUME IInv, NEW p \in Procs, EditDocument(p) PROVE IInv'
<1>1. /\ at[p] = "editor" /\ p \in Editors /\ doc[p] \in Doc /\ report[p] \in Reports
      /\ Sound(doc[p])
  BY OnScreen DEF EditDocument
<1>2. PICK d \in Doc : d = doc[p]
  BY <1>1
<1>3. PICK t \in Texts : SetDoc(p, [d EXCEPT !.current = t])
  BY <1>2 DEF EditDocument
<1>4. PICK e \in Doc : e = [d EXCEPT !.current = t]
  BY DEF Doc
<1>5. /\ e.current = t /\ e.original = d.original /\ e.backing = d.backing
      /\ e.changed = d.changed /\ e.stale = d.stale /\ e.snap = d.snap /\ e.unseen = d.unseen
  BY <1>4 DEF Doc
<1>6. Sound(e)
  BY <1>1, <1>2, <1>5 DEF Sound
<1>7. Step(p, "editor") /\ UNCHANGED <<fsVars, tmp>> /\ UNCHANGED report
  BY <1>1 DEF EditDocument, Unwritten, Step, IInv, TypeOK
<1>8. Moves(p, "editor", e, report[p]) /\ UNCHANGED fsVars
  BY <1>1, <1>3, <1>4, <1>7, ScreenMoves, Names DEF Screens
<1> QED
  BY <1>1, <1>5, <1>6, <1>8, ShowKeeps DEF Screens

\* Keys that only change the screen: the review, back from it, the answer to a
\* conflict that reads nothing, the question for a path.
LEMMA LookKeeps ==
  ASSUME IInv, NEW p \in Procs, NEW a \in {"editor", "review", "look", "path"},
         at[p] \in {"editor", "review", "look", "conflict", "path"},
         Step(p, a), UNCHANGED doc, Unwritten,
         at[p] = "editor" => doc[p].current \in Texts,
         a = "path" => doc[p].backing = "new"
  PROVE  IInv'
<1>1. /\ p \in Editors /\ p \in Procs /\ doc[p] \in Doc /\ report[p] \in Reports
      /\ Sound(doc[p]) /\ doc[p].current \in Texts
  BY OnScreen
<1>2. Moves(p, a, doc[p], report[p]) /\ UNCHANGED fsVars
  BY <1>1, ScreenMoves DEF Unwritten, Screens
<1> QED
  BY <1>1, <1>2, ShowKeeps DEF Screens

\* ctrl+s: what differs from the baseline was put there by an edit.
LEMMA ShowReviewKeeps == ASSUME IInv, NEW p \in Procs, ShowReview(p) PROVE IInv'
<1>1. at[p] \in {"editor", "look"} /\ doc[p].original # doc[p].current
  BY DEF ShowReview, Dirty
<1>2. doc[p].current \in Texts
  BY <1>1, OnScreen
<1> QED
  BY <1>1, <1>2, LookKeeps DEF ShowReview

\* esc.
LEMMA BackKeeps == ASSUME IInv, NEW p \in Procs, Back(p) PROVE IInv'
<1>1. PICK a \in {"editor", "review"} : Step(p, a)
  BY DEF Back
<1>2. at[p] \in {"review", "look", "conflict", "path"} /\ UNCHANGED doc /\ Unwritten
  BY DEF Back
<1> QED
  BY <1>1, <1>2, LookKeeps

\* Leaving the program.
LEMMA QuitKeeps == ASSUME IInv, NEW p \in Procs, Quit(p) PROVE IInv'
<1>1. Moves(p, "off", NoDoc, report[p]) /\ UNCHANGED fsVars
  BY ScreenMoves DEF Quit, Unwritten, Screens
<1>2. "off" \in Stages /\ report[p] \in Reports
  BY DEF Stages, Screens, IInv, TypeOK
<1>3. at'[p] = "off" /\ doc'[p] = NoDoc /\ tmp'[p] = None
  BY <1>1, <1>2, MovesOnlyItself, EmptyDoc DEF IInv
<1>4. Program(p)'
  BY <1>3, OffIsFine
<1>5. file # None /\ file.by = p /\ report[p] = "saved" => disk = file
  BY DEF IInv, Directory, OnDisk
<1> QED
  BY <1>1, <1>2, <1>4, <1>5, FileAloneKeeps, EmptyDoc DEF Quit, SavingAs

\* Saving from the review: into the file, or the question for a path.
LEMMA SaveKeeps == ASSUME IInv, NEW p \in Procs, Save(p) PROVE IInv'
<1>1. at[p] = "review"
  BY DEF Save
<1>2. /\ p \in Editors /\ doc[p] \in Doc /\ report[p] \in Reports /\ Sound(doc[p])
      /\ doc[p].current \in Texts
  BY <1>1, OnScreen
<1>3. CASE doc[p].backing = "local" /\ Replace(p, doc[p])
  BY <1>1, <1>2, <1>3, ReplaceKeeps
<1>4. CASE doc[p].backing # "local" /\ Step(p, "path") /\ UNCHANGED doc /\ Unwritten
  <2>1. doc[p].backing = "new"
    BY <1>2, <1>4 DEF Doc
  <2> QED
    BY <1>1, <1>4, <2>1, LookKeeps
<1> QED
  BY <1>3, <1>4 DEF Save

\* The snapshot taken after a save is of the file as it is.
LEMMA TakeSnapshot ==
  ASSUME IInv, NEW p \in Procs, at[p] \in {"refresh", "adopt"},
         NEW s \in ReadResults \ {None}
  PROVE  /\ [doc[p] EXCEPT !.snap = s, !.stale = FALSE] \in Doc
         /\ [doc[p] EXCEPT !.snap = s, !.stale = FALSE].current \in Texts
         /\ Sound([doc[p] EXCEPT !.snap = s, !.stale = FALSE])
<1>1. PICK d \in Doc : d = doc[p]
  BY DEF IInv, TypeOK
<1>2. s \in Snapshot /\ file # None /\ file \in File /\ s = SnapshotOf(file) /\ s.text = file.text
      /\ s # None
  BY ReadIsOfTheFile, SnapshotType DEF IInv
<1>3. PICK e \in Doc : e = [d EXCEPT !.snap = s, !.stale = FALSE]
  BY <1>2 DEF Doc
<1>4. /\ e.snap = s /\ ~ e.stale /\ e.current = d.current /\ e.original = d.original
      /\ e.backing = d.backing /\ e.changed = d.changed /\ e.unseen = d.unseen
  BY <1>3 DEF Doc
<1>5. d.current \in Texts /\ d.backing = "local" /\ d.stale
  BY <1>1 DEF IInv, Program, ProgramShape, Replacing
<1>6. ~ d.changed => file.text = d.original
  <2>1. CASE at[p] = "adopt"
    BY <1>1, <2>1 DEF IInv, Program, UpToDate
  <2>2. CASE at[p] = "refresh"
    <3>1. d.snap # None
      BY <1>1, <2>2 DEF IInv, Program, ProgramShape
    <3> QED
      BY <1>1, <1>5, <2>2, <3>1 DEF IInv, Program, UpToDate
  <2> QED
    BY <2>1, <2>2
<1>7. "refresh" \notin d.unseen => ~ d.changed
  BY <1>1, <1>5 DEF IInv, Program, SnapshotFits
<1>8. Sound(e)
  BY <1>2, <1>4, <1>6, <1>7 DEF Sound
<1> QED
  BY <1>1, <1>3, <1>4, <1>5, <1>8

\* refreshSnapshot.
LEMMA RefreshKeeps == ASSUME IInv, NEW p \in Procs, Refresh(p) PROVE IInv'
<1>1. at[p] = "refresh" /\ UNCHANGED fsVars
  BY DEF Refresh
<1>2. CASE Refuse(p, "failed")
  BY <1>1, <1>2, RefuseKeeps DEF Reports
<1>3. ASSUME NEW s \in ReadResults \ {None},
             End(p, "saved", "editor", [doc[p] EXCEPT !.snap = s, !.stale = FALSE])
      PROVE  IInv'
  <2>1. PICK e \in Doc : /\ e = [doc[p] EXCEPT !.snap = s, !.stale = FALSE]
                         /\ e.current \in Texts /\ Sound(e)
    BY <1>1, TakeSnapshot
  <2>2. file # None /\ file.by = p => disk = file
    BY <1>1 DEF IInv, Directory, OnDisk
  <2> QED
    BY <1>1, <1>3, <2>1, <2>2, EndKeeps DEF Reports, Screens
<1> QED
  BY <1>2, <1>3 DEF Refresh

\* Discarding the edits for what the file holds.
LEMMA ReloadKeeps == ASSUME IInv, NEW p \in Procs, Reload(p) PROVE IInv'
<1>1. at[p] = "conflict" /\ Unwritten
  BY DEF Reload
<1>2. /\ p \in Editors /\ doc[p] \in Doc /\ report[p] \in Reports /\ Sound(doc[p])
      /\ doc[p].current \in Texts
  BY <1>1, OnScreen
<1>3. CASE Step(p, "review") /\ UNCHANGED doc
  BY <1>1, <1>3, LookKeeps
<1>4. ASSUME NEW s \in ReadResults \ {None}, Step(p, "editor"), SetDoc(p, Read(s))
      PROVE  IInv'
  <2>1. s \in Snapshot /\ file # None /\ file \in File /\ s = SnapshotOf(file)
    BY ReadIsOfTheFile DEF IInv
  <2>2. s.text = file.text /\ s # None
    BY <2>1, SnapshotType
  <2>3. /\ Sound(Read(s)) /\ Read(s) \in Doc /\ Read(s).current = Read(s).original
    BY <2>1, <2>2, ReadType DEF Sound
  <2>4. Moves(p, "editor", Read(s), report[p]) /\ UNCHANGED fsVars
    BY <1>1, <1>4, ScreenMoves DEF Unwritten, Screens
  <2> QED
    BY <1>1, <1>2, <2>3, <2>4, ShowKeeps DEF Screens
<1> QED
  BY <1>3, <1>4 DEF Reload

\* Comparing with what the file holds.
LEMMA LookAtDiskKeeps == ASSUME IInv, NEW p \in Procs, LookAtDisk(p) PROVE IInv'
<1>1. PICK a \in {"review", "look"} : Step(p, a)
  BY DEF LookAtDisk
<1> QED
  BY <1>1, LookKeeps DEF LookAtDisk

-----------------------------------------------------------------------------
(* Save as *)

\* A path that names a file is asked for again.
LEMMA SaveAsKeeps == ASSUME IInv, NEW p \in Procs, SaveAs(p) PROVE IInv'
<1>1. at[p] = "path" /\ UNCHANGED <<fsVars, doc, tmp>>
  BY DEF SaveAs
<1>2. /\ p \in Editors /\ doc[p] \in Doc /\ report[p] \in Reports /\ Sound(doc[p])
      /\ doc[p].current \in Texts
      /\ doc[p].backing = "local" => doc[p].snap = None
  BY <1>1, OnScreen DEF IInv, Program, ProgramShape
<1>3. CASE SetReport(p, "exists") /\ UNCHANGED at
  <2>1. Step(p, "path")
    BY <1>1, <1>3 DEF Step, IInv, TypeOK
  <2>2. Moves(p, "path", doc[p], "exists") /\ UNCHANGED fsVars
    BY <1>1, <1>3, <2>1, ScreenMoves DEF Screens
  <2> QED
    BY <1>1, <1>2, <2>2, ShowKeeps DEF Screens, Reports
<1>4. CASE file = None /\ Step(p, "create") /\ SetReport(p, "none")
  <2>1. Moves(p, "create", doc[p], "none") /\ UNCHANGED fsVars
    BY <1>1, <1>4, ScreenMoves DEF Screens
  <2> QED
    BY <1>1, <1>2, <1>4, <2>1, ShowKeeps DEF Reports
<1> QED
  BY <1>3, <1>4 DEF SaveAs

\* A save-as that fails asks for a path again.
LEMMA SaveAsFails ==
  ASSUME IInv, NEW p \in Procs, at[p] \in SavingAs, UNCHANGED fsVars,
         End(p, "failed", "path", doc[p])
  PROVE  IInv'
<1>1. /\ doc[p] \in Doc /\ Sound(doc[p]) /\ doc[p].current \in Texts
      /\ doc[p].backing = "local" => doc[p].snap = None
  BY OnScreen DEF IInv, Program, ProgramShape, SavingAs
<1> QED
  BY <1>1, EndKeeps DEF Reports, Screens, SavingAs

\* Writing to an open file.
LEMMA InodeType ==
  ASSUME NEW f \in File \cup {None}, NEW i, NEW t \in Texts \cup Damaged
  PROVE  /\ Inode(f, i, t) \in File \cup {None}
         /\ Inode(f, i, t) = None <=> f = None
         /\ f # None => Inode(f, i, t).id = f.id
         /\ f # None /\ f.id = i => Inode(f, i, t).text = t /\ Inode(f, i, t).by = "saveas"
         /\ f = None \/ f.id # i => Inode(f, i, t) = f
<1>1. CASE f = None
  BY <1>1 DEF Inode
<1>2. CASE f \in File
  <2>1. [f EXCEPT !.text = t, !.synced = FALSE, !.by = "saveas"] \in File
    BY <1>2 DEF File
  <2> QED
    BY <1>2, <2>1, NoneIsNothing DEF Inode, File
<1> QED
  BY <1>1, <1>2

\* The part of the step that is the same for the open and the write: what the
\* file and the disk hold is a save-as's or as it was.
LEMMA SaveAsDirectory ==
  ASSUME IInv, NEW p \in Procs, NEW i \in Ids,
         UNCHANGED <<temps, leftovers, report>>, i \notin temps,
         at[p] \in {"create", "fill"}, at'[p] \in {"fill", "adopt"},
         at'[p] = "fill" => tmp'[p] = i,
         \A q \in Procs : q # p => at'[q] = at[q] /\ tmp'[q] = tmp[q],
         \/ /\ file = None /\ disk' = disk
            /\ file' # None /\ file'.id = i /\ file'.by = "saveas"
         \/ \E t \in Texts \cup Damaged : file' = Inode(file, i, t) /\ disk' = Inode(disk, i, t)
  PROVE  Directory'
<1> USE DEF IInv
<1>1. file \in File \cup {None} /\ disk \in File \cup {None}
  BY DEF TypeOK
<1>2. TempsApart'
  <2>1. {o \in Procs : at'[o] = "rename"} = {o \in Procs : at[o] = "rename"}
    OBVIOUS
  <2>2. {tmp'[q] : q \in {o \in Procs : at'[o] = "rename"}}
          = {tmp[q] : q \in {o \in Procs : at[o] = "rename"}}
    BY <2>1
  <2>3. \A f \in {file', disk'} \ {None} : f.id \notin temps
    BY <1>1, InodeType DEF Directory, TempsApart
  <2> QED
    BY <2>2, <2>3 DEF Directory, TempsApart, TempsRemoved
<1>3. Whole'
  BY <1>1, InodeType DEF Directory, Whole
<1>4. OnDisk'
  <2>1. CASE file = None /\ disk' = disk /\ file' # None /\ file'.by = "saveas"
    BY <2>1, Names DEF OnDisk
  <2>2. ASSUME NEW t \in Texts \cup Damaged,
               file' = Inode(file, i, t), disk' = Inode(disk, i, t)
        PROVE  OnDisk'
    <3>1. CASE file = None
      BY <1>1, <2>2, <3>1, InodeType DEF Directory, OnDisk
    <3>2. CASE file # None /\ file.id = i
      BY <1>1, <2>2, <3>2, InodeType, Names DEF OnDisk
    <3>3. CASE file # None /\ file.id # i
      <4>1. file' = file /\ (disk = file => disk' = disk)
        BY <1>1, <2>2, <3>3, InodeType
      <4> QED
        BY <3>3, <4>1 DEF Directory, OnDisk, SavingAs
    <3> QED
      BY <3>1, <3>2, <3>3
  <2> QED
    BY <2>1, <2>2
<1> QED
  BY <1>2, <1>3, <1>4 DEF Directory

\* os.WriteFile's open: the file is empty, and p's.
LEMMA CreateKeeps == ASSUME IInv, NEW p \in Procs, Create(p) PROVE IInv'
<1> USE DEF IInv
<1>1. at[p] = "create" /\ UNCHANGED <<temps, leftovers>>
  BY DEF Create
<1>2. CASE End(p, "failed", "path", doc[p]) /\ UNCHANGED <<file, disk>>
  BY <1>1, <1>2, SaveAsFails DEF fsVars, SavingAs
<1>3. ASSUME NEW i \in Ids, i \notin temps, Holding(p, i),
             file' # None, file' \in File, file'.id = i, file'.text = "partial",
             file'.by = "saveas", disk' \in File \cup {None},
             \/ file = None /\ disk' = disk
             \/ \E t \in Texts \cup Damaged :
                  file' = Inode(file, i, t) /\ disk' = Inode(disk, i, t),
             Overtake(p, [doc[p] EXCEPT !.changed = FALSE, !.stale = TRUE, !.unseen = {}]),
             Step(p, "fill"), UNCHANGED report
      PROVE  IInv'
  <2>1. PICK d \in Doc : d = doc[p]
    BY DEF TypeOK
  <2>2. PICK e \in Doc : e = [d EXCEPT !.changed = FALSE, !.stale = TRUE, !.unseen = {}]
    BY DEF Doc
  <2>3. /\ ~ e.changed /\ e.stale /\ e.unseen = {} /\ e.current = d.current
        /\ e.backing = d.backing /\ e.snap = d.snap
    BY <2>2 DEF Doc
  <2>4. /\ doc'[p] = e /\ doc' \in [Procs -> Doc]
        /\ \A q \in Procs : q # p => doc'[q] = Overtaken(q)
    BY <1>3, <2>1, <2>2, OvertakenType DEF Overtake
  <2>5. /\ at'[p] = "fill" /\ tmp'[p] = i
        /\ \A q \in Procs : q # p => at'[q] = at[q] /\ tmp'[q] = tmp[q]
    BY <1>3 DEF TypeOK, Step, Holding
  <2>6. TypeOK'
    BY <1>1, <1>3, <2>4 DEF TypeOK, Step, Holding, SavingAs
  <2>7. Directory'
    BY <1>1, <1>3, <2>5, SaveAsDirectory
  <2>8. Program(p)'
    <3>1. ProgramShape(p)'
      BY <1>1, <1>3, <2>1, <2>3, <2>4, <2>5 DEF Program, ProgramShape, Replacing, SavingAs
    <3>2. d.backing = "local" => d.snap = None
      BY <1>1, <2>1 DEF Program, ProgramShape, SavingAs
    <3>3. UpToDate(p)'
      BY <1>3, <2>3, <2>4, <2>5, <3>2 DEF UpToDate
    <3>4. Checked(p)' /\ SnapshotFits(p)'
      BY <2>3, <2>4, <2>5 DEF Checked, SnapshotFits
    <3> QED
      BY <3>1, <3>3, <3>4 DEF Program
  <2>9. ASSUME NEW q \in Procs, q # p PROVE Program(q)'
    BY <1>3, <2>4, <2>5, <2>9, RestingKeeps DEF Rests
  <2> QED
    BY <2>6, <2>7, <2>8, <2>9
<1>4. ASSUME file = None, NEW i \in Fresh, Holding(p, i),
             file' = [id |-> i, text |-> "partial", mode |-> Private, linked |-> FALSE,
                      symlink |-> FALSE, synced |-> FALSE, by |-> "saveas"]
      PROVE  /\ i \in Ids /\ i \notin temps /\ file' \in File /\ file' # None
             /\ file'.id = i /\ file'.text = "partial" /\ file'.by = "saveas"
  <2>1. i \in Ids /\ i \notin temps
    BY DEF Fresh
  <2>2. file' \in File
    BY <1>4, <2>1, Names, ConstantsAssumption DEF File
  <2> QED
    BY <1>4, <2>1, <2>2, NoneIsNothing
<1>5. ASSUME file # None, file' = Inode(file, file.id, "partial"),
             disk' = Inode(disk, file.id, "partial")
      PROVE  /\ file.id \in Ids /\ file.id \notin temps /\ file' \in File /\ file' # None
             /\ file'.id = file.id /\ file'.text = "partial" /\ file'.by = "saveas"
             /\ disk' \in File \cup {None}
  <2>1. file \in File /\ disk \in File \cup {None}
    BY <1>5 DEF TypeOK
  <2>2. file.id \in Ids /\ file.id \notin temps
    BY <1>5, <2>1 DEF File, Directory, TempsApart
  <2>3. PICK i \in Ids, t \in Texts \cup Damaged : i = file.id /\ t = "partial"
    BY <2>2, Names
  <2>4. file' = Inode(file, i, t) /\ disk' = Inode(disk, i, t)
    BY <1>5, <2>3
  <2>5. disk' \in File \cup {None}
    BY <2>1, <2>4, InodeType
  <2>6. /\ file' \in File /\ file' # None /\ file'.id = file.id /\ file'.text = t
        /\ file'.by = "saveas"
    BY <1>5, <2>1, <2>3, <2>4, InodeType
  <2> QED
    BY <2>2, <2>3, <2>5, <2>6
<1>6. CASE /\ file = None /\ UNCHANGED disk
           /\ \E i \in Fresh :
                /\ Holding(p, i)
                /\ file' = [id |-> i, text |-> "partial", mode |-> Private, linked |-> FALSE,
                            symlink |-> FALSE, synced |-> FALSE, by |-> "saveas"]
           /\ Overtake(p, [doc[p] EXCEPT !.changed = FALSE, !.stale = TRUE, !.unseen = {}])
           /\ Step(p, "fill") /\ UNCHANGED report
  BY <1>3, <1>4, <1>6 DEF TypeOK
<1>7. CASE /\ file # None /\ Holding(p, file.id)
           /\ file' = Inode(file, file.id, "partial") /\ disk' = Inode(disk, file.id, "partial")
           /\ Overtake(p, [doc[p] EXCEPT !.changed = FALSE, !.stale = TRUE, !.unseen = {}])
           /\ Step(p, "fill") /\ UNCHANGED report
  <2>1. /\ file.id \in Ids /\ file.id \notin temps /\ file' \in File /\ file' # None
        /\ file'.id = file.id /\ file'.text = "partial" /\ file'.by = "saveas"
        /\ disk' \in File \cup {None}
    BY <1>5, <1>7
  <2>2. \E t \in Texts \cup Damaged :
          file' = Inode(file, file.id, t) /\ disk' = Inode(disk, file.id, t)
    BY <1>7, Names
  <2> HIDE DEF Inode
  <2> QED
    BY <1>3, <1>7, <2>1, <2>2
<1> QED
  BY <1>2, <1>6, <1>7 DEF Create

\* os.WriteFile's write, into the file that was opened.
LEMMA FillKeeps == ASSUME IInv, NEW p \in Procs, Fill(p) PROVE IInv'
<1> USE DEF IInv
<1>1. at[p] = "fill" /\ UNCHANGED <<temps, leftovers>>
  BY DEF Fill
<1>2. CASE End(p, "failed", "path", doc[p]) /\ UNCHANGED <<file, disk>>
  BY <1>1, <1>2, SaveAsFails DEF fsVars, SavingAs
<1>3. PICK e \in Doc : e = [Saved(p) EXCEPT !.backing = "local", !.snap = None]
  BY SavedType DEF Doc
<1>4. CASE /\ file' = Inode(file, tmp[p], doc[p].current)
           /\ disk' = Inode(disk, tmp[p], doc[p].current)
           /\ IF file' # file THEN Overtake(p, e) ELSE SetDoc(p, e)
           /\ Step(p, "adopt") /\ Holding(p, None) /\ UNCHANGED report
  <2>1. /\ tmp[p] \in Ids /\ tmp[p] \notin temps
        /\ doc[p].current \in Texts /\ doc[p].stale
        /\ ~ doc[p].changed => file # None /\ file.id = tmp[p]
        /\ "refresh" \notin doc[p].unseen => ~ doc[p].changed
    BY <1>1 DEF Program, ProgramShape, UpToDate, SnapshotFits, Directory, TempsApart
  <2>2. /\ e.backing = "local" /\ e.snap = None /\ e.original = doc[p].current
        /\ e.current = doc[p].current /\ e.changed = doc[p].changed
        /\ e.stale = doc[p].stale /\ e.unseen = doc[p].unseen
    BY <1>3, SavedType DEF Doc
  <2>3. /\ doc'[p] = e /\ doc' \in [Procs -> Doc]
        /\ \A q \in Procs : q # p =>
             (doc'[q] = doc[q] /\ file' = file) \/ doc'[q] = Overtaken(q)
    <3>1. CASE file' # file
      BY <1>4, <3>1, OvertakenType DEF Overtake
    <3>2. CASE file' = file
      BY <1>4, <3>2 DEF SetDoc, TypeOK
    <3> QED
      BY <3>1, <3>2
  <2>4. /\ at'[p] = "adopt" /\ tmp'[p] = None
        /\ \A q \in Procs : q # p => at'[q] = at[q] /\ tmp'[q] = tmp[q]
    BY <1>4 DEF TypeOK, Step, Holding
  <2>5. file \in File \cup {None} /\ disk \in File \cup {None}
    BY DEF TypeOK
  <2>6. TypeOK'
    <3>1. file' \in File \cup {None} /\ disk' \in File \cup {None}
      BY <1>4, <2>1, <2>5, InodeType
    <3> QED
      BY <1>1, <1>4, <2>3, <3>1 DEF TypeOK, Step, Holding, SavingAs
  <2>7. Directory'
    BY <1>1, <1>4, <2>1, <2>4, SaveAsDirectory
  <2>8. Program(p)'
    <3>1. ProgramShape(p)'
      BY <1>1, <2>1, <2>2, <2>3, <2>4, OnScreen, Names DEF ProgramShape, Replacing, SavingAs
    <3>2. UpToDate(p)'
      <4>1. ~ e.changed => file' # None /\ file'.text = e.original
        BY <1>4, <2>1, <2>2, <2>5, InodeType
      <4> QED
        BY <2>1, <2>2, <2>3, <2>4, <4>1 DEF UpToDate
    <3>3. Checked(p)' /\ SnapshotFits(p)'
      BY <2>1, <2>2, <2>3, <2>4 DEF Checked, SnapshotFits
    <3> QED
      BY <3>1, <3>2, <3>3 DEF Program
  <2>9. ASSUME NEW q \in Procs, q # p PROVE Program(q)'
    BY <1>4, <2>3, <2>4, <2>9, RestingKeeps DEF Rests
  <2> QED
    BY <2>6, <2>7, <2>8, <2>9
<1> QED
  BY <1>2, <1>3, <1>4 DEF Fill

\* The snapshot after a save-as.
LEMMA AdoptKeeps == ASSUME IInv, NEW p \in Procs, Adopt(p) PROVE IInv'
<1>1. at[p] = "adopt" /\ UNCHANGED fsVars
  BY DEF Adopt
<1>2. CASE End(p, "failed", "path", doc[p])
  BY <1>1, <1>2, SaveAsFails DEF SavingAs
<1>3. ASSUME NEW s \in ReadResults \ {None},
             End(p, "saved", "editor", [doc[p] EXCEPT !.snap = s, !.stale = FALSE])
      PROVE  IInv'
  <2>1. PICK e \in Doc : /\ e = [doc[p] EXCEPT !.snap = s, !.stale = FALSE]
                         /\ e.current \in Texts /\ Sound(e)
    BY <1>1, TakeSnapshot
  <2>2. file # None => file.by # p
    BY <1>1 DEF IInv, Directory, OnDisk, SavingAs
  <2> QED
    BY <1>1, <1>3, <2>1, <2>2, EndKeeps DEF Reports, Screens
<1> QED
  BY <1>2, <1>3 DEF Adopt

-----------------------------------------------------------------------------
(* bpe format, failures and the programs outside *)

\* A format run starts from the file and writes a document.
LEMMA FormatKeeps == ASSUME IInv, NEW p \in Procs, Format(p) PROVE IInv'
<1>1. PICK s \in ReadResults \ {None}, t \in Tidy : Replace(p, [Read(s) EXCEPT !.current = t])
  BY DEF Format
<1>2. s \in Snapshot /\ file # None /\ file \in File /\ s = SnapshotOf(file)
  BY ReadIsOfTheFile DEF IInv
<1>3. s.text = file.text /\ s # None /\ t \in Texts
  BY <1>2, SnapshotType, ConstantsAssumption
<1>4. PICK d \in Doc : d = Read(s)
  BY <1>2, ReadType
<1>5. PICK e \in Doc : e = [d EXCEPT !.current = t]
  BY <1>3 DEF Doc
<1>6. /\ e.current = t /\ e.backing = "local" /\ e.original = s.text /\ e.snap = s
      /\ ~ e.changed /\ ~ e.stale /\ e.unseen = {}
  BY <1>2, <1>4, <1>5, ReadType DEF Doc
<1>7. Sound(e)
  BY <1>2, <1>3, <1>6 DEF Sound
<1> QED
  BY <1>1, <1>3, <1>4, <1>5, <1>6, <1>7, ReplaceKeeps DEF Format

\* A program that dies leaves its temporary file to nobody.
LEMMA DieKeeps == ASSUME IInv, NEW p \in Procs, Die(p) PROVE IInv'
<1> USE DEF IInv
<1>1. /\ leftovers' = leftovers \cup (temps \cap {tmp[p]})
      /\ UNCHANGED <<file, disk, temps, report>>
  BY DEF Die
<1>2. /\ at'[p] = "off" /\ doc'[p] = NoDoc /\ tmp'[p] = None
      /\ \A q \in Procs : q # p => at'[q] = at[q] /\ doc'[q] = doc[q] /\ tmp'[q] = tmp[q]
  BY DEF Die, Step, SetDoc, Holding, TypeOK
<1>3. TypeOK'
  BY <1>1, EmptyDoc DEF Die, Step, SetDoc, Holding, TypeOK, Screens
<1>4. TempsApart'
  <2>1. CASE at[p] = "rename"
    <3>1. {o \in Procs : at'[o] = "rename"} = {o \in Procs : at[o] = "rename"} \ {p}
      BY <1>2
    <3>2. {tmp'[q] : q \in {o \in Procs : at'[o] = "rename"}}
            = {tmp[q] : q \in {o \in Procs : at[o] = "rename"}} \ {tmp[p]}
      BY <1>2, <2>1, <3>1 DEF Directory, TempsApart
    <3>3. leftovers' = leftovers \cup {tmp[p]} /\ tmp[p] \in temps
      BY <1>1, <2>1 DEF Directory, TempsApart, TempsRemoved
    <3>4. TempsRemoved'
      BY <1>1, <3>2, <3>3 DEF Directory, TempsApart, TempsRemoved
    <3> QED
      BY <1>1, <1>2, <2>1, <3>3, <3>4 DEF Directory, TempsApart
  <2>2. CASE at[p] # "rename"
    <3>1. {o \in Procs : at'[o] = "rename"} = {o \in Procs : at[o] = "rename"}
      BY <1>2, <2>2
    <3>2. {tmp'[q] : q \in {o \in Procs : at'[o] = "rename"}}
            = {tmp[q] : q \in {o \in Procs : at[o] = "rename"}}
      BY <1>2, <2>2, <3>1
    <3>3. tmp[p] \notin temps
      BY <2>2, ConstantsAssumption
         DEF Program, ProgramShape, Directory, TempsApart, TypeOK
    <3>4. leftovers' = leftovers
      BY <1>1, <3>3
    <3> QED
      BY <1>1, <1>2, <3>2, <3>4 DEF Directory, TempsApart, TempsRemoved
  <2> QED
    BY <2>1, <2>2
<1>5. Whole' /\ OnDisk'
  BY <1>1, <1>2 DEF Directory, Whole, OnDisk, SavingAs
<1>6. Program(p)'
  BY <1>2, OffIsFine
<1>7. ASSUME NEW q \in Procs, q # p PROVE Program(q)'
  BY <1>1, <1>2, <1>7, RestingKeeps DEF Rests
<1> QED
  BY <1>3, <1>4, <1>5, <1>6, <1>7 DEF Directory

\* What is left of a file after a power failure.
LEMMA SurvivorType ==
  ASSUME NEW f \in File \cup {None}, NEW g \in Survivor(f)
  PROVE  /\ g \in File \cup {None} /\ (g = None <=> f = None)
         /\ f # None =>
              /\ g.id = f.id /\ g.by = f.by /\ g.synced
              /\ g.text = f.text \/ (~ f.synced /\ g.text = "garbage")
<1>1. CASE f = None
  BY <1>1 DEF Survivor
<1>2. CASE f # None
  <2>1. f \in File
    BY <1>2
  <2>2. /\ [f EXCEPT !.synced = TRUE] \in File
        /\ [f EXCEPT !.synced = TRUE, !.text = "garbage"] \in File
    BY <2>1, Names DEF File
  <2> QED
    BY <1>2, <2>1, <2>2, NoneIsNothing DEF Survivor, File
<1> QED
  BY <1>1, <1>2

\* The machine stops: every program is gone, its temporary file is not.
LEMMA PowerKeeps == ASSUME IInv, PowerFailure PROVE IInv'
<1> USE DEF IInv
<1>1. PICK f \in {file, disk} : file' \in Survivor(f)
  BY DEF PowerFailure
<1>2. f \in File \cup {None} /\ (f # None => f.id \notin temps)
  BY <1>1 DEF TypeOK, Directory, TempsApart
<1>3. f # None => (f.text \in Damaged \/ ~ f.synced => f.by = "saveas")
  BY <1>1 DEF Directory, Whole
<1>4. /\ disk' = file' /\ leftovers' = temps /\ temps' = temps /\ report' = report
      /\ at' = [p \in Procs |-> "off"] /\ doc' = [p \in Procs |-> NoDoc]
      /\ tmp' = [p \in Procs |-> None]
  BY DEF PowerFailure
<1>5. TypeOK'
  BY <1>1, <1>2, <1>4, SurvivorType, EmptyDoc DEF TypeOK, Screens
<1>6. TempsApart'
  <2>1. {o \in Procs : at'[o] = "rename"} = {}
    BY <1>4
  <2>2. {tmp'[q] : q \in {o \in Procs : at'[o] = "rename"}} = {}
    BY <2>1
  <2>3. TempsRemoved'
    BY <1>4, <2>2 DEF TempsRemoved
  <2> QED
    BY <1>1, <1>2, <1>4, <2>3, SurvivorType DEF TempsApart
<1>7. Whole'
  BY <1>1, <1>2, <1>3, <1>4, SurvivorType DEF Whole
<1>8. OnDisk'
  BY <1>4 DEF OnDisk, SavingAs
<1>9. ASSUME NEW q \in Procs PROVE Program(q)'
  BY <1>4, OffIsFine
<1> QED
  BY <1>5, <1>6, <1>7, <1>8, <1>9 DEF Directory

\* Another program leaves the file another one, or none: whole, on disk, no
\* temporary file, and not the work of a program unless the file was.
LEMMA OthersPutKeeps ==
  ASSUME IInv, NEW f \in File \cup {None}, OthersPut(f),
         f # None =>
           /\ f.id \notin temps
           /\ f.text \in Damaged \/ ~ f.synced => f.by = "saveas"
           /\ f.by = "others" \/ (file # None /\ f.by = file.by)
  PROVE  IInv'
<1> USE DEF IInv
<1>1. /\ file' = f /\ disk' = f /\ doc' = [p \in Procs |-> Overtaken(p)]
      /\ UNCHANGED <<temps, leftovers, at, tmp, report>>
  BY DEF OthersPut, OvertakeAll
<1>2. TypeOK'
  BY <1>1, OvertakenType DEF TypeOK
<1>3. TempsApart'
  BY <1>1 DEF Directory, TempsApart, TempsRemoved
<1>4. Whole'
  BY <1>1 DEF Whole
<1>5. OnDisk'
  BY <1>1, Names DEF Directory, OnDisk
<1>6. ASSUME NEW q \in Procs PROVE Program(q)'
  BY <1>1, RestingKeeps DEF Rests
<1> QED
  BY <1>2, <1>3, <1>4, <1>5, <1>6 DEF Directory

\* A new file in its place, an edit in place, a removal.
LEMMA OthersKeep == ASSUME IInv, Others PROVE IInv'
<1> USE DEF IInv
<1>1. CASE OthersReplace
  <2>1. PICK i \in Fresh, t \in Texts, m \in Modes :
          OthersPut([id |-> i, text |-> t, mode |-> m, linked |-> FALSE, symlink |-> FALSE,
                     synced |-> TRUE, by |-> "others"])
    BY <1>1 DEF OthersReplace
  <2>2. i \in Ids /\ i \notin temps
    BY DEF Fresh
  <2>3. PICK f \in File :
          f = [id |-> i, text |-> t, mode |-> m, linked |-> FALSE, symlink |-> FALSE,
               synced |-> TRUE, by |-> "others"]
    BY <2>2 DEF File
  <2> QED
    BY <2>1, <2>2, <2>3, OthersPutKeeps, Names
<1>2. CASE OthersRewrite
  <2>1. file # None /\ file \in File
    BY <1>2 DEF OthersRewrite, TypeOK
  <2>2. file.id \notin temps /\ (file.text \in Damaged \/ ~ file.synced => file.by = "saveas")
    BY <2>1 DEF Directory, TempsApart, Whole
  <2>3. ASSUME NEW t \in Texts,
               OthersPut([file EXCEPT !.text = t, !.synced = TRUE, !.by = "others"])
        PROVE  IInv'
    <3>1. PICK f \in File : f = [file EXCEPT !.text = t, !.synced = TRUE, !.by = "others"]
      BY <2>1 DEF File
    <3>2. f.id = file.id /\ f.text = t /\ f.synced /\ f.by = "others"
      BY <2>1, <3>1 DEF File
    <3> QED
      BY <2>2, <2>3, <3>1, <3>2, OthersPutKeeps, Names
  <2>4. ASSUME NEW f \in File, OthersPut(f), f.id = file.id, f.text = file.text,
               f.synced = file.synced, f.by = file.by
        PROVE  IInv'
    BY <2>1, <2>2, <2>4, OthersPutKeeps
  <2>5. ASSUME NEW m \in Modes PROVE [file EXCEPT !.mode = m] \in File
    BY <2>1 DEF File
  <2>6. /\ [file EXCEPT !.linked = ~ @] \in File
        /\ [file EXCEPT !.symlink = TRUE] \in File
    BY <2>1 DEF File
  <2> QED
    BY <1>2, <2>1, <2>3, <2>4, <2>5, <2>6 DEF OthersRewrite, File
<1>3. CASE OthersDelete
  BY <1>3, OthersPutKeeps DEF OthersDelete
<1>4. CASE OthersTidyUp
  <2>1. /\ temps' = temps \ leftovers /\ leftovers' = {}
        /\ UNCHANGED <<file, disk, at, doc, tmp, report>>
    BY <1>4 DEF OthersTidyUp
  <2>2. TypeOK'
    BY <2>1 DEF TypeOK
  <2>3. TempsApart'
    BY <2>1 DEF Directory, TempsApart, TempsRemoved
  <2>4. Whole' /\ OnDisk'
    BY <2>1 DEF Directory, Whole, OnDisk
  <2>5. ASSUME NEW q \in Procs PROVE Program(q)'
    BY <2>1, RestingKeeps DEF Rests
  <2> QED
    BY <2>2, <2>3, <2>4, <2>5 DEF Directory
<1> QED
  BY <1>1, <1>2, <1>3, <1>4 DEF Others

-----------------------------------------------------------------------------
(* The invariant *)

\* At first no program runs, and the file, if there is one, is somebody else's.
LEMMA InitEstablishes == Init => IInv
<1> SUFFICES ASSUME Init PROVE IInv
  OBVIOUS
<1>1. /\ disk = file /\ temps = {} /\ leftovers = {}
      /\ at = [p \in Procs |-> "off"] /\ doc = [p \in Procs |-> NoDoc]
      /\ tmp = [p \in Procs |-> None] /\ report = [p \in Procs |-> "none"]
  BY DEF Init
<1>2. file = None \/ (file \in File /\ file.text \in Texts /\ file.synced /\ file.by = "others")
  <2>1. PICK i \in Ids, t \in Texts, m \in Modes :
          file \in {None, [id |-> i, text |-> t, mode |-> m, linked |-> FALSE,
                          symlink |-> FALSE, synced |-> TRUE, by |-> "others"]}
    BY DEF Init
  <2>2. PICK f \in File : f = [id |-> i, text |-> t, mode |-> m, linked |-> FALSE,
                               symlink |-> FALSE, synced |-> TRUE, by |-> "others"]
    BY DEF File
  <2>3. f.text = t /\ f.synced /\ f.by = "others"
    BY <2>2
  <2>4. file \in {None, f}
    BY <2>1, <2>2
  <2> QED
    BY <2>3, <2>4
<1>3. TypeOK
  BY <1>1, <1>2, EmptyDoc DEF TypeOK, Screens, Reports
<1>4. TempsApart
  <2>1. {tmp[q] : q \in {o \in Procs : at[o] = "rename"}} = {}
    BY <1>1
  <2> QED
    BY <1>1, <2>1 DEF TempsApart, TempsRemoved
<1>5. Whole /\ OnDisk
  BY <1>1, <1>2, Names DEF Whole, OnDisk, SavingAs
<1>6. ASSUME NEW q \in Procs PROVE Program(q)
  BY <1>1, EmptyDoc, ConstantsAssumption
     DEF Program, ProgramShape, UpToDate, Checked, SnapshotFits, Replacing, SavingAs
<1> QED
  BY <1>3, <1>4, <1>5, <1>6 DEF IInv, Directory

\* Every step keeps it.
LEMMA NextKeeps == IInv /\ [Next]_vars => IInv'
<1> SUFFICES ASSUME IInv, [Next]_vars PROVE IInv'
  OBVIOUS
<1>1. CASE UNCHANGED vars
  <2>1. UNCHANGED <<file, disk, temps, leftovers, at, doc, tmp, report>>
    BY <1>1 DEF vars, fsVars
  <2>2. TypeOK' /\ Directory'
    BY <2>1 DEF IInv, TypeOK, Directory, TempsApart, TempsRemoved, Whole, OnDisk
  <2>3. ASSUME NEW q \in Procs PROVE Program(q)'
    BY <2>1, RestingKeeps DEF IInv, Rests
  <2> QED
    BY <2>2, <2>3 DEF IInv
<1>2. ASSUME NEW p \in Procs, ReplaceStep(p) PROVE IInv'
  BY <1>2, LstatKeeps, VerifyKeeps, WriteTempKeeps, RenameKeeps, SyncDirKeeps DEF ReplaceStep
<1>3. ASSUME NEW p \in Procs, SessionStep(p) PROVE IInv'
  BY <1>3, OpenKeeps, EditKeeps, ShowReviewKeeps, BackKeeps, QuitKeeps, SaveKeeps,
     RefreshKeeps, ReloadKeeps, LookAtDiskKeeps, SaveAsKeeps, CreateKeeps, FillKeeps, AdoptKeeps
     DEF SessionStep
<1> QED
  BY <1>1, <1>2, <1>3, FormatKeeps, DieKeeps, OthersKeep, PowerKeeps DEF Next

\* So it is an invariant.
LEMMA Inductive == Spec => []IInv
BY InitEstablishes, NextKeeps, PTL DEF Spec

-----------------------------------------------------------------------------
(* What it means for the files *)

\* The variables have the types LocalFile declares, whatever fails.
THEOREM TypeCorrect == Spec => []TypeOK
<1>1. IInv => TypeOK
  BY DEF IInv
<1> QED
  BY <1>1, Inductive, PTL

\* While an editor shows a screen and nobody else has touched the file, its
\* baseline is what the file holds and its snapshot is of that file, unless its
\* last save left the snapshot stale (session.go:374).
THEOREM BaselinesAreOnDisk == Spec => []BaselineIsOnDisk
<1>1. IInv => BaselineIsOnDisk
  BY Names DEF IInv, BaselineIsOnDisk, Program, UpToDate, Screens
<1> QED
  BY <1>1, Inductive, PTL

\* A damaged file is the work of a save-as (session.go:395), never of Replace.
THEOREM OnlySaveAsLeavesDamage == Spec => []OnlySaveAsTears
<1>1. IInv => OnlySaveAsTears
  BY DEF IInv, Directory, Whole, OnlySaveAsTears
<1> QED
  BY <1>1, Inductive, PTL

\* The temporary files in the directory are those of the programs about to
\* rename one and those of programs that died (fileio.go:205).
THEOREM TempsAreRemoved == Spec => []TempsRemoved
<1>1. IInv => TempsRemoved
  BY DEF IInv, Directory, TempsApart
<1> QED
  BY <1>1, Inductive, PTL

\* The step from "rename" to "sync" is the program's own rename.
LEMMA OnlyRenamesRename ==
  ASSUME TypeOK, NEW p \in Procs, at[p] = "rename", at'[p] = "sync", [Next]_vars
  PROVE  Rename(p)
<1>1. at'[p] # at[p]
  OBVIOUS
<1>2. ~ UNCHANGED vars /\ ~ Others /\ ~ PowerFailure
  BY <1>1 DEF vars, Others, OthersReplace, OthersRewrite, OthersDelete, OthersTidyUp, OthersPut,
              PowerFailure
<1>3. PICK q \in Procs : ReplaceStep(q) \/ SessionStep(q) \/ Format(q) \/ Die(q)
  BY <1>2 DEF Next
<1>4. ASSUME NEW a, Step(q, a) PROVE q = p
  BY <1>1, <1>4 DEF Step, TypeOK
<1>6. q = p
  <2>1. CASE ReplaceStep(q)
    BY <1>4, <2>1 DEF ReplaceStep, Lstat, Verify, WriteTemp, Rename, SyncDir, Refuse, End
  <2>2. CASE SessionStep(q)
    BY <1>1, <1>4, <2>2
       DEF SessionStep, New, Open, EditDocument, ShowReview, Back, Quit, Save, Replace, Refresh,
           Refuse, End, Reload, LookAtDisk, SaveAs, Create, Fill, Adopt
  <2>3. CASE Format(q) \/ Die(q)
    BY <1>4, <2>3 DEF Format, Replace, Die
  <2> QED
    BY <1>3, <2>1, <2>2, <2>3
<1>7. ~ Lstat(p) /\ ~ Verify(p) /\ ~ WriteTemp(p) /\ ~ SyncDir(p)
  BY DEF Lstat, Verify, WriteTemp, SyncDir
<1>8. ~ SessionStep(p) /\ ~ Format(p)
  BY DEF SessionStep, New, Open, EditDocument, ShowReview, Back, Quit, Save, Refresh, Reload,
         LookAtDisk, SaveAs, Create, Fill, Adopt, Format
<1>9. ~ Die(p)
  BY DEF Die, Step, TypeOK
<1> QED
  BY <1>3, <1>6, <1>7, <1>8, <1>9 DEF ReplaceStep

\* It puts the temporary file in place.
LEMMA RenamesItsFile ==
  ASSUME TypeOK, NEW p \in Procs, at[p] = "rename", at'[p] = "sync", [Next]_vars
  PROVE  file' = TempFile(p)
<1>1. Rename(p)
  BY OnlyRenamesRename
<1>2. ~ Refuse(p, "failed")
  BY DEF Refuse, End, Step, TypeOK, Conflicts
<1> QED
  BY <1>1, <1>2 DEF Rename

\* A rename outside the program's two blind windows replaces the file the
\* program's user started from (fileio.go:189): the snapshot was checked, and it
\* was of the baseline.
THEOREM LostOnlyBlindly == Spec => LostOnlyInBlindWindows
<1> DEFINE Kept == \A p \in Procs :
                     Renames(p) /\ doc[p].unseen = {} => ReplacesWhatWasRead(p)
<1>1. ASSUME IInv, NEW p \in Procs, [Next]_vars, Renames(p), doc[p].unseen = {}
      PROVE  ReplacesWhatWasRead(p)
  <2>1. at[p] = "rename" /\ at'[p] = "sync"
    BY <1>1 DEF Renames
  <2>2. /\ file # None /\ ~ file.symlink /\ ~ file.linked
        /\ doc[p].snap = SnapshotOf(file)
    BY <1>1, <2>1 DEF IInv, Program, Checked
  <2>3. file \in File
    BY <1>1, <2>2 DEF IInv, TypeOK
  <2>4. SnapshotOf(file).text = file.text /\ SnapshotOf(file).mode = file.mode
        /\ SnapshotOf(file) # None
    BY <2>3, SnapshotType
  <2>5. doc[p].backing = "local"
    BY <1>1, <2>1 DEF IInv, Program, ProgramShape, Replacing
  <2>6. file.text = doc[p].original
    <3>1. CASE doc[p].stale
      BY <1>1, <2>1, <2>2, <2>4, <2>5, <3>1 DEF IInv, Program, SnapshotFits, UpToDate
    <3>2. CASE ~ doc[p].stale
      BY <1>1, <2>2, <2>4, <2>5, <3>2 DEF IInv, Program, SnapshotFits
    <3> QED
      BY <3>1, <3>2
  <2>7. file' = TempFile(p)
    BY <1>1, <2>1, RenamesItsFile DEF IInv
  <2>8. file'.mode = file.mode
    BY <1>1, <2>1, <2>2, <2>4, <2>7, TempFileType
  <2> QED
    BY <2>2, <2>6, <2>8 DEF ReplacesWhatWasRead
<1>2. IInv /\ [Next]_vars => [Kept]_vars
  BY <1>1
<1> HIDE DEF Kept
<1>3. [][Kept]_vars => LostOnlyInBlindWindows
  BY PTL DEF LostOnlyInBlindWindows, Kept
<1> QED
  BY <1>2, <1>3, Inductive, PTL DEF Spec

\* A save that was reported survives a power failure (fileio.go:244): the file
\* is synced, and it is what the directory names on disk.
THEOREM ReportedSavesLast == Spec => ReportedSavesSurvive
<1> DEFINE Kept == PowerFailure =>
                     \A p \in Procs : file # None /\ file.by = p /\ report[p] = "saved" =>
                                        file'.id = file.id /\ file'.text = file.text
<1>1. ASSUME IInv, NEW p \in Procs, PowerFailure,
             file # None, file.by = p, report[p] = "saved"
      PROVE  file'.id = file.id /\ file'.text = file.text
  <2>1. disk = file /\ file \in File
    BY <1>1 DEF IInv, TypeOK, Directory, OnDisk
  <2>2. file' \in Survivor(file)
    BY <1>1, <2>1 DEF PowerFailure
  <2>3. file.synced
    BY <1>1, Names DEF IInv, Directory, Whole
  <2> QED
    BY <1>1, <2>1, <2>2, <2>3, SurvivorType
<1>2. IInv /\ [Next]_vars => [Kept]_vars
  BY <1>1
<1> HIDE DEF Kept
<1>3. [][Kept]_vars => ReportedSavesSurvive
  BY PTL DEF ReportedSavesSurvive, Kept
<1> QED
  BY <1>2, <1>3, Inductive, PTL DEF Spec

\* A conflict is reported by the check, and by nothing else.
LEMMA OnlyVerifyReportsChange ==
  ASSUME TypeOK, NEW p \in Procs, Reported(p, "changed"), [Next]_vars
  PROVE  Verify(p) /\ Refuse(p, "changed")
<1>1. report'[p] = "changed" /\ report[p] # "changed" /\ report' # report
  BY DEF Reported
<1>2. ~ UNCHANGED vars /\ ~ Others /\ ~ PowerFailure
  BY <1>1 DEF vars, Others, OthersReplace, OthersRewrite, OthersDelete, OthersTidyUp, OthersPut,
              PowerFailure
<1>3. PICK q \in Procs : ReplaceStep(q) \/ SessionStep(q) \/ Format(q) \/ Die(q)
  BY <1>2 DEF Next
<1>4. ASSUME NEW r, SetReport(q, r) PROVE q = p /\ r = "changed"
  BY <1>1, <1>4 DEF SetReport, TypeOK
<1>5. ASSUME NEW r, NEW screen, NEW d, End(q, r, screen, d) PROVE q = p /\ r = "changed"
  BY <1>4, <1>5 DEF End
<1>6. ~ Format(q) /\ ~ Die(q)
  <2>1. Format(q) => SetReport(q, "none")
    BY DEF Format, Replace
  <2>2. Die(q) => report' = report
    BY DEF Die
  <2> QED
    BY <1>1, <1>4, <2>1, <2>2
<1>7. ~ SessionStep(q)
  <2>1. ~ New(q) /\ ~ Open(q) /\ ~ SaveAs(q)
    BY <1>1, <1>4 DEF New, Open, SaveAs
  <2>2. ~ Save(q)
    BY <1>1, <1>4 DEF Save, Replace, Unwritten
  <2>3. ~ Refresh(q) /\ ~ Create(q) /\ ~ Fill(q) /\ ~ Adopt(q)
    <3>1. /\ Refresh(q) \/ Adopt(q) => SetReport(q, "failed") \/ SetReport(q, "saved")
          /\ Create(q) \/ Fill(q) => SetReport(q, "failed") \/ report' = report
      BY DEF Refresh, Refuse, Create, Fill, Adopt, End
    <3> QED
      BY <1>1, <1>4, <3>1
  <2>4. /\ ~ EditDocument(q) /\ ~ ShowReview(q) /\ ~ Back(q) /\ ~ Quit(q) /\ ~ Reload(q)
        /\ ~ LookAtDisk(q)
    BY <1>1 DEF EditDocument, ShowReview, Back, Quit, Reload, LookAtDisk, Unwritten
  <2> QED
    BY <2>1, <2>2, <2>3, <2>4 DEF SessionStep
<1>8. ~ Lstat(q) /\ ~ WriteTemp(q) /\ ~ Rename(q) /\ ~ SyncDir(q)
  BY <1>1, <1>5 DEF Lstat, WriteTemp, Rename, SyncDir, Refuse
<1>9. Verify(q)
  BY <1>3, <1>6, <1>7, <1>8 DEF ReplaceStep
<1>10. Refuse(q, "changed")
  BY <1>1, <1>5, <1>9 DEF Verify, Refuse
<1> QED
  BY <1>5, <1>9, <1>10 DEF Refuse

\* A conflict over a file nobody else touched is reported only after a save
\* whose snapshot could not be renewed.
THEOREM ConflictsAreReal == Spec => ConflictIsReal
<1> DEFINE Kept == \A p \in Procs : Reported(p, "changed") => doc[p].changed \/ doc[p].stale
<1>1. ASSUME IInv, NEW p \in Procs, [Next]_vars, Reported(p, "changed"),
             ~ doc[p].changed, ~ doc[p].stale
      PROVE  FALSE
  <2>1. Verify(p) /\ Refuse(p, "changed") /\ at[p] = "verify"
    BY <1>1, OnlyVerifyReportsChange DEF IInv, Verify
  <2>2. doc[p].snap = SnapshotOf(file) /\ file # None /\ file \in File
    BY <1>1, <2>1 DEF IInv, TypeOK, Program, ProgramShape, UpToDate, Replacing
  <2>3. doc[p].snap # None
    BY <2>2, SnapshotType
  <2>4. ASSUME NEW s \in ReadResults, s # None PROVE ~ Differs(doc[p].snap, s)
    BY <1>1, <2>2, <2>4, ReadIsOfTheFile DEF IInv, Differs
  <2>5. ~ Refuse(p, "deleted") /\ ~ Step(p, "temp")
    <3>1. report'[p] = "changed" /\ at'[p] # "temp"
      BY <1>1, <2>1 DEF Reported, Refuse, End, Step, IInv, TypeOK, Conflicts
    <3> QED
      BY <1>1, <3>1 DEF Refuse, End, Step, SetReport, IInv, TypeOK
  <2> QED
    BY <2>1, <2>3, <2>4, <2>5 DEF Verify
<1>2. IInv /\ [Next]_vars => [Kept]_vars
  BY <1>1
<1> HIDE DEF Kept
<1>3. [][Kept]_vars => ConflictIsReal
  BY PTL DEF ConflictIsReal, Kept
<1> QED
  BY <1>2, <1>3, Inductive, PTL DEF Spec

=============================================================================
