---------------------------- MODULE LocalFileInv ----------------------------
(***************************************************************************)
(* The inductive invariant behind LocalFile's properties.                  *)
(***************************************************************************)
EXTENDS LocalFile

-----------------------------------------------------------------------------
(* Each program *)

\* What its system calls rely on: the file it holds open, the text it writes,
\* where its document comes from.
ProgramShape(p) ==
  /\ at[p] = "off" => doc[p] = NoDoc
  /\ IF at[p] \in {"rename", "fill"} THEN tmp[p] \in Ids ELSE tmp[p] = None
  /\ p \in Formatters => at[p] \in {"off"} \cup (Replacing \ {"refresh"})
  /\ doc[p].current \in Texts \/ doc[p].current = doc[p].original
  /\ at[p] \notin {"off", "editor"} => doc[p].current \in Texts
  /\ at[p] \in Replacing => doc[p].backing = "local"
  /\ at[p] \in {"sync", "refresh", "fill", "adopt"} => doc[p].stale
  /\ at[p] \in {"temp", "rename", "sync", "refresh"} => doc[p].snap # None
  /\ at[p] \in {"path"} \cup SavingAs /\ doc[p].backing = "local" => doc[p].snap = None
  /\ at[p] = "adopt" => doc[p].backing = "local"
  /\ at[p] \in Replacing => report[p] = "none"

\* While nobody else has changed the file, it holds what the program thinks:
\* the text its user started from, or what it has just written.
UpToDate(p) ==
  ~ doc[p].changed =>
    /\ at[p] = "fill" => file # None /\ file.id = tmp[p] /\ file.text = "partial"
    /\ at[p] = "adopt" => file # None /\ file.text = doc[p].original
    /\ at[p] = "sync" => file # None /\ file.text = doc[p].current
    /\ doc[p].backing = "local" /\ at[p] # "sync" =>
         /\ file # None
         /\ file.text = doc[p].original \/ (file.text = "partial" /\ doc[p].snap = None)
         /\ doc[p].stale \/ doc[p].snap = SnapshotOf(file)

\* What Replace has checked holds until somebody else changes the file.
Checked(p) ==
  at[p] \in {"verify", "temp", "rename"} /\ "check" \notin doc[p].unseen =>
    /\ file # None /\ ~ file.symlink /\ ~ file.linked
    /\ at[p] # "verify" => doc[p].snap = SnapshotOf(file)

\* The snapshot is of the baseline unless somebody came between a write and it.
SnapshotFits(p) ==
  "refresh" \notin doc[p].unseen =>
    /\ doc[p].stale => ~ doc[p].changed
    /\ doc[p].backing = "local" /\ ~ doc[p].stale =>
         doc[p].snap # None /\ doc[p].snap.text = doc[p].original

Program(p) == ProgramShape(p) /\ UpToDate(p) /\ Checked(p) /\ SnapshotFits(p)

-----------------------------------------------------------------------------
(* The directory *)

\* A temporary file belongs to one program, or to none any more; an open file
\* and a file that has a name are no temporary files.
TempsApart ==
  /\ TempsRemoved
  /\ \A p \in Procs : at[p] = "rename" => tmp[p] \notin leftovers
  /\ \A p, q \in Procs : at[p] = "rename" /\ at[q] = "rename" /\ p # q => tmp[p] # tmp[q]
  /\ \A p \in Procs : at[p] = "fill" => tmp[p] \notin temps
  /\ \A f \in {file, disk} \ {None} : f.id \notin temps

\* Only a save-as leaves a file that is damaged or may become so.
Whole ==
  \A f \in {file, disk} \ {None} :
    f.text \in Damaged \/ ~ f.synced => f.by = "saveas"

\* What a program's Replace put there is on disk once it has been synced; and
\* nothing is there of a program that saves under a new name.
OnDisk ==
  /\ file = None => disk = None
  /\ file # None =>
       \A p \in Procs : file.by = p =>
         /\ report[p] = "saved" \/ at[p] = "refresh" => disk = file
         /\ at[p] \notin SavingAs

Directory == TempsApart /\ Whole /\ OnDisk

IInv == TypeOK /\ Directory /\ \A p \in Procs : Program(p)

=============================================================================
