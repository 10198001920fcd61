--------------------------- MODULE MCRemoteEditor ---------------------------
(***************************************************************************)
(* RemoteEditor on small instances.  Texts other than the empty document   *)
(* are interchangeable, and so are the identities of operations.           *)
(***************************************************************************)
EXTENDS RemoteEditorInv, TLC

Interchangeable == Permutations(Bodies \ {Empty}) \cup Permutations(Ops)

=============================================================================
