---------------------------- MODULE MCLocalFile ----------------------------
(***************************************************************************)
(* LocalFile on small instances.  Inodes are interchangeable.              *)
(***************************************************************************)
EXTENDS LocalFile, TLC

Interchangeable == Permutations(Ids)

=============================================================================
