--------------------------- MODULE MCGuardedFiles ---------------------------
(* GuardedFiles on two file ids and three documents. *)
EXTENDS GuardedFiles, TLC

Alike == Permutations(FileIds) \cup Permutations(Docs)
=============================================================================
