---------------------------- MODULE MCFileTable ----------------------------
(***************************************************************************)
(* FileTable for TLC: processes are alike, and so are pages.               *)
(***************************************************************************)
EXTENDS FileTable, TLC

Alike == Permutations(Procs) \cup Permutations(Pages)
=============================================================================
