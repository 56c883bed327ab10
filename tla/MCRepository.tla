---------------------------- MODULE MCRepository ----------------------------
(***************************************************************************)
(* Instances of Repository for TLC.  The runs differ in the requests that  *)
(* may arrive; server children are interchangeable in the safety runs.     *)
(***************************************************************************)
EXTENDS Repository, TLC

Children == Permutations(Procs)
=============================================================================
