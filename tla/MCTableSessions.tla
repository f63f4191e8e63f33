-------------------------- MODULE MCTableSessions --------------------------
(***************************************************************************)
(* Instances of TableSessions for TLC.                                     *)
(***************************************************************************)
EXTENDS TableSessions, TLC

UUIDSymmetry == Permutations(Sessions) \cup Permutations(Requests)
=============================================================================
