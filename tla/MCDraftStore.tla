----------------------------- MODULE MCDraftStore -----------------------------
(***************************************************************************)
(* DraftStore on a small instance.                                         *)
(***************************************************************************)
EXTENDS DraftStore, TLC

Symmetry == Permutations(Process) \cup Permutations(Attempt) \cup Permutations(Step)
===============================================================================
