----------------------------- MODULE MCQuestions -----------------------------
(***************************************************************************)
(* Small instances of Questions for TLC.                                   *)
(***************************************************************************)
EXTENDS Questions, TLC

Symmetry == Permutations(Pages) \cup Permutations(Guests)
=============================================================================
