------------------------------- MODULE MCGrants -------------------------------
(***************************************************************************)
(* Small instances of Grants for TLC.                                      *)
(***************************************************************************)
EXTENDS Grants, TLC

Symmetry == Permutations(Workers) \cup Permutations(Scopes \ {All}) \cup Permutations(Clients)
=============================================================================
