------------------------------ MODULE MCScreens ------------------------------
(***************************************************************************)
(* Small instances of Screens, and with it of Transfers, for TLC.          *)
(***************************************************************************)
EXTENDS Screens, TLC

Symmetry == Permutations(Users \ Hosts) \cup Permutations(Workers)
=============================================================================
