---------------------------- MODULE MCWalletApi ----------------------------
(***************************************************************************)
(* A small instance of WalletApi for TLC.                                  *)
(***************************************************************************)
EXTENDS WalletApi, TLC

Symmetry == Permutations(Callers)
=============================================================================
