------------------------------ MODULE MCWallet ------------------------------
(* A small instance of WalletRegistry for TLC.                             *)
EXTENDS WalletRegistry, TLC

MCSymmetry ==
  Permutations(Actors) \cup Permutations(Ids) \cup Permutations(Addresses)
    \cup Permutations(Stamps) \cup Permutations(Slots)
=============================================================================
