----------------------------- MODULE MCIdentity -----------------------------
(* Small instances of IdentityFlow for TLC.                                *)
EXTENDS IdentityFlow, TLC

MCSymmetry == Permutations(Actors) \cup Permutations(Slots)
=============================================================================
