----------------------------- MODULE MCPayment ------------------------------
(* A small instance of PaymentLedger for TLC.                              *)
EXTENDS PaymentLedger, TLC

MCSymmetry == Permutations(Cycles) \cup Permutations(Instruments)
=============================================================================
