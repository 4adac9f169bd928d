------------------------------ MODULE MCServices ------------------------------
(***************************************************************************)
(* A small instance of each part of Services for TLC.  The first two model *)
(* values serve every part, as the three of ReadCalls do.                  *)
(***************************************************************************)
EXTENDS Services, TLC

\* A global window of two calls, and one of a bucket of one.
MCLimit == [global |-> 2, bucket |-> 1]
MCPaths == {<<"global", "bucket">>}

\* Two intents to one wallet, of the same amount, and the fee.
MCCycleOf == [t \in Intents \cup Fees |-> "m1"]
MCOwnerOf == [t \in Intents \cup Fees |-> IF t \in Fees THEN "platform" ELSE "wallet"]
MCAmountOf == [t \in Intents \cup Fees |-> 1]

\* Two records of one transaction.
MCTxOf == [r \in Records |-> "tx"]

MCSymmetry == Permutations(Operators) \cup Permutations(ReadCalls)
=============================================================================
