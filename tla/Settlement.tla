------------------------------ MODULE Settlement ------------------------------
(***************************************************************************)
(* The settlement of planned reward cycles of one project: an external     *)
(* wallet pays the transfers of a plan from the frozen funding vault,      *)
(* retrying what seems lost; an operator names the transactions            *)
(* (scripts/prepare-cycle-action.ts, verify-settlement.ts); the verifier   *)
(* reconciles the balance changes of each finalized transaction with the   *)
(* plan (src/lib/solana-settlement.ts, rewards.ts); and the pull request   *)
(* with transactions.json and settlement.json merges later.                *)
(*                                                                         *)
(* Abstractions.  A plan is fixed (PaymentLedger shows how it is released) *)
(* and a transfer stands for its payout intent or for the platform fee.    *)
(* Amounts are small.  Only the paid settlement that the verifier writes is*)
(* kept, with one RPC authority that answers truthfully.                   *)
(***************************************************************************)
EXTENDS Naturals, Functions

CONSTANTS
  Cycles,
  Intents,   \* the approved intents of all cycles
  Fees,      \* and the fee transfers, one for each cycle that has a fee
  CycleOf,   \* the cycle of each transfer
  OwnerOf,   \* its recipient
  AmountOf,
  Sigs,      \* transaction signatures
  Drift,     \* how far in the future a settlement may be dated: five minutes
  MaxTime,   \* bound on the clock
  None

Transfers == Intents \cup Fees
Owners == {OwnerOf[t] : t \in Transfers}
Plan(c) == {t \in Transfers : CycleOf[t] = c}

VARIABLES
  now,
  chain,       \* external: the transactions of the vault
  pending,     \* the settlement of an open pull request
  settlements  \* settlement.json on develop

vars == <<now, chain, pending, settlements>>

\* What a set of transfers credits to each owner.
Credits(ts) == [o \in Owners |-> SumFunctionOnSet(AmountOf, {t \in ts : OwnerOf[t] = o})]

Tx == [state: {"sent", "finalized", "failed"}, credits: [Owners -> Nat],
       at: {None} \cup 0..MaxTime]

\* The transaction that is named for each transfer, and the operator's --settled-at.
Evidence(c) == [signature: [Plan(c) -> Sigs], settledAt: 0..(MaxTime + Drift)]

Init ==
  /\ now = 0
  /\ chain = [s \in Sigs |-> None]
  /\ pending = [c \in Cycles |-> None]
  /\ settlements = [c \in Cycles |-> None]

-----------------------------------------------------------------------------
Tick == now < MaxTime /\ now' = now + 1 /\ UNCHANGED <<chain, pending, settlements>>

\* external: the wallet signs any of the transfers, paid already or not.
Send(s) ==
  /\ chain[s] = None
  /\ \E c \in Cycles : \E ts \in SUBSET Plan(c) \ {{}} :
       chain' = [chain EXCEPT ![s] = [state |-> "sent", credits |-> Credits(ts), at |-> None]]
  /\ UNCHANGED <<now, pending, settlements>>

\* external: it is finalized, with or without an error.  One that is lost stays sent.
Land(s) ==
  /\ chain[s] # None /\ chain[s].state = "sent"
  /\ \E st \in {"finalized", "failed"} :
       chain' = [chain EXCEPT ![s].state = st, ![s].at = now]
  /\ UNCHANGED <<now, pending, settlements>>

\* As if two attempts might name one signature.
AttemptOfItsOwn(c, e, t) == {t}

\* parseEvidence and assertRewardSettlementManifest: every approved intent is in one
\* attempt and every attempt has a signature of its own, so an attempt is all the
\* transfers its signature is named for.
Attempt(c, e, t) == {u \in Plan(c) : e.signature[u] = e.signature[t]}

\* The signature of the fee is no attempt's.
FeeApart(c, e) == \A t \in Plan(c) \cap Fees, u \in Plan(c) :
                    u # t => e.signature[t] # e.signature[u]

\* assertFinalizedUsdcTransfer: the transaction ran, debited the vault of these transfers
\* and nothing else, and credited each recipient exactly.
Reconciled(s, ts) ==
  /\ chain[s] # None /\ chain[s].state = "finalized"
  /\ chain[s].credits = Credits(ts)

\* verifyRewardSettlementOnchain and assertSettlementChronology.
VerifiedOnchain(c, e) ==
  \A t \in Plan(c) :
    /\ Reconciled(e.signature[t], Attempt(c, e, t))
    /\ chain[e.signature[t]].at <= e.settledAt

\* verify-settlement for a cycle that is planned and has no settlement; a refused run
\* takes its transactions.json with it.
VerifySettlement(c) ==
  /\ pending[c] = None /\ settlements[c] = None
  /\ \E e \in Evidence(c) :
       /\ e.settledAt <= now + Drift
       /\ FeeApart(c, e)
       /\ VerifiedOnchain(c, e)
       /\ pending' = [pending EXCEPT ![c] = e]
  /\ UNCHANGED <<now, chain, settlements>>

Merge(c) ==
  /\ pending[c] # None
  /\ settlements' = [settlements EXCEPT ![c] = pending[c]]
  /\ pending' = [pending EXCEPT ![c] = None]
  /\ UNCHANGED <<now, chain>>

ClosePullRequest(c) ==
  /\ pending[c] # None
  /\ pending' = [pending EXCEPT ![c] = None]
  /\ UNCHANGED <<now, chain, settlements>>

Next ==
  \/ Tick
  \/ \E s \in Sigs : Send(s) \/ Land(s)
  \/ \E c \in Cycles : VerifySettlement(c) \/ Merge(c) \/ ClosePullRequest(c)

Spec == Init /\ [][Next]_vars

-----------------------------------------------------------------------------
TypeOK ==
  /\ now \in 0..MaxTime
  /\ chain \in [Sigs -> {None} \cup Tx]
  /\ \A c \in Cycles : pending[c] \in {None} \cup Evidence(c)
  /\ \A c \in Cycles : settlements[c] \in {None} \cup Evidence(c)

PaidBy(c) == {settlements[c].signature[t] : t \in Plan(c)}

Credited(sigs, o) == SumFunctionOnSet([s \in sigs |-> chain[s].credits[o]], sigs)

\* "generated only after finalized on-chain balance changes reconcile every contributor
\* transfer and the 1% platform fee" (cycles/README.md): a cycle that is published as
\* paid has transactions, finalized by its settlement, that together credit every
\* recipient with all the plan owes it and with no more, whichever were retried, failed
\* or lost, and although two intents may pay one wallet the same amount.
PaidInFull ==
  \A c \in Cycles : settlements[c] # None =>
    /\ \A s \in PaidBy(c) : chain[s].state = "finalized" /\ chain[s].at <= settlements[c].settledAt
    /\ \A o \in Owners : Credited(PaidBy(c), o) = Credits(Plan(c))[o]
=============================================================================
