------------------------------- MODULE Services -------------------------------
(***************************************************************************)
(* Seven small parts of the system that share no state.  The first state   *)
(* chooses the part that runs, and the variables of the others stay None,  *)
(* so that one specification, and one run, serves them all.                *)
(***************************************************************************)
EXTENDS Integers, FiniteSets, Sequences

CONSTANTS
  Operators, Traces, Grants, ReadCalls, GrantTtl, ReadsMaxTime,       \* reads
  Keys, Limit, Paths, CountedCalls, Window, MaxDelay, LimitsMaxTime,  \* limits
  Renewals, Validity, Tolerance, FetchLimit, Skew, IntakeMaxTime,     \* intake
  Authorities, Faulty, Children, MaxSlot,                             \* squads
  Cycles, Intents, Fees, CycleOf, OwnerOf, AmountOf, Sigs, Drift, SettlementMaxTime,
  PRs, Records, TxOf, Genuine, DecisionLife, MaxPushes, MaxRuns, FundingMaxTime,
  Life, SignersMaxTime,                                               \* signers
  MaxMerges,                                                 \* funding and signers
  None

VARIABLES
  part,
  now,
  grants, audit, calls,                 \* reads
  rows, cleanup, counts, admitted,      \* limits
  enabled, lastHeld, row, newest, renewals, \* intake
  chain, obs, verdict,                  \* squads
  transactions, pending, settlements,   \* settlement
  develop, strict, pulls, pushes, run, runs, botMerges, dispatched, \* funding
  trees, gated, ask, uses               \* signers

readsVars == <<grants, audit, calls>>
limitsVars == <<rows, cleanup, counts, admitted>>
intakeVars == <<enabled, lastHeld, row, newest, renewals>>
squadsVars == <<chain, obs, verdict>>
settlementVars == <<transactions, pending, settlements>>
fundingVars == <<develop, strict, pulls, pushes, run, runs, botMerges, dispatched>>
signersVars == <<trees, gated, ask, uses>>
vars == <<part, now, readsVars, limitsVars, intakeVars, squadsVars, settlementVars,
          fundingVars, signersVars>>

Reads == INSTANCE TraceReads WITH Calls <- ReadCalls, MaxTime <- ReadsMaxTime

Limits == INSTANCE FixedWindow WITH
  Calls <- CountedCalls, MaxTime <- LimitsMaxTime, calls <- counts

Intake == INSTANCE IntakeStatus WITH MaxTime <- IntakeMaxTime

Squads == INSTANCE SquadsObservation

Settling == INSTANCE Settlement WITH MaxTime <- SettlementMaxTime, chain <- transactions

Funding == INSTANCE FundingMerge WITH MaxTime <- FundingMaxTime

Signers == INSTANCE SignerAccess WITH MaxTime <- SignersMaxTime

\* None is no value of any part.
ASSUME NoneAssumption ==
  /\ None \notin Int
  /\ None \notin Reads!Grant /\ None \notin Reads!Call
  /\ None \notin Limits!Row /\ None \notin Limits!Call
  /\ None \notin Intake!Row /\ None \notin Intake!Renewal /\ None \notin BOOLEAN

ASSUME ReadsAssumption == GrantTtl \in Nat /\ ReadsMaxTime \in Nat

\* A call is counted in one window at least.  A window is longer than a statement takes:
\* a minute, and seconds.
ASSUME LimitsAssumption ==
  /\ Limit \in [Keys -> Nat]
  /\ \A p \in Paths : p \in Seq(Keys) /\ p # <<>>
  /\ Window \in Nat \ {0} /\ MaxDelay \in Nat /\ 4 * MaxDelay <= Window + 1
  /\ LimitsMaxTime \in Nat

ASSUME IntakeAssumption ==
  /\ Validity \in Nat /\ Tolerance \in Nat /\ FetchLimit \in Nat /\ Skew \in Nat
  /\ IntakeMaxTime \in Nat

\* A quorum of two outvotes one.
ASSUME SquadsAssumption ==
  /\ \A a, b \in Faulty : a = b
  /\ Children \in Nat \ {0} /\ MaxSlot \in Nat \ {0}

\* Plans are finite.
ASSUME SettlementAssumption ==
  /\ IsFiniteSet(Intents \cup Fees) /\ AmountOf \in [Intents \cup Fees -> Nat]
  /\ Drift \in Nat /\ SettlementMaxTime \in Nat

ASSUME FundingAssumption ==
  MaxMerges \in Nat /\ MaxPushes \in Nat /\ MaxRuns \in Nat /\ FundingMaxTime \in Nat

ASSUME SignersAssumption == Life \in Nat /\ SignersMaxTime \in Nat

-----------------------------------------------------------------------------
ReadsIdle == grants = None /\ audit = None /\ calls = None
LimitsIdle == rows = None /\ cleanup = None /\ counts = None /\ admitted = None
IntakeIdle ==
  /\ enabled = None /\ lastHeld = None /\ row = None /\ newest = None /\ renewals = None
SquadsIdle == chain = None /\ obs = None /\ verdict = None
SettlementIdle == transactions = None /\ pending = None /\ settlements = None
FundingIdle ==
  /\ develop = None /\ strict = None /\ pulls = None /\ pushes = None
  /\ run = None /\ runs = None /\ botMerges = None /\ dispatched = None
SignersIdle == trees = None /\ gated = None /\ ask = None /\ uses = None

Init ==
  \/ /\ part = "reads" /\ Reads!Init
     /\ LimitsIdle /\ IntakeIdle /\ SquadsIdle /\ SettlementIdle /\ FundingIdle /\ SignersIdle
  \/ /\ part = "limits" /\ Limits!Init
     /\ ReadsIdle /\ IntakeIdle /\ SquadsIdle /\ SettlementIdle /\ FundingIdle /\ SignersIdle
  \/ /\ part = "intake" /\ Intake!Init
     /\ ReadsIdle /\ LimitsIdle /\ SquadsIdle /\ SettlementIdle /\ FundingIdle /\ SignersIdle
  \/ /\ part = "squads" /\ now = 0 /\ Squads!Init
     /\ ReadsIdle /\ LimitsIdle /\ IntakeIdle /\ SettlementIdle /\ FundingIdle /\ SignersIdle
  \/ /\ part = "settlement" /\ Settling!Init
     /\ ReadsIdle /\ LimitsIdle /\ IntakeIdle /\ SquadsIdle /\ FundingIdle /\ SignersIdle
  \/ /\ part = "funding" /\ Funding!Init
     /\ ReadsIdle /\ LimitsIdle /\ IntakeIdle /\ SquadsIdle /\ SettlementIdle
     /\ SignersIdle
  \/ /\ part = "signers" /\ Signers!Init
     /\ ReadsIdle /\ LimitsIdle /\ IntakeIdle /\ SquadsIdle /\ SettlementIdle /\ FundingIdle

Next ==
  \/ /\ part = "reads" /\ Reads!Next
     /\ UNCHANGED <<part, limitsVars, intakeVars, squadsVars, settlementVars, fundingVars,
                    signersVars>>
  \/ /\ part = "limits" /\ Limits!Next
     /\ UNCHANGED <<part, readsVars, intakeVars, squadsVars, settlementVars, fundingVars,
                    signersVars>>
  \/ /\ part = "intake" /\ Intake!Next
     /\ UNCHANGED <<part, readsVars, limitsVars, squadsVars, settlementVars, fundingVars,
                    signersVars>>
  \/ /\ part = "squads" /\ Squads!Next
     /\ UNCHANGED <<part, now, readsVars, limitsVars, intakeVars, settlementVars, fundingVars,
                    signersVars>>
  \/ /\ part = "settlement" /\ Settling!Next
     /\ UNCHANGED <<part, readsVars, limitsVars, intakeVars, squadsVars, fundingVars,
                    signersVars>>
  \/ /\ part = "funding" /\ Funding!Next
     /\ UNCHANGED <<part, readsVars, limitsVars, intakeVars, squadsVars, settlementVars,
                    signersVars>>
  \/ /\ part = "signers" /\ Signers!Next
     /\ UNCHANGED <<part, readsVars, limitsVars, intakeVars, squadsVars, settlementVars,
                    fundingVars>>

Spec == Init /\ [][Next]_vars

-----------------------------------------------------------------------------
\* Each part's variables keep their types.
TypeOK ==
  /\ part = "reads" => Reads!TypeOK
  /\ part = "limits" => Limits!TypeOK
  /\ part = "intake" => Intake!TypeOK
  /\ part = "squads" => Squads!TypeOK
  /\ part = "settlement" => Settling!TypeOK
  /\ part = "funding" => Funding!TypeOK
  /\ part = "signers" => Signers!TypeOK

\* readTrace: every trace that leaves is audited once, within the life of an audited grant
\* for its operator and its digest, and a grant is good for one (TraceReads).
ReadsAccounted == part = "reads" => Reads!ReadsAccounted

\* consumeExactRateLimit: late, dropped and reordered counts let at most three windows'
\* calls through in one window's length (FixedWindow).
SpanBounded == part = "limits" => Limits!SpanBounded

\* privateIntakeStatus: what the API serves, GitHub had within a day, and since the newest
\* observation that arrived (IntakeStatus).
ServedRecently == part = "intake" => Intake!ServedRecently

\* verifySquadsExecution: a matched observation reports a progress the chain had, of the
\* plan's messages (SquadsObservation).
MatchedIsTrue == part = "squads" => Squads!MatchedIsTrue

\* verifySquadsExecution: the token accounts it reports were so while the proposal was as
\* reported (SquadsObservation).
EvidenceCoherent == part = "squads" => Squads!EvidenceCoherent

\* verify-settlement: a published settlement credits every recipient exactly what the plan
\* owes (Settlement).
PaidInFull == part = "settlement" => Settling!PaidInFull

\* mergeVerifiedFunding: what the run merges is what it verified, and it dispatches the
\* workflow of develop only after such a merge (FundingMerge).
MergedAsVerified == part = "funding" => Funding!MergedAsVerified

\* loadCanonicalPaymentReservation and assertFundedProposalReady: both signers had said
\* they can sign, and no accepted loss is forgotten (SignerAccess).
SignersVouched == part = "signers" => Signers!SignersVouched

\* checkFundingRecordPr: a proposal inside the documented scope is decided by the gate
\* (FundingMerge).
InScopeIsDecided == part = "funding" => Funding!InScopeIsDecided
=============================================================================
