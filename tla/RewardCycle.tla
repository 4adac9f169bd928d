---------------------------- MODULE RewardCycle ----------------------------
(***************************************************************************)
(* The monthly reward cycles of one platform-funded project on the develop *)
(* branch: the scheduled or dispatched close of a month                    *)
(* (scripts/prepare-monthly-rewards.ts, prepare-reward-cycle.ts), the      *)
(* creator's edits during the public review, the approval                  *)
(* (finalize-reward-cycle.ts), the balance a month hands to the next       *)
(* (prior-cycle-accrual.ts) and cycles:check (sync-cycle-index.ts), which  *)
(* re-derives every proposal from its frozen snapshot and its predecessor  *)
(* before a pull request merges.                                           *)
(*                                                                         *)
(* Abstractions.  Time is counted in ticks of a fraction of a month.  A    *)
(* scored contributor of a funded month earns one unit; a row holds the    *)
(* set of months whose units it offers, and the code sees their number     *)
(* only.  Having a wallet shows in the state of the row.  A row is         *)
(* approved whole: what a creator adds to or takes from it is left out,    *)
(* and so are the review budget, fees, evidence and logins.                *)
(*                                                                         *)
(* Assumption.  A merge is gated on the merged tree: branch protection is  *)
(* strict (assertPaymentBranchProtection).                                 *)
(***************************************************************************)
EXTENDS Naturals, FiniteSets

CONSTANTS
  Actors,
  Decisions,      \* bound: what a reviewed decision makes of a row
  LastMonth,      \* bound: the months that can close
  TicksPerMonth,
  ReviewTicks,    \* REVIEW_WINDOW_DAYS, shorter than a month
  Minimum,        \* MINIMUM_TRANSFER_MINOR, in units
  FreshMonth,     \* the cycle of freshCyclePaymentPolicy, 0 when there is none
  Punctual,       \* whether every close runs on its day and merges at once; when FALSE,
                  \* a run may fail, be dispatched late, and its pull request wait
  MaxTime,        \* bound on the clock
  None

ASSUME RewardAssumption ==
  /\ LastMonth \in Nat /\ MaxTime \in Nat /\ Minimum \in Nat /\ FreshMonth \in Nat
  /\ TicksPerMonth \in Nat /\ ReviewTicks \in Nat /\ Punctual \in BOOLEAN
  /\ None \notin Nat

Months == 1..LastMonth
Time == 0..MaxTime
MonthEnd(m) == m * TicksPerMonth

\* "unsafe-hold" is the state held with its unsafe-destination hold record; "held" stands
\* for an ordinary hold and for an exclusion, which the code treats alike.
RowState == {"proposed", "approved", "held", "unsafe-hold",
             "held-below-minimum", "unclaimed"}
Row == [shares: SUBSET Months, state: RowState]
Amount(row) == Cardinality(row.shares)

\* A cycle directory: the frozen snapshot (leaders), the frozen funding basis, the
\* proposal and, once approvedAt is set, the allocation, which is the proposal's rows.
Cycle ==
  [generatedAt: Time, changedAt: Time, approvedAt: Time \cup {None},
   funded: BOOLEAN, leaders: SUBSET Actors,
   rows: UNION {[S -> Row] : S \in SUBSET Actors}]

ASSUME CycleAssumption == None \notin Cycle /\ Decisions \subseteq RowState

VARIABLES
  now,
  cycles,   \* the cycle directories on develop
  pending   \* the open pull requests of monthly closes

vars == <<now, cycles, pending>>

Init ==
  /\ now = 0
  /\ cycles = [m \in Months |-> None]
  /\ pending = [m \in Months |-> None]

-----------------------------------------------------------------------------
\* The balance a month hands on.

EndsAt(c) == c.changedAt + ReviewTicks
Unresolved(c) == \E a \in DOMAIN c.rows : c.rows[a].state = "proposed"
HasCarry(m, c) == \E a \in DOMAIN c.rows : c.rows[a].shares \ {m} # {}

\* As if ordinary holds and approvals stayed balances.
CarriesOnUnlessProposed(row) == row.state # "proposed"

CarriesOn(row) == row.state \in {"held-below-minimum", "unclaimed", "unsafe-hold"}

Prior(cs, m) == IF m = 1 THEN None ELSE cs[m - 1]

\* A prior month that is absent hands on nothing; one that exists is read as of the
\* proposal's generation and refuses to be read while its review is unfinished.
PriorReady(cs, m, asOf) ==
  Prior(cs, m) # None =>
    LET c == Prior(cs, m)
    IN  /\ c.changedAt <= asOf
        /\ c.approvedAt # None => c.approvedAt <= asOf
        /\ \/ c.approvedAt # None
           \/ ~c.funded /\ ~HasCarry(m - 1, c)
           \/ asOf >= EndsAt(c) /\ ~Unresolved(c)

Carry(cs, m, a) ==
  IF Prior(cs, m) = None THEN {}
  ELSE LET c == Prior(cs, m)
       IN  IF a \in DOMAIN c.rows /\ CarriesOn(c.rows[a])
             THEN c.rows[a].shares ELSE {}

-----------------------------------------------------------------------------
\* createRewardCycleProposal: the rows of the leaders and of the carried-only actors.

NewShares(m, c, a) == IF c.funded /\ a \in c.leaders THEN {m} ELSE {}
RowActors(c, carry) == c.leaders \cup {a \in Actors : carry[a] # {}}

FirstState(shares, hasWallet) ==
  IF ~hasWallet THEN "unclaimed"
  ELSE IF Cardinality(shares) < Minimum THEN "held-below-minimum" ELSE "proposed"

WithRows(m, c, carry, wallets) ==
  [c EXCEPT !.rows = [a \in RowActors(c, carry) |->
     LET shares == NewShares(m, c, a) \cup carry[a]
     IN  [shares |-> shares, state |-> FirstState(shares, a \in wallets)]]]

-----------------------------------------------------------------------------
\* cycles:check on a tree.

RowValid(row) ==
  /\ row.state = "held-below-minimum" => Amount(row) < Minimum
  /\ row.state = "approved" => Amount(row) >= Minimum /\ Amount(row) > 0

\* As if only the actors were compared.
MatchesBaselineActors(cs, m) ==
  /\ PriorReady(cs, m, cs[m].generatedAt)
  /\ cs[m].leaders \subseteq DOMAIN cs[m].rows

\* As if carried-only rows were taken from the file.
MatchesBaselineLeaders(cs, m) ==
  LET c == cs[m]
      carry == [a \in Actors |-> Carry(cs, m, a)]
  IN  /\ PriorReady(cs, m, c.generatedAt)
      /\ c.leaders \subseteq DOMAIN c.rows
      /\ \A a \in c.leaders :
           Amount(c.rows[a]) = Cardinality(NewShares(m, c, a) \cup carry[a])

\* verifyProposalAgainstSnapshot: the rows are those the frozen snapshot and the
\* prior month, as it stands now, give again.
MatchesBaseline(cs, m) ==
  LET c == cs[m]
      carry == [a \in Actors |-> Carry(cs, m, a)]
  IN  /\ PriorReady(cs, m, c.generatedAt)
      /\ m = FreshMonth => \A a \in Actors : carry[a] = {}
      /\ DOMAIN c.rows = RowActors(c, carry)
      /\ \A a \in DOMAIN c.rows :
           Amount(c.rows[a]) = Cardinality(NewShares(m, c, a) \cup carry[a])

AllocationValid(c) ==
  c.approvedAt # None =>
    c.approvedAt >= EndsAt(c) /\ ~Unresolved(c) /\ DOMAIN c.rows # {}

CycleValid(cs, m) ==
  /\ cs[m].generatedAt >= MonthEnd(m)
  /\ cs[m].changedAt >= cs[m].generatedAt
  /\ \A a \in DOMAIN cs[m].rows : RowValid(cs[m].rows[a])
  /\ MatchesBaseline(cs, m)
  /\ AllocationValid(cs[m])

TreeValid(cs) == \A m \in Months : cs[m] # None => CycleValid(cs, m)

Merge(cs) == TreeValid(cs) /\ cycles' = cs

-----------------------------------------------------------------------------
Tick ==
  /\ now < MaxTime
  /\ Punctual =>
       /\ \A m \in Months : pending[m] = None
       /\ \A m \in Months :
            now = MonthEnd(m) => cycles[m] # None \/ ~PriorReady(cycles, m, now)
  /\ now' = now + 1
  /\ UNCHANGED <<cycles, pending>>

\* prepareMonthlyRewards for the month that just ended, or for one that an operator
\* dispatches.  A month that has its files is left alone; a prior month that is not
\* ready refuses the close, and nobody comes back to it on a schedule.
PrepareMonthly(m) ==
  /\ pending[m] = None
  /\ now = MonthEnd(m) \/ (~Punctual /\ now > MonthEnd(m))
  /\ cycles[m] = None
  /\ m # FreshMonth => PriorReady(cycles, m, now)
  /\ \E leaders \in SUBSET Actors, wallets \in SUBSET Actors, funded \in BOOLEAN :
       LET carry == [a \in Actors |-> IF m = FreshMonth THEN {} ELSE Carry(cycles, m, a)]
           c == [generatedAt |-> now, changedAt |-> now, approvedAt |-> None,
                 funded |-> funded, leaders |-> leaders, rows |-> <<>>]
           proposal == WithRows(m, c, carry, wallets)
       IN  /\ wallets \subseteq RowActors(c, carry)
           /\ TreeValid([cycles EXCEPT ![m] = proposal])
           /\ pending' = [pending EXCEPT ![m] = proposal]
  /\ UNCHANGED <<now, cycles>>

\* The pull request merges later, when the tree still passes with it, or is closed.
MergeProposal(m) ==
  /\ pending[m] # None
  /\ cycles[m] = None
  /\ Merge([cycles EXCEPT ![m] = pending[m]])
  /\ pending' = [pending EXCEPT ![m] = None]
  /\ UNCHANGED now

CloseProposal(m) ==
  /\ pending[m] # None
  /\ pending' = [pending EXCEPT ![m] = None]
  /\ UNCHANGED <<now, cycles>>

\* As if the end of the review were written where its start belongs.
EditRowMovesEnd(m, a, state) ==
  /\ cycles[m] # None /\ cycles[m].approvedAt = None
  /\ a \in DOMAIN cycles[m].rows
  /\ Merge([cycles EXCEPT ![m].rows[a].state = state, ![m].changedAt = now + ReviewTicks])
  /\ UNCHANGED <<now, pending>>

\* A reviewed decision on one row.  An amount that changes moves the review clock and
\* a decision that leaves the amount alone does not; nothing checks which it was.
EditRow(m, a, state) ==
  /\ cycles[m] # None
  /\ cycles[m].approvedAt = None
  /\ a \in DOMAIN cycles[m].rows
  /\ cycles[m].rows[a].state \notin {state, "unsafe-hold"}
  /\ \E at \in {cycles[m].changedAt, now} :
       /\ state = "unsafe-hold" =>
            /\ cycles[m].rows[a].state # "unclaimed"
            /\ now <= EndsAt(cycles[m]) /\ at = cycles[m].changedAt
       /\ Merge([cycles EXCEPT ![m].rows[a].state = state, ![m].changedAt = at])
  /\ UNCHANGED <<now, pending>>

\* finalizeRewardCycle: the time of approval is an argument, never in the future.
Finalize(m) ==
  /\ cycles[m] # None
  /\ cycles[m].approvedAt = None
  /\ CycleValid(cycles, m)
  /\ DOMAIN cycles[m].rows # {}
  /\ ~Unresolved(cycles[m])
  /\ \E at \in EndsAt(cycles[m])..now : Merge([cycles EXCEPT ![m].approvedAt = at])
  /\ UNCHANGED <<now, pending>>

Next ==
  \/ Tick
  \/ \E m \in Months : PrepareMonthly(m) \/ MergeProposal(m) \/ CloseProposal(m)
  \/ \E m \in Months : Finalize(m)
  \/ \E m \in Months, a \in Actors, s \in Decisions : EditRow(m, a, s)

Spec == Init /\ [][Next]_vars

-----------------------------------------------------------------------------
TypeOK ==
  /\ now \in Time
  /\ cycles \in [Months -> Cycle \cup {None}]
  /\ pending \in [Months -> Cycle \cup {None}]

\* The money a row offers was earned in its month and has been unpaid since: every
\* month between holds it in a row of the same actor that was neither approved nor
\* given up, however the reviews, approvals and late closes were interleaved.
UnpaidSinceEarned ==
  \A d \in Months, a \in Actors :
    cycles[d] # None /\ a \in DOMAIN cycles[d].rows =>
      \A c \in cycles[d].rows[a].shares :
        /\ c <= d /\ cycles[c] # None /\ cycles[c].funded /\ a \in cycles[c].leaders
        /\ \A m \in c..(d - 1) :
             /\ cycles[m] # None /\ a \in DOMAIN cycles[m].rows
             /\ c \in cycles[m].rows[a].shares
             /\ cycles[m].rows[a].state \notin {"approved", "held", "proposed"}

\* What an actor earned in a month is approved in one cycle at most.
ApprovedOnce ==
  \A c, d \in Months, a \in Actors :
    c # d /\ cycles[c] # None /\ cycles[d] # None
      /\ a \in DOMAIN cycles[c].rows \cap DOMAIN cycles[d].rows
      /\ cycles[c].rows[a].state = "approved" /\ cycles[d].rows[a].state = "approved" =>
        cycles[c].rows[a].shares \cap cycles[d].rows[a].shares = {}

\* Once the next month has its proposal, no edit, approval or late close changes what
\* a month hands on.
BalancesFreeze ==
  [][\A m \in Months \ {1}, a \in Actors :
       cycles[m] # None => Carry(cycles', m, a) = Carry(cycles, m, a)]_vars

\* cycles/README.md:71-74, "retain their exact integer micro-USDC amount, and accrue
\* without being discarded": a reviewed balance is in the next month's proposal
\* by the time any later month has one.
BalanceNotDropped ==
  \A c, d \in Months, a \in Actors :
    c + 1 < d /\ cycles[c] # None /\ cycles[d] # None
      /\ PriorReady(cycles, c + 1, cycles[d].generatedAt)
      /\ Carry(cycles, c + 1, a) # {} =>
        cycles[c + 1] # None
=============================================================================
