# TLA+ models of slop.cash

This directory models the parts of this repository where requests, retries,
merges and crashes interleave over shared state, checks them with TLC on small
instances and proves the main results with TLAPS for every value of the
constants. `PROJECT.json` lists the components, runs, source lines of every
definition, hazards and theorems in machine-readable form.

## The system

slop.cash pays contributors of open-source projects from public records in Git.
Its state lives in four places.

- **Cloudflare.** The private trace API (`backend/trace`, served by
  `functions/api/v1`) keeps runs, upload intents, trace metadata, progress
  events, read grants, audit events and wallet claims in a D1 database and trace
  bytes in a private R2 bucket. The identity Worker (`workers/identity`) keeps
  OAuth flows, assertions, rate limits and the private-intake status in another
  D1 database. Requests are independent; the only shared state is the databases,
  and each `await` is a point where another request may run.
- **The canonical Git branch.** Projects, reward cycles, allocations, payment
  reservations, execution plans, signer reports, unsafe-destination holds,
  funding and settlement records are files. Every change is a pull request, and
  a gate script compares the trusted base with the head. Commands that release
  money read the branch over many calls while it moves.
- **Chains.** Squads vaults and Solana transfers are observed by RPC.
- **The contributor's machine.** The live report of a skill keeps a lock
  directory that processes of several skills share.

| Component | State | Operations | Hard behaviour | What makes it correct |
| --- | --- | --- | --- | --- |
| Private trace backend | D1 tables of migrations 0001 and 0005, R2 bucket | create run, create or renew intent, upload, finalize, append event | races between uploads, renewals, events and finalization; two stores; lost answers | a run gets one complete trace once; a capability is spent whole and by one upload; nothing changes after finalization |
| Trace reads | `trace_read_grants`, audit events | grant, read | bytes are read before the grant is consumed; lost answers | every trace that leaves is audited, once, within a grant |
| Wallet registry | `wallet_claims`, audit events | contributor claim, operator migration or recovery, lookups | check and insert are separate statements; lost batch answers | one lineage per account; compare-and-swap on the current claim |
| Identity Worker | `identity_oauth_flows`, `identity_assertions`, browser cookie | start, authorize, callback, poll, consume, hourly cleanup | racing callbacks and polls, abandoned flows, stale clocks, cleanup between two statements | one account per flow, one answered assertion, spent once, everything forgotten |
| Rate limits and admission | `identity_rate_limits` | consume, delete expired | calls are dated before they are counted; abandoned calls go on counting | the calls let through in a window's length are bounded |
| Private intake | `private_intake_status` | renew by cron, renew by script, read | overlapping, slow and failed renewals; clocks of two machines | what is served was true within a day, and since the newest observation |
| Payment reservations | ledger file, policies, proposals, allocations, plans | gate per pull request, plan release | order of merges, deleted and restored records, a tip that moves under a load | no instrument or cycle twice; terms before money |
| Admission and checkpoints | checkpoint chain, workflow receipts | verify history, pin, deploy | receipts expire; merges around the gate | plan bytes leave only after an all-gated history |
| Signer access | reports in Git | gate per pull request, replay, proposal | reports removed around the gate, expiry, a tip that moves | loss is terminal; both signers vouched |
| Reward cycle and carry | cycle files | close, edit, approve, check a tree | late and refused closes, pull requests that wait, edits after the next month | a unit is approved at most once and can be followed back |
| Settlement | transactions on chain, settlement files | send, verify, merge | retried and lost transfers, equal amounts to one wallet | a published settlement paid everyone exactly |
| Squads verification | observations of three RPC authorities | verify | a chain that moves between reads, a wrong authority | a match was true of the chain |
| Funding merge | pull requests, develop, protection | decide, guard, merge, read back, dispatch | people push, merge and ease protection between calls | what is merged is what was verified |
| Live report lock | lock directory, guard directory, leases | acquire, run gh, release, recover | any process killed at any point | the lock names its holder; overlaps need a killed owner |
| Tokens and roles, unsafe holds, project policy, leaderboard, evidence bundles, site, web UI | generated files or none | checks and builds | sequential | see "Not modelled" |

Components interact as follows. A terminal signs in through the identity Worker,
which calls GitHub; the trace API exchanges the assertion over a service binding
for a ten-minute token (`exchangeIdentityAssertion`). With it the terminal
creates a run, asks for an intent, uploads with the capability in the answer and
finalizes; an operator later reads the bytes with a grant. Wallet claims are
appended through the same token, and reward preparation reads the current claim
of each account. From there on everything is a file: proposal, allocation,
reservation, plan, Batch, settlement. A reservation is released only if the
history of the branch is admitted and both signers can act; a settlement and an
execution record come back from the chain. The models meet at these hand-overs:
`SignerAccess` is the part of a load that `PaymentLedger` leaves out,
`Settlement` starts from a plan that `PaymentLedger` releases, `TraceReads` reads
the objects whose immutability `TraceBackend` shows, and `RewardCycle` hands its
approved allocations to `PaymentLedger`.

## Modules

| Module | Models |
| --- | --- |
| `TraceBackend` | runs, intents, uploads, events of the trace API |
| `WriteOnceTrace` | the abstract contract that `TraceBackend` implements |
| `IdentityFlow` | the identity Worker and its cleanup |
| `WalletRegistry` | wallet claims |
| `ClaimRegister` | the abstract register that `WalletRegistry` implements |
| `LiveReportLock` | the process lock of the live report and its gh commands |
| `ReportMutex` | the abstract mutex that `LiveReportLock` implements |
| `PaymentLedger` | reservations, their gate, admission of history, checkpoints, releases |
| `RewardCycle` | monthly cycles, carry, cycles:check |
| `TraceReads` | grants, reads and audit |
| `FixedWindow` | rate limits and the two-level admission |
| `IntakeStatus` | private-intake observation |
| `SquadsObservation` | one verification of a Batch over a moving chain |
| `Settlement` | reconciliation of transfers with a plan |
| `FundingMerge` | the unattended merge of funding records |
| `SignerAccess` | signer reports, their replay and use |
| `Services` | the composition of the seven parts above, one in each behaviour |
| `TraceBackendProofs`, `TraceContractProofs`, `IdentityProofs`, `WalletProofs`, `LiveReportProofs`, `PaymentProofs`, `RewardProofs`, `ServicesProofs` | theorems |
| `MCTraceBackend`, `MCIdentity`, `MCWallet`, `MCLiveReport`, `MCPayment`, `MCRewards`, `MCServices` | instances for TLC |

**Requests as processes.** In the models of Cloudflare a request occupies a slot. Its
`pc` names the statement it is about to execute; each action is one D1
statement, one D1 batch (a transaction), one R2 call or one call of GitHub,
together with the JavaScript up to the next `await`. So every interleaving that
the Workers runtime allows is a behaviour. `Drop` ends a request anywhere: the
Worker is evicted, the connection is lost, or a statement throws with no
handler. A write whose exception the code catches has three outcomes: it took
effect, it did not, or it took effect and the answer was lost, which sends the
code to its catch branch all the same.

**Merges as steps.** In the models of the Git side a merge is one step of the
tip of develop, and the gate is a predicate on its base, the history of the base
and its head. A command that reads the branch is a process: between its reads
anything can be merged. `BypassMerge` is a merge while branch protection is off;
the properties say what must hold in spite of it.

**Clocks.** `deps.now()` is one clock `now` that advances by `Tick`. A request
stores what it read (`at`) and uses it for as long as the code does. Workers'
clocks are taken as synchronized; the clock of the machine that runs
`renew-private-intake.mjs` may differ by `Skew`.

### TraceBackend

| Code | Model |
| --- | --- |
| `createRun` | `CreateBegin`, `CreateSelect`, `CreateInsert`, `CreateReselect`, `CreateRead` |
| `createTraceIntent`, `createUploadIntent` | `IntentBegin` ... `IntentReselect` |
| `uploadTraceCapability` | `UploadBegin`, `UploadIntent`, `UploadBody`, `UploadObject` |
| `putTraceBytes` | `R2Head`, `R2Put`, `R2Verify` |
| `attachTrace` | `AttachSelect`, `AttachRun`, `AttachBatch`, `AttachCatch`, `AttachRead` |
| the five statements of its batch | `IntentAfter`, `ObjectAfter`, `LinkAfter`, `RunAfter`, `CommitValid` (the trigger of migration 0005) |
| `finalizeRun` | `FinalizeBegin`, `FinalizeRead`, `FinalizeUpdate`, `FinalizeReread` |
| `appendEvent` | `EventBegin`, `EventOwner`, `EventSelect`, `EventInsert` |

Data is reduced to what decides a branch: a run's or event's body is one value
(what `sameCreate` and `sameEvent` compare); digests and content types are
values; the capability is the key it is derived from. `R2Head` and `R2Verify`
stand for the head call and the verifying read that follows it: stored objects
do not change, so the two see the same object, and a failing read drops the
request. An event's `occurredAt` bound and other request validation refuse a
request before it touches state and are left out.

### IdentityFlow

| Code | Model |
| --- | --- |
| `startFlow`, `authorizeBrowser` | `StartFlow`, `AuthorizeBrowser` |
| `oauthCallback`, `claimCallback`, `completeCallback` | `CallbackBegin`, `CallbackSelect`, `CallbackClaim`, `CallbackResolve`, `CallbackComplete` |
| `pollFlow`, `createAssertion`, `markAssertionIssued` | `PollBegin`, `PollFind`, `PollInsert`, `PollSelect`, `PollMark` |
| `consumeAssertion` | `ConsumeBegin`, `Consume` |
| `scheduled`, `deleteExpired` | `CleanBegin`, `DeleteFlows`, `DeleteAssertions`, `CleanFail` |

The assertion token is an HMAC of flow, poll capability and actor, so it is
named by the pair (flow, actor), and a later poll of the same flow derives the
same token. `answered` and `accepted` are history: how often an assertion left
in a poll's answer, and how often it was consumed. Deleted flows keep the status
`deleted` because their random ids are never drawn again. Starting and
authorizing are one action each: one write and one read.

### WalletRegistry

| Code | Model |
| --- | --- |
| `createContributorWalletClaim` | `ClaimBegin`, `ClaimCurrent` |
| `createFallbackWalletClaim` | `RecoverBegin` |
| `createWalletClaim` | `SelectDigest`, `SelectPredecessor`, `Batch`, `CatchRaced`, `CatchCompeting` |
| `getCurrentWalletClaim` | `Current` |
| unique indexes, primary and foreign key of migration 0003 | `Insertable` |

The no-update and no-delete triggers have no counterpart: no action updates or
deletes a claim, as no statement of the code does. That tips are unique, which
the `LIMIT 1` of `getCurrentWalletClaim` hides, is part of `OneLineage`. The
current claim and its address are read in one SELECT; an address stands for
address, login and source together.

### LiveReportLock

| Code (`live-report.mjs`) | Model |
| --- | --- |
| `withLiveReportLockTransition` | `Contend`, `EnterAcquire`, `LeaveGuard` |
| `acquireLiveReportLock` | `FindAbsent`, `FindLive`, `FindStale`, `ReadLease`, `RenameAway`, `MoveStale`, `Install` |
| `liveReportHasActiveCommand`, `liveReportCommandIsActive` | `ReadLease`, `LeaseActive`, `LeaseBlocks`, `Age` |
| `spawnLockedGh` | `IssueCommand`, `CommandReturns` |
| `runLockedGhCommand` | `Admit`, `WriteLease`, `Confirm`, `SpawnGh`, `PublishChild`, `PublishFails`, `FinishCommand`, `Cleanup` |
| `release` | `EnterRelease`, `CheckOwn`, `RemoveLock` |
| SIGKILL, exit of gh, a person removing the guard | `KillReport`, `KillHelper`, `ChildEnds`, `RemoveGuard` |

Each action is one file-system call or process event that another process can
see. Random tokens and the pair of a pid and its birth identity are never reused.
Wall-clock time enters only through the age of a lease that names no child, and
the model assumes what the recovery assumes: a helper publishes its child, and a
child no lease names ends, within the grace period
(`LIVE_REPORT_ORPHAN_COMMAND_GRACE_MS`). The same file lies in four skills.

### PaymentLedger

| Code | Model |
| --- | --- |
| `checkPaymentReservationRecords` | `PolicyAllowed`, `AllocationsKept`, `PlansAllowed`, `RowsBacked`, `RecordsAllowed` |
| `assertPaymentReservationTransition`, `assertPaymentReservationLedger` | `LedgerExtends`, `Distinct` |
| `verifyHistoricalPaymentAdmission`, `verifyReceipt` | `SegmentAdmitted`, `Admitted`, `ExpireReceipt` |
| `checkPaymentCheckpointTransition`, `validatePinnedPaymentCheckpoints`, deployment | `PinAllowed`, `Pinned`, `Deploy` |
| `assertPaymentBranchProtection`, or its absence | `ProtectedMerge`, `BypassMerge` |
| `loadCanonicalPaymentReservation` | `Load`, `Release`, `FailLoad`, `Rebuilds` |

A pull request changes one file, or two that belong together (`Coupled`). A row
stands for the bytes of its plan, since the plan is a function of the row. What
can only make a load fail (the planning window, the mode, the origin) is
`FailLoad`, possible at any point.

The gate looks back in two ways. Earlier uses of an instrument are looked for along
first parents and none is missed (`uses`). Earlier money in the proposals of a cycle
is looked for with `git rev-list base -- <path>` (`check-payment-reservations.ts:235`),
whose default simplification follows, at a merge, only a parent that the merge takes
the file from. So when a merge brings another proposal than the base has
(`Rewritten`), the model lets the walk keep, of that cycle, any of the money there was
or none (`found`); when it does not, the walk goes on from the base as before
(`Extend`). `PolicyAllowed` sees no more than this walk (`funded`). What remains is
that `checkPaymentReservations` first refuses to delete a proposal or an allocation
(`ManifestsKept`, from `check-unsafe-destination-transitions.ts:165-169`): a cycle that
was ever proposed has a proposal in every later head, which a new policy may not meet.
So the comment over the walk ("Inspect every prior version, not just the latest
zeroed/superseded file") does not hold of a branch that forked before the funded
proposal and keeps, merging develop back, an unfunded one of its own, and nothing worse
comes of it: `PolicyBeforeMoney` holds.
The digests of two cycles' instruments differ because they bind the cycle, so that the
comparison of digests between an old policy and its successor adds nothing to that of
cycles and is not in the model.

### RewardCycle

| Code | Model |
| --- | --- |
| `prepareMonthlyRewards`, `createRewardCycleProposal` | `PrepareMonthly`, `WithRows`, `MergeProposal`, `CloseProposal` |
| `reviewFinalPriorCycle`, prior-cycle accrual | `PriorReady`, `Carry`, `CarriesOn` |
| edits of a proposal in review, unsafe holds | `EditRow` |
| `finalizeRewardCycle` | `Finalize` |
| cycles:check (`sync-cycle-index.ts`) | `TreeValid`, `CycleValid`, `MatchesBaseline`, `AllocationValid` |

A contributor earns one unit in each funded month in which it scores, and a row
holds the set of months whose units it offers. The code sees only their number,
so the guards of the model compare cardinalities, and the sets show where money
came from. `Punctual` restricts the behaviours to closes that run and merge on
their day.

### The seven parts of Services

| Module | Code and its actions |
| --- | --- |
| `TraceReads` | `createReadGrant`: `StartGrant`, `CommitGrant`; `readTrace`: `StartRead`, `ReadBytes`, `ConsumeGrant`, `Refuse` |
| `FixedWindow` | `consumeVerificationAdmission`: `Begin`, `Count` (one upsert of `consumeExactRateLimit`); cleanup: `StartCleanup`, `Cleanup` |
| `IntakeStatus` | cron and script renewals: `Start`, `Answered`, `Date`, `Write`, `Fail`; the setting at GitHub: `Toggle` |
| `SquadsObservation` | `verifySquadsExecution`: `ReadProposal`, `ReadChildren`, `ReadTokens`, `Unreachable`, `Conclude`; the chain: `ChainSteps`; a wrong authority: `Invented` |
| `Settlement` | wallet and chain: `Send`, `Land`; `verifySettlement`: `VerifySettlement`; the pull request: `Merge`, `ClosePullRequest` |
| `FundingMerge` | `mergeVerifiedFunding`: `Trigger`, `ListPulls`, `Fetch`, `Decide`, `AssertDecision`, `GuardPull`, `GuardAuthority`, `SendMerge`, `Land`, `ReadBack`, `Dispatch`, `EndRun`; people: `Push`, `PersonMerges`, `ChangeProtection`, `QualityPasses` |
| `SignerAccess` | merges: `GatedMerge`, `BypassMerge`; a load: `StartLoad`, `Judge`, `Release`; a funded proposal: `StartProposal`, `Judge2`, `Propose`; `Stop` |

The parts share no state. `Services` brings them in by `INSTANCE`, with constants
and assumptions of each; its first state chooses the part that runs, and the
variables of the others stay `None`, so the state space is the sum and not the
product of the parts. Each property is stated in its module and restated as "if
this part runs". `MCServices` gives the constants values: the model values `a1`,
`a2` and `p1`, `p2`, `p3` serve every part and are interchangeable in each.

Reductions worth knowing. A guard of the funding merge may refuse for reasons
that are not modelled (labels, reviewers, threads): refusal is always possible.
Corrections of records are left out. A crash between the merge
(`merge-verified-funding.ts:280`) and the dispatch (312) leaves production
undispatched; `EndRun` models it and no property forbids it. A funded proposal
does not see a loss that is accepted after it fetched develop, and
`SignersVouched` says so. `FixedWindow` assumes that a statement reaches D1
within `MaxDelay` of the call's date, and `LimitsAssumption` that this is at most a
quarter of a window (windows last a minute or more, a statement seconds). Its
`admitted` is history: which count of which window let a call through, kept for one
window's length. Settlement reads one truthful authority; the operator's `--settled-at` may lie
up to `Drift` ahead of the clock of the chain. The dispatch of the funding merge names
develop and not the commit (`merge-verified-funding.ts:312`): the model records after
which merges it is asked for, and says nothing of what the deployment then finds at the
tip. In `IntakeStatus`, `newest` is history: the latest date a renewal brought to the
row.

## Runs

| Run | Question | Bounds | Result |
| --- | --- | --- | --- |
| `trace_backend` | can races corrupt an attachment, a capability or a sealed run; is a capability answered to one upload; does the backend implement `WriteOnceTrace` | 1 run, 2 intents, 2 digests, 2 content types, 2 requests, clock 0..1 with life 1 | pass, 942 k states |
| `trace_runs` | does a successful answer stay true | 2 users, 2 runs of one of them, 2 run keys, 2 bodies, 1 intent key shared between runs, 2 requests | pass, 338 k states |
| `identity_flow` | one account, one answered assertion, no revival of a consumed row, everything deleted in the end | 1 flow, 2 accounts, 2 requests, lives of 1 tick, clock 0..3, fairness | pass, 181 k states |
| `identity_once` | is an assertion consumed once | 1 flow, 2 accounts, 2 requests | violated |
| `wallet_registry` | one lineage; true answers; compare-and-swap | 2 accounts, 3 claim ids, 2 addresses, 3 requests | pass, 155 k states |
| `live_report` | is the lock exclusive, when do commands overlap and when is the lock wedged; does it implement `ReportMutex` | 2 reports, 2 commands each | pass, 74 k states |
| `live_overlap` | do gh commands of two reports never overlap | 2 reports, 1 command each | violated |
| `payment` | is money promised twice, are terms set after it, do plan bytes leave after a bypass | 2 cycles, 2 instruments, 4 merges, or 3 of them with 1 bypass | pass, 153 k states |
| `rewards` | is a unit approved twice, or its balance changed afterwards | 1 contributor, 3 months of 2 ticks, review of 1, minimum of 2 units, every decision but one | pass, 499 k states |
| `rewards_dropped` | does a reviewed balance reach the next proposal when every close is punctual | as `rewards`, punctual | violated |
| `services` | the properties of the seven parts | below | pass, 1322 k states |
| `funding_inventory` | is a proposal inside the documented scope decided without a person | as `services` | violated |

Bounds of the parts of `services`: reads, 2 operators, 2 traces, 2 grants, 3
calls, clock 0..2; limits, a global window of 2 calls and a bucket of 1, 2 calls
in flight, window 3, delay 1, clock 0..6; intake, 2 renewals, validity,
tolerance, timeout and skew of 1, clock 0..4; squads, 3 authorities of which 1
is faulty, 2 children, 3 finalized states; settlement, 2 intents of one amount to
one wallet and a fee, 3 signatures, a drift of 1; funding, 2 pull requests, 2 records of one
transaction of which 1 is genuine, 2 merges, 2 pushes, 1 run; signers, reports
that live 1 tick, 2 merges, clock 0..2.

Why the bounds suffice for the cases that matter. A race in the Cloudflare code
is between two requests over one row, and each instance has two or three requests
that can be any operation, over the smallest set of rows on which they conflict
(two digests and two types on one run; one flow; one account's lineage beside
another's; one grant presented by several calls). Clocks allow a request to hold
a stamp from before an expiry and act after it. Slots are reused, so the number
of requests over a behaviour is not bounded in the models of the Workers. On the
Git side, four merges suffice for the orders that the gates must refuse (policy,
proposal, allocation, reservation, in any order, two in one merge if they belong
together; a proposal that is funded, dropped, and given terms afterwards), and three,
of which one went around the gate and counts for two of the bound, for a bypass before,
between or after gated merges and a checkpoint over it; three months for a balance that skips one, and two records of
one transaction for a merge whose ground moved. Where proofs exist they cover all
sizes, and the run is a check of the definitions. Bounds named as such:
`MaxTime`, `LastStart`, `MaxCommands`, `MaxMerges`, `MaxBypasses`, `LastMonth`,
`MaxSlot`, `MaxPushes`, `MaxRuns`, `Decisions`. In `rewards` no decision turns a row
into `held-below-minimum`, which is carried on as `unclaimed` is and which new rows
still have; `rewards_dropped` and the proofs take every decision. Symmetry is used for values that only equality
compares, and never in the liveness run. Deadlock is checked where slots accept
requests in every state (the trace, identity and wallet runs); it is off where
bounded work comes to an end: reports that have run, merges and months that are
used up, a verification that has concluded. `FreshMonth` is 0 in the runs, so the
branch for the fresh-cycle policy is proved about and not exercised.

**Fairness** (`FairSpec` of `IdentityFlow`): weak fairness of `Tick` and of
`CleanBegin` (the cron trigger of `workers/identity/wrangler.toml` fires every
hour) and strong fairness of each DELETE, which says that a scheduled run does
not fail at the same statement for ever. Requests have no fairness: a terminal or
browser may stop at any step, which is what the cleanup is for. No other model
states fairness, since the code elsewhere promises nothing that must eventually
happen: reports may be killed, pull requests may wait for ever, runs may fail.

**The violated runs.**

`identity_once` states what the README of the trace backend asks of the identity
Worker (assertions are consumed once). In the counterexample two polls find the
flow complete; the first inserts the assertion, marks the flow and answers; the
assertion is consumed, expires, and the hourly cleanup deletes the row. Then the
second poll's INSERT, whose `ON CONFLICT DO NOTHING` was to find the consumed
row, finds nothing and stores the same token as live, with the life of its own,
older clock reading. The terminal's token is accepted a second time. The second
poll is refused at `markAssertionIssued`, too late. Within the life of the row
the promise holds: `SpentUntilExpiry` is checked on every step.

`live_overlap` states the header of `live-report.mjs`, that the lease serializes
discovery. A report is killed while its helper has not yet written its lease. A
second report finds the owner dead and no lease; the helper writes its lease and
still reads the old owner; the second report then takes the directory over, and
both run gh. `OverlapNeedsKilledOwner` says that nothing less than a killed
report does it.

`rewards_dropped` states the promise of `cycles/README.md` that a small balance
accrues without being discarded. An edit restarts the review of month one, so the
close of month two is refused, and no schedule returns to it. The close of month
three finds no directory for month two, takes that as no balance, and merges.

`funding_inventory` states what
`protocol/funding-record-pr-verification.md` says is decided without a person.
`check-funding-record-pr.ts:310-314` sends every proposal to a person when the
base has any file in `funding/` that is neither a record, a commitment nor the
README, and the repository has several (`maintainer-payouts.md`,
`payment-reservations.json`, `executions/`, `preparations/`, `quality/`). So the
unattended merge merges nothing at this commit; `MergedAsVerified` is checked for
bases with and without such files.

## Proofs

**Trace backend** (`TraceBackendProofs`). The properties are not inductive by
themselves. The invariant is `IInv == TypeOK /\ Tables /\ Fresh /\ \A s : Fits(s)`:
`Tables` relates the rows (whole rows, `AttachmentComplete`,
`CapabilitySpentWhole`), `Fresh` says that the run id of a creation in flight is
held by no other creation, and `Fits(s)`
says for every `pc` what the request has learnt that stays true: a request past
`R2Verify` has its bytes in the bucket, one past `IntentSelect` names the row's
key, one past its commit has its receipt. Each action has a lemma that shows it
preserves the rows' part and the part of its own request, and shared lemmas show
that other requests keep theirs because tables only grow. `AttachBatch` is the
heart: a committed batch passed the trigger, from which the whole attachment
follows. `TraceContractProofs` derives the action properties and, from the same
invariant, that each step is a step of `WriteOnceTrace` or a stutter; that answers stay
true (`AnswersStayTrue`) follows because an answer is given from a row that is there,
and the columns an answer speaks of never change afterwards. That one capability is
answered to one upload (`UploadsAnsweredOnce`) is not about the intent row, which two
uploads of one stamp both find theirs: a batch that commits finds no receipt for the key
(`ClaimReceipted`), and whoever was answered, or will be, has one (`OneClaims`).

**Identity Worker** (`IdentityProofs`). The invariant adds four facts to the
properties. `Unissued`: a flow has no assertion row before its callback
completed. `OneClaim`: no two callbacks work on the same claimed flow, so only
one of them can complete it. `OneName`: assertion rows and polls past the SELECT
of a flow name one account. `Bounds`: the cleanup's clock reading is not ahead of
the clock and no flow outlives `LastStart + FlowTtl`, so that a late poll, whose
stamp lies in its flow's life, inserts a row that ends within `MaxTime`.
`Fits(req[s])` says what a request still knows of its flow: a poll past the SELECT
has a flow that is complete, issued or deleted, a claimed callback one that is
processing or deleted. `OneActor` follows from `OneName`; `SpentUntilExpiry`
needs `Bounds`, since the DELETE compares with the cleanup's older reading.

**Wallet registry** (`WalletProofs`). The invariant is
`IInv == TypeOK /\ OneLineage /\ \A s : Fits(req[s])`. `OneLineage` (one root, one
tip, no fork for each account) is inductive once it is known that a request past
`SelectPredecessor` names a predecessor of its own account, or none, which stays
true because claims never change. Refinement and the truth of answers follow.

**Live report lock** (`LiveReportProofs`). The report inside the transition guard is
alone in changing the lock path (`GuardHeld`), so what it read of the owner stays
true until it acts (`StaleStays`: a dead owner stays dead; `FreeStays`: a free
lock stays free). From these follow `LockNamesHolder` and, step by step, the
refinement to `ReportMutex`. `OverlapNeedsKilledOwner` and
`ForeignLeaseNeedsKilledOwner` need more: a running gh of a report that was not
killed has its lease in the directory of that report (`ChildLeased`), and a scan
in progress still has that lease to read (`ScanSees`).

**Payment ledger** (`PaymentProofs`). As long as the walk over history finds every
ledger appended to, what was released is still in the ledger of the tip
(`AppendOnly`), hence `IssuedOnce`. A merge around the gate leaves an entry
without a receipt that no pin can cover (`Unpinned`), hence `ReleasedOnlyAdmitted`.
While every merge is gated, a cycle that was ever funded keeps a proposal
(`FundedStay`), so no later policy takes it up, and the policy in force was merged
before its cycle was first funded (`PolicyFirst`). A release happens only over such a
history (`LoadCurrent`, which carries what a load has learnt while its revision is the
tip), and no merge after it, gated or not, changes what stood before (`ReleasedStay`).
Hence `PolicyBeforeMoney`.

**Reward cycles** (`RewardProofs`). cycles:check compares amounts, not months. Counts
are enough because the balance a row takes over is nothing or the whole of the
row before it, whatever is decided about that row later (`Proposed`,
`CarryIsBalance`), and two such balances of one weight are the same
(`SameBalance`, from the library's facts on finite sets). So the rows of the tree
are exact (`Derived`), a change of one month leaves what it hands to an existing
next month (`CarriesFreeze`, which is `BalancesFreeze`), and the trail of a unit
survives every step (`TrailKept`), which gives `UnpaidSinceEarned` and, from it,
`ApprovedOnce`. The proof covers any number of contributors and months, the
fresh-cycle branch, and any minimum and review length.

**The seven services** (`ServicesProofs`). Each part has an inductive invariant of its
own, kept by its initial states and its steps (`ReadsInit`, `ReadsStep` and so on)
and strong enough for its properties (`ReadsKeepAccount` and so on). `IInv` says that
the part that runs has its invariant; a step of `Services` moves one part and never
changes which, so `ServicesInvariant` follows, and from it one theorem for each
property of the run `services`.

- *Reads* (`ReadsInv`). A call that creates a grant has an id of its own that no row
  has yet (`GrantsFresh`), every grant is audited with its creation, a consumed grant
  was consumed by a call that is over (`ConsumedByOver`), and the consumptions in the
  audit log are as many as the consumed grants (`OneEventEach`), although answers are
  lost. Served calls then have different grants and one event each.
- *Limits* (`LimitsInv`). An expired row makes way for a window that ends at least
  `Gap == Window - MaxDelay` later, whatever the order in which late calls and the
  cleanup arrive (`AdmissionBefore`, `AdmissionsApart`), and within one window every
  count up to the limit is let through once. The expiries of the calls let through
  within a window's length lie within three gaps because `4 * MaxDelay <= Window + 1`,
  so an injection takes those calls into three windows of `Limit[k]` counts
  (`LimitsBounded`).
- *Intake* (`IntakeInv`). Every answer, dated answer and stored row is `Faithful`: GitHub
  held the value at its date less the fetch limit and the skew. `RenewalTrue` says what
  each phase of a renewal knows, and survives time and changes of the setting. The row
  is dated as the newest observation that ever arrived, since the upsert compares dates.
- *Squads* (`SquadsInv`). What an authority that is not faulty has read was so of some
  finalized state (`AnswerSeen`), the token accounts of each chunk under the proposal
  it reports. As at most one authority is faulty, two that agree include one that is
  not.
- *Settlement* (`SettlementInv`). Evidence that is pending or published still verifies,
  as finalized transactions do not change. Verification looks at transactions one
  by one; that the credits of the parts add up to those of the plan is `TotalOfParts`,
  for which the recursion behind the library's sum is unfolded by well-founded choice
  of a smallest counterexample among the subsets of a finite set (`Smallest`).
- *Funding* (`FundingInv`). `RunKnows` says for each call of a run what the decision and the
  guards have shown and no push, merge or change of protection undoes: the head they
  saw is verified over the base they saw (`VerifiedOver`). Unless protection was eased,
  the merge lands on that base, and adds confirmed records of new transactions only
  (`CleanMerge`); without the read-back of exactly that the run dispatches nothing.
- *Signers* (`SignersInv`). A load judges neighbouring trees only, each against the one
  before. `TreesChain` says as a fact about the accepted history that if every tree up
  to n keeps its predecessor then tree n keeps all before it; so a tip that passed the
  replay and holds no loss never had one. `AskLearnt` carries what a command has judged
  across merges.

The sums and cardinalities of a part are those of its own instances of the library
modules; lemmas such as `LimitsCardinality` and `TotalUnfolds` identify them with those
the library's theorems speak of.

All constants are arbitrary under the assumptions `ConstantsAssumption`,
`RepliesAssumption`, `IdentityAssumption`, `RegistryAssumption`, `LockAssumption`,
`PaymentAssumption`, `RewardAssumption`, `CycleAssumption` and, for the services,
`NoneAssumption`, `ReadsAssumption`, `LimitsAssumption`, `IntakeAssumption`,
`SquadsAssumption` (at most one faulty authority), `SettlementAssumption` (plans are
finite, amounts natural), `FundingAssumption` and `SignersAssumption`. TLC evaluates
them in the runs.

**Model-checked only.** `EverythingForgotten` of the identity Worker, because liveness
under fairness is out of the prover's reach. The four violated properties are refuted
by a run. Every other property of a run, invariant, action property or refinement,
is also a theorem.

## Not modelled

- **API tokens and roles, request parsing, CORS, Pages entry points**: they refuse
  a request before any of the modelled state is read. The roles are the split
  between contributor and operator actions.
- **Public funding and execution observation**: reads of RPC with no state;
  their admission is `FixedWindow`.
- **Unsafe destination holds**: a hold appears as the state of a row in
  `RewardCycle`, and the rule that manifests are not deleted
  (`check-unsafe-destination-transitions.ts`) is a guard of `PaymentLedger`. The
  evidence of a hold and what else one pull request may change of it are a comparison
  of two trees.
- **Project registry and policy transitions** (`check-project-transitions.mjs`):
  a comparison of two manifests, field by field. This gate also forbids deleting a
  project; `PaymentLedger` does not rely on that, and lets a project file be deleted
  and set again.
- **Leaderboard, scores, reviews, run receipts**: pure arithmetic over a collected
  snapshot, and collection, which is input and output.
- **Evidence bundles, web interface, site build, the rest of the skills**: no state
  or concurrency of their own.
- **In the partly modelled components**: partial approvals, review budgets, source
  corrections and fees of a cycle; blocked and partial settlements; the registry
  of executions and the construction of Batches; corrections, commitments and
  per-chain verification of funding.
- Failures of cryptography and collisions of random ids or digests.

Known behaviour that no property covers, because nothing promises otherwise: an
identical intent that loses the INSERT race is answered 409 although it is stored;
runs, events, intents and claims have no durable quota per actor; a poll that
stops after it marked its flow loses the assertion; an approval can be dated back
before its successor was prepared; a transaction signature is compared within one
settlement only; a transaction that pays the fee together with contributors is
never accepted as evidence.

## Plan

Done: the trace backend with its contract, the identity Worker, the wallet
registry, the live report lock, the payment ledger, the reward cycles and the seven
services, with proofs. Worth adding next:

1. The transitions of the Squads execution registry and of unsafe-destination
   holds as gates beside `PaymentLedger`, and a composition of release, execution
   and settlement of one cycle.
2. Partial approvals and source corrections in `RewardCycle`, with conservation of
   money across a correction.
3. Abstract specifications of the reads (an audit log that precedes disclosure) and of
   the funding merge (a branch that only verified heads extend), and refinements.
