--------------------------- MODULE PaymentLedger ----------------------------
(***************************************************************************)
(* The payment reservation ledger on the develop branch: what a pull       *)
(* request may change (scripts/check-payment-reservations.ts), what the    *)
(* history of merges proves (payment-admission.ts, payment-checkpoints.ts) *)
(* and when the exact plan bytes of a reservation are released             *)
(* (load-payment-reservation.ts).  A merge is a step; the gate is a        *)
(* predicate on its base, the history of the base, and its head.           *)
(*                                                                         *)
(* Abstractions.  One project.  A policy is its cycle and its instrument   *)
(* (the digest of the instrument binds the cycle too, so the digests of    *)
(* two cycles always differ).  A proposal is the instrument that funds it, *)
(* or Unfunded; an allocation is its instrument and a version that stands  *)
(* for its other bytes.  A reservation row is its cycle and allocation and *)
(* a stamp, and the plan it fixes is a function of the three, so the row   *)
(* stands for the bytes of its plan too; intent ids are the allocation's.  *)
(* The signer ledger, reports of unsafe destinations, the planning window, *)
(* the payment mode and the canonical origin can only refuse more: a merge *)
(* need not happen, and a load may fail at any point.                      *)
(*                                                                         *)
(* Assumptions.  While protection is strict, every merge is a gated pull   *)
(* request whose base is the tip, and force pushes are refused             *)
(* (assertPaymentBranchProtection).  Protection may be off at any time:    *)
(* then anything can be merged, a pull request gated against an older tip  *)
(* included, but a checkpoint pin, which the operator reviews; no receipt  *)
(* names the base and head of such a merge.  A load asks for strict        *)
(* protection at both ends; the model lets it go on without, and the       *)
(* properties hold all the same.                                           *)
(***************************************************************************)
EXTENDS Naturals, Sequences, SequencesExt

CONSTANTS
  Cycles, Instruments, Versions, Stamps,
  None,
  Unfunded,    \* a proposal of no money
  MaxMerges,   \* bound: merges after the bootstrap, one around the gate counting for two
  MaxBypasses  \* bound: merges while protection is off

ASSUME PaymentAssumption ==
  /\ MaxMerges \in Nat /\ MaxBypasses \in Nat
  /\ None \notin Cycles \cup Instruments \cup Versions \cup Stamps \cup {Unfunded}
  /\ Unfunded \notin Instruments

Policy == [cycle: Cycles, instrument: Instruments]
Allocation == [instrument: Instruments, version: Versions]
Row == [cycle: Cycles, allocation: Allocation, at: Stamps]
Use == [instrument: Instruments, cycle: Cycles, kind: {"proposal", "allocation", "plan"}]
Proposal == Instruments \cup {Unfunded}
OrNone(S) == S \cup {None}

\* The files of a commit.  A deleted project file is a policy of None.
Tree ==
  [policy: OrNone(Policy), proposal: [Cycles -> OrNone(Proposal)],
   allocation: [Cycles -> OrNone(Allocation)], ledger: Seq(Row),
   plan: [Cycles -> OrNone(Row)]]

\* What the walks over history see.  Along first parents: every monetary use of an
\* instrument, and whether the ledger of each commit extended its parent's.  By
\* rev-list of the path of a proposal, which leaves out a parent that a merge does not
\* take the file from: the cycles in whose proposals it finds money.
History == [uses: SUBSET Use, funded: SUBSET Cycles, appended: BOOLEAN]

Edit ==
  [kind: {"policy"}, to: OrNone(Policy)]
    \cup [kind: {"proposal"}, cycle: Cycles, to: OrNone(Proposal)]
    \cup [kind: {"allocation"}, cycle: Cycles, to: OrNone(Allocation)]
    \cup [kind: {"plan"}, cycle: Cycles, to: OrNone(Row)]
    \cup [kind: {"reserve"}, to: Row]
    \cup [kind: {"rewrite"}, to: Row]
    \cup [kind: {"unreserve"}]
    \cup [kind: {"pin"}, upTo: 1..MaxMerges]

Status == [receipt: {"live", "expired", "missing"}, replays: BOOLEAN]

VARIABLES
  tip,       \* the tree of develop
  history,   \* of the tip
  segment,   \* the merges since the last deployed checkpoint, oldest first
  pin,       \* how many of them a merged, undeployed checkpoint covers
  merges, bypasses,
  load,      \* a release in progress
  released,  \* rows whose plan bytes were released
  fundedBy   \* <<policy on the base>> of a cycle's first funded proposal, when it is
             \* older than the reservation and the release

vars == <<tip, history, segment, pin, merges, bypasses, load, released, fundedBy>>
branch == <<tip, history, segment, pin, merges, bypasses, fundedBy>>
loader == <<load, released>>

NoLoad == [revision |-> 0, row |-> None]

EmptyTree ==
  [policy |-> None, proposal |-> [c \in Cycles |-> None],
   allocation |-> [c \in Cycles |-> None], ledger |-> <<>>, plan |-> [c \in Cycles |-> None]]

\* The bootstrap checkpoint: an empty ledger and no policy.
Init ==
  /\ tip = EmptyTree
  /\ history = [uses |-> {}, funded |-> {}, appended |-> TRUE]
  /\ segment = <<>>
  /\ pin = 0
  /\ merges = 0 /\ bypasses = 0
  /\ load = NoLoad
  /\ released = {}
  /\ fundedBy = [c \in Cycles |-> <<>>]

-----------------------------------------------------------------------------
(* Trees and histories *)

RowsAfter(rows, e) ==
  IF e.kind = "reserve" THEN Append(rows, e.to)
  ELSE IF e.kind = "rewrite" /\ rows # <<>> THEN Append(Front(rows), e.to)
  ELSE IF e.kind = "unreserve" /\ rows # <<>> THEN Front(rows)
  ELSE rows

Change(t, e) ==
  [policy |-> IF e.kind = "policy" THEN e.to ELSE t.policy,
   proposal |->
     IF e.kind = "proposal" THEN [t.proposal EXCEPT ![e.cycle] = e.to] ELSE t.proposal,
   allocation |->
     IF e.kind = "allocation" THEN [t.allocation EXCEPT ![e.cycle] = e.to] ELSE t.allocation,
   ledger |-> RowsAfter(t.ledger, e),
   plan |-> IF e.kind = "plan" THEN [t.plan EXCEPT ![e.cycle] = e.to] ELSE t.plan]

\* A pull request changes one file, or two files of one cycle: the checks of a
\* file look at no other cycle of the head.
Rank(e) ==
  CASE e.kind = "policy" -> 1 [] e.kind = "proposal" -> 2 [] e.kind = "allocation" -> 3
    [] e.kind \in {"reserve", "rewrite"} -> 4 [] e.kind = "plan" -> 5 [] OTHER -> 6
CycleOf(e) ==
  CASE e.kind \in {"proposal", "allocation", "plan"} -> e.cycle
    [] e.kind \in {"policy", "reserve", "rewrite"} /\ e.to # None -> e.to.cycle
    [] OTHER -> None
Coupled(e, f) == Rank(e) < Rank(f) /\ CycleOf(e) # None /\ CycleOf(e) = CycleOf(f)
Changes == {<<e>> : e \in Edit} \cup {es \in Edit \X Edit : Coupled(es[1], es[2])}
Apply(t, es) == IF Len(es) = 1 THEN Change(t, es[1]) ELSE Change(Change(t, es[1]), es[2])

FundedCycles(t) == {c \in Cycles : t.proposal[c] \in Instruments}

TreeUses(t) ==
  {[instrument |-> t.proposal[c], cycle |-> c, kind |-> "proposal"] : c \in FundedCycles(t)}
  \cup {[instrument |-> t.allocation[c].instrument, cycle |-> c, kind |-> "allocation"] :
     c \in {d \in Cycles : t.allocation[d] # None}}
  \cup {[instrument |-> t.plan[c].allocation.instrument, cycle |-> c, kind |-> "plan"] :
     c \in {d \in Cycles : t.plan[d] # None}}

\* assertPaymentReservationLedger: plan, allocation, instrument and cycle of a row
\* are those of no other row (the two last imply the two first).
Distinct(rows) ==
  \A i, j \in DOMAIN rows :
    \/ i = j
    \/ /\ rows[i].cycle # rows[j].cycle
       /\ rows[i].allocation.instrument # rows[j].allocation.instrument

\* assertPaymentReservationTransition
LedgerExtends(base, head) ==
  /\ Distinct(head.ledger)
  /\ IsPrefix(base.ledger, head.ledger)
  /\ Len(head.ledger) <= Len(base.ledger) + 1

\* Two parents may give a merge the same proposal: rev-list then follows the first, the
\* base.  If the proposal is not the base's it follows the branch, which may have left
\* the base before any version of the file, or have had versions of its own (found).
Rewritten(base, head) == {c \in Cycles : head.proposal[c] # base.proposal[c]}

Extend(h, base, head, found) ==
  [uses |-> h.uses \cup TreeUses(head),
   funded |-> (h.funded \ Rewritten(base, head)) \cup found \cup FundedCycles(head),
   appended |-> h.appended /\ LedgerExtends(base, head)]

-----------------------------------------------------------------------------
(* checkPaymentReservationRecords *)

\* A policy gives way to one of another cycle only, and a new one finds no earlier
\* money on its instrument, no money that the walk shows in the proposals of its cycle,
\* and no proposal of that cycle in the head.  Deleting the project file is not looked
\* at.
PolicyAllowed(base, h, head) ==
  LET old == base.policy
      new == head.policy
  IN \/ new = None
     \/ new = old
     \/ /\ new # None
        /\ old # None => old.cycle # new.cycle
        /\ \A i \in DOMAIN base.ledger :
             /\ base.ledger[i].cycle # new.cycle
             /\ base.ledger[i].allocation.instrument # new.instrument
        /\ \A u \in h.uses : u.instrument # new.instrument
        /\ new.cycle \notin h.funded
        /\ head.proposal[new.cycle] = None

\* Reserved allocation bytes are permanently immutable.
AllocationsKept(base, head) ==
  \A i \in DOMAIN base.ledger :
    head.allocation[base.ledger[i].cycle] = base.ledger[i].allocation

\* Mutant: a new plan is not looked up in the ledger of the base.
PlansAllowedUnreserved(base, head) ==
  \A c \in Cycles : head.plan[c] = base.plan[c] \/ base.plan[c] = None

\* Issued plans stay as they are; a new one was reserved on the base.
PlansAllowed(base, head) ==
  \A c \in Cycles :
    \/ head.plan[c] = base.plan[c]
    \/ /\ base.plan[c] = None
       /\ \E i \in DOMAIN base.ledger : base.ledger[i].cycle = c /\ base.ledger[i] = head.plan[c]

\* A new row is drafted from the policy and the allocation of the base, neither of
\* which changes with it, on an instrument no other cycle or plan ever used.
Backed(base, h, head, row) ==
  /\ base.policy # None
  /\ base.policy = [cycle |-> row.cycle, instrument |-> row.allocation.instrument]
  /\ head.policy = base.policy
  /\ base.allocation[row.cycle] = row.allocation
  /\ head.allocation[row.cycle] = row.allocation
  /\ \A u \in h.uses :
       u.instrument = row.allocation.instrument => u.cycle = row.cycle /\ u.kind # "plan"
  /\ base.plan[row.cycle] = None
RowsBacked(base, h, head) ==
  \A i \in DOMAIN head.ledger :
    i > Len(base.ledger) => Backed(base, h, head, head.ledger[i])

\* Mutant: only accepted allocations must stay.
ManifestsKeptAllocations(base, head) ==
  \A c \in Cycles : base.allocation[c] # None => head.allocation[c] # None

\* inspectUnsafeDestinationTransitions: a proposal or allocation is changed, never
\* deleted.
ManifestsKept(base, head) ==
  \A c \in Cycles :
    /\ base.proposal[c] # None => head.proposal[c] # None
    /\ base.allocation[c] # None => head.allocation[c] # None

\* checkPaymentReservations
RecordsAllowed(base, h, head) ==
  /\ ManifestsKept(base, head)
  /\ LedgerExtends(base, head)
  /\ PolicyAllowed(base, h, head)
  /\ AllocationsKept(base, head)
  /\ PlansAllowed(base, head)
  /\ RowsBacked(base, h, head)

-----------------------------------------------------------------------------
(* verifyHistoricalPaymentAdmission, and checkpoints *)

\* Mutant: a merge without a receipt is replayed now.
AdmittedByReplay(s) == s.receipt # "expired" /\ s.replays

\* An exact unexpired receipt, and the manifests and records replayed on their own base.
\* (The manifests are replayed from the first commit on, but that part of the history
\* was replayed when it was pinned.)
Admitted(s) == s.receipt = "live" /\ s.replays
SegmentAdmitted(upTo) == \A k \in 1..upTo : Admitted(segment[k])

\* checkPaymentCheckpointTransition: one pin more, of an admitted part of history.
\* preparePaymentCheckpoint asks that the accepted chain be deployed before.
PinAllowed(es) ==
  \A i \in DOMAIN es :
    es[i].kind = "pin" => pin = 0 /\ es[i].upTo <= Len(segment) /\ SegmentAdmitted(es[i].upTo)

Pinned(es) ==
  IF \E i \in DOMAIN es : es[i].kind = "pin"
    THEN es[CHOOSE i \in DOMAIN es : es[i].kind = "pin"].upTo
    ELSE pin

-----------------------------------------------------------------------------
(* Merges *)

\* A reservation or a release of the cycle is known.
Promised(c) ==
  \/ \E i \in DOMAIN tip.ledger : tip.ledger[i].cycle = c
  \/ \E row \in released : row.cycle = c

MergeTree(es, receipt) ==
  LET head == Apply(tip, es) IN
    /\ tip' = head
    /\ \E found \in SUBSET (Rewritten(tip, head) \ FundedCycles(head)) :
         history' = Extend(history, tip, head, found)
    /\ segment' =
         Append(segment, [receipt |-> receipt, replays |-> RecordsAllowed(tip, history, head)])
    /\ pin' = Pinned(es)
    /\ merges' = merges + 1
    /\ fundedBy' =
         [c \in Cycles |->
            IF fundedBy[c] = <<>> /\ c \in FundedCycles(head) /\ ~Promised(c)
              THEN <<tip.policy>>
            ELSE fundedBy[c]]

\* Of two changes both change the tree: otherwise it is the merge of one.
Pertinent(es) == Len(es) = 2 => \A i \in DOMAIN es : Change(tip, es[i]) # tip

\* Strict protection: gated on the tip it is merged to.
ProtectedMerge(es) ==
  /\ merges + bypasses < MaxMerges
  /\ Pertinent(es)
  /\ RecordsAllowed(tip, history, Apply(tip, es))
  /\ PinAllowed(es)
  /\ MergeTree(es, "live")
  /\ UNCHANGED <<bypasses, loader>>

BypassMerge(es) ==
  /\ merges + bypasses + 1 < MaxMerges /\ bypasses < MaxBypasses
  /\ \A i \in DOMAIN es : es[i].kind # "pin"
  /\ MergeTree(es, "missing")
  /\ bypasses' = bypasses + 1
  /\ UNCHANGED loader

\* GitHub drops the oldest artifact.
ExpireReceipt(k) ==
  /\ segment[k].receipt = "live"
  /\ \A j \in 1..(k - 1) : segment[j].receipt # "live"
  /\ segment' = [segment EXCEPT ![k].receipt = "expired"]
  /\ UNCHANGED <<tip, history, pin, merges, bypasses, fundedBy, loader>>

\* Mutant: the pin survives its deployment.
DeployKeepsPin ==
  /\ pin > 0
  /\ segment' = SubSeq(segment, pin + 1, Len(segment))
  /\ UNCHANGED <<tip, history, pin, merges, bypasses, fundedBy, loader>>

\* The verifier that bundles the merged chain is deployed.
Deploy ==
  /\ pin > 0
  /\ segment' = SubSeq(segment, pin + 1, Len(segment))
  /\ pin' = 0
  /\ UNCHANGED <<tip, history, merges, bypasses, fundedBy, loader>>

-----------------------------------------------------------------------------
(* loadCanonicalPaymentReservation *)

\* The current policy and the frozen inputs still give the plan of the row.
Rebuilds(row) ==
  /\ tip.policy # None
  /\ tip.policy = [cycle |-> row.cycle, instrument |-> row.allocation.instrument]
  /\ tip.allocation[row.cycle] = row.allocation
  /\ tip.plan[row.cycle] \in {None, row}

\* verifyPaymentAuthority gives a revision.  All that is read until the second one
\* is the tree and the history of that revision, and the receipts.
Load(row) ==
  /\ load = NoLoad
  /\ SegmentAdmitted(Len(segment))
  /\ history.appended
  /\ \E i \in DOMAIN tip.ledger : tip.ledger[i] = row
  /\ Rebuilds(row)
  /\ load' = [revision |-> merges, row |-> row]
  /\ UNCHANGED <<branch, released>>

\* The second verifyPaymentAuthority must find the same revision.
Release ==
  /\ load # NoLoad
  /\ load.revision = merges
  /\ released' = released \cup {load.row}
  /\ load' = NoLoad
  /\ UNCHANGED branch

FailLoad ==
  /\ load # NoLoad
  /\ load' = NoLoad
  /\ UNCHANGED <<branch, released>>

-----------------------------------------------------------------------------
Next ==
  \/ \E es \in Changes : ProtectedMerge(es)
  \/ \E e \in Edit : BypassMerge(<<e>>)
  \/ \E k \in DOMAIN segment : ExpireReceipt(k)
  \/ Deploy
  \/ \E row \in Row : Load(row)
  \/ Release \/ FailLoad

Spec == Init /\ [][Next]_vars

-----------------------------------------------------------------------------
(* Properties *)

\* The types of the variables.
TypeOK ==
  /\ tip \in Tree
  /\ history \in History
  /\ segment \in Seq(Status) /\ Len(segment) <= MaxMerges
  /\ pin \in 0..Len(segment)
  /\ merges \in 0..MaxMerges /\ bypasses \in 0..MaxBypasses
  /\ load \in [revision: 0..MaxMerges, row: OrNone(Row)]
  /\ released \subseteq Row
  /\ fundedBy \in [Cycles -> {<<>>} \cup {<<p>> : p \in OrNone(Policy)}]

\* The plans that were ever released, and those published by gated merges, pay each
\* cycle once and each instrument once, with the same bytes every time: neither
\* reservations in other cycles, successor policies, nor periods without protection
\* let an instrument's money be promised twice.
Published == {tip.plan[c] : c \in Cycles} \ {None}
Issued == released \cup (IF bypasses = 0 THEN Published ELSE {})
IssuedOnce ==
  \A a, b \in Issued :
    a.cycle = b.cycle \/ a.allocation.instrument = b.allocation.instrument => a = b

\* A plan is released, and by gated merges alone a cycle is reserved, only under the
\* policy that had been merged before the first funded proposal of that cycle, although
\* the walk over its proposals misses versions, project files are deleted and set again,
\* and protection is off at times: terms are never set after the money was proposed.
Binding ==
  released \cup (IF bypasses = 0 THEN {tip.ledger[i] : i \in DOMAIN tip.ledger} ELSE {})
PolicyBeforeMoney ==
  \A row \in Binding :
    fundedBy[row.cycle] \in
      {<<>>, <<[cycle |-> row.cycle, instrument |-> row.allocation.instrument]>>}

\* Plan bytes are released only while every merge since the bootstrap was gated against
\* its own base, also the merges whose receipts have expired behind a checkpoint: no
\* checkpoint blesses, and no later protection hides, a merge that went around the gate.
ReleasedOnlyAdmitted == [][released' # released => bypasses = 0]_vars
=============================================================================
