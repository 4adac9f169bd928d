--------------------------- MODULE PaymentProofs ----------------------------
(***************************************************************************)
(* The payment ledger for every number of cycles, instruments, merges and  *)
(* bypasses: types, no plan issued twice, policy before money, and no      *)
(* release after a merge that went around the gate.  Three facts carry the *)
(* induction.  As long as the walk over history finds every ledger         *)
(* appended to, what was released is still in the ledger of the tip.  A    *)
(* bypass leaves a merge without a receipt that no pin can cover.  And a   *)
(* proposal that gated merges once funded is still a file of the tip, so   *)
(* that the policy in force was merged before its cycle was first funded,  *)
(* whatever the walk over the versions of the file finds.                  *)
(***************************************************************************)
EXTENDS PaymentLedger, TLAPS

InLedger(row) == \E i \in DOMAIN tip.ledger : tip.ledger[i] = row

\* Bounds that make the types inductive.
Bounded ==
  /\ Len(segment) <= merges
  /\ load # NoLoad => load.revision <= merges /\ load.row \in Row

AppendOnly ==
  history.appended => Distinct(tip.ledger) /\ \A row \in released : InLedger(row)
ReleasedOnce ==
  \A a, b \in released :
    a.cycle = b.cycle \/ a.allocation.instrument = b.allocation.instrument => a = b
GatedPlans ==
  bypasses = 0 =>
    /\ history.appended
    /\ \A c \in Cycles : tip.plan[c] # None => InLedger(tip.plan[c])
LoadCurrent ==
  load # NoLoad /\ load.revision = merges =>
    bypasses = 0 /\ history.appended /\ load.row \in Row /\ InLedger(load.row)
Unpinned ==
  bypasses > 0 =>
    \E k \in DOMAIN segment : k > pin /\ segment[k].receipt = "missing"
FundedStay ==
  bypasses = 0 => \A c \in Cycles : fundedBy[c] # <<>> => tip.proposal[c] # None
PolicyFirst ==
  bypasses = 0 /\ tip.policy # None /\ fundedBy[tip.policy.cycle] # <<>> =>
    fundedBy[tip.policy.cycle] = <<tip.policy>>

IInv ==
  /\ TypeOK /\ Bounded
  /\ AppendOnly /\ ReleasedOnce /\ GatedPlans /\ LoadCurrent /\ Unpinned
  /\ FundedStay /\ PolicyFirst /\ PolicyBeforeMoney

-----------------------------------------------------------------------------
(* Trees *)

LEMMA FrontIsSeq ==
  ASSUME NEW S, NEW s \in Seq(S), s # <<>>
  PROVE  Front(s) \in Seq(S)
BY DEF Front

LEMMA ChangeIsTree ==
  ASSUME NEW t \in Tree, NEW e \in Edit
  PROVE  Change(t, e) \in Tree
<1>1. e.kind = "policy" => e.to \in OrNone(Policy)
  BY DEF Edit
<1>2. e.kind = "proposal" => e.cycle \in Cycles /\ e.to \in OrNone(Proposal)
  BY DEF Edit
<1>3. e.kind = "allocation" => e.cycle \in Cycles /\ e.to \in OrNone(Allocation)
  BY DEF Edit
<1>4. e.kind = "plan" => e.cycle \in Cycles /\ e.to \in OrNone(Row)
  BY DEF Edit
<1>5. e.kind \in {"reserve", "rewrite"} => e.to \in Row
  BY DEF Edit
<1>6. RowsAfter(t.ledger, e) \in Seq(Row)
  BY <1>5, FrontIsSeq DEF RowsAfter, Tree
<1> QED
  BY <1>1, <1>2, <1>3, <1>4, <1>6 DEF Change, Tree

LEMMA ApplyIsTree ==
  ASSUME NEW t \in Tree, NEW es \in Changes
  PROVE  Apply(t, es) \in Tree
BY ChangeIsTree DEF Apply, Changes

LEMMA UsesAreUses ==
  ASSUME NEW t \in Tree
  PROVE  TreeUses(t) \subseteq Use
BY PaymentAssumption DEF TreeUses, FundedCycles, Tree, Use, OrNone, Row, Allocation

LEMMA PrefixRows ==
  ASSUME NEW s \in Seq(Row), NEW t \in Seq(Row), IsPrefix(s, t)
  PROVE  Len(s) <= Len(t) /\ \A i \in DOMAIN s : i \in DOMAIN t /\ t[i] = s[i]
BY DEF IsPrefix

LEMMA PinnedIsAdmitted ==
  ASSUME NEW es \in Changes, PinAllowed(es)
  PROVE  \/ Pinned(es) = pin
         \/ Pinned(es) \in 1..Len(segment) /\ SegmentAdmitted(Pinned(es))
<1> DEFINE pins == {i \in DOMAIN es : es[i].kind = "pin"}
<1>1. CASE \A i \in DOMAIN es : es[i].kind # "pin"
  BY <1>1 DEF Pinned
<1>2. CASE \E i \in DOMAIN es : es[i].kind = "pin"
  <2> DEFINE k == CHOOSE i \in DOMAIN es : es[i].kind = "pin"
  <2>1. k \in DOMAIN es /\ es[k].kind = "pin"
    BY <1>2
  <2>2. Pinned(es) = es[k].upTo
    BY <1>2 DEF Pinned
  <2> HIDE DEF k
  <2>3. es[k] \in Edit
    BY <2>1 DEF Changes
  <2>4. es[k].upTo \in 1..MaxMerges
    BY <2>1, <2>3 DEF Edit
  <2>5. es[k].upTo <= Len(segment) /\ SegmentAdmitted(es[k].upTo)
    BY <2>1 DEF PinAllowed
  <2> QED
    BY <2>2, <2>4, <2>5, PaymentAssumption
<1> QED
  BY <1>1, <1>2

-----------------------------------------------------------------------------
(* Types *)

LEMMA InitTypes == Init => TypeOK /\ Bounded
BY PaymentAssumption
DEF Init, TypeOK, Bounded, EmptyTree, Tree, OrNone, History, Status, NoLoad, Use

LEMMA MergeTypes ==
  ASSUME TypeOK, Bounded, merges < MaxMerges,
         NEW es \in Changes, NEW receipt \in {"live", "missing"},
         PinAllowed(es), MergeTree(es, receipt)
  PROVE  /\ tip' \in Tree
         /\ history' \in History
         /\ segment' \in Seq(Status) /\ Len(segment') <= MaxMerges
         /\ pin' \in 0..Len(segment')
         /\ merges' \in 0..MaxMerges /\ Len(segment') <= merges'
         /\ fundedBy' \in [Cycles -> {<<>>} \cup {<<p>> : p \in OrNone(Policy)}]
<1> DEFINE head == Apply(tip, es)
<1>0. head \in Tree /\ tip \in Tree
  BY ApplyIsTree DEF TypeOK
<1>1. tip' = head
  BY DEF MergeTree
<1>2. history' \in History
  <2>1. PICK found \in SUBSET Rewritten(tip, head) :
          history' = Extend(history, tip, head, found)
    BY DEF MergeTree
  <2> HIDE DEF head
  <2>2. found \subseteq Cycles /\ FundedCycles(head) \subseteq Cycles
    BY DEF Rewritten, FundedCycles
  <2> QED
    BY <2>1, <2>2, <1>0, UsesAreUses DEF Extend, History, TypeOK
<1>3. segment' \in Seq(Status) /\ Len(segment') = Len(segment) + 1
  <2>1. segment' = Append(segment, [receipt |-> receipt,
                                    replays |-> RecordsAllowed(tip, history, head)])
    BY DEF MergeTree
  <2>2. RecordsAllowed(tip, history, head) \in BOOLEAN
    BY DEF RecordsAllowed
  <2> QED
    BY <2>1, <2>2 DEF TypeOK, Status
<1>4. pin' \in 0..Len(segment')
  BY <1>3, PinnedIsAdmitted DEF MergeTree, TypeOK
<1>5. merges' = merges + 1 /\ merges \in 0..MaxMerges
  BY DEF MergeTree, TypeOK
<1>6. fundedBy' \in [Cycles -> {<<>>} \cup {<<p>> : p \in OrNone(Policy)}]
  <2>1. tip.policy \in OrNone(Policy)
    BY <1>0 DEF Tree
  <2> QED
    BY <2>1 DEF MergeTree, TypeOK
<1> QED
  BY <1>0, <1>1, <1>2, <1>3, <1>4, <1>5, <1>6, PaymentAssumption DEF Bounded

LEMMA StepTypes ==
  ASSUME TypeOK, Bounded, [Next]_vars
  PROVE  TypeOK' /\ Bounded'
<1> USE PaymentAssumption
<1>1. CASE \E es \in Changes : ProtectedMerge(es)
  <2> PICK es \in Changes : ProtectedMerge(es)
    BY <1>1
  <2>1. MergeTree(es, "live") /\ PinAllowed(es) /\ merges < MaxMerges
    BY DEF ProtectedMerge, TypeOK
  <2>2. /\ tip' \in Tree /\ history' \in History
        /\ segment' \in Seq(Status) /\ Len(segment') <= MaxMerges
        /\ pin' \in 0..Len(segment') /\ merges' \in 0..MaxMerges /\ Len(segment') <= merges'
        /\ fundedBy' \in [Cycles -> {<<>>} \cup {<<p>> : p \in OrNone(Policy)}]
    BY <2>1, MergeTypes
  <2>3. merges' = merges + 1 /\ UNCHANGED <<bypasses, load, released>>
    BY DEF ProtectedMerge, MergeTree, loader
  <2> QED
    BY <2>2, <2>3 DEF TypeOK, Bounded, NoLoad
<1>2. CASE \E e \in Edit : BypassMerge(<<e>>)
  <2> PICK e \in Edit : BypassMerge(<<e>>)
    BY <1>2
  <2>1. <<e>> \in Changes
    BY DEF Changes
  <2>2. PinAllowed(<<e>>)
    BY DEF BypassMerge, PinAllowed
  <2>3. bypasses' \in 0..MaxBypasses
    BY DEF BypassMerge, TypeOK
  <2>4. MergeTree(<<e>>, "missing") /\ merges < MaxMerges
    BY DEF BypassMerge, TypeOK
  <2>5. /\ tip' \in Tree /\ history' \in History
        /\ segment' \in Seq(Status) /\ Len(segment') <= MaxMerges
        /\ pin' \in 0..Len(segment') /\ merges' \in 0..MaxMerges /\ Len(segment') <= merges'
        /\ fundedBy' \in [Cycles -> {<<>>} \cup {<<p>> : p \in OrNone(Policy)}]
    BY <2>1, <2>2, <2>4, MergeTypes
  <2>6. merges' = merges + 1 /\ UNCHANGED <<load, released>>
    BY DEF BypassMerge, MergeTree, loader
  <2> QED
    BY <2>3, <2>5, <2>6 DEF TypeOK, Bounded, NoLoad
<1>3. CASE \E k \in DOMAIN segment : ExpireReceipt(k)
  <2> PICK k \in DOMAIN segment : ExpireReceipt(k)
    BY <1>3
  <2> DEFINE s == [segment[k] EXCEPT !.receipt = "expired"]
  <2>0. segment \in Seq(Status) /\ segment[k] \in Status
    BY DEF TypeOK
  <2>a. s \in Status
    BY <2>0 DEF Status
  <2>b. segment' = [segment EXCEPT ![k] = s]
    BY DEF ExpireReceipt
  <2> HIDE DEF s
  <2>1. segment' \in Seq(Status) /\ Len(segment') = Len(segment)
    BY <2>0, <2>a, <2>b
  <2> QED
    BY <2>1 DEF ExpireReceipt, loader, TypeOK, Bounded
<1>4. CASE Deploy
  <2>1. segment' \in Seq(Status) /\ Len(segment') = Len(segment) - pin
    BY <1>4 DEF Deploy, TypeOK
  <2> QED
    BY <1>4, <2>1 DEF Deploy, loader, TypeOK, Bounded
<1>5. CASE \E row \in Row : Load(row)
  BY <1>5 DEF Load, branch, TypeOK, Bounded, OrNone
<1>6. CASE Release
  <2>1. load.row \in Row
    BY <1>6 DEF Release, Bounded
  <2>2. load' \in [revision: 0..MaxMerges, row: OrNone(Row)]
    BY <1>6 DEF Release, NoLoad, OrNone
  <2> QED
    BY <1>6, <2>1, <2>2 DEF Release, branch, TypeOK, Bounded
<1>7. CASE FailLoad
  BY <1>7 DEF FailLoad, branch, TypeOK, Bounded, NoLoad, OrNone
<1>8. CASE UNCHANGED vars
  BY <1>8 DEF vars, TypeOK, Bounded
<1> QED
  BY <1>1, <1>2, <1>3, <1>4, <1>5, <1>6, <1>7, <1>8 DEF Next

-----------------------------------------------------------------------------
(* Histories and ledgers *)

LEMMA InitSafe ==
  Init => /\ AppendOnly /\ ReleasedOnce /\ GatedPlans /\ LoadCurrent /\ Unpinned
          /\ FundedStay /\ PolicyFirst /\ PolicyBeforeMoney
<1> SUFFICES ASSUME Init
             PROVE  /\ AppendOnly /\ ReleasedOnce /\ GatedPlans /\ LoadCurrent /\ Unpinned
                    /\ FundedStay /\ PolicyFirst /\ PolicyBeforeMoney
  OBVIOUS
<1>1. /\ tip.policy = None /\ tip.ledger = <<>> /\ DOMAIN tip.ledger = {}
      /\ \A c \in Cycles : tip.plan[c] = None
  BY DEF Init, EmptyTree
<1>2. Distinct(tip.ledger)
  BY <1>1 DEF Distinct
<1> QED
  BY <1>1, <1>2 DEF Init, AppendOnly, ReleasedOnce, GatedPlans, LoadCurrent, Unpinned,
     FundedStay, PolicyFirst, PolicyBeforeMoney, Binding, InLedger, NoLoad

\* What any merge does to the ledger that history still vouches for.
LEMMA MergeKeepsRows ==
  ASSUME IInv, NEW head \in Tree, NEW found, tip' = head,
         history' = Extend(history, tip, head, found), history'.appended
  PROVE  /\ history.appended /\ Distinct(tip'.ledger)
         /\ \A i \in DOMAIN tip.ledger :
              i \in DOMAIN head.ledger /\ head.ledger[i] = tip.ledger[i]
<1>1. history.appended /\ LedgerExtends(tip, head)
  BY DEF Extend, History, IInv, TypeOK
<1>2. tip.ledger \in Seq(Row) /\ head.ledger \in Seq(Row)
  BY DEF IInv, TypeOK, Tree
<1> QED
  BY <1>1, <1>2, PrefixRows DEF LedgerExtends

LEMMA MergeSafe ==
  ASSUME IInv, NEW es \in Changes, NEW receipt \in {"live", "missing"},
         PinAllowed(es), MergeTree(es, receipt), UNCHANGED loader,
         bypasses' \in Nat, bypasses' = 0 <=> (bypasses = 0 /\ receipt = "live")
  PROVE  AppendOnly' /\ ReleasedOnce' /\ LoadCurrent' /\ Unpinned'
<1> DEFINE head == Apply(tip, es)
<1>0. head \in Tree /\ tip \in Tree
  BY ApplyIsTree DEF IInv, TypeOK
<1>1. tip' = head /\ \E found : history' = Extend(history, tip, head, found)
  BY DEF MergeTree
<1> HIDE DEF head
<1>2. AppendOnly'
  <2> SUFFICES ASSUME history'.appended
               PROVE  Distinct(tip'.ledger) /\ \A row \in released' : InLedger(row)'
    BY DEF AppendOnly
  <2> QED
    BY <1>0, <1>1, MergeKeepsRows DEF IInv, AppendOnly, InLedger, loader
<1>3. ReleasedOnce'
  BY DEF IInv, ReleasedOnce, loader
<1>4. LoadCurrent'
  <2>1. load' = load /\ load.revision \in 0..MaxMerges /\ merges' = merges + 1
    BY DEF loader, MergeTree, IInv, TypeOK
  <2>2. load # NoLoad => load.revision <= merges
    BY DEF IInv, Bounded
  <2> QED
    BY <2>1, <2>2 DEF LoadCurrent, IInv, TypeOK
<1>5. Unpinned'
  <2> SUFFICES ASSUME bypasses' > 0
               PROVE  \E k \in DOMAIN segment' : k > pin' /\ segment'[k].receipt = "missing"
    BY DEF Unpinned
  <2>1. /\ segment \in Seq(Status) /\ pin \in 0..Len(segment)
        /\ bypasses \in 0..MaxBypasses
    BY DEF IInv, TypeOK
  <2>2. PICK replays \in BOOLEAN :
          segment' = Append(segment, [receipt |-> receipt, replays |-> replays])
    BY DEF MergeTree, RecordsAllowed
  <2>3. /\ Len(segment') = Len(segment) + 1 /\ DOMAIN segment' = 1..Len(segment')
        /\ segment'[Len(segment) + 1].receipt = receipt
        /\ \A k \in DOMAIN segment : k \in DOMAIN segment' /\ segment'[k] = segment[k]
    BY <2>1, <2>2 DEF Status
  <2>4. pin' = pin \/ (pin' \in 1..Len(segment) /\ SegmentAdmitted(pin'))
    BY PinnedIsAdmitted DEF MergeTree
  <2>5. CASE receipt = "missing"
    <3>1. Len(segment) + 1 \in DOMAIN segment' /\ Len(segment) + 1 > pin'
      BY <2>1, <2>3, <2>4
    <3> QED
      BY <3>1, <2>3, <2>5
  <2>6. CASE receipt = "live"
    <3>1. bypasses > 0
      BY <2>1, <2>6
    <3>2. PICK k \in DOMAIN segment : k > pin /\ segment[k].receipt = "missing"
      BY <3>1 DEF IInv, Unpinned
    <3>3. k > pin'
      BY <2>1, <2>4, <3>2 DEF SegmentAdmitted, Admitted
    <3> QED
      BY <2>3, <3>2, <3>3
  <2> QED
    BY <2>5, <2>6
<1> QED
  BY <1>2, <1>3, <1>4, <1>5

\* A merge sets no terms for a cycle that was released.
LEMMA ReleasedStay ==
  ASSUME IInv, NEW es \in Changes, NEW receipt, MergeTree(es, receipt)
  PROVE  \A row \in released :
           fundedBy'[row.cycle] \in
             {<<>>, <<[cycle |-> row.cycle, instrument |-> row.allocation.instrument]>>}
<1> SUFFICES ASSUME NEW row \in released
             PROVE  fundedBy'[row.cycle] \in
               {<<>>, <<[cycle |-> row.cycle, instrument |-> row.allocation.instrument]>>}
  OBVIOUS
<1>1. row.cycle \in Cycles
  BY DEF IInv, TypeOK, Row
<1>2. Promised(row.cycle)
  BY DEF Promised
<1>3. fundedBy'[row.cycle] = fundedBy[row.cycle]
  BY <1>1, <1>2 DEF MergeTree
<1> QED
  BY <1>3 DEF IInv, PolicyBeforeMoney, Binding

\* What the gate adds.
LEMMA GatedMergeSafe ==
  ASSUME IInv, NEW es \in Changes, ProtectedMerge(es)
  PROVE  GatedPlans' /\ FundedStay' /\ PolicyFirst' /\ PolicyBeforeMoney'
<1> DEFINE head == Apply(tip, es)
<1>0. head \in Tree /\ tip \in Tree
  BY ApplyIsTree DEF IInv, TypeOK
<1>1. /\ tip' = head /\ \E found : history' = Extend(history, tip, head, found)
      /\ bypasses' = bypasses /\ released' = released
  BY DEF ProtectedMerge, MergeTree, loader
<1>2. RecordsAllowed(tip, history, head)
  BY DEF ProtectedMerge
<1>3. fundedBy' = [c \in Cycles |->
        IF fundedBy[c] = <<>> /\ c \in FundedCycles(head) /\ ~Promised(c)
          THEN <<tip.policy>>
          ELSE fundedBy[c]]
  BY DEF ProtectedMerge, MergeTree
<1> HIDE DEF head
<1>a. \A row \in released :
        fundedBy'[row.cycle] \in
          {<<>>, <<[cycle |-> row.cycle, instrument |-> row.allocation.instrument]>>}
  BY <1>1, <1>3, ReleasedStay DEF ProtectedMerge
<1>b. CASE bypasses # 0
  BY <1>1, <1>a, <1>b DEF GatedPlans, FundedStay, PolicyFirst, PolicyBeforeMoney, Binding
<1>4. SUFFICES ASSUME bypasses = 0
               PROVE  GatedPlans' /\ FundedStay' /\ PolicyFirst' /\ PolicyBeforeMoney'
  BY <1>b
<1>5. history.appended /\ history'.appended
  <2>1. history.appended /\ LedgerExtends(tip, head)
    BY <1>2, <1>4 DEF IInv, GatedPlans, RecordsAllowed
  <2>2. PICK found : history' = Extend(history, tip, head, found)
    BY <1>1
  <2> QED
    BY <2>1, <2>2 DEF Extend
<1>6. \A i \in DOMAIN tip.ledger : i \in DOMAIN head.ledger /\ head.ledger[i] = tip.ledger[i]
  BY <1>0, <1>1, <1>5, MergeKeepsRows
<1>7. /\ tip.ledger \in Seq(Row) /\ head.ledger \in Seq(Row)
      /\ tip.policy \in OrNone(Policy) /\ head.policy \in OrNone(Policy)
      /\ fundedBy \in [Cycles -> {<<>>} \cup {<<p>> : p \in OrNone(Policy)}]
  BY <1>0 DEF IInv, TypeOK, Tree
<1>8. GatedPlans'
  <2>1. ASSUME NEW c \in Cycles, head.plan[c] # None
        PROVE  \E i \in DOMAIN tip'.ledger : tip'.ledger[i] = tip'.plan[c]
    <3>1. \E i \in DOMAIN tip.ledger : tip.ledger[i] = head.plan[c]
      BY <1>2, <1>4, <2>1 DEF RecordsAllowed, PlansAllowed, IInv, GatedPlans, InLedger
    <3> QED
      BY <1>1, <1>6, <3>1
  <2> QED
    BY <1>1, <1>5, <2>1 DEF GatedPlans, InLedger
<1>9. ASSUME tip'.policy # None, fundedBy'[tip'.policy.cycle] # <<>>
      PROVE  fundedBy'[tip'.policy.cycle] = <<tip'.policy>>
  <2> DEFINE c == head.policy.cycle
  <2>0. c \in Cycles /\ head.policy # None
    BY <1>1, <1>7, <1>9 DEF OrNone, Policy
  <2>1. CASE head.policy = tip.policy
    BY <1>1, <1>3, <1>4, <1>9, <2>0, <2>1 DEF IInv, PolicyFirst
  <2>2. CASE head.policy # tip.policy
    <3>1. head.proposal[c] = None
      BY <1>2, <2>0, <2>2 DEF RecordsAllowed, PolicyAllowed
    <3>2. fundedBy[c] = <<>>
      BY <1>2, <1>4, <2>0, <3>1 DEF IInv, FundedStay, RecordsAllowed, ManifestsKept
    <3>3. c \notin FundedCycles(head)
      BY <3>1, PaymentAssumption DEF FundedCycles
    <3> QED
      BY <1>1, <1>3, <1>9, <2>0, <3>2, <3>3
  <2> QED
    BY <2>1, <2>2
<1>10. PolicyFirst'
  BY <1>9 DEF PolicyFirst
<1>11. PolicyBeforeMoney'
  <2> SUFFICES ASSUME NEW i \in DOMAIN head.ledger,
                      fundedBy'[head.ledger[i].cycle] # <<>>
               PROVE  fundedBy'[head.ledger[i].cycle] =
                        <<[cycle |-> head.ledger[i].cycle,
                           instrument |-> head.ledger[i].allocation.instrument]>>
    BY <1>1, <1>a DEF PolicyBeforeMoney, Binding
  <2>a. head.ledger[i] \in Row
    BY <1>7
  <2>0. head.ledger[i].cycle \in Cycles
    BY <2>a DEF Row
  <2>1. CASE i \in DOMAIN tip.ledger
    <3>1. fundedBy'[head.ledger[i].cycle] = fundedBy[head.ledger[i].cycle]
      BY <1>3, <1>6, <2>0, <2>1 DEF Promised
    <3> QED
      BY <1>4, <1>6, <2>1, <3>1 DEF IInv, PolicyBeforeMoney, Binding
  <2>2. CASE i \notin DOMAIN tip.ledger
    <3>1. i > Len(tip.ledger)
      BY <1>7, <2>2
    <3>2. Backed(tip, history, head, head.ledger[i])
      BY <1>2, <3>1 DEF RecordsAllowed, RowsBacked
    <3> QED
      BY <1>1, <1>9, <3>2 DEF Backed
  <2> QED
    BY <2>1, <2>2
<1>12. FundedStay'
  <2> SUFFICES ASSUME NEW c \in Cycles, fundedBy'[c] # <<>>
               PROVE  head.proposal[c] # None
    BY <1>1 DEF FundedStay
  <2>1. CASE fundedBy[c] # <<>>
    BY <1>2, <1>4, <2>1 DEF IInv, FundedStay, RecordsAllowed, ManifestsKept
  <2>2. CASE c \in FundedCycles(head)
    BY <2>2, PaymentAssumption DEF FundedCycles
  <2> QED
    BY <1>3, <2>1, <2>2
<1> QED
  BY <1>8, <1>10, <1>11, <1>12

LEMMA BypassMergeSafe ==
  ASSUME IInv, NEW e \in Edit, BypassMerge(<<e>>)
  PROVE  GatedPlans' /\ FundedStay' /\ PolicyFirst' /\ PolicyBeforeMoney'
<1>1. bypasses' # 0 /\ released' = released
  BY DEF BypassMerge, IInv, TypeOK, loader
<1>2. <<e>> \in Changes
  BY DEF Changes
<1>3. PolicyBeforeMoney'
  BY <1>1, <1>2, ReleasedStay DEF BypassMerge, PolicyBeforeMoney, Binding
<1> QED
  BY <1>1, <1>3 DEF GatedPlans, FundedStay, PolicyFirst

LEMMA StepSafe ==
  ASSUME IInv, [Next]_vars
  PROVE  /\ AppendOnly' /\ ReleasedOnce' /\ GatedPlans' /\ LoadCurrent' /\ Unpinned'
         /\ FundedStay' /\ PolicyFirst' /\ PolicyBeforeMoney'
<1> USE DEF IInv
<1>1. CASE \E es \in Changes : ProtectedMerge(es)
  <2> PICK es \in Changes : ProtectedMerge(es)
    BY <1>1
  <2>1. /\ MergeTree(es, "live") /\ PinAllowed(es) /\ UNCHANGED loader
        /\ bypasses' = bypasses /\ bypasses' \in Nat
    BY DEF ProtectedMerge, TypeOK
  <2>2. AppendOnly' /\ ReleasedOnce' /\ LoadCurrent' /\ Unpinned'
    BY <2>1, MergeSafe
  <2> QED
    BY <2>2, GatedMergeSafe
<1>2. CASE \E e \in Edit : BypassMerge(<<e>>)
  <2> PICK e \in Edit : BypassMerge(<<e>>)
    BY <1>2
  <2>1. /\ MergeTree(<<e>>, "missing") /\ UNCHANGED loader
        /\ bypasses' # 0 /\ bypasses' \in Nat
    BY DEF BypassMerge, TypeOK
  <2>2. <<e>> \in Changes
    BY DEF Changes
  <2>3. PinAllowed(<<e>>)
    BY DEF BypassMerge, PinAllowed
  <2>4. AppendOnly' /\ ReleasedOnce' /\ LoadCurrent' /\ Unpinned'
    BY <2>1, <2>2, <2>3, MergeSafe
  <2> QED
    BY <2>4, BypassMergeSafe
<1>3. CASE \E k \in DOMAIN segment : ExpireReceipt(k)
  <2> PICK k \in DOMAIN segment : ExpireReceipt(k)
    BY <1>3
  <2>1. UNCHANGED <<tip, history, pin, merges, bypasses, fundedBy, load, released>>
    BY DEF ExpireReceipt, loader
  <2>2. DOMAIN segment' = DOMAIN segment
    BY DEF ExpireReceipt
  <2>3. \A j \in DOMAIN segment :
          segment[j].receipt = "missing" => segment'[j].receipt = "missing"
    BY DEF ExpireReceipt
  <2>4. Unpinned'
    BY <2>1, <2>2, <2>3 DEF Unpinned
  <2> QED
    BY <2>1, <2>4 DEF AppendOnly, ReleasedOnce, GatedPlans, LoadCurrent, FundedStay,
       PolicyFirst, PolicyBeforeMoney, Binding, InLedger
<1>4. CASE Deploy
  <2>1. UNCHANGED <<tip, history, merges, bypasses, fundedBy, load, released>>
    BY <1>4 DEF Deploy, loader
  <2>2. /\ segment \in Seq(Status) /\ pin \in 1..Len(segment) /\ pin' = 0
        /\ segment' = SubSeq(segment, pin + 1, Len(segment))
    BY <1>4 DEF Deploy, TypeOK
  <2>3. Unpinned'
    <3> SUFFICES ASSUME bypasses > 0
                 PROVE  \E k \in DOMAIN segment' : k > pin' /\ segment'[k].receipt = "missing"
      BY <2>1 DEF Unpinned
    <3>1. PICK k \in DOMAIN segment : k > pin /\ segment[k].receipt = "missing"
      BY DEF Unpinned
    <3>2. k - pin \in DOMAIN segment' /\ segment'[k - pin] = segment[k] /\ k - pin > pin'
      BY <2>2, <3>1
    <3> QED
      BY <3>1, <3>2
  <2> QED
    BY <2>1, <2>3 DEF AppendOnly, ReleasedOnce, GatedPlans, LoadCurrent, FundedStay,
       PolicyFirst, PolicyBeforeMoney, Binding, InLedger
<1>5. CASE \E row \in Row : Load(row)
  <2> PICK row \in Row : Load(row)
    BY <1>5
  <2>1. UNCHANGED <<tip, history, segment, pin, merges, bypasses, fundedBy, released>>
    BY DEF Load, branch
  <2>2. bypasses = 0
    BY DEF Load, SegmentAdmitted, Admitted, Unpinned, TypeOK
  <2>3. LoadCurrent'
    BY <2>1, <2>2 DEF Load, LoadCurrent, InLedger
  <2> QED
    BY <2>1, <2>3 DEF AppendOnly, ReleasedOnce, GatedPlans, Unpinned, FundedStay,
       PolicyFirst, PolicyBeforeMoney, Binding, InLedger
<1>6. CASE Release
  <2>1. UNCHANGED <<tip, history, segment, pin, merges, bypasses, fundedBy>>
    BY <1>6 DEF Release, branch
  <2>2. /\ released' = released \cup {load.row} /\ load' = NoLoad
        /\ history.appended /\ InLedger(load.row)
    BY <1>6 DEF Release, LoadCurrent
  <2>3. AppendOnly'
    BY <2>1, <2>2 DEF AppendOnly, InLedger
  <2>4. ReleasedOnce'
    BY <2>2 DEF ReleasedOnce, AppendOnly, InLedger, Distinct
  <2>5. bypasses = 0
    BY <1>6 DEF Release, LoadCurrent
  <2>6. Binding' \subseteq Binding
    BY <2>1, <2>2, <2>5 DEF Binding, InLedger
  <2>7. PolicyBeforeMoney'
    BY <2>1, <2>6 DEF PolicyBeforeMoney
  <2> QED
    BY <2>1, <2>2, <2>3, <2>4, <2>7 DEF GatedPlans, LoadCurrent, Unpinned, FundedStay,
       PolicyFirst, InLedger
<1>7. CASE FailLoad \/ UNCHANGED vars
  <2>1. /\ UNCHANGED <<tip, history, segment, pin, merges, bypasses, fundedBy, released>>
        /\ load' \in {load, NoLoad}
    BY <1>7 DEF FailLoad, branch, vars
  <2> QED
    BY <2>1 DEF AppendOnly, ReleasedOnce, GatedPlans, LoadCurrent, Unpinned, FundedStay,
       PolicyFirst, PolicyBeforeMoney, Binding, InLedger
<1> QED
  BY <1>1, <1>2, <1>3, <1>4, <1>5, <1>6, <1>7 DEF Next

-----------------------------------------------------------------------------
(* Theorems *)

LEMMA Inductive == Spec => []IInv
<1>1. Init => IInv
  BY InitTypes, InitSafe DEF IInv
<1>2. IInv /\ [Next]_vars => IInv'
  BY StepTypes, StepSafe DEF IInv
<1> QED
  BY <1>1, <1>2, PTL DEF Spec

\* The variables keep their types, for any cycles, instruments and bounds.
THEOREM TypeCorrect == Spec => []TypeOK
BY Inductive, PTL DEF IInv

LEMMA IssuedFromLedger == IInv => IssuedOnce
<1> SUFFICES ASSUME IInv, NEW a \in Issued, NEW b \in Issued,
                    a.cycle = b.cycle \/ a.allocation.instrument = b.allocation.instrument
             PROVE  a = b
  BY DEF IssuedOnce
<1>1. CASE bypasses # 0
  BY <1>1 DEF Issued, IInv, ReleasedOnce
<1>2. CASE bypasses = 0
  <2>1. InLedger(a) /\ InLedger(b) /\ Distinct(tip.ledger)
    BY <1>2 DEF Issued, Published, IInv, GatedPlans, AppendOnly
  <2> QED
    BY <2>1 DEF InLedger, Distinct
<1> QED
  BY <1>1, <1>2

\* The plans released by a load, or published by gated merges, promise each cycle and
\* each instrument once and with one set of bytes, also across periods without
\* protection (checkPaymentReservationRecords, loadCanonicalPaymentReservation).
THEOREM PlansIssuedOnce == Spec => []IssuedOnce
BY Inductive, IssuedFromLedger, PTL

\* The policy of a released plan, and while every merge is gated that of a reserved
\* cycle, was merged before the first funded proposal of the cycle, whatever versions of
\* the proposal the walk of checkPaymentReservationRecords finds: the kept manifests
\* (inspectUnsafeDestinationTransitions) and the head's own proposal carry the proof.
THEOREM PolicyPrecedesMoney == Spec => []PolicyBeforeMoney
BY Inductive, PTL DEF IInv

\* Plan bytes leave only while no merge ever went around the gate, whatever receipts have
\* expired and whatever checkpoints were merged and deployed since
\* (verifyHistoricalPaymentAdmission).
THEOREM ReleaseAfterAdmission == Spec => ReleasedOnlyAdmitted
<1>1. IInv /\ [Next]_vars => (released' # released => bypasses = 0)
  <2> SUFFICES ASSUME IInv, [Next]_vars, released' # released
               PROVE  bypasses = 0
    OBVIOUS
  <2>1. Release
    BY DEF Next, vars, branch, loader, ProtectedMerge, BypassMerge, ExpireReceipt, Deploy,
       Load, FailLoad
  <2> QED
    BY <2>1 DEF Release, IInv, LoadCurrent
<1> QED
  BY <1>1, Inductive, PTL DEF Spec, ReleasedOnlyAdmitted
=============================================================================
