----------------------------- MODULE SignerAccess -----------------------------
(***************************************************************************)
(* The signed reports of the two signers of a vault that each can sign or  *)
(* has lost its key (funding/<project>/signer-access), the gate that keeps *)
(* them append-only, and the two places that ask whether both signers can  *)
(* act: the load of a reserved plan (loadCanonicalPaymentReservation over  *)
(* readPaymentSignerHistory) and the funded proposal                       *)
(* (assertFundedProposalReady over readCurrentSignerAccessLedger).  Both   *)
(* run beside merges, and merges around the gate can hold anything.        *)
(*                                                                         *)
(* Abstractions.  One project, cycle and instrument.  A report is its role,*)
(* what it claims and its two dates; reports are authentic.  A tree is the *)
(* set of its reports, and only commits that change them are counted.  The *)
(* first release or proposal is followed.  The rest of a load is           *)
(* PaymentLedger.                                                          *)
(***************************************************************************)
EXTENDS Integers, Sequences

CONSTANTS
  Life,       \* 24 hours
  MaxMerges, MaxTime,  \* bounds
  None

Roles == {"funder", "steward"}
Lost == [role: Roles, capability: {"lost-access"}, reportedAt: 0..MaxTime, expiresAt: {None}]
CanSign ==
  {r \in [role: Roles, capability: {"can-sign"}, reportedAt: 0..MaxTime,
          expiresAt: 1..(MaxTime + Life)] :
     r.reportedAt < r.expiresAt /\ r.expiresAt <= r.reportedAt + Life}
Reports == Lost \cup CanSign

VARIABLES
  now,
  trees,   \* the reports of each accepted commit of develop, oldest first
  gated,   \* every merge passed the gate
  ask,     \* the command that asks
  uses     \* what was released or proposed: the tip it was judged by, when, and the tip then

vars == <<now, trees, gated, ask, uses>>

Asking(pc, revision, at) == [pc |-> pc, revision |-> revision, at |-> at]
NoAsk == Asking("idle", None, None)
Tip == Len(trees)

Init ==
  /\ now = 0
  /\ trees \in {<<t>> : t \in SUBSET {r \in CanSign : r.reportedAt = 0}}
  /\ gated = TRUE
  /\ ask = NoAsk
  /\ uses = {}

-----------------------------------------------------------------------------
(* readSignerAccessLedger and signerCapabilityState *)

\* No accepted report is dropped, and none is dated after now.
LedgerValid(base, head, at) ==
  /\ base \subseteq head
  /\ \A r \in head : r.reportedAt <= at

\* Loss is terminal: a later report of ability does not undo it.
BothCurrent(t, at) ==
  /\ \A r \in t : r.capability # "lost-access"
  /\ \A role \in Roles : \E r \in t :
       r.role = role /\ r.capability = "can-sign" /\ r.expiresAt > at

\* As if only the tree of the revision were read.
ReplayTip(revision, at) == LedgerValid(trees[revision], trees[revision], at)

\* readPaymentSignerHistory: every accepted tree, each against the one before it.
Replay(revision, at) ==
  \A i \in 1..revision :
    LedgerValid(trees[IF i = 1 THEN 1 ELSE i - 1], trees[i], at)

-----------------------------------------------------------------------------
Tick == now < MaxTime /\ now' = now + 1 /\ UNCHANGED <<trees, gated, ask, uses>>

\* A pull request with a new report passes the checks of develop: those of the payment
\* gate replay the whole history.
GatedMerge ==
  /\ Tip <= MaxMerges
  /\ \E r \in Reports \ trees[Tip] :
       /\ Replay(Tip, now)
       /\ LedgerValid(trees[Tip], trees[Tip] \cup {r}, now)
       /\ trees' = Append(trees, trees[Tip] \cup {r})
  /\ UNCHANGED <<now, gated, ask, uses>>

\* external: a merge around the gate adds, drops or rewrites a report.
BypassMerge ==
  /\ Tip <= MaxMerges
  /\ \E gone \in {{}} \cup {{r} : r \in trees[Tip]},
        new \in {{}} \cup {{r} : r \in Reports} :
       /\ (trees[Tip] \ gone) \cup new # trees[Tip]
       /\ trees' = Append(trees, (trees[Tip] \ gone) \cup new)
  /\ gated' = FALSE
  /\ UNCHANGED <<now, ask, uses>>

\* verifyPaymentAuthority, at the start of a load.
StartLoad ==
  /\ ask.pc = "idle" /\ uses = {}
  /\ ask' = Asking("load", Tip, None)
  /\ UNCHANGED <<now, trees, gated, uses>>

\* The clock is read once, and the history and the ability are judged by it.
Judge ==
  /\ ask.pc = "load"
  /\ ask' = IF Replay(ask.revision, now) /\ BothCurrent(trees[ask.revision], now)
              THEN Asking("judged", ask.revision, now)
              ELSE NoAsk
  /\ UNCHANGED <<now, trees, gated, uses>>

Use(kind) ==
  uses' = uses \cup {[kind |-> kind, revision |-> ask.revision, at |-> ask.at, tip |-> Tip]}

\* verifyPaymentAuthority again: develop must not have moved.
Release ==
  /\ ask.pc = "judged"
  /\ ask.revision = Tip
  /\ Use("plan")
  /\ ask' = NoAsk
  /\ UNCHANGED <<now, trees, gated>>

\* readCurrentSignerAccessLedger fetches develop, and reads it against itself.
StartProposal ==
  /\ ask.pc = "idle" /\ uses = {}
  /\ LedgerValid(trees[Tip], trees[Tip], now)
  /\ ask' = Asking("proposal", Tip, None)
  /\ UNCHANGED <<now, trees, gated, uses>>

\* The ability is judged by a second reading of the clock; the proposal follows.
Judge2 ==
  /\ ask.pc = "proposal"
  /\ ask' = IF BothCurrent(trees[ask.revision], now)
              THEN Asking("ready", ask.revision, now)
              ELSE NoAsk
  /\ UNCHANGED <<now, trees, gated, uses>>

Propose ==
  /\ ask.pc = "ready"
  /\ Use("proposal")
  /\ ask' = NoAsk
  /\ UNCHANGED <<now, trees, gated>>

\* The command fails, is refused, or is stopped.
Stop ==
  /\ ask.pc # "idle"
  /\ ask' = NoAsk
  /\ UNCHANGED <<now, trees, gated, uses>>

Next ==
  \/ Tick \/ GatedMerge \/ BypassMerge
  \/ StartLoad \/ Judge \/ Release
  \/ StartProposal \/ Judge2 \/ Propose \/ Stop

Spec == Init /\ [][Next]_vars

-----------------------------------------------------------------------------
TypeOK ==
  /\ now \in 0..MaxTime /\ gated \in BOOLEAN
  /\ \A i \in 1..Tip : trees[i] \subseteq Reports
  /\ ask.revision \in {None} \cup 1..Tip /\ ask.at \in {None} \cup 0..now
  /\ \A u \in uses : u.revision \in 1..u.tip /\ u.tip <= Tip /\ u.at \in 0..now

NeverLost(n) == \A i \in 1..n : \A r \in trees[i] : r.capability # "lost-access"

\* "Loss by either signer is terminal" (protocol/signer-access-attestations.md): whatever
\* is merged while a load runs, around the gate or through it, plan bytes leave only if no
\* tree that develop had by then holds a loss, and both signers had said, of a time not
\* past and not in the future, that they can sign.  A funded proposal is judged by the
\* tree it fetched: without a merge around the gate that one and those before it hold no
\* loss; a loss that is accepted after the fetch is not seen.
SignersVouched ==
  \A u \in uses :
    /\ u.kind = "plan" => NeverLost(u.tip)
    /\ u.kind = "proposal" /\ gated => NeverLost(u.revision)
    /\ \A role \in Roles : \E r \in trees[u.revision] :
         /\ r.role = role /\ r.capability = "can-sign"
         /\ r.reportedAt <= u.at /\ u.at < r.expiresAt
=============================================================================
