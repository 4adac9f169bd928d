--------------------------- MODULE SquadsObservation ---------------------------
(***************************************************************************)
(* One call of verifySquadsExecution of src/lib/squads-execution-verifier  *)
(* for a bound Batch, while the chain moves on: three RPC authorities are  *)
(* each asked for the proposal and the Batch, then the children, then chunk*)
(* after chunk of the recipients' token accounts, each answer at a later   *)
(* finalized slot of its own; a quorum of two digests decides.             *)
(*                                                                         *)
(* Abstractions.  The chain is the sequence of its finalized states, one   *)
(* change each.  Child c of the Batch pays recipient c, whose token account*)
(* is chunk c (the code reads 98 accounts a chunk).  A digest of accounts  *)
(* is what it digests.  Lookup tables are left out, and so is the signing. *)
(* A single VaultTransaction is a Batch of one child without the child     *)
(* read.                                                                   *)
(***************************************************************************)
EXTENDS Naturals, FiniteSets, Sequences

CONSTANTS
  Authorities,  \* SQUADS_EXECUTION_RPC_AUTHORITIES
  Faulty,       \* those that may answer anything
  Children,     \* the number of children of the Batch
  MaxSlot,      \* bound on the chain
  None

VARIABLES
  chain,    \* external: the finalized states, oldest first
  obs,      \* what each authority has answered
  verdict   \* the observation that is returned

vars == <<chain, obs, verdict>>

Chunks == 1..Children
\* "executing" exists within a slot only.  "closed": the accounts were closed.
Statuses == {"draft", "active", "rejected", "approved", "executed", "cancelled"}
\* "other": an account of another owner or mint.
Accounts == [Chunks -> {"missing", "recipient", "other"}]

\* exact: the messages are those of the plan.
ChainState ==
  [status: Statuses \cup {"closed"}, executed: 0..Children, exact: BOOLEAN,
   accounts: Accounts]

\* The digests of the proposal and of the Batch.
Proposal(s) == <<s.status, s.executed>>

Unverified == [proposal |-> None, tokens |-> <<>>]
NoAnswer == [phase |-> "idle", slot |-> 1, proposal |-> None, tokens |-> <<>>]

Init ==
  /\ \E st \in {"draft", "active", "approved"}, e \in BOOLEAN,
        acc \in [Chunks -> {"missing", "recipient"}] :
       chain = <<[status |-> st, executed |-> 0, exact |-> e, accounts |-> acc]>>
  /\ obs = [a \in Authorities |-> NoAnswer]
  /\ verdict = None

-----------------------------------------------------------------------------
\* external: the Squads program and the token program.

Last == chain[Len(chain)]

\* Votes, cancellation, execution of the next child (which may create the account it
\* pays), and closing.
NextStatus ==
  {<<"draft", "active">>, <<"active", "approved">>, <<"active", "rejected">>,
   <<"active", "cancelled">>, <<"approved", "cancelled">>, <<"executed", "closed">>}

StatusMoves ==
  {[Last EXCEPT !.status = m[2]] : m \in {m \in NextStatus : m[1] = Last.status}}

ChildExecutes ==
  LET c == Last.executed + 1
  IN  IF Last.status = "approved" /\ c <= Children /\ Last.accounts[c] # "other"
        THEN {[Last EXCEPT !.executed = c, !.accounts[c] = "recipient",
                           !.status = IF c = Children THEN "executed" ELSE "approved"]}
        ELSE {}

\* Anyone may create the account of a recipient, who may close it or give it away.
AccountChanges ==
  {[Last EXCEPT !.accounts[c] = "recipient"] : c \in {c \in Chunks : Last.accounts[c] = "missing"}}
    \cup
  {[Last EXCEPT !.accounts[m[1]] = m[2]] :
     m \in {c \in Chunks : Last.accounts[c] = "recipient"} \X {"missing", "other"}}

\* While the call runs: afterwards nothing looks at the chain.
ChainSteps ==
  /\ verdict = None
  /\ Len(chain) < MaxSlot
  /\ \E s \in StatusMoves \cup ChildExecutes \cup AccountChanges : chain' = Append(chain, s)
  /\ UNCHANGED <<obs, verdict>>

-----------------------------------------------------------------------------
\* inspectAccounts: the accounts are there and their progress is consistent.  (The chain
\* never has all children executed and another status than executed.)
Inspected(s) ==
  /\ s.status # "closed"
  /\ s.executed > 0 => s.status \in {"approved", "executed"}

\* As if a later answer were not compared with the first.
RecheckedLayoutOnly(a, s) == Inspected(s)

\* Every later answer confirms the proposal and the Batch of the first.
Rechecked(a, s) == Inspected(s) /\ Proposal(s) = obs[a].proposal

\* As if assertTokenAccount compared neither the owner nor the mint.
TokenAcceptedUnread(a, c, token) ==
  \/ token \in {"recipient", "other"}
  \/ token = "missing" /\ obs[a].proposal[1] # "executed" /\ c > obs[a].proposal[2]

\* A recipient's account may be missing only when its message creates it and has not
\* run; the plan's executed children are mustExist.
TokenAccepted(a, c, token) ==
  \/ token = "recipient"
  \/ token = "missing" /\ obs[a].proposal[1] # "executed" /\ c > obs[a].proposal[2]

Fails(a) == obs' = [obs EXCEPT ![a] = [NoAnswer EXCEPT !.phase = "failed"]]

\* The first answer: the proposal and the Batch.
ReadProposal(a) ==
  /\ verdict = None /\ obs[a].phase = "idle"
  /\ \E s \in 1..Len(chain) :
       IF Inspected(chain[s])
         THEN obs' = [obs EXCEPT ![a] = [phase |-> "children", slot |-> s,
                        proposal |-> Proposal(chain[s]), tokens |-> <<>>]]
         ELSE Fails(a)
  /\ UNCHANGED <<chain, verdict>>

\* The children, with the proposal again: their messages are decoded against the plan.
ReadChildren(a) ==
  /\ verdict = None /\ obs[a].phase = "children"
  /\ \E s \in obs[a].slot..Len(chain) :
       IF Rechecked(a, chain[s]) /\ chain[s].exact
         THEN obs' = [obs EXCEPT ![a].phase = "tokens", ![a].slot = s]
         ELSE Fails(a)
  /\ UNCHANGED <<chain, verdict>>

\* One chunk of token accounts, with the proposal again.
ReadTokens(a) ==
  /\ verdict = None /\ obs[a].phase = "tokens"
  /\ \E s \in obs[a].slot..Len(chain) :
       LET c == Len(obs[a].tokens) + 1
           token == chain[s].accounts[c]
       IN  IF Rechecked(a, chain[s]) /\ TokenAccepted(a, c, token)
             THEN obs' = [obs EXCEPT ![a].slot = s,
                            ![a].tokens = Append(@, token),
                            ![a].phase = IF c = Children THEN "done" ELSE "tokens"]
             ELSE Fails(a)
  /\ UNCHANGED <<chain, verdict>>

\* A timeout, an HTTP failure, a redirect or an oversized body.
Unreachable(a) ==
  /\ verdict = None /\ obs[a].phase \in {"idle", "children", "tokens"}
  /\ Fails(a)
  /\ UNCHANGED <<chain, verdict>>

\* A faulty authority: any evidence at all, and as well the last to answer.  All that
\* matters is whether another has the same; the worst is that everyone was paid.
Invented(a) ==
  /\ verdict = None /\ a \in Faulty /\ obs[a].phase = "idle"
  /\ \A b \in Authorities \ Faulty : obs[b].phase \in {"done", "failed"}
  /\ LET Paid == [phase |-> "done", slot |-> 1, proposal |-> <<"executed", Children>>,
                  tokens |-> [c \in Chunks |-> "recipient"]]
     IN  \E o \in {Paid} \cup {obs[b] : b \in Authorities \ Faulty} :
           o.phase = "done" /\ obs' = [obs EXCEPT ![a] = o]
  /\ UNCHANGED <<chain, verdict>>

SameEvidence(a, b) ==
  /\ obs[a].phase = "done" /\ obs[b].phase = "done"
  /\ obs[a].proposal = obs[b].proposal /\ obs[a].tokens = obs[b].tokens

\* As if one authority were enough.
QuorumOfOne(a) == obs[a].phase = "done"

Quorum(a) == \E b \in Authorities \ {a} : SameEvidence(a, b)

\* Every authority has settled: the first group of two decides.
Conclude ==
  /\ verdict = None
  /\ \A a \in Authorities : obs[a].phase \in {"done", "failed"}
  /\ \/ \E a \in Authorities :
          Quorum(a) /\ verdict' = [proposal |-> obs[a].proposal, tokens |-> obs[a].tokens]
     \/ (\A a \in Authorities : ~Quorum(a)) /\ verdict' = Unverified
  /\ UNCHANGED <<chain, obs>>

Next ==
  \/ ChainSteps
  \/ \E a \in Authorities :
       ReadProposal(a) \/ ReadChildren(a) \/ ReadTokens(a) \/ Unreachable(a) \/ Invented(a)
  \/ Conclude

Spec == Init /\ [][Next]_vars

-----------------------------------------------------------------------------
TypeOK ==
  /\ chain \in Seq(ChainState)
  /\ obs \in [Authorities ->
       [phase: {"idle", "children", "tokens", "done", "failed"}, slot: 1..MaxSlot,
        proposal: {None} \cup (Statuses \X (0..Children)),
        tokens: UNION {[1..n -> {"missing", "recipient"}] : n \in 0..Children}]]

Matched == verdict \notin {None, Unverified}

\* "Exact ordered transfers ... match the frozen plan ... across finalized RPC quorum":
\* a matched observation reports a proposal and a progress that the chain really had,
\* of messages that are the plan's, whatever one authority answers and however far
\* behind the others read.
MatchedIsTrue ==
  Matched => \E s \in 1..Len(chain) :
               chain[s].exact /\ Proposal(chain[s]) = verdict.proposal

\* "Every chunk rechecks the exact proposal and transaction": the token accounts were
\* in the reported state while the proposal was in the reported state, although they
\* are read at other slots than it.
EvidenceCoherent ==
  Matched => \A c \in Chunks : \E s \in 1..Len(chain) :
               /\ Proposal(chain[s]) = verdict.proposal
               /\ chain[s].accounts[c] = verdict.tokens[c]
=============================================================================
