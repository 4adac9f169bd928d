---------------------------- MODULE IdentityFlow ----------------------------
(***************************************************************************)
(* The identity Worker (workers/identity/): GitHub sign-in for a terminal. *)
(* A terminal starts a flow, a browser authorizes it and comes back with   *)
(* an OAuth code, the terminal polls until the flow yields an assertion,   *)
(* and the trace API consumes the assertion.  Each callback, poll and      *)
(* consumption is a process in a slot with one action per D1 statement or  *)
(* call of GitHub, and the hourly cleanup is a process of its own.         *)
(*                                                                         *)
(* Abstractions.  Capabilities and hashes are the flow they belong to.     *)
(* The assertion is an HMAC of (flow, poll capability, actor), so the pair *)
(* (flow, actor) names its row.  A login stands with its actor id.         *)
(***************************************************************************)
EXTENDS Integers

CONSTANTS
  Flows,         \* flow ids, random and never drawn twice
  Actors,        \* GitHub accounts
  Slots,         \* requests in flight
  FlowTtl,       \* OAUTH_FLOW_TTL_SECONDS, in ticks
  AssertionTtl,  \* ASSERTION_TTL_SECONDS, in ticks
  LastStart,     \* bound: no flow starts later
  MaxTime,       \* bound of the clock
  None           \* SQL NULL

\* The clock outlives every row, so that cleanup always has its turn.
ASSUME IdentityAssumption ==
  /\ FlowTtl \in Nat \ {0} /\ AssertionTtl \in Nat \ {0} /\ LastStart \in Nat
  /\ MaxTime \in Nat /\ LastStart + FlowTtl + AssertionTtl <= MaxTime
  /\ None \notin Flows \cup Actors \cup Int

VARIABLES
  now,       \* the clock that deps.now() reads
  flows,     \* identity_oauth_flows
  tokens,    \* identity_assertions, by (flow, actor)
  cookies,   \* flows whose browser holds the state cookie
  answered,  \* number of poll answers that carried each assertion
  accepted,  \* number of times each assertion was consumed
  cleaner,   \* the scheduled cleanup
  req        \* the request in each slot

rows == <<flows, tokens>>
world == <<cookies, answered, accepted>>
vars == <<now, rows, world, cleaner, req>>

Time == 0 .. MaxTime
OrNone(S) == S \cup {None}
Statuses ==
  {"absent", "pending", "callback_processing", "callback_complete",
   "assertion_issued", "deleted"}
Flow == [status: Statuses, actor: OrNone(Actors), expiresAt: Time]
Token == [state: {"absent", "live", "consumed"}, createdAt: Time, expiresAt: Time]

NoFlow == [status |-> "absent", actor |-> None, expiresAt |-> 0]
NoToken == [state |-> "absent", createdAt |-> 0, expiresAt |-> 0]

Pcs ==
  {"idle", "done", "callback_select", "callback_claim", "callback_resolve",
   "callback_complete", "poll_find", "poll_insert", "poll_select", "poll_mark",
   "consume"}
Replies == {"pending", "complete", "unavailable", "retry", "signed_in", "identity"}
Request ==
  [pc: Pcs, flow: OrNone(Flows), actor: OrNone(Actors), at: OrNone(Time),
   reply: OrNone(Replies)]
Idle == [pc |-> "idle", flow |-> None, actor |-> None, at |-> None, reply |-> None]

Init ==
  /\ now = 0
  /\ flows = [f \in Flows |-> NoFlow]
  /\ tokens = [p \in Flows \X Actors |-> NoToken]
  /\ cookies = {}
  /\ answered = [p \in Flows \X Actors |-> 0]
  /\ accepted = [p \in Flows \X Actors |-> 0]
  /\ cleaner = [pc |-> "idle", at |-> 0]
  /\ req = [s \in Slots |-> Idle]

Exists(f) == flows[f].status \notin {"absent", "deleted"}
Alive(f, at) == Exists(f) /\ flows[f].expiresAt > at
Pending(f, at) == Alive(f, at) /\ flows[f].status = "pending"

At(s, pc) == req[s].pc = pc
Free(s) == req[s].pc \in {"idle", "done"}
Accept(s, pc, f, a) ==
  /\ Free(s)
  /\ req' = [req EXCEPT ![s] = [Idle EXCEPT !.pc = pc, !.flow = f,
                                            !.actor = a, !.at = now]]
  /\ UNCHANGED <<now, rows, world, cleaner>>
Goto(s, pc) == req' = [req EXCEPT ![s].pc = pc]
Answer(s, reply) ==
  req' = [req EXCEPT ![s] = [Idle EXCEPT !.pc = "done", !.reply = reply]]

\* Eviction of the Worker, a lost connection, or a statement that throws.
Drop(s) ==
  /\ ~Free(s)
  /\ req' = [req EXCEPT ![s] = Idle]
  /\ UNCHANGED <<now, rows, world, cleaner>>

Tick ==
  /\ now < MaxTime
  /\ now' = now + 1
  /\ UNCHANGED <<rows, world, cleaner, req>>

-----------------------------------------------------------------------------
(* Starting and authorizing *)

StartFlow(f) ==
  /\ flows[f].status = "absent"
  /\ now <= LastStart
  /\ flows' = [flows EXCEPT ![f] = [status |-> "pending", actor |-> None,
                                    expiresAt |-> now + FlowTtl]]
  /\ UNCHANGED <<now, tokens, world, cleaner, req>>

\* The browser opens the authorization link and gets the state cookie.
AuthorizeBrowser(f) ==
  /\ Pending(f, now)
  /\ cookies' = cookies \cup {f}
  /\ UNCHANGED <<now, rows, answered, accepted, cleaner, req>>

-----------------------------------------------------------------------------
(* GET /v1/oauth/callback *)

CallbackBegin(s, f) ==
  /\ f \in cookies
  /\ Accept(s, "callback_select", f, None)

CallbackSelect(s) ==
  LET q == req[s]
  IN  /\ At(s, "callback_select")
      /\ IF Pending(q.flow, q.at)
         THEN Goto(s, "callback_claim")
         ELSE Answer(s, "unavailable")
      /\ UNCHANGED <<now, rows, world, cleaner>>

ClaimableAnyStatus(f, at) == Alive(f, at)
\* The WHERE clause of the claim repeats that of the SELECT.
Claimable(f, at) == Pending(f, at)

CallbackClaim(s) ==
  LET q == req[s]
  IN  /\ At(s, "callback_claim")
      /\ IF Claimable(q.flow, q.at)
         THEN /\ flows' = [flows EXCEPT ![q.flow].status = "callback_processing"]
              /\ Goto(s, "callback_resolve")
         ELSE /\ Answer(s, "unavailable")
              /\ flows' = flows
      /\ UNCHANGED <<now, tokens, world, cleaner>>

\* GitHub names an account, or the exchange fails and the flow stays claimed.
CallbackResolve(s) ==
  /\ At(s, "callback_resolve")
  /\ \/ \E a \in Actors :
          req' = [req EXCEPT ![s] = [@ EXCEPT !.pc = "callback_complete", !.actor = a]]
     \/ Answer(s, "unavailable")
  /\ UNCHANGED <<now, rows, world, cleaner>>

CompletedAnonymous(row, a) == [row EXCEPT !.status = "callback_complete"]
Completed(row, a) == [row EXCEPT !.status = "callback_complete", !.actor = a]

\* The UPDATE does not look at the expiry: a flow may complete after it.  The
\* answer clears the cookie, unless it is lost.
CallbackComplete(s) ==
  LET q == req[s]
  IN  /\ At(s, "callback_complete")
      /\ IF flows[q.flow].status = "callback_processing"
         THEN /\ flows' = [flows EXCEPT ![q.flow] = Completed(@, q.actor)]
              /\ \/ cookies' = cookies \ {q.flow} /\ Answer(s, "signed_in")
                 \/ cookies' = cookies /\ req' = [req EXCEPT ![s] = Idle]
         ELSE /\ Answer(s, "unavailable")
              /\ UNCHANGED <<flows, cookies>>
      /\ UNCHANGED <<now, tokens, answered, accepted, cleaner>>

-----------------------------------------------------------------------------
(* POST /v1/oauth/poll *)

\* The clock is read once and used by every later statement of the poll.
PollBegin(s, f) ==
  /\ flows[f].status # "absent"
  /\ Accept(s, "poll_find", f, None)

PollFind(s) ==
  LET q == req[s]
      row == flows[q.flow]
  IN  /\ At(s, "poll_find")
      /\ IF ~Alive(q.flow, q.at)
         THEN Answer(s, "unavailable")
         ELSE IF row.status \in {"pending", "callback_processing"}
         THEN Answer(s, "pending")
         ELSE IF row.status = "callback_complete"
         THEN req' = [req EXCEPT ![s] = [@ EXCEPT !.pc = "poll_insert",
                                                  !.actor = row.actor]]
         ELSE Answer(s, "unavailable")
      /\ UNCHANGED <<now, rows, world, cleaner>>

InsertedOver(row, at) ==
  [state |-> "live", createdAt |-> at, expiresAt |-> at + AssertionTtl]
\* INSERT ... ON CONFLICT(token_hash) DO NOTHING
Inserted(row, at) ==
  IF row.state = "absent"
  THEN [state |-> "live", createdAt |-> at, expiresAt |-> at + AssertionTtl]
  ELSE row

PollInsert(s) ==
  LET q == req[s]
      p == <<q.flow, q.actor>>
  IN  /\ At(s, "poll_insert")
      /\ tokens' = [tokens EXCEPT ![p] = Inserted(@, q.at)]
      /\ Goto(s, "poll_select")
      /\ UNCHANGED <<now, flows, world, cleaner>>

\* The stored row is answered, this poll's own or an earlier poll's, unless it
\* was consumed, is from the future of this poll, or had expired by then.
PollSelect(s) ==
  LET q == req[s]
      row == tokens[<<q.flow, q.actor>>]
  IN  /\ At(s, "poll_select")
      /\ IF row.state = "live" /\ row.createdAt <= q.at /\ row.expiresAt > q.at
         THEN Goto(s, "poll_mark")
         ELSE Answer(s, "retry")
      /\ UNCHANGED <<now, rows, world, cleaner>>

MarkableAlways(f) == Exists(f)
Markable(f) == flows[f].status = "callback_complete"

\* One poll marks the flow and carries the assertion; its answer may be lost.
PollMark(s) ==
  LET q == req[s]
  IN  /\ At(s, "poll_mark")
      /\ IF Markable(q.flow)
         THEN /\ flows' = [flows EXCEPT ![q.flow].status = "assertion_issued"]
              /\ \/ /\ answered' = [answered EXCEPT ![<<q.flow, q.actor>>] = @ + 1]
                    /\ req' = [req EXCEPT ![s] = [@ EXCEPT !.pc = "done", !.at = None,
                                                           !.reply = "complete"]]
                 \/ /\ answered' = answered
                    /\ req' = [req EXCEPT ![s] = Idle]
         ELSE /\ Answer(s, "unavailable")
              /\ UNCHANGED <<flows, answered>>
      /\ UNCHANGED <<now, tokens, cookies, accepted, cleaner>>

-----------------------------------------------------------------------------
(* POST /v1/assertions/consume, by the trace API for a terminal that got the *)
(* assertion from a poll                                                     *)

ConsumeBegin(s, f, a) ==
  /\ answered[<<f, a>>] > 0
  /\ Accept(s, "consume", f, a)

Consume(s) ==
  LET q == req[s]
      p == <<q.flow, q.actor>>
  IN  /\ At(s, "consume")
      /\ IF tokens[p].state = "live" /\ tokens[p].expiresAt > q.at
         THEN /\ tokens' = [tokens EXCEPT ![p].state = "consumed"]
              /\ accepted' = [accepted EXCEPT ![p] = @ + 1]
              /\ Answer(s, "identity")
         ELSE /\ Answer(s, "unavailable")
              /\ UNCHANGED <<tokens, accepted>>
      /\ UNCHANGED <<now, flows, cookies, answered, cleaner>>

-----------------------------------------------------------------------------
(* The hourly cleanup: two DELETE statements with one reading of the clock *)

CleanBegin ==
  /\ cleaner.pc = "idle"
  /\ cleaner' = [pc |-> "flows", at |-> now]
  /\ UNCHANGED <<now, rows, world, req>>

FlowExpiredUnclaimed(row, at) ==
  row.expiresAt <= at /\ row.status # "callback_processing"
FlowExpired(row, at) == row.expiresAt <= at

DeleteFlows ==
  /\ cleaner.pc = "flows"
  /\ flows' = [f \in Flows |->
       IF Exists(f) /\ FlowExpired(flows[f], cleaner.at)
       THEN [NoFlow EXCEPT !.status = "deleted"]
       ELSE flows[f]]
  /\ cleaner' = [cleaner EXCEPT !.pc = "assertions"]
  /\ UNCHANGED <<now, tokens, world, req>>

DeleteAssertions ==
  /\ cleaner.pc = "assertions"
  /\ tokens' = [p \in Flows \X Actors |->
       IF tokens[p].expiresAt <= cleaner.at THEN NoToken ELSE tokens[p]]
  /\ cleaner' = [cleaner EXCEPT !.pc = "idle", !.at = 0]
  /\ UNCHANGED <<now, flows, world, req>>

CleanFail ==
  /\ cleaner.pc # "idle"
  /\ cleaner' = [pc |-> "idle", at |-> 0]
  /\ UNCHANGED <<now, rows, world, req>>

-----------------------------------------------------------------------------
Begin(s) ==
  \E f \in Flows :
    CallbackBegin(s, f) \/ PollBegin(s, f) \/ \E a \in Actors : ConsumeBegin(s, f, a)
Serve(s) ==
  \/ CallbackSelect(s) \/ CallbackClaim(s) \/ CallbackResolve(s) \/ CallbackComplete(s)
  \/ PollFind(s) \/ PollInsert(s) \/ PollSelect(s) \/ PollMark(s)
  \/ Consume(s)
Clean == CleanBegin \/ DeleteFlows \/ DeleteAssertions \/ CleanFail

Next ==
  \/ Tick \/ Clean
  \/ \E f \in Flows : StartFlow(f) \/ AuthorizeBrowser(f)
  \/ \E s \in Slots : Begin(s) \/ Serve(s) \/ Drop(s)

Spec == Init /\ [][Next]_vars

\* Time passes and the cron trigger fires; a cleanup may fail, but not each
\* time at the same statement.  Nothing is assumed of browsers, terminals or
\* requests: a sign-in may be abandoned at any step.
FairSpec ==
  /\ Spec
  /\ WF_vars(Tick) /\ WF_vars(CleanBegin)
  /\ SF_vars(DeleteFlows) /\ SF_vars(DeleteAssertions)

-----------------------------------------------------------------------------
(* Properties *)

\* Rows and requests have their types; a completed flow has its actor (the
\* CHECK of migrations/0002_slop_identity.sql).
TypeOK ==
  /\ now \in Time
  /\ flows \in [Flows -> Flow]
  /\ tokens \in [Flows \X Actors -> Token]
  /\ cookies \subseteq Flows
  /\ answered \in [Flows \X Actors -> Nat]
  /\ accepted \in [Flows \X Actors -> Nat]
  /\ cleaner \in [pc: {"idle", "flows", "assertions"}, at: Time]
  /\ req \in [Slots -> Request]
  /\ \A f \in Flows :
       flows[f].status \in {"callback_complete", "assertion_issued"} =>
         flows[f].actor # None

\* A flow yields assertions for one GitHub account only, whatever callbacks
\* race: its assertion rows and the polls past the SELECT name one actor, and
\* that is the flow's while its row exists.
OneActor ==
  \A f \in Flows :
    LET named == {a \in Actors : tokens[<<f, a>>].state # "absent"}
                   \cup {req[s].actor : s \in {t \in Slots :
                           /\ req[t].flow = f
                           /\ req[t].pc \in {"poll_insert", "poll_select", "poll_mark"}}}
    IN  /\ \A a, b \in named : a = b
        /\ Exists(f) => named \subseteq {flows[f].actor}

\* The assertion leaves in at most one poll answer, though several polls of
\* the flow find it complete and store or find the same row.
AnsweredOnce ==
  \A f \in Flows, a, b \in Actors :
    answered[<<f, a>>] > 0 =>
      /\ answered[<<f, a>>] = 1
      /\ answered[<<f, b>>] > 0 => a = b
      /\ flows[f].status \in {"assertion_issued", "deleted"}

\* A consumed row stays consumed until cleanup deletes it after its expiry:
\* no late poll and no second consumption makes it live again.
SpentUntilExpiry ==
  [][\A p \in Flows \X Actors :
       tokens[p].state = "consumed" =>
         \/ tokens'[p] = tokens[p]
         \/ tokens'[p].state = "absent" /\ tokens[p].expiresAt <= now]_vars

\* Nothing of a sign-in is kept: flows, also those abandoned while a callback
\* was being processed, and assertion rows, also those that a late poll
\* inserts after the flow is gone, are eventually deleted.
EverythingForgotten ==
  /\ \A f \in Flows : Exists(f) ~> flows[f].status = "deleted"
  /\ \A p \in Flows \X Actors : tokens[p].state # "absent" ~> tokens[p].state = "absent"

\* backend/trace/README.md: the identity Worker "must consume assertions once".
ConsumedOnce == \A p \in Flows \X Actors : accepted[p] <= 1
=============================================================================
