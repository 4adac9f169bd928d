--------------------------- MODULE IdentityProofs ---------------------------
(***************************************************************************)
(* The identity Worker for every set of flows, accounts and slots and      *)
(* every life of flows and assertions.  The properties are not inductive   *)
(* alone: the invariant adds what a request in flight still knows of its   *)
(* flow (Fits), that at most one request works on a claimed callback       *)
(* (OneClaim), and that a flow has no assertion before its callback        *)
(* completed (Unissued).                                                   *)
(***************************************************************************)
EXTENDS IdentityFlow, TLAPS

ClaimPcs == {"callback_resolve", "callback_complete"}
PollPcs == {"poll_insert", "poll_select", "poll_mark"}
Before == {"absent", "pending", "callback_processing"}
After == {"callback_complete", "assertion_issued", "deleted"}
Claimed == {"callback_processing", "deleted"}

LastAlive == LastStart + FlowTtl

\* What a request may rely on, given the flows.
FitsIn(q, rs) ==
  /\ q.pc \notin {"idle", "done"} => q.flow \in Flows /\ q.at \in Time
  /\ q.pc \in PollPcs \cup {"callback_complete", "consume"} => q.actor \in Actors
  /\ q.pc \in PollPcs => q.at <= LastAlive /\ rs[q.flow].status \in After
  /\ q.pc \in ClaimPcs => rs[q.flow].status \in Claimed
Fits(q) == FitsIn(q, flows)

\* The account a is named by an assertion row or by a poll of flow f.
Polls(q, f, a) == q.pc \in PollPcs /\ q.flow = f /\ q.actor = a
Names(f, a) ==
  tokens[<<f, a>>].state # "absent" \/ \E s \in Slots : Polls(req[s], f, a)

OneName ==
  \A f \in Flows, a \in Actors : Names(f, a) =>
    /\ \A b \in Actors : Names(f, b) => a = b
    /\ Exists(f) => flows[f].actor = a
OneClaim ==
  \A s, t \in Slots :
    /\ s # t /\ req[s].pc \in ClaimPcs /\ req[t].pc \in ClaimPcs
    => req[s].flow # req[t].flow
Unissued ==
  \A f \in Flows, a \in Actors :
    flows[f].status \in Before => tokens[<<f, a>>].state = "absent"
Bounds ==
  /\ cleaner.at <= now
  /\ \A f \in Flows : flows[f].expiresAt <= LastAlive

IInv ==
  /\ TypeOK
  /\ Bounds
  /\ Unissued
  /\ OneName
  /\ OneClaim
  /\ AnsweredOnce
  /\ \A s \in Slots : Fits(req[s])

LEMMA InitIInv == Init => IInv
<1> SUFFICES ASSUME Init PROVE IInv
  OBVIOUS
<1> USE IdentityAssumption
<1>1. TypeOK
  BY DEF Init, TypeOK, Time, Flow, Token, NoFlow, NoToken, Request, Idle, Pcs,
     Statuses, OrNone
<1>2. Bounds
  BY DEF Init, Bounds, NoFlow, LastAlive
<1>3. Unissued /\ OneName
  BY DEF Init, Unissued, OneName, Names, Polls, PollPcs, NoToken, Idle
<1>4. OneClaim /\ \A s \in Slots : Fits(req[s])
  BY DEF Init, OneClaim, Fits, FitsIn, ClaimPcs, PollPcs, Idle
<1>5. AnsweredOnce
  BY DEF Init, AnsweredOnce
<1> QED
  BY <1>1, <1>2, <1>3, <1>4, <1>5 DEF IInv

-----------------------------------------------------------------------------
(* Requests beside the one that steps *)

LEMMA OthersFit ==
  ASSUME IInv, NEW s \in Slots, NEW q \in Request, req' = [req EXCEPT ![s] = q],
         FitsIn(q, flows'),
         \A f \in Flows : flows[f].status \in After => flows'[f].status \in After,
         \A f \in Flows : flows[f].status \in Claimed =>
           \/ flows'[f].status \in Claimed
           \/ req[s].pc \in ClaimPcs /\ req[s].flow = f
  PROVE  \A t \in Slots : Fits(req[t])'
<1> SUFFICES ASSUME NEW t \in Slots PROVE Fits(req[t])'
  OBVIOUS
<1>1. req'[t] = IF t = s THEN q ELSE req[t]
  BY DEF IInv, TypeOK
<1>2. CASE t = s
  BY <1>1, <1>2 DEF Fits
<1>3. CASE t # s
  BY <1>1, <1>3 DEF IInv, Fits, FitsIn, OneClaim, PollPcs, ClaimPcs
<1> QED
  BY <1>2, <1>3

LEMMA ClaimsStayOne ==
  ASSUME IInv, NEW s \in Slots, NEW q \in Request, req' = [req EXCEPT ![s] = q],
         q.pc \in ClaimPcs =>
           \/ req[s].pc \in ClaimPcs /\ q.flow = req[s].flow
           \/ q.flow \in Flows /\ flows[q.flow].status \notin Claimed
  PROVE  OneClaim'
<1>1. \A t \in Slots : req'[t] = IF t = s THEN q ELSE req[t]
  BY DEF IInv, TypeOK
<1>2. \A t \in Slots : req[t].pc \in ClaimPcs => flows[req[t].flow].status \in Claimed
  BY DEF IInv, Fits, FitsIn
<1> QED
  BY <1>1, <1>2 DEF IInv, OneClaim

\* A step that names no new account and leaves the flows' accounts.
LEMMA NamesShrink ==
  ASSUME IInv,
         \A f \in Flows, a \in Actors : Names(f, a)' => Names(f, a),
         \A f \in Flows : Exists(f)' => Exists(f) /\ flows'[f].actor = flows[f].actor
  PROVE  OneName'
  BY DEF IInv, OneName

\* A step that writes only the request in one slot.
LEMMA RequestStep ==
  ASSUME IInv, NEW s \in Slots, NEW q \in Request, req' = [req EXCEPT ![s] = q],
         UNCHANGED <<now, rows, world, cleaner>>, FitsIn(q, flows),
         q.pc \in PollPcs =>
           \/ req[s].pc \in PollPcs /\ q.flow = req[s].flow /\ q.actor = req[s].actor
           \/ Exists(q.flow) /\ q.actor = flows[q.flow].actor,
         q.pc \in ClaimPcs => req[s].pc \in ClaimPcs /\ q.flow = req[s].flow
  PROVE  IInv'
<1>0. UNCHANGED <<flows, tokens, cookies, answered, accepted>>
  BY DEF rows, world
<1>1. \A t \in Slots : req'[t] = IF t = s THEN q ELSE req[t]
  BY DEF IInv, TypeOK
<1>2. TypeOK'
  BY <1>0 DEF IInv, TypeOK
<1>3. Bounds' /\ Unissued' /\ AnsweredOnce'
  BY <1>0 DEF IInv, Bounds, Unissued, AnsweredOnce
<1>4. OneClaim'
  BY ClaimsStayOne
<1>5. \A t \in Slots : Fits(req[t])'
  BY <1>0, OthersFit
<1>6. OneName'
  <2>1. CASE q.pc \in PollPcs /\ Exists(q.flow) /\ q.actor = flows[q.flow].actor
    <3>1. \A f \in Flows, a \in Actors : Names(f, a)' =>
            Names(f, a) \/ (f = q.flow /\ a = q.actor)
      BY <1>0, <1>1 DEF Names, Polls
    <3> QED
      BY <1>0, <2>1, <3>1 DEF IInv, OneName, Exists
  <2>2. CASE q.pc \in PollPcs =>
          req[s].pc \in PollPcs /\ q.flow = req[s].flow /\ q.actor = req[s].actor
    <3>1. \A f \in Flows, a \in Actors : Names(f, a)' => Names(f, a)
      BY <1>0, <1>1, <2>2 DEF Names, Polls
    <3> QED
      BY <1>0, <3>1, NamesShrink DEF Exists
  <2> QED
    BY <2>1, <2>2
<1> QED
  BY <1>2, <1>3, <1>4, <1>5, <1>6 DEF IInv

-----------------------------------------------------------------------------
(* Steps that only move, answer or drop a request *)

LEMMA IdleStep ==
  ASSUME IInv, NEW s \in Slots, req' = [req EXCEPT ![s] = Idle],
         UNCHANGED <<now, rows, world, cleaner>>
  PROVE  IInv'
<1>1. Idle \in Request /\ Idle.pc = "idle"
  BY DEF Idle, Request, Pcs, OrNone
<1> QED
  BY <1>1, RequestStep DEF FitsIn, PollPcs, ClaimPcs

LEMMA AnswerStep ==
  ASSUME IInv, NEW s \in Slots, NEW a \in Replies, Answer(s, a),
         UNCHANGED <<now, rows, world, cleaner>>
  PROVE  IInv'
<1> DEFINE q == [Idle EXCEPT !.pc = "done", !.reply = a]
<1>1. q \in Request /\ q.pc = "done"
  BY DEF Idle, Request, Pcs, OrNone
<1>2. req' = [req EXCEPT ![s] = q]
  BY DEF Answer
<1> HIDE DEF q
<1> QED
  BY <1>1, <1>2, RequestStep DEF FitsIn, PollPcs, ClaimPcs

LEMMA AcceptStep ==
  ASSUME IInv, NEW s \in Slots, NEW f \in Flows, NEW a \in OrNone(Actors),
         NEW pc \in {"callback_select", "poll_find", "consume"},
         pc = "consume" => a \in Actors,
         Accept(s, pc, f, a)
  PROVE  IInv'
<1> DEFINE q == [Idle EXCEPT !.pc = pc, !.flow = f, !.actor = a, !.at = now]
<1>1. /\ q \in Request
      /\ q.pc = pc /\ q.flow = f /\ q.actor = a /\ q.at = now
  BY DEF IInv, TypeOK, Idle, Request, Pcs, OrNone
<1>2. req' = [req EXCEPT ![s] = q] /\ UNCHANGED <<now, rows, world, cleaner>>
  BY DEF Accept
<1>3. now \in Time
  BY DEF IInv, TypeOK
<1> HIDE DEF q
<1>4. FitsIn(q, flows)
  BY <1>1, <1>3 DEF FitsIn, PollPcs, ClaimPcs
<1> QED
  BY <1>1, <1>2, <1>4, RequestStep DEF PollPcs, ClaimPcs

LEMMA GotoStep ==
  ASSUME IInv, NEW s \in Slots, NEW pc \in {"callback_claim", "poll_mark"},
         pc = "callback_claim" => At(s, "callback_select"),
         pc = "poll_mark" => At(s, "poll_select"),
         Goto(s, pc), UNCHANGED <<now, rows, world, cleaner>>
  PROVE  IInv'
<1> DEFINE x == req[s]
           q == [x EXCEPT !.pc = pc]
<1>1. x \in Request /\ Fits(x)
  BY DEF IInv, TypeOK
<1>2. /\ q \in Request
      /\ q.pc = pc /\ q.flow = x.flow /\ q.actor = x.actor /\ q.at = x.at
  BY <1>1 DEF Request, Pcs
<1>3. req' = [req EXCEPT ![s] = q]
  BY DEF Goto
<1>4. x.pc \in {"callback_select", "poll_select"}
        /\ (pc = "poll_mark" => x.pc = "poll_select")
  BY DEF At
<1> HIDE DEF q
<1>5. FitsIn(q, flows)
  BY <1>1, <1>2, <1>4 DEF Fits, FitsIn, PollPcs, ClaimPcs
<1> QED
  BY <1>2, <1>3, <1>4, <1>5, RequestStep DEF PollPcs, ClaimPcs

LEMMA CallbackResolveStep ==
  ASSUME IInv, NEW s \in Slots, CallbackResolve(s)
  PROVE  IInv'
<1>1. CASE Answer(s, "unavailable")
  BY <1>1, AnswerStep DEF CallbackResolve, Replies
<1>2. ASSUME NEW a \in Actors,
             req' = [req EXCEPT ![s] = [@ EXCEPT !.pc = "callback_complete", !.actor = a]]
      PROVE  IInv'
  <2> DEFINE x == req[s]
             q == [x EXCEPT !.pc = "callback_complete", !.actor = a]
  <2>1. x \in Request /\ Fits(x) /\ x.pc = "callback_resolve"
    BY DEF IInv, TypeOK, CallbackResolve, At
  <2>2. /\ q \in Request
        /\ q.pc = "callback_complete" /\ q.flow = x.flow /\ q.actor = a /\ q.at = x.at
    BY <2>1 DEF Request, Pcs, OrNone
  <2>3. req' = [req EXCEPT ![s] = q]
    BY <1>2
  <2> HIDE DEF q
  <2>4. FitsIn(q, flows)
    BY <2>1, <2>2 DEF Fits, FitsIn, PollPcs, ClaimPcs
  <2> QED
    BY <2>1, <2>2, <2>3, <2>4, RequestStep DEF PollPcs, ClaimPcs, CallbackResolve
<1> QED
  BY <1>1, <1>2 DEF CallbackResolve

LEMMA PollFindStep ==
  ASSUME IInv, NEW s \in Slots, PollFind(s)
  PROVE  IInv'
<1> DEFINE x == req[s]
           row == flows[x.flow]
           q == [x EXCEPT !.pc = "poll_insert", !.actor = row.actor]
<1>1. CASE Answer(s, "unavailable") \/ Answer(s, "pending")
  BY <1>1, AnswerStep DEF PollFind, Replies
<1>2. CASE /\ Alive(x.flow, x.at) /\ row.status = "callback_complete"
           /\ req' = [req EXCEPT ![s] = q]
  <2>1. x \in Request /\ Fits(x) /\ x.pc = "poll_find"
    BY DEF IInv, TypeOK, PollFind, At
  <2>2. x.flow \in Flows /\ x.at \in Time
    BY <2>1 DEF Fits, FitsIn
  <2>3. row.actor \in Actors /\ row.expiresAt <= LastAlive /\ row.expiresAt \in Int
    BY <1>2, <2>2 DEF IInv, TypeOK, Flow, OrNone, Bounds, Time
  <2>4. /\ q \in Request
        /\ q.pc = "poll_insert" /\ q.flow = x.flow /\ q.actor = row.actor
        /\ q.at = x.at
    BY <2>1, <2>3 DEF Request, Pcs, OrNone
  <2>5. x.at <= LastAlive
    BY <1>2, <2>2, <2>3, IdentityAssumption DEF Alive, Time, LastAlive
  <2> HIDE DEF q
  <2>6. FitsIn(q, flows)
    BY <1>2, <2>2, <2>3, <2>4, <2>5 DEF FitsIn, PollPcs, ClaimPcs, After
  <2>7. Exists(q.flow) /\ q.actor = flows[q.flow].actor
    BY <1>2, <2>4 DEF Alive
  <2> QED
    BY <1>2, <2>4, <2>6, <2>7, RequestStep DEF PollFind, PollPcs, ClaimPcs
<1> QED
  BY <1>1, <1>2 DEF PollFind

-----------------------------------------------------------------------------
(* Steps that write flows *)

LEMMA StartStep ==
  ASSUME IInv, NEW f \in Flows, StartFlow(f)
  PROVE  IInv'
<1> DEFINE row == [status |-> "pending", actor |-> None, expiresAt |-> now + FlowTtl]
<1> USE IdentityAssumption
<1>1. /\ flows' = [flows EXCEPT ![f] = row] /\ flows[f].status = "absent"
      /\ now <= LastStart
      /\ UNCHANGED <<now, tokens, cookies, answered, accepted, cleaner, req>>
  BY DEF StartFlow, world
<1>2. now \in Int /\ now + FlowTtl \in Time /\ now + FlowTtl <= LastAlive
  BY <1>1 DEF IInv, TypeOK, Time, LastAlive
<1>3. row \in Flow
  BY <1>2 DEF Flow, Statuses, OrNone
<1>4. \A g \in Flows : flows'[g] = IF g = f THEN row ELSE flows[g]
  BY <1>1 DEF IInv, TypeOK
<1>5. TypeOK'
  BY <1>1, <1>3, <1>4 DEF IInv, TypeOK
<1>6. Bounds'
  BY <1>1, <1>2, <1>4 DEF IInv, Bounds
<1>7. Unissued'
  BY <1>1, <1>4 DEF IInv, Unissued, Before
<1>8. \A g \in Flows : flows[g].status \in After \cup Claimed => flows'[g] = flows[g]
  BY <1>1, <1>4 DEF After, Claimed
<1>9. \A s \in Slots : Fits(req[s])'
  BY <1>1, <1>8 DEF IInv, Fits, FitsIn
<1>10. OneClaim' /\ AnsweredOnce'
  BY <1>1, <1>8 DEF IInv, OneClaim, AnsweredOnce, After
<1>11. \A a \in Actors : ~Names(f, a)
  BY <1>1 DEF IInv, Names, Polls, Unissued, Before, Fits, FitsIn, After
<1>12. OneName'
  BY <1>1, <1>4, <1>11 DEF IInv, OneName, Names, Exists
<1> QED
  BY <1>5, <1>6, <1>7, <1>9, <1>10, <1>12 DEF IInv

LEMMA CallbackClaimStep ==
  ASSUME IInv, NEW s \in Slots, CallbackClaim(s)
  PROVE  IInv'
<1> DEFINE x == req[s]
           q == [x EXCEPT !.pc = "callback_resolve"]
           f == x.flow
           row == [flows[f] EXCEPT !.status = "callback_processing"]
<1>1. x \in Request /\ Fits(x) /\ x.pc = "callback_claim" /\ f \in Flows
  BY DEF IInv, TypeOK, CallbackClaim, At, Fits, FitsIn
<1>2. CASE flows' = flows /\ Answer(s, "unavailable")
  BY <1>2, AnswerStep DEF CallbackClaim, Replies, rows
<1>3. CASE Claimable(f, x.at) /\ flows' = [flows EXCEPT ![f] = row]
             /\ req' = [req EXCEPT ![s] = q]
  <2>1. UNCHANGED <<now, tokens, cookies, answered, accepted, cleaner>>
    BY DEF CallbackClaim, world
  <2>2. flows[f].status = "pending" /\ flows[f] \in Flow
    BY <1>1, <1>3 DEF IInv, TypeOK, Claimable, Pending
  <2>3. row \in Flow /\ row.status = "callback_processing"
          /\ row.actor = flows[f].actor /\ row.expiresAt = flows[f].expiresAt
    BY <2>2 DEF Flow, Statuses
  <2>4. /\ q \in Request
        /\ q.pc = "callback_resolve" /\ q.flow = f /\ q.at = x.at
    BY <1>1 DEF Request, Pcs
  <2> HIDE DEF row, q
  <2>5. \A g \in Flows : flows'[g] = IF g = f THEN row ELSE flows[g]
    BY <1>3 DEF IInv, TypeOK
  <2>6. \A t \in Slots : req'[t] = IF t = s THEN q ELSE req[t]
    BY <1>3 DEF IInv, TypeOK
  <2>7. TypeOK'
    BY <1>1, <1>3, <2>1, <2>3, <2>4, <2>5 DEF IInv, TypeOK
  <2>8. Bounds' /\ Unissued'
    BY <2>1, <2>2, <2>3, <2>5 DEF IInv, Bounds, Unissued, Before
  <2>9. \A g \in Flows : flows[g].status \in After \cup Claimed => flows'[g] = flows[g]
    BY <2>2, <2>5 DEF After, Claimed
  <2>10. FitsIn(q, flows')
    BY <1>1, <2>3, <2>4, <2>5 DEF Fits, FitsIn, PollPcs, ClaimPcs, Claimed
  <2>11. \A t \in Slots : Fits(req[t])'
    BY <1>3, <2>4, <2>9, <2>10, OthersFit
  <2>12. OneClaim'
    BY <1>1, <1>3, <2>2, <2>4, ClaimsStayOne DEF Claimed
  <2>13. AnsweredOnce'
    BY <2>1, <2>9 DEF IInv, AnsweredOnce, After
  <2>14. \A g \in Flows, a \in Actors : Names(g, a)' => Names(g, a)
    BY <2>1, <2>4, <2>6 DEF Names, Polls, PollPcs
  <2>15. OneName'
    BY <2>2, <2>3, <2>5, <2>14, NamesShrink DEF Exists
  <2> QED
    BY <2>7, <2>8, <2>11, <2>12, <2>13, <2>15 DEF IInv
<1> QED
  BY <1>1, <1>2, <1>3 DEF CallbackClaim, Goto

LEMMA CallbackCompleteStep ==
  ASSUME IInv, NEW s \in Slots, CallbackComplete(s)
  PROVE  IInv'
<1> DEFINE x == req[s]
           f == x.flow
           row == Completed(flows[f], x.actor)
<1>1. x \in Request /\ Fits(x) /\ x.pc = "callback_complete" /\ f \in Flows
        /\ x.actor \in Actors
  BY DEF IInv, TypeOK, CallbackComplete, At, Fits, FitsIn
<1>2. CASE UNCHANGED <<flows, cookies>> /\ Answer(s, "unavailable")
  BY <1>2, AnswerStep DEF CallbackComplete, Replies, rows, world
<1>3. ASSUME NEW q \in Request, q.pc \in {"idle", "done"},
             flows[f].status = "callback_processing",
             flows' = [flows EXCEPT ![f] = row],
             cookies' \in {cookies, cookies \ {f}},
             req' = [req EXCEPT ![s] = q]
      PROVE  IInv'
  <2>1. UNCHANGED <<now, tokens, answered, accepted, cleaner>>
    BY DEF CallbackComplete
  <2>2. flows[f] \in Flow
    BY <1>1 DEF IInv, TypeOK
  <2>3. row \in Flow /\ row.status = "callback_complete"
          /\ row.actor = x.actor /\ row.expiresAt = flows[f].expiresAt
    BY <1>1, <2>2 DEF Flow, Statuses, Completed, OrNone
  <2> HIDE DEF row
  <2>4. \A g \in Flows : flows'[g] = IF g = f THEN row ELSE flows[g]
    BY <1>3 DEF IInv, TypeOK
  <2>5. \A t \in Slots : req'[t] = IF t = s THEN q ELSE req[t]
    BY <1>3 DEF IInv, TypeOK
  <2>6. x.actor # None
    BY <1>1, IdentityAssumption
  <2>7. TypeOK'
    BY <1>1, <1>3, <2>1, <2>3, <2>4, <2>6 DEF IInv, TypeOK
  <2>8. Bounds' /\ Unissued'
    BY <2>1, <2>3, <2>4 DEF IInv, Bounds, Unissued, Before
  <2>9. FitsIn(q, flows')
    BY <1>3 DEF FitsIn, PollPcs, ClaimPcs
  <2>10. \A t \in Slots : Fits(req[t])'
    <3>1. \A g \in Flows : flows[g].status \in After => flows'[g].status \in After
      BY <2>3, <2>4 DEF After
    <3>2. \A g \in Flows : flows[g].status \in Claimed =>
            flows'[g].status \in Claimed \/ (x.pc \in ClaimPcs /\ x.flow = g)
      BY <1>1, <2>4 DEF ClaimPcs
    <3> QED
      BY <1>3, <2>9, <3>1, <3>2, OthersFit
  <2>11. OneClaim'
    BY <1>3, ClaimsStayOne DEF ClaimPcs
  <2>12. AnsweredOnce'
    BY <1>3, <2>1, <2>4 DEF IInv, AnsweredOnce
  <2>13. \A g \in Flows, a \in Actors : Names(g, a)' => Names(g, a)
    BY <1>3, <2>1, <2>5 DEF Names, Polls, PollPcs
  <2>14. \A a \in Actors : ~Names(f, a)
    BY <1>1, <1>3 DEF IInv, Names, Polls, Unissued, Before, Fits, FitsIn, After
  <2>15. OneName'
    BY <2>4, <2>13, <2>14 DEF IInv, OneName, Exists
  <2> QED
    BY <2>7, <2>8, <2>10, <2>11, <2>12, <2>15 DEF IInv
<1>4. /\ Idle \in Request /\ Idle.pc = "idle"
      /\ [Idle EXCEPT !.pc = "done", !.reply = "signed_in"] \in Request
      /\ [Idle EXCEPT !.pc = "done", !.reply = "signed_in"].pc = "done"
  BY DEF Idle, Request, Pcs, OrNone, Replies
<1> QED
  BY <1>2, <1>3, <1>4 DEF CallbackComplete, Answer

LEMMA PollMarkStep ==
  ASSUME IInv, NEW s \in Slots, PollMark(s)
  PROVE  IInv'
<1> DEFINE x == req[s]
           f == x.flow
           p == <<f, x.actor>>
           row == [flows[f] EXCEPT !.status = "assertion_issued"]
           done == [x EXCEPT !.pc = "done", !.at = None, !.reply = "complete"]
<1>1. x \in Request /\ Fits(x) /\ x.pc = "poll_mark" /\ f \in Flows
        /\ x.actor \in Actors
  BY DEF IInv, TypeOK, PollMark, At, Fits, FitsIn, PollPcs
<1>2. CASE UNCHANGED <<flows, answered>> /\ Answer(s, "unavailable")
  BY <1>2, AnswerStep DEF PollMark, Replies, rows, world
<1>3. ASSUME NEW q \in Request, q.pc \in {"idle", "done"}, Markable(f),
             flows' = [flows EXCEPT ![f] = row],
             answered' \in {answered, [answered EXCEPT ![p] = @ + 1]},
             req' = [req EXCEPT ![s] = q]
      PROVE  IInv'
  <2>1. UNCHANGED <<now, tokens, cookies, accepted, cleaner>>
    BY DEF PollMark
  <2>2. flows[f] \in Flow /\ flows[f].status = "callback_complete"
          /\ flows[f].actor # None
    BY <1>1, <1>3 DEF IInv, TypeOK, Markable
  <2>3. row \in Flow /\ row.status = "assertion_issued"
          /\ row.actor = flows[f].actor /\ row.expiresAt = flows[f].expiresAt
    BY <2>2 DEF Flow, Statuses
  <2> HIDE DEF row
  <2>4. \A g \in Flows : flows'[g] = IF g = f THEN row ELSE flows[g]
    BY <1>3 DEF IInv, TypeOK
  <2>5. \A t \in Slots : req'[t] = IF t = s THEN q ELSE req[t]
    BY <1>3 DEF IInv, TypeOK
  <2>6. answered' \in [Flows \X Actors -> Nat]
    <3>1. p \in Flows \X Actors /\ answered[p] + 1 \in Nat
      BY <1>1 DEF IInv, TypeOK
    <3>2. answered \in [Flows \X Actors -> Nat]
      BY DEF IInv, TypeOK
    <3>3. CASE answered' = answered
      BY <3>2, <3>3
    <3>4. CASE answered' = [answered EXCEPT ![p] = @ + 1]
      BY <3>1, <3>2, <3>4
    <3> QED
      BY <1>3, <3>3, <3>4
  <2>7. TypeOK'
    BY <1>1, <1>3, <2>1, <2>2, <2>3, <2>4, <2>6 DEF IInv, TypeOK
  <2>8. Bounds' /\ Unissued'
    BY <2>1, <2>3, <2>4 DEF IInv, Bounds, Unissued, Before
  <2>9. FitsIn(q, flows')
    BY <1>3 DEF FitsIn, PollPcs, ClaimPcs
  <2>10. \A t \in Slots : Fits(req[t])'
    <3>1. \A g \in Flows : flows[g].status \in After => flows'[g].status \in After
      BY <2>3, <2>4 DEF After
    <3>2. \A g \in Flows : flows[g].status \in Claimed => flows'[g].status \in Claimed
      BY <2>2, <2>4 DEF Claimed
    <3> QED
      BY <1>3, <2>9, <3>1, <3>2, OthersFit
  <2>11. OneClaim'
    BY <1>3, ClaimsStayOne DEF ClaimPcs
  <2>12. AnsweredOnce'
    <3>1. \A a \in Actors : answered[<<f, a>>] = 0
      BY <1>1, <2>2 DEF IInv, TypeOK, AnsweredOnce
    <3>2. \A g \in Flows, a \in Actors :
            answered'[<<g, a>>] = answered[<<g, a>>]
              \/ (g = f /\ a = x.actor /\ answered'[<<g, a>>] = answered[<<g, a>>] + 1)
      BY <1>1, <1>3 DEF IInv, TypeOK
    <3> QED
      BY <2>3, <2>4, <3>1, <3>2 DEF IInv, AnsweredOnce
  <2>13. \A g \in Flows, a \in Actors : Names(g, a)' => Names(g, a)
    BY <1>3, <2>1, <2>5 DEF Names, Polls, PollPcs
  <2>14. OneName'
    BY <2>2, <2>3, <2>4, <2>13, NamesShrink DEF Exists
  <2> QED
    BY <2>7, <2>8, <2>10, <2>11, <2>12, <2>14 DEF IInv
<1>4. Idle \in Request /\ Idle.pc = "idle" /\ done \in Request /\ done.pc = "done"
  BY <1>1 DEF Idle, Request, Pcs, OrNone, Replies
<1> QED
  BY <1>2, <1>3, <1>4 DEF PollMark

-----------------------------------------------------------------------------
(* Steps that write assertions *)

LEMMA PollInsertStep ==
  ASSUME IInv, NEW s \in Slots, PollInsert(s)
  PROVE  IInv'
<1> USE IdentityAssumption
<1> DEFINE x == req[s]
           f == x.flow
           p == <<f, x.actor>>
           q == [x EXCEPT !.pc = "poll_select"]
           new == Inserted(tokens[p], x.at)
<1>1. /\ x \in Request /\ Fits(x) /\ x.pc = "poll_insert" /\ f \in Flows
      /\ x.actor \in Actors /\ x.at \in Time /\ x.at <= LastAlive
      /\ flows[f].status \in After
  BY DEF IInv, TypeOK, PollInsert, At, Fits, FitsIn, PollPcs
<1>2. /\ tokens' = [tokens EXCEPT ![p] = new] /\ req' = [req EXCEPT ![s] = q]
      /\ UNCHANGED <<now, flows, cookies, answered, accepted, cleaner>>
  BY DEF PollInsert, Goto, world
<1>3. tokens[p] \in Token
  BY <1>1 DEF IInv, TypeOK
<1>4. x.at + AssertionTtl \in Time
  BY <1>1 DEF Time, LastAlive
<1>5. new \in Token
  BY <1>1, <1>3, <1>4 DEF Inserted, Token
<1>6. /\ q \in Request
      /\ q.pc = "poll_select" /\ q.flow = f /\ q.at = x.at /\ q.actor = x.actor
  BY <1>1 DEF Request, Pcs
<1> HIDE DEF new, q
<1>7. \A g \in Flows, a \in Actors :
        tokens'[<<g, a>>] = IF g = f /\ a = x.actor THEN new ELSE tokens[<<g, a>>]
  BY <1>1, <1>2 DEF IInv, TypeOK
<1>8. \A t \in Slots : req'[t] = IF t = s THEN q ELSE req[t]
  BY <1>2 DEF IInv, TypeOK
<1>9. TypeOK'
  BY <1>2, <1>5, <1>6 DEF IInv, TypeOK
<1>10. Bounds' /\ AnsweredOnce'
  BY <1>2 DEF IInv, Bounds, AnsweredOnce
<1>11. Unissued'
  BY <1>1, <1>2, <1>7 DEF IInv, Unissued, Before, After
<1>12. FitsIn(q, flows')
  BY <1>1, <1>2, <1>6 DEF FitsIn, PollPcs, ClaimPcs
<1>13. \A t \in Slots : Fits(req[t])'
  BY <1>2, <1>6, <1>12, OthersFit
<1>14. OneClaim'
  BY <1>2, <1>6, ClaimsStayOne DEF ClaimPcs
<1>15. Names(f, x.actor)
  BY <1>1 DEF Names, Polls, PollPcs
<1>16. \A g \in Flows, a \in Actors : Names(g, a)' => Names(g, a)
  <2> SUFFICES ASSUME NEW g \in Flows, NEW a \in Actors, Names(g, a)',
                      ~(g = f /\ a = x.actor)
               PROVE  Names(g, a)
    BY <1>15
  <2> QED
    BY <1>6, <1>7, <1>8 DEF Names, Polls
<1>17. OneName'
  BY <1>2, <1>16, NamesShrink DEF Exists
<1> QED
  BY <1>9, <1>10, <1>11, <1>13, <1>14, <1>17 DEF IInv

LEMMA ConsumeStep ==
  ASSUME IInv, NEW s \in Slots, Consume(s)
  PROVE  IInv'
<1> DEFINE x == req[s]
           p == <<x.flow, x.actor>>
           new == [tokens[p] EXCEPT !.state = "consumed"]
           q == [Idle EXCEPT !.pc = "done", !.reply = "identity"]
<1>1. x.pc = "consume" /\ x.flow \in Flows /\ x.actor \in Actors
  BY DEF IInv, Consume, At, Fits, FitsIn
<1>2. CASE UNCHANGED <<tokens, accepted>> /\ Answer(s, "unavailable")
  BY <1>2, AnswerStep DEF Consume, Replies, rows, world
<1>3. CASE /\ tokens[p].state = "live" /\ tokens' = [tokens EXCEPT ![p] = new]
           /\ accepted' = [accepted EXCEPT ![p] = @ + 1] /\ Answer(s, "identity")
  <2>1. UNCHANGED <<now, flows, cookies, answered, cleaner>>
    BY DEF Consume
  <2>2. new \in Token /\ new.state = "consumed"
    <3>1. tokens[p] \in Token
      BY <1>1 DEF IInv, TypeOK
    <3> QED
      BY <3>1 DEF Token
  <2>3. q \in Request /\ q.pc = "done"
    BY DEF Idle, Request, Pcs, OrNone, Replies
  <2>4. req' = [req EXCEPT ![s] = q]
    BY <1>3 DEF Answer
  <2> HIDE DEF new, q
  <2>5. \A g \in Flows, a \in Actors :
          tokens'[<<g, a>>] =
            IF g = x.flow /\ a = x.actor THEN new ELSE tokens[<<g, a>>]
    BY <1>1, <1>3 DEF IInv, TypeOK
  <2>6. \A t \in Slots : req'[t] = IF t = s THEN q ELSE req[t]
    BY <2>4 DEF IInv, TypeOK
  <2>7. accepted' \in [Flows \X Actors -> Nat]
    BY <1>1, <1>3 DEF IInv, TypeOK
  <2>8. TypeOK'
    BY <1>3, <2>1, <2>2, <2>3, <2>4, <2>7 DEF IInv, TypeOK
  <2>9. Bounds' /\ AnsweredOnce'
    BY <2>1 DEF IInv, Bounds, AnsweredOnce
  <2>10. \A g \in Flows, a \in Actors :
           tokens'[<<g, a>>].state # "absent" => tokens[<<g, a>>].state # "absent"
    BY <1>3, <2>5
  <2>11. Unissued'
    BY <2>1, <2>10 DEF IInv, Unissued
  <2>12. \A t \in Slots : Fits(req[t])'
    BY <2>1, <2>3, <2>4, OthersFit DEF FitsIn, PollPcs, ClaimPcs
  <2>13. OneClaim'
    BY <2>3, <2>4, ClaimsStayOne DEF ClaimPcs
  <2>14. \A g \in Flows, a \in Actors : Names(g, a)' => Names(g, a)
    BY <2>3, <2>6, <2>10 DEF Names, Polls, PollPcs
  <2>15. OneName'
    BY <2>1, <2>14, NamesShrink DEF Exists
  <2> QED
    BY <2>8, <2>9, <2>11, <2>12, <2>13, <2>15 DEF IInv
<1> QED
  BY <1>2, <1>3 DEF Consume

-----------------------------------------------------------------------------
(* The clock, browsers and the cleanup *)

LEMMA ClockStep == ASSUME IInv, Tick PROVE IInv'
<1>1. now' = now + 1 /\ now < MaxTime
        /\ UNCHANGED <<flows, tokens, cookies, answered, accepted, cleaner, req>>
  BY DEF Tick, rows, world
<1>2. now' \in Time /\ now <= now'
  BY <1>1, IdentityAssumption DEF IInv, TypeOK, Time
<1>3. TypeOK'
  BY <1>1, <1>2 DEF IInv, TypeOK
<1>4. Bounds'
  <2>1. now \in Int /\ cleaner.at \in Int
    BY DEF IInv, TypeOK, Time
  <2> QED
    BY <1>1, <2>1 DEF IInv, Bounds
<1> QED
  BY <1>1, <1>3, <1>4
  DEF IInv, Unissued, OneName, Names, Exists, OneClaim, AnsweredOnce, Fits

LEMMA BrowserStep == ASSUME IInv, NEW f \in Flows, AuthorizeBrowser(f) PROVE IInv'
<1>1. cookies' = cookies \cup {f}
        /\ UNCHANGED <<now, flows, tokens, answered, accepted, cleaner, req>>
  BY DEF AuthorizeBrowser, rows
<1>2. TypeOK'
  BY <1>1 DEF IInv, TypeOK
<1> QED
  BY <1>1, <1>2
  DEF IInv, Bounds, Unissued, OneName, Names, Exists, OneClaim, AnsweredOnce, Fits

\* The cleanup takes or gives back its turn.
LEMMA CleanerStep ==
  ASSUME IInv, UNCHANGED <<now, rows, world, req>>,
         cleaner' \in [pc: {"idle", "flows", "assertions"}, at: Time],
         cleaner'.at <= now
  PROVE  IInv'
<1>1. UNCHANGED <<flows, tokens, cookies, answered, accepted>>
  BY DEF rows, world
<1>2. TypeOK' /\ Bounds'
  BY <1>1 DEF IInv, TypeOK, Bounds
<1> QED
  BY <1>1, <1>2
  DEF IInv, Unissued, OneName, Names, Exists, OneClaim, AnsweredOnce, Fits

LEMMA DeleteFlowsStep == ASSUME IInv, DeleteFlows PROVE IInv'
<1> DEFINE gone == [NoFlow EXCEPT !.status = "deleted"]
<1>1. /\ cleaner.pc = "flows" /\ cleaner' = [cleaner EXCEPT !.pc = "assertions"]
      /\ UNCHANGED <<now, tokens, cookies, answered, accepted, req>>
  BY DEF DeleteFlows, world
<1>2. gone \in Flow /\ gone.status = "deleted" /\ gone.expiresAt = 0
  BY IdentityAssumption DEF NoFlow, Flow, Statuses, OrNone, Time
<1>3. \A f \in Flows :
        flows'[f] = IF Exists(f) /\ FlowExpired(flows[f], cleaner.at)
                    THEN gone ELSE flows[f]
  BY DEF DeleteFlows
<1> HIDE DEF gone
<1>4. \A f \in Flows : flows'[f] = flows[f] \/ (flows'[f] = gone /\ Exists(f))
  BY <1>3
<1>5. cleaner' \in [pc: {"idle", "flows", "assertions"}, at: Time]
        /\ cleaner'.at = cleaner.at
  BY <1>1 DEF IInv, TypeOK
<1>6. DOMAIN flows' = Flows /\ flows' = [f \in Flows |-> flows'[f]]
  BY DEF DeleteFlows
<1>7. flows' \in [Flows -> Flow]
  BY <1>2, <1>4, <1>6 DEF IInv, TypeOK
<1>8. TypeOK'
  BY <1>1, <1>2, <1>4, <1>5, <1>7 DEF IInv, TypeOK
<1>9. Bounds'
  BY <1>1, <1>2, <1>4, <1>5, IdentityAssumption DEF IInv, Bounds, LastAlive
<1>10. Unissued'
  BY <1>1, <1>2, <1>4 DEF IInv, Unissued, Before
<1>11. OneName'
  <2>1. \A f \in Flows : Exists(f)' => Exists(f) /\ flows'[f].actor = flows[f].actor
    BY <1>2, <1>4 DEF Exists
  <2>2. \A f \in Flows, a \in Actors : Names(f, a)' => Names(f, a)
    BY <1>1 DEF Names
  <2> QED
    BY <2>1, <2>2, NamesShrink
<1>12. OneClaim'
  BY <1>1 DEF IInv, OneClaim
<1>13. AnsweredOnce'
  BY <1>1, <1>2, <1>4 DEF IInv, AnsweredOnce
<1>14. \A s \in Slots : Fits(req[s])'
  <2> SUFFICES ASSUME NEW s \in Slots PROVE Fits(req[s])'
    OBVIOUS
  <2>1. Fits(req[s])
    BY DEF IInv
  <2> QED
    BY <1>1, <1>2, <1>4, <2>1 DEF Fits, FitsIn, PollPcs, ClaimPcs, After, Claimed
<1> QED
  BY <1>8, <1>9, <1>10, <1>11, <1>12, <1>13, <1>14 DEF IInv

LEMMA DeleteAssertionsStep == ASSUME IInv, DeleteAssertions PROVE IInv'
<1>1. /\ cleaner' = [cleaner EXCEPT !.pc = "idle", !.at = 0]
      /\ UNCHANGED <<now, flows, cookies, answered, accepted, req>>
  BY DEF DeleteAssertions, world
<1>2. /\ tokens' = [p \in Flows \X Actors |-> tokens'[p]]
      /\ \A p \in Flows \X Actors : tokens'[p] = tokens[p] \/ tokens'[p] = NoToken
  BY DEF DeleteAssertions
<1>3. NoToken \in Token /\ NoToken.state = "absent" /\ 0 \in Time
  BY IdentityAssumption DEF NoToken, Token, Time
<1>4. tokens' \in [Flows \X Actors -> Token]
  BY <1>2, <1>3 DEF IInv, TypeOK
<1>5. cleaner' \in [pc: {"idle", "flows", "assertions"}, at: Time] /\ cleaner'.at = 0
  BY <1>1, <1>3 DEF IInv, TypeOK
<1>6. TypeOK'
  BY <1>1, <1>4, <1>5 DEF IInv, TypeOK
<1>7. Bounds'
  BY <1>1, <1>5 DEF IInv, Bounds, TypeOK, Time
<1>8. \A f \in Flows, a \in Actors :
        tokens[<<f, a>>].state = "absent" => tokens'[<<f, a>>].state = "absent"
  BY <1>2, <1>3
<1>9. Unissued'
  BY <1>1, <1>8 DEF IInv, Unissued
<1>10. OneName'
  <2>1. \A f \in Flows, a \in Actors : Names(f, a)' => Names(f, a)
    BY <1>1, <1>8 DEF Names
  <2> QED
    BY <1>1, <2>1, NamesShrink DEF Exists
<1> QED
  BY <1>1, <1>6, <1>7, <1>9, <1>10 DEF IInv, OneClaim, AnsweredOnce, Fits

LEMMA CleanStep == ASSUME IInv, Clean PROVE IInv'
<1> USE IdentityAssumption
<1>1. CASE CleanBegin
  <2>1. cleaner' = [pc |-> "flows", at |-> now] /\ UNCHANGED <<now, rows, world, req>>
    BY <1>1 DEF CleanBegin
  <2> QED
    BY <2>1, CleanerStep DEF IInv, TypeOK, Time
<1>2. CASE CleanFail
  <2>1. cleaner' = [pc |-> "idle", at |-> 0] /\ UNCHANGED <<now, rows, world, req>>
    BY <1>2 DEF CleanFail
  <2> QED
    BY <2>1, CleanerStep DEF IInv, TypeOK, Time
<1> QED
  BY <1>1, <1>2, DeleteFlowsStep, DeleteAssertionsStep DEF Clean

-----------------------------------------------------------------------------
(* The invariant and what follows from it *)

LEMMA ServeStep == ASSUME IInv, NEW s \in Slots, Serve(s) PROVE IInv'
<1>1. CASE CallbackSelect(s)
  BY <1>1, AnswerStep, GotoStep DEF CallbackSelect, Replies
<1>2. CASE PollSelect(s)
  BY <1>2, AnswerStep, GotoStep DEF PollSelect, Replies
<1> QED
  BY <1>1, <1>2, CallbackClaimStep, CallbackResolveStep, CallbackCompleteStep,
     PollFindStep, PollInsertStep, PollMarkStep, ConsumeStep DEF Serve

LEMMA BeginStep == ASSUME IInv, NEW s \in Slots, Begin(s) PROVE IInv'
<1> PICK f \in Flows :
      CallbackBegin(s, f) \/ PollBegin(s, f) \/ \E a \in Actors : ConsumeBegin(s, f, a)
  BY DEF Begin
<1> QED
  BY AcceptStep DEF CallbackBegin, PollBegin, ConsumeBegin, OrNone

LEMMA NextIInv == IInv /\ [Next]_vars => IInv'
<1> SUFFICES ASSUME IInv, [Next]_vars PROVE IInv'
  OBVIOUS
<1>1. CASE UNCHANGED vars
  BY <1>1
  DEF vars, rows, world, IInv, TypeOK, Bounds, Unissued, OneName, Names, Exists,
      OneClaim, AnsweredOnce, Fits
<1>2. ASSUME NEW f \in Flows, StartFlow(f) \/ AuthorizeBrowser(f) PROVE IInv'
  BY <1>2, StartStep, BrowserStep
<1>3. ASSUME NEW s \in Slots, Begin(s) \/ Serve(s) \/ Drop(s) PROVE IInv'
  BY <1>3, BeginStep, ServeStep, IdleStep DEF Drop
<1> QED
  BY <1>1, <1>2, <1>3, ClockStep, CleanStep DEF Next

LEMMA NamedByOne == IInv => OneActor
<1> SUFFICES ASSUME IInv, NEW f \in Flows
             PROVE  LET named == {a \in Actors : tokens[<<f, a>>].state # "absent"}
                          \cup {req[s].actor : s \in {t \in Slots :
                                  /\ req[t].flow = f
                                  /\ req[t].pc \in PollPcs}}
                    IN  /\ \A a, b \in named : a = b
                        /\ Exists(f) => named \subseteq {flows[f].actor}
  BY DEF OneActor, PollPcs
<1> DEFINE named == {a \in Actors : tokens[<<f, a>>].state # "absent"}
                      \cup {req[s].actor : s \in {t \in Slots :
                              /\ req[t].flow = f
                              /\ req[t].pc \in PollPcs}}
<1>1. \A s \in Slots : req[s].pc \in PollPcs => req[s].actor \in Actors
  BY DEF IInv, Fits, FitsIn
<1>2. \A a \in named : a \in Actors /\ Names(f, a)
  BY <1>1 DEF Names, Polls
<1> QED
  BY <1>2 DEF IInv, OneName

LEMMA SpentStep ==
  ASSUME IInv, [Next]_vars, NEW p \in Flows \X Actors, tokens[p].state = "consumed"
  PROVE  \/ tokens'[p] = tokens[p]
         \/ tokens'[p].state = "absent" /\ tokens[p].expiresAt <= now
<1>1. CASE DeleteAssertions
  <2>1. tokens'[p] = IF tokens[p].expiresAt <= cleaner.at THEN NoToken ELSE tokens[p]
    BY <1>1 DEF DeleteAssertions
  <2>2. tokens[p].expiresAt \in Int /\ cleaner.at \in Int /\ now \in Int
    BY DEF IInv, TypeOK, Token, Time
  <2> QED
    BY <2>1, <2>2 DEF IInv, Bounds, NoToken
<1>2. ASSUME NEW s \in Slots, PollInsert(s) PROVE tokens'[p] = tokens[p]
  <2>1. \E q : tokens' = [tokens EXCEPT ![q] = Inserted(@, req[s].at)]
    BY <1>2 DEF PollInsert
  <2> QED
    BY <2>1 DEF Inserted, IInv, TypeOK
<1>3. ASSUME NEW s \in Slots, Consume(s) PROVE tokens'[p] = tokens[p]
  BY <1>3 DEF Consume, IInv, TypeOK
<1>4. CASE UNCHANGED tokens
  BY <1>4
<1>5. ASSUME NEW s \in Slots, Begin(s) \/ Drop(s) PROVE UNCHANGED tokens
  BY <1>5 DEF Begin, CallbackBegin, PollBegin, ConsumeBegin, Accept, Drop, rows
<1>6. ASSUME NEW s \in Slots, Serve(s), ~PollInsert(s), ~Consume(s) PROVE UNCHANGED tokens
  BY <1>6 DEF Serve, CallbackSelect, CallbackClaim, CallbackResolve, CallbackComplete,
     PollFind, PollSelect, PollMark, rows
<1>7. ASSUME NEW f \in Flows, StartFlow(f) \/ AuthorizeBrowser(f) PROVE UNCHANGED tokens
  BY <1>7 DEF StartFlow, AuthorizeBrowser, rows
<1>8. ASSUME \/ Tick \/ CleanBegin \/ DeleteFlows \/ CleanFail \/ UNCHANGED vars
      PROVE  UNCHANGED tokens
  BY <1>8 DEF Tick, CleanBegin, DeleteFlows, CleanFail, rows, vars
<1> QED
  BY <1>1, <1>2, <1>3, <1>4, <1>5, <1>6, <1>7, <1>8 DEF Next, Clean

LEMMA IdentityInv == Spec => []IInv
BY InitIInv, NextIInv, PTL DEF Spec

\* Rows, requests and the cleanup keep their types, and a flow that completed
\* or issued its assertion has its actor (CHECK of 0002_slop_identity.sql).
THEOREM IdentityTypes == Spec => []TypeOK
<1>1. IInv => TypeOK
  BY DEF IInv
<1> QED
  BY <1>1, IdentityInv, PTL

\* However many callbacks and polls of a flow race with each other and with
\* the cleanup, its assertions are for one GitHub account, the flow's.
THEOREM FlowsHaveOneActor == Spec => []OneActor
BY NamedByOne, IdentityInv, PTL

\* At most one poll answer carries a flow's assertion (handlePoll).
THEOREM AssertionsAnsweredOnce == Spec => []AnsweredOnce
<1>1. IInv => AnsweredOnce
  BY DEF IInv
<1> QED
  BY <1>1, IdentityInv, PTL

\* No late poll and no second consumption makes a consumed assertion live
\* again before the cleanup deletes it (handleConsume, cleanupExpired).
THEOREM SpentStaysSpent == Spec => SpentUntilExpiry
<1>1. IInv /\ [Next]_vars =>
        [\A p \in Flows \X Actors :
           tokens[p].state = "consumed" =>
             \/ tokens'[p] = tokens[p]
             \/ tokens'[p].state = "absent" /\ tokens[p].expiresAt <= now]_vars
  BY SpentStep
<1> QED
  BY <1>1, IdentityInv, PTL DEF Spec, SpentUntilExpiry
=============================================================================
