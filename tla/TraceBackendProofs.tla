------------------------- MODULE TraceBackendProofs -------------------------
(***************************************************************************)
(* Proofs about TraceBackend for every set of runs, keys, users, digests,  *)
(* content types and slots, and every bound of the clock.                  *)
(*                                                                         *)
(* A request works on what it read several awaits ago, so the safety of    *)
(* the tables is not inductive without saying what is still true of each   *)
(* request in flight (Fits) and which row ids are still unused (Fresh).    *)
(***************************************************************************)
EXTENDS TraceBackend, TLAPS

CreatePcs == {"create_select", "create_insert", "create_reselect", "create_read"}
IntentPcs ==
  {"intent_owner", "intent_stamp", "intent_select", "intent_insert",
   "intent_renew", "intent_reselect"}
UploadPcs ==
  {"upload_intent", "upload_body", "upload_object", "r2_head", "r2_put",
   "r2_verify", "attach_select", "attach_run", "attach_batch",
   "attach_catch", "attach_read"}
FinalizePcs == {"finalize_read", "finalize_update", "finalize_reread"}
EventPcs == {"event_owner", "event_select", "event_insert"}

\* A creation that has not inserted its row yet.
Pending(q) == q.pc \in {"create_select", "create_insert"}

\* What every statement of a request q in flight may rely on, given the rows
\* of runs and intents, the bucket and the clock.
FitsIn(q, rows, opened, bucket, clock) ==
  /\ q.pc \in CreatePcs =>
       /\ q.op = "create" /\ q.key \in RunKeys /\ q.run \in Runs
       /\ q.body \in Bodies /\ q.at = None
  /\ Pending(q) => rows[q.run].state = "absent"
  /\ q.pc \in IntentPcs => q.op = "intent"
  /\ q.pc \in IntentPcs \cup (UploadPcs \ {"upload_intent"}) =>
       q.key \in Keys /\ q.run \in Runs /\ q.sha \in Digests /\ q.ctype \in Types
  /\ q.pc \in IntentPcs \ {"intent_owner"} => rows[q.run].state # "absent"
  /\ q.pc \in IntentPcs \ {"intent_owner", "intent_stamp"} => q.at \in Time
  /\ q.pc \in {"intent_renew", "intent_reselect"} => opened[q.key].run # None
  /\ q.pc \in UploadPcs =>
       q.op = "upload" /\ q.key \in Keys /\ q.at \in Time /\ opened[q.key].run # None
  /\ q.pc \in UploadPcs \ {"upload_intent"} => SameIntent(opened[q.key], q)
  /\ q.pc \in {"attach_select", "attach_run", "attach_batch"} => bucket[q.sha] # None
  /\ q.pc \in FinalizePcs => q.op = "finalize" /\ q.run \in Runs
  /\ q.pc = "finalize_update" => q.at \in Time
  /\ q.pc \in EventPcs =>
       q.op = "event" /\ q.key \in EventKeys /\ q.run \in Runs /\ q.body \in Bodies
  /\ q.at # None => q.at <= clock

Fits(q) == FitsIn(q, runs, intents, r2, now)

\* Row ids of pending creations are held by no other creation.
Fresh ==
  \A s, t \in Slots :
    s # t /\ Pending(req[s]) /\ req[t].op = "create" => req[t].run # req[s].run

\* Rows are whole: absent rows are blank, an intent names a run that exists,
\* and a run carries a digest exactly when its state says so.
RowsWhole ==
  /\ \A r \in Runs :
       /\ runs[r].state = "absent" => runs[r] = NoRun
       /\ runs[r].state # "absent" => runs[r].key \in RunKeys
       /\ runs[r].sha # None <=> runs[r].state \in {"trace_uploaded", "finalized"}
  /\ \A k \in Keys :
       /\ intents[k].run = None => intents[k] = NoIntent
       /\ intents[k].run # None =>
            /\ intents[k].sha \in Digests /\ intents[k].ctype \in Types
            /\ runs[intents[k].run].state # "absent"

Tables == RowsWhole /\ AttachmentComplete /\ CapabilitySpentWhole

IInv ==
  /\ TypeOK
  /\ Tables
  /\ Fresh
  /\ \A s \in Slots : Fits(req[s])

-----------------------------------------------------------------------------
(* The tables only grow, so a request in flight keeps what it relies on. *)

Grows(rows, opened, bucket, clock, rows2, opened2, bucket2, clock2) ==
  /\ \A r \in Runs : rows[r].state # "absent" => rows2[r].state # "absent"
  /\ \A k \in Keys : opened[k].run # None =>
       opened2[k].run = opened[k].run /\ opened2[k].sha = opened[k].sha
         /\ opened2[k].ctype = opened[k].ctype
  /\ \A d \in Digests : bucket[d] # None => bucket2[d] # None
  /\ clock \in Int /\ clock2 \in Int /\ clock <= clock2

LEMMA FitsGrow ==
  ASSUME NEW q \in Request, NEW rows, NEW opened, NEW bucket, NEW clock,
         NEW rows2, NEW opened2, NEW bucket2, NEW clock2,
         Grows(rows, opened, bucket, clock, rows2, opened2, bucket2, clock2),
         Pending(q) => rows2[q.run].state = "absent",
         FitsIn(q, rows, opened, bucket, clock)
  PROVE  FitsIn(q, rows2, opened2, bucket2, clock2)
<1>1. q.at # None => q.at \in Int
  BY DEF Request, OrNone, Time
<1> QED
  BY <1>1 DEF FitsIn, Grows, SameIntent, Pending, CreatePcs, IntentPcs, UploadPcs,
     FinalizePcs, EventPcs

LEMMA QuietStep ==
  ASSUME IInv, NEW s \in Slots, NEW q \in Request,
         UNCHANGED <<now, tables, r2>>, req' = [req EXCEPT ![s] = q],
         Fits(q), Fresh'
  PROVE  IInv'
<1>1. TypeOK'
  BY DEF IInv, TypeOK, tables
<1>2. Tables'
  BY DEF IInv, Tables, tables, RowsWhole, AttachmentComplete, CapabilitySpentWhole
<1>3. ASSUME NEW t \in Slots PROVE Fits(req[t])'
  <2>1. req'[t] = IF t = s THEN q ELSE req[t]
    BY DEF IInv, TypeOK
  <2> QED
    BY <2>1 DEF IInv, Fits, tables
<1> QED
  BY <1>1, <1>2, <1>3 DEF IInv

\* A creation either keeps its id or names a row that exists.
LEMMA FreshStep ==
  ASSUME IInv, NEW s \in Slots, NEW q \in Request,
         req' = [req EXCEPT ![s] = q],
         Pending(q) => Pending(req[s]) /\ req[s].op = "create" /\ q.run = req[s].run,
         q.op = "create" =>
           \/ req[s].op = "create" /\ q.run = req[s].run
           \/ q.run \in Runs /\ runs[q.run].state # "absent"
           \/ q.run = None
  PROVE  Fresh'
<1>1. \A t \in Slots : req'[t] = IF t = s THEN q ELSE req[t]
  BY DEF IInv, TypeOK
<1>2. \A t \in Slots : Pending(req[t]) =>
        req[t].run \in Runs /\ runs[req[t].run].state = "absent"
  BY DEF IInv, Fits, FitsIn, Pending, CreatePcs
<1>3. None \notin Runs
  BY ConstantsAssumption
<1> QED
  BY <1>1, <1>2, <1>3 DEF IInv, Fresh, Pending

-----------------------------------------------------------------------------
(* Steps that change only the request in slot s. *)

\* q is the request x with its control at p.
Moved(q, x, p) ==
  /\ q.pc = p /\ q.op = x.op /\ q.user = x.user /\ q.key = x.key /\ q.run = x.run
  /\ q.sha = x.sha /\ q.ctype = x.ctype /\ q.body = x.body /\ q.at = x.at

LEMMA MovedRequest ==
  ASSUME NEW x \in Request, NEW p \in Pcs
  PROVE  [x EXCEPT !.pc = p] \in Request /\ Moved([x EXCEPT !.pc = p], x, p)
BY DEF Request, Moved

\* The control moves on and nothing else of the request changes.
LEMMA GotoStep ==
  ASSUME IInv, NEW s \in Slots, NEW p \in Pcs,
         Goto(s, p), UNCHANGED <<now, tables, r2>>,
         \A q \in Request : Moved(q, req[s], p) => Fits(q),
         p \in {"create_select", "create_insert"} => req[s].pc = "create_select"
  PROVE  IInv'
<1> DEFINE q == [req[s] EXCEPT !.pc = p]
<1>1. req[s] \in Request
  BY DEF IInv, TypeOK
<1>2. q \in Request /\ Moved(q, req[s], p)
  BY <1>1, MovedRequest
<1>3. req' = [req EXCEPT ![s] = q]
  BY DEF Goto
<1> HIDE DEF q
<1>4. Pending(q) => Pending(req[s]) /\ req[s].op = "create"
  BY <1>2 DEF Pending, IInv, Fits, FitsIn, CreatePcs, Moved
<1>5. Fresh'
  BY <1>2, <1>3, <1>4, FreshStep DEF Moved
<1> QED
  BY <1>2, <1>3, <1>5, QuietStep

\* A request that is over relies on nothing.
LEMMA DoneFits ==
  ASSUME NEW q \in Request, q.pc \in {"idle", "done"}, q.at = None
  PROVE  Fits(q)
BY DEF Fits, FitsIn, Pending, CreatePcs, IntentPcs, UploadPcs, FinalizePcs, EventPcs

\* The request ends with q, which keeps the run of a creation.
LEMMA EndStep ==
  ASSUME IInv, NEW s \in Slots, NEW q \in Request,
         q.pc \in {"idle", "done"}, q.at = None,
         req' = [req EXCEPT ![s] = q], UNCHANGED <<now, tables, r2>>,
         q.op = "create" =>
           \/ req[s].op = "create" /\ q.run = req[s].run
           \/ q.run \in Runs /\ runs[q.run].state # "absent"
           \/ q.run = None
  PROVE  IInv'
<1>1. Fits(q) /\ ~Pending(q)
  BY DoneFits DEF Pending
<1>2. Fresh'
  BY <1>1, FreshStep
<1> QED
  BY <1>1, <1>2, QuietStep

LEMMA IdleRequest ==
  /\ Idle \in Request
  /\ \A o \in OrNone(Ops), a \in Replies :
       [Idle EXCEPT !.op = o, !.pc = "done", !.reply = a] \in Request
<1>1. Idle \in Request
  BY DEF Idle, Request, OrNone, Pcs
<1>2. ASSUME NEW o \in OrNone(Ops), NEW a \in Replies
      PROVE  [Idle EXCEPT !.op = o, !.pc = "done", !.reply = a] \in Request
  <2>1. "done" \in Pcs /\ a \in OrNone(Replies)
    BY DEF Pcs, OrNone
  <2> QED
    BY <1>1, <2>1 DEF Request
<1> QED
  BY <1>1, <1>2

LEMMA RefusedRequest ==
  ASSUME NEW o \in OrNone(Ops), NEW a \in Replies
  PROVE  LET q == [Idle EXCEPT !.op = o, !.pc = "done", !.reply = a] IN
         q \in Request /\ q.pc = "done" /\ q.at = None /\ q.op = o /\ q.run = None
BY IdleRequest DEF Idle

LEMMA RefuseStep ==
  ASSUME IInv, NEW s \in Slots, NEW a \in Replies,
         Refuse(s, a), UNCHANGED <<now, tables, r2>>
  PROVE  IInv'
<1> DEFINE q == [Idle EXCEPT !.op = req[s].op, !.pc = "done", !.reply = a]
<1>1. req[s].op \in OrNone(Ops)
  BY DEF IInv, TypeOK, Request
<1>2. q \in Request
  BY <1>1, IdleRequest
<1>3. q.pc = "done" /\ q.at = None /\ q.run = None
  BY DEF Idle
<1>4. req' = [req EXCEPT ![s] = q]
  BY DEF Refuse
<1> QED
  BY <1>2, <1>3, <1>4, EndStep

LEMMA AnsweredRequest ==
  ASSUME NEW x \in Request, NEW a \in Replies
  PROVE  LET q == [x EXCEPT !.pc = "done", !.reply = a, !.at = None] IN
         q \in Request /\ q.pc = "done" /\ q.at = None /\ q.run = x.run /\ q.op = x.op
<1>1. "done" \in Pcs /\ a \in OrNone(Replies) /\ None \in OrNone(Time)
  BY DEF Pcs, OrNone
<1> QED
  BY <1>1 DEF Request

LEMMA AnswerStep ==
  ASSUME IInv, NEW s \in Slots, NEW a \in Replies,
         Answer(s, a), UNCHANGED <<now, tables, r2>>
  PROVE  IInv'
<1> DEFINE q == [req[s] EXCEPT !.pc = "done", !.reply = a, !.at = None]
<1>1. req[s] \in Request
  BY DEF IInv, TypeOK
<1>2. q \in Request /\ q.pc = "done" /\ q.at = None /\ q.run = req[s].run
        /\ q.op = req[s].op
  BY <1>1, AnsweredRequest
<1>3. req' = [req EXCEPT ![s] = q]
  BY DEF Answer
<1> HIDE DEF q
<1> QED
  BY <1>2, <1>3, EndStep

LEMMA DropStep ==
  ASSUME IInv, NEW s \in Slots, Drop(s)
  PROVE  IInv'
<1>1. Idle.pc = "idle" /\ Idle.at = None /\ Idle.run = None
  BY DEF Idle
<1> QED
  BY <1>1, IdleRequest, EndStep DEF Drop

LEMMA ExistingRequest ==
  ASSUME NEW x \in Request, NEW r \in Runs
  PROVE  LET q == [x EXCEPT !.pc = "done", !.run = r, !.reply = "existing"] IN
         q \in Request /\ q.pc = "done" /\ q.run = r /\ q.at = x.at
<1>1. "done" \in Pcs /\ "existing" \in OrNone(Replies) /\ r \in OrNone(Runs)
  BY DEF Pcs, OrNone, Replies
<1> QED
  BY <1>1 DEF Request

-----------------------------------------------------------------------------
(* Creation *)

LEMMA CreateQuiet ==
  ASSUME IInv, NEW s \in Slots,
         CreateSelect(s) \/ CreateReselect(s) \/ CreateRead(s)
  PROVE  IInv'
<1> DEFINE x == req[s]
           found == RunFor(x.key)
<1>1. x \in Request /\ Fits(x)
  BY DEF IInv, TypeOK
<1>2. UNCHANGED <<now, tables, r2>>
  BY DEF CreateSelect, CreateReselect, CreateRead
<1>3. x.op = "create" /\ x.key \in RunKeys /\ x.at = None
  BY <1>1 DEF CreateSelect, CreateReselect, CreateRead, At, Fits, FitsIn, CreatePcs
<1>4. CASE AnswerStoredRun(s) /\ ~Refuse(s, "conflict")
  <2> DEFINE q == [x EXCEPT !.pc = "done", !.run = found, !.reply = "existing"]
  <2>1. found \in Runs /\ runs[found].key = x.key
    BY <1>4 DEF AnswerStoredRun, HasRunFor, RunFor
  <2>2. runs[found].state # "absent"
    BY <2>1, <1>3, ConstantsAssumption DEF IInv, Tables, RowsWhole, NoRun
  <2>3. req' = [req EXCEPT ![s] = q]
    BY <1>4 DEF AnswerStoredRun
  <2>4. q \in Request /\ q.pc = "done" /\ q.at = None /\ q.run = found
    BY <1>1, <1>3, <2>1, ExistingRequest
  <2> HIDE DEF q, found
  <2> QED
    BY <1>2, <2>1, <2>2, <2>3, <2>4, EndStep
<1>5. CASE Refuse(s, "conflict") \/ Refuse(s, "error")
  BY <1>2, <1>5, RefuseStep DEF Replies
<1>6. CASE Answer(s, "created")
  BY <1>2, <1>6, AnswerStep DEF Replies
<1>7. CASE At(s, "create_select") /\ Goto(s, "create_insert")
  <2>1. ASSUME NEW q \in Request, Moved(q, x, "create_insert") PROVE Fits(q)
    BY <1>1, <1>7, <2>1 DEF Moved, At, Fits, FitsIn, Pending, CreatePcs, IntentPcs,
       UploadPcs, FinalizePcs, EventPcs
  <2> QED
    BY <1>2, <1>7, <2>1, GotoStep DEF At, Pcs
<1> QED
  BY <1>4, <1>5, <1>6, <1>7
     DEF CreateSelect, CreateReselect, CreateRead, AnswerStoredRun

-----------------------------------------------------------------------------
(* Upload intents *)

\* q is the request x with its control at p and its stamp n.
Stamped(q, x, p, n) ==
  /\ q.pc = p /\ q.at = n /\ q.op = x.op /\ q.key = x.key /\ q.run = x.run
  /\ q.sha = x.sha /\ q.ctype = x.ctype /\ q.body = x.body

LEMMA StampedRequest ==
  ASSUME NEW x \in Request, NEW p \in Pcs, NEW n \in Time
  PROVE  LET q == [x EXCEPT !.pc = p, !.at = n] IN
         q \in Request /\ Stamped(q, x, p, n)
<1>1. n \in OrNone(Time)
  BY DEF OrNone
<1> QED
  BY <1>1 DEF Request, Stamped

LEMMA IntentQuiet ==
  ASSUME IInv, NEW s \in Slots,
         IntentOwner(s) \/ IntentStamp(s) \/ IntentSelect(s) \/
         IntentReselect(s)
  PROVE  IInv'
<1> DEFINE x == req[s]
<1>1. x \in Request /\ Fits(x)
  BY DEF IInv, TypeOK
<1>2. UNCHANGED <<now, tables, r2>>
  BY DEF IntentOwner, IntentStamp, IntentSelect, IntentReselect
<1>3. CASE Refuse(s, "not_found") \/ Refuse(s, "run_finalized") \/ Refuse(s,
           "conflict")
  BY <1>2, <1>3, RefuseStep DEF Replies
<1>4. CASE Answer(s, "existing")
  BY <1>2, <1>4, AnswerStep DEF Replies
<1>5. CASE At(s, "intent_owner") /\ Owns(x.user, x.run)
           /\ Goto(s, "intent_stamp")
  <2>1. ASSUME NEW q \in Request, Moved(q, x, "intent_stamp") PROVE Fits(q)
    BY <1>1, <1>5, <2>1 DEF Moved, At, Fits, FitsIn, Pending, CreatePcs, IntentPcs, UploadPcs,
       FinalizePcs, EventPcs, Owns
  <2> QED
    BY <1>2, <1>5, <2>1, GotoStep DEF At, Pcs
<1>6. CASE At(s, "intent_select") /\ Goto(s, "intent_insert")
  <2>1. ASSUME NEW q \in Request, Moved(q, x, "intent_insert") PROVE Fits(q)
    BY <1>1, <1>6, <2>1 DEF Moved, At, Fits, FitsIn, Pending, CreatePcs, IntentPcs, UploadPcs,
       FinalizePcs, EventPcs
  <2> QED
    BY <1>2, <1>6, <2>1, GotoStep DEF At, Pcs
<1>7. CASE At(s, "intent_select") /\ intents[x.key].run # None
           /\ Goto(s, "intent_renew")
  <2>1. ASSUME NEW q \in Request, Moved(q, x, "intent_renew") PROVE Fits(q)
    BY <1>1, <1>7, <2>1 DEF Moved, At, Fits, FitsIn, Pending, CreatePcs, IntentPcs, UploadPcs,
       FinalizePcs, EventPcs
  <2> QED
    BY <1>2, <1>7, <2>1, GotoStep DEF At, Pcs
<1>8. CASE IntentStamp(s)
  <2> DEFINE q == [x EXCEPT !.pc = "intent_select", !.at = now]
  <2>1. now \in Time /\ "intent_select" \in Pcs
    BY DEF IInv, TypeOK, Pcs
  <2>2. q \in Request /\ Stamped(q, x, "intent_select", now)
    <3> HIDE DEF x
    <3> QED
      BY <1>1, <2>1, StampedRequest
  <2>3. req' = [req EXCEPT ![s] = q]
    BY <1>8 DEF IntentStamp
  <2>4. x.pc = "intent_stamp"
    BY <1>8 DEF IntentStamp, At
  <2> HIDE DEF q
  <2>5. Fits(q) /\ ~Pending(q) /\ x.op # "create"
    BY <1>1, <2>1, <2>2, <2>4 DEF Fits, FitsIn, Pending, CreatePcs, IntentPcs,
       UploadPcs, FinalizePcs, EventPcs, Time, Stamped
  <2> HIDE DEF x
  <2>6. Fresh'
    BY <2>2, <2>3, <2>5, FreshStep DEF x, Stamped
  <2> QED
    BY <1>2, <2>2, <2>3, <2>5, <2>6, QuietStep
<1> QED
  BY <1>3, <1>4, <1>5, <1>6, <1>7, <1>8
     DEF IntentOwner, IntentSelect, IntentReselect, Owns

-----------------------------------------------------------------------------
(* Uploads, up to and after the attachment batch *)

\* q is the upload x that has read its intent's row.
Filled(q, x, row) ==
  /\ q.pc = "upload_body" /\ q.op = x.op /\ q.key = x.key /\ q.at = x.at
  /\ SameIntent(row, q)

LEMMA FilledRequest ==
  ASSUME NEW x \in Request, NEW row \in IntentRow
  PROVE  LET q == [x EXCEPT !.pc = "upload_body", !.run = row.run,
                            !.sha = row.sha, !.ctype = row.ctype] IN
         q \in Request /\ Filled(q, x, row)
<1>1. /\ "upload_body" \in Pcs /\ row.run \in OrNone(Runs)
      /\ row.sha \in OrNone(Digests) /\ row.ctype \in OrNone(Types)
  BY DEF Pcs, IntentRow
<1> QED
  BY <1>1 DEF Request, Filled, SameIntent

LEMMA UploadQuiet ==
  ASSUME IInv, NEW s \in Slots,
         UploadIntent(s) \/ UploadBody(s) \/ UploadObject(s) \/ R2Head(s) \/
         R2Verify(s) \/ AttachSelect(s) \/ AttachRun(s) \/ AttachCatch(s) \/
         AttachRead(s)
  PROVE  IInv'
<1> DEFINE x == req[s]
<1>1. x \in Request /\ Fits(x)
  BY DEF IInv, TypeOK
<1>2. UNCHANGED <<now, tables, r2>>
  BY DEF UploadIntent, UploadBody, UploadObject, R2Head, R2Verify,
     AttachSelect, AttachRun, AttachCatch, AttachRead
<1>3. CASE Refuse(s, "gone") \/ Refuse(s, "mismatch") \/ Refuse(s,
           "conflict") \/ Refuse(s, "error")
  BY <1>2, <1>3, RefuseStep DEF Replies
<1>4. CASE Answer(s, "created")
  BY <1>2, <1>4, AnswerStep DEF Replies
<1>5. CASE At(s, "upload_body") /\ Goto(s, "upload_object")
  <2>1. ASSUME NEW q \in Request, Moved(q, x, "upload_object") PROVE Fits(q)
    BY <1>1, <1>5, <2>1 DEF Moved, At, Fits, FitsIn, Pending, CreatePcs, IntentPcs, UploadPcs,
       FinalizePcs, EventPcs, SameIntent
  <2> QED
    BY <1>2, <1>5, <2>1, GotoStep DEF At, Pcs
<1>6. CASE At(s, "upload_object") /\ Goto(s, "r2_head")
  <2>1. ASSUME NEW q \in Request, Moved(q, x, "r2_head") PROVE Fits(q)
    BY <1>1, <1>6, <2>1 DEF Moved, At, Fits, FitsIn, Pending, CreatePcs, IntentPcs, UploadPcs,
       FinalizePcs, EventPcs, SameIntent
  <2> QED
    BY <1>2, <1>6, <2>1, GotoStep DEF At, Pcs
<1>7. CASE At(s, "r2_head") /\ r2[x.sha] # None
           /\ Goto(s, "attach_select")
  <2>1. ASSUME NEW q \in Request, Moved(q, x, "attach_select") PROVE Fits(q)
    BY <1>1, <1>7, <2>1 DEF Moved, At, Fits, FitsIn, Pending, CreatePcs, IntentPcs, UploadPcs,
       FinalizePcs, EventPcs, SameIntent
  <2> QED
    BY <1>2, <1>7, <2>1, GotoStep DEF At, Pcs
<1>8. CASE At(s, "r2_head") /\ Goto(s, "r2_put")
  <2>1. ASSUME NEW q \in Request, Moved(q, x, "r2_put") PROVE Fits(q)
    BY <1>1, <1>8, <2>1 DEF Moved, At, Fits, FitsIn, Pending, CreatePcs, IntentPcs, UploadPcs,
       FinalizePcs, EventPcs, SameIntent
  <2> QED
    BY <1>2, <1>8, <2>1, GotoStep DEF At, Pcs
<1>9. CASE At(s, "r2_verify") /\ r2[x.sha] # None
           /\ Goto(s, "attach_select")
  <2>1. ASSUME NEW q \in Request, Moved(q, x, "attach_select") PROVE Fits(q)
    BY <1>1, <1>9, <2>1 DEF Moved, At, Fits, FitsIn, Pending, CreatePcs, IntentPcs, UploadPcs,
       FinalizePcs, EventPcs, SameIntent
  <2> QED
    BY <1>2, <1>9, <2>1, GotoStep DEF At, Pcs
<1>10. CASE At(s, "attach_select") /\ Goto(s, "attach_run")
  <2>1. ASSUME NEW q \in Request, Moved(q, x, "attach_run") PROVE Fits(q)
    BY <1>1, <1>10, <2>1 DEF Moved, At, Fits, FitsIn, Pending, CreatePcs, IntentPcs, UploadPcs,
       FinalizePcs, EventPcs, SameIntent
  <2> QED
    BY <1>2, <1>10, <2>1, GotoStep DEF At, Pcs
<1>11. CASE At(s, "attach_run") /\ Goto(s, "attach_batch")
  <2>1. ASSUME NEW q \in Request, Moved(q, x, "attach_batch") PROVE Fits(q)
    BY <1>1, <1>11, <2>1 DEF Moved, At, Fits, FitsIn, Pending, CreatePcs, IntentPcs, UploadPcs,
       FinalizePcs, EventPcs, SameIntent
  <2> QED
    BY <1>2, <1>11, <2>1, GotoStep DEF At, Pcs
<1>12. CASE UploadIntent(s) /\ Available(intents[x.key], x.at)
  <2> DEFINE row == intents[x.key]
             q == [x EXCEPT !.pc = "upload_body", !.run = row.run,
                            !.sha = row.sha, !.ctype = row.ctype]
  <2>1. x.pc = "upload_intent" /\ req' = [req EXCEPT ![s] = q]
    BY <1>12 DEF UploadIntent, At
  <2>2. x.op = "upload" /\ x.key \in Keys /\ x.at \in Time /\ row.run # None
    BY <1>1, <2>1 DEF Fits, FitsIn, UploadPcs
  <2>3. row.run \in Runs /\ row.sha \in Digests /\ row.ctype \in Types
    BY <2>2 DEF IInv, TypeOK, Tables, RowsWhole, IntentRow, OrNone
  <2>4. q \in Request /\ Filled(q, x, row)
    <3>1. row \in IntentRow
      BY <2>2 DEF IInv, TypeOK
    <3> HIDE DEF x, row
    <3> QED
      BY <1>1, <3>1, FilledRequest
  <2> HIDE DEF q
  <2>5. Fits(q) /\ ~Pending(q)
    BY <1>1, <2>1, <2>2, <2>3, <2>4 DEF Fits, FitsIn, Pending, CreatePcs, IntentPcs,
       UploadPcs, FinalizePcs, EventPcs, SameIntent, Filled
  <2>6. Fresh'
    BY <2>1, <2>2, <2>4, <2>5, FreshStep DEF Filled
  <2> QED
    BY <1>2, <2>1, <2>4, <2>5, <2>6, QuietStep
<1> QED
  BY <1>3, <1>4, <1>5, <1>6, <1>7, <1>8, <1>9, <1>10, <1>11, <1>12
     DEF UploadIntent, UploadBody, UploadObject, R2Head, R2Verify, AttachSelect,
     AttachRun, AttachCatch, AttachRead

-----------------------------------------------------------------------------
(* Finalization and events *)

LEMMA SealedRequest ==
  ASSUME NEW x \in Request, NEW d \in OrNone(Digests)
  PROVE  LET q == [x EXCEPT !.pc = "done", !.reply = "ok", !.sha = d, !.at = None] IN
         q \in Request /\ q.pc = "done" /\ q.at = None /\ q.op = x.op /\ q.run = x.run
<1>1. "done" \in Pcs /\ "ok" \in OrNone(Replies) /\ None \in OrNone(Time)
  BY DEF Pcs, OrNone, Replies
<1> QED
  BY <1>1 DEF Request

LEMMA FinalizeQuiet ==
  ASSUME IInv, NEW s \in Slots,
         FinalizeRead(s) \/ FinalizeReread(s)
  PROVE  IInv'
<1> DEFINE x == req[s]
<1>1. x \in Request /\ Fits(x)
  BY DEF IInv, TypeOK
<1>2. UNCHANGED <<now, tables, r2>>
  BY DEF FinalizeRead, FinalizeReread
<1>3. CASE Refuse(s, "not_found") \/ Refuse(s, "trace_required") \/ Refuse(s,
           "conflict")
  BY <1>2, <1>3, RefuseStep DEF Replies
<1>4. CASE /\ At(s, "finalize_read")
           /\ req' = [req EXCEPT ![s] = [@ EXCEPT !.pc = "finalize_update", !.at = now]]
  <2> DEFINE q == [x EXCEPT !.pc = "finalize_update", !.at = now]
  <2>1. now \in Time /\ "finalize_update" \in Pcs
    BY DEF IInv, TypeOK, Pcs
  <2>2. q \in Request /\ Stamped(q, x, "finalize_update", now)
    <3> HIDE DEF x
    <3> QED
      BY <1>1, <2>1, StampedRequest
  <2>3. req' = [req EXCEPT ![s] = q] /\ x.pc = "finalize_read"
    BY <1>4 DEF At
  <2> HIDE DEF q
  <2>4. Fits(q) /\ ~Pending(q) /\ x.op # "create"
    BY <1>1, <2>1, <2>2, <2>3 DEF Fits, FitsIn, Pending, CreatePcs, IntentPcs,
       UploadPcs, FinalizePcs, EventPcs, Time, Stamped
  <2>5. Fresh'
    BY <2>2, <2>3, <2>4, FreshStep DEF Stamped
  <2> QED
    BY <1>2, <2>2, <2>3, <2>4, <2>5, QuietStep
<1>5. CASE /\ FinalizeReread(s) /\ ~Refuse(s, "conflict")
  <2> DEFINE d == runs[x.run].sha
             q == [x EXCEPT !.pc = "done", !.reply = "ok", !.sha = d, !.at = None]
  <2>1. req' = [req EXCEPT ![s] = q] /\ x.pc = "finalize_reread"
    BY <1>5 DEF FinalizeReread, At
  <2>2. x.run \in Runs
    BY <1>1, <2>1 DEF Fits, FitsIn, FinalizePcs
  <2>3. d \in OrNone(Digests)
    BY <2>2 DEF IInv, TypeOK, RunRow
  <2>4. q \in Request /\ q.pc = "done" /\ q.at = None /\ q.op = x.op /\ q.run = x.run
    BY <1>1, <2>3, SealedRequest
  <2> HIDE DEF q
  <2> QED
    BY <1>2, <2>1, <2>4, EndStep
<1> QED
  BY <1>3, <1>4, <1>5 DEF FinalizeRead, FinalizeReread

LEMMA EventQuiet ==
  ASSUME IInv, NEW s \in Slots,
         EventOwner(s) \/ EventSelect(s)
  PROVE  IInv'
<1> DEFINE x == req[s]
<1>1. x \in Request /\ Fits(x)
  BY DEF IInv, TypeOK
<1>2. UNCHANGED <<now, tables, r2>>
  BY DEF EventOwner, EventSelect
<1>3. CASE Refuse(s, "not_found") \/ Refuse(s, "run_finalized") \/ Refuse(s,
           "conflict")
  BY <1>2, <1>3, RefuseStep DEF Replies
<1>4. CASE Answer(s, "existing")
  BY <1>2, <1>4, AnswerStep DEF Replies
<1>5. CASE At(s, "event_owner") /\ Goto(s, "event_select")
  <2>1. ASSUME NEW q \in Request, Moved(q, x, "event_select") PROVE Fits(q)
    BY <1>1, <1>5, <2>1 DEF Moved, At, Fits, FitsIn, Pending, CreatePcs, IntentPcs, UploadPcs,
       FinalizePcs, EventPcs
  <2> QED
    BY <1>2, <1>5, <2>1, GotoStep DEF At, Pcs
<1>6. CASE At(s, "event_select") /\ Goto(s, "event_insert")
  <2>1. ASSUME NEW q \in Request, Moved(q, x, "event_insert") PROVE Fits(q)
    BY <1>1, <1>6, <2>1 DEF Moved, At, Fits, FitsIn, Pending, CreatePcs, IntentPcs, UploadPcs,
       FinalizePcs, EventPcs
  <2> QED
    BY <1>2, <1>6, <2>1, GotoStep DEF At, Pcs
<1> QED
  BY <1>3, <1>4, <1>5, <1>6 DEF EventOwner, EventSelect

-----------------------------------------------------------------------------
(* Accepting a request, and the clock *)

LEMMA CreateBeginStep ==
  ASSUME IInv, NEW s \in Slots, NEW k \in RunKeys, NEW b \in Bodies, NEW r \in Runs,
         CreateBegin(s, k, b, r)
  PROVE  IInv'
<1> DEFINE q == [Idle EXCEPT !.op = "create", !.pc = "create_select",
                             !.user = KeyUser[k], !.key = k, !.body = b, !.run = r]
<1>1. KeyUser[k] \in Users
  BY ConstantsAssumption
<1>2. /\ q \in Request /\ q.pc = "create_select" /\ q.op = "create" /\ q.key = k
      /\ q.run = r /\ q.body = b /\ q.at = None
  BY <1>1 DEF Idle, Request, OrNone, Pcs, Ops
<1>3. req' = [req EXCEPT ![s] = q] /\ UNCHANGED <<now, tables, r2>>
  BY DEF CreateBegin, Accept
<1> HIDE DEF q
<1>4. Fits(q)
  BY <1>2 DEF CreateBegin, Fits, FitsIn, Pending, CreatePcs, IntentPcs, UploadPcs,
       FinalizePcs, EventPcs
<1>5. Fresh'
  <2>1. \A t \in Slots : req'[t] = IF t = s THEN q ELSE req[t]
    BY <1>3 DEF IInv, TypeOK
  <2>2. \A t \in Slots : Pending(req[t]) => req[t].op = "create"
    BY DEF IInv, Fits, FitsIn, Pending, CreatePcs
  <2> QED
    BY <1>2, <2>1, <2>2 DEF CreateBegin, IInv, Fresh, Pending
<1> QED
  BY <1>2, <1>3, <1>4, <1>5, QuietStep

LEMMA OtherBeginStep ==
  ASSUME IInv, NEW s \in Slots, NEW q \in Request, Accept(s, q), Fits(q),
         q.op # "create", ~Pending(q)
  PROVE  IInv'
<1>1. req' = [req EXCEPT ![s] = q] /\ UNCHANGED <<now, tables, r2>>
  BY DEF Accept
<1>2. Fresh'
  BY <1>1, FreshStep
<1> QED
  BY <1>1, <1>2, QuietStep

LEMMA BeginStep ==
  ASSUME IInv, NEW s \in Slots, Begin(s)
  PROVE  IInv'
<1>0. KeyUser \in [RunKeys \cup Keys \cup EventKeys -> Users]
  BY ConstantsAssumption
<1>1. CASE \E k \in RunKeys, b \in Bodies, r \in Runs : CreateBegin(s, k, b, r)
  BY <1>1, CreateBeginStep
<1>2. ASSUME NEW k \in Keys, NEW r \in Runs, NEW d \in Digests, NEW c \in Types,
             IntentBegin(s, k, r, d, c)
      PROVE  IInv'
  <2> DEFINE q == [Idle EXCEPT !.op = "intent", !.pc = "intent_owner",
                               !.user = KeyUser[k], !.key = k, !.run = r, !.sha = d,
                               !.ctype = c]
  <2>1. /\ q \in Request /\ q.pc = "intent_owner" /\ q.op = "intent" /\ q.key = k
        /\ q.run = r /\ q.sha = d /\ q.ctype = c /\ q.at = None
    BY <1>0 DEF Idle, Request, OrNone, Pcs, Ops
  <2>2. Accept(s, q)
    BY <1>2 DEF IntentBegin
  <2> HIDE DEF q
  <2>3. Fits(q) /\ ~Pending(q)
    BY <2>1 DEF Fits, FitsIn, Pending, CreatePcs, IntentPcs, UploadPcs,
       FinalizePcs, EventPcs
  <2> QED
    BY <2>1, <2>2, <2>3, OtherBeginStep
<1>3. ASSUME NEW k \in Keys, UploadBegin(s, k)
      PROVE  IInv'
  <2> DEFINE q == [Idle EXCEPT !.op = "upload", !.pc = "upload_intent",
                               !.user = KeyUser[k], !.key = k, !.at = now]
  <2>1. now \in Time
    BY DEF IInv, TypeOK
  <2>2. /\ q \in Request /\ q.pc = "upload_intent" /\ q.op = "upload" /\ q.key = k
        /\ q.at = now
    BY <1>0, <2>1 DEF Idle, Request, OrNone, Pcs, Ops
  <2>3. Accept(s, q) /\ intents[k].run # None
    BY <1>3 DEF UploadBegin
  <2> HIDE DEF q
  <2>4. Fits(q) /\ ~Pending(q)
    BY <2>1, <2>2, <2>3 DEF Time, Fits, FitsIn, Pending, CreatePcs, IntentPcs, UploadPcs,
       FinalizePcs, EventPcs
  <2> QED
    BY <2>2, <2>3, <2>4, OtherBeginStep
<1>4. ASSUME NEW u \in Users, NEW r \in Runs, FinalizeBegin(s, u, r)
      PROVE  IInv'
  <2> DEFINE q == [Idle EXCEPT !.op = "finalize", !.pc = "finalize_read",
                               !.user = u, !.run = r]
  <2>1. /\ q \in Request /\ q.pc = "finalize_read" /\ q.op = "finalize"
        /\ q.run = r /\ q.at = None
    BY DEF Idle, Request, OrNone, Pcs, Ops
  <2>2. Accept(s, q)
    BY <1>4 DEF FinalizeBegin
  <2> HIDE DEF q
  <2>3. Fits(q) /\ ~Pending(q)
    BY <2>1 DEF Fits, FitsIn, Pending, CreatePcs, IntentPcs, UploadPcs,
       FinalizePcs, EventPcs
  <2> QED
    BY <2>1, <2>2, <2>3, OtherBeginStep
<1>5. ASSUME NEW k \in EventKeys, NEW r \in Runs, NEW b \in Bodies,
             EventBegin(s, k, r, b)
      PROVE  IInv'
  <2> DEFINE q == [Idle EXCEPT !.op = "event", !.pc = "event_owner",
                               !.user = KeyUser[k], !.key = k, !.run = r, !.body = b]
  <2>1. /\ q \in Request /\ q.pc = "event_owner" /\ q.op = "event" /\ q.key = k
        /\ q.run = r /\ q.body = b /\ q.at = None
    BY <1>0 DEF Idle, Request, OrNone, Pcs, Ops
  <2>2. Accept(s, q)
    BY <1>5 DEF EventBegin
  <2> HIDE DEF q
  <2>3. Fits(q) /\ ~Pending(q)
    BY <2>1 DEF Fits, FitsIn, Pending, CreatePcs, IntentPcs, UploadPcs,
       FinalizePcs, EventPcs
  <2> QED
    BY <2>1, <2>2, <2>3, OtherBeginStep
<1> QED
  BY <1>1, <1>2, <1>3, <1>4, <1>5 DEF Begin

\* Every request in flight survives a step that leaves it alone.
LEMMA OthersFit ==
  ASSUME IInv, NEW t \in Slots, req'[t] = req[t],
         Grows(runs, intents, r2, now, runs', intents', r2', now'),
         Pending(req[t]) => runs'[req[t].run].state = "absent"
  PROVE  Fits(req[t])'
<1>1. req[t] \in Request /\ FitsIn(req[t], runs, intents, r2, now)
  BY DEF IInv, TypeOK, Fits
<1>2. FitsIn(req[t], runs', intents', r2', now')
  BY <1>1, FitsGrow
<1> QED
  BY <1>2 DEF Fits

LEMMA TickStep ==
  ASSUME IInv, Tick
  PROVE  IInv'
<1>1. now \in Time /\ now' \in Time /\ now' = now + 1
  BY ConstantsAssumption DEF IInv, TypeOK, Tick, Time
<1>2. UNCHANGED <<runs, intents, objects, uploads, commits, events, r2, req>>
  BY DEF Tick, tables
<1>3. TypeOK' /\ Tables' /\ Fresh'
  BY <1>1, <1>2 DEF IInv, TypeOK, Tables, RowsWhole, AttachmentComplete,
     CapabilitySpentWhole, Fresh
<1>4. Grows(runs, intents, r2, now, runs', intents', r2', now')
  BY <1>1, <1>2 DEF Grows, Time
<1>5. ASSUME NEW t \in Slots PROVE Fits(req[t])'
  <2>1. Pending(req[t]) => runs'[req[t].run].state = "absent"
    BY <1>2 DEF IInv, Fits, FitsIn
  <2> QED
    BY <1>2, <1>4, <2>1, OthersFit
<1> QED
  BY <1>3, <1>5 DEF IInv

-----------------------------------------------------------------------------
(* Statements that write *)

\* What a write must show: the tables grow and stay whole, the writer's
\* request q still fits them, and pending creations keep unused ids.
LEMMA WriteStep ==
  ASSUME IInv, NEW s \in Slots, NEW q \in Request,
         req' = [req EXCEPT ![s] = q], TypeOK', Tables',
         Grows(runs, intents, r2, now, runs', intents', r2', now'),
         FitsIn(q, runs', intents', r2', now'), ~Pending(q),
         q.op = "create" => (req[s].op = "create" /\ q.run = req[s].run) \/ q.run = None,
         \A t \in Slots \ {s} :
           Pending(req[t]) => runs'[req[t].run].state = "absent"
  PROVE  IInv'
<1>1. \A t \in Slots : req'[t] = IF t = s THEN q ELSE req[t]
  BY DEF IInv, TypeOK
<1>2. Fresh'
  BY FreshStep
<1>3. ASSUME NEW t \in Slots PROVE Fits(req[t])'
  <2>1. CASE t = s
    BY <1>1, <2>1 DEF Fits
  <2>2. CASE t # s
    BY <1>1, <2>2, OthersFit
  <2> QED
    BY <2>1, <2>2
<1> QED
  BY <1>2, <1>3 DEF IInv

\* The ways a writer's request goes on.
LEMMA Ended ==
  ASSUME NEW q \in Request, q.pc = "done", q.at = None,
         NEW rows, NEW opened, NEW bucket, NEW clock
  PROVE  FitsIn(q, rows, opened, bucket, clock) /\ ~Pending(q)
BY DEF FitsIn, Pending, CreatePcs, IntentPcs, UploadPcs, FinalizePcs, EventPcs

\* Writes of rows of runs leave pending creations alone when the row exists.
LEMMA PendingKept ==
  ASSUME IInv, NEW s \in Slots, NEW r \in Runs, NEW row,
         runs' = [runs EXCEPT ![r] = row],
         runs[r].state # "absent" \/ (Pending(req[s]) /\ req[s].run = r),
         NEW t \in Slots \ {s}, Pending(req[t])
  PROVE  runs'[req[t].run].state = "absent"
<1>1. /\ req[t].op = "create" /\ req[t].run \in Runs
      /\ runs[req[t].run].state = "absent"
  BY DEF IInv, Fits, FitsIn, Pending, CreatePcs
<1>2. Pending(req[s]) => req[s].op = "create"
  BY DEF IInv, Fits, FitsIn, Pending, CreatePcs
<1>3. req[t].run # r
  BY <1>1, <1>2 DEF IInv, Fresh
<1> QED
  BY <1>1, <1>3 DEF IInv, TypeOK

LEMMA EventInsertStep ==
  ASSUME IInv, NEW s \in Slots, EventInsert(s)
  PROVE  IInv'
<1> DEFINE x == req[s]
<1>1. x \in Request /\ Fits(x) /\ x.pc = "event_insert"
  BY DEF IInv, TypeOK, EventInsert, At
<1>2. x.op = "event" /\ x.key \in EventKeys /\ x.run \in Runs /\ x.body \in Bodies
  BY <1>1 DEF Fits, FitsIn, EventPcs
<1>3. UNCHANGED <<now, runs, intents, objects, uploads, commits, r2>>
  BY DEF EventInsert
<1>4. events' \in [EventKeys -> EventRow]
  <2>1. CASE events' = events
    BY <2>1 DEF IInv, TypeOK
  <2>2. CASE events' = [events EXCEPT ![x.key] = [run |-> x.run, body |-> x.body]]
    BY <1>2, <2>2 DEF IInv, TypeOK, EventRow, OrNone
  <2> QED
    BY <2>1, <2>2 DEF EventInsert
<1>5. ASSUME NEW q \in Request, req' = [req EXCEPT ![s] = q], q.pc = "done",
             q.at = None, q.op = x.op
      PROVE  IInv'
  <2>1. TypeOK'
    BY <1>3, <1>4, <1>5 DEF IInv, TypeOK
  <2>2. Tables'
    BY <1>3 DEF IInv, Tables, RowsWhole, AttachmentComplete, CapabilitySpentWhole
  <2>3. Grows(runs, intents, r2, now, runs', intents', r2', now')
    BY <1>3 DEF Grows, IInv, TypeOK, Time
  <2>4. \A t \in Slots \ {s} : Pending(req[t]) => runs'[req[t].run].state = "absent"
    BY <1>3 DEF IInv, Fits, FitsIn
  <2>5. FitsIn(q, runs', intents', r2', now') /\ ~Pending(q)
    BY <1>5, Ended
  <2> QED
    BY <1>2, <1>5, <2>1, <2>2, <2>3, <2>4, <2>5, WriteStep
<1>6. CASE Refuse(s, "conflict")
  <2> DEFINE q == [Idle EXCEPT !.op = req[s].op, !.pc = "done", !.reply = "conflict"]
  <2>1. q \in Request /\ q.pc = "done" /\ q.at = None /\ q.op = x.op
    BY <1>2 DEF Idle, Request, OrNone, Pcs, Ops, Replies
  <2>2. req' = [req EXCEPT ![s] = q]
    BY <1>6 DEF Refuse
  <2> HIDE DEF q
  <2> QED
    BY <1>5, <2>1, <2>2
<1>7. CASE Answer(s, "created")
  BY <1>1, <1>5, <1>7, AnsweredRequest DEF Answer, Replies
<1> QED
  BY <1>6, <1>7 DEF EventInsert

LEMMA CreateInsertStep ==
  ASSUME IInv, NEW s \in Slots, CreateInsert(s)
  PROVE  IInv'
<1> DEFINE x == req[s]
           row == [NoRun EXCEPT !.state = "awaiting_trace", !.key = x.key,
                                !.body = x.body]
<1>1. x \in Request /\ Fits(x) /\ x.pc = "create_insert"
  BY DEF IInv, TypeOK, CreateInsert, At
<1>2. /\ x.op = "create" /\ x.key \in RunKeys /\ x.run \in Runs /\ x.body \in Bodies
      /\ x.at = None /\ runs[x.run].state = "absent"
  BY <1>1 DEF Fits, FitsIn, CreatePcs, Pending
<1>3. UNCHANGED <<now, intents, objects, uploads, commits, events, r2>>
  BY DEF CreateInsert
<1>4. PICK p \in {"create_read", "create_reselect"} : Goto(s, p)
  BY DEF CreateInsert
<1> DEFINE q == [x EXCEPT !.pc = p]
<1>5. q \in Request /\ Moved(q, x, p)
  BY <1>1, MovedRequest DEF Pcs
<1>6. req' = [req EXCEPT ![s] = q]
  BY <1>4 DEF Goto
<1> HIDE DEF q
<1>7. FitsIn(q, runs', intents', r2', now') /\ ~Pending(q)
  BY <1>1, <1>2, <1>5 DEF Moved, Fits, FitsIn, Pending, CreatePcs, IntentPcs, UploadPcs,
       FinalizePcs, EventPcs
<1>8. CASE runs' = runs
  BY <1>1, <1>2, <1>3, <1>5, <1>6, <1>8, QuietStep, FreshStep, <1>7
     DEF Moved, tables, Fits
<1>9. CASE runs' = [runs EXCEPT ![x.run] = row]
  <2>1. /\ row \in RunRow /\ row.state = "awaiting_trace" /\ row.sha = None
        /\ row.key = x.key /\ row.finalizedAt = None
    BY <1>2 DEF NoRun, RunRow, OrNone, RunStates
  <2> HIDE DEF row
  <2>2. \A r \in Runs : runs'[r] = IF r = x.run THEN row ELSE runs[r]
    BY <1>9 DEF IInv, TypeOK
  <2>3. TypeOK'
    <3>1. runs' \in [Runs -> RunRow]
      BY <1>2, <1>9, <2>1 DEF IInv, TypeOK
    <3>2. req' \in [Slots -> Request]
      BY <1>5, <1>6 DEF IInv, TypeOK
    <3> QED
      BY <1>3, <2>1, <2>2, <3>1, <3>2 DEF IInv, TypeOK
  <2>4. runs[x.run].sha = None
    BY <1>2 DEF IInv, Tables, RowsWhole, NoRun
  <2>5. RowsWhole'
    BY <1>2, <1>3, <2>1, <2>2 DEF IInv, Tables, RowsWhole, TypeOK, IntentRow, OrNone
  <2>6. AttachmentComplete'
    BY <1>3, <2>1, <2>2, <2>4 DEF IInv, Tables, AttachmentComplete
  <2>7. CapabilitySpentWhole'
    <3>1. \A k \in Keys : intents[k].consumedAt # None =>
            intents[k].run # None /\ intents[k].run \in Runs /\ intents[k].sha \in Digests
      BY DEF IInv, Tables, RowsWhole, TypeOK, IntentRow, OrNone, NoIntent
    <3>2. \A k \in Keys : intents[k].consumedAt # None =>
            runs[intents[k].run].sha = intents[k].sha
      BY DEF IInv, Tables, CapabilitySpentWhole
    <3>3. None \notin Digests
      BY ConstantsAssumption
    <3>4. \A k \in Keys : intents[k].consumedAt # None => intents[k].run # x.run
      BY <2>4, <3>1, <3>2, <3>3
    <3>5. \A k \in Keys : intents[k].consumedAt # None =>
            runs'[intents[k].run] = runs[intents[k].run]
      BY <2>2, <3>1, <3>4
    <3> QED
      BY <1>3, <3>5 DEF IInv, Tables, CapabilitySpentWhole
  <2>8. Grows(runs, intents, r2, now, runs', intents', r2', now')
    BY <1>2, <1>3, <2>1, <2>2 DEF Grows, IInv, TypeOK, Time
  <2>9. \A t \in Slots \ {s} : Pending(req[t]) => runs'[req[t].run].state = "absent"
    BY <1>1, <1>2, <1>9, PendingKept DEF Pending
  <2> QED
    BY <1>2, <1>5, <1>6, <1>7, <2>3, <2>5, <2>6, <2>7, <2>8, <2>9, WriteStep
       DEF Tables, Moved
<1> QED
  BY <1>8, <1>9 DEF CreateInsert

\* Intents keep their meaning: a write of an unspent intent's row that keeps it
\* unspent leaves every attachment as it was.
LEMMA IntentWrite ==
  ASSUME IInv, NEW k \in Keys, NEW row \in IntentRow,
         intents' = [intents EXCEPT ![k] = row],
         intents[k].consumedAt = None, row.consumedAt = None,
         row.run # None, row.sha \in Digests, row.ctype \in Types,
         runs[row.run].state # "absent",
         UNCHANGED <<now, runs, objects, uploads, commits, events, r2>>
  PROVE  Tables'
<1>1. \A j \in Keys : intents'[j] = IF j = k THEN row ELSE intents[j]
  BY DEF IInv, TypeOK
<1>2. RowsWhole'
  BY <1>1 DEF IInv, Tables, RowsWhole
<1>3. AttachmentComplete'
  BY <1>1 DEF IInv, Tables, AttachmentComplete
<1>4. CapabilitySpentWhole'
  <2>1. uploads[k].run = None /\ commits[k].run = None
    BY DEF IInv, Tables, CapabilitySpentWhole
  <2>2. ASSUME NEW j \in Keys, j # k PROVE intents'[j] = intents[j]
    BY <1>1, <2>2
  <2>3. intents'[k].consumedAt = None
    BY <1>1
  <2> QED
    BY <2>1, <2>2, <2>3 DEF IInv, Tables, CapabilitySpentWhole
<1> QED
  BY <1>2, <1>3, <1>4 DEF Tables

LEMMA IntentInsertStep ==
  ASSUME IInv, NEW s \in Slots, IntentInsert(s)
  PROVE  IInv'
<1> DEFINE x == req[s]
           k == x.key
           row == [run |-> x.run, sha |-> x.sha, ctype |-> x.ctype,
                   expiresAt |-> x.at + UploadTtl, consumedAt |-> None]
<1>1. x \in Request /\ Fits(x) /\ x.pc = "intent_insert"
  BY DEF IInv, TypeOK, IntentInsert, At
<1>2. /\ x.op = "intent" /\ k \in Keys /\ x.run \in Runs /\ x.sha \in Digests
      /\ x.ctype \in Types /\ x.at \in Time /\ runs[x.run].state # "absent"
  BY <1>1 DEF Fits, FitsIn, IntentPcs
<1>3. UNCHANGED <<now, runs, objects, uploads, commits, events, r2>>
  BY DEF IntentInsert
<1>4. CASE UNCHANGED intents /\ Refuse(s, "conflict")
  BY <1>3, <1>4, RefuseStep DEF tables, Replies
<1>5. CASE KeyUnused(k) /\ intents' = [intents EXCEPT ![k] = row]
  <2>1. row \in IntentRow
    BY <1>2, ConstantsAssumption DEF IntentRow, OrNone, Time, Expiry
  <2>2. intents[k].consumedAt = None /\ intents[k].run = None
    BY <1>2, <1>5 DEF KeyUnused, IInv, Tables, RowsWhole, NoIntent
  <2>3. x.run # None
    BY <1>2, ConstantsAssumption
  <2>4. Tables'
    BY <1>2, <1>3, <1>5, <2>1, <2>2, <2>3, IntentWrite
  <2>5. Grows(runs, intents, r2, now, runs', intents', r2', now')
    BY <1>3, <1>5, <2>2 DEF Grows, IInv, TypeOK, Time
  <2>6. \A t \in Slots \ {s} : Pending(req[t]) => runs'[req[t].run].state = "absent"
    BY <1>3 DEF IInv, Fits, FitsIn
  <2>7. intents' \in [Keys -> IntentRow]
    BY <1>2, <1>5, <2>1 DEF IInv, TypeOK
  <2> HIDE DEF row
  <2>8. ASSUME NEW q \in Request, req' = [req EXCEPT ![s] = q], q.pc = "done",
               q.at = None, q.op = x.op
        PROVE  IInv'
    <3>1. TypeOK'
      BY <1>3, <2>7, <2>8 DEF IInv, TypeOK
    <3>2. FitsIn(q, runs', intents', r2', now') /\ ~Pending(q)
      BY <2>8, Ended
    <3> QED
      BY <1>2, <2>4, <2>5, <2>6, <2>8, <3>1, <3>2, WriteStep
  <2>9. CASE Refuse(s, "conflict")
    <3> DEFINE q == [Idle EXCEPT !.op = x.op, !.pc = "done", !.reply = "conflict"]
    <3>1. q \in Request /\ q.pc = "done" /\ q.at = None /\ q.op = x.op
      BY <1>1, RefusedRequest DEF Request, Replies
    <3>2. req' = [req EXCEPT ![s] = q]
      BY <2>9 DEF Refuse
    <3> HIDE DEF q
    <3> QED
      BY <2>8, <3>1, <3>2
  <2>10. CASE Answer(s, "created")
    BY <1>1, <2>8, <2>10, AnsweredRequest DEF Answer, Replies
  <2> QED
    BY <1>5, <2>9, <2>10, <1>2, <2>2 DEF IntentInsert
<1> QED
  BY <1>4, <1>5 DEF IntentInsert

LEMMA IntentRenewStep ==
  ASSUME IInv, NEW s \in Slots, IntentRenew(s)
  PROVE  IInv'
<1> DEFINE x == req[s]
           k == x.key
           until == IF Renewable(intents[k], x.at) THEN x.at + UploadTtl
                    ELSE intents[k].expiresAt
           row == [intents[k] EXCEPT !.expiresAt = until]
           q == [x EXCEPT !.pc = "intent_reselect"]
<1>1. x \in Request /\ Fits(x) /\ x.pc = "intent_renew"
  BY DEF IInv, TypeOK, IntentRenew, At
<1>2. /\ x.op = "intent" /\ k \in Keys /\ x.run \in Runs /\ x.sha \in Digests
      /\ x.ctype \in Types /\ x.at \in Time /\ runs[x.run].state # "absent"
      /\ intents[k].run # None /\ (x.at # None => x.at <= now)
  BY <1>1 DEF Fits, FitsIn, IntentPcs
<1>3. UNCHANGED <<now, runs, objects, uploads, commits, events, r2>>
  BY DEF IntentRenew
<1>4. q \in Request /\ Moved(q, x, "intent_reselect") /\ req' = [req EXCEPT ![s] = q]
  BY <1>1, MovedRequest DEF IntentRenew, Goto, Pcs
<1>5. intents[k] \in IntentRow /\ until \in Expiry
  BY <1>2, ConstantsAssumption DEF IInv, TypeOK, IntentRow, Time, Expiry
<1>6. intents' = [intents EXCEPT ![k] = row]
  BY DEF IntentRenew
<1>7. /\ row \in IntentRow /\ row.run = intents[k].run /\ row.sha = intents[k].sha
      /\ row.ctype = intents[k].ctype /\ row.consumedAt = intents[k].consumedAt
  <2> HIDE DEF until
  <2> QED
    BY <1>5 DEF IntentRow
<1>8. \A j \in Keys : intents'[j] = IF j = k THEN row ELSE intents[j]
  BY <1>6 DEF IInv, TypeOK
<1> HIDE DEF q
<1>9. Tables'
  <2>1. CASE Renewable(intents[k], x.at)
    <3>1. intents[k].consumedAt = None
      BY <2>1 DEF Renewable
    <3>2. /\ intents[k].sha \in Digests /\ intents[k].ctype \in Types
          /\ runs[intents[k].run].state # "absent"
      BY <1>2 DEF IInv, Tables, RowsWhole
    <3> HIDE DEF row
    <3> QED
      BY <1>2, <1>3, <1>6, <1>7, <3>1, <3>2, IntentWrite
  <2>2. CASE ~Renewable(intents[k], x.at)
    <3>1. row = intents[k]
      BY <1>5, <2>2 DEF IntentRow
    <3>2. intents' = intents
      BY <1>6, <3>1 DEF IInv, TypeOK
    <3> QED
      BY <1>3, <3>2 DEF IInv, Tables, RowsWhole, AttachmentComplete, CapabilitySpentWhole
  <2> QED
    BY <2>1, <2>2
<1> HIDE DEF row
<1>10. TypeOK'
  BY <1>2, <1>3, <1>4, <1>6, <1>7 DEF IInv, TypeOK
<1>11. Grows(runs, intents, r2, now, runs', intents', r2', now')
  BY <1>3, <1>7, <1>8 DEF Grows, IInv, TypeOK, Time
<1>12. \A t \in Slots \ {s} : Pending(req[t]) => runs'[req[t].run].state = "absent"
  BY <1>3 DEF IInv, Fits, FitsIn
<1>13. FitsIn(q, runs', intents', r2', now') /\ ~Pending(q)
  BY <1>2, <1>3, <1>4, <1>7, <1>8 DEF Moved, Fits, FitsIn, Pending, CreatePcs, IntentPcs, UploadPcs,
       FinalizePcs, EventPcs
<1> QED
  BY <1>2, <1>4, <1>9, <1>10, <1>11, <1>12, <1>13, WriteStep DEF Moved

LEMMA R2PutStep ==
  ASSUME IInv, NEW s \in Slots, R2Put(s)
  PROVE  IInv'
<1> DEFINE x == req[s]
           q == [x EXCEPT !.pc = "r2_verify"]
<1>1. x \in Request /\ Fits(x) /\ x.pc = "r2_put"
  BY DEF IInv, TypeOK, R2Put, At
<1>2. /\ x.op = "upload" /\ x.key \in Keys /\ x.run \in Runs /\ x.sha \in Digests
      /\ x.ctype \in Types /\ x.at \in Time /\ intents[x.key].run # None
  BY <1>1 DEF Fits, FitsIn, UploadPcs
<1>3. UNCHANGED <<now, runs, intents, objects, uploads, commits, events>>
  BY DEF R2Put, tables
<1>4. q \in Request /\ Moved(q, x, "r2_verify") /\ req' = [req EXCEPT ![s] = q]
  BY <1>1, MovedRequest DEF R2Put, Goto, Pcs
<1> HIDE DEF q
<1>5. r2' \in [Digests -> OrNone(Types)] /\ \A d \in Digests : r2[d] # None => r2'[d] = r2[d]
  <2>1. r2 \in [Digests -> OrNone(Types)]
    BY DEF IInv, TypeOK
  <2> QED
    BY <1>2, <2>1 DEF R2Put, OrNone
<1>6. TypeOK'
  BY <1>3, <1>4, <1>5 DEF IInv, TypeOK
<1>7. Tables'
  <2>1. \A r \in Runs : runs[r].sha # None => runs[r].sha \in Digests
    BY DEF IInv, TypeOK, RunRow, OrNone
  <2> QED
    BY <1>3, <1>5, <2>1 DEF IInv, Tables, RowsWhole, AttachmentComplete, CapabilitySpentWhole
<1>8. Grows(runs, intents, r2, now, runs', intents', r2', now')
  BY <1>3, <1>5 DEF Grows, IInv, TypeOK, Time
<1>9. \A t \in Slots \ {s} : Pending(req[t]) => runs'[req[t].run].state = "absent"
  BY <1>3 DEF IInv, Fits, FitsIn
<1>10. FitsIn(q, runs', intents', r2', now') /\ ~Pending(q)
  BY <1>1, <1>2, <1>3, <1>4 DEF Moved, SameIntent, Fits, FitsIn, Pending, CreatePcs, IntentPcs, UploadPcs,
       FinalizePcs, EventPcs
<1> QED
  BY <1>2, <1>4, <1>6, <1>7, <1>8, <1>9, <1>10, WriteStep DEF Moved

LEMMA FinalizeUpdateStep ==
  ASSUME IInv, NEW s \in Slots, FinalizeUpdate(s)
  PROVE  IInv'
<1> DEFINE x == req[s]
           r == x.run
           row == IF Owns(x.user, r) /\ runs[r].sha # None
                  THEN Sealed(runs[r], x.at) ELSE runs[r]
           q == [x EXCEPT !.pc = "finalize_reread"]
<1>1. x \in Request /\ Fits(x) /\ x.pc = "finalize_update"
  BY DEF IInv, TypeOK, FinalizeUpdate, At
<1>2. x.op = "finalize" /\ r \in Runs /\ x.at \in Time /\ (x.at # None => x.at <= now)
  BY <1>1 DEF Fits, FitsIn, FinalizePcs
<1>3. UNCHANGED <<now, intents, objects, uploads, commits, events, r2>>
  BY DEF FinalizeUpdate
<1>4. q \in Request /\ Moved(q, x, "finalize_reread") /\ req' = [req EXCEPT ![s] = q]
  BY <1>1, MovedRequest DEF FinalizeUpdate, Goto, Pcs
<1> HIDE DEF q
<1>5. runs' = [runs EXCEPT ![r] = row]
  BY DEF FinalizeUpdate
<1>6. runs[r] \in RunRow /\ x.at # None
  BY <1>2, ConstantsAssumption DEF IInv, TypeOK, Time
<1>7. /\ row \in RunRow /\ row.sha = runs[r].sha /\ row.key = runs[r].key
      /\ row.body = runs[r].body
      /\ row.state = "absent" => row = runs[r]
      /\ runs[r].state = "absent" => row = runs[r]
      /\ \/ row = runs[r]
         \/ row.state = "finalized" /\ row.sha # None /\ row.finalizedAt # None
  <2>1. ASSUME runs[r].sha # None
        PROVE  LET y == Sealed(runs[r], x.at) IN
               /\ y \in RunRow /\ y.sha = runs[r].sha /\ y.key = runs[r].key
               /\ y.body = runs[r].body /\ y.state = "finalized" /\ y.finalizedAt # None
    <3> DEFINE y == runs[r]
               n == IF y.finalizedAt = None THEN x.at ELSE y.finalizedAt
    <3>1. y \in RunRow /\ n \in OrNone(Time) /\ n # None /\ "finalized" \in RunStates
      BY <1>2, <1>6 DEF RunRow, OrNone, RunStates
    <3>2. Sealed(y, x.at) = [y EXCEPT !.state = "finalized", !.finalizedAt = n]
      BY <3>1 DEF Sealed, RunRow
    <3> HIDE DEF y, n
    <3>3. LET z == [y EXCEPT !.state = "finalized", !.finalizedAt = n] IN
          /\ z \in RunRow /\ z.sha = y.sha /\ z.key = y.key
          /\ z.body = y.body /\ z.state = "finalized" /\ z.finalizedAt = n
      BY <3>1 DEF RunRow
    <3> QED
      BY <3>1, <3>2, <3>3 DEF y
  <2>2. runs[r].state = "absent" => ~Owns(x.user, r)
    BY DEF Owns
  <2> QED
    BY <1>6, <2>1, <2>2
<1> HIDE DEF row
<1>8. \A t \in Runs : runs'[t] = IF t = r THEN row ELSE runs[t]
  BY <1>5 DEF IInv, TypeOK
<1>9. TypeOK'
  <2>1. runs' \in [Runs -> RunRow]
    BY <1>2, <1>5, <1>7 DEF IInv, TypeOK
  <2> QED
    BY <1>3, <1>4, <1>7, <1>8, <2>1 DEF IInv, TypeOK
<1>10. Tables'
  <2>1. \A t \in Runs : runs'[t].sha = runs[t].sha
    BY <1>7, <1>8
  <2>2. \A k \in Keys : intents[k].run # None => intents[k].run \in Runs
    BY DEF IInv, TypeOK, IntentRow, OrNone
  <2>3. RowsWhole'
    BY <1>3, <1>7, <1>8, <2>2 DEF IInv, Tables, RowsWhole
  <2>4. AttachmentComplete'
    BY <1>3, <2>1 DEF IInv, Tables, AttachmentComplete
  <2>5. CapabilitySpentWhole'
    BY <1>3, <2>1, <2>2 DEF IInv, Tables, CapabilitySpentWhole, RowsWhole, NoIntent
  <2> QED
    BY <2>3, <2>4, <2>5 DEF Tables
<1>11. Grows(runs, intents, r2, now, runs', intents', r2', now')
  BY <1>3, <1>7, <1>8 DEF Grows, IInv, TypeOK, Time
<1>12. \A t \in Slots \ {s} : Pending(req[t]) => runs'[req[t].run].state = "absent"
  <2>1. \A t \in Slots : Pending(req[t]) =>
          req[t].run \in Runs /\ runs[req[t].run].state = "absent"
    BY DEF IInv, Fits, FitsIn, Pending, CreatePcs
  <2> QED
    BY <1>7, <1>8, <2>1
<1>13. FitsIn(q, runs', intents', r2', now') /\ ~Pending(q)
  BY <1>2, <1>3, <1>4 DEF Moved, Fits, FitsIn, Pending, CreatePcs, IntentPcs, UploadPcs,
       FinalizePcs, EventPcs
<1> QED
  BY <1>2, <1>4, <1>9, <1>10, <1>11, <1>12, <1>13, WriteStep DEF Moved

-----------------------------------------------------------------------------
(* The attachment batch *)

\* What a batch that commits has done: it spent an unspent, unexpired intent,
\* linked the run of that intent, and gave the run its digest.
LEMMA BatchRows ==
  ASSUME IInv, NEW s \in Slots, At(s, "attach_batch"), BatchCommits(s)
  PROVE  LET q == req[s]
             k == q.key
         IN  /\ k \in Keys /\ q.run \in Runs /\ q.sha \in Digests /\ q.ctype \in Types
             /\ q.at \in Time /\ q.op = "upload" /\ r2[q.sha] # None
             /\ SameIntent(intents[k], q) /\ Available(intents[k], q.at)
             /\ uploads[k].run = None /\ commits[k].run = None
             /\ IntentAfter(s) = [intents[k] EXCEPT !.consumedAt = q.at]
             /\ objects[q.sha] \in {None, q.ctype} /\ ObjectAfter(s) = q.ctype
             /\ LinkAfter(s) = [run |-> q.run, sha |-> q.sha]
             /\ \/ RunAfter(s) = runs[q.run] /\ runs[q.run].sha = q.sha
                     /\ runs[q.run].state = "trace_uploaded"
                \/ /\ runs[q.run].state # "absent"
                   /\ RunTakes(runs[q.run], q.sha)
                   /\ RunAfter(s) = [runs[q.run] EXCEPT !.sha = q.sha,
                                                       !.state = "trace_uploaded"]
<1> DEFINE q == req[s]
           k == q.key
           row == intents[k]
<1>1. Fits(q) /\ q.pc = "attach_batch"
  BY DEF IInv, At
<1>2. /\ k \in Keys /\ q.run \in Runs /\ q.sha \in Digests /\ q.ctype \in Types
      /\ q.at \in Time /\ q.op = "upload" /\ r2[q.sha] # None /\ SameIntent(row, q)
  BY <1>1 DEF Fits, FitsIn, UploadPcs
<1>3. q.run # None /\ q.at # None
  BY <1>2, ConstantsAssumption DEF Time
<1>4. commits[k].run = None /\ CommitValid(s) /\ Spent(s)
  BY DEF BatchCommits, CommitValid
<1>5. row.consumedAt = None /\ uploads[k].run = None
  BY <1>2, <1>4 DEF IInv, Tables, CapabilitySpentWhole
<1>6. IntentAfter(s).consumedAt = q.at
  BY <1>4 DEF Spent
<1>7. Available(row, q.at)
  BY <1>3, <1>5, <1>6 DEF IntentAfter
<1>8. IntentAfter(s) = [row EXCEPT !.consumedAt = q.at]
  BY <1>2, <1>7 DEF IntentAfter
<1>9. ObjectAfter(s) = q.ctype
  BY <1>4 DEF CommitValid
<1>10. objects[q.sha] \in {None, q.ctype}
  BY <1>9 DEF ObjectAfter
<1>11. LinkAfter(s) = [run |-> q.run, sha |-> q.sha]
  BY <1>4, <1>9 DEF LinkInserted, LinkAfter
<1>12. RunAfter(s).sha = q.sha /\ RunAfter(s).state = "trace_uploaded"
  BY <1>4 DEF CommitValid
<1>13. \/ RunAfter(s) = runs[q.run]
       \/ /\ Owns(q.user, q.run) /\ RunTakes(runs[q.run], q.sha)
          /\ RunAfter(s) = [runs[q.run] EXCEPT !.sha = q.sha, !.state = "trace_uploaded"]
  BY DEF RunAfter
<1> QED
  BY <1>2, <1>4, <1>5, <1>7, <1>8, <1>9, <1>10, <1>11, <1>12, <1>13 DEF Owns

LEMMA BatchTables ==
  ASSUME IInv, NEW s \in Slots, At(s, "attach_batch"), BatchCommits(s), BatchEffect(s),
         UNCHANGED <<now, events, r2>>
  PROVE  /\ runs' \in [Runs -> RunRow] /\ intents' \in [Keys -> IntentRow]
         /\ objects' \in [Digests -> OrNone(Types)] /\ uploads' \in [Keys -> LinkRow]
         /\ commits' \in [Keys -> CommitRow]
         /\ \A r \in Runs : runs'[r].state = "finalized" =>
              runs'[r].sha # None /\ runs'[r].finalizedAt # None
         /\ Tables'
         /\ Grows(runs, intents, r2, now, runs', intents', r2', now')
         /\ \A t \in Slots : Pending(req[t]) => runs'[req[t].run].state = "absent"
<1> DEFINE q == req[s]
           k == q.key
           row == IntentAfter(s)
           run == RunAfter(s)
           link == [run |-> q.run, sha |-> q.sha]
           receipt == [run |-> q.run, sha |-> q.sha, at |-> q.at]
<1>1. /\ k \in Keys /\ q.run \in Runs /\ q.sha \in Digests /\ q.ctype \in Types
      /\ q.at \in Time /\ r2[q.sha] # None
      /\ SameIntent(intents[k], q) /\ Available(intents[k], q.at)
      /\ uploads[k].run = None /\ commits[k].run = None
      /\ objects[q.sha] \in {None, q.ctype}
  BY BatchRows
<1>2. q.at # None /\ q.run # None /\ q.sha # None /\ q.ctype # None
  BY <1>1, ConstantsAssumption DEF Time
<1>3. /\ row \in IntentRow /\ row.run = q.run /\ row.sha = q.sha /\ row.ctype = q.ctype
      /\ row.consumedAt = q.at /\ q.at < row.expiresAt
  <2> DEFINE y == intents[k]
  <2>1. row = [y EXCEPT !.consumedAt = q.at]
    BY BatchRows
  <2>2. y \in IntentRow /\ q.at \in OrNone(Time) /\ y.expiresAt > q.at
        /\ y.expiresAt \in Int /\ q.at \in Int
    BY <1>1, ConstantsAssumption
       DEF IInv, TypeOK, Available, OrNone, IntentRow, Time, Expiry
  <2>3. SameIntent(y, q)
    BY <1>1
  <2> HIDE DEF y, row
  <2> QED
    BY <2>1, <2>2, <2>3 DEF IntentRow, SameIntent
<1>4. /\ run \in RunRow /\ run.sha = q.sha /\ run.state = "trace_uploaded"
      /\ run.key = runs[q.run].key /\ runs[q.run].state \notin {"absent", "finalized"}
      /\ runs[q.run].sha \in {None, q.sha}
  <2> DEFINE y == runs[q.run]
  <2>1. \/ run = y /\ y.sha = q.sha /\ y.state = "trace_uploaded"
        \/ /\ y.state # "absent" /\ RunTakes(y, q.sha)
           /\ run = [y EXCEPT !.sha = q.sha, !.state = "trace_uploaded"]
    BY BatchRows
  <2>2. y \in RunRow /\ q.sha \in OrNone(Digests) /\ "trace_uploaded" \in RunStates
    BY <1>1 DEF IInv, TypeOK, OrNone, RunStates
  <2> HIDE DEF y, run
  <2>3. CASE run = y /\ y.sha = q.sha /\ y.state = "trace_uploaded"
    BY <2>2, <2>3 DEF y
  <2>4. CASE /\ y.state # "absent" /\ RunTakes(y, q.sha)
             /\ run = [y EXCEPT !.sha = q.sha, !.state = "trace_uploaded"]
    <3>1. run \in RunRow /\ run.sha = q.sha /\ run.state = "trace_uploaded"
          /\ run.key = y.key
      BY <2>2, <2>4 DEF RunRow
    <3> QED
      BY <2>4, <3>1 DEF RunTakes, y
  <2> QED
    BY <2>1, <2>3, <2>4
<1>5. /\ \A j \in Keys : intents'[j] = IF j = k THEN row ELSE intents[j]
      /\ \A j \in Keys : uploads'[j] = IF j = k THEN link ELSE uploads[j]
      /\ \A j \in Keys : commits'[j] = IF j = k THEN receipt ELSE commits[j]
      /\ \A r \in Runs : runs'[r] = IF r = q.run THEN run ELSE runs[r]
      /\ \A d \in Digests : objects'[d] = IF d = q.sha THEN q.ctype ELSE objects[d]
  <2>1. LinkAfter(s) = link /\ ObjectAfter(s) = q.ctype
    BY BatchRows
  <2> HIDE DEF row, run, link, receipt
  <2>2. /\ intents' = [intents EXCEPT ![k] = row]
        /\ uploads' = [uploads EXCEPT ![k] = link]
        /\ commits' = [commits EXCEPT ![k] = receipt]
        /\ runs' = [runs EXCEPT ![q.run] = run]
        /\ objects' = [objects EXCEPT ![q.sha] = q.ctype]
    BY <2>1 DEF BatchEffect, row, run, receipt
  <2> QED
    BY <2>2 DEF IInv, TypeOK
<1>6. link \in LinkRow /\ receipt \in CommitRow
  BY <1>1 DEF LinkRow, CommitRow, OrNone
<1>7. /\ runs' \in [Runs -> RunRow] /\ intents' \in [Keys -> IntentRow]
      /\ objects' \in [Digests -> OrNone(Types)] /\ uploads' \in [Keys -> LinkRow]
      /\ commits' \in [Keys -> CommitRow]
  <2>1. LinkAfter(s) = link /\ ObjectAfter(s) = q.ctype
    BY BatchRows
  <2>2. q.ctype \in OrNone(Types)
    BY <1>1 DEF OrNone
  <2> HIDE DEF row, run, link, receipt
  <2> QED
    BY <1>1, <1>3, <1>4, <1>6, <2>1, <2>2
       DEF BatchEffect, IInv, TypeOK, row, run, receipt
<1> HIDE DEF row, run
<1>8. \A r \in Runs : runs'[r].state = "finalized" =>
        runs'[r].sha # None /\ runs'[r].finalizedAt # None
  BY <1>4, <1>5 DEF IInv, TypeOK
<1>9. RowsWhole'
  <2>1. \A j \in Keys : intents[j].run # None => intents[j].run \in Runs
    BY DEF IInv, TypeOK, IntentRow, OrNone
  <2>2. runs[q.run].key \in RunKeys
    BY <1>1, <1>4 DEF IInv, Tables, RowsWhole
  <2> QED
    BY <1>1, <1>2, <1>3, <1>4, <1>5, <2>1, <2>2 DEF IInv, Tables, RowsWhole
<1>10. ASSUME NEW r \in Runs, runs'[r].sha # None
       PROVE  /\ r2'[runs'[r].sha] # None
              /\ \E j \in Keys :
                   /\ intents'[j].run = r /\ intents'[j].sha = runs'[r].sha
                   /\ intents'[j].consumedAt # None
                   /\ uploads'[j] = [run |-> r, sha |-> runs'[r].sha]
                   /\ commits'[j].run = r /\ commits'[j].sha = runs'[r].sha
                   /\ objects'[runs'[r].sha] = intents'[j].ctype
  <2>1. CASE r = q.run
    BY <1>1, <1>2, <1>3, <1>4, <1>5, <2>1
  <2>2. CASE r # q.run
    <3>1. runs'[r] = runs[r] /\ runs[r].sha \in Digests
      BY <1>5, <1>10, <2>2 DEF IInv, TypeOK, RunRow, OrNone
    <3>2. PICK j \in Keys :
            /\ intents[j].run = r /\ intents[j].sha = runs[r].sha
            /\ intents[j].consumedAt # None
            /\ uploads[j] = [run |-> r, sha |-> runs[r].sha]
            /\ commits[j].run = r /\ commits[j].sha = runs[r].sha
            /\ objects[runs[r].sha] = intents[j].ctype
      BY <1>10, <3>1 DEF IInv, Tables, AttachmentComplete
    <3>3. j # k
      BY <1>1, <3>2 DEF Available
    <3>4. objects'[runs[r].sha] = objects[runs[r].sha]
      <4>1. intents[j].run # None
        BY <3>2, ConstantsAssumption
      <4>2. intents[j].ctype \in Types
        BY <4>1 DEF IInv, Tables, RowsWhole
      <4>3. objects[runs[r].sha] # None
        BY <3>2, <4>2, ConstantsAssumption
      <4> QED
        BY <1>1, <1>5, <3>1, <4>3
    <3>5. r2'[runs[r].sha] # None
      BY <1>10, <3>1 DEF IInv, Tables, AttachmentComplete
    <3> QED
      BY <1>5, <3>1, <3>2, <3>3, <3>4, <3>5
  <2> QED
    BY <2>1, <2>2
<1>11. AttachmentComplete'
  BY <1>10 DEF AttachmentComplete
<1>12. ASSUME NEW j \in Keys
       PROVE  /\ intents'[j].consumedAt # None <=> uploads'[j].run # None
              /\ intents'[j].consumedAt # None <=> commits'[j].run # None
              /\ intents'[j].consumedAt # None =>
                   /\ uploads'[j] = [run |-> intents'[j].run, sha |-> intents'[j].sha]
                   /\ commits'[j] = [run |-> intents'[j].run, sha |-> intents'[j].sha,
                                     at |-> intents'[j].consumedAt]
                   /\ intents'[j].consumedAt < intents'[j].expiresAt
                   /\ runs'[intents'[j].run].sha = intents'[j].sha
  <2>1. CASE j = k
    BY <1>1, <1>2, <1>3, <1>4, <1>5, <2>1
  <2>2. CASE j # k
    <3>1. /\ intents'[j] = intents[j] /\ uploads'[j] = uploads[j]
          /\ commits'[j] = commits[j]
      BY <1>5, <2>2
    <3>2. /\ intents[j].consumedAt # None <=> uploads[j].run # None
          /\ intents[j].consumedAt # None <=> commits[j].run # None
          /\ intents[j].consumedAt # None =>
               /\ uploads[j] = [run |-> intents[j].run, sha |-> intents[j].sha]
               /\ commits[j] = [run |-> intents[j].run, sha |-> intents[j].sha,
                                at |-> intents[j].consumedAt]
               /\ intents[j].consumedAt < intents[j].expiresAt
               /\ runs[intents[j].run].sha = intents[j].sha
      BY DEF IInv, Tables, CapabilitySpentWhole
    <3>3. intents[j].consumedAt # None =>
            runs'[intents[j].run].sha = intents[j].sha
      <4>1. intents[j].consumedAt # None =>
              intents[j].run \in Runs /\ intents[j].sha \in Digests
        BY DEF IInv, Tables, RowsWhole, TypeOK, IntentRow, OrNone, NoIntent
      <4>2. None \notin Digests
        BY ConstantsAssumption
      <4> QED
        BY <1>4, <1>5, <3>2, <4>1, <4>2
    <3> QED
      BY <3>1, <3>2, <3>3
  <2> QED
    BY <2>1, <2>2
<1>13. CapabilitySpentWhole'
  BY <1>12 DEF CapabilitySpentWhole
<1>14. Grows(runs, intents, r2, now, runs', intents', r2', now')
  BY <1>1, <1>3, <1>4, <1>5 DEF Grows, IInv, TypeOK, Time, SameIntent
<1>15. \A t \in Slots : Pending(req[t]) => runs'[req[t].run].state = "absent"
  <2>1. \A t \in Slots : Pending(req[t]) =>
          req[t].run \in Runs /\ runs[req[t].run].state = "absent"
    BY DEF IInv, Fits, FitsIn, Pending, CreatePcs
  <2> QED
    BY <1>4, <1>5, <2>1
<1> QED
  BY <1>7, <1>8, <1>9, <1>11, <1>13, <1>14, <1>15 DEF Tables

LEMMA AttachBatchStep ==
  ASSUME IInv, NEW s \in Slots, AttachBatch(s)
  PROVE  IInv'
<1> DEFINE x == req[s]
<1>1. x \in Request /\ Fits(x) /\ x.pc = "attach_batch" /\ At(s, "attach_batch")
  BY DEF IInv, TypeOK, AttachBatch, At
<1>2. PICK p \in {"attach_read", "attach_catch"} : Goto(s, p)
  BY DEF AttachBatch
<1> DEFINE q == [x EXCEPT !.pc = p]
<1>3. q \in Request /\ Moved(q, x, p) /\ req' = [req EXCEPT ![s] = q]
  BY <1>1, <1>2, MovedRequest DEF Goto, Pcs
<1>4. UNCHANGED <<now, events, r2>>
  BY DEF AttachBatch
<1> HIDE DEF q
<1>5. CASE UNCHANGED tables
  <2>1. Fits(q) /\ ~Pending(q) /\ q.op # "create"
    BY <1>1, <1>3 DEF Moved, SameIntent, Fits, FitsIn, Pending, CreatePcs, IntentPcs, UploadPcs,
       FinalizePcs, EventPcs
  <2>2. Fresh'
    BY <1>3, <2>1, FreshStep
  <2> QED
    BY <1>3, <1>4, <1>5, <2>1, <2>2, QuietStep
<1>6. CASE BatchCommits(s) /\ BatchEffect(s)
  <2>1. /\ Tables' /\ Grows(runs, intents, r2, now, runs', intents', r2', now')
        /\ \A t \in Slots : Pending(req[t]) => runs'[req[t].run].state = "absent"
    BY <1>1, <1>4, <1>6, BatchTables
  <2>2. TypeOK'
    BY <1>1, <1>3, <1>4, <1>6, BatchTables DEF IInv, TypeOK
  <2>3. FitsIn(q, runs', intents', r2', now') /\ ~Pending(q) /\ q.op # "create"
    <3>1. /\ q.op = "upload" /\ q.key \in Keys /\ q.run \in Runs /\ q.sha \in Digests
          /\ q.ctype \in Types /\ q.at \in Time /\ q.at <= now
          /\ intents[q.key].run # None /\ SameIntent(intents[q.key], q)
      BY <1>1, <1>3, ConstantsAssumption DEF Moved, Fits, FitsIn, UploadPcs, SameIntent, Time
    <3> QED
      BY <1>3, <1>4, <2>1, <3>1 DEF Grows, Moved, SameIntent, Fits, FitsIn, Pending, CreatePcs, IntentPcs, UploadPcs,
       FinalizePcs, EventPcs
  <2> QED
    BY <1>3, <2>1, <2>2, <2>3, WriteStep
<1> QED
  BY <1>5, <1>6 DEF AttachBatch

-----------------------------------------------------------------------------
(* The invariant, and the theorems *)

LEMMA InitIInv == Init => IInv
<1> SUFFICES ASSUME Init PROVE IInv
  OBVIOUS
<1>1. NoRun \in RunRow /\ NoRun.sha = None /\ NoRun.state = "absent"
  BY DEF NoRun, RunRow, OrNone, RunStates
<1>2. /\ NoIntent \in IntentRow /\ NoIntent.run = None /\ NoIntent.consumedAt = None
      /\ NoLink \in LinkRow /\ NoLink.run = None
      /\ NoCommit \in CommitRow /\ NoCommit.run = None /\ NoEvent \in EventRow
  BY ConstantsAssumption DEF NoIntent, IntentRow, NoLink, LinkRow, NoCommit, CommitRow,
     NoEvent, EventRow, OrNone, Expiry
<1>3. Idle.pc = "idle" /\ Idle.at = None /\ Idle \in Request
  BY IdleRequest DEF Idle
<1>4. now \in Time
  BY ConstantsAssumption DEF Init, Time
<1>5. TypeOK
  BY <1>1, <1>2, <1>3, <1>4 DEF Init, TypeOK, OrNone
<1>6. Tables
  BY <1>1, <1>2 DEF Init, Tables, RowsWhole, AttachmentComplete, CapabilitySpentWhole
<1>7. Fresh
  BY <1>3 DEF Init, Fresh, Pending
<1>8. \A s \in Slots : Fits(req[s])
  BY <1>3, DoneFits DEF Init
<1> QED
  BY <1>5, <1>6, <1>7, <1>8 DEF IInv

LEMMA NextIInv == IInv /\ [Next]_vars => IInv'
<1> SUFFICES ASSUME IInv, [Next]_vars PROVE IInv'
  OBVIOUS
<1>1. CASE UNCHANGED vars
  BY <1>1 DEF vars, tables, IInv, TypeOK, Tables, RowsWhole, AttachmentComplete,
     CapabilitySpentWhole, Fresh, Fits
<1>2. CASE Tick
  BY <1>2, TickStep
<1>3. ASSUME NEW s \in Slots, Begin(s) PROVE IInv'
  BY <1>3, BeginStep
<1>4. ASSUME NEW s \in Slots, Drop(s) PROVE IInv'
  BY <1>4, DropStep
<1>5. ASSUME NEW s \in Slots, CreateStep(s) PROVE IInv'
  BY <1>5, CreateQuiet, CreateInsertStep DEF CreateStep
<1>6. ASSUME NEW s \in Slots, IntentStep(s) PROVE IInv'
  BY <1>6, IntentQuiet, IntentInsertStep, IntentRenewStep DEF IntentStep
<1>7. ASSUME NEW s \in Slots, UploadStep(s) PROVE IInv'
  BY <1>7, UploadQuiet, R2PutStep, AttachBatchStep DEF UploadStep
<1>8. ASSUME NEW s \in Slots, FinalizeStep(s) PROVE IInv'
  BY <1>8, FinalizeQuiet, FinalizeUpdateStep DEF FinalizeStep
<1>9. ASSUME NEW s \in Slots, EventStep(s) PROVE IInv'
  BY <1>9, EventQuiet, EventInsertStep DEF EventStep
<1> QED
  BY <1>1, <1>2, <1>3, <1>4, <1>5, <1>6, <1>7, <1>8, <1>9 DEF Next, Serve

LEMMA Invariant == Spec => []IInv
BY InitIInv, NextIInv, PTL DEF Spec

\* Every row and every request is well typed, and the CHECK constraints of the
\* schema hold, whatever requests interleave.
THEOREM TypeCorrect == Spec => []TypeOK
<1>1. IInv => TypeOK
  BY DEF IInv
<1> QED
  BY <1>1, Invariant, PTL

\* Every run that carries a digest, and so every finalized run, is backed by a
\* spent intent, an upload row, a receipt, a metadata row and bytes in R2.
THEOREM AttachmentsComplete == Spec => []AttachmentComplete
<1>1. IInv => AttachmentComplete
  BY DEF IInv, Tables
<1> QED
  BY <1>1, Invariant, PTL

\* A one-time capability is spent by a complete attachment or not at all.
THEOREM CapabilitiesSpentWhole == Spec => []CapabilitySpentWhole
<1>1. IInv => CapabilitySpentWhole
  BY DEF IInv, Tables
<1> QED
  BY <1>1, Invariant, PTL
=============================================================================
