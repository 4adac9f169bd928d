---------------------------- MODULE TraceBackend ----------------------------
(***************************************************************************)
(* The private trace backend (backend/trace/): runs, one-time upload       *)
(* intents, content-addressed trace bytes in R2, their metadata in D1, and *)
(* progress events.  Every HTTP request is a process in a slot: one action *)
(* per await of the handler, that is per D1 statement, D1 batch or R2      *)
(* call, so requests interleave wherever the Worker can be suspended.  A   *)
(* request may be dropped between any two steps, and the answer of a write *)
(* may be lost after the write took effect.                                *)
(*                                                                         *)
(* Abstractions.  A key is the pair (GitHub user, Idempotency-Key): each   *)
(* table has a UNIQUE index on that pair.  An upload capability is the     *)
(* HMAC of (user, run, key, digest); intents never change those columns,   *)
(* so the key names the capability.  Honest bytes of a digest have one     *)
(* size, so only the content type of an intent is kept.                    *)
(***************************************************************************)
EXTENDS Integers

CONSTANTS
  Runs,       \* server run ids (randomId)
  Users,      \* GitHub users
  RunKeys,    \* (GitHub user, Idempotency-Key) pairs of trace_runs,
  Keys,       \* of trace_upload_intents,
  EventKeys,  \* and of run_progress_events
  KeyUser,    \* the user of each key
  Digests,    \* SHA-256 of trace bytes
  Types,      \* content types
  Bodies,     \* bodies of a run or an event: everything sameCreate, sameEvent compare
  Slots,      \* requests in flight
  UploadTtl,  \* five minutes, in ticks
  MaxTime,    \* bound of the clock
  None        \* SQL NULL, and a row that does not exist

ASSUME ConstantsAssumption ==
  /\ KeyUser \in [RunKeys \cup Keys \cup EventKeys -> Users]
  /\ UploadTtl \in Nat \ {0}
  /\ MaxTime \in Nat
  /\ None \notin Runs \cup Users \cup Digests \cup Types \cup Bodies \cup Int
  /\ None \notin RunKeys \cup Keys \cup EventKeys

VARIABLES
  now,      \* the clock that deps.now() reads
  runs,     \* trace_runs
  intents,  \* trace_upload_intents
  objects,  \* trace_objects: the content type of a digest's row
  uploads,  \* trace_uploads, by (user, token hash)
  commits,  \* trace_attachment_commits
  events,   \* run_progress_events
  r2,       \* the PRIVATE_TRACES bucket: content type of the stored bytes
  req       \* the request in each slot

tables == <<runs, intents, objects, uploads, commits, events>>
vars == <<now, runs, intents, objects, uploads, commits, events, r2, req>>

Time == 0 .. MaxTime
Expiry == 0 .. MaxTime + UploadTtl
OrNone(S) == S \cup {None}

RunStates == {"absent", "awaiting_trace", "trace_uploaded", "finalized"}

RunRow ==
  [state: RunStates, key: OrNone(RunKeys), body: OrNone(Bodies),
   sha: OrNone(Digests), finalizedAt: OrNone(Time)]
IntentRow ==
  [run: OrNone(Runs), sha: OrNone(Digests), ctype: OrNone(Types),
   expiresAt: Expiry, consumedAt: OrNone(Time)]
LinkRow == [run: OrNone(Runs), sha: OrNone(Digests)]
CommitRow == [run: OrNone(Runs), sha: OrNone(Digests), at: OrNone(Time)]
EventRow == [run: OrNone(Runs), body: OrNone(Bodies)]

NoRun ==
  [state |-> "absent", key |-> None, body |-> None, sha |-> None,
   finalizedAt |-> None]
NoIntent ==
  [run |-> None, sha |-> None, ctype |-> None, expiresAt |-> 0,
   consumedAt |-> None]
NoLink == [run |-> None, sha |-> None]
NoCommit == [run |-> None, sha |-> None, at |-> None]
NoEvent == [run |-> None, body |-> None]

Pcs ==
  {"idle", "done",
   "create_select", "create_insert", "create_reselect", "create_read",
   "intent_owner", "intent_stamp", "intent_select", "intent_insert",
   "intent_renew", "intent_reselect",
   "upload_intent", "upload_body", "upload_object", "r2_head", "r2_put",
   "r2_verify", "attach_select", "attach_run", "attach_batch",
   "attach_catch", "attach_read",
   "finalize_read", "finalize_update", "finalize_reread",
   "event_owner", "event_select", "event_insert"}
Ops == {"create", "intent", "upload", "finalize", "event"}
Replies ==
  {"created", "existing", "ok", "conflict", "not_found", "run_finalized",
   "trace_required", "gone", "mismatch", "error"}

\* A request that has not been answered has no reply.
ASSUME RepliesAssumption == None \notin Replies

Request ==
  [op: OrNone(Ops), pc: Pcs, user: OrNone(Users),
   key: OrNone(RunKeys \cup Keys \cup EventKeys), run: OrNone(Runs),
   sha: OrNone(Digests), ctype: OrNone(Types), body: OrNone(Bodies),
   at: OrNone(Time), reply: OrNone(Replies)]
Idle ==
  [op |-> None, pc |-> "idle", user |-> None, key |-> None, run |-> None, sha |-> None,
   ctype |-> None, body |-> None, at |-> None, reply |-> None]

Init ==
  /\ now = 0
  /\ runs = [r \in Runs |-> NoRun]
  /\ intents = [k \in Keys |-> NoIntent]
  /\ objects = [d \in Digests |-> None]
  /\ uploads = [k \in Keys |-> NoLink]
  /\ commits = [k \in Keys |-> NoCommit]
  /\ events = [k \in EventKeys |-> NoEvent]
  /\ r2 = [d \in Digests |-> None]
  /\ req = [s \in Slots |-> Idle]

-----------------------------------------------------------------------------
(* Requests *)

At(s, pc) == req[s].pc = pc
Goto(s, pc) == req' = [req EXCEPT ![s].pc = pc]
Answer(s, reply) ==
  req' = [req EXCEPT ![s] = [@ EXCEPT !.pc = "done", !.reply = reply, !.at = None]]
Refuse(s, reply) ==
  req' = [req EXCEPT ![s] =
             [Idle EXCEPT !.op = req[s].op, !.pc = "done", !.reply = reply]]

\* A new request takes a slot that is free or whose request was answered.
Free(s) == req[s].pc \in {"idle", "done"}

Accept(s, request) ==
  /\ Free(s)
  /\ req' = [req EXCEPT ![s] = request]
  /\ UNCHANGED <<now, tables, r2>>

\* The Worker is evicted or the connection is lost: nothing more happens.
Drop(s) ==
  /\ ~Free(s)
  /\ req' = [req EXCEPT ![s] = Idle]
  /\ UNCHANGED <<now, tables, r2>>

Tick ==
  /\ now < MaxTime
  /\ now' = now + 1
  /\ UNCHANGED <<tables, r2, req>>

\* ensureOwner: another user's run is answered as if it did not exist.
Owns(u, r) == runs[r].state # "absent" /\ KeyUser[runs[r].key] = u

-----------------------------------------------------------------------------
(* POST /runs *)

HasRunFor(k) == \E r \in Runs : runs[r].key = k
RunFor(k) == CHOOSE r \in Runs : runs[r].key = k

\* randomId() names a row that no request has named.
CreateBegin(s, k, b, r) ==
  /\ runs[r].state = "absent"
  /\ \A t \in Slots : req[t].op = "create" => req[t].run # r
  /\ Accept(s, [Idle EXCEPT !.op = "create", !.pc = "create_select",
                            !.user = KeyUser[k], !.key = k, !.body = b, !.run = r])

\* The row of this user's key, or of the same key by a request that won the
\* race: the caller gets that row when it asked for the same run.
AnswerStoredRun(s) ==
  LET found == RunFor(req[s].key)
  IN  /\ HasRunFor(req[s].key)
      /\ IF runs[found].body = req[s].body
         THEN req' = [req EXCEPT ![s] = [@ EXCEPT !.pc = "done", !.run = found,
                                                  !.reply = "existing"]]
         ELSE Refuse(s, "conflict")

CreateSelect(s) ==
  /\ At(s, "create_select")
  /\ \/ AnswerStoredRun(s)
     \/ ~HasRunFor(req[s].key) /\ Goto(s, "create_insert")
  /\ UNCHANGED <<now, tables, r2>>

\* The INSERT, under UNIQUE (github_user_id, create_idempotency_key).
\* An exception of the statement, even one that follows its effect, is caught.
CreateInsert(s) ==
  /\ At(s, "create_insert")
  /\ \/ /\ ~HasRunFor(req[s].key)
        /\ runs' = [runs EXCEPT ![req[s].run] =
                      [NoRun EXCEPT !.state = "awaiting_trace",
                                    !.key = req[s].key,
                                    !.body = req[s].body]]
        /\ Goto(s, "create_read") \/ Goto(s, "create_reselect")
     \/ /\ runs' = runs
        /\ Goto(s, "create_reselect")
  /\ UNCHANGED <<now, intents, objects, uploads, commits, events, r2>>

CreateReselect(s) ==
  /\ At(s, "create_reselect")
  /\ \/ AnswerStoredRun(s)
     \/ ~HasRunFor(req[s].key) /\ Refuse(s, "conflict")
  /\ UNCHANGED <<now, tables, r2>>

CreateRead(s) ==
  /\ At(s, "create_read")
  /\ IF runs[req[s].run].state = "absent"
     THEN Refuse(s, "error")
     ELSE Answer(s, "created")
  /\ UNCHANGED <<now, tables, r2>>

-----------------------------------------------------------------------------
(* POST /runs/{id}/trace-intents *)

\* An intent that an upload can still spend, as of the time `at`.
Available(row, at) == row.run # None /\ row.consumedAt = None /\ row.expiresAt > at

\* An intent that an identical request may renew, as of the time `at`.
RenewableThoughSpent(row, at) == row.expiresAt <= at
Renewable(row, at) == row.consumedAt = None /\ row.expiresAt <= at

\* The UNIQUE (github_user_id, idempotency_key) index of the table.
KeyUnusedUpsert(k) == TRUE
KeyUnused(k) == intents[k].run = None

SameIntent(row, q) == row.run = q.run /\ row.sha = q.sha /\ row.ctype = q.ctype

IntentBegin(s, k, r, d, c) ==
  Accept(s, [Idle EXCEPT !.op = "intent", !.pc = "intent_owner",
                         !.user = KeyUser[k], !.key = k, !.run = r, !.sha = d,
                         !.ctype = c])

IntentOwner(s) ==
  /\ At(s, "intent_owner")
  /\ IF ~Owns(req[s].user, req[s].run)
     THEN Refuse(s, "not_found")
     ELSE IF runs[req[s].run].state = "finalized"
          THEN Refuse(s, "run_finalized")
          ELSE Goto(s, "intent_stamp")
  /\ UNCHANGED <<now, tables, r2>>

\* createdAt is read before the SELECT is sent.
IntentStamp(s) ==
  /\ At(s, "intent_stamp")
  /\ req' = [req EXCEPT ![s] = [@ EXCEPT !.pc = "intent_select", !.at = now]]
  /\ UNCHANGED <<now, tables, r2>>

IntentSelect(s) ==
  LET q == req[s]
      row == intents[q.key]
  IN  /\ At(s, "intent_select")
      /\ IF row.run = None
         THEN Goto(s, "intent_insert")
         ELSE IF ~SameIntent(row, q)
         THEN Refuse(s, "conflict")
         ELSE IF Renewable(row, q.at)
         THEN Goto(s, "intent_renew")
         ELSE Answer(s, "existing")
      /\ UNCHANGED <<now, tables, r2>>

\* Every exception of the INSERT, a lost answer too, is a conflict.
IntentInsert(s) ==
  LET q == req[s]
  IN  /\ At(s, "intent_insert")
      /\ \/ /\ KeyUnused(q.key)
            /\ intents' = [intents EXCEPT ![q.key] =
                 [run |-> q.run, sha |-> q.sha, ctype |-> q.ctype,
                  expiresAt |-> q.at + UploadTtl, consumedAt |-> None]]
            /\ Answer(s, "created") \/ Refuse(s, "conflict")
         \/ /\ intents' = intents
            /\ Refuse(s, "conflict")
      /\ UNCHANGED <<now, runs, objects, uploads, commits, events, r2>>

\* The guarded UPDATE: a row consumed or renewed since the SELECT is left.
IntentRenew(s) ==
  LET q == req[s]
      row == intents[q.key]
  IN  /\ At(s, "intent_renew")
      /\ intents' = [intents EXCEPT ![q.key].expiresAt =
           IF Renewable(row, q.at) THEN q.at + UploadTtl ELSE @]
      /\ Goto(s, "intent_reselect")
      /\ UNCHANGED <<now, runs, objects, uploads, commits, events, r2>>

IntentReselect(s) ==
  LET q == req[s]
      row == intents[q.key]
  IN  /\ At(s, "intent_reselect")
      /\ IF SameIntent(row, q) /\ Available(row, q.at)
         THEN Answer(s, "existing")
         ELSE Refuse(s, "conflict")
      /\ UNCHANGED <<now, tables, r2>>

-----------------------------------------------------------------------------
(* PUT /trace-uploads/{capability} *)

\* Only an answer to POST trace-intents holds the capability.  authorizedAt is
\* read here and used, however late, by every later statement of the request.
UploadBegin(s, k) ==
  /\ intents[k].run # None
  /\ Accept(s, [Idle EXCEPT !.op = "upload", !.pc = "upload_intent",
                            !.user = KeyUser[k], !.key = k, !.at = now])

UploadIntent(s) ==
  LET q == req[s]
      row == intents[q.key]
  IN  /\ At(s, "upload_intent")
      /\ IF Available(row, q.at)
         THEN req' = [req EXCEPT ![s] =
                        [@ EXCEPT !.pc = "upload_body", !.run = row.run,
                                  !.sha = row.sha, !.ctype = row.ctype]]
         ELSE Refuse(s, "gone")
      /\ UNCHANGED <<now, tables, r2>>

\* The body arrives and its type, size and digest are those of the intent.
UploadBody(s) ==
  /\ At(s, "upload_body")
  /\ Goto(s, "upload_object") \/ Refuse(s, "mismatch")
  /\ UNCHANGED <<now, tables, r2>>

UploadObject(s) ==
  /\ At(s, "upload_object")
  /\ IF objects[req[s].sha] \in {None, req[s].ctype}
     THEN Goto(s, "r2_head")
     ELSE Refuse(s, "conflict")
  /\ UNCHANGED <<now, tables, r2>>

\* Stored bytes are read back and verified; R2 holds only verified bytes.
R2Head(s) ==
  /\ At(s, "r2_head")
  /\ IF r2[req[s].sha] # None
     THEN Goto(s, "attach_select")
     ELSE Goto(s, "r2_put")
  /\ UNCHANGED <<now, tables, r2>>

\* The conditional create: it may fail, or lose to another upload.
R2Put(s) ==
  LET d == req[s].sha
  IN  /\ At(s, "r2_put")
      /\ r2' = r2 \/ r2' = [r2 EXCEPT ![d] = IF @ = None THEN req[s].ctype ELSE @]
      /\ Goto(s, "r2_verify")
      /\ UNCHANGED <<now, tables>>

R2VerifySkipped(s) ==
  /\ At(s, "r2_verify")
  /\ Goto(s, "attach_select")
  /\ UNCHANGED <<now, tables, r2>>

\* Whatever the put answered, the bytes must now be there.
R2Verify(s) ==
  /\ At(s, "r2_verify")
  /\ IF r2[req[s].sha] # None
     THEN Goto(s, "attach_select")
     ELSE Refuse(s, "error")
  /\ UNCHANGED <<now, tables, r2>>

AttachSelect(s) ==
  /\ At(s, "attach_select")
  /\ IF uploads[req[s].key].run = None
     THEN Goto(s, "attach_run")
     ELSE Refuse(s, "conflict")
  /\ UNCHANGED <<now, tables, r2>>

RunTakesWhenFinalized(row, d) == row.sha \in {None, d}
RunTakesAnyDigest(row, d) == row.state # "finalized"
\* A run takes a digest while it is open and carries none or the same one.
RunTakes(row, d) == row.state # "finalized" /\ row.sha \in {None, d}

AttachRun(s) ==
  LET q == req[s]
  IN  /\ At(s, "attach_run")
      /\ IF Owns(q.user, q.run) /\ RunTakes(runs[q.run], q.sha)
         THEN Goto(s, "attach_batch")
         ELSE Refuse(s, "conflict")
      /\ UNCHANGED <<now, tables, r2>>

\* The batch is one transaction of five statements; each of the next
\* operators is a row as the statement of that name leaves it.
IntentAfter(s) ==
  LET q == req[s]
      row == intents[q.key]
  IN  IF Available(row, q.at) /\ SameIntent(row, q)
      THEN [row EXCEPT !.consumedAt = q.at]
      ELSE row

\* The later statements look for an intent consumed at this request's stamp.
Spent(s) ==
  LET row == IntentAfter(s)
  IN  SameIntent(row, req[s]) /\ row.consumedAt = req[s].at

ObjectAfter(s) ==
  LET d == req[s].sha
  IN  IF Spent(s) /\ objects[d] = None THEN req[s].ctype ELSE objects[d]

LinkInserted(s) == Spent(s) /\ ObjectAfter(s) = req[s].ctype

LinkAfter(s) ==
  IF LinkInserted(s)
  THEN [run |-> req[s].run, sha |-> req[s].sha]
  ELSE uploads[req[s].key]

LinksRun(row, q) == row.run = q.run /\ row.sha = q.sha

RunAfter(s) ==
  LET q == req[s]
  IN  IF /\ Owns(q.user, q.run) /\ RunTakes(runs[q.run], q.sha)
         /\ LinksRun(LinkAfter(s), q) /\ Spent(s)
      THEN [runs[q.run] EXCEPT !.sha = q.sha, !.state = "trace_uploaded"]
      ELSE runs[q.run]

CommitUnchecked(s) == TRUE
\* The trigger trace_attachment_commit_validate lets the last INSERT pass.
CommitValid(s) ==
  LET q == req[s]
  IN  /\ Spent(s)
      /\ LinksRun(LinkAfter(s), q)
      /\ ObjectAfter(s) = q.ctype
      /\ RunAfter(s).sha = q.sha
      /\ RunAfter(s).state = "trace_uploaded"

\* Mutant: as if trace_uploads and the receipts had no primary keys.
BatchCommitsUnkeyed(s) == CommitValid(s)

\* No primary key is violated and the trigger does not abort.
BatchCommits(s) ==
  LET k == req[s].key
  IN  /\ LinkInserted(s) => uploads[k].run = None
      /\ commits[k].run = None
      /\ CommitValid(s)

BatchEffect(s) ==
  LET q == req[s]
  IN  /\ intents' = [intents EXCEPT ![q.key] = IntentAfter(s)]
      /\ objects' = [objects EXCEPT ![q.sha] = ObjectAfter(s)]
      /\ uploads' = [uploads EXCEPT ![q.key] = LinkAfter(s)]
      /\ runs' = [runs EXCEPT ![q.run] = RunAfter(s)]
      /\ commits' = [commits EXCEPT ![q.key] =
                       [run |-> q.run, sha |-> q.sha, at |-> q.at]]

\* The answer of a committed batch may be lost; a batch may fail by itself.
AttachBatch(s) ==
  /\ At(s, "attach_batch")
  /\ \/ /\ BatchCommits(s)
        /\ BatchEffect(s)
        /\ Goto(s, "attach_read") \/ Goto(s, "attach_catch")
     \/ /\ UNCHANGED tables
        /\ Goto(s, "attach_catch")
  /\ UNCHANGED <<now, events, r2>>

\* A batch that failed although the intent is still there is a server error.
AttachCatch(s) ==
  LET q == req[s]
  IN  /\ At(s, "attach_catch")
      /\ IF Available(intents[q.key], q.at)
         THEN Refuse(s, "error")
         ELSE Refuse(s, "conflict")
      /\ UNCHANGED <<now, tables, r2>>

AttachRead(s) ==
  LET q == req[s]
  IN  /\ At(s, "attach_read")
      /\ IF runs[q.run].sha = q.sha
         THEN Answer(s, "created")
         ELSE Refuse(s, "conflict")
      /\ UNCHANGED <<now, tables, r2>>

-----------------------------------------------------------------------------
(* POST /runs/{id}/finalize *)

FinalizeBegin(s, u, r) ==
  Accept(s, [Idle EXCEPT !.op = "finalize", !.pc = "finalize_read",
                         !.user = u, !.run = r])

FinalizeRead(s) ==
  LET q == req[s]
  IN  /\ At(s, "finalize_read")
      /\ IF ~Owns(q.user, q.run)
         THEN Refuse(s, "not_found")
         ELSE IF runs[q.run].sha = None
              THEN Refuse(s, "trace_required")
              ELSE req' = [req EXCEPT ![s] =
                             [@ EXCEPT !.pc = "finalize_update", !.at = now]]
      /\ UNCHANGED <<now, tables, r2>>

SealedUntimed(row, at) == [row EXCEPT !.state = "finalized"]
\* The UPDATE sets no digest and keeps the first finalized_at (COALESCE).
Sealed(row, at) ==
  [row EXCEPT !.state = "finalized",
              !.finalizedAt = IF @ = None THEN at ELSE @]

FinalizeUpdate(s) ==
  LET q == req[s]
      row == runs[q.run]
  IN  /\ At(s, "finalize_update")
      /\ runs' = [runs EXCEPT ![q.run] =
           IF Owns(q.user, q.run) /\ row.sha # None THEN Sealed(row, q.at) ELSE row]
      /\ Goto(s, "finalize_reread")
      /\ UNCHANGED <<now, intents, objects, uploads, commits, events, r2>>

FinalizeReread(s) ==
  LET q == req[s]
      row == runs[q.run]
  IN  /\ At(s, "finalize_reread")
      /\ IF Owns(q.user, q.run) /\ row.state = "finalized"
         THEN req' = [req EXCEPT ![s] = [@ EXCEPT !.pc = "done", !.reply = "ok",
                                                  !.sha = row.sha, !.at = None]]
         ELSE Refuse(s, "conflict")
      /\ UNCHANGED <<now, tables, r2>>

-----------------------------------------------------------------------------
(* POST /runs/{id}/events *)

EventBegin(s, k, r, b) ==
  Accept(s, [Idle EXCEPT !.op = "event", !.pc = "event_owner",
                         !.user = KeyUser[k], !.key = k, !.run = r, !.body = b])

EventOwner(s) ==
  /\ At(s, "event_owner")
  /\ IF ~Owns(req[s].user, req[s].run)
     THEN Refuse(s, "not_found")
     ELSE IF runs[req[s].run].state = "finalized"
          THEN Refuse(s, "run_finalized")
          ELSE Goto(s, "event_select")
  /\ UNCHANGED <<now, tables, r2>>

EventSelect(s) ==
  LET q == req[s]
      row == events[q.key]
  IN  /\ At(s, "event_select")
      /\ IF row.run = None
         THEN Goto(s, "event_insert")
         ELSE IF row.run = q.run /\ row.body = q.body
              THEN Answer(s, "existing")
              ELSE Refuse(s, "conflict")
      /\ UNCHANGED <<now, tables, r2>>

EventAllowedLate(q) == Owns(q.user, q.run) /\ events[q.key].run = None
\* The INSERT ... SELECT reads the run's state again, in the same statement.
EventAllowed(q) ==
  Owns(q.user, q.run) /\ runs[q.run].state # "finalized" /\ events[q.key].run = None

EventInsert(s) ==
  LET q == req[s]
  IN  /\ At(s, "event_insert")
      /\ \/ /\ EventAllowed(q)
            /\ events' = [events EXCEPT ![q.key] =
                            [run |-> q.run, body |-> q.body]]
            /\ Answer(s, "created") \/ Refuse(s, "conflict")
         \/ /\ events' = events
            /\ Refuse(s, "conflict")
      /\ UNCHANGED <<now, runs, intents, objects, uploads, commits, r2>>

-----------------------------------------------------------------------------
Begin(s) ==
  \/ \E k \in RunKeys, b \in Bodies, r \in Runs : CreateBegin(s, k, b, r)
  \/ \E k \in Keys, r \in Runs, d \in Digests, c \in Types :
       IntentBegin(s, k, r, d, c)
  \/ \E k \in Keys : UploadBegin(s, k)
  \/ \E u \in Users, r \in Runs : FinalizeBegin(s, u, r)
  \/ \E k \in EventKeys, r \in Runs, b \in Bodies : EventBegin(s, k, r, b)

CreateStep(s) ==
  CreateSelect(s) \/ CreateInsert(s) \/ CreateReselect(s) \/ CreateRead(s)
IntentStep(s) ==
  \/ IntentOwner(s) \/ IntentStamp(s) \/ IntentSelect(s)
  \/ IntentInsert(s) \/ IntentRenew(s) \/ IntentReselect(s)
UploadStep(s) ==
  \/ UploadIntent(s) \/ UploadBody(s) \/ UploadObject(s)
  \/ R2Head(s) \/ R2Put(s) \/ R2Verify(s)
  \/ AttachSelect(s) \/ AttachRun(s) \/ AttachBatch(s)
  \/ AttachCatch(s) \/ AttachRead(s)
FinalizeStep(s) == FinalizeRead(s) \/ FinalizeUpdate(s) \/ FinalizeReread(s)
EventStep(s) == EventOwner(s) \/ EventSelect(s) \/ EventInsert(s)

Serve(s) ==
  CreateStep(s) \/ IntentStep(s) \/ UploadStep(s) \/ FinalizeStep(s) \/ EventStep(s)

Next == Tick \/ \E s \in Slots : Begin(s) \/ Serve(s) \/ Drop(s)

Spec == Init /\ [][Next]_vars

-----------------------------------------------------------------------------
(* Properties *)

\* Every column and every request has its type, and the CHECK constraints of
\* trace_runs hold: a finalized run has a trace and a time of finalization.
TypeOK ==
  /\ now \in Time
  /\ runs \in [Runs -> RunRow]
  /\ intents \in [Keys -> IntentRow]
  /\ objects \in [Digests -> OrNone(Types)]
  /\ uploads \in [Keys -> LinkRow]
  /\ commits \in [Keys -> CommitRow]
  /\ events \in [EventKeys -> EventRow]
  /\ r2 \in [Digests -> OrNone(Types)]
  /\ req \in [Slots -> Request]
  /\ \A r \in Runs : runs[r].state = "finalized" =>
       runs[r].sha # None /\ runs[r].finalizedAt # None

\* A run that carries a digest got it from a complete attachment: some spent
\* intent, its upload row and its commit receipt name this run and digest, the
\* digest has a metadata row of that intent's type, and its bytes are in R2.
\* (README "Every finalized run has exactly one SHA-256 trace object.")
AttachmentComplete ==
  \A r \in Runs : runs[r].sha # None =>
    /\ r2[runs[r].sha] # None
    /\ \E k \in Keys :
         /\ intents[k].run = r /\ intents[k].sha = runs[r].sha
         /\ intents[k].consumedAt # None
         /\ uploads[k] = [run |-> r, sha |-> runs[r].sha]
         /\ commits[k].run = r /\ commits[k].sha = runs[r].sha
         /\ objects[runs[r].sha] = intents[k].ctype

\* An upload capability is spent by one complete attachment or not at all: the
\* consumed mark, the upload row and the receipt appear together, inside the
\* capability's life, and the run it was spent on then carries its digest.
CapabilitySpentWhole ==
  \A k \in Keys :
    LET row == intents[k] IN
    /\ row.consumedAt # None <=> uploads[k].run # None
    /\ row.consumedAt # None <=> commits[k].run # None
    /\ row.consumedAt # None =>
         /\ uploads[k] = [run |-> row.run, sha |-> row.sha]
         /\ commits[k] = [run |-> row.run, sha |-> row.sha, at |-> row.consumedAt]
         /\ row.consumedAt < row.expiresAt
         /\ runs[row.run].sha = row.sha

\* Of the uploads that present one capability at most one is told that it attached its
\* trace, also when two carry the same stamp, so that each finds the intent consumed at
\* its own time: then the primary keys of the upload and of the receipt decide.
OneUploadAnswered ==
  \A s, t \in Slots :
    /\ req[s].op = "upload" /\ req[s].reply = "created"
    /\ req[t].op = "upload" /\ req[t].reply = "created"
    /\ req[s].key = req[t].key
    => s = t

\* A successful answer states what the tables hold, for as long as the caller
\* may remember it: the run it created, the intent behind its upload URL, the
\* attached or finalized digest, the event.
AnswersHold ==
  \A s \in Slots :
    LET q == req[s] IN
    q.reply \in {"created", "existing", "ok"} =>
      /\ q.op = "create" => runs[q.run].key = q.key /\ runs[q.run].body = q.body
      /\ q.op = "intent" => SameIntent(intents[q.key], q)
      /\ q.op = "upload" => runs[q.run].sha = q.sha /\ LinksRun(commits[q.key], q)
      /\ q.op = "finalize" => runs[q.run].state = "finalized" /\ runs[q.run].sha = q.sha
      /\ q.op = "event" => events[q.key] = [run |-> q.run, body |-> q.body]

\* A trace is written once: a run's digest never changes, and a finalized row,
\* its first finalized_at included, never changes again, though an upload that
\* was authorized before the run was finalized commits after.
TraceWriteOnce ==
  [][\A r \in Runs :
       /\ runs[r].sha # None => runs'[r].sha = runs[r].sha
       /\ runs[r].state = "finalized" => runs'[r] = runs[r]]_vars

IntentKept(row, new) ==
  row.run # None =>
    /\ new.run = row.run /\ new.sha = row.sha /\ new.ctype = row.ctype
    /\ row.consumedAt # None => new = row
    /\ new.expiresAt # row.expiresAt =>
         row.expiresAt <= now /\ new.expiresAt > row.expiresAt

\* An intent is renewed only after it expired and only while unspent, its life
\* never shrinks, and neither a late renewal nor a late upload reopens or
\* redirects a spent one.
IntentRenewedOnlyExpired ==
  [][\A k \in Keys : IntentKept(intents[k], intents'[k])]_vars

\* No event is appended to a run that is finalized, though the request read
\* the run while it was open; stored events are never rewritten.
EventsOnlyWhileOpen ==
  [][\A k \in EventKeys :
       events'[k] # events[k] =>
         events[k].run = None /\ runs[events'[k].run].state # "finalized"]_vars

\* The backend implements the abstract write-once register of traces.
Contract == INSTANCE WriteOnceTrace WITH
  opened <- {r \in Runs : runs[r].state # "absent"},
  trace <- [r \in Runs |-> runs[r].sha],
  sealed <- {r \in Runs : runs[r].state = "finalized"},
  stored <- {d \in Digests : r2[d] # None}
ImplementsContract == Contract!Spec
=============================================================================
