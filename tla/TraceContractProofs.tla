------------------------ MODULE TraceContractProofs -------------------------
(***************************************************************************)
(* From the invariant of TraceBackendProofs: what no step of the backend   *)
(* does to a row that exists, and that the backend implements              *)
(* WriteOnceTrace.                                                         *)
(***************************************************************************)
EXTENDS TraceBackendProofs

\* Steps that leave every table and the bucket alone.
Quiet(s) ==
  \/ Begin(s) \/ Drop(s)
  \/ CreateSelect(s) \/ CreateReselect(s) \/ CreateRead(s)
  \/ IntentOwner(s) \/ IntentStamp(s) \/ IntentSelect(s) \/ IntentReselect(s)
  \/ UploadIntent(s) \/ UploadBody(s) \/ UploadObject(s) \/ R2Head(s)
  \/ R2Verify(s) \/ AttachSelect(s) \/ AttachRun(s) \/ AttachCatch(s) \/ AttachRead(s)
  \/ FinalizeRead(s) \/ FinalizeReread(s)
  \/ EventOwner(s) \/ EventSelect(s)

Writes(s) ==
  \/ CreateInsert(s) \/ IntentInsert(s) \/ IntentRenew(s) \/ R2Put(s)
  \/ AttachBatch(s) \/ FinalizeUpdate(s) \/ EventInsert(s)

LEMMA NextCases ==
  [Next]_vars <=> Tick \/ UNCHANGED vars \/ \E s \in Slots : Quiet(s) \/ Writes(s)
BY DEF Next, Serve, CreateStep, IntentStep, UploadStep, FinalizeStep, EventStep,
   Quiet, Writes

LEMMA QuietTables ==
  ASSUME NEW s \in Slots, Quiet(s)
  PROVE  UNCHANGED <<tables, r2>>
BY DEF Quiet, Begin, CreateBegin, IntentBegin, UploadBegin, FinalizeBegin, EventBegin,
   Accept, Drop, CreateSelect, CreateReselect, CreateRead, IntentOwner, IntentStamp,
   IntentSelect, IntentReselect, UploadIntent, UploadBody, UploadObject, R2Head,
   R2Verify, AttachSelect, AttachRun, AttachCatch, AttachRead, FinalizeRead,
   FinalizeReread, EventOwner, EventSelect

-----------------------------------------------------------------------------
(* How each statement may change a row of runs *)

Opens(r) == runs[r].state = "absent" /\ runs'[r].state = "awaiting_trace" /\ runs'[r].sha = None

Attaches(r) ==
  /\ runs[r].state \notin {"absent", "finalized"}
  /\ runs'[r].sha \in Digests
  /\ runs[r].sha \in {None, runs'[r].sha}
  /\ runs'[r].state = "trace_uploaded"
  /\ r2[runs'[r].sha] # None
  /\ runs'[r].key = runs[r].key /\ runs'[r].body = runs[r].body

Seals(r) ==
  /\ runs[r].state # "absent"
  /\ runs[r].sha # None
  /\ runs'[r].sha = runs[r].sha
  /\ runs'[r].state = "finalized"
  /\ runs[r].state = "finalized" => runs'[r] = runs[r]
  /\ runs'[r].key = runs[r].key /\ runs'[r].body = runs[r].body

LEMMA RunsChange ==
  ASSUME IInv, NEW s \in Slots, Writes(s)
  PROVE  \/ UNCHANGED runs
         \/ \E r \in Runs :
              /\ \A t \in Runs \ {r} : runs'[t] = runs[t]
              /\ Opens(r) \/ Attaches(r) \/ Seals(r)
<1> DEFINE x == req[s]
<1>1. CASE IntentInsert(s) \/ IntentRenew(s) \/ R2Put(s) \/ EventInsert(s)
  BY <1>1 DEF IntentInsert, IntentRenew, R2Put, EventInsert, tables
<1>2. CASE CreateInsert(s)
  <2>1. x.run \in Runs /\ runs[x.run].state = "absent"
    BY <1>2 DEF CreateInsert, At, IInv, Fits, FitsIn, CreatePcs, Pending
  <2> DEFINE row == [NoRun EXCEPT !.state = "awaiting_trace", !.key = x.key,
                                  !.body = x.body]
  <2>2. row.state = "awaiting_trace" /\ row.sha = None
    BY DEF NoRun
  <2>3. runs' = runs \/ runs' = [runs EXCEPT ![x.run] = row]
    BY <1>2 DEF CreateInsert
  <2> HIDE DEF row
  <2> QED
    BY <2>1, <2>2, <2>3 DEF IInv, TypeOK, Opens
<1>3. CASE FinalizeUpdate(s)
  <2>1. x.run \in Runs /\ x.at \in Time
    BY <1>3 DEF FinalizeUpdate, At, IInv, Fits, FitsIn, FinalizePcs
  <2> DEFINE y == runs[x.run]
             z == Sealed(y, x.at)
  <2>2. \/ runs' = [runs EXCEPT ![x.run] = y]
        \/ Owns(x.user, x.run) /\ y.sha # None /\ runs' = [runs EXCEPT ![x.run] = z]
    BY <1>3 DEF FinalizeUpdate
  <2>3. y \in RunRow /\ (y.state = "finalized" => y.finalizedAt # None)
    BY <2>1 DEF IInv, TypeOK
  <2>4. /\ z.sha = y.sha /\ z.state = "finalized" /\ (y.state = "finalized" => z = y)
        /\ z.key = y.key /\ z.body = y.body
    <3> HIDE DEF y
    <3> QED
      BY <2>3 DEF Sealed, RunRow
  <2> HIDE DEF z
  <2>5. CASE runs' = [runs EXCEPT ![x.run] = y]
    BY <2>5 DEF IInv, TypeOK
  <2>6. CASE Owns(x.user, x.run) /\ y.sha # None /\ runs' = [runs EXCEPT ![x.run] = z]
    BY <2>1, <2>4, <2>6 DEF IInv, TypeOK, Seals, Owns
  <2> QED
    BY <2>2, <2>5, <2>6
<1>4. CASE AttachBatch(s)
  <2>1. CASE UNCHANGED tables
    BY <2>1 DEF tables
  <2>2. CASE BatchCommits(s) /\ BatchEffect(s)
    <3> DEFINE y == runs[x.run]
               z == RunAfter(s)
    <3>1. /\ x.run \in Runs /\ x.sha \in Digests /\ r2[x.sha] # None
          /\ \/ z = y /\ y.sha = x.sha /\ y.state = "trace_uploaded"
             \/ /\ y.state # "absent" /\ RunTakes(y, x.sha)
                /\ z = [y EXCEPT !.sha = x.sha, !.state = "trace_uploaded"]
      BY <1>4, <2>2, BatchRows DEF AttachBatch
    <3>2. runs' = [runs EXCEPT ![x.run] = z] /\ y \in RunRow
      BY <2>2, <3>1 DEF BatchEffect, IInv, TypeOK
    <3> HIDE DEF z, y
    <3>3. CASE z = y
      BY <3>2, <3>3 DEF IInv, TypeOK, y
    <3>4. CASE /\ y.state # "absent" /\ RunTakes(y, x.sha)
               /\ z = [y EXCEPT !.sha = x.sha, !.state = "trace_uploaded"]
      <4>1. /\ z.sha = x.sha /\ z.state = "trace_uploaded"
            /\ z.key = y.key /\ z.body = y.body
        BY <3>2, <3>4 DEF RunRow
      <4>2. \A t \in Runs : runs'[t] = IF t = x.run THEN z ELSE runs[t]
        BY <3>2 DEF IInv, TypeOK
      <4> QED
        BY <3>1, <3>4, <4>1, <4>2 DEF Attaches, RunTakes, y
    <3> QED
      BY <3>1, <3>3, <3>4
  <2> QED
    BY <1>4, <2>1, <2>2 DEF AttachBatch
<1> QED
  BY <1>1, <1>2, <1>3, <1>4 DEF Writes

WriteOnce ==
  \A r \in Runs :
    /\ runs[r].sha # None => runs'[r].sha = runs[r].sha
    /\ runs[r].state = "finalized" => runs'[r] = runs[r]

LEMMA WriteOnceStep ==
  ASSUME IInv, [Next]_vars
  PROVE  WriteOnce
<1>1. CASE UNCHANGED runs
  BY <1>1 DEF WriteOnce
<1>2. ASSUME NEW s \in Slots, Writes(s) PROVE WriteOnce
  <2>1. CASE UNCHANGED runs
    BY <2>1 DEF WriteOnce
  <2>2. ASSUME NEW r \in Runs, \A t \in Runs \ {r} : runs'[t] = runs[t],
               Opens(r) \/ Attaches(r) \/ Seals(r)
        PROVE  WriteOnce
    <3>1. runs[r].state = "absent" => runs[r].sha = None
      BY DEF IInv, Tables, RowsWhole, NoRun
    <3> QED
      BY <2>2, <3>1 DEF Opens, Attaches, Seals, WriteOnce
  <2> QED
    BY <1>2, <2>1, <2>2, RunsChange
<1> QED
  BY <1>1, <1>2, NextCases, QuietTables DEF Tick, vars, tables

\* A run's digest is written once and a finalized row never changes again,
\* whatever requests were in flight when it was finalized.
THEOREM TraceIsWriteOnce == Spec => TraceWriteOnce
<1>1. IInv /\ [Next]_vars => [WriteOnce]_vars
  BY WriteOnceStep
<1> QED
  BY <1>1, Invariant, PTL DEF Spec, TraceWriteOnce, WriteOnce
-----------------------------------------------------------------------------
(* Refinement of WriteOnceTrace *)

\* What a statement does to the bucket: nothing, or it adds one digest and
\* leaves the tables alone.
LEMMA BucketChange ==
  ASSUME IInv, NEW s \in Slots, Writes(s)
  PROVE  \/ UNCHANGED r2
         \/ /\ UNCHANGED runs
            /\ \E d \in Digests : \E c \in Types :
                 r2' = [r2 EXCEPT ![d] = IF @ = None THEN c ELSE @]
<1>1. CASE R2Put(s)
  <2>1. req[s].sha \in Digests /\ req[s].ctype \in Types
    BY <1>1 DEF R2Put, At, IInv, Fits, FitsIn, IntentPcs, UploadPcs
  <2> QED
    BY <1>1, <2>1 DEF R2Put, tables
<1>2. CASE ~R2Put(s)
  BY <1>2 DEF Writes, CreateInsert, IntentInsert, IntentRenew, AttachBatch,
     FinalizeUpdate, EventInsert
<1> QED
  BY <1>1, <1>2

LEMMA InitMaps == Init => Contract!Init
<1> SUFFICES ASSUME Init PROVE Contract!Init
  OBVIOUS
<1>1. \A r \in Runs : runs[r].state = "absent" /\ runs[r].sha = None
  BY DEF Init, NoRun
<1>2. \A d \in Digests : r2[d] = None
  BY DEF Init
<1> QED
  BY <1>1, <1>2 DEF Contract!Init

LEMMA StepMaps == IInv /\ [Next]_vars => [Contract!Next]_(Contract!vars)
<1> SUFFICES ASSUME IInv, [Next]_vars PROVE [Contract!Next]_(Contract!vars)
  OBVIOUS
<1> DEFINE opened == {r \in Runs : runs[r].state # "absent"}
           trace == [r \in Runs |-> runs[r].sha]
           sealed == {r \in Runs : runs[r].state = "finalized"}
           stored == {d \in Digests : r2[d] # None}
<1>1. CASE UNCHANGED <<runs, r2>>
  BY <1>1 DEF Contract!vars
<1>2. ASSUME NEW s \in Slots, Writes(s) PROVE [Contract!Next]_(Contract!vars)
  <2>1. CASE UNCHANGED runs
    <3>1. CASE UNCHANGED r2
      BY <2>1, <3>1 DEF Contract!vars
    <3>2. ASSUME NEW d \in Digests, NEW c \in Types,
                 r2' = [r2 EXCEPT ![d] = IF @ = None THEN c ELSE @]
          PROVE  [Contract!Next]_(Contract!vars)
      <4>1. c # None
        BY ConstantsAssumption
      <4>2. stored' = stored \cup {d}
        BY <3>2, <4>1 DEF IInv, TypeOK
      <4>3. Contract!Store(d)
        BY <2>1, <4>2 DEF Contract!Store
      <4> QED
        BY <4>3 DEF Contract!Next
    <3> QED
      BY <1>2, <2>1, <3>1, <3>2, BucketChange
  <2>2. ASSUME UNCHANGED r2, NEW r \in Runs,
               \A t \in Runs \ {r} : runs'[t] = runs[t],
               Opens(r) \/ Attaches(r) \/ Seals(r)
        PROVE  [Contract!Next]_(Contract!vars)
    <3>1. stored' = stored
      BY <2>2
    <3>2. CASE Opens(r)
      <4>1. runs[r].sha = None
        BY <3>2 DEF Opens, IInv, Tables, RowsWhole, NoRun
      <4>2. opened' = opened \cup {r} /\ r \notin opened
        BY <2>2, <3>2 DEF Opens
      <4>3. trace' = trace /\ sealed' = sealed
        BY <2>2, <3>2, <4>1 DEF Opens
      <4>4. Contract!Open(r)
        BY <3>1, <4>2, <4>3 DEF Contract!Open
      <4> QED
        BY <4>4 DEF Contract!Next
    <3>3. CASE Attaches(r)
      <4>0. PICK d \in Digests : d = runs'[r].sha
        BY <3>3 DEF Attaches
      <4>1. opened' = opened /\ sealed' = sealed /\ r \in opened \ sealed
        BY <2>2, <3>3 DEF Attaches
      <4>2. d \in stored
        BY <3>3, <4>0 DEF Attaches
      <4>3. trace' = [trace EXCEPT ![r] = d]
        BY <2>2, <4>0
      <4>4. CASE runs[r].sha = None
        <5>1. Contract!Attach(r, d)
          BY <3>1, <4>1, <4>2, <4>3, <4>4 DEF Contract!Attach
        <5> QED
          BY <5>1 DEF Contract!Next
      <4>5. CASE runs[r].sha = d
        <5>1. trace' = trace
          BY <2>2, <4>0, <4>5
        <5> QED
          BY <3>1, <4>1, <5>1 DEF Contract!vars
      <4> QED
        BY <3>3, <4>0, <4>4, <4>5 DEF Attaches
    <3>4. CASE Seals(r)
      <4>1. trace' = trace /\ opened' = opened
        BY <2>2, <3>4 DEF Seals
      <4>2. sealed' = sealed \cup {r} /\ r \in opened /\ trace[r] # None
        BY <2>2, <3>4 DEF Seals
      <4>3. Contract!Seal(r)
        BY <3>1, <4>1, <4>2 DEF Contract!Seal
      <4> QED
        BY <4>3 DEF Contract!Next
    <3> QED
      BY <2>2, <3>2, <3>3, <3>4
  <2> QED
    BY <1>2, <2>1, <2>2, RunsChange, BucketChange
<1> QED
  BY <1>1, <1>2, NextCases, QuietTables DEF Tick, vars, tables

\* The backend implements the write-once register: with any number of
\* requests in flight, every step opens a run, stores verified bytes, gives an
\* open run its one digest, seals a run that has one, or shows nothing.
THEOREM BackendImplementsContract == Spec => ImplementsContract
BY InitMaps, StepMaps, Invariant, PTL DEF Spec, ImplementsContract, Contract!Spec

-----------------------------------------------------------------------------
(* Intents and events *)

LEMMA IntentRowKept ==
  ASSUME IInv, [Next]_vars, NEW k \in Keys
  PROVE  IntentKept(intents[k], intents'[k])
<1> DEFINE Kept(j) == IntentKept(intents[j], intents'[j])
<1>0. intents[k] \in IntentRow
  BY DEF IInv, TypeOK
<1>1. CASE UNCHANGED intents
  BY <1>1 DEF IntentKept
<1>2. ASSUME NEW s \in Slots, IntentInsert(s) PROVE Kept(k)
  <2>1. \/ intents' = intents
        \/ /\ intents[req[s].key].run = None
           /\ \A j \in Keys \ {req[s].key} : intents'[j] = intents[j]
    BY <1>2 DEF IntentInsert, KeyUnused, IInv, TypeOK
  <2> QED
    BY <2>1 DEF IntentKept
<1>3. ASSUME NEW s \in Slots, IntentRenew(s) PROVE Kept(k)
  <2> DEFINE x == req[s]
             row == intents[x.key]
  <2>1. x.key \in Keys /\ x.at \in Time /\ x.at <= now /\ now \in Time
    BY <1>3, ConstantsAssumption DEF IntentRenew, At, IInv, TypeOK, Fits, FitsIn, IntentPcs, Time
  <2> DEFINE e == IF Renewable(row, x.at) THEN x.at + UploadTtl ELSE row.expiresAt
  <2>2. intents' = [intents EXCEPT ![x.key].expiresAt = e]
    BY <1>3, <2>1 DEF IntentRenew
  <2>3. e = row.expiresAt \/ (Renewable(row, x.at) /\ e = x.at + UploadTtl)
    OBVIOUS
  <2> HIDE DEF e
  <2>4. CASE k = x.key
    <3>1. intents'[k] = [intents[k] EXCEPT !.expiresAt = e]
      BY <2>2, <2>4 DEF IInv, TypeOK
    <3>2. intents[k].expiresAt \in Int /\ now \in Int /\ x.at \in Int
      BY <1>0, <2>1, ConstantsAssumption DEF IntentRow, Expiry, Time
    <3>3. CASE e = row.expiresAt
      <4>1. intents'[k] = intents[k]
        BY <1>0, <2>4, <3>1, <3>3 DEF IntentRow
      <4> QED
        BY <4>1 DEF IntentKept
    <3>4. CASE Renewable(row, x.at) /\ e = x.at + UploadTtl
      BY <1>0, <2>1, <2>4, <3>1, <3>2, <3>4, ConstantsAssumption
      DEF IntentRow, Renewable, IntentKept
    <3> QED
      BY <2>3, <3>3, <3>4
  <2>5. CASE k # x.key
    BY <2>1, <2>2, <2>5 DEF IInv, TypeOK, IntentKept
  <2> QED
    BY <2>4, <2>5
<1>4. ASSUME NEW s \in Slots, AttachBatch(s) PROVE Kept(k)
  <2>1. \/ intents' = intents
        \/ intents' = [intents EXCEPT ![req[s].key] = IntentAfter(s)]
    BY <1>4 DEF AttachBatch, BatchEffect, tables
  <2>2. \/ intents'[k] = intents[k]
        \/ /\ k = req[s].key
           /\ Available(intents[k], req[s].at)
           /\ intents'[k] = [intents[k] EXCEPT !.consumedAt = req[s].at]
    BY <2>1 DEF IntentAfter, IInv, TypeOK
  <2> QED
    BY <1>0, <2>2 DEF Available, IntentRow, IntentKept
<1> QED
  BY <1>1, <1>2, <1>3, <1>4, NextCases, QuietTables
  DEF Tick, vars, tables, Writes, CreateInsert, R2Put, FinalizeUpdate, EventInsert

\* A capability is renewed only after its life and only while unspent; a spent
\* one is never reopened or redirected.
THEOREM IntentsRenewOnlyExpired == Spec => IntentRenewedOnlyExpired
<1>1. IInv /\ [Next]_vars => [\A k \in Keys : IntentKept(intents[k], intents'[k])]_vars
  BY IntentRowKept
<1> QED
  BY <1>1, Invariant, PTL DEF Spec, IntentRenewedOnlyExpired

Held ==
  \A k \in EventKeys :
    events'[k] # events[k] =>
      events[k].run = None /\ runs[events'[k].run].state # "finalized"

LEMMA EventsHeld ==
  ASSUME IInv, [Next]_vars
  PROVE  Held
<1> USE DEF Held
<1>1. CASE UNCHANGED events
  BY <1>1
<1>2. ASSUME NEW s \in Slots, EventInsert(s) PROVE Held
  <2> DEFINE q == req[s]
             row == [run |-> q.run, body |-> q.body]
  <2>1. \/ events' = events
        \/ EventAllowed(q) /\ events' = [events EXCEPT ![q.key] = row]
    BY <1>2 DEF EventInsert
  <2>2. row.run = q.run
    OBVIOUS
  <2> HIDE DEF row, q
  <2> QED
    BY <1>1, <2>1, <2>2 DEF EventAllowed, IInv, TypeOK
<1> QED
  BY <1>1, <1>2, NextCases, QuietTables
  DEF Tick, vars, tables, Writes, CreateInsert, R2Put, FinalizeUpdate,
      IntentInsert, IntentRenew, AttachBatch

\* No event joins a finalized run, and stored events are not rewritten: the
\* INSERT checks the run again in the statement that writes.
THEOREM EventsStopAtFinalize == Spec => EventsOnlyWhileOpen
<1>1. IInv /\ [Next]_vars => [Held]_vars
  BY EventsHeld
<1> QED
  BY <1>1, Invariant, PTL DEF Spec, EventsOnlyWhileOpen, Held

-----------------------------------------------------------------------------
(* What a caller was told *)

Said(q) == q.reply \in {"created", "existing", "ok"}

\* What the answer of q, or the step that will give it, says of the rows; given the rows
\* of runs, intents, commits and events.
HoldsIn(q, rows, opened, receipts, log) ==
  /\ q.pc # "done" => q.reply = None
  /\ q.pc = "create_read" =>
       /\ q.run \in Runs /\ q.key \in RunKeys
       /\ rows[q.run].key = q.key /\ rows[q.run].body = q.body
  /\ q.pc = "attach_read" =>
       /\ q.key \in Keys /\ q.run \in Runs /\ q.sha \in Digests
       /\ LinksRun(receipts[q.key], q)
  /\ Said(q) =>
       /\ q.op = "create" =>
            /\ q.run \in Runs /\ q.key \in RunKeys
            /\ rows[q.run].key = q.key /\ rows[q.run].body = q.body
       /\ q.op = "intent" =>
            q.key \in Keys /\ q.run \in Runs /\ SameIntent(opened[q.key], q)
       /\ q.op = "upload" =>
            /\ q.key \in Keys /\ q.run \in Runs /\ q.sha \in Digests
            /\ rows[q.run].sha = q.sha /\ LinksRun(receipts[q.key], q)
       /\ q.op = "finalize" =>
            /\ q.run \in Runs /\ q.sha \in Digests
            /\ rows[q.run].state = "finalized" /\ rows[q.run].sha = q.sha
       /\ q.op = "event" =>
            /\ q.key \in EventKeys /\ q.run \in Runs
            /\ log[q.key] = [run |-> q.run, body |-> q.body]

Holds(q) == HoldsIn(q, runs, intents, commits, events)
HoldsNext(q) == HoldsIn(q, runs', intents', commits', events')

Told == \A s \in Slots : Holds(req[s])

\* Rows that exist keep what an answer can speak of.
RowsKept ==
  /\ \A r \in Runs : runs[r].key # None =>
       runs'[r].key = runs[r].key /\ runs'[r].body = runs[r].body
  /\ \A r \in Runs : /\ runs[r].sha # None => runs'[r].sha = runs[r].sha
                     /\ runs[r].state = "finalized" => runs'[r].state = "finalized"
  /\ \A k \in Keys : intents[k].run # None =>
       /\ intents'[k].run = intents[k].run /\ intents'[k].sha = intents[k].sha
       /\ intents'[k].ctype = intents[k].ctype
  /\ \A k \in Keys : commits[k].run # None => commits'[k] = commits[k]
  /\ \A k \in EventKeys : events[k].run # None => events'[k] = events[k]

LEMMA KeyKept ==
  ASSUME IInv, [Next]_vars, NEW r \in Runs, runs[r].key # None
  PROVE  runs'[r].key = runs[r].key /\ runs'[r].body = runs[r].body
<1>1. CASE UNCHANGED runs
  BY <1>1
<1>2. ASSUME NEW s \in Slots, Writes(s)
      PROVE  runs'[r].key = runs[r].key /\ runs'[r].body = runs[r].body
  <2>1. runs[r].state # "absent"
    BY DEF IInv, Tables, RowsWhole, NoRun
  <2> QED
    BY <1>2, <2>1, RunsChange DEF Opens, Attaches, Seals
<1> QED
  BY <1>1, <1>2, NextCases, QuietTables DEF Tick, vars, tables

LEMMA ReceiptKept ==
  ASSUME IInv, [Next]_vars, NEW k \in Keys, commits[k].run # None
  PROVE  commits'[k] = commits[k]
<1>1. CASE UNCHANGED commits
  BY <1>1
<1>2. ASSUME NEW s \in Slots, AttachBatch(s) PROVE commits'[k] = commits[k]
  <2>1. \/ UNCHANGED commits
        \/ /\ commits[req[s].key].run = None
           /\ \E row : commits' = [commits EXCEPT ![req[s].key] = row]
    BY <1>2 DEF AttachBatch, BatchCommits, BatchEffect, tables
  <2> QED
    BY <2>1 DEF IInv, TypeOK
<1> QED
  BY <1>1, <1>2, NextCases, QuietTables
  DEF Tick, vars, tables, Writes, CreateInsert, R2Put, FinalizeUpdate, IntentInsert,
      IntentRenew, EventInsert

LEMMA RowsAreKept ==
  ASSUME IInv, [Next]_vars
  PROVE  RowsKept
<1>1. \A r \in Runs : runs[r].key # None =>
        runs'[r].key = runs[r].key /\ runs'[r].body = runs[r].body
  BY KeyKept
<1>2. \A r \in Runs : /\ runs[r].sha # None => runs'[r].sha = runs[r].sha
                      /\ runs[r].state = "finalized" => runs'[r].state = "finalized"
  BY WriteOnceStep DEF WriteOnce
<1>3. \A k \in Keys : intents[k].run # None =>
            /\ intents'[k].run = intents[k].run /\ intents'[k].sha = intents[k].sha
            /\ intents'[k].ctype = intents[k].ctype
  BY IntentRowKept DEF IntentKept
<1>4. \A k \in Keys : commits[k].run # None => commits'[k] = commits[k]
  BY ReceiptKept
<1>5. \A k \in EventKeys : events[k].run # None => events'[k] = events[k]
  BY EventsHeld DEF Held
<1> QED
  BY <1>1, <1>2, <1>3, <1>4, <1>5 DEF RowsKept

LEMMA HoldsKept ==
  ASSUME RowsKept, NEW q, Holds(q)
  PROVE  HoldsNext(q)
<1>1. None \notin Runs \cup Digests \cup RunKeys
  BY ConstantsAssumption
<1>2. Said(q) /\ q.op = "event" => events'[q.key] = [run |-> q.run, body |-> q.body]
  <2> SUFFICES ASSUME Said(q), q.op = "event"
               PROVE  events'[q.key] = [run |-> q.run, body |-> q.body]
    OBVIOUS
  <2>1. q.key \in EventKeys /\ q.run \in Runs /\ events[q.key] = [run |-> q.run, body |-> q.body]
    BY DEF Holds, HoldsIn
  <2>2. events[q.key].run = q.run
    BY <2>1
  <2> QED
    BY <1>1, <2>1, <2>2 DEF RowsKept
<1>3. \A k \in Keys : LinksRun(commits[k], q) /\ q.run \in Runs => LinksRun(commits'[k], q)
  BY <1>1 DEF RowsKept, LinksRun
<1>4. \A k \in Keys : SameIntent(intents[k], q) /\ q.run \in Runs => SameIntent(intents'[k], q)
  BY <1>1 DEF RowsKept, SameIntent
<1>5. \A r \in Runs : runs[r].key \in RunKeys =>
         runs'[r].key = runs[r].key /\ runs'[r].body = runs[r].body
  BY <1>1 DEF RowsKept
<1>6. \A r \in Runs : runs[r].sha \in Digests => runs'[r].sha = runs[r].sha
  BY <1>1 DEF RowsKept
<1>7. \A r \in Runs : runs[r].state = "finalized" => runs'[r].state = "finalized"
  BY DEF RowsKept
<1> USE DEF Holds, HoldsNext, HoldsIn
<1>8. q.pc # "done" => q.reply = None
  OBVIOUS
<1>9. q.pc = "create_read" \/ (Said(q) /\ q.op = "create") =>
        /\ q.run \in Runs /\ q.key \in RunKeys
        /\ runs'[q.run].key = q.key /\ runs'[q.run].body = q.body
  BY <1>5
<1>10. q.pc = "attach_read" =>
         /\ q.key \in Keys /\ q.run \in Runs /\ q.sha \in Digests
         /\ LinksRun(commits'[q.key], q)
  BY <1>3
<1>11. Said(q) /\ q.op = "intent" =>
         q.key \in Keys /\ q.run \in Runs /\ SameIntent(intents'[q.key], q)
  BY <1>4
<1>12. Said(q) /\ q.op = "upload" =>
         /\ q.key \in Keys /\ q.run \in Runs /\ q.sha \in Digests
         /\ runs'[q.run].sha = q.sha /\ LinksRun(commits'[q.key], q)
  BY <1>3, <1>6
<1>13. Said(q) /\ q.op = "finalize" =>
         /\ q.run \in Runs /\ q.sha \in Digests
         /\ runs'[q.run].state = "finalized" /\ runs'[q.run].sha = q.sha
  BY <1>6, <1>7
<1>14. Said(q) /\ q.op = "event" => q.key \in EventKeys /\ q.run \in Runs
  OBVIOUS
<1>15. Said(q) /\ q.op = "event" =>
         /\ q.key \in EventKeys /\ q.run \in Runs
         /\ events'[q.key] = [run |-> q.run, body |-> q.body]
  BY <1>2, <1>14
<1> QED
  BY <1>8, <1>9, <1>10, <1>11, <1>12, <1>13, <1>15, Zenon

\* Requests that say nothing, and are at no step that speaks of rows.
Silent(q) == /\ q.pc \notin {"create_read", "attach_read"} /\ ~Said(q)
             /\ q.pc # "done" => q.reply = None

LEMMA SilentHolds ==
  ASSUME NEW q, Silent(q)
  PROVE  HoldsNext(q)
BY DEF Silent, HoldsNext, HoldsIn

SlotHolds(s) == \E q : req' = [req EXCEPT ![s] = q] /\ HoldsNext(q)

PlainPcs == Pcs \ {"idle", "done", "create_read", "attach_read"}
BadReplies == Replies \ {"created", "existing", "ok"}

LEMMA PlainStep ==
  ASSUME IInv, NEW s \in Slots, Holds(req[s]), ~Free(s),
         \/ \E p \in PlainPcs : Goto(s, p)
         \/ \E a \in BadReplies : Refuse(s, a)
  PROVE  SlotHolds(s)
<1>1. req[s] \in Request /\ req[s].reply = None
  BY DEF IInv, TypeOK, Holds, HoldsIn, Free
<1>2. ASSUME NEW p \in PlainPcs, Goto(s, p) PROVE SlotHolds(s)
  <2> DEFINE q == [req[s] EXCEPT !.pc = p]
  <2>1. q.pc = p /\ q.reply = None
    BY <1>1 DEF Request
  <2>2. Silent(q)
    BY <2>1, RepliesAssumption DEF Silent, Said, PlainPcs, Replies
  <2>3. req' = [req EXCEPT ![s] = q]
    BY <1>2 DEF Goto
  <2> HIDE DEF q
  <2> QED
    BY <2>2, <2>3, SilentHolds DEF SlotHolds
<1>3. ASSUME NEW a \in BadReplies, Refuse(s, a) PROVE SlotHolds(s)
  <2> DEFINE q == [Idle EXCEPT !.op = req[s].op, !.pc = "done", !.reply = a]
  <2>1. q.pc = "done" /\ q.reply = a
    BY DEF Idle
  <2>2. Silent(q)
    BY <2>1 DEF Silent, Said, BadReplies
  <2>3. req' = [req EXCEPT ![s] = q]
    BY <1>3 DEF Refuse
  <2> HIDE DEF q
  <2> QED
    BY <2>2, <2>3, SilentHolds DEF SlotHolds
<1> QED
  BY <1>2, <1>3

\* Silent requests that are not built by Goto or Refuse.
LEMMA SilentStep ==
  ASSUME NEW s \in Slots, NEW q, req' = [req EXCEPT ![s] = q], Silent(q)
  PROVE  SlotHolds(s)
BY SilentHolds DEF SlotHolds

LEMMA BeginHolds ==
  ASSUME NEW s \in Slots, Begin(s) \/ Drop(s)
  PROVE  SlotHolds(s)
<1> USE RepliesAssumption DEF Silent, Said, Idle, Replies, Accept
<1>1. CASE Drop(s)
  <2>1. Silent(Idle)
    OBVIOUS
  <2> QED
    BY <1>1, <2>1, SilentStep DEF Drop
<1>2. ASSUME NEW k \in RunKeys, NEW b \in Bodies, NEW r \in Runs, CreateBegin(s, k, b, r)
      PROVE  SlotHolds(s)
  <2> DEFINE q == [Idle EXCEPT !.op = "create", !.pc = "create_select",
                               !.user = KeyUser[k], !.key = k, !.body = b, !.run = r]
  <2>1. Silent(q) /\ req' = [req EXCEPT ![s] = q]
    BY <1>2 DEF CreateBegin
  <2> HIDE DEF q
  <2> QED
    BY <2>1, SilentStep
<1>3. ASSUME NEW k \in Keys, NEW r \in Runs, NEW d \in Digests, NEW c \in Types,
             IntentBegin(s, k, r, d, c)
      PROVE  SlotHolds(s)
  <2> DEFINE q == [Idle EXCEPT !.op = "intent", !.pc = "intent_owner",
                         !.user = KeyUser[k], !.key = k, !.run = r, !.sha = d,
                         !.ctype = c]
  <2>1. Silent(q) /\ req' = [req EXCEPT ![s] = q]
    BY <1>3 DEF IntentBegin
  <2> HIDE DEF q
  <2> QED
    BY <2>1, SilentStep
<1>4. ASSUME NEW k \in Keys, UploadBegin(s, k) PROVE SlotHolds(s)
  <2> DEFINE q == [Idle EXCEPT !.op = "upload", !.pc = "upload_intent",
                            !.user = KeyUser[k], !.key = k, !.at = now]
  <2>1. Silent(q) /\ req' = [req EXCEPT ![s] = q]
    BY <1>4 DEF UploadBegin
  <2> HIDE DEF q
  <2> QED
    BY <2>1, SilentStep
<1>5. ASSUME NEW u \in Users, NEW r \in Runs, FinalizeBegin(s, u, r) PROVE SlotHolds(s)
  <2> DEFINE q == [Idle EXCEPT !.op = "finalize", !.pc = "finalize_read",
                         !.user = u, !.run = r]
  <2>1. Silent(q) /\ req' = [req EXCEPT ![s] = q]
    BY <1>5 DEF FinalizeBegin
  <2> HIDE DEF q
  <2> QED
    BY <2>1, SilentStep
<1>6. ASSUME NEW k \in EventKeys, NEW r \in Runs, NEW b \in Bodies, EventBegin(s, k, r, b)
      PROVE  SlotHolds(s)
  <2> DEFINE q == [Idle EXCEPT !.op = "event", !.pc = "event_owner",
                         !.user = KeyUser[k], !.key = k, !.run = r, !.body = b]
  <2>1. Silent(q) /\ req' = [req EXCEPT ![s] = q]
    BY <1>6 DEF EventBegin
  <2> HIDE DEF q
  <2> QED
    BY <2>1, SilentStep
<1> QED
  BY <1>1, <1>2, <1>3, <1>4, <1>5, <1>6 DEF Begin

LEMMA PlainHolds ==
  ASSUME IInv, NEW s \in Slots, Holds(req[s]),
         \/ IntentOwner(s) \/ IntentRenew(s)
         \/ UploadBody(s) \/ UploadObject(s) \/ R2Head(s) \/ R2Put(s) \/ R2Verify(s)
         \/ AttachSelect(s) \/ AttachRun(s) \/ AttachCatch(s)
         \/ FinalizeUpdate(s) \/ EventOwner(s)
  PROVE  SlotHolds(s)
<1>1. /\ ~Free(s)
      /\ \/ \E p \in PlainPcs : Goto(s, p)
         \/ \E a \in BadReplies : Refuse(s, a)
  <2> USE DEF Free, PlainPcs, Pcs, BadReplies, Replies, At
  <2>1. CASE IntentOwner(s) \/ EventOwner(s)
    BY <2>1 DEF IntentOwner, EventOwner
  <2>2. CASE IntentRenew(s) \/ FinalizeUpdate(s) \/ R2Put(s)
    BY <2>2 DEF IntentRenew, FinalizeUpdate, R2Put
  <2>3. CASE UploadBody(s) \/ UploadObject(s) \/ R2Head(s) \/ R2Verify(s)
    BY <2>3 DEF UploadBody, UploadObject, R2Head, R2Verify
  <2>4. CASE AttachSelect(s) \/ AttachRun(s) \/ AttachCatch(s)
    BY <2>4 DEF AttachSelect, AttachRun, AttachCatch
  <2> QED
    BY <2>1, <2>2, <2>3, <2>4
<1> QED
  BY <1>1, PlainStep

\* q is x once it was answered.
Answered(q, x) ==
  /\ q.pc = "done" /\ q.op = x.op /\ q.key = x.key /\ q.run = x.run
  /\ q.sha = x.sha /\ q.ctype = x.ctype /\ q.body = x.body

LEMMA AnswerHolds ==
  ASSUME IInv, NEW s \in Slots, NEW a \in Replies, Answer(s, a),
         \A q : Answered(q, req[s]) => HoldsNext(q)
  PROVE  SlotHolds(s)
<1> DEFINE q == [req[s] EXCEPT !.pc = "done", !.reply = a, !.at = None]
<1>1. Answered(q, req[s])
  BY DEF IInv, TypeOK, Request, Answered
<1>2. req' = [req EXCEPT ![s] = q]
  BY DEF Answer
<1> HIDE DEF q
<1> QED
  BY <1>1, <1>2 DEF SlotHolds

LEMMA CreateHolds ==
  ASSUME IInv, NEW s \in Slots, Holds(req[s]), CreateStep(s)
  PROVE  SlotHolds(s)
<1> DEFINE x == req[s]
<1>0. /\ x \in Request /\ ~Free(s) /\ x.op = "create" /\ x.key \in RunKeys /\ x.run \in Runs
      /\ x.reply = None
  BY DEF CreateStep, CreateSelect, CreateInsert, CreateReselect, CreateRead, At, Free, IInv,
     TypeOK, Fits, FitsIn, CreatePcs, Holds, HoldsIn
<1>1. ASSUME AnswerStoredRun(s), UNCHANGED tables PROVE SlotHolds(s)
  <2> DEFINE found == RunFor(x.key)
             q == [x EXCEPT !.pc = "done", !.run = found, !.reply = "existing"]
  <2>1. found \in Runs /\ runs[found].key = x.key
    BY <1>1 DEF AnswerStoredRun, HasRunFor, RunFor
  <2> HIDE DEF found
  <2>2. CASE runs[found].body = x.body /\ req' = [req EXCEPT ![s] = q]
    <3>1. /\ q.pc = "done" /\ q.op = "create" /\ q.run = found /\ q.key = x.key
          /\ q.body = x.body
      BY <1>0 DEF Request
    <3> HIDE DEF q
    <3>2. HoldsNext(q)
      BY <1>0, <1>1, <2>1, <2>2, <3>1 DEF HoldsNext, HoldsIn, tables
    <3> QED
      BY <2>2, <3>2 DEF SlotHolds
  <2>3. CASE Refuse(s, "conflict")
    BY <1>0, <2>3, PlainStep DEF BadReplies, Replies
  <2> QED
    BY <1>1, <2>2, <2>3 DEF AnswerStoredRun, found
<1>2. CASE CreateSelect(s) \/ CreateReselect(s)
  <2>1. \/ AnswerStoredRun(s) /\ UNCHANGED tables
        \/ Goto(s, "create_insert") \/ Refuse(s, "conflict")
    BY <1>2 DEF CreateSelect, CreateReselect
  <2> QED
    BY <1>0, <1>1, <2>1, PlainStep DEF PlainPcs, Pcs, BadReplies, Replies
<1>3. CASE CreateInsert(s)
  <2>1. CASE Goto(s, "create_reselect")
    BY <1>0, <2>1, PlainStep DEF PlainPcs, Pcs
  <2>2. ASSUME Goto(s, "create_read"),
               runs' = [runs EXCEPT ![x.run] =
                      [NoRun EXCEPT !.state = "awaiting_trace", !.key = x.key, !.body = x.body]]
        PROVE  SlotHolds(s)
    <3> DEFINE q == [x EXCEPT !.pc = "create_read"]
    <3>1. /\ q.pc = "create_read" /\ q.run = x.run /\ q.key = x.key /\ q.body = x.body
          /\ q.reply = None
      BY <1>0 DEF Request
    <3>2. runs'[x.run].key = x.key /\ runs'[x.run].body = x.body
      BY <1>0, <2>2 DEF IInv, TypeOK, NoRun
    <3>3. req' = [req EXCEPT ![s] = q]
      BY <2>2 DEF Goto
    <3> HIDE DEF q
    <3>4. ~Said(q)
      BY <3>1, RepliesAssumption DEF Said, Replies
    <3>5. HoldsNext(q)
      BY <1>0, <3>1, <3>2, <3>4 DEF HoldsNext, HoldsIn
    <3> QED
      BY <3>3, <3>5 DEF SlotHolds
  <2> QED
    BY <1>3, <2>1, <2>2 DEF CreateInsert
<1>4. CASE CreateRead(s)
  <2>1. CASE Refuse(s, "error")
    BY <1>0, <2>1, PlainStep DEF BadReplies, Replies
  <2>2. CASE Answer(s, "created")
    <3>1. runs[x.run].key = x.key /\ runs[x.run].body = x.body /\ UNCHANGED runs
      BY <1>4 DEF CreateRead, At, Holds, HoldsIn, tables
    <3>2. \A q : Answered(q, x) => HoldsNext(q)
      BY <1>0, <3>1 DEF Answered, HoldsNext, HoldsIn
    <3> QED
      BY <2>2, <3>2, AnswerHolds DEF Replies
  <2> QED
    BY <1>4, <2>1, <2>2 DEF CreateRead
<1> QED
  BY <1>2, <1>3, <1>4 DEF CreateStep

LEMMA IntentHolds ==
  ASSUME IInv, NEW s \in Slots, Holds(req[s]), IntentStep(s)
  PROVE  SlotHolds(s)
<1> DEFINE x == req[s]
<1>0. /\ x \in Request /\ ~Free(s) /\ x.op = "intent" /\ x.key \in Keys /\ x.run \in Runs
      /\ x.reply = None
  BY DEF IntentStep, IntentOwner, IntentStamp, IntentSelect, IntentInsert, IntentRenew,
     IntentReselect, At, Free, IInv, TypeOK, Fits, FitsIn, IntentPcs, Holds, HoldsIn
<1>1. CASE IntentOwner(s) \/ IntentRenew(s)
  BY <1>1, PlainHolds
<1>2. CASE IntentStamp(s)
  <2> DEFINE q == [x EXCEPT !.pc = "intent_select", !.at = now]
  <2>1. q.pc = "intent_select" /\ q.reply = None /\ req' = [req EXCEPT ![s] = q]
    BY <1>0, <1>2 DEF IntentStamp, Request
  <2> HIDE DEF q
  <2> QED
    BY <2>1, SilentStep, RepliesAssumption DEF Silent, Said, Replies
<1>3. ASSUME SameIntent(intents'[x.key], x), NEW a \in Replies, Answer(s, a)
      PROVE  SlotHolds(s)
  <2>1. \A q : Answered(q, x) => HoldsNext(q)
    BY <1>0, <1>3 DEF Answered, HoldsNext, HoldsIn, SameIntent
  <2> QED
    BY <1>3, <2>1, AnswerHolds
<1>4. CASE IntentSelect(s) \/ IntentReselect(s)
  <2>1. \/ Goto(s, "intent_insert") \/ Goto(s, "intent_renew") \/ Refuse(s, "conflict")
        \/ SameIntent(intents[x.key], x) /\ Answer(s, "existing")
    BY <1>4 DEF IntentSelect, IntentReselect
  <2>2. intents' = intents
    BY <1>4 DEF IntentSelect, IntentReselect, tables
  <2> QED
    BY <1>0, <1>3, <2>1, <2>2, PlainStep DEF PlainPcs, Pcs, BadReplies, Replies
<1>5. CASE IntentInsert(s)
  <2>1. CASE Refuse(s, "conflict")
    BY <1>0, <2>1, PlainStep DEF BadReplies, Replies
  <2>2. ASSUME intents' = [intents EXCEPT ![x.key] =
                 [run |-> x.run, sha |-> x.sha, ctype |-> x.ctype,
                  expiresAt |-> x.at + UploadTtl, consumedAt |-> None]],
               Answer(s, "created")
        PROVE  SlotHolds(s)
    <3>1. SameIntent(intents'[x.key], x)
      BY <1>0, <2>2 DEF IInv, TypeOK, SameIntent
    <3> QED
      BY <1>3, <2>2, <3>1 DEF Replies
  <2> QED
    BY <1>5, <2>1, <2>2 DEF IntentInsert
<1> QED
  BY <1>1, <1>2, <1>4, <1>5 DEF IntentStep

LEMMA UploadHolds ==
  ASSUME IInv, NEW s \in Slots, Holds(req[s]), UploadStep(s)
  PROVE  SlotHolds(s)
<1> DEFINE x == req[s]
<1>0. x \in Request /\ ~Free(s) /\ x.op = "upload" /\ x.key \in Keys /\ x.reply = None
  BY DEF UploadStep, UploadIntent, UploadBody, UploadObject, R2Head, R2Put, R2Verify,
     AttachSelect, AttachRun, AttachBatch, AttachCatch, AttachRead, At, Free, IInv, TypeOK,
     Fits, FitsIn, UploadPcs, Holds, HoldsIn
<1>1. CASE UploadIntent(s)
  <2> DEFINE row == intents[x.key]
             q == [x EXCEPT !.pc = "upload_body", !.run = row.run,
                            !.sha = row.sha, !.ctype = row.ctype]
  <2>1. CASE Refuse(s, "gone")
    BY <1>0, <2>1, PlainStep DEF BadReplies, Replies
  <2>2. CASE req' = [req EXCEPT ![s] = q]
    <3>1. q.pc = "upload_body" /\ q.reply = None
      BY <1>0 DEF Request
    <3> HIDE DEF q
    <3> QED
      BY <2>2, <3>1, SilentStep, RepliesAssumption DEF Silent, Said, Replies
  <2> QED
    BY <1>1, <2>1, <2>2 DEF UploadIntent
<1>2. CASE AttachBatch(s)
  <2>1. CASE Goto(s, "attach_catch")
    BY <1>0, <2>1, PlainStep DEF PlainPcs, Pcs
  <2>2. CASE BatchEffect(s) /\ Goto(s, "attach_read")
    <3> DEFINE q == [x EXCEPT !.pc = "attach_read"]
    <3>1. /\ q.pc = "attach_read" /\ q.run = x.run /\ q.key = x.key /\ q.sha = x.sha
          /\ q.reply = None
      BY <1>0 DEF Request
    <3>2. LinksRun(commits'[x.key], x)
      BY <1>0, <2>2 DEF BatchEffect, IInv, TypeOK, LinksRun
    <3>3. req' = [req EXCEPT ![s] = q]
      BY <2>2 DEF Goto
    <3> HIDE DEF q
    <3>4. ~Said(q)
      BY <3>1, RepliesAssumption DEF Said, Replies
    <3>5. x.run \in Runs /\ x.sha \in Digests
      BY <1>2 DEF AttachBatch, At, IInv, Fits, FitsIn, UploadPcs
    <3>6. HoldsNext(q)
      BY <1>0, <3>1, <3>2, <3>4, <3>5 DEF HoldsNext, HoldsIn, LinksRun
    <3> QED
      BY <3>3, <3>6 DEF SlotHolds
  <2> QED
    BY <1>2, <2>1, <2>2 DEF AttachBatch
<1>3. CASE AttachRead(s)
  <2>1. CASE Refuse(s, "conflict")
    BY <1>0, <2>1, PlainStep DEF BadReplies, Replies
  <2>2. CASE runs[x.run].sha = x.sha /\ Answer(s, "created")
    <3>1. /\ x.run \in Runs /\ x.sha \in Digests /\ LinksRun(commits[x.key], x)
          /\ UNCHANGED <<runs, commits>>
      BY <1>3 DEF AttachRead, At, Holds, HoldsIn, tables
    <3>2. \A q : Answered(q, x) => HoldsNext(q)
      BY <1>0, <2>2, <3>1 DEF Answered, HoldsNext, HoldsIn, LinksRun
    <3> QED
      BY <2>2, <3>2, AnswerHolds DEF Replies
  <2> QED
    BY <1>3, <2>1, <2>2 DEF AttachRead
<1> QED
  BY <1>1, <1>2, <1>3, PlainHolds DEF UploadStep

LEMMA FinalizeHolds ==
  ASSUME IInv, NEW s \in Slots, Holds(req[s]), FinalizeStep(s)
  PROVE  SlotHolds(s)
<1> DEFINE x == req[s]
<1>0. x \in Request /\ ~Free(s) /\ x.op = "finalize" /\ x.run \in Runs /\ x.reply = None
  BY DEF FinalizeStep, FinalizeRead, FinalizeUpdate, FinalizeReread, At, Free, IInv, TypeOK,
     Fits, FitsIn, FinalizePcs, Holds, HoldsIn
<1>1. CASE FinalizeUpdate(s)
  BY <1>1, PlainHolds
<1>2. CASE FinalizeRead(s)
  <2> DEFINE q == [x EXCEPT !.pc = "finalize_update", !.at = now]
  <2>1. CASE Refuse(s, "not_found") \/ Refuse(s, "trace_required")
    BY <1>0, <2>1, PlainStep DEF BadReplies, Replies
  <2>2. CASE req' = [req EXCEPT ![s] = q]
    <3>1. q.pc = "finalize_update" /\ q.reply = None
      BY <1>0 DEF Request
    <3> HIDE DEF q
    <3> QED
      BY <2>2, <3>1, SilentStep, RepliesAssumption DEF Silent, Said, Replies
  <2> QED
    BY <1>2, <2>1, <2>2 DEF FinalizeRead
<1>3. CASE FinalizeReread(s)
  <2> DEFINE row == runs[x.run]
             q == [x EXCEPT !.pc = "done", !.reply = "ok", !.sha = row.sha, !.at = None]
  <2>1. CASE Refuse(s, "conflict")
    BY <1>0, <2>1, PlainStep DEF BadReplies, Replies
  <2>2. CASE row.state = "finalized" /\ req' = [req EXCEPT ![s] = q]
    <3>1. q.pc = "done" /\ q.op = "finalize" /\ q.run = x.run /\ q.sha = row.sha
      BY <1>0 DEF Request
    <3>2. row.sha \in Digests /\ runs' = runs
      BY <1>0, <1>3, <2>2 DEF IInv, TypeOK, RunRow, OrNone, FinalizeReread, tables
    <3> HIDE DEF q
    <3>3. HoldsNext(q)
      BY <1>0, <2>2, <3>1, <3>2 DEF HoldsNext, HoldsIn
    <3> QED
      BY <2>2, <3>3 DEF SlotHolds
  <2> QED
    BY <1>3, <2>1, <2>2 DEF FinalizeReread
<1> QED
  BY <1>1, <1>2, <1>3 DEF FinalizeStep

LEMMA EventHolds ==
  ASSUME IInv, NEW s \in Slots, Holds(req[s]), EventStep(s)
  PROVE  SlotHolds(s)
<1> DEFINE x == req[s]
<1>0. /\ x \in Request /\ ~Free(s) /\ x.op = "event" /\ x.key \in EventKeys /\ x.run \in Runs
      /\ x.reply = None
  BY DEF EventStep, EventOwner, EventSelect, EventInsert, At, Free, IInv, TypeOK, Fits,
     FitsIn, EventPcs, Holds, HoldsIn
<1>1. ASSUME events'[x.key] = [run |-> x.run, body |-> x.body], NEW a \in Replies, Answer(s, a)
      PROVE  SlotHolds(s)
  <2>1. \A q : Answered(q, x) => HoldsNext(q)
    BY <1>0, <1>1 DEF Answered, HoldsNext, HoldsIn
  <2> QED
    BY <1>1, <2>1, AnswerHolds
<1>2. CASE EventOwner(s)
  BY <1>2, PlainHolds
<1>3. CASE EventSelect(s)
  <2>1. CASE Goto(s, "event_insert") \/ Refuse(s, "conflict")
    BY <1>0, <2>1, PlainStep DEF PlainPcs, Pcs, BadReplies, Replies
  <2>2. CASE events[x.key].run = x.run /\ events[x.key].body = x.body /\ Answer(s, "existing")
    <3>1. events[x.key] = [run |-> x.run, body |-> x.body] /\ events' = events
      BY <1>0, <1>3, <2>2 DEF IInv, TypeOK, EventRow, EventSelect, tables
    <3> QED
      BY <1>1, <2>2, <3>1 DEF Replies
  <2> QED
    BY <1>3, <2>1, <2>2 DEF EventSelect
<1>4. CASE EventInsert(s)
  <2>1. CASE Refuse(s, "conflict")
    BY <1>0, <2>1, PlainStep DEF BadReplies, Replies
  <2>2. ASSUME events' = [events EXCEPT ![x.key] = [run |-> x.run, body |-> x.body]],
               Answer(s, "created")
        PROVE  SlotHolds(s)
    <3>1. events'[x.key] = [run |-> x.run, body |-> x.body]
      BY <1>0, <2>2 DEF IInv, TypeOK
    <3> QED
      BY <1>1, <2>2, <3>1 DEF Replies
  <2> QED
    BY <1>4, <2>1, <2>2 DEF EventInsert
<1> QED
  BY <1>2, <1>3, <1>4 DEF EventStep

LEMMA ToldStep ==
  ASSUME IInv, Told, [Next]_vars
  PROVE  Told'
<1> SUFFICES ASSUME NEW t \in Slots PROVE HoldsNext(req'[t])
  BY DEF Told, Holds, HoldsNext
<1>1. RowsKept
  BY RowsAreKept
<1>2. CASE req'[t] = req[t]
  BY <1>1, <1>2, HoldsKept DEF Told
<1>3. ASSUME NEW s \in Slots, Begin(s) \/ Drop(s) \/ Serve(s) PROVE HoldsNext(req'[t])
  <2>1. SlotHolds(s)
    BY <1>3, BeginHolds, CreateHolds, IntentHolds, UploadHolds, FinalizeHolds, EventHolds
    DEF Told, Serve
  <2>2. PICK q : req' = [req EXCEPT ![s] = q] /\ HoldsNext(q)
    BY <2>1 DEF SlotHolds
  <2> QED
    BY <1>2, <2>2 DEF IInv, TypeOK
<1> QED
  BY <1>2, <1>3 DEF Next, Tick, vars

LEMMA Truthful == Spec => []Told
<1>1. Init => Told
  <2> SUFFICES ASSUME Init, NEW s \in Slots PROVE Holds(req[s])
    BY DEF Told
  <2>1. req[s].pc = "idle" /\ req[s].reply = None
    BY DEF Init, Idle
  <2> QED
    BY <2>1, RepliesAssumption DEF Holds, HoldsIn, Said, Replies
<1>2. IInv /\ Told /\ [Next]_vars => Told'
  BY ToldStep
<1> QED
  BY <1>1, <1>2, Invariant, PTL DEF Spec

\* What a caller was told stays true of the tables for as long as it may remember it,
\* whatever other requests wrote between the statement and the answer, and after.
THEOREM AnswersStayTrue == Spec => []AnswersHold
<1>1. Told => AnswersHold
  BY DEF Told, Holds, HoldsIn, Said, AnswersHold
<1> QED
  BY <1>1, Truthful, PTL

-----------------------------------------------------------------------------
(* One upload of a capability *)

\* An upload whose batch committed, and which knows it.
Claims(q) == q.op = "upload" /\ (q.pc = "attach_read" \/ q.reply = "created")

OneClaims ==
  \A s, t \in Slots :
    Claims(req[s]) /\ Claims(req[t]) /\ req[s].key = req[t].key => s = t

\* Only a committed batch makes a claim, and it finds no receipt.
MayClaim(s) ==
  Claims(req'[s]) =>
    /\ req'[s].key = req[s].key
    /\ Claims(req[s]) \/ commits[req[s].key].run = None

LEMMA ClaimReceipted ==
  ASSUME IInv, Told, NEW s \in Slots, Claims(req[s])
  PROVE  commits[req[s].key].run # None
BY ConstantsAssumption DEF Told, Holds, HoldsIn, Said, Claims, LinksRun

LEMMA PlainUnclaimed ==
  ASSUME IInv, Told, NEW s \in Slots, ~Free(s),
         \/ \E p \in PlainPcs : Goto(s, p)
         \/ \E a \in BadReplies : Refuse(s, a)
  PROVE  ~Claims(req'[s])
<1>1. req[s] \in Request /\ req[s].reply = None /\ req \in [Slots -> Request]
  BY DEF IInv, TypeOK, Told, Holds, HoldsIn, Free
<1>2. ASSUME NEW p \in PlainPcs, Goto(s, p) PROVE ~Claims(req'[s])
  <2>1. req'[s].pc = p /\ req'[s].reply = None
    BY <1>1, <1>2 DEF Goto, Request
  <2> QED
    BY <2>1, RepliesAssumption DEF Claims, PlainPcs, Replies
<1>3. ASSUME NEW a \in BadReplies, Refuse(s, a) PROVE ~Claims(req'[s])
  <2>1. req'[s].pc = "done" /\ req'[s].reply = a
    BY <1>1, <1>3 DEF Refuse, Idle
  <2> QED
    BY <2>1 DEF Claims, BadReplies
<1> QED
  BY <1>2, <1>3

LEMMA BeginUnclaimed ==
  ASSUME IInv, NEW s \in Slots, Begin(s) \/ Drop(s)
  PROVE  ~Claims(req'[s])
<1>1. req \in [Slots -> Request]
  BY DEF IInv, TypeOK
<1>2. req'[s].reply = None /\ req'[s].pc # "attach_read"
  <2> USE DEF Accept, Idle
  <2>1. CASE Drop(s)
    BY <1>1, <2>1 DEF Drop
  <2>2. ASSUME NEW k \in RunKeys, NEW b \in Bodies, NEW r \in Runs, CreateBegin(s, k, b, r)
        PROVE  req'[s].reply = None /\ req'[s].pc # "attach_read"
    BY <1>1, <2>2 DEF CreateBegin
  <2>3. ASSUME NEW k \in Keys, NEW r \in Runs, NEW d \in Digests, NEW c \in Types,
               IntentBegin(s, k, r, d, c)
        PROVE  req'[s].reply = None /\ req'[s].pc # "attach_read"
    BY <1>1, <2>3 DEF IntentBegin
  <2>4. ASSUME NEW k \in Keys, UploadBegin(s, k)
        PROVE  req'[s].reply = None /\ req'[s].pc # "attach_read"
    BY <1>1, <2>4 DEF UploadBegin
  <2>5. ASSUME NEW u \in Users, NEW r \in Runs, FinalizeBegin(s, u, r)
        PROVE  req'[s].reply = None /\ req'[s].pc # "attach_read"
    BY <1>1, <2>5 DEF FinalizeBegin
  <2>6. ASSUME NEW k \in EventKeys, NEW r \in Runs, NEW b \in Bodies, EventBegin(s, k, r, b)
        PROVE  req'[s].reply = None /\ req'[s].pc # "attach_read"
    BY <1>1, <2>6 DEF EventBegin
  <2> QED
    BY <2>1, <2>2, <2>3, <2>4, <2>5, <2>6 DEF Begin
<1> QED
  BY <1>2, RepliesAssumption DEF Claims, Replies

LEMMA OthersUnclaimed ==
  ASSUME IInv, NEW s \in Slots,
         CreateStep(s) \/ IntentStep(s) \/ FinalizeStep(s) \/ EventStep(s)
  PROVE  ~Claims(req'[s])
<1>1. req \in [Slots -> Request] /\ req[s] \in Request
  BY DEF IInv, TypeOK
<1>2. req[s].op \in {"create", "intent", "finalize", "event"}
  BY DEF CreateStep, CreateSelect, CreateInsert, CreateReselect, CreateRead, CreatePcs,
     IntentStep, IntentOwner, IntentStamp, IntentSelect, IntentInsert, IntentRenew,
     IntentReselect, IntentPcs, FinalizeStep, FinalizeRead, FinalizeUpdate, FinalizeReread,
     FinalizePcs, EventStep, EventOwner, EventSelect, EventInsert, EventPcs,
     At, IInv, Fits, FitsIn
<1>3. ASSUME \/ \E p \in Pcs : Goto(s, p)
             \/ \E a \in Replies : Refuse(s, a) \/ Answer(s, a)
      PROVE  req'[s].op = req[s].op
  BY <1>1, <1>3 DEF Goto, Refuse, Answer, Idle, Request
<1>4. req'[s].op = req[s].op
  <2> USE DEF Pcs, Replies
  <2>1. CASE CreateStep(s)
    <3>1. ASSUME AnswerStoredRun(s) PROVE req'[s].op = req[s].op
      <4> DEFINE q == [req[s] EXCEPT !.pc = "done", !.run = RunFor(req[s].key),
                                     !.reply = "existing"]
      <4>1. CASE req' = [req EXCEPT ![s] = q]
        BY <1>1, <4>1 DEF Request
      <4>2. CASE Refuse(s, "conflict")
        BY <1>3, <4>2
      <4> QED
        BY <3>1, <4>1, <4>2 DEF AnswerStoredRun
    <3> QED
      BY <1>3, <2>1, <3>1 DEF CreateStep, CreateSelect, CreateInsert, CreateReselect, CreateRead
  <2>2. CASE IntentStep(s)
    <3>1. IntentStamp(s) => req'[s].op = req[s].op
      BY <1>1 DEF IntentStamp, Request
    <3> QED
      BY <1>3, <2>2, <3>1 DEF IntentStep, IntentOwner, IntentSelect, IntentInsert, IntentRenew,
         IntentReselect
  <2>3. CASE FinalizeStep(s)
    <3>1. FinalizeRead(s) => req'[s].op = req[s].op
      BY <1>1, <1>3 DEF FinalizeRead, Request
    <3>2. ASSUME FinalizeReread(s) PROVE req'[s].op = req[s].op
      <4> DEFINE q == [req[s] EXCEPT !.pc = "done", !.reply = "ok",
                                     !.sha = runs[req[s].run].sha, !.at = None]
      <4>1. CASE req' = [req EXCEPT ![s] = q]
        BY <1>1, <4>1 DEF Request
      <4>2. CASE Refuse(s, "conflict")
        BY <1>3, <4>2
      <4> QED
        BY <3>2, <4>1, <4>2 DEF FinalizeReread
    <3> QED
      BY <1>3, <2>3, <3>1, <3>2 DEF FinalizeStep, FinalizeUpdate
  <2>4. CASE EventStep(s)
    BY <1>3, <2>4 DEF EventStep, EventOwner, EventSelect, EventInsert
  <2> QED
    BY <2>1, <2>2, <2>3, <2>4
<1> QED
  BY <1>2, <1>4 DEF Claims

LEMMA UploadClaims ==
  ASSUME IInv, Told, NEW s \in Slots, UploadStep(s)
  PROVE  MayClaim(s)
<1>1. /\ req \in [Slots -> Request] /\ req[s] \in Request /\ ~Free(s)
      /\ req[s].op = "upload" /\ req[s].reply = None
  BY DEF UploadStep, UploadIntent, UploadBody, UploadObject, R2Head, R2Put, R2Verify,
     AttachSelect, AttachRun, AttachBatch, AttachCatch, AttachRead, At, Free, IInv, TypeOK,
     Fits, FitsIn, UploadPcs, Told, Holds, HoldsIn
<1> USE DEF PlainPcs, Pcs, BadReplies, Replies
<1>2. CASE UploadIntent(s)
  <2> DEFINE row == intents[req[s].key]
             q == [req[s] EXCEPT !.pc = "upload_body", !.run = row.run,
                                 !.sha = row.sha, !.ctype = row.ctype]
  <2>1. CASE Refuse(s, "gone")
    BY <1>1, <2>1, PlainUnclaimed DEF MayClaim
  <2>2. CASE req' = [req EXCEPT ![s] = q]
    <3>1. req'[s].pc = "upload_body" /\ req'[s].reply = None
      BY <1>1, <2>2 DEF Request
    <3> QED
      BY <3>1, RepliesAssumption DEF MayClaim, Claims
  <2> QED
    BY <1>2, <2>1, <2>2 DEF UploadIntent
<1>3. CASE AttachBatch(s)
  <2>1. CASE Goto(s, "attach_catch")
    BY <1>1, <2>1, PlainUnclaimed DEF MayClaim
  <2>2. CASE BatchCommits(s) /\ Goto(s, "attach_read")
    BY <1>1, <2>2 DEF BatchCommits, Goto, Request, MayClaim
  <2> QED
    BY <1>3, <2>1, <2>2 DEF AttachBatch
<1>4. CASE AttachRead(s)
  <2>1. Claims(req[s])
    BY <1>1, <1>4 DEF AttachRead, At, Claims
  <2>2. CASE Refuse(s, "conflict")
    BY <1>1, <2>2, PlainUnclaimed DEF MayClaim
  <2>3. CASE Answer(s, "created")
    <3>1. req'[s].key = req[s].key
      BY <1>1, <2>3 DEF Answer, Request
    <3> QED
      BY <2>1, <3>1 DEF MayClaim
  <2> QED
    BY <1>4, <2>2, <2>3 DEF AttachRead
<1>5. CASE UploadBody(s) \/ UploadObject(s) \/ R2Head(s) \/ R2Verify(s)
  BY <1>1, <1>5, PlainUnclaimed DEF UploadBody, UploadObject, R2Head, R2Verify, MayClaim
<1>6. CASE R2Put(s) \/ AttachSelect(s) \/ AttachRun(s) \/ AttachCatch(s)
  BY <1>1, <1>6, PlainUnclaimed DEF R2Put, AttachSelect, AttachRun, AttachCatch, MayClaim
<1> QED
  BY <1>2, <1>3, <1>4, <1>5, <1>6 DEF UploadStep

LEMMA ClaimStep ==
  ASSUME IInv, Told, OneClaims, [Next]_vars
  PROVE  OneClaims'
<1>1. CASE UNCHANGED req
  BY <1>1 DEF OneClaims, Claims
<1>2. ASSUME NEW s \in Slots, Begin(s) \/ Drop(s) \/ Serve(s)
      PROVE  OneClaims'
  <2>1. MayClaim(s)
    BY <1>2, BeginUnclaimed, OthersUnclaimed, UploadClaims DEF Serve, MayClaim
  <2>2. \A t \in Slots : t # s => req'[t] = req[t]
    <3>1. \E q : req' = [req EXCEPT ![s] = q]
      BY <1>2, BeginHolds, CreateHolds, IntentHolds, UploadHolds, FinalizeHolds, EventHolds
      DEF Told, Serve, SlotHolds
    <3> QED
      BY <3>1 DEF IInv, TypeOK
  <2>3. ASSUME NEW t \in Slots, t # s, Claims(req'[t]), Claims(req'[s])
        PROVE  req'[t].key # req'[s].key
    BY <2>1, <2>2, <2>3, ClaimReceipted DEF MayClaim, OneClaims
  <2> QED
    BY <2>2, <2>3 DEF OneClaims, Claims
<1> QED
  BY <1>1, <1>2 DEF Next, Tick, vars

\* Of the uploads that present one capability at most one is told that it attached its
\* trace, whatever stamps they carry and whatever answers of batches were lost.
THEOREM UploadsAnsweredOnce == Spec => []OneUploadAnswered
<1>1. Init => OneClaims
  BY RepliesAssumption DEF Init, Idle, OneClaims, Claims, Replies
<1>2. IInv /\ Told /\ OneClaims /\ [Next]_vars => OneClaims'
  BY ClaimStep
<1>3. OneClaims => OneUploadAnswered
  BY DEF OneClaims, OneUploadAnswered, Claims
<1> QED
  BY <1>1, <1>2, <1>3, Invariant, Truthful, PTL DEF Spec
=============================================================================
