------------------------------ MODULE TraceReads ------------------------------
(***************************************************************************)
(* Operators read private traces with one-time grants: createReadGrant and *)
(* readTrace of backend/trace/handler.ts over trace_read_grants and        *)
(* private_audit_events.  A call is a process in a slot, suspended at every*)
(* await; the Worker may drop it anywhere, and D1 may commit a batch and   *)
(* fail to say so.                                                         *)
(*                                                                         *)
(* Abstractions.  The bytes of a digest are immutable (TraceBackend), so   *)
(* only whether R2 gives them is kept.  A call stands for its own request  *)
(* id.  assertOperator is in the callers: only operators call.             *)
(***************************************************************************)
EXTENDS Naturals, FiniteSets

CONSTANTS
  Operators,
  Traces,
  Grants,    \* grant tokens (their hashes): unguessable, so used only once created
  Calls,
  GrantTtl,  \* OPERATOR_GRANT_TTL_SECONDS, in ticks
  MaxTime,   \* bound on the clock
  None

VARIABLES
  now,
  grants,  \* trace_read_grants
  audit,   \* private_audit_events
  calls

vars == <<now, grants, audit, calls>>

Grant ==
  [trace: Traces, operator: Operators, createdAt: 0..MaxTime,
   expiresAt: 0..(MaxTime + GrantTtl), consumedAt: {None} \cup 0..MaxTime]
Audit ==
  [action: {"grant.created", "grant.consumed"}, request: Calls, operator: Operators,
   trace: Traces, at: 0..MaxTime]
Phases == {"granting", "granted", "reading", "stamped", "served", "refused", "failed"}
Call ==
  [phase: Phases, operator: Operators, trace: Traces, grant: Grants,
   stamp: {None} \cup 0..MaxTime]

Init ==
  /\ now = 0
  /\ grants = [g \in Grants |-> None]
  /\ audit = {}
  /\ calls = [c \in Calls |-> None]

-----------------------------------------------------------------------------
Tick == now < MaxTime /\ now' = now + 1 /\ UNCHANGED <<grants, audit, calls>>

In(c, phase) == calls[c] # None /\ calls[c].phase = phase
Moves(c, phase) == calls' = [calls EXCEPT ![c].phase = phase]

\* The grant of a call is a fresh random value, and the time is read before the batch.
StartGrant(c, o, t) ==
  /\ calls[c] = None
  /\ \E g \in Grants :
       /\ grants[g] = None
       /\ \A d \in Calls : calls[d] # None => calls[d].grant # g
       /\ calls' = [calls EXCEPT ![c] = [phase |-> "granting", operator |-> o,
                      trace |-> t, grant |-> g, stamp |-> now]]
  /\ UNCHANGED <<now, grants, audit>>

\* One batch: the grant and its audit event.
CommitGrant(c) ==
  /\ In(c, "granting")
  /\ LET k == calls[c]
     IN  /\ grants' = [grants EXCEPT ![k.grant] =
                        [trace |-> k.trace, operator |-> k.operator, createdAt |-> k.stamp,
                         expiresAt |-> k.stamp + GrantTtl, consumedAt |-> None]]
         /\ audit' = audit \cup {[action |-> "grant.created", request |-> c,
                        operator |-> k.operator, trace |-> k.trace, at |-> k.stamp]}
  /\ \/ Moves(c, "granted")
     \/ Moves(c, "failed")
  /\ UNCHANGED now

\* A grant that exists, presented by any operator for any trace.
StartRead(c, o, t, g) ==
  /\ calls[c] = None
  /\ grants[g] # None
  /\ calls' = [calls EXCEPT ![c] = [phase |-> "reading", operator |-> o,
                 trace |-> t, grant |-> g, stamp |-> None]]
  /\ UNCHANGED <<now, grants, audit>>

\* The bytes come before the grant is looked at, and the time is read after them.
ReadBytes(c) ==
  /\ In(c, "reading")
  /\ calls' = [calls EXCEPT ![c].phase = "stamped", ![c].stamp = now]
  /\ UNCHANGED <<now, grants, audit>>

\* The row of this grant for this trace and operator, unconsumed and unexpired.
Live(k) ==
  LET g == grants[k.grant]
  IN  /\ g # None
      /\ g.trace = k.trace /\ g.operator = k.operator
      /\ g.consumedAt = None /\ g.expiresAt > k.stamp

\* As if the update came first: the audit insert then finds no live grant and the
\* counts of changed rows disagree.
ConsumeUpdatesFirst(c) ==
  /\ In(c, "stamped")
  /\ Live(calls[c])
  /\ LET k == calls[c]
     IN  grants' = [grants EXCEPT ![k.grant].consumedAt = k.stamp]
  /\ Moves(c, "failed")
  /\ UNCHANGED <<now, audit>>

\* consumeReadGrant: the audit event if the grant is live, then the update, in one batch.
ConsumeGrant(c) ==
  /\ In(c, "stamped")
  /\ Live(calls[c])
  /\ LET k == calls[c]
     IN  /\ grants' = [grants EXCEPT ![k.grant].consumedAt = k.stamp]
         /\ audit' = audit \cup {[action |-> "grant.consumed", request |-> c,
                        operator |-> k.operator, trace |-> k.trace, at |-> k.stamp]}
  /\ \/ Moves(c, "served")
     \/ Moves(c, "failed")
  /\ UNCHANGED now

Refuse(c) ==
  /\ In(c, "stamped")
  /\ ~Live(calls[c])
  /\ Moves(c, "refused")
  /\ UNCHANGED <<now, grants, audit>>

\* The Worker stops, R2 has no bytes, or a batch fails without effect.
Drop(c) ==
  /\ calls[c] # None
  /\ calls[c].phase \in {"granting", "reading", "stamped"}
  /\ Moves(c, "failed")
  /\ UNCHANGED <<now, grants, audit>>

Next ==
  \/ Tick
  \/ \E c \in Calls :
       \/ \E o \in Operators, t \in Traces :
            \/ StartGrant(c, o, t)
            \/ \E g \in Grants : StartRead(c, o, t, g)
       \/ CommitGrant(c) \/ ReadBytes(c) \/ ConsumeGrant(c) \/ Refuse(c) \/ Drop(c)

Spec == Init /\ [][Next]_vars

-----------------------------------------------------------------------------
TypeOK ==
  /\ now \in 0..MaxTime
  /\ grants \in [Grants -> {None} \cup Grant]
  /\ audit \subseteq Audit
  /\ calls \in [Calls -> {None} \cup Call]

Consumptions == {e \in audit : e.action = "grant.consumed"}
Served == {c \in Calls : In(c, "served")}

\* Every trace that leaves is in the audit log under its own request, and a grant is
\* good for one: however many calls present it at once, or repeat one whose answer was
\* lost, the audit log has one consumption for each consumed grant and no other.
ReadsAudited ==
  /\ \A c \in Served : \E e \in Consumptions :
       /\ e.request = c /\ e.operator = calls[c].operator /\ e.trace = calls[c].trace
       /\ e.at = grants[calls[c].grant].consumedAt
  /\ \A c, d \in Served : c # d => calls[c].grant # calls[d].grant
  /\ Cardinality(Consumptions) = Cardinality({g \in Grants : grants[g] # None
                                                /\ grants[g].consumedAt # None})

\* A trace leaves only for the operator and the digest of a grant that was created, and
\* audited, before; the consumption is dated within the life of the grant.
ReadsWithinGrant ==
  \A c \in Served :
    LET g == grants[calls[c].grant]
    IN  /\ g # None
        /\ g.operator = calls[c].operator /\ g.trace = calls[c].trace
        /\ g.createdAt <= calls[c].stamp /\ calls[c].stamp < g.expiresAt
        /\ \E e \in audit : /\ e.action = "grant.created" /\ e.at = g.createdAt
                            /\ e.operator = g.operator /\ e.trace = g.trace

\* Every trace that leaves is accounted for: by its one event, and by its grant.
ReadsAccounted == ReadsAudited /\ ReadsWithinGrant
=============================================================================
