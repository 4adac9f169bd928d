---------------------------- MODULE ServicesProofs ----------------------------
(***************************************************************************)
(* That every invariant of Services holds in every reachable state, for    *)
(* every value of its constants.  Each part has an inductive invariant of  *)
(* its own, shown first on the steps of that part alone: XInit, XStep and a*)
(* lemma that draws the part's properties from its invariant.  A step of   *)
(* the composition moves one part, the one chosen by the first state, and  *)
(* the properties of the other parts ask nothing of it.                    *)
(***************************************************************************)
EXTENDS Services, FiniteSetTheorems, WellFoundedInduction, TLAPS

-----------------------------------------------------------------------------
(*****************************************************************************)
(* Operator trace reads (TraceReads)                                         *)
(*****************************************************************************)

\* The part's variables.
ReadsTyped == Reads!TypeOK

\* A call that has consumed its grant, whether or not the answer came.
Consumed(g) == grants[g] # None /\ grants[g].consumedAt # None
\* The grants a call has consumed.
Spent == {g \in Grants : Consumed(g)}

\* Two calls that create a grant have two, and neither is there yet.
GrantsFresh ==
  \A c \in ReadCalls : Reads!In(c, "granting") =>
    /\ grants[calls[c].grant] = None
    /\ calls[c].stamp \in 0..now
    /\ \A d \in ReadCalls : d # c /\ calls[d] # None => calls[d].grant # calls[c].grant

\* Every grant was audited when it was created.
GrantAudited(g) ==
  \E e \in audit : /\ e.action = "grant.created" /\ e.at = grants[g].createdAt
                   /\ e.operator = grants[g].operator /\ e.trace = grants[g].trace

\* So are all of them, and none is dated ahead.
GrantsAudited ==
  \A g \in Grants : grants[g] # None => /\ GrantAudited(g)
                                        /\ grants[g].createdAt <= now

\* A read presents a grant that is there, and its time is not before the grant's.
ReadsPresent ==
  \A c \in ReadCalls : Reads!In(c, "reading") \/ Reads!In(c, "stamped") =>
    /\ grants[calls[c].grant] # None
    /\ calls[c].stamp # None => grants[calls[c].grant].createdAt <= calls[c].stamp

\* A stamped call has its time.
Stamps == \A c \in ReadCalls : Reads!In(c, "stamped") => calls[c].stamp \in 0..ReadsMaxTime

\* A consumption is that of a call which is over.
ConsumedByOver ==
  \A e \in Reads!Consumptions :
    Reads!In(e.request, "served") \/ Reads!In(e.request, "failed")

\* What a served call left behind.
ServedLeft ==
  \A c \in Reads!Served :
    LET k == calls[c]
    IN  /\ Consumed(k.grant) /\ grants[k.grant].consumedAt = k.stamp
        /\ grants[k.grant].operator = k.operator /\ grants[k.grant].trace = k.trace
        /\ grants[k.grant].createdAt <= k.stamp /\ k.stamp < grants[k.grant].expiresAt
        /\ \E e \in Reads!Consumptions :
             e.request = c /\ e.operator = k.operator /\ e.trace = k.trace /\ e.at = k.stamp

\* Two served calls used two grants.
OneServedEach ==
  \A c, d \in Reads!Served : c # d => calls[c].grant # calls[d].grant

\* The audit log has one consumption for each grant consumed.
OneEventEach ==
  /\ IsFiniteSet(Reads!Consumptions) /\ IsFiniteSet(Spent)
  /\ Cardinality(Reads!Consumptions) = Cardinality(Spent)

\* The inductive invariant of the operator reads: grants, calls and the audit log agree.
ReadsInv ==
  /\ ReadsTyped /\ GrantsFresh /\ GrantsAudited /\ ReadsPresent /\ Stamps
  /\ ConsumedByOver /\ ServedLeft /\ OneServedEach /\ OneEventEach

\* The fields of grants and calls.
LEMMA ReadsFields ==
  /\ \A g \in Reads!Grant :
       /\ g.trace \in Traces /\ g.operator \in Operators /\ g.createdAt \in 0..ReadsMaxTime
       /\ g.expiresAt \in 0..(ReadsMaxTime + GrantTtl)
       /\ g.consumedAt \in {None} \cup 0..ReadsMaxTime
  /\ \A k \in Reads!Call :
       /\ k.phase \in Reads!Phases /\ k.operator \in Operators /\ k.trace \in Traces
       /\ k.grant \in Grants /\ k.stamp \in {None} \cup 0..ReadsMaxTime
BY DEF Reads!Grant, Reads!Call

\* The invariant holds with no grant and no call.
LEMMA ReadsInit ==
  ASSUME Reads!Init
  PROVE  ReadsInv
<1>1. ReadsTyped
  BY ReadsAssumption DEF Reads!Init, ReadsTyped, Reads!TypeOK
<1>2. Reads!Consumptions = {} /\ Spent = {} /\ Reads!Served = {}
  BY DEF Reads!Init, Reads!Consumptions, Spent, Consumed, Reads!Served, Reads!In
<1>3. OneEventEach
  BY <1>2, FS_EmptySet DEF OneEventEach
<1> QED
  BY <1>1, <1>2, <1>3
  DEF Reads!Init, ReadsInv, GrantsFresh, GrantsAudited, ReadsPresent, Stamps, ConsumedByOver,
      ServedLeft, OneServedEach, Reads!In

\* A step of one call that touches neither grants nor the audit log.
LEMMA CallMoves ==
  ASSUME ReadsInv, NEW c \in ReadCalls, NEW k \in Reads!Call,
         UNCHANGED <<now, grants, audit>>, calls' = [calls EXCEPT ![c] = k],
         calls[c] = None \/ calls[c].phase \in {"granting", "reading", "stamped"},
         k.phase # "served",
         calls[c] # None => k.grant = calls[c].grant,
         k.phase = "granting" =>
           /\ grants[k.grant] = None /\ k.stamp \in 0..now
           /\ \A d \in ReadCalls : d # c /\ calls[d] # None => calls[d].grant # k.grant,
         calls[c] = None /\ k.phase # "granting" => grants[k.grant] # None,
         k.phase \in {"reading", "stamped"} =>
           /\ grants[k.grant] # None
           /\ k.stamp # None => grants[k.grant].createdAt <= k.stamp,
         k.phase = "stamped" => k.stamp \in 0..ReadsMaxTime
  PROVE  ReadsInv'
<1>1. ReadsTyped'
  BY DEF ReadsInv, ReadsTyped, Reads!TypeOK
<1>2. k # None /\ \A d \in ReadCalls : calls'[d] = IF d = c THEN k ELSE calls[d]
  BY NoneAssumption DEF ReadsInv, ReadsTyped, Reads!TypeOK
<1>3. \A d \in ReadCalls, phase \in STRING :
        Reads!In(d, phase)' <=> IF d = c THEN k.phase = phase ELSE Reads!In(d, phase)
  BY <1>2 DEF Reads!In
<1>4. GrantsFresh'
  <2> SUFFICES ASSUME NEW d \in ReadCalls, Reads!In(d, "granting")'
               PROVE  /\ grants[calls'[d].grant] = None
                      /\ calls'[d].stamp \in 0..now
                      /\ \A b \in ReadCalls : b # d /\ calls'[b] # None =>
                           calls'[b].grant # calls'[d].grant
    BY DEF GrantsFresh
  <2>1. CASE d = c
    BY <1>2, <2>1 DEF Reads!In
  <2>2. CASE d # c
    <3>1. calls'[d] = calls[d] /\ Reads!In(d, "granting")
      BY <1>2, <2>2 DEF Reads!In
    <3>2. /\ grants[calls[d].grant] = None
          /\ calls[d].stamp \in 0..now
          /\ \A b \in ReadCalls : b # d /\ calls[b] # None => calls[b].grant # calls[d].grant
      BY <3>1 DEF ReadsInv, GrantsFresh
    <3>3. k.grant # calls[d].grant
      BY <2>2, <3>1, <3>2 DEF Reads!In
    <3> QED
      BY <1>2, <3>1, <3>2, <3>3
  <2> QED
    BY <2>1, <2>2
<1>5. GrantsAudited'
  BY DEF ReadsInv, GrantsAudited, GrantAudited
<1>6. ReadsPresent' /\ Stamps'
  <2> SUFFICES ASSUME NEW d \in ReadCalls
               PROVE  /\ Reads!In(d, "reading")' \/ Reads!In(d, "stamped")' =>
                           /\ grants[calls'[d].grant] # None
                           /\ calls'[d].stamp # None =>
                                grants[calls'[d].grant].createdAt <= calls'[d].stamp
                      /\ Reads!In(d, "stamped")' => calls'[d].stamp \in 0..ReadsMaxTime
    BY DEF ReadsPresent, Stamps
  <2>1. CASE d = c
    BY <1>2, <2>1 DEF Reads!In
  <2>2. CASE d # c
    BY <1>2, <2>2 DEF ReadsInv, ReadsPresent, Stamps, Reads!In
  <2> QED
    BY <2>1, <2>2
<1>7. Reads!Consumptions' = Reads!Consumptions /\ Spent' = Spent
  BY DEF Reads!Consumptions, Spent, Consumed
<1>8. Reads!Served' = Reads!Served /\ \A d \in Reads!Served : calls'[d] = calls[d]
  BY <1>2, <1>3 DEF Reads!Served, Reads!In
<1>9. ConsumedByOver'
  <2> SUFFICES ASSUME NEW e \in Reads!Consumptions
               PROVE  (Reads!In(e.request, "served") \/ Reads!In(e.request, "failed"))'
    BY <1>7 DEF ConsumedByOver
  <2>1. e.request \in ReadCalls
    BY DEF ReadsInv, ReadsTyped, Reads!TypeOK, Reads!Consumptions, Reads!Audit
  <2>2. Reads!In(e.request, "served") \/ Reads!In(e.request, "failed")
    BY DEF ReadsInv, ConsumedByOver
  <2> QED
    BY <1>2, <2>1, <2>2 DEF Reads!In
<1>10. ServedLeft' /\ OneServedEach'
  BY <1>7, <1>8 DEF ReadsInv, ServedLeft, OneServedEach, Consumed
<1>11. OneEventEach'
  BY <1>7 DEF ReadsInv, OneEventEach
<1> QED
  BY <1>1, <1>4, <1>5, <1>6, <1>9, <1>10, <1>11 DEF ReadsInv

\* Each In is of one phase.
LEMMA OnePhase ==
  ASSUME NEW c, NEW p, NEW q, Reads!In(c, p), Reads!In(c, q)
  PROVE  p = q
BY DEF Reads!In

\* createReadGrant: the batch that inserts the grant and its event keeps the invariant.
LEMMA CommitGrantKeeps ==
  ASSUME ReadsInv, NEW c \in ReadCalls, Reads!CommitGrant(c)
  PROVE  ReadsInv'
<1> DEFINE k == calls[c]
           made == [trace |-> k.trace, operator |-> k.operator, createdAt |-> k.stamp,
                    expiresAt |-> k.stamp + GrantTtl, consumedAt |-> None]
           event == [action |-> "grant.created", request |-> c, operator |-> k.operator,
                     trace |-> k.trace, at |-> k.stamp]
<1>1. /\ k \in Reads!Call /\ k # None /\ k.phase = "granting" /\ k.grant \in Grants
      /\ k.stamp \in 0..now /\ grants[k.grant] = None
      /\ k.trace \in Traces /\ k.operator \in Operators
      /\ \A d \in ReadCalls : d # c /\ calls[d] # None => calls[d].grant # k.grant
  BY ReadsFields
  DEF ReadsInv, ReadsTyped, Reads!TypeOK, GrantsFresh, Reads!CommitGrant, Reads!In
<1>2. now' = now /\ now \in 0..ReadsMaxTime
      /\ grants' = [grants EXCEPT ![k.grant] = made] /\ audit' = audit \cup {event}
  BY DEF Reads!CommitGrant, ReadsInv, ReadsTyped, Reads!TypeOK
<1>3. PICK phase \in {"granted", "failed"} : calls' = [calls EXCEPT ![c].phase = phase]
  BY DEF Reads!CommitGrant, Reads!Moves
<1> DEFINE moved == [k EXCEPT !.phase = phase]
<1>4. /\ moved \in Reads!Call /\ moved # None /\ moved.phase = phase /\ moved.grant = k.grant
      /\ made \in Reads!Grant /\ made # None /\ event \in Reads!Audit
  BY <1>1, <1>2, ReadsAssumption, NoneAssumption
  DEF Reads!Call, Reads!Phases, Reads!Grant, Reads!Audit
<1>5. /\ \A d \in ReadCalls : calls'[d] = IF d = c THEN moved ELSE calls[d]
      /\ \A g \in Grants : grants'[g] = IF g = k.grant THEN made ELSE grants[g]
      /\ Reads!TypeOK'
  BY <1>2, <1>3, <1>4 DEF ReadsInv, ReadsTyped, Reads!TypeOK
<1>50. /\ event.action = "grant.created" /\ event.operator = made.operator
       /\ event.trace = made.trace /\ event.at = made.createdAt /\ made.createdAt = k.stamp
  OBVIOUS
<1> HIDE DEF k, made, event, moved
<1>6. \A d \in ReadCalls, p \in Reads!Phases \ {"granting", "granted", "failed"} :
        Reads!In(d, p)' <=> Reads!In(d, p) /\ d # c
  BY <1>1, <1>4, <1>5 DEF Reads!In, k
<1>7. GrantsFresh'
  <2> SUFFICES ASSUME NEW d \in ReadCalls, Reads!In(d, "granting")'
               PROVE  /\ grants'[calls'[d].grant] = None
                      /\ calls'[d].stamp \in 0..now
                      /\ \A b \in ReadCalls : b # d /\ calls'[b] # None =>
                           calls'[b].grant # calls'[d].grant
    BY <1>2 DEF GrantsFresh
  <2>1. d # c /\ calls'[d] = calls[d] /\ Reads!In(d, "granting")
    BY <1>4, <1>5 DEF Reads!In
  <2>2. /\ grants[calls[d].grant] = None /\ calls[d].stamp \in 0..now
        /\ \A b \in ReadCalls : b # d /\ calls[b] # None => calls[b].grant # calls[d].grant
    BY <2>1 DEF ReadsInv, GrantsFresh
  <2>3. calls[d].grant \in Grants /\ calls[d].grant # k.grant
    BY <1>1, <2>1, ReadsFields DEF ReadsInv, ReadsTyped, Reads!TypeOK, Reads!In
  <2> QED
    BY <1>1, <1>4, <1>5, <2>1, <2>2, <2>3 DEF k
<1>8. GrantsAudited'
  <2> SUFFICES ASSUME NEW g \in Grants, grants'[g] # None
               PROVE  GrantAudited(g)' /\ grants'[g].createdAt <= now'
    BY DEF GrantsAudited
  <2>1. CASE g = k.grant
    <3>1. event \in audit' /\ grants'[g] = made
      BY <1>2, <1>5, <2>1
    <3>2. GrantAudited(g)'
      BY <1>50, <3>1 DEF GrantAudited
    <3> QED
      BY <1>1, <1>2, <1>50, <3>1, <3>2
  <2>2. CASE g # k.grant
    BY <1>2, <1>5, <2>2 DEF ReadsInv, GrantsAudited, GrantAudited
  <2> QED
    BY <2>1, <2>2
<1>9. \A g \in Grants : grants[g] # None => grants'[g] = grants[g]
  BY <1>1, <1>5
<1>10. ReadsPresent' /\ Stamps'
  <2> SUFFICES ASSUME NEW d \in ReadCalls, Reads!In(d, "reading")' \/ Reads!In(d, "stamped")'
               PROVE  /\ grants'[calls'[d].grant] # None
                      /\ calls'[d].stamp # None =>
                           grants'[calls'[d].grant].createdAt <= calls'[d].stamp
                      /\ Reads!In(d, "stamped")' => calls'[d].stamp \in 0..ReadsMaxTime
    BY DEF ReadsPresent, Stamps
  <2>1. d # c /\ calls'[d] = calls[d] /\ (Reads!In(d, "reading") \/ Reads!In(d, "stamped"))
    BY <1>5, <1>6 DEF Reads!Phases
  <2>2. calls[d].grant \in Grants
    BY <2>1, ReadsFields DEF ReadsInv, ReadsTyped, Reads!TypeOK, Reads!In
  <2>3. grants[calls[d].grant] # None
    BY <2>1 DEF ReadsInv, ReadsPresent
  <2>4. Reads!In(d, "stamped")' => Reads!In(d, "stamped")
    BY <1>6 DEF Reads!Phases
  <2> QED
    BY <1>9, <2>1, <2>2, <2>3, <2>4 DEF ReadsInv, ReadsPresent, Stamps
<1>11. Reads!Consumptions' = Reads!Consumptions /\ Spent' = Spent
  <2>1. Reads!Consumptions' = Reads!Consumptions
    BY <1>2 DEF Reads!Consumptions, event
  <2>2. \A g \in Grants : Consumed(g)' <=> Consumed(g)
    BY <1>1, <1>5 DEF Consumed, made
  <2> QED
    BY <2>1, <2>2 DEF Spent
<1>12. Reads!Served' = Reads!Served /\ \A d \in Reads!Served : calls'[d] = calls[d]
  BY <1>1, <1>5, <1>6 DEF Reads!Served, Reads!Phases, Reads!In, k
<1>13. ConsumedByOver'
  <2> SUFFICES ASSUME NEW e \in Reads!Consumptions
               PROVE  (Reads!In(e.request, "served") \/ Reads!In(e.request, "failed"))'
    BY <1>11 DEF ConsumedByOver
  <2>1. e.request \in ReadCalls
    BY DEF ReadsInv, ReadsTyped, Reads!TypeOK, Reads!Consumptions, Reads!Audit
  <2>2. Reads!In(e.request, "served") \/ Reads!In(e.request, "failed")
    BY DEF ReadsInv, ConsumedByOver
  <2>3. e.request # c
    BY <1>1, <2>2 DEF Reads!In, k
  <2> QED
    BY <1>5, <2>1, <2>2, <2>3 DEF Reads!In
<1>14. ServedLeft' /\ OneServedEach'
  <2>1. \A d \in Reads!Served : calls[d].grant \in Grants
    BY ReadsFields DEF ReadsInv, ReadsTyped, Reads!TypeOK, Reads!Served, Reads!In
  <2>2. \A d \in Reads!Served : grants'[calls[d].grant] = grants[calls[d].grant]
    BY <1>9, <2>1 DEF ReadsInv, ServedLeft, Consumed
  <2> QED
    BY <1>11, <1>12, <2>2 DEF ReadsInv, ServedLeft, OneServedEach, Consumed
<1>15. OneEventEach'
  BY <1>11 DEF ReadsInv, OneEventEach
<1> QED
  BY <1>5, <1>7, <1>8, <1>10, <1>13, <1>14, <1>15 DEF ReadsInv, ReadsTyped

\* readTrace: the batch that consumes the grant and audits it keeps the invariant.
LEMMA ConsumeGrantKeeps ==
  ASSUME ReadsInv, NEW c \in ReadCalls, Reads!ConsumeGrant(c)
  PROVE  ReadsInv'
<1> DEFINE k == calls[c]
           spent == [grants[k.grant] EXCEPT !.consumedAt = k.stamp]
           event == [action |-> "grant.consumed", request |-> c, operator |-> k.operator,
                     trace |-> k.trace, at |-> k.stamp]
<1>1. /\ k \in Reads!Call /\ k # None /\ k.phase = "stamped" /\ k.grant \in Grants
      /\ k.stamp \in 0..ReadsMaxTime /\ k.stamp # None
      /\ k.trace \in Traces /\ k.operator \in Operators
      /\ grants[k.grant].createdAt <= k.stamp
  BY ReadsFields, NoneAssumption
  DEF ReadsInv, ReadsTyped, Reads!TypeOK, ReadsPresent, Stamps, Reads!ConsumeGrant, Reads!In
<1>2. /\ grants[k.grant] \in Reads!Grant /\ grants[k.grant] # None
      /\ grants[k.grant].trace = k.trace /\ grants[k.grant].operator = k.operator
      /\ grants[k.grant].consumedAt = None /\ grants[k.grant].expiresAt > k.stamp
  BY <1>1 DEF ReadsInv, ReadsTyped, Reads!TypeOK, Reads!ConsumeGrant, Reads!Live
<1>3. now' = now /\ now \in 0..ReadsMaxTime
      /\ grants' = [grants EXCEPT ![k.grant] = spent] /\ audit' = audit \cup {event}
  BY <1>1 DEF Reads!ConsumeGrant, ReadsInv, ReadsTyped, Reads!TypeOK
<1>4. PICK phase \in {"served", "failed"} : calls' = [calls EXCEPT ![c].phase = phase]
  BY DEF Reads!ConsumeGrant, Reads!Moves
<1> DEFINE moved == [k EXCEPT !.phase = phase]
<1>5. /\ moved \in Reads!Call /\ moved # None /\ moved.phase = phase /\ moved.grant = k.grant
      /\ moved.operator = k.operator /\ moved.trace = k.trace /\ moved.stamp = k.stamp
      /\ spent \in Reads!Grant /\ spent # None /\ event \in Reads!Audit
      /\ spent.consumedAt = k.stamp /\ spent.createdAt = grants[k.grant].createdAt
      /\ spent.operator = k.operator /\ spent.trace = k.trace
      /\ spent.expiresAt = grants[k.grant].expiresAt
  BY <1>1, <1>2, NoneAssumption
  DEF Reads!Call, Reads!Phases, Reads!Grant, Reads!Audit
<1>6. /\ \A d \in ReadCalls : calls'[d] = IF d = c THEN moved ELSE calls[d]
      /\ \A g \in Grants : grants'[g] = IF g = k.grant THEN spent ELSE grants[g]
      /\ Reads!TypeOK'
  BY <1>3, <1>4, <1>5 DEF ReadsInv, ReadsTyped, Reads!TypeOK
<1>7. event.action = "grant.consumed" /\ event.request = c /\ event.operator = k.operator
      /\ event.trace = k.trace /\ event.at = k.stamp
  OBVIOUS
<1> HIDE DEF k, spent, event, moved
<1>8. \A d \in ReadCalls : d # c => calls'[d] = calls[d]
  BY <1>6
<1>9. GrantsFresh'
  <2> SUFFICES ASSUME NEW d \in ReadCalls, Reads!In(d, "granting")'
               PROVE  /\ grants'[calls'[d].grant] = None
                      /\ calls'[d].stamp \in 0..now
                      /\ \A b \in ReadCalls : b # d /\ calls'[b] # None =>
                           calls'[b].grant # calls'[d].grant
    BY <1>3 DEF GrantsFresh
  <2>1. d # c /\ calls'[d] = calls[d] /\ Reads!In(d, "granting")
    BY <1>5, <1>6 DEF Reads!In
  <2>2. /\ grants[calls[d].grant] = None /\ calls[d].stamp \in 0..now
        /\ \A b \in ReadCalls : b # d /\ calls[b] # None => calls[b].grant # calls[d].grant
    BY <2>1 DEF ReadsInv, GrantsFresh
  <2>3. calls[d].grant \in Grants /\ calls[d].grant # k.grant
    BY <1>1, <2>1, <2>2, ReadsFields DEF ReadsInv, ReadsTyped, Reads!TypeOK, Reads!In, k
  <2> QED
    BY <1>1, <1>5, <1>6, <2>1, <2>2, <2>3 DEF k
<1>10. \A g \in Grants : /\ grants'[g] # None <=> grants[g] # None
                         /\ grants'[g].createdAt = grants[g].createdAt
                         /\ grants'[g].operator = grants[g].operator
                         /\ grants'[g].trace = grants[g].trace
                         /\ grants'[g].expiresAt = grants[g].expiresAt
  BY <1>2, <1>5, <1>6
<1>11. GrantsAudited'
  BY <1>3, <1>10 DEF ReadsInv, GrantsAudited, GrantAudited
<1>12. ReadsPresent' /\ Stamps'
  <2> SUFFICES ASSUME NEW d \in ReadCalls, Reads!In(d, "reading")' \/ Reads!In(d, "stamped")'
               PROVE  /\ grants'[calls'[d].grant] # None
                      /\ calls'[d].stamp # None =>
                           grants'[calls'[d].grant].createdAt <= calls'[d].stamp
                      /\ Reads!In(d, "stamped")' => calls'[d].stamp \in 0..ReadsMaxTime
    BY DEF ReadsPresent, Stamps
  <2>1. d # c /\ calls'[d] = calls[d]
    BY <1>5, <1>6 DEF Reads!In
  <2>2. /\ Reads!In(d, "reading") \/ Reads!In(d, "stamped")
        /\ Reads!In(d, "stamped")' => Reads!In(d, "stamped")
    BY <2>1 DEF Reads!In
  <2>3. calls[d].grant \in Grants
    BY <2>2, ReadsFields DEF ReadsInv, ReadsTyped, Reads!TypeOK, Reads!In
  <2> QED
    BY <1>10, <2>1, <2>2, <2>3 DEF ReadsInv, ReadsPresent, Stamps
<1>13. Reads!Consumptions' = Reads!Consumptions \cup {event}
  BY <1>3, <1>7 DEF Reads!Consumptions
<1>14. event \notin Reads!Consumptions
  BY <1>1, <1>7 DEF ReadsInv, ConsumedByOver, Reads!In, k
<1>15. Spent' = Spent \cup {k.grant} /\ k.grant \notin Spent
  <2>1. \A g \in Grants : Consumed(g)' <=> Consumed(g) \/ g = k.grant
    BY <1>1, <1>5, <1>6 DEF Consumed
  <2> QED
    BY <1>1, <1>2, <2>1 DEF Spent, Consumed
<1>16. ConsumedByOver'
  <2> SUFFICES ASSUME NEW e \in Reads!Consumptions \cup {event}
               PROVE  (Reads!In(e.request, "served") \/ Reads!In(e.request, "failed"))'
    BY <1>13 DEF ConsumedByOver
  <2>1. CASE e = event
    BY <1>5, <1>6, <1>7, <2>1 DEF Reads!In
  <2>2. CASE e \in Reads!Consumptions
    <3>1. e.request \in ReadCalls
      BY <2>2 DEF ReadsInv, ReadsTyped, Reads!TypeOK, Reads!Consumptions, Reads!Audit
    <3>2. Reads!In(e.request, "served") \/ Reads!In(e.request, "failed")
      BY <2>2 DEF ReadsInv, ConsumedByOver
    <3>3. e.request # c
      BY <1>1, <3>2 DEF Reads!In, k
    <3> QED
      BY <1>8, <3>1, <3>2, <3>3 DEF Reads!In
  <2> QED
    BY <2>1, <2>2
<1>17. \A d \in Reads!Served' : d = c \/ (d # c /\ d \in Reads!Served /\ calls'[d] = calls[d])
  BY <1>8 DEF Reads!Served, Reads!In
<1>18. \A d \in Reads!Served : calls[d].grant \in Grants /\ calls[d].grant # k.grant
  <2>1. \A d \in Reads!Served : calls[d].grant \in Grants
    BY ReadsFields DEF ReadsInv, ReadsTyped, Reads!TypeOK, Reads!Served, Reads!In
  <2> QED
    BY <1>2, <2>1 DEF ReadsInv, ServedLeft, Consumed
<1>19. ServedLeft'
  <2> SUFFICES ASSUME NEW d \in Reads!Served'
               PROVE  /\ Consumed(calls[d].grant)'
                      /\ grants'[calls'[d].grant].consumedAt = calls'[d].stamp
                      /\ grants'[calls'[d].grant].operator = calls'[d].operator
                      /\ grants'[calls'[d].grant].trace = calls'[d].trace
                      /\ grants'[calls'[d].grant].createdAt <= calls'[d].stamp
                      /\ calls'[d].stamp < grants'[calls'[d].grant].expiresAt
                      /\ \E e \in Reads!Consumptions' :
                           /\ e.request = d /\ e.operator = calls'[d].operator
                           /\ e.trace = calls'[d].trace /\ e.at = calls'[d].stamp
    BY DEF ServedLeft
  <2>1. CASE d = c
    <3>1. calls'[d] = moved /\ grants'[k.grant] = spent
      BY <1>1, <1>6, <2>1
    <3> QED
      BY <1>1, <1>2, <1>5, <1>7, <1>13, <2>1, <3>1 DEF Consumed
  <2>2. CASE d # c
    <3>1. d \in Reads!Served /\ calls'[d] = calls[d]
      BY <1>17, <2>2
    <3>2. grants'[calls[d].grant] = grants[calls[d].grant]
      BY <1>6, <1>18, <3>1
    <3> QED
      BY <1>13, <3>1, <3>2 DEF ReadsInv, ServedLeft, Consumed
  <2> QED
    BY <2>1, <2>2
<1>20. OneServedEach'
  <2> SUFFICES ASSUME NEW a \in Reads!Served', NEW b \in Reads!Served', a # b
               PROVE  calls'[a].grant # calls'[b].grant
    BY DEF OneServedEach
  <2>1. \A d \in Reads!Served' : d = c => calls'[d].grant = k.grant
    BY <1>5, <1>6
  <2> QED
    BY <1>17, <1>18, <2>1 DEF ReadsInv, OneServedEach
<1>21. OneEventEach'
  BY <1>13, <1>14, <1>15, FS_AddElement DEF ReadsInv, OneEventEach
<1> QED
  BY <1>6, <1>9, <1>11, <1>12, <1>16, <1>19, <1>20, <1>21 DEF ReadsInv, ReadsTyped

\* Every step of the reads keeps the invariant (TraceReads.Next).
LEMMA ReadsStep ==
  ASSUME ReadsInv, [Reads!Next]_(Reads!vars)
  PROVE  ReadsInv'
<1>0. /\ now \in 0..ReadsMaxTime /\ ReadsMaxTime \in Nat
      /\ grants \in [Grants -> {None} \cup Reads!Grant]
      /\ calls \in [ReadCalls -> {None} \cup Reads!Call]
  BY ReadsAssumption DEF ReadsInv, ReadsTyped, Reads!TypeOK
<1>1. CASE Reads!Tick
  <2>1. /\ now' = now + 1 /\ now' \in 0..ReadsMaxTime
        /\ UNCHANGED <<grants, audit, calls>>
    BY <1>0, <1>1 DEF Reads!Tick
  <2>2. ReadsTyped'
    BY <2>1 DEF ReadsInv, ReadsTyped, Reads!TypeOK
  <2>3. GrantsFresh'
    BY <1>0, <2>1 DEF ReadsInv, GrantsFresh, Reads!In
  <2>4. GrantsAudited'
    <3> SUFFICES ASSUME NEW g \in Grants, grants[g] # None
                 PROVE  GrantAudited(g)' /\ grants[g].createdAt <= now'
      BY <2>1 DEF GrantsAudited
    <3>1. GrantAudited(g) /\ grants[g].createdAt <= now /\ grants[g].createdAt \in Nat
      BY <1>0, ReadsFields DEF ReadsInv, GrantsAudited
    <3> QED
      BY <1>0, <2>1, <3>1 DEF GrantAudited
  <2> QED
    BY <2>1, <2>2, <2>3, <2>4
    DEF ReadsInv, ReadsPresent, Stamps, ConsumedByOver, ServedLeft, OneServedEach, OneEventEach,
        Consumed, Spent, Reads!Consumptions, Reads!Served, Reads!In
<1>2. ASSUME NEW c \in ReadCalls, NEW o \in Operators, NEW t \in Traces,
             Reads!StartGrant(c, o, t)
      PROVE  ReadsInv'
  <2>1. PICK g \in Grants :
          /\ grants[g] = None
          /\ \A d \in ReadCalls : calls[d] # None => calls[d].grant # g
          /\ calls' = [calls EXCEPT ![c] = [phase |-> "granting", operator |-> o,
                         trace |-> t, grant |-> g, stamp |-> now]]
    BY <1>2 DEF Reads!StartGrant
  <2> DEFINE k == [phase |-> "granting", operator |-> o, trace |-> t, grant |-> g,
                   stamp |-> now]
  <2>2. k \in Reads!Call /\ k.phase = "granting" /\ k.grant = g /\ k.stamp = now
    BY <1>0 DEF Reads!Call, Reads!Phases
  <2>3. /\ calls[c] = None /\ calls' = [calls EXCEPT ![c] = k]
        /\ UNCHANGED <<now, grants, audit>>
    BY <1>2, <2>1 DEF Reads!StartGrant
  <2> HIDE DEF k
  <2>4. /\ grants[k.grant] = None /\ k.stamp \in 0..now
        /\ \A d \in ReadCalls : d # c /\ calls[d] # None => calls[d].grant # k.grant
        /\ k.phase # "served" /\ k.phase \notin {"reading", "stamped"} /\ k.phase = "granting"
    BY <1>0, <2>1, <2>2
  <2> QED
    BY <2>2, <2>3, <2>4, CallMoves
<1>3. ASSUME NEW c \in ReadCalls, NEW o \in Operators, NEW t \in Traces, NEW g \in Grants,
             Reads!StartRead(c, o, t, g)
      PROVE  ReadsInv'
  <2> DEFINE k == [phase |-> "reading", operator |-> o, trace |-> t, grant |-> g,
                   stamp |-> None]
  <2>1. k \in Reads!Call
    BY DEF Reads!Call, Reads!Phases
  <2> QED
    BY <1>3, <2>1, CallMoves DEF Reads!StartRead
<1>4. ASSUME NEW c \in ReadCalls, Reads!ReadBytes(c)
      PROVE  ReadsInv'
  <2> DEFINE k == [calls[c] EXCEPT !.phase = "stamped", !.stamp = now]
  <2>1. calls[c] \in Reads!Call /\ calls[c] # None /\ calls[c].phase = "reading"
    BY <1>0, <1>4 DEF Reads!ReadBytes, Reads!In
  <2>2. /\ k \in Reads!Call /\ k.phase = "stamped" /\ k.stamp = now
        /\ k.grant = calls[c].grant /\ k.grant \in Grants
    BY <1>0, <2>1 DEF Reads!Call, Reads!Phases
  <2>3. calls' = [calls EXCEPT ![c] = k] /\ UNCHANGED <<now, grants, audit>>
    BY <1>0, <1>4 DEF Reads!ReadBytes
  <2>4. grants[k.grant] # None
    BY <1>4, <2>2 DEF ReadsInv, ReadsPresent, Reads!ReadBytes
  <2>5. grants[k.grant].createdAt <= now
    BY <2>2, <2>4 DEF ReadsInv, GrantsAudited
  <2> HIDE DEF k
  <2> QED
    BY <1>0, <2>1, <2>2, <2>3, <2>4, <2>5, CallMoves
<1>5. ASSUME NEW c \in ReadCalls, Reads!Refuse(c) \/ Reads!Drop(c)
      PROVE  ReadsInv'
  <2>1. PICK phase \in {"refused", "failed"} : calls' = [calls EXCEPT ![c].phase = phase]
    BY <1>5 DEF Reads!Refuse, Reads!Drop, Reads!Moves
  <2> DEFINE k == [calls[c] EXCEPT !.phase = phase]
  <2>2. /\ calls[c] \in Reads!Call /\ calls[c] # None
        /\ calls[c].phase \in {"granting", "reading", "stamped"}
    BY <1>0, <1>5 DEF Reads!Refuse, Reads!Drop, Reads!In
  <2>3. k \in Reads!Call /\ k.phase = phase /\ k.grant = calls[c].grant
    BY <2>2 DEF Reads!Call, Reads!Phases
  <2>4. calls' = [calls EXCEPT ![c] = k] /\ UNCHANGED <<now, grants, audit>>
    BY <1>0, <1>5, <2>1 DEF Reads!Refuse, Reads!Drop
  <2> HIDE DEF k
  <2> QED
    BY <2>2, <2>3, <2>4, CallMoves
<1>6. ASSUME NEW c \in ReadCalls, Reads!CommitGrant(c)
      PROVE  ReadsInv'
  BY <1>6, CommitGrantKeeps
<1>7. ASSUME NEW c \in ReadCalls, Reads!ConsumeGrant(c)
      PROVE  ReadsInv'
  BY <1>7, ConsumeGrantKeeps
<1>8. CASE UNCHANGED Reads!vars
  BY <1>8
  DEF Reads!vars, ReadsInv, ReadsTyped, Reads!TypeOK, GrantsFresh, GrantsAudited, GrantAudited,
      ReadsPresent, Stamps, ConsumedByOver, ServedLeft, OneServedEach, OneEventEach, Consumed,
      Spent, Reads!Consumptions, Reads!Served, Reads!In
<1> QED
  BY <1>1, <1>2, <1>3, <1>4, <1>5, <1>6, <1>7, <1>8 DEF Reads!Next

\* The part's own instance of FiniteSets counts as the library does.
LEMMA ReadsCardinality ==
  ASSUME NEW S
  PROVE  Reads!Cardinality(S) = Cardinality(S)
BY DEF Reads!Cardinality, Cardinality

\* What the invariant says of types, of the audit log and of the traces that leave.
LEMMA ReadsKeepAccount ==
  ASSUME ReadsInv
  PROVE  Reads!TypeOK /\ Reads!ReadsAccounted
<1>1. Reads!TypeOK
  BY DEF ReadsInv, ReadsTyped
<1>2. Reads!ReadsAudited
  <2>1. Spent = {g \in Grants : grants[g] # None /\ grants[g].consumedAt # None}
    BY DEF Spent, Consumed
  <2>2. ASSUME NEW c \in Reads!Served
        PROVE  \E e \in Reads!Consumptions :
                 /\ e.request = c /\ e.operator = calls[c].operator /\ e.trace = calls[c].trace
                 /\ e.at = grants[calls[c].grant].consumedAt
    BY <2>2 DEF ReadsInv, ServedLeft
  <2>3. \A c, d \in Reads!Served : c # d => calls[c].grant # calls[d].grant
    BY DEF ReadsInv, OneServedEach
  <2>4. Cardinality(Reads!Consumptions)
          = Cardinality({g \in Grants : grants[g] # None /\ grants[g].consumedAt # None})
    BY <2>1 DEF ReadsInv, OneEventEach
  <2> QED
    BY <2>2, <2>3, <2>4, ReadsCardinality DEF Reads!ReadsAudited
<1>3. Reads!ReadsWithinGrant
  <2> SUFFICES ASSUME NEW c \in Reads!Served
               PROVE  LET g == grants[calls[c].grant]
                      IN  /\ g # None
                          /\ g.operator = calls[c].operator /\ g.trace = calls[c].trace
                          /\ g.createdAt <= calls[c].stamp /\ calls[c].stamp < g.expiresAt
                          /\ \E e \in audit :
                               /\ e.action = "grant.created" /\ e.at = g.createdAt
                               /\ e.operator = g.operator /\ e.trace = g.trace
    BY DEF Reads!ReadsWithinGrant
  <2>1. calls[c].grant \in Grants
    BY <1>1, ReadsFields DEF Reads!TypeOK, Reads!Served, Reads!In
  <2>2. GrantAudited(calls[c].grant)
    BY <2>1 DEF ReadsInv, ServedLeft, Consumed, GrantsAudited
  <2> QED
    BY <2>2 DEF ReadsInv, ServedLeft, Consumed, GrantAudited
<1> QED
  BY <1>1, <1>2, <1>3 DEF Reads!ReadsAccounted

-----------------------------------------------------------------------------
(*****************************************************************************)
(* Fixed-window rate limits (FixedWindow)                                    *)
(*****************************************************************************)

\* Two windows of a key lie this far apart at least.
Gap == Window - MaxDelay

\* The part's variables but the admissions.
LimitsTyped ==
  /\ now \in 0..LimitsMaxTime
  /\ rows \in [Keys -> {None} \cup Limits!Row]
  /\ cleanup \in {None} \cup 0..LimitsMaxTime
  /\ counts \in [CountedCalls -> {None} \cup Limits!Call]

\* Callers and the cleanup date themselves in the past, and a statement in flight is no older
\* than the delay.
CountsDated ==
  /\ cleanup # None => cleanup <= now
  /\ \A c \in CountedCalls : counts[c] # None =>
       /\ counts[c].date <= now /\ now <= counts[c].date + MaxDelay
       /\ counts[c].passed < Len(counts[c].path)

\* An admission within the last window.
AdmissionTyped(a) ==
  /\ a.key \in Keys /\ a.at \in 0..now /\ a.at + Window > now
  /\ a.expiresAt \in Int /\ a.at - MaxDelay < a.expiresAt /\ a.expiresAt <= a.at + Window
  /\ a.count \in 1..Limit[a.key]

\* The windows of a key follow each other, and the one that is open counts on.
AdmissionBefore(a) ==
  LET r == rows[a.key]
  IN  IF r = None THEN a.expiresAt <= now
      ELSE \/ a.expiresAt = r.expiresAt /\ a.count <= r.count
           \/ a.expiresAt + Gap <= r.expiresAt

\* Two admissions of a key are of one window, and then differ in their count, or of windows
\* that lie apart.
AdmissionsApart ==
  \A a, b \in admitted : a.key = b.key =>
    /\ \/ a.expiresAt = b.expiresAt
       \/ a.expiresAt + Gap <= b.expiresAt
       \/ b.expiresAt + Gap <= a.expiresAt
    /\ a.expiresAt = b.expiresAt /\ a.count = b.count => a = b

\* The inductive invariant of the counters: expiries lie apart, and within a window of an
\* expiry each count is let through once.
LimitsInv ==
  /\ LimitsTyped /\ CountsDated /\ AdmissionsApart
  /\ \A k \in Keys : rows[k] # None => rows[k].expiresAt <= now + Window
  /\ \A a \in admitted : AdmissionTyped(a) /\ AdmissionBefore(a)

\* Late statements eat up little of a window.
LEMMA GapPositive == Gap \in Nat \ {0} /\ 2 * Window + MaxDelay <= 3 * Gap + 1
BY LimitsAssumption DEF Gap

\* The fields of a row.
LEMMA RowFields ==
  ASSUME NEW r \in Limits!Row
  PROVE  r.count \in Nat \ {0} /\ r.expiresAt \in 0..(LimitsMaxTime + Window) /\ r # None
BY NoneAssumption DEF Limits!Row

\* The fields of a call.
LEMMA CountFields ==
  ASSUME NEW c \in Limits!Call
  PROVE  c.date \in 0..LimitsMaxTime /\ c.path \in Paths /\ c.passed \in Nat /\ c # None
BY NoneAssumption DEF Limits!Call, Limits!Time

\* The invariant holds with no row.
LEMMA LimitsInit ==
  ASSUME Limits!Init
  PROVE  LimitsInv
BY LimitsAssumption
DEF Limits!Init, LimitsInv, LimitsTyped, CountsDated, AdmissionsApart

\* Nothing is let through, and no window changes.
LEMMA NothingAdmitted ==
  ASSUME LimitsInv, UNCHANGED <<now, rows, admitted>>, LimitsTyped', CountsDated'
  PROVE  LimitsInv'
BY DEF LimitsInv, AdmissionsApart, AdmissionTyped, AdmissionBefore

\* A call is counted in its next window.
LEMMA CountKeeps ==
  ASSUME LimitsInv, NEW c \in CountedCalls, Limits!Count(c)
  PROVE  LimitsInv'
<1>g. Gap \in Nat \ {0} /\ Gap + MaxDelay = Window
  BY LimitsAssumption, GapPositive DEF Gap
<1>0. /\ now \in 0..LimitsMaxTime /\ rows \in [Keys -> {None} \cup Limits!Row]
      /\ cleanup \in {None} \cup 0..LimitsMaxTime
      /\ counts \in [CountedCalls -> {None} \cup Limits!Call]
      /\ CountsDated /\ Window \in Nat \ {0} /\ MaxDelay \in Nat /\ LimitsMaxTime \in Nat
      /\ Gap \in Nat \ {0} /\ Gap + MaxDelay = Window
  BY <1>g, LimitsAssumption DEF LimitsInv, LimitsTyped
<1> DEFINE k == Limits!NextKey(c)
           date == counts[c].date
           counted == Limits!Counted(k, date)
           passed == counts[c].passed + 1
           over == counted.count > Limit[k] \/ passed = Len(counts[c].path)
           new == Limits!Admission(k, counted)
<1>1. /\ counts[c] # None /\ rows' = [rows EXCEPT ![k] = counted]
      /\ counts' = [counts EXCEPT ![c] = IF over THEN None ELSE [@ EXCEPT !.passed = passed]]
      /\ admitted' = IF counted.count > Limit[k] THEN admitted ELSE admitted \cup {new}
      /\ UNCHANGED <<now, cleanup>>
  BY DEF Limits!Count
<1>2. /\ counts[c] \in Limits!Call /\ date \in 0..now /\ now <= date + MaxDelay /\ date <= now
      /\ date \in 0..LimitsMaxTime
      /\ counts[c].passed \in Nat /\ counts[c].passed < Len(counts[c].path)
      /\ counts[c].path \in Seq(Keys)
  BY <1>0, <1>1, CountFields, LimitsAssumption, SMTT(30) DEF CountsDated
<1>3. k \in Keys /\ Limit[k] \in Nat
  <2> DEFINE path == counts[c].path
  <2>1. path \in Seq(Keys) /\ passed \in 1..Len(path)
    BY <1>2
  <2>2. k = path[passed]
    BY DEF Limits!NextKey
  <2> HIDE DEF path, passed, k
  <2>3. k \in Keys
    BY <2>1, <2>2
  <2> QED
    BY <2>3, LimitsAssumption
<1>4. /\ \/ Limits!Expired(rows[k], date)
         \/ rows[k] \in Limits!Row /\ rows[k].expiresAt > date
      /\ rows[k] = None \/ rows[k] \in Limits!Row
  BY <1>0, <1>2, <1>3, RowFields DEF Limits!Expired
\* The window the call is counted in, against what was let through before.
<1>5. /\ counted.expiresAt \in Int /\ counted.expiresAt > now - MaxDelay
      /\ counted.expiresAt <= now + Window
      /\ counted \in Limits!Row
      /\ \A a \in admitted : a.key = k =>
           \/ a.expiresAt = counted.expiresAt /\ a.count <= counted.count
              /\ (counted.count <= Limit[k] => a.count < counted.count)
           \/ a.expiresAt + Gap <= counted.expiresAt
  <2>1. CASE Limits!Expired(rows[k], date)
    <3>1. counted = [count |-> 1, expiresAt |-> date + Window]
      BY <2>1 DEF Limits!Counted
    <3>2. counted.expiresAt = date + Window /\ counted \in Limits!Row
      BY <1>0, <1>2, <3>1 DEF Limits!Row
    <3>3. ASSUME NEW a \in admitted, a.key = k
          PROVE  a.expiresAt + Gap <= counted.expiresAt
      <4>1. a.expiresAt \in Int /\ AdmissionBefore(a)
        BY DEF LimitsInv, AdmissionTyped
      <4>2. CASE rows[k] = None
        BY <1>0, <1>2, <3>2, <3>3, <4>1, <4>2 DEF AdmissionBefore
      <4>3. CASE rows[k] # None
        <5>1. rows[k].expiresAt <= date /\ rows[k].expiresAt \in Int
          BY <1>4, <2>1, <4>3, RowFields DEF Limits!Expired
        <5>2. a.expiresAt = rows[k].expiresAt \/ a.expiresAt + Gap <= rows[k].expiresAt
          BY <3>3, <4>1, <4>3 DEF AdmissionBefore
        <5>3. a.expiresAt <= date /\ Gap \in Int /\ Gap <= Window
          BY <1>g, <1>0, <1>2, <4>1, <5>1, <5>2, SMTT(30)
        <5> QED
          BY <1>0, <1>2, <3>2, <4>1, <5>3
      <4> QED
        BY <4>2, <4>3
    <3> HIDE DEF counted, k, date
    <3>4. counted.expiresAt > now - MaxDelay /\ counted.expiresAt <= now + Window
      BY <1>0, <1>2, <3>2
    <3> QED
      BY <1>0, <1>2, <3>2, <3>3, <3>4
  <2>2. CASE ~Limits!Expired(rows[k], date)
    <3>1. /\ rows[k] \in Limits!Row /\ rows[k].expiresAt > date
          /\ rows[k].count \in Nat \ {0}
          /\ rows[k].expiresAt \in 0..(LimitsMaxTime + Window)
          /\ rows[k] # None
      BY <1>4, <2>2, RowFields
    <3>2. /\ counted = [rows[k] EXCEPT !.count = IF @ > Limit[k] THEN @ ELSE @ + 1]
      BY <2>2 DEF Limits!Counted
    <3>3. /\ counted.expiresAt = rows[k].expiresAt
          /\ counted.count = IF rows[k].count > Limit[k] THEN rows[k].count
                         ELSE rows[k].count + 1
          /\ counted \in Limits!Row
      BY <3>1, <3>2 DEF Limits!Row
    <3>4. rows[k].expiresAt <= now + Window
      BY <1>3, <3>1 DEF LimitsInv
    <3> HIDE DEF counted
    <3>5. ASSUME NEW a \in admitted, a.key = k
          PROVE  \/ a.expiresAt = counted.expiresAt /\ a.count <= counted.count
                    /\ (counted.count <= Limit[k] => a.count < counted.count)
                 \/ a.expiresAt + Gap <= counted.expiresAt
      <4>1. AdmissionBefore(a) /\ a.count \in Int
        BY <1>3, <3>5 DEF LimitsInv, AdmissionTyped
      <4> QED
        BY <1>3, <3>1, <3>3, <3>5, <4>1 DEF AdmissionBefore
    <3> QED
      BY <1>0, <1>2, <3>1, <3>3, <3>4, <3>5
  <2> QED
    BY <2>1, <2>2
<1> HIDE DEF counted
<1>6. /\ counted.count \in Nat \ {0} /\ counted.expiresAt \in 0..(LimitsMaxTime + Window)
      /\ counted # None
  BY <1>5, RowFields
<1>7. /\ new.key = k /\ new.at = now /\ new.expiresAt = counted.expiresAt
      /\ new.count = counted.count
  BY DEF Limits!Admission
<1> HIDE DEF new, k, date
<1>8. rows'[k] = counted /\ \A j \in Keys : j # k => rows'[j] = rows[j]
  BY <1>0, <1>1, <1>3
<1>9. \A a \in admitted' : a \in admitted \/ (a = new /\ counted.count <= Limit[k])
  BY <1>1, <1>3, <1>6
<1>10. LimitsTyped' /\ CountsDated'
  <2>1. CASE over
    <3>1. counts' = [counts EXCEPT ![c] = None]
      BY <1>1, <2>1
    <3> QED
      BY <1>0, <1>1, <1>3, <1>5, <3>1 DEF LimitsTyped, CountsDated
  <2>2. CASE ~over
    <3> DEFINE call == [counts[c] EXCEPT !.passed = passed]
    <3>1. counts' = [counts EXCEPT ![c] = call]
      BY <1>1, <2>2
    <3>2. /\ call \in Limits!Call /\ call.date = date /\ call.passed = passed
          /\ call.path = counts[c].path
      BY <1>2 DEF Limits!Call, date
    <3>3. passed < Len(counts[c].path)
      BY <1>2, <2>2
    <3> HIDE DEF call
    <3>4. CountsDated'
      BY <1>0, <1>1, <1>2, <3>1, <3>2, <3>3 DEF CountsDated
    <3> QED
      BY <1>0, <1>1, <1>3, <1>5, <3>1, <3>2, <3>4 DEF LimitsTyped
  <2> QED
    BY <2>1, <2>2
<1> HIDE DEF over, passed
<1>11. \A j \in Keys : rows'[j] # None => rows'[j].expiresAt <= now' + Window
  BY <1>0, <1>1, <1>5, <1>8 DEF LimitsInv
<1>12. ASSUME NEW a \in admitted'
       PROVE  AdmissionTyped(a)' /\ AdmissionBefore(a)'
  <2>1. CASE a \in admitted
    <3>1. AdmissionTyped(a) /\ AdmissionBefore(a) /\ a.key \in Keys
      BY <2>1 DEF LimitsInv, AdmissionTyped
    <3>2. AdmissionTyped(a)'
      BY <1>1, <3>1 DEF AdmissionTyped
    <3>3. CASE a.key = k
      BY <1>5, <1>6, <1>8, <2>1, <3>2, <3>3 DEF AdmissionBefore
    <3>4. CASE a.key # k
      BY <1>1, <1>8, <3>1, <3>2, <3>4 DEF AdmissionBefore
    <3> QED
      BY <3>3, <3>4
  <2>2. CASE a = new /\ counted.count <= Limit[k]
    <3>1. AdmissionTyped(a)'
      BY <1>0, <1>1, <1>3, <1>5, <1>6, <1>7, <2>2 DEF AdmissionTyped
    <3>2. AdmissionBefore(a)'
      BY <1>6, <1>7, <1>8, <2>2 DEF AdmissionBefore
    <3> QED
      BY <3>1, <3>2
  <2> QED
    BY <1>9, <2>1, <2>2
<1>13. AdmissionsApart'
  <2> SUFFICES ASSUME NEW a \in admitted', NEW b \in admitted', a.key = b.key
               PROVE  /\ \/ a.expiresAt = b.expiresAt
                         \/ a.expiresAt + Gap <= b.expiresAt
                         \/ b.expiresAt + Gap <= a.expiresAt
                      /\ a.expiresAt = b.expiresAt /\ a.count = b.count => a = b
    BY DEF AdmissionsApart
  <2>1. ASSUME NEW x \in admitted, x.key = k, counted.count <= Limit[k]
        PROVE  /\ x.expiresAt = counted.expiresAt \/ x.expiresAt + Gap <= counted.expiresAt
               /\ ~(x.expiresAt = counted.expiresAt /\ x.count = counted.count)
    <3>1. x.expiresAt \in Int /\ x.count \in Int
      BY <1>3, <2>1 DEF LimitsInv, AdmissionTyped
    <3> QED
      BY <1>0, <1>5, <1>6, <2>1, <3>1
  <2>2. CASE a \in admitted /\ b \in admitted
    BY <2>2 DEF LimitsInv, AdmissionsApart
  <2>3. CASE a \in admitted /\ b = new /\ counted.count <= Limit[k]
    BY <1>7, <2>1, <2>3
  <2>4. CASE b \in admitted /\ a = new /\ counted.count <= Limit[k]
    BY <1>7, <2>1, <2>4
  <2>5. CASE a = new /\ b = new
    BY <2>5
  <2> QED
    BY <1>9, <2>2, <2>3, <2>4, <2>5
<1> QED
  BY <1>10, <1>11, <1>12, <1>13 DEF LimitsInv

\* Every step of the counters keeps the invariant (FixedWindow.Next).
LEMMA LimitsStep ==
  ASSUME LimitsInv, [Limits!Next]_(Limits!vars)
  PROVE  LimitsInv'
<1>0. /\ now \in 0..LimitsMaxTime /\ rows \in [Keys -> {None} \cup Limits!Row]
      /\ cleanup \in {None} \cup 0..LimitsMaxTime
      /\ counts \in [CountedCalls -> {None} \cup Limits!Call]
      /\ CountsDated /\ Window \in Nat \ {0} /\ MaxDelay \in Nat /\ LimitsMaxTime \in Nat
      /\ Gap \in Nat \ {0}
  BY LimitsAssumption, GapPositive DEF LimitsInv, LimitsTyped
<1>1. CASE Limits!Tick
  <2>1. /\ now' = now + 1 /\ now' \in 0..LimitsMaxTime /\ UNCHANGED <<rows, cleanup, counts>>
        /\ admitted' = {a \in admitted : a.at + Window > now + 1}
    BY <1>0, <1>1 DEF Limits!Tick
  <2>2. CountsDated'
    <3>1. cleanup' # None => cleanup' <= now'
      BY <1>0, <2>1 DEF CountsDated
    <3>2. ASSUME NEW c \in CountedCalls, counts'[c] # None
          PROVE  /\ counts'[c].date <= now' /\ now' <= counts'[c].date + MaxDelay
                 /\ counts'[c].passed < Len(counts'[c].path)
      <4>1. counts[c] # None /\ counts[c].date \in 0..LimitsMaxTime /\ counts'[c] = counts[c]
        BY <1>0, <2>1, <3>2, CountFields
      <4>2. now < counts[c].date + MaxDelay
        BY <1>1, <4>1 DEF Limits!Tick
      <4> QED
        BY <1>0, <2>1, <4>1, <4>2 DEF CountsDated
    <3> QED
      BY <3>1, <3>2 DEF CountsDated
  <2>3. \A k \in Keys : rows'[k] # None => rows'[k].expiresAt <= now' + Window
    BY <1>0, <2>1, RowFields DEF LimitsInv
  <2>4. ASSUME NEW a \in admitted'
        PROVE  AdmissionTyped(a)' /\ AdmissionBefore(a)'
    <3>1. a \in admitted /\ a.at + Window > now' /\ AdmissionTyped(a) /\ AdmissionBefore(a)
      BY <2>1, <2>4 DEF LimitsInv
    <3> QED
      BY <1>0, <2>1, <3>1 DEF AdmissionTyped, AdmissionBefore
  <2>5. AdmissionsApart'
    BY <2>1 DEF LimitsInv, AdmissionsApart
  <2> QED
    BY <1>0, <2>1, <2>2, <2>3, <2>4, <2>5 DEF LimitsInv, LimitsTyped
<1>2. CASE Limits!StartCleanup
  BY <1>0, <1>2, NothingAdmitted, NoneAssumption
  DEF Limits!StartCleanup, LimitsTyped, CountsDated
<1>3. CASE Limits!Cleanup
  <2>1. /\ rows' = [k \in Keys |-> IF Limits!Expired(rows[k], cleanup) THEN None ELSE rows[k]]
        /\ cleanup' = None /\ cleanup # None /\ UNCHANGED <<now, counts, admitted>>
    BY <1>3 DEF Limits!Cleanup
  <2>2. LimitsTyped' /\ CountsDated'
    BY <1>0, <2>1 DEF LimitsTyped, CountsDated
  <2>3. \A k \in Keys : rows'[k] # None => rows'[k].expiresAt <= now' + Window
    BY <1>0, <2>1 DEF LimitsInv
  <2>4. ASSUME NEW a \in admitted
        PROVE  AdmissionTyped(a)' /\ AdmissionBefore(a)'
    <3>1. AdmissionTyped(a) /\ AdmissionBefore(a)
      BY DEF LimitsInv
    <3>2. CASE Limits!Expired(rows[a.key], cleanup)
      <4>1. rows'[a.key] = None /\ a.key \in Keys /\ a.expiresAt \in Int
        BY <2>1, <3>1, <3>2 DEF AdmissionTyped
      <4>2. rows[a.key] # None =>
              rows[a.key].expiresAt <= cleanup /\ rows[a.key].expiresAt \in Int
        BY <1>0, <3>2, <4>1, RowFields DEF Limits!Expired
      <4>3. a.expiresAt <= now
        BY <1>0, <2>1, <3>1, <4>1, <4>2 DEF AdmissionBefore, CountsDated
      <4> QED
        BY <2>1, <3>1, <4>1, <4>3 DEF AdmissionTyped, AdmissionBefore
    <3>3. CASE ~Limits!Expired(rows[a.key], cleanup)
      BY <2>1, <3>1, <3>3 DEF AdmissionTyped, AdmissionBefore
    <3> QED
      BY <3>2, <3>3
  <2>5. AdmissionsApart'
    BY <2>1 DEF LimitsInv, AdmissionsApart
  <2> QED
    BY <2>1, <2>2, <2>3, <2>4, <2>5 DEF LimitsInv
<1>4. ASSUME NEW c \in CountedCalls, NEW p \in Paths, Limits!Begin(c, p)
      PROVE  LimitsInv'
  <2> DEFINE call == [date |-> now, path |-> p, passed |-> 0]
  <2>1. counts' = [counts EXCEPT ![c] = call] /\ UNCHANGED <<now, rows, cleanup, admitted>>
    BY <1>4 DEF Limits!Begin
  <2>2. call \in Limits!Call /\ call.date = now /\ call.passed = 0 /\ call.path = p
    BY <1>0 DEF Limits!Call, Limits!Time
  <2>3. 0 < Len(p)
    BY LimitsAssumption
  <2> HIDE DEF call
  <2>4. LimitsTyped'
    BY <1>0, <2>1, <2>2 DEF LimitsTyped
  <2>5. CountsDated'
    BY <1>0, <2>1, <2>2, <2>3 DEF CountsDated
  <2> QED
    BY <2>1, <2>4, <2>5, NothingAdmitted
<1>5. ASSUME NEW c \in CountedCalls, Limits!Drop(c)
      PROVE  LimitsInv'
  BY <1>0, <1>5, NothingAdmitted DEF Limits!Drop, LimitsTyped, CountsDated
<1>6. ASSUME NEW c \in CountedCalls, Limits!Count(c)
      PROVE  LimitsInv'
  BY <1>0, <1>6, CountKeeps
<1>7. CASE UNCHANGED Limits!vars
  BY <1>0, <1>7, NothingAdmitted DEF Limits!vars, LimitsTyped, CountsDated
<1> QED
  BY <1>1, <1>2, <1>3, <1>4, <1>5, <1>6, <1>7 DEF Limits!Next

\* The part's own instance of FiniteSets counts as the library does.
LEMMA LimitsCardinality == \A S : Limits!Cardinality(S) = Cardinality(S)
BY DEF Limits!Cardinality, Cardinality

\* The expiries of what was let through within a window's length span fewer than three
\* gaps, and so at most three windows; each lets Limit[k] counts through.
LEMMA LimitsBounded ==
  ASSUME LimitsInv
  PROVE  Limits!TypeOK /\ Limits!SpanBounded
<1>1. Limits!TypeOK
  BY DEF LimitsInv, LimitsTyped, AdmissionTyped, Limits!TypeOK, Limits!Time
<1>2. ASSUME NEW k \in Keys
      PROVE  Limits!Cardinality({a \in admitted : a.key = k}) <= 3 * Limit[k]
  <2> DEFINE S == {a \in admitted : a.key = k}
             base == now - Window - MaxDelay + 2
             bucket(e) == IF e < base + Gap THEN 1 ELSE IF e < base + 2 * Gap THEN 2 ELSE 3
             T == (1..3) \X (1..Limit[k])
             f == [a \in S |-> <<bucket(a.expiresAt), a.count>>]
  <2>1. /\ now \in Int /\ Window \in Int /\ MaxDelay \in Int /\ Limit[k] \in Nat
        /\ Gap \in Int /\ Gap > 0 /\ 2 * Window + MaxDelay <= 3 * Gap + 1 /\ base \in Int
    BY LimitsAssumption, GapPositive DEF LimitsInv, LimitsTyped
  <2>2. ASSUME NEW a \in S
        PROVE  /\ a.expiresAt \in Int /\ a.expiresAt >= base /\ a.expiresAt < base + 3 * Gap
               /\ a.count \in 1..Limit[k]
    <3>1. AdmissionTyped(a) /\ a.key = k
      BY DEF LimitsInv
    <3> QED
      BY <2>1, <3>1 DEF AdmissionTyped
  <2>3. f \in [S -> T]
    BY <2>2
  <2>4. ASSUME NEW a \in S, NEW b \in S, f[a] = f[b]
        PROVE  a = b
    <3>1. bucket(a.expiresAt) = bucket(b.expiresAt) /\ a.count = b.count
      BY <2>4
    <3>2. /\ \/ a.expiresAt = b.expiresAt
             \/ a.expiresAt + Gap <= b.expiresAt
             \/ b.expiresAt + Gap <= a.expiresAt
          /\ a.expiresAt = b.expiresAt /\ a.count = b.count => a = b
      BY DEF LimitsInv, AdmissionsApart
    <3>3. a.expiresAt = b.expiresAt
      <4> DEFINE x == a.expiresAt
                 y == b.expiresAt
      <4>1. /\ x \in Int /\ y \in Int /\ x >= base /\ y >= base
            /\ x < base + 3 * Gap /\ y < base + 3 * Gap
            /\ bucket(x) = bucket(y)
            /\ x = y \/ x + Gap <= y \/ y + Gap <= x
        BY <2>2, <3>1, <3>2
      <4> HIDE DEF x, y, base
      <4>2. x = y
        BY <2>1, <4>1
      <4> QED
        BY <4>2 DEF x, y
    <3> QED
      BY <3>1, <3>2, <3>3
  <2>5. f \in Injection(S, T)
    BY <2>3, <2>4 DEF Injection, IsInjective
  <2> HIDE DEF f, S, T
  <2>6. IsFiniteSet(T) /\ Cardinality(T) = 3 * Limit[k]
    <3>1. ASSUME NEW n \in Nat
          PROVE  IsFiniteSet(1..n) /\ Cardinality(1..n) = n
      BY FS_Interval
    <3> DEFINE A == 1..3
               B == 1..Limit[k]
    <3>2. IsFiniteSet(A) /\ Cardinality(A) = 3
      BY <3>1
    <3>3. IsFiniteSet(B) /\ Cardinality(B) = Limit[k]
      BY <2>1, <3>1
    <3>4. T = A \X B
      BY DEF T
    <3> HIDE DEF A, B
    <3>5. IsFiniteSet(A \X B) /\ Cardinality(A \X B) = Cardinality(A) * Cardinality(B)
      BY <3>2, <3>3, FS_Product
    <3> QED
      BY <3>2, <3>3, <3>4, <3>5
  <2>7. Cardinality(S) <= Cardinality(T)
    BY <2>5, <2>6, FS_Injection
  <2> QED
    BY <2>6, <2>7, LimitsCardinality DEF S
<1> QED
  BY <1>1, <1>2 DEF Limits!SpanBounded

-----------------------------------------------------------------------------
(*****************************************************************************)
(* Private intake status (IntakeStatus)                                      *)
(*****************************************************************************)

\* How far back an answer of GitHub's may lie behind the date it is given.
Slack == FetchLimit + Skew

\* The value GitHub has is held now; an answer was held at or after the start of its
\* renewal; and a date is later than its answer by no more than the slack.
Faithful(value, at) == lastHeld[value] >= at - Slack

\* The part's variables.
IntakeTyped ==
  /\ now \in 0..IntakeMaxTime
  /\ enabled \in BOOLEAN
  /\ lastHeld \in [BOOLEAN -> Int]
  /\ row \in {None} \cup Intake!Row
  /\ newest \in {None} \cup (-Skew)..(IntakeMaxTime + Skew)
  /\ renewals \in [Renewals -> {None} \cup Intake!Renewal]

\* What a renewal knows is so.
RenewalTrue(k) ==
  /\ k.startedAt <= now
  /\ k.kind = "cron" => k.verifiedAt = k.startedAt
  /\ k.answer # None => lastHeld[k.answer] >= k.startedAt
  /\ k.kind = "script" /\ k.verifiedAt # None =>
       k.answer # None /\ Faithful(k.answer, k.verifiedAt)

\* The inductive invariant of the intake status: the stored row and every answer on its way
\* are as old as their dates say, up to the slack, and the row is the newest that arrived.
IntakeInv ==
  /\ IntakeTyped
  /\ lastHeld[enabled] = now /\ \A b \in BOOLEAN : lastHeld[b] <= now
  /\ row # None => Faithful(row.enabled, row.verifiedAt) /\ newest = row.verifiedAt
  /\ row = None => newest = None
  /\ \A r \in Renewals : renewals[r] # None => RenewalTrue(renewals[r])

\* A value that was held stays held at that time or later.
LEMMA HeldGrows ==
  ASSUME IntakeInv, Intake!Tick \/ Intake!Toggle
  PROVE  /\ lastHeld' \in [BOOLEAN -> Int] /\ lastHeld'[enabled'] = now'
         /\ \A b \in BOOLEAN : lastHeld'[b] >= lastHeld[b] /\ lastHeld'[b] <= now'
         /\ now' \in 0..IntakeMaxTime /\ now <= now' /\ enabled' \in BOOLEAN
         /\ UNCHANGED <<row, newest, renewals>>
<1>1. CASE Intake!Tick
  BY <1>1, IntakeAssumption DEF IntakeInv, IntakeTyped, Intake!Tick
<1>2. CASE Intake!Toggle
  BY <1>2, IntakeAssumption DEF IntakeInv, IntakeTyped, Intake!Toggle
<1> QED
  BY <1>1, <1>2

\* The fields of a renewal.
LEMMA RenewalFields ==
  ASSUME NEW k \in Intake!Renewal
  PROVE  /\ k.kind \in {"cron", "script"} /\ k.startedAt \in 0..IntakeMaxTime
         /\ k.answer \in BOOLEAN \cup {None}
         /\ k.verifiedAt \in {None} \cup (-Skew)..(IntakeMaxTime + Skew)
BY DEF Intake!Renewal

\* The invariant holds before the first renewal.
LEMMA IntakeInit ==
  ASSUME Intake!Init
  PROVE  IntakeInv
BY IntakeAssumption DEF Intake!Init, IntakeInv, IntakeTyped

\* What is true of a renewal stays true while time passes and the setting changes.
LEMMA TruthLasts ==
  ASSUME NEW k \in Intake!Renewal, RenewalTrue(k),
         lastHeld \in [BOOLEAN -> Int], lastHeld' \in [BOOLEAN -> Int],
         now \in Int, now' \in Int, now <= now',
         \A b \in BOOLEAN : lastHeld'[b] >= lastHeld[b]
  PROVE  RenewalTrue(k)'
<1>1. k.startedAt \in Int /\ Slack \in Int /\ (k.verifiedAt # None => k.verifiedAt \in Int)
  BY RenewalFields, IntakeAssumption DEF Slack
<1>2. k.startedAt <= now'
  BY <1>1 DEF RenewalTrue
<1>3. CASE k.answer = None
  BY <1>2, <1>3 DEF RenewalTrue
<1>4. CASE k.answer # None
  <2>1. k.answer \in BOOLEAN
    BY <1>4, RenewalFields
  <2>2. lastHeld[k.answer] \in Int /\ lastHeld'[k.answer] \in Int
    BY <2>1, Zenon
  <2>3. lastHeld'[k.answer] >= lastHeld[k.answer]
    BY <2>1, Zenon
  <2>4. lastHeld'[k.answer] >= k.startedAt
    BY <1>1, <1>4, <2>2, <2>3 DEF RenewalTrue
  <2>5. k.verifiedAt # None /\ lastHeld[k.answer] >= k.verifiedAt - Slack
          => lastHeld'[k.answer] >= k.verifiedAt - Slack
    BY <1>1, <2>2, <2>3
  <2> QED
    BY <1>2, <2>4, <2>5 DEF RenewalTrue, Faithful, Slack
<1> QED
  BY <1>3, <1>4

\* A step that only replaces one renewal, by one as true as the others.
LEMMA RenewalMoves ==
  ASSUME IntakeInv, UNCHANGED <<now, enabled, lastHeld, row, newest>>, NEW r \in Renewals,
         NEW k \in {None} \cup Intake!Renewal, k # None => RenewalTrue(k),
         renewals' = [renewals EXCEPT ![r] = k]
  PROVE  IntakeInv'
<1>1. IntakeTyped'
  BY DEF IntakeInv, IntakeTyped
<1>2. \A q \in Renewals : renewals'[q] = IF q = r THEN k ELSE renewals[q]
  BY DEF IntakeInv, IntakeTyped
<1>3. \A q \in Renewals : renewals'[q] # None => RenewalTrue(renewals[q])'
  BY <1>2 DEF IntakeInv, RenewalTrue, Faithful
<1> QED
  BY <1>1, <1>3 DEF IntakeInv, RenewalTrue, Faithful

\* Every step of the status keeps the invariant (IntakeStatus.Next).
LEMMA IntakeStep ==
  ASSUME IntakeInv, [Intake!Next]_(Intake!vars)
  PROVE  IntakeInv'
<1>0. IntakeTyped /\ now \in 0..IntakeMaxTime /\ IntakeMaxTime \in Nat /\ Skew \in Nat
      /\ FetchLimit \in Nat
  BY IntakeAssumption DEF IntakeInv, IntakeTyped
<1>1. CASE Intake!Tick \/ Intake!Toggle
  <2>1. /\ lastHeld' \in [BOOLEAN -> Int] /\ lastHeld'[enabled'] = now'
        /\ \A b \in BOOLEAN : lastHeld'[b] >= lastHeld[b] /\ lastHeld'[b] <= now'
        /\ now' \in 0..IntakeMaxTime /\ now <= now' /\ enabled' \in BOOLEAN
        /\ UNCHANGED <<row, newest, renewals>>
    BY <1>1, HeldGrows
  <2>2. IntakeTyped'
    BY <1>0, <2>1 DEF IntakeTyped
  <2>3. ASSUME row # None PROVE Faithful(row.enabled, row.verifiedAt)'
    <3>1. row.enabled \in BOOLEAN /\ row.verifiedAt \in Int
      BY <1>0, <2>3 DEF IntakeTyped, Intake!Row
    <3> QED
      BY <1>0, <2>1, <2>3, <3>1 DEF IntakeInv, IntakeTyped, Faithful, Slack
  <2>4. ASSUME NEW r \in Renewals, renewals[r] # None
        PROVE  RenewalTrue(renewals[r])'
    <3>1. PICK k \in Intake!Renewal : k = renewals[r]
      BY <1>0, <2>4 DEF IntakeTyped
    <3>2. RenewalTrue(k)
      BY <2>4, <3>1 DEF IntakeInv
    <3>3. RenewalTrue(k)'
      BY <1>0, <2>1, <3>2, TruthLasts DEF IntakeTyped
    <3> QED
      BY <2>1, <3>1, <3>3
  <2> QED
    BY <2>1, <2>2, <2>3, <2>4 DEF IntakeInv
<1>2. ASSUME NEW r \in Renewals, NEW kind \in {"cron", "script"}, Intake!Start(r, kind)
      PROVE  IntakeInv'
  <2> DEFINE k == [kind |-> kind, startedAt |-> now, answer |-> None,
                   verifiedAt |-> IF kind = "cron" THEN now ELSE None]
  <2>1. k \in Intake!Renewal
    BY <1>0 DEF Intake!Renewal
  <2>2. RenewalTrue(k)
    BY <1>0 DEF RenewalTrue
  <2> QED
    BY <1>2, <2>1, <2>2, RenewalMoves DEF Intake!Start
<1>3. ASSUME NEW r \in Renewals, Intake!Answered(r)
      PROVE  IntakeInv'
  <2> DEFINE k == [renewals[r] EXCEPT !.answer = enabled]
  <2>1. renewals[r] \in Intake!Renewal /\ RenewalTrue(renewals[r])
    BY <1>0, <1>3 DEF Intake!Answered, IntakeTyped, IntakeInv
  <2>2. k \in Intake!Renewal
    BY <1>0, <2>1 DEF Intake!Renewal, IntakeTyped
  <2>3. RenewalTrue(k)
    <3>1. lastHeld[enabled] = now /\ renewals[r].answer = None
      BY <1>3 DEF IntakeInv, Intake!Answered
    <3>2. /\ k.kind = renewals[r].kind /\ k.startedAt = renewals[r].startedAt
          /\ k.verifiedAt = renewals[r].verifiedAt /\ k.answer = enabled
      BY <2>1 DEF Intake!Renewal
    <3>3. renewals[r].startedAt \in Int
      BY <2>1, RenewalFields
    <3> QED
      BY <1>0, <2>1, <3>1, <3>2, <3>3 DEF RenewalTrue
  <2>4. renewals' = [renewals EXCEPT ![r] = k]
    BY <1>0, <1>3 DEF Intake!Answered, IntakeTyped
  <2> QED
    BY <1>3, <2>2, <2>3, <2>4, RenewalMoves DEF Intake!Answered
<1>4. ASSUME NEW r \in Renewals, Intake!Date(r)
      PROVE  IntakeInv'
  <2>1. PICK at \in (now - Skew)..(now + Skew) :
          renewals' = [renewals EXCEPT ![r].verifiedAt = at]
    BY <1>4 DEF Intake!Date
  <2> DEFINE k == [renewals[r] EXCEPT !.verifiedAt = at]
  <2>2. renewals[r] \in Intake!Renewal /\ RenewalTrue(renewals[r])
    BY <1>0, <1>4 DEF Intake!Date, IntakeTyped, IntakeInv
  <2>3. at \in (-Skew)..(IntakeMaxTime + Skew)
    BY <1>0, <2>1
  <2>4. k \in Intake!Renewal
    BY <2>2, <2>3 DEF Intake!Renewal
  <2>5. RenewalTrue(k)
    <3>1. /\ renewals[r].answer \in BOOLEAN /\ renewals[r].startedAt \in Int
          /\ renewals[r].answer # None
          /\ now <= renewals[r].startedAt + FetchLimit /\ renewals[r].verifiedAt = None
      BY <1>4, <2>2, RenewalFields DEF Intake!Date
    <3>2. renewals[r].kind = "script"
      BY <2>2, <3>1, RenewalFields, NoneAssumption DEF RenewalTrue
    <3>3. /\ k.kind = renewals[r].kind /\ k.startedAt = renewals[r].startedAt
          /\ k.verifiedAt = at /\ k.answer = renewals[r].answer
      BY <2>2 DEF Intake!Renewal
    <3>4. lastHeld[renewals[r].answer] \in Int
      BY <1>0, <3>1 DEF IntakeTyped
    <3>5. lastHeld[renewals[r].answer] >= at - Slack
      BY <1>0, <2>1, <2>2, <3>1, <3>4 DEF RenewalTrue, Slack
    <3> QED
      BY <2>2, <3>1, <3>2, <3>3, <3>5 DEF RenewalTrue, Faithful
  <2>6. renewals' = [renewals EXCEPT ![r] = k]
    BY <1>0, <2>1 DEF IntakeTyped
  <2> QED
    BY <1>4, <2>4, <2>5, <2>6, RenewalMoves DEF Intake!Date
<1>5. ASSUME NEW r \in Renewals, Intake!Write(r)
      PROVE  IntakeInv'
  <2> DEFINE k == renewals[r]
             new == [enabled |-> k.answer, verifiedAt |-> k.verifiedAt]
  <2>1. k \in Intake!Renewal /\ RenewalTrue(k) /\ k.answer # None /\ k.verifiedAt # None
    BY <1>0, <1>5 DEF Intake!Write, Intake!Dated, IntakeTyped, IntakeInv
  <2>2. k.answer \in BOOLEAN /\ k.verifiedAt \in (-Skew)..(IntakeMaxTime + Skew)
    BY <2>1, RenewalFields
  <2>3. Faithful(k.answer, k.verifiedAt)
    BY <1>0, <2>1, <2>2, RenewalFields DEF RenewalTrue, Faithful, Slack, IntakeTyped
  <2>4. /\ row' = row \/ row' = new
        /\ row' # None /\ newest' = row'.verifiedAt
        /\ newest' \in (-Skew)..(IntakeMaxTime + Skew)
    <3>1. new # None
      BY <2>2, NoneAssumption DEF Intake!Row
    <3>2. CASE row # None /\ row.verifiedAt >= k.verifiedAt
      <4>1. row' = row /\ newest = row.verifiedAt
        BY <1>5, <3>2 DEF Intake!Write, IntakeInv
      <4>2. row.verifiedAt \in (-Skew)..(IntakeMaxTime + Skew)
        BY <1>0, <3>2 DEF IntakeTyped, Intake!Row
      <4>3. newest # None
        BY <4>1, <4>2, NoneAssumption
      <4>4. newest' = newest
        BY <1>5, <3>2, <4>1, <4>3 DEF Intake!Write, Intake!Newest
      <4> QED
        BY <3>2, <4>1, <4>2, <4>4
    <3>3. CASE ~(row # None /\ row.verifiedAt >= k.verifiedAt)
      <4>1. row' = new
        BY <1>5, <3>3 DEF Intake!Write
      <4>2. ~(newest # None /\ newest >= k.verifiedAt)
        BY <3>3 DEF IntakeInv
      <4>3. newest' = k.verifiedAt
        BY <1>5, <4>2 DEF Intake!Write, Intake!Newest
      <4> QED
        BY <2>2, <3>1, <4>1, <4>3
    <3> QED
      BY <3>2, <3>3
  <2>5. new \in Intake!Row /\ new.enabled = k.answer /\ new.verifiedAt = k.verifiedAt
    BY <2>2 DEF Intake!Row
  <2>6. /\ UNCHANGED <<now, enabled, lastHeld>>
        /\ renewals' = [renewals EXCEPT ![r] = None]
    BY <1>5 DEF Intake!Write
  <2>7. IntakeTyped'
    BY <1>0, <2>4, <2>5, <2>6 DEF IntakeTyped
  <2>8. row' # None => Faithful(row'.enabled, row'.verifiedAt)
    BY <2>3, <2>4, <2>5 DEF IntakeInv
  <2>9. \A q \in Renewals : renewals'[q] # None => RenewalTrue(renewals[q])'
    <3> SUFFICES ASSUME NEW q \in Renewals, renewals'[q] # None PROVE RenewalTrue(renewals[q])'
      OBVIOUS
    <3>1. renewals'[q] = renewals[q] /\ RenewalTrue(renewals[q])
      BY <1>0, <2>6 DEF IntakeInv, IntakeTyped
    <3> QED
      BY <2>6, <3>1 DEF RenewalTrue, Faithful
  <2> QED
    BY <2>4, <2>6, <2>7, <2>8, <2>9 DEF IntakeInv, Faithful
<1>6. ASSUME NEW r \in Renewals, Intake!Fail(r)
      PROVE  IntakeInv'
  BY <1>6, RenewalMoves DEF Intake!Fail
<1>7. CASE UNCHANGED Intake!vars
  BY <1>7 DEF Intake!vars, IntakeInv, IntakeTyped, RenewalTrue, Faithful
<1> QED
  BY <1>1, <1>2, <1>3, <1>4, <1>5, <1>6, <1>7 DEF Intake!Next

\* What the invariant says of types and of what the API serves.
LEMMA IntakeServes ==
  ASSUME IntakeInv
  PROVE  Intake!TypeOK /\ Intake!ServedRecently
<1>1. Intake!TypeOK
  BY DEF IntakeInv, IntakeTyped, Intake!TypeOK
<1>2. ASSUME Intake!Served
      PROVE  /\ now - lastHeld[row.enabled] <= Validity + FetchLimit + Skew
             /\ newest - lastHeld[row.enabled] <= FetchLimit + Skew
  <2>1. row \in Intake!Row
    BY <1>2 DEF IntakeInv, IntakeTyped, Intake!Served
  <2>2. row.enabled \in BOOLEAN /\ row.verifiedAt \in Int
    BY <2>1, IntakeAssumption DEF Intake!Row
  <2> QED
    BY <1>2, <2>2, IntakeAssumption
    DEF IntakeInv, IntakeTyped, Intake!Served, Faithful, Slack
<1> QED
  BY <1>1, <1>2 DEF Intake!ServedRecently

-----------------------------------------------------------------------------
(*****************************************************************************)
(* Squads batches (SquadsObservation)                                        *)
(*****************************************************************************)

\* What a token account may be seen as.
Tokens == {"missing", "recipient"}

\* The observation of one authority.
SquadsObs ==
  [phase: {"idle", "children", "tokens", "done", "failed"}, slot: 1..MaxSlot,
   proposal: {None} \cup (Squads!Statuses \X (0..Children)), tokens: Seq(Tokens)]

\* What some finalized state of the chain was.
SeenAs(p) == \E s \in 1..Len(chain) : Squads!Proposal(chain[s]) = p
\* The same, of a state that has exactly the plan's messages.
SeenExact(p) == \E s \in 1..Len(chain) : chain[s].exact /\ Squads!Proposal(chain[s]) = p
\* What the token account of a child was while the proposal was so.
SeenToken(p, c, token) ==
  \E s \in 1..Len(chain) : Squads!Proposal(chain[s]) = p /\ chain[s].accounts[c] = token

\* The answer of any authority.
AnswerShaped(o) ==
  /\ o \in SquadsObs
  /\ Len(o.tokens) <= Children
  /\ o.phase \in {"idle", "children", "failed"} => o.tokens = <<>>
  /\ o.phase = "tokens" => Len(o.tokens) < Children

\* What an answer of an authority that is not faulty rests on.
AnswerSeen(o) ==
  /\ o.slot \in 1..Len(chain)
  /\ o.phase = "done" => Len(o.tokens) = Children
  /\ o.phase \in {"tokens", "done"} => SeenExact(o.proposal)
  /\ o.phase = "children" => SeenAs(o.proposal)
  /\ \A c \in 1..Len(o.tokens) : SeenToken(o.proposal, c, o.tokens[c])

\* The inductive invariant of the observations: what an authority that is not faulty answers
\* was so of the chain, and a matched verdict rests on such an answer.
SquadsInv ==
  /\ chain \in Seq(Squads!ChainState) /\ Len(chain) \in 1..MaxSlot
  /\ obs \in [Authorities -> SquadsObs]
  /\ \A a \in Authorities : AnswerShaped(obs[a])
  /\ \A a \in Authorities \ Faulty : AnswerSeen(obs[a])
  /\ Squads!Matched =>
       \E a \in Authorities \ Faulty :
         /\ obs[a].phase = "done"
         /\ obs[a].proposal = verdict.proposal /\ obs[a].tokens = verdict.tokens

\* The fields of a state of the chain.
LEMMA ChainFields ==
  ASSUME NEW s \in Squads!ChainState
  PROVE  /\ s.status \in Squads!Statuses \cup {"closed"} /\ s.executed \in 0..Children
         /\ s.exact \in BOOLEAN
         /\ s.accounts \in [1..Children -> {"missing", "recipient", "other"}]
BY DEF Squads!ChainState, Squads!Accounts, Squads!Chunks

\* The fields of an observation.
LEMMA ObsFields ==
  ASSUME NEW o \in SquadsObs
  PROVE  /\ o.phase \in {"idle", "children", "tokens", "done", "failed"}
         /\ o.slot \in 1..MaxSlot
         /\ o.proposal \in {None} \cup (Squads!Statuses \X (0..Children))
         /\ o.tokens \in Seq(Tokens)
BY DEF SquadsObs

\* An observation that moves on is an observation.
LEMMA ObsSet ==
  ASSUME NEW o \in SquadsObs, NEW s \in 1..MaxSlot, NEW t \in Seq(Tokens),
         NEW ph \in {"tokens", "done"}
  PROVE  [o EXCEPT !.slot = s, !.tokens = t, !.phase = ph] \in SquadsObs
BY DEF SquadsObs

\* A state the programs move to is a state.
LEMMA ChainStepsTyped ==
  ASSUME Squads!Last \in Squads!ChainState,
         NEW s \in Squads!StatusMoves \cup Squads!ChildExecutes \cup Squads!AccountChanges
  PROVE  s \in Squads!ChainState
<1>1. CASE s \in Squads!StatusMoves
  <2>1. PICK m \in Squads!NextStatus : s = [Squads!Last EXCEPT !.status = m[2]]
    BY <1>1 DEF Squads!StatusMoves
  <2>2. m[2] \in Squads!Statuses \cup {"closed"}
    BY <2>1 DEF Squads!NextStatus, Squads!Statuses
  <2> QED
    BY <2>1, <2>2 DEF Squads!ChainState
<1>2. CASE s \in Squads!ChildExecutes
  <2> DEFINE c == Squads!Last.executed + 1
             st == IF c = Children THEN "executed" ELSE "approved"
  <2>1. /\ c <= Children
        /\ s = [Squads!Last EXCEPT !.executed = c, !.accounts[c] = "recipient", !.status = st]
    BY <1>2 DEF Squads!ChildExecutes
  <2>2. c \in 0..Children /\ st \in Squads!Statuses
    BY <2>1, ChainFields, SquadsAssumption DEF Squads!Statuses
  <2>3. [Squads!Last.accounts EXCEPT ![c] = "recipient"] \in Squads!Accounts
    BY ChainFields DEF Squads!Accounts, Squads!Chunks
  <2> HIDE DEF c, st
  <2> QED
    BY <2>1, <2>2, <2>3 DEF Squads!ChainState
<1>3. CASE s \in Squads!AccountChanges
  <2>1. PICK c \in Squads!Chunks, token \in {"missing", "recipient", "other"} :
          s = [Squads!Last EXCEPT !.accounts[c] = token]
    BY <1>3 DEF Squads!AccountChanges
  <2>2. [Squads!Last.accounts EXCEPT ![c] = token] \in Squads!Accounts
    BY ChainFields DEF Squads!Accounts, Squads!Chunks
  <2> QED
    BY <2>1, <2>2 DEF Squads!ChainState
<1> QED
  BY <1>1, <1>2, <1>3

\* The invariant holds before the first observation.
LEMMA SquadsInit ==
  ASSUME Squads!Init
  PROVE  SquadsInv
<1>1. PICK s \in Squads!ChainState : chain = <<s>>
  BY SquadsAssumption
  DEF Squads!Init, Squads!ChainState, Squads!Accounts, Squads!Chunks, Squads!Statuses
<1>2. chain \in Seq(Squads!ChainState) /\ Len(chain) = 1
  BY <1>1
<1>3. \A a \in Authorities : /\ obs[a] \in SquadsObs /\ obs[a].tokens = <<>>
                             /\ obs[a].slot = 1 /\ obs[a].phase = "idle"
  BY SquadsAssumption DEF Squads!Init, Squads!NoAnswer, SquadsObs
<1>4. \A a \in Authorities : AnswerSeen(obs[a]) /\ AnswerShaped(obs[a])
  BY <1>2, <1>3, SquadsAssumption DEF AnswerSeen, AnswerShaped
<1>5. ~Squads!Matched
  BY DEF Squads!Init, Squads!Matched
<1> QED
  BY <1>2, <1>3, <1>4, <1>5, SquadsAssumption DEF Squads!Init, SquadsInv

\* One authority answers: what is to be shown of its new answer.
LEMMA OneAnswers ==
  ASSUME SquadsInv, NEW a \in Authorities, NEW o, AnswerShaped(o),
         obs' = [obs EXCEPT ![a] = o],
         a \notin Faulty => AnswerSeen(o),
         verdict = None, UNCHANGED <<chain, verdict>>
  PROVE  SquadsInv'
<1>1. \A b \in Authorities : obs'[b] = IF b = a THEN o ELSE obs[b]
  BY DEF SquadsInv
<1>2. \A b \in Authorities \ Faulty : AnswerSeen(obs[b])
  BY DEF SquadsInv
<1>3. \A b \in Authorities \ Faulty : AnswerSeen(obs'[b])
  BY <1>1, <1>2
<1>4. \A b \in Authorities \ Faulty : AnswerSeen(obs[b])'
  BY <1>3 DEF AnswerSeen, SeenAs, SeenExact, SeenToken
<1>5. ~Squads!Matched'
  BY DEF Squads!Matched
<1>6. \A b \in Authorities : AnswerShaped(obs'[b])
  BY <1>1 DEF SquadsInv
<1>7. \A b \in Authorities : AnswerShaped(obs[b])'
  BY <1>6 DEF AnswerShaped, SquadsObs
<1>8. obs' \in [Authorities -> SquadsObs]
  BY <1>6 DEF SquadsInv, AnswerShaped
<1>9. SquadsObs' = SquadsObs
  BY DEF SquadsObs
<1> QED
  BY <1>4, <1>5, <1>7, <1>8, <1>9 DEF SquadsInv

\* Every step of the chain and the observers keeps the invariant (SquadsObservation.Next).
LEMMA SquadsStep ==
  ASSUME SquadsInv, [Squads!Next]_(Squads!vars)
  PROVE  SquadsInv'
<1>0. \A a \in Authorities : obs[a] \in SquadsObs /\ AnswerShaped(obs[a])
  BY DEF SquadsInv, AnswerShaped
<1>00. \A s \in 1..Len(chain) : chain[s] \in Squads!ChainState
  BY DEF SquadsInv
<1>8. (UNCHANGED <<chain, obs>>) =>
        /\ \A a \in Authorities : AnswerShaped(obs[a])'
        /\ \A a \in Authorities \ Faulty : AnswerSeen(obs[a])'
  BY DEF SquadsInv, AnswerShaped, SquadsObs, AnswerSeen, SeenAs, SeenExact, SeenToken
<1>10. ASSUME NEW a \in Authorities, Squads!Fails(a), verdict = None,
              UNCHANGED <<chain, verdict>>
      PROVE  SquadsInv'
  <2> DEFINE o == [Squads!NoAnswer EXCEPT !.phase = "failed"]
  <2>1. o = [phase |-> "failed", slot |-> 1, proposal |-> None, tokens |-> <<>>]
    BY DEF Squads!NoAnswer
  <2>5. <<>> \in Seq(Tokens)
    OBVIOUS
  <2>2. obs' = [obs EXCEPT ![a] = o]
    BY <1>10 DEF Squads!Fails
  <2> HIDE DEF o
  <2>4. o \in SquadsObs /\ o.tokens = <<>> /\ o.phase = "failed" /\ o.slot = 1
    BY <2>1, <2>5, SquadsAssumption DEF SquadsObs
  <2>3. AnswerShaped(o) /\ AnswerSeen(o)
    BY <2>4, SquadsAssumption DEF AnswerSeen, SquadsInv, AnswerShaped
  <2> QED
    BY <1>10, <2>1, <2>2, <2>3, OneAnswers
<1>1. CASE Squads!ChainSteps
  <2>1. PICK s \in Squads!StatusMoves \cup Squads!ChildExecutes \cup Squads!AccountChanges :
               chain' = Append(chain, s)
    BY <1>1 DEF Squads!ChainSteps
  <2>2. Squads!Last \in Squads!ChainState
    BY <1>00 DEF Squads!Last, SquadsInv
  <2>3. s \in Squads!ChainState
    BY <2>2, ChainStepsTyped
  <2>4. /\ chain' \in Seq(Squads!ChainState) /\ Len(chain') \in 1..MaxSlot
        /\ Len(chain') = Len(chain) + 1 /\ Len(chain) \in Nat
        /\ \A i \in 1..Len(chain) : chain'[i] = chain[i]
    BY <1>1, <2>1, <2>3, SquadsAssumption DEF Squads!ChainSteps, SquadsInv
  <2>5. /\ \A p : SeenAs(p) => SeenAs(p)'
        /\ \A p : SeenExact(p) => SeenExact(p)'
        /\ \A p, c, token : SeenToken(p, c, token) => SeenToken(p, c, token)'
    BY <2>4 DEF SeenAs, SeenExact, SeenToken
  <2>6. ASSUME NEW b \in Authorities \ Faulty PROVE AnswerSeen(obs[b])'
    <3>1. obs'[b] = obs[b]
      BY <1>1 DEF Squads!ChainSteps
    <3>2. AnswerSeen(obs[b])
      BY DEF SquadsInv
    <3> QED
      BY <3>1, <3>2, <2>4, <2>5 DEF AnswerSeen
  <2>7. ~Squads!Matched'
    BY <1>1 DEF Squads!ChainSteps, Squads!Matched
  <2>8. \A a \in Authorities : AnswerShaped(obs[a])'
    BY <1>1, <1>0 DEF Squads!ChainSteps, AnswerShaped, SquadsObs
  <2> QED
    BY <1>1, <2>4, <2>6, <2>7, <2>8 DEF SquadsInv, Squads!ChainSteps
<1>2. ASSUME NEW a \in Authorities, Squads!ReadProposal(a)
      PROVE  SquadsInv'
  <2>1. PICK s \in 1..Len(chain) :
          IF Squads!Inspected(chain[s])
            THEN obs' = [obs EXCEPT ![a] = [phase |-> "children", slot |-> s,
                           proposal |-> Squads!Proposal(chain[s]), tokens |-> <<>>]]
            ELSE Squads!Fails(a)
    BY <1>2 DEF Squads!ReadProposal
  <2>2. CASE Squads!Inspected(chain[s])
    <3> DEFINE o == [phase |-> "children", slot |-> s,
                     proposal |-> Squads!Proposal(chain[s]), tokens |-> <<>>]
    <3>1. Squads!Proposal(chain[s]) \in Squads!Statuses \X (0..Children)
      BY <1>00, <2>2, ChainFields DEF Squads!Proposal, Squads!Inspected
    <3>2. s \in 1..MaxSlot
      BY SquadsAssumption DEF SquadsInv
    <3>3. /\ o \in SquadsObs /\ o.tokens = <<>> /\ o.slot = s /\ o.phase = "children"
          /\ o.proposal = Squads!Proposal(chain[s])
      BY <3>1, <3>2 DEF SquadsObs
    <3>4. obs' = [obs EXCEPT ![a] = o]
      BY <2>1, <2>2
    <3> HIDE DEF o
    <3>5. AnswerShaped(o) /\ AnswerSeen(o)
      BY <3>3, SquadsAssumption DEF AnswerSeen, SeenAs, AnswerShaped
    <3> QED
      BY <1>2, <3>3, <3>4, <3>5, OneAnswers DEF Squads!ReadProposal
  <2>3. CASE ~Squads!Inspected(chain[s])
    BY <1>2, <1>10, <2>1, <2>3 DEF Squads!ReadProposal
  <2> QED
    BY <2>2, <2>3
<1>3. ASSUME NEW a \in Authorities, Squads!ReadChildren(a)
      PROVE  SquadsInv'
  <2>1. PICK s \in obs[a].slot..Len(chain) :
          IF Squads!Rechecked(a, chain[s]) /\ chain[s].exact
            THEN obs' = [obs EXCEPT ![a].phase = "tokens", ![a].slot = s]
            ELSE Squads!Fails(a)
    BY <1>3 DEF Squads!ReadChildren
  <2>2. s \in 1..Len(chain) /\ s \in 1..MaxSlot
    BY <1>0, ObsFields, SquadsAssumption DEF SquadsInv
  <2>3. CASE Squads!Rechecked(a, chain[s]) /\ chain[s].exact
    <3> DEFINE o == [obs[a] EXCEPT !.phase = "tokens", !.slot = s]
    <3>1. obs' = [obs EXCEPT ![a] = o]
      BY <2>1, <2>3 DEF SquadsInv
    <3>2. /\ o \in SquadsObs /\ o.tokens = obs[a].tokens /\ o.slot = s /\ o.phase = "tokens"
          /\ o.proposal = obs[a].proposal
      BY <1>0, <2>2 DEF SquadsObs
    <3> HIDE DEF o
    <3>3. Squads!Proposal(chain[s]) = o.proposal
      BY <1>0, <2>3, <3>2 DEF Squads!Rechecked
    <3>4. SeenExact(o.proposal)
      BY <2>2, <2>3, <3>3 DEF SeenExact
    <3>5. o.tokens = <<>> /\ AnswerShaped(o)
      BY <1>0, <1>3, <3>2, SquadsAssumption DEF AnswerShaped, Squads!ReadChildren
    <3>6. a \notin Faulty => AnswerSeen(o)
      BY <2>2, <3>2, <3>4, <3>5, SquadsAssumption DEF AnswerSeen
    <3> QED
      BY <1>3, <3>1, <3>5, <3>6, OneAnswers DEF Squads!ReadChildren
  <2>4. CASE ~(Squads!Rechecked(a, chain[s]) /\ chain[s].exact)
    BY <1>3, <1>10, <2>1, <2>4 DEF Squads!ReadChildren
  <2> QED
    BY <2>3, <2>4
<1>4. ASSUME NEW a \in Authorities, Squads!ReadTokens(a)
      PROVE  SquadsInv'
  <2> DEFINE c == Len(obs[a].tokens) + 1
  <2>1. PICK s \in obs[a].slot..Len(chain) :
          IF Squads!Rechecked(a, chain[s]) /\ Squads!TokenAccepted(a, c, chain[s].accounts[c])
            THEN obs' = [obs EXCEPT ![a].slot = s,
                           ![a].tokens = Append(@, chain[s].accounts[c]),
                           ![a].phase = IF c = Children THEN "done" ELSE "tokens"]
            ELSE Squads!Fails(a)
    BY <1>4 DEF Squads!ReadTokens
  <2>2. s \in 1..Len(chain) /\ s \in 1..MaxSlot
    BY <1>0, ObsFields, SquadsAssumption DEF SquadsInv
  <2> DEFINE token == chain[s].accounts[c]
             ph == IF c = Children THEN "done" ELSE "tokens"
  <2>3. CASE Squads!Rechecked(a, chain[s]) /\ Squads!TokenAccepted(a, c, token)
    <3> DEFINE o == [obs[a] EXCEPT !.slot = s, !.tokens = Append(@, token), !.phase = ph]
    <3>0. token \in Tokens /\ ph \in {"done", "tokens"} /\ (ph = "done" <=> c = Children)
      BY <2>3 DEF Squads!TokenAccepted, Tokens
    <3>1. obs' = [obs EXCEPT ![a] = o]
      BY <2>1, <2>3 DEF SquadsInv
    <3> HIDE DEF token, ph
    <3>8. Append(obs[a].tokens, token) \in Seq(Tokens)
      BY <1>0, <3>0, ObsFields
    <3>9. /\ o.tokens = Append(obs[a].tokens, token) /\ o.slot = s
          /\ o.phase = ph /\ o.proposal = obs[a].proposal
      BY <1>0 DEF SquadsObs
    <3>2. /\ o \in SquadsObs /\ o.tokens = Append(obs[a].tokens, token) /\ o.slot = s
          /\ o.phase = ph /\ o.proposal = obs[a].proposal
      BY <1>0, <2>2, <3>0, <3>8, <3>9, ObsSet
    <3> HIDE DEF o
    <3>3. Squads!Proposal(chain[s]) = o.proposal
      BY <2>3, <3>2 DEF Squads!Rechecked
    <3>4. SeenToken(o.proposal, c, token)
      BY <2>2, <3>3 DEF SeenToken, token
    <3>5. /\ obs[a].tokens \in Seq(Tokens) /\ Len(obs[a].tokens) \in Nat /\ c \in Nat
          /\ Len(o.tokens) = c /\ o.tokens[c] = token
          /\ \A i \in 1..Len(obs[a].tokens) : o.tokens[i] = obs[a].tokens[i]
      BY <1>0, <3>0, <3>2, ObsFields
    <3>7. AnswerShaped(o)
      BY <1>0, <1>4, <3>0, <3>2, <3>5, SquadsAssumption, SMTT(30)
      DEF AnswerShaped, Squads!ReadTokens
    <3>6. ASSUME a \notin Faulty PROVE AnswerSeen(o)
      <4>1. AnswerSeen(obs[a]) /\ obs[a].phase = "tokens"
        BY <3>6, <1>4 DEF SquadsInv, Squads!ReadTokens
      <4>2. SeenExact(o.proposal)
        BY <4>1, <3>2 DEF AnswerSeen
      <4>3. \A i \in 1..Len(o.tokens) : SeenToken(o.proposal, i, o.tokens[i])
        <5> SUFFICES ASSUME NEW i \in 1..Len(o.tokens)
                     PROVE  SeenToken(o.proposal, i, o.tokens[i])
          OBVIOUS
        <5>1. CASE i = c
          BY <5>1, <3>4, <3>5
        <5>2. CASE i # c
          <6>1. i \in 1..Len(obs[a].tokens)
            BY <5>2, <3>5
          <6> QED
            BY <6>1, <4>1, <3>2, <3>5 DEF AnswerSeen
        <5> QED
          BY <5>1, <5>2
      <4> QED
        BY <2>2, <3>0, <3>2, <3>5, <3>7, <4>2, <4>3, SquadsAssumption DEF AnswerSeen
    <3> QED
      BY <1>4, <3>1, <3>6, <3>7, OneAnswers DEF Squads!ReadTokens
  <2>4. CASE ~(Squads!Rechecked(a, chain[s]) /\ Squads!TokenAccepted(a, c, token))
    BY <1>4, <1>10, <2>1, <2>4 DEF Squads!ReadTokens
  <2> QED
    BY <2>3, <2>4, SMTT(30)
<1>5. ASSUME NEW a \in Authorities, Squads!Unreachable(a)
      PROVE  SquadsInv'
  BY <1>5, <1>10 DEF Squads!Unreachable
<1>6. ASSUME NEW a \in Authorities, Squads!Invented(a)
      PROVE  SquadsInv'
  <2> DEFINE all == [c \in Squads!Chunks |-> "recipient"]
             Paid == [phase |-> "done", slot |-> 1, proposal |-> <<"executed", Children>>,
                      tokens |-> all]
  <2>1. PICK o \in {Paid} \cup {obs[b] : b \in Authorities \ Faulty} :
          o.phase = "done" /\ obs' = [obs EXCEPT ![a] = o]
    BY <1>6 DEF Squads!Invented
  <2>2. AnswerShaped(Paid)
    <3>1. all \in Seq(Tokens) /\ Len(all) = Children
      BY SquadsAssumption DEF Squads!Chunks, Tokens
    <3> HIDE DEF all
    <3> QED
      BY <3>1, SquadsAssumption DEF AnswerShaped, SquadsObs, Squads!Statuses
  <2>3. AnswerShaped(o)
    BY <1>0, <2>2
  <2> QED
    BY <1>6, <2>1, <2>3, OneAnswers DEF Squads!Invented
<1>7. CASE Squads!Conclude
  <2>1. ASSUME NEW a \in Authorities, Squads!Quorum(a),
               verdict' = [proposal |-> obs[a].proposal, tokens |-> obs[a].tokens]
        PROVE  \E h \in Authorities \ Faulty :
                 /\ obs[h].phase = "done"
                 /\ obs[h].proposal = verdict'.proposal /\ obs[h].tokens = verdict'.tokens
    <3>1. PICK b \in Authorities \ {a} : Squads!SameEvidence(a, b)
      BY <2>1 DEF Squads!Quorum
    <3>2. a \notin Faulty \/ b \notin Faulty
      BY SquadsAssumption
    <3> QED
      BY <2>1, <3>1, <3>2 DEF Squads!SameEvidence
  <2>2. Squads!Matched' =>
          \E h \in Authorities \ Faulty :
            /\ obs[h].phase = "done"
            /\ obs[h].proposal = verdict'.proposal /\ obs[h].tokens = verdict'.tokens
    BY <1>7, <2>1 DEF Squads!Conclude, Squads!Matched, Squads!Unverified
  <2>3. UNCHANGED <<chain, obs>>
    BY <1>7 DEF Squads!Conclude
  <2> QED
    BY <2>2, <2>3, <1>8 DEF SquadsInv
<1>9. CASE UNCHANGED Squads!vars
  BY <1>8, <1>9 DEF Squads!vars, SquadsInv, Squads!Matched, Squads!Unverified
<1> QED
  BY <1>1, <1>2, <1>3, <1>4, <1>5, <1>6, <1>7, <1>9 DEF Squads!Next

\* What the invariant says of a matched observation.
LEMMA SquadsMatched ==
  ASSUME SquadsInv
  PROVE  Squads!TypeOK /\ Squads!MatchedIsTrue /\ Squads!EvidenceCoherent
<1>1. Squads!TypeOK
  <2>1. \A a \in Authorities : obs[a] \in
          [phase: {"idle", "children", "tokens", "done", "failed"}, slot: 1..MaxSlot,
           proposal: {None} \cup (Squads!Statuses \X (0..Children)),
           tokens: UNION {[1..n -> {"missing", "recipient"}] : n \in 0..Children}]
    <3> SUFFICES ASSUME NEW a \in Authorities
                 PROVE  obs[a].tokens \in
                          UNION {[1..n -> {"missing", "recipient"}] : n \in 0..Children}
      BY DEF SquadsInv, AnswerShaped, SquadsObs
    <3>1. /\ obs[a].tokens \in Seq({"missing", "recipient"})
          /\ Len(obs[a].tokens) \in 0..Children
      BY ObsFields, SquadsAssumption DEF SquadsInv, AnswerShaped, Tokens
    <3>2. obs[a].tokens \in [1..Len(obs[a].tokens) -> {"missing", "recipient"}]
      BY <3>1
    <3> QED
      BY <3>1, <3>2
  <2>2. obs \in [Authorities -> SquadsObs]
    BY DEF SquadsInv
  <2> QED
    BY <2>1, <2>2 DEF SquadsInv, Squads!TypeOK
<1>2. ASSUME Squads!Matched
      PROVE  /\ SeenExact(verdict.proposal)
             /\ \A c \in Squads!Chunks : SeenToken(verdict.proposal, c, verdict.tokens[c])
  BY <1>2, SquadsAssumption DEF SquadsInv, AnswerSeen, Squads!Chunks
<1> QED
  BY <1>1, <1>2
  DEF Squads!MatchedIsTrue, Squads!EvidenceCoherent, SeenExact, SeenToken

-----------------------------------------------------------------------------
(*****************************************************************************)
(* On-chain settlement (Settlement)                                          *)
(*****************************************************************************)

\* The sum the part's instance of Functions takes.
Total(f, S) == Settling!SumFunctionOnSet(f, S)

\* The element the community module starts with.
Chosen(S) == CHOOSE x \in S : TRUE
\* The sum that the community module takes: over the chosen element, then over the rest.
IsSum(f, g, S) ==
  g = [s \in SUBSET S |-> IF s = {} THEN 0 ELSE f[Chosen(s)] + g[s \ {Chosen(s)}]]
\* The function of all subsets of S that IsSum describes.
SumOf(f, S) == CHOOSE g : IsSum(f, g, S)

\* The definition of the community module, unfolded.
LEMMA TotalUnfolds ==
  ASSUME NEW f, NEW S
  PROVE  Total(f, S) = SumOf(f, S)[S]
BY DEF Total, SumOf, IsSum, Chosen,
       Settling!SumFunctionOnSet, Settling!FoldFunctionOnSet, Settling!MapThenFoldSet

\* A family of subsets of a finite set has a smallest one.
LEMMA Smallest ==
  ASSUME NEW S, IsFiniteSet(S), NEW T, T \subseteq SUBSET S, T # {}
  PROVE  \E x \in T : \A y \in T : y \subseteq x => y = x
<1>1. IsWellFoundedOn(StrictSubsetOrdering(S), SUBSET S)
  BY FS_StrictSubsetOrderingWellFounded, FS_FiniteSubsetsOfFinite
<1>2. PICK x \in T : \A y \in T : ~(<<y, x>> \in StrictSubsetOrdering(S))
  BY <1>1, WFMin
<1> QED
  BY <1>2 DEF StrictSubsetOrdering

\* A set that is not empty has its chosen element.
LEMMA ChosenIn ==
  ASSUME NEW S, S # {}
  PROVE  Chosen(S) \in S
BY DEF Chosen

\* Sums over two supersets agree on a finite set.
LEMMA SumsAgree ==
  ASSUME NEW f, NEW S, IsFiniteSet(S), NEW A, NEW B, S \subseteq A, S \subseteq B,
         NEW g, NEW h, IsSum(f, g, A), IsSum(f, h, B)
  PROVE  g[S] = h[S]
<1> DEFINE T == {s \in SUBSET S : g[s] # h[s]}
<1>1. ASSUME T # {} PROVE FALSE
  <2>0. T \subseteq SUBSET S
    OBVIOUS
  <2>1. PICK s \in T : \A t \in T : t \subseteq s => t = s
    <3> HIDE DEF T
    <3> QED
      BY <1>1, <2>0, Smallest
  <2>2. s \in SUBSET A /\ s \in SUBSET B
    OBVIOUS
  <2>3. s # {}
    BY <2>2 DEF IsSum
  <2>4. g[s] = f[Chosen(s)] + g[s \ {Chosen(s)}] /\ h[s] = f[Chosen(s)] + h[s \ {Chosen(s)}]
    BY <2>2, <2>3 DEF IsSum
  <2>5. s \ {Chosen(s)} \notin T
    BY <2>1, <2>3, ChosenIn
  <2> QED
    BY <2>4, <2>5
<1> QED
  BY <1>1

\* The equation of the sums has a solution over a finite set.
LEMMA SumExists ==
  ASSUME NEW f, NEW S, IsFiniteSet(S)
  PROVE  IsSum(f, SumOf(f, S), S)
<1> DEFINE T == {s \in SUBSET S : ~ \E g : IsSum(f, g, s)}
<1>1. ASSUME T # {} PROVE FALSE
  <2>0. T \subseteq SUBSET S
    OBVIOUS
  <2>1. PICK s \in T : \A t \in T : t \subseteq s => t = s
    <3> HIDE DEF T
    <3> QED
      BY <1>1, <2>0, Smallest
  <2>2. \A t \in SUBSET s : t # s => IsSum(f, SumOf(f, t), t)
    BY <2>1 DEF SumOf
  <2> DEFINE G(t) == SumOf(f, t)[t]
             h == [t \in SUBSET s |->
                     IF t = {} THEN 0 ELSE f[Chosen(t)] + G(t \ {Chosen(t)})]
  <2>3. ASSUME NEW t \in SUBSET s, t # s
        PROVE  h[t] = G(t)
    <3>1. IsSum(f, SumOf(f, t), t)
      BY <2>2, <2>3
    <3>2. CASE t = {}
      BY <3>1, <3>2 DEF IsSum
    <3>3. CASE t # {}
      <4> DEFINE u == t \ {Chosen(t)}
      <4>1. u \in SUBSET s /\ u \subseteq t /\ u \subseteq u /\ u # s /\ IsFiniteSet(u)
        BY <2>3, <3>3, ChosenIn, FS_Subset
      <4>2. IsSum(f, SumOf(f, u), u)
        BY <2>2, <4>1
      <4>3. SumOf(f, t)[u] = SumOf(f, u)[u]
        <5> HIDE DEF u, G, h, T
        <5> QED
          BY <3>1, <4>1, <4>2, SumsAgree
      <4>4. SumOf(f, t)[t] = f[Chosen(t)] + SumOf(f, t)[u]
        BY <3>1, <3>3 DEF IsSum
      <4> QED
        BY <3>3, <4>3, <4>4
    <3> QED
      BY <3>2, <3>3
  <2>4. ASSUME NEW t \in SUBSET s, t # {}
        PROVE  h[t] = f[Chosen(t)] + h[t \ {Chosen(t)}]
    <3>1. t \ {Chosen(t)} \in SUBSET s /\ t \ {Chosen(t)} # s
      BY <2>4, ChosenIn
    <3> QED
      BY <2>3, <2>4, <3>1
  <2>5. h[{}] = 0
    OBVIOUS
  <2>6. DOMAIN h = SUBSET s /\ h = [t \in DOMAIN h |-> h[t]]
    OBVIOUS
  <2> HIDE DEF h
  <2>7. IsSum(f, h, s)
    BY <2>4, <2>5, <2>6 DEF IsSum
  <2> QED
    BY <2>7
<1> QED
  BY <1>1 DEF SumOf

\* The recursion of the total.
LEMMA TotalStep ==
  ASSUME NEW f, NEW S, IsFiniteSet(S)
  PROVE  /\ S = {} => Total(f, S) = 0
         /\ S # {} => Total(f, S) = f[Chosen(S)] + Total(f, S \ {Chosen(S)})
<1>1. IsSum(f, SumOf(f, S), S)
  BY SumExists
<1>2. CASE S = {}
  BY <1>1, <1>2, TotalUnfolds DEF IsSum
<1>3. CASE S # {}
  <2> DEFINE u == S \ {Chosen(S)}
  <2>1. u \in SUBSET S /\ IsFiniteSet(u)
    BY FS_Subset
  <2>2. SumOf(f, S)[u] = SumOf(f, u)[u]
    BY <1>1, <2>1, SumExists, SumsAgree
  <2>3. SumOf(f, S)[S] = f[Chosen(S)] + SumOf(f, S)[u]
    BY <1>1, <1>3 DEF IsSum
  <2> QED
    BY <1>3, <2>2, <2>3, TotalUnfolds
<1> QED
  BY <1>2, <1>3

\* A total of naturals is one.
LEMMA TotalNat ==
  ASSUME NEW f, NEW S, IsFiniteSet(S), \A x \in S : f[x] \in Nat
  PROVE  Total(f, S) \in Nat
<1> DEFINE T == {s \in SUBSET S : Total(f, s) \notin Nat}
<1>1. ASSUME T # {} PROVE FALSE
  <2>0. T \subseteq SUBSET S
    OBVIOUS
  <2>1. PICK s \in T : \A t \in T : t \subseteq s => t = s
    <3> HIDE DEF T
    <3> QED
      BY <1>1, <2>0, Smallest
  <2>2. IsFiniteSet(s)
    BY FS_Subset
  <2>3. s # {}
    <3>1. s = {} => Total(f, s) = 0
      BY <2>2, TotalStep
    <3> QED
      BY <3>1
  <2>4. Total(f, s) = f[Chosen(s)] + Total(f, s \ {Chosen(s)}) /\ Chosen(s) \in S
    BY <2>2, <2>3, TotalStep, ChosenIn
  <2>5. s \ {Chosen(s)} \notin T
    BY <2>1, <2>3, ChosenIn
  <2>6. Total(f, s \ {Chosen(s)}) \in Nat /\ f[Chosen(s)] \in Nat
    BY <2>4, <2>5
  <2> QED
    BY <2>4, <2>6
<1> QED
  BY <1>1

\* Any element may be taken first.
LEMMA TotalRemove ==
  ASSUME NEW f, NEW S, IsFiniteSet(S), \A x \in S : f[x] \in Nat, NEW x \in S
  PROVE  Total(f, S) = f[x] + Total(f, S \ {x})
<1> DEFINE Wrong(s) == \E y \in s : Total(f, s) # f[y] + Total(f, s \ {y})
           T == {s \in SUBSET S : Wrong(s)}
<1>1. ASSUME T # {} PROVE FALSE
  <2>0. T \subseteq SUBSET S
    OBVIOUS
  <2>1. PICK s \in T : \A t \in T : t \subseteq s => t = s
    <3> HIDE DEF T
    <3> QED
      BY <1>1, <2>0, Smallest
  <2>2. PICK y \in s : Total(f, s) # f[y] + Total(f, s \ {y})
    BY <2>1
  <2> DEFINE c == Chosen(s)
             r == (s \ {c}) \ {y}
  <2>3. IsFiniteSet(s) /\ IsFiniteSet(s \ {c}) /\ IsFiniteSet(s \ {y}) /\ IsFiniteSet(r)
    BY FS_Subset
  <2>4. c \in s /\ Total(f, s) = f[c] + Total(f, s \ {c})
    BY <2>2, <2>3, TotalStep, ChosenIn
  <2>5. y # c
    BY <2>2, <2>4
  <2>6. Total(f, s \ {c}) = f[y] + Total(f, r)
    <3>1. s \ {c} \notin T /\ s \ {c} \in SUBSET S /\ y \in s \ {c}
      BY <2>1, <2>4, <2>5
    <3> QED
      BY <3>1
  <2>7. Total(f, s \ {y}) = f[c] + Total(f, r)
    <3>1. s \ {y} \notin T /\ s \ {y} \in SUBSET S /\ c \in s \ {y}
      BY <2>1, <2>2, <2>4, <2>5
    <3>2. (s \ {y}) \ {c} = r
      OBVIOUS
    <3> QED
      BY <3>1, <3>2
  <2>8. f[c] \in Nat /\ f[y] \in Nat /\ Total(f, r) \in Nat
    BY <2>3, <2>4, TotalNat
  <2> HIDE DEF c, r
  <2> QED
    BY <2>2, <2>4, <2>6, <2>7, <2>8
<1> QED
  BY <1>1

\* The total of a disjoint union is the sum of the totals.
LEMMA TotalUnion ==
  ASSUME NEW f, NEW A, NEW B, IsFiniteSet(A), IsFiniteSet(B), A \cap B = {},
         \A x \in A \cup B : f[x] \in Nat
  PROVE  Total(f, A \cup B) = Total(f, A) + Total(f, B)
<1> DEFINE T == {s \in SUBSET A : Total(f, s \cup B) # Total(f, s) + Total(f, B)}
<1>0. Total(f, B) \in Nat
  BY TotalNat
<1>1. ASSUME T # {} PROVE FALSE
  <2>0. T \subseteq SUBSET A
    OBVIOUS
  <2>1. PICK s \in T : \A t \in T : t \subseteq s => t = s
    <3> HIDE DEF T
    <3> QED
      BY <1>1, <2>0, Smallest
  <2>2. IsFiniteSet(s) /\ IsFiniteSet(s \cup B)
    BY FS_Subset, FS_Union
  <2>3. s # {}
    <3>1. SUFFICES ASSUME s = {} PROVE FALSE
      OBVIOUS
    <3>2. s \cup B = B /\ Total(f, s) = 0
      BY <2>2, <3>1, TotalStep
    <3> DEFINE all == Total(f, s \cup B)
               left == Total(f, s)
               right == Total(f, B)
    <3>3. all = right /\ left = 0
      BY <3>2
    <3>4. all # left + right
      BY <2>1
    <3>5. right \in Nat
      BY <1>0
    <3> HIDE DEF all, left, right
    <3> QED
      BY <3>3, <3>4, <3>5
  <2>4. PICK x : x \in s
    BY <2>3
  <2> DEFINE r == s \ {x}
  <2>5. (s \cup B) \ {x} = r \cup B
    BY <2>4
  <2>6. Total(f, s \cup B) = f[x] + Total(f, r \cup B)
    BY <2>2, <2>4, <2>5, TotalRemove
  <2>7. Total(f, s) = f[x] + Total(f, r)
    BY <2>2, <2>4, TotalRemove
  <2>8. Total(f, r \cup B) = Total(f, r) + Total(f, B)
    <3>1. r \in SUBSET A /\ r \notin T
      BY <2>1, <2>4
    <3> QED
      BY <3>1
  <2>9. f[x] \in Nat /\ Total(f, r) \in Nat
    BY <2>2, <2>4, FS_Subset, TotalNat
  <2> HIDE DEF r
  <2> QED
    BY <1>0, <2>1, <2>6, <2>7, <2>8, <2>9
<1> QED
  BY <1>1

\* The totals of the parts of a set add up to the total of the set.
LEMMA TotalOfParts ==
  ASSUME NEW f, NEW S, IsFiniteSet(S), \A x \in S : f[x] \in Nat,
         NEW F, IsFiniteSet(F), NEW h, NEW K, DOMAIN K = F,
         UNION {K[s] : s \in F} = S, \A s, t \in F : s # t => K[s] \cap K[t] = {},
         \A s \in F : h[s] = Total(f, K[s])
  PROVE  Total(h, F) = Total(f, S)
<1> DEFINE Joined(E) == UNION {K[s] : s \in E}
           T == {E \in SUBSET F : Total(h, E) # Total(f, Joined(E))}
<1>0. /\ \A E \in SUBSET F : Joined(E) \subseteq S
      /\ \A s \in F : K[s] \subseteq S
  OBVIOUS
<1>2. \A E \in SUBSET F : IsFiniteSet(Joined(E)) /\ \A x \in Joined(E) : f[x] \in Nat
  BY <1>0, FS_Subset
<1>3. \A s \in F : IsFiniteSet(K[s]) /\ h[s] \in Nat
  <2> SUFFICES ASSUME NEW s \in F PROVE IsFiniteSet(K[s]) /\ Total(f, K[s]) \in Nat
    OBVIOUS
  <2>1. IsFiniteSet(K[s]) /\ \A x \in K[s] : f[x] \in Nat
    BY <1>0, FS_Subset
  <2> QED
    BY <2>1, TotalNat
<1>1. ASSUME T # {} PROVE FALSE
  <2>0. T \subseteq SUBSET F
    OBVIOUS
  <2>1. PICK E \in T : \A t \in T : t \subseteq E => t = E
    <3> HIDE DEF T
    <3> QED
      BY <1>1, <2>0, Smallest
  <2>2. IsFiniteSet(E)
    BY FS_Subset
  <2>3. E # {}
    <3>1. SUFFICES ASSUME E = {} PROVE FALSE
      OBVIOUS
    <3>2. Joined(E) = {} /\ IsFiniteSet({})
      BY <3>1, FS_EmptySet
    <3>3. Total(f, {}) = 0 /\ Total(h, {}) = 0
      BY <3>2, TotalStep
    <3> QED
      BY <2>1, <3>1, <3>2, <3>3
  <2>4. PICK s : s \in E
    BY <2>3
  <2> DEFINE D == E \ {s}
             X == K[s]
             Y == Joined(D)
  <2>5. Total(h, E) = h[s] + Total(h, D)
    BY <1>3, <2>2, <2>4, TotalRemove
  <2>6. Total(h, D) = Total(f, Y)
    <3>1. D \in SUBSET F /\ D \notin T
      BY <2>1, <2>4
    <3> QED
      BY <3>1
  <2>7. Total(f, X \cup Y) = Total(f, X) + Total(f, Y)
    <3>3. IsFiniteSet(X) /\ IsFiniteSet(Y)
      <4>1. D \in SUBSET F /\ s \in F
        BY <2>4
      <4> HIDE DEF D, Joined
      <4> QED
        BY <1>2, <1>3, <4>1
    <3>4. ASSUME NEW x, x \in X, x \in Y PROVE FALSE
      <4>1. PICK r \in D : x \in K[r]
        BY <3>4
      <4>2. r \in F /\ s \in F /\ r # s
        BY <2>4
      <4> QED
        BY <3>4, <4>1, <4>2
    <3>1. IsFiniteSet(X) /\ IsFiniteSet(Y) /\ X \cap Y = {}
      <4> HIDE DEF X, Y
      <4> QED
        BY <3>3, <3>4
    <3>2. \A x \in X \cup Y : f[x] \in Nat
      BY <1>0, <2>4
    <3> HIDE DEF X, Y
    <3> QED
      BY <3>1, <3>2, TotalUnion
  <2>8. Joined(E) = X \cup Y
    BY <2>4
  <2>9. h[s] = Total(f, X)
    BY <2>4
  <2>10. Total(h, E) # Total(f, Joined(E))
    BY <2>1
  <2> HIDE DEF D, X, Y, Joined
  <2> QED
    BY <2>5, <2>6, <2>7, <2>8, <2>9, <2>10
<1>4. Total(h, F) = Total(f, Joined(F))
  BY <1>1
<1> QED
  BY <1>4

\* Evidence, or none, that verifies on the chain as it stands.
Backed(c, e) ==
  e # None => e \in Settling!Evidence(c) /\ Settling!VerifiedOnchain(c, e)

\* The inductive invariant of the settlements: evidence that is pending or published is backed.
SettlementInv ==
  /\ now \in 0..SettlementMaxTime
  /\ transactions \in [Sigs -> {None} \cup Settling!Tx]
  /\ pending \in [Cycles -> UNION {{None} \cup Settling!Evidence(c) : c \in Cycles}]
  /\ settlements \in [Cycles -> UNION {{None} \cup Settling!Evidence(c) : c \in Cycles}]
  /\ \A c \in Cycles : Backed(c, pending[c]) /\ Backed(c, settlements[c])

\* What a set of transfers credits every owner.
LEMMA CreditsTyped ==
  ASSUME NEW ts \in SUBSET Settling!Transfers
  PROVE  Settling!Credits(ts) \in [Settling!Owners -> Nat]
<1> SUFFICES ASSUME NEW o \in Settling!Owners
             PROVE  Total(AmountOf, {t \in ts : OwnerOf[t] = o}) \in Nat
  BY DEF Settling!Credits, Total
<1>1. {t \in ts : OwnerOf[t] = o} \subseteq Intents \cup Fees
  BY DEF Settling!Transfers
<1> DEFINE T == {t \in ts : OwnerOf[t] = o}
<1> HIDE DEF T
<1>2. IsFiniteSet(T) /\ \A t \in T : AmountOf[t] \in Nat
  BY <1>1, SettlementAssumption, FS_Subset DEF T
<1>3. Total(AmountOf, T) \in Nat
  BY <1>2, TotalNat
<1> QED
  BY <1>3 DEF T

\* The invariant holds with nothing settled.
LEMMA SettlementInit ==
  ASSUME Settling!Init
  PROVE  SettlementInv
BY SettlementAssumption DEF Settling!Init, SettlementInv, Backed

\* A finalized transaction stays as it is, and with it what was verified.
LEMMA VerifiedStays ==
  ASSUME NEW c \in Cycles, NEW e \in Settling!Evidence(c), Settling!VerifiedOnchain(c, e),
         \A s \in Sigs : transactions[s] # None /\ transactions[s].state = "finalized"
                            => transactions'[s] = transactions[s]
  PROVE  Settling!VerifiedOnchain(c, e)'
<1>1. \A t \in Settling!Plan(c) : e.signature[t] \in Sigs
  BY DEF Settling!Evidence
<1>2. \A t \in Settling!Plan(c) : transactions'[e.signature[t]] = transactions[e.signature[t]]
  BY <1>1 DEF Settling!VerifiedOnchain, Settling!Reconciled
<1> QED
  BY <1>2 DEF Settling!VerifiedOnchain, Settling!Reconciled

\* The same of evidence that may be none.
LEMMA BackedStays ==
  ASSUME NEW c \in Cycles, NEW e, Backed(c, e),
         \A s \in Sigs : transactions[s] # None /\ transactions[s].state = "finalized"
                            => transactions'[s] = transactions[s]
  PROVE  Backed(c, e)'
<1>1. CASE e = None
  BY <1>1 DEF Backed
<1>2. CASE e # None
  BY <1>2, VerifiedStays DEF Backed
<1> QED
  BY <1>1, <1>2

\* The chain moves on and no finalized transaction changes; evidence that was backed before
\* the step is pending or published after it.
LEMMA EvidenceMoves ==
  ASSUME SettlementInv, now' \in 0..SettlementMaxTime,
         transactions' \in [Sigs -> {None} \cup Settling!Tx],
         \A s \in Sigs : transactions[s] # None /\ transactions[s].state = "finalized"
                            => transactions'[s] = transactions[s],
         pending' \in [Cycles -> UNION {{None} \cup Settling!Evidence(c) : c \in Cycles}],
         settlements' \in [Cycles -> UNION {{None} \cup Settling!Evidence(c) : c \in Cycles}],
         \A c \in Cycles : Backed(c, pending'[c]) /\ Backed(c, settlements'[c])
  PROVE  SettlementInv'
<1>1. ASSUME NEW c \in Cycles
      PROVE  Backed(c, pending[c])' /\ Backed(c, settlements[c])'
  <2>1. PICK e : e = pending'[c] /\ Backed(c, e)
    OBVIOUS
  <2>2. PICK f : f = settlements'[c] /\ Backed(c, f)
    OBVIOUS
  <2>3. Backed(c, e)' /\ Backed(c, f)'
    BY <2>1, <2>2, BackedStays
  <2> QED
    BY <2>1, <2>2, <2>3
<1> QED
  BY <1>1 DEF SettlementInv

\* Every step of the chain and the commands keeps the invariant (Settlement.Next).
LEMMA SettlementStep ==
  ASSUME SettlementInv, [Settling!Next]_(Settling!vars)
  PROVE  SettlementInv'
<1> DEFINE T == UNION {{None} \cup Settling!Evidence(c) : c \in Cycles}
<1>0. /\ now \in 0..SettlementMaxTime
      /\ transactions \in [Sigs -> {None} \cup Settling!Tx]
      /\ pending \in [Cycles -> T] /\ settlements \in [Cycles -> T]
      /\ \A c \in Cycles : Backed(c, pending[c]) /\ Backed(c, settlements[c])
  BY DEF SettlementInv
<1>t. \A c \in Cycles : None \in T /\ Settling!Evidence(c) \subseteq T
  OBVIOUS
<1>n. \A c \in Cycles : Backed(c, None)
  BY DEF Backed
<1> HIDE DEF T
<1>00. ASSUME now' \in 0..SettlementMaxTime,
              transactions' \in [Sigs -> {None} \cup Settling!Tx],
              \A s \in Sigs : transactions[s] # None /\ transactions[s].state = "finalized"
                                 => transactions'[s] = transactions[s],
              pending' \in [Cycles -> T], settlements' \in [Cycles -> T],
              \A c \in Cycles : Backed(c, pending'[c]) /\ Backed(c, settlements'[c])
       PROVE  SettlementInv'
  BY <1>00, EvidenceMoves DEF T
<1>1. CASE Settling!Tick
  <2>1. now' \in 0..SettlementMaxTime /\ UNCHANGED <<transactions, pending, settlements>>
    BY <1>0, <1>1, SettlementAssumption DEF Settling!Tick
  <2> QED
    BY <1>0, <1>00, <2>1
<1>2. ASSUME NEW s \in Sigs, Settling!Send(s)
      PROVE  SettlementInv'
  <2>0. PICK c \in Cycles : \E ts \in SUBSET Settling!Plan(c) \ {{}} :
          transactions' = [transactions EXCEPT ![s] =
            [state |-> "sent", credits |-> Settling!Credits(ts), at |-> None]]
    BY <1>2 DEF Settling!Send
  <2>1. PICK ts \in SUBSET Settling!Plan(c) :
          transactions' = [transactions EXCEPT ![s] =
            [state |-> "sent", credits |-> Settling!Credits(ts), at |-> None]]
    BY <2>0
  <2>2. Settling!Credits(ts) \in [Settling!Owners -> Nat]
    BY CreditsTyped DEF Settling!Plan
  <2>3. transactions' \in [Sigs -> {None} \cup Settling!Tx]
    BY <1>0, <2>1, <2>2 DEF Settling!Tx
  <2>4. transactions[s] = None /\ UNCHANGED <<now, pending, settlements>>
    BY <1>2 DEF Settling!Send
  <2>5. \A x \in Sigs : transactions[x] # None => transactions'[x] = transactions[x]
    BY <1>0, <2>1, <2>4
  <2> QED
    BY <1>0, <1>00, <2>3, <2>4, <2>5
<1>3. ASSUME NEW s \in Sigs, Settling!Land(s)
      PROVE  SettlementInv'
  <2>1. PICK st \in {"finalized", "failed"} :
          transactions' = [transactions EXCEPT ![s].state = st, ![s].at = now]
    BY <1>3 DEF Settling!Land
  <2>2. transactions' \in [Sigs -> {None} \cup Settling!Tx]
    <3>1. transactions[s] \in Settling!Tx
      BY <1>0, <1>3 DEF Settling!Land
    <3>2. [transactions[s] EXCEPT !.state = st, !.at = now] \in Settling!Tx
      BY <1>0, <3>1 DEF Settling!Tx
    <3> QED
      BY <1>0, <2>1, <3>2
  <2>3. transactions[s].state = "sent" /\ UNCHANGED <<now, pending, settlements>>
    BY <1>3 DEF Settling!Land
  <2>4. \A x \in Sigs :
          transactions[x].state = "finalized" => transactions'[x] = transactions[x]
    BY <1>0, <2>1, <2>3
  <2> QED
    BY <1>0, <1>00, <2>2, <2>3, <2>4
<1>4. ASSUME NEW c \in Cycles, Settling!VerifySettlement(c)
      PROVE  SettlementInv'
  <2>1. PICK e \in Settling!Evidence(c) :
          Settling!VerifiedOnchain(c, e) /\ pending' = [pending EXCEPT ![c] = e]
    BY <1>4 DEF Settling!VerifySettlement
  <2>2. UNCHANGED <<now, transactions, settlements>>
    BY <1>4 DEF Settling!VerifySettlement
  <2>3. Backed(c, e) /\ e \in T
    BY <1>t, <2>1 DEF Backed
  <2> QED
    BY <1>0, <1>00, <2>1, <2>2, <2>3
<1>5. ASSUME NEW c \in Cycles, Settling!Merge(c)
      PROVE  SettlementInv'
  <2>1. /\ settlements' = [settlements EXCEPT ![c] = pending[c]]
        /\ pending' = [pending EXCEPT ![c] = None] /\ UNCHANGED <<now, transactions>>
    BY <1>5 DEF Settling!Merge
  <2> QED
    BY <1>0, <1>00, <1>t, <1>n, <2>1
<1>6. ASSUME NEW c \in Cycles, Settling!ClosePullRequest(c)
      PROVE  SettlementInv'
  <2>1. /\ pending' = [pending EXCEPT ![c] = None]
        /\ UNCHANGED <<now, transactions, settlements>>
    BY <1>6 DEF Settling!ClosePullRequest
  <2> QED
    BY <1>0, <1>00, <1>t, <1>n, <2>1
<1>7. CASE UNCHANGED Settling!vars
  BY <1>0, <1>00, <1>7 DEF Settling!vars
<1> QED
  BY <1>1, <1>2, <1>3, <1>4, <1>5, <1>6, <1>7 DEF Settling!Next

\* What the invariant says of types and of what a published settlement credits.
LEMMA SettlementPaid ==
  ASSUME SettlementInv
  PROVE  Settling!TypeOK /\ Settling!PaidInFull
<1>1. Settling!TypeOK
  BY DEF SettlementInv, Backed, Settling!TypeOK
<1>2. ASSUME NEW c \in Cycles, settlements[c] # None
      PROVE  /\ \A s \in Settling!PaidBy(c) :
                  /\ transactions[s].state = "finalized"
                  /\ transactions[s].at <= settlements[c].settledAt
             /\ \A o \in Settling!Owners :
                  Settling!Credited(Settling!PaidBy(c), o)
                    = Settling!Credits(Settling!Plan(c))[o]
  <2>1. PICK e \in Settling!Evidence(c) :
          e = settlements[c] /\ Settling!VerifiedOnchain(c, e)
    BY <1>2 DEF SettlementInv, Backed
  <2>2. \A s \in Settling!PaidBy(c) :
          transactions[s].state = "finalized" /\ transactions[s].at <= settlements[c].settledAt
    BY <2>1 DEF Settling!PaidBy, Settling!VerifiedOnchain, Settling!Reconciled
  <2>3. ASSUME NEW o \in Settling!Owners
        PROVE  Settling!Credited(Settling!PaidBy(c), o) = Settling!Credits(Settling!Plan(c))[o]
    <3> DEFINE S == {t \in Settling!Plan(c) : OwnerOf[t] = o}
               F == Settling!PaidBy(c)
               h == [s \in F |-> transactions[s].credits[o]]
               p == e.signature
               K == [s \in F |-> {t \in S : p[t] = s}]
    <3>1. F = {p[t] : t \in Settling!Plan(c)}
      BY <2>1 DEF Settling!PaidBy
    <3>2. IsFiniteSet(Settling!Plan(c))
      BY SettlementAssumption, FS_Subset DEF Settling!Plan, Settling!Transfers
    <3>3. IsFiniteSet(F)
      <4> DEFINE named == [t \in Settling!Plan(c) |-> p[t]]
      <4>1. named \in Surjection(Settling!Plan(c), F)
        BY <3>1 DEF Surjection
      <4> QED
        BY <3>2, <4>1, FS_Surjection
    <3>4. IsFiniteSet(S) /\ \A t \in S : AmountOf[t] \in Nat
      BY <3>2, SettlementAssumption, FS_Subset DEF Settling!Plan, Settling!Transfers
    <3>5. ASSUME NEW s \in F
          PROVE  h[s] = Total(AmountOf, K[s])
      <4>1. PICK t \in Settling!Plan(c) : s = p[t]
        BY <3>1
      <4>2. transactions[s].credits = Settling!Credits(Settling!Attempt(c, e, t))
        BY <2>1, <4>1 DEF Settling!VerifiedOnchain, Settling!Reconciled
      <4>3. {u \in Settling!Attempt(c, e, t) : OwnerOf[u] = o} = K[s]
        BY <4>1 DEF Settling!Attempt
      <4>4. Settling!Credits(Settling!Attempt(c, e, t))[o]
              = Total(AmountOf, {u \in Settling!Attempt(c, e, t) : OwnerOf[u] = o})
        BY DEF Settling!Credits, Total
      <4> QED
        BY <4>2, <4>3, <4>4
    <3>6. /\ DOMAIN K = F /\ UNION {K[s] : s \in F} = S
          /\ \A s, t \in F : s # t => K[s] \cap K[t] = {}
      <4> HIDE DEF F, p
      <4>1. \A s \in F : K[s] = {t \in S : p[t] = s}
        OBVIOUS
      <4>2. \A t \in S : p[t] \in F
        BY <3>1
      <4>3. DOMAIN K = F
        OBVIOUS
      <4> HIDE DEF K, S
      <4>4. UNION {K[s] : s \in F} \subseteq S
        BY <4>1
      <4>5. S \subseteq UNION {K[s] : s \in F}
        <5> SUFFICES ASSUME NEW t \in S PROVE \E s \in F : t \in K[s]
          OBVIOUS
        <5> QED
          BY <4>1, <4>2
      <4> QED
        BY <4>1, <4>3, <4>4, <4>5
    <3>7. Total(h, F) = Total(AmountOf, S)
      <4>1. \A s \in F : h[s] = Total(AmountOf, K[s])
        BY <3>5
      <4> HIDE DEF h, S, F, p, K
      <4> QED
        BY <3>3, <3>4, <3>6, <4>1, TotalOfParts
    <3> QED
      BY <3>7 DEF Settling!Credited, Settling!Credits, Total
  <2> QED
    BY <2>2, <2>3
<1> QED
  BY <1>1, <1>2 DEF Settling!PaidInFull

-----------------------------------------------------------------------------
(*****************************************************************************)
(* Funding merges (FundingMerge)                                             *)
(*****************************************************************************)

\* The calls of a run from the decision on, and from the first look at the pull request on.
Decided == {"pull", "authority", "pull again", "authority again", "clean", "sent", "merged",
            "dispatch"}
\* The calls after the first look at the pull request.
OnBase == Decided \ {"pull"}

\* A run.
RunShape ==
  [pc: {"idle", "queued", "next", "fetched", "decided"} \cup Decided,
   base: 1..(MaxMerges + 1), todo: [PRs -> {None} \cup Funding!Revision],
   pr: {None} \cup PRs, head: {None} \cup Funding!Revision,
   verdict: {None, "verified", "human", "failed"}, checkedAt: {None} \cup 0..FundingMaxTime,
   age: Int, eased: BOOLEAN, merged: {None} \cup 1..(MaxMerges + 1)]

\* A head was verified over a base: what Verdicts asked.
VerifiedOver(base, h) ==
  LET added == (develop[h.on].records \cup h.adds) \ develop[base].records
  IN  /\ base <= h.on /\ ~h.other /\ develop[h.on].others = develop[base].others
      /\ added # {} /\ added \subseteq Genuine
      /\ \A r \in added, s \in develop[base].records : TxOf[r] # TxOf[s]

\* Commit i is the merge of a head.
IsMerge(i, h) ==
  /\ i \in 2..Len(develop)
  /\ develop[i].records = develop[i - 1].records \cup h.adds
  /\ develop[i].others = (develop[i - 1].others # h.other)

\* Commit i adds confirmed records of new transactions and nothing else.
CleanCommit(i) ==
  LET new == develop[i].records \ develop[i - 1].records
  IN  /\ i \in 2..Len(develop)
      /\ new # {} /\ new \subseteq Genuine
      /\ develop[i].others = develop[i - 1].others
      /\ \A r \in new, s \in develop[i - 1].records : TxOf[r] # TxOf[s]

\* What a run knows at each of its calls.
RunKnows(r) ==
  /\ r.base <= Len(develop)
  /\ \A p \in PRs : r.todo[p] # None => r.todo[p].on <= Len(develop)
  /\ r.merged # None => r.merged <= Len(develop)
  /\ r.pc \in {"fetched", "decided"} \cup Decided =>
       r.pr \in PRs /\ r.head # None /\ r.head.on <= Len(develop)
  /\ r.pc \in {"decided"} \cup Decided => r.checkedAt \in 0..FundingMaxTime
  /\ r.pc = "decided" /\ r.verdict = "verified" => VerifiedOver(r.base, r.head)
  /\ r.pc \in Decided => VerifiedOver(r.base, r.head)
  /\ r.pc \in OnBase => r.head.on = r.base
  /\ r.pc \in {"clean", "sent"} => r.eased \/ strict
  /\ r.pc = "sent" => r.age <= DecisionLife
  /\ r.pc \in {"merged", "dispatch"} =>
       IsMerge(r.merged, r.head) /\ \E m \in botMerges : m.commit = r.merged
  /\ r.pc = "dispatch" => r.merged - 1 = r.base

\* The part's variables.
FundingTyped ==
  /\ now \in 0..FundingMaxTime /\ strict \in BOOLEAN /\ runs \in 0..MaxRuns
  /\ pushes \in 0..MaxPushes
  /\ develop \in Seq(Funding!Tree) /\ Len(develop) \in 1..(MaxMerges + 1)
  /\ pulls \in [PRs -> {None} \cup Funding!Pull]
  /\ run \in RunShape

\* No head rests on a commit that is not there yet.
HeadsRest == \A p \in PRs : pulls[p] # None => pulls[p].head.on <= Len(develop)

\* What a run merged under strict status checks is confirmed records and nothing else.
BotMergesClean ==
  \A m \in botMerges :
    /\ m.age <= DecisionLife /\ m.commit \in 2..Len(develop) /\ m.eased \in BOOLEAN
    /\ ~m.eased => CleanCommit(m.commit)

\* A run dispatched the workflow only after a merge of the runs that adds nothing else.
DispatchedClean ==
  \A i \in dispatched : CleanCommit(i) /\ \E m \in botMerges : m.commit = i

\* The inductive invariant of the funding merges: what a run knows at each call is what makes
\* its merge clean.
FundingInv ==
  FundingTyped /\ HeadsRest /\ RunKnows(run) /\ BotMergesClean /\ DispatchedClean

\* The fields of a run.
LEMMA RunFields ==
  ASSUME NEW r \in RunShape
  PROVE  /\ r.pc \in {"idle", "queued", "next", "fetched", "decided"} \cup Decided
         /\ r.base \in 1..(MaxMerges + 1) /\ r.todo \in [PRs -> {None} \cup Funding!Revision]
         /\ r.pr \in {None} \cup PRs /\ r.head \in {None} \cup Funding!Revision
         /\ r.verdict \in {None, "verified", "human", "failed"}
         /\ r.checkedAt \in {None} \cup 0..FundingMaxTime /\ r.age \in Int
         /\ r.eased \in BOOLEAN /\ r.merged \in {None} \cup 1..(MaxMerges + 1)
BY DEF RunShape

\* The fields of a head.
LEMMA RevisionFields ==
  ASSUME NEW h \in Funding!Revision
  PROVE  h.on \in 1..(MaxMerges + 1) /\ h.adds \in SUBSET Records /\ h.other \in BOOLEAN
BY DEF Funding!Revision

\* The fields of a pull request.
LEMMA PullFields ==
  ASSUME NEW p \in Funding!Pull
  PROVE  /\ p.state \in {"open", "merged"} /\ p.head \in Funding!Revision
         /\ p.base \in 1..(MaxMerges + 1) /\ p.checked \in BOOLEAN
BY DEF Funding!Pull

\* The fields of a tree of develop.
LEMMA TreeFields ==
  ASSUME NEW t \in Funding!Tree
  PROVE  t.records \in SUBSET Records /\ t.others \in BOOLEAN
BY DEF Funding!Tree

\* A run that has not begun.
LEMMA NoRunKnows ==
  /\ Funding!NoRun \in RunShape
  /\ Funding!NoRun.pc = "idle" /\ Funding!NoRun.base = 1
  /\ Funding!NoRun.todo = [p \in PRs |-> None] /\ Funding!NoRun.merged = None
BY FundingAssumption DEF Funding!NoRun, RunShape

\* The invariant holds before the first run.
LEMMA FundingInit ==
  ASSUME Funding!Init
  PROVE  FundingInv
<1>1. FundingTyped /\ Len(develop) = 1
  <2>1. PICK o \in BOOLEAN : develop = <<[records |-> {}, others |-> o]>>
    BY DEF Funding!Init
  <2>2. develop \in Seq(Funding!Tree) /\ Len(develop) = 1
    BY <2>1 DEF Funding!Tree
  <2> QED
    BY <2>2, NoRunKnows, FundingAssumption DEF Funding!Init, FundingTyped
<1>2. RunKnows(run)
  BY <1>1, NoRunKnows DEF Funding!Init, RunKnows, Decided, OnBase
<1>3. HeadsRest /\ BotMergesClean /\ DispatchedClean
  BY DEF Funding!Init, HeadsRest, BotMergesClean, DispatchedClean
<1> QED
  BY <1>1, <1>2, <1>3 DEF FundingInv

\* A commit on top changes nothing below it.
LEMMA CommitsLast ==
  ASSUME FundingInv, NEW t \in Funding!Tree, develop' = Append(develop, t),
         Len(develop) <= MaxMerges
  PROVE  /\ develop' \in Seq(Funding!Tree) /\ Len(develop') \in 1..(MaxMerges + 1)
         /\ Len(develop') = Len(develop) + 1 /\ develop'[Len(develop')] = t
         /\ \A i \in 1..Len(develop) : develop'[i] = develop[i]
         /\ \A base \in 1..Len(develop), h \in Funding!Revision :
              h.on <= Len(develop) /\ VerifiedOver(base, h) => VerifiedOver(base, h)'
         /\ \A i, h : IsMerge(i, h) => IsMerge(i, h)'
         /\ \A i : CleanCommit(i) => CleanCommit(i)'
<1>1. /\ develop' \in Seq(Funding!Tree) /\ Len(develop') \in 1..(MaxMerges + 1)
      /\ Len(develop') = Len(develop) + 1 /\ develop'[Len(develop')] = t
      /\ \A i \in 1..Len(develop) : develop'[i] = develop[i]
      /\ Len(develop) \in Nat
  BY FundingAssumption DEF FundingInv, FundingTyped
<1>2. ASSUME NEW base \in 1..Len(develop), NEW h \in Funding!Revision, h.on <= Len(develop),
             VerifiedOver(base, h)
      PROVE  VerifiedOver(base, h)'
  <2>1. develop'[h.on] = develop[h.on] /\ develop'[base] = develop[base]
    BY <1>1, <1>2, RevisionFields
  <2> QED
    BY <1>2, <2>1 DEF VerifiedOver
<1>3. ASSUME NEW i \in 2..Len(develop)
      PROVE  /\ develop'[i] = develop[i] /\ develop'[i - 1] = develop[i - 1]
             /\ i \in 2..Len(develop')
  BY <1>1
<1>4. \A i, h : IsMerge(i, h) => IsMerge(i, h)'
  BY <1>3 DEF IsMerge
<1>5. \A i : CleanCommit(i) => CleanCommit(i)'
  BY <1>3 DEF CleanCommit
<1> QED
  BY <1>1, <1>2, <1>4, <1>5

\* The run moves and nothing else does.
LEMMA RunMoves ==
  ASSUME FundingInv, NEW r \in RunShape, RunKnows(r), run' = r,
         runs' \in 0..MaxRuns, UNCHANGED <<now, develop, pulls, pushes, botMerges>>,
         strict' \in BOOLEAN, r.pc \in {"clean", "sent"} => r.eased \/ strict',
         DispatchedClean'
  PROVE  FundingInv'
<1>0. RunShape' = RunShape
  BY DEF RunShape, Decided
<1>1. FundingTyped'
  BY <1>0 DEF FundingInv, FundingTyped
<1>2. RunKnows(r)'
  BY DEF RunKnows, VerifiedOver, IsMerge
<1>3. HeadsRest' /\ BotMergesClean'
  BY DEF FundingInv, HeadsRest, BotMergesClean, CleanCommit
<1> QED
  BY <1>1, <1>2, <1>3 DEF FundingInv, RunKnows

\* Another candidate is tried.
LEMMA NextCandidateKeeps ==
  ASSUME FundingInv, Funding!NextCandidate,
         UNCHANGED <<now, develop, strict, pulls, pushes, runs, botMerges, dispatched>>
  PROVE  FundingInv'
<1> DEFINE r == [run EXCEPT !.pc = "next", !.todo[run.pr] = None]
<1>1. r \in RunShape
  BY DEF FundingInv, FundingTyped, RunShape
<1>2. /\ r.pc = "next" /\ r.base = run.base /\ r.merged = run.merged
      /\ \A p \in PRs : r.todo[p] # None => r.todo[p] = run.todo[p]
  BY DEF FundingInv, FundingTyped, RunShape
<1>3. run' = r
  BY DEF Funding!NextCandidate
<1> HIDE DEF r
<1>4. RunKnows(r)
  BY <1>2 DEF FundingInv, RunKnows, Decided, OnBase
<1>5. DispatchedClean' /\ runs' \in 0..MaxRuns
  BY DEF FundingInv, FundingTyped, DispatchedClean, CleanCommit
<1> QED
  BY <1>1, <1>2, <1>3, <1>4, <1>5, RunMoves DEF FundingInv, FundingTyped

\* GitHub merges the head of a pull request.
LEMMA MergeLands ==
  ASSUME FundingInv, NEW p \in PRs, Funding!Mergeable(p), Funding!MergePull(p),
         NEW h, NEW n, h = pulls[p].head, n = Len(develop)
  PROVE  /\ Funding!Merged(h) \in Funding!Tree
         /\ pulls' \in [PRs -> {None} \cup Funding!Pull] /\ HeadsRest'
         /\ develop' = Append(develop, Funding!Merged(h)) /\ Len(develop) <= MaxMerges
         /\ h \in Funding!Revision /\ h.on <= n /\ n \in Nat
         /\ IsMerge(n + 1, h)'
<1>1. pulls[p] \in Funding!Pull /\ pulls[p] # None
  BY DEF Funding!Mergeable, Funding!Open, FundingInv, FundingTyped
<1>2. h \in Funding!Revision /\ h.on <= n /\ n \in Nat
  BY <1>1, PullFields DEF FundingInv, HeadsRest
<1>3. develop[Len(develop)] \in Funding!Tree /\ Len(develop) \in 1..(MaxMerges + 1)
  BY DEF FundingInv, FundingTyped
<1>4. Funding!Merged(h) \in Funding!Tree
  BY <1>2, <1>3, RevisionFields, TreeFields DEF Funding!Merged, Funding!Tree, Funding!Tip
<1>5. develop' = Append(develop, Funding!Merged(h)) /\ Len(develop) <= MaxMerges
  BY DEF Funding!MergePull, Funding!Tip
<1>6. pulls' \in [PRs -> {None} \cup Funding!Pull]
  BY <1>1 DEF Funding!MergePull, FundingInv, FundingTyped, Funding!Pull
<1>7. \A q \in PRs : pulls'[q] # None => pulls[q] # None /\ pulls'[q].head = pulls[q].head
  BY <1>1 DEF Funding!MergePull, FundingInv, FundingTyped, Funding!Pull
<1>8. Len(develop') = Len(develop) + 1 /\ develop'[Len(develop) + 1] = Funding!Merged(h)
      /\ develop'[Len(develop)] = develop[Len(develop)]
  BY <1>3, <1>4, <1>5, CommitsLast
<1>9. HeadsRest'
  <2> SUFFICES ASSUME NEW q \in PRs, pulls'[q] # None PROVE pulls'[q].head.on <= Len(develop')
    BY DEF HeadsRest
  <2>1. pulls[q].head.on <= Len(develop) /\ pulls[q].head.on \in Int
    BY <1>7, PullFields, RevisionFields DEF FundingInv, FundingTyped, HeadsRest
  <2> QED
    BY <2>1, <1>3, <1>7, <1>8
<1>10. IsMerge(n + 1, h)'
  <2>1. n + 1 \in 2..Len(develop') /\ develop'[n + 1 - 1] = develop[n]
    BY <1>2, <1>3, <1>8
  <2> QED
    BY <1>8, <2>1 DEF IsMerge, Funding!Merged, Funding!Tip
<1> QED
  BY <1>2, <1>4, <1>5, <1>6, <1>9, <1>10

\* The pull requests change, or time passes.
LEMMA OthersMove ==
  ASSUME FundingInv, UNCHANGED <<develop, strict, run, runs, botMerges, dispatched>>,
         now' \in 0..FundingMaxTime, pushes' \in 0..MaxPushes,
         pulls' \in [PRs -> {None} \cup Funding!Pull], HeadsRest'
  PROVE  FundingInv'
<1>1. RunShape' = RunShape
  BY DEF RunShape, Decided
<1>2. FundingTyped'
  BY <1>1 DEF FundingInv, FundingTyped
<1>3. RunKnows(run)' /\ BotMergesClean' /\ DispatchedClean'
  BY SMTT(30)
  DEF FundingInv, RunKnows, VerifiedOver, IsMerge, BotMergesClean, DispatchedClean, CleanCommit
<1> QED
  BY <1>2, <1>3 DEF FundingInv

\* A commit lands on develop: the run and the merges before it keep what they know.
LEMMA CommitKeeps ==
  ASSUME FundingInv, NEW t \in Funding!Tree, develop' = Append(develop, t),
         Len(develop) <= MaxMerges, botMerges \subseteq botMerges'
  PROVE  /\ \A r \in RunShape :
              RunKnows(r) /\ (r.pc \in {"clean", "sent"} => r.eased \/ strict')
                => RunKnows(r)'
         /\ \A m \in botMerges :
              /\ m.age <= DecisionLife /\ m.commit \in 2..Len(develop') /\ m.eased \in BOOLEAN
              /\ ~m.eased => CleanCommit(m.commit)'
         /\ \A i \in dispatched : CleanCommit(i)' /\ \E m \in botMerges' : m.commit = i
<1>1. Len(develop) \in Nat /\ Len(develop') = Len(develop) + 1
  BY CommitsLast DEF FundingInv, FundingTyped
<1>2. ASSUME NEW r \in RunShape, RunKnows(r), r.pc \in {"clean", "sent"} => r.eased \/ strict'
      PROVE  RunKnows(r)'
  <2>1. r.base \in Nat /\ r.base <= Len(develop')
    BY <1>1, <1>2, RunFields DEF RunKnows
  <2>2. \A p \in PRs : r.todo[p] # None => r.todo[p].on <= Len(develop')
    <3> SUFFICES ASSUME NEW p \in PRs, r.todo[p] # None PROVE r.todo[p].on <= Len(develop')
      OBVIOUS
    <3>1. r.todo[p] \in Funding!Revision
      BY RunFields
    <3> QED
      BY <1>1, <1>2, <3>1, RevisionFields DEF RunKnows
  <2>3. r.pc \in {"fetched", "decided"} \cup Decided =>
          /\ r.pr \in PRs /\ r.head # None /\ r.head \in Funding!Revision
          /\ r.head.on <= Len(develop) /\ r.head.on <= Len(develop')
    BY <1>1, <1>2, RunFields, RevisionFields DEF RunKnows
  <2>4. r.pc \in {"fetched", "decided"} \cup Decided /\ VerifiedOver(r.base, r.head)
          => VerifiedOver(r.base, r.head)'
    BY <1>2, <2>1, <2>3, CommitsLast, RunFields DEF RunKnows
  <2>5. IsMerge(r.merged, r.head) => IsMerge(r.merged, r.head)'
    BY CommitsLast
  <2>6. r.merged # None => r.merged <= Len(develop')
    BY <1>1, <1>2, RunFields DEF RunKnows
  <2> QED
    BY <1>2, <2>1, <2>2, <2>3, <2>4, <2>5, <2>6 DEF RunKnows, Decided
<1>3. \A m \in botMerges :
        /\ m.age <= DecisionLife /\ m.commit \in 2..Len(develop') /\ m.eased \in BOOLEAN
        /\ ~m.eased => CleanCommit(m.commit)'
  BY <1>1, CommitsLast DEF FundingInv, BotMergesClean
<1>4. \A i \in dispatched : CleanCommit(i)' /\ \E m \in botMerges' : m.commit = i
  BY CommitsLast DEF FundingInv, DispatchedClean
<1> QED
  BY <1>2, <1>3, <1>4

\* What Verdicts calls verified is so.
LEMMA VerdictsMean ==
  ASSUME FundingInv, run.pc = "fetched", NEW v \in Funding!Verdicts
  PROVE  /\ v \in {"verified", "human", "failed"}
         /\ v = "verified" => VerifiedOver(run.base, run.head)
<1>1. run.head \in Funding!Revision /\ run.base \in 1..(MaxMerges + 1)
  BY RunFields DEF FundingInv, FundingTyped, RunKnows
<1>2. run.head.on \in Int
  BY <1>1, RevisionFields
<1>3. v \in {"verified", "human", "failed"}
  BY DEF Funding!Verdicts
<1>4. ASSUME v = "verified" PROVE VerifiedOver(run.base, run.head)
  <2>1. /\ ~(run.head.on < run.base) /\ Funding!OnlyRecords /\ Funding!Added # {}
        /\ Funding!NewTransactions /\ Funding!Added \subseteq Genuine
    BY <1>4 DEF Funding!Verdicts
  <2> QED
    BY <1>1, <1>2, <2>1
    DEF VerifiedOver, Funding!OnlyRecords, Funding!NewTransactions, Funding!Added
<1> QED
  BY <1>3, <1>4

\* A merge of a head verified over the commit below it is clean.
LEMMA CleanMerge ==
  ASSUME NEW n \in Nat, NEW h \in Funding!Revision, develop'[n] \in Funding!Tree,
         IsMerge(n + 1, h)', h.on = n, VerifiedOver(n, h)'
  PROVE  CleanCommit(n + 1)'
<1>1. /\ n + 1 \in 2..Len(develop') /\ n + 1 - 1 = n
      /\ develop'[n + 1].records \ develop'[n].records
           = (develop'[h.on].records \cup h.adds) \ develop'[n].records
  BY DEF IsMerge
<1>2. develop'[n + 1].others = develop'[n].others
  <2>1. /\ develop'[n].others \in BOOLEAN /\ h.other \in BOOLEAN /\ ~h.other
    BY TreeFields, RevisionFields DEF VerifiedOver
  <2>2. develop'[n + 1].others = (develop'[n].others # h.other)
    BY <1>1 DEF IsMerge
  <2> QED
    BY <2>1, <2>2, Zenon
<1> QED
  BY <1>1, <1>2 DEF VerifiedOver, CleanCommit

\* The run is over.
LEMMA RunEnds ==
  ASSUME FundingInv, run' = Funding!NoRun, DispatchedClean',
         UNCHANGED <<now, develop, strict, pulls, pushes, runs, botMerges>>
  PROVE  FundingInv'
<1> DEFINE r == Funding!NoRun
<1>1. /\ r \in RunShape /\ r.pc = "idle" /\ r.base = 1 /\ r.merged = None
      /\ \A p \in PRs : r.todo[p] = None
  BY NoRunKnows
<1>2. run' = r
  OBVIOUS
<1> HIDE DEF r
<1>3. r.pc \notin {"fetched", "decided", "clean", "sent", "merged", "dispatch"} \cup Decided
      /\ r.pc \notin OnBase /\ r.base <= Len(develop)
  BY <1>1 DEF Decided, OnBase, FundingInv, FundingTyped
<1>4. RunKnows(r)
  BY <1>1, <1>3 DEF RunKnows
<1> QED
  BY <1>1, <1>2, <1>3, <1>4, RunMoves DEF FundingInv, FundingTyped

\* Commits that stay keep the merges before a dispatch clean.
LEMMA DispatchedKept ==
  ASSUME FundingInv, UNCHANGED <<develop, botMerges, dispatched>>
  PROVE  DispatchedClean'
BY DEF FundingInv, DispatchedClean, CleanCommit

\* Between the base and the tip there is nothing when they are one commit.
LEMMA HeadOnBase ==
  ASSUME FundingInv, run.pc = "pull", Len(develop) = run.base
  PROVE  run.head.on = run.base
<1>1. run.head \in Funding!Revision /\ run.head.on <= Len(develop) /\ run.base <= run.head.on
      /\ run.base \in 1..(MaxMerges + 1)
  BY RunFields DEF FundingInv, FundingTyped, RunKnows, VerifiedOver, Decided
<1>2. run.head.on \in 1..(MaxMerges + 1)
  BY <1>1, RevisionFields
<1> QED
  BY <1>1, <1>2, FundingAssumption

\* A guard of the decided head passes.
LEMMA GuardPasses ==
  ASSUME FundingInv, run.pc \in Decided, NEW next \in Decided,
         next \in {"authority", "pull again", "authority again", "clean"},
         run.pc \in OnBase \/ (run.pc = "pull" /\ Len(develop) = run.base),
         next = "clean" => strict, run' = [run EXCEPT !.pc = next],
         UNCHANGED <<now, develop, strict, pulls, pushes, runs, botMerges, dispatched>>
  PROVE  FundingInv'
<1> DEFINE r == [run EXCEPT !.pc = next]
<1>0. run \in RunShape /\ RunKnows(run) /\ runs \in 0..MaxRuns /\ strict \in BOOLEAN
      /\ Len(develop) \in 1..(MaxMerges + 1)
  BY DEF FundingInv, FundingTyped
<1>1. /\ r \in RunShape /\ r.pc = next /\ r.base = run.base /\ r.todo = run.todo
      /\ r.merged = run.merged
      /\ r.pr = run.pr /\ r.head = run.head /\ r.checkedAt = run.checkedAt
  BY <1>0 DEF RunShape
<1> HIDE DEF r
<1>2. run.head.on = run.base
  <2>1. CASE run.pc \in OnBase
    BY <1>0, <2>1 DEF RunKnows
  <2>2. CASE run.pc = "pull" /\ Len(develop) = run.base
    BY <2>2, HeadOnBase
  <2> QED
    BY <2>1, <2>2
<1>3. RunKnows(r)
  BY <1>0, <1>1, <1>2 DEF RunKnows, Decided, OnBase
<1> QED
  BY <1>0, <1>1, <1>3, DispatchedKept, RunMoves DEF r

\* Every step of the runs, the contributors and GitHub keeps the invariant (FundingMerge.Next).
LEMMA FundingStep ==
  ASSUME FundingInv, [Funding!Next]_(Funding!vars)
  PROVE  FundingInv'
<1>0. /\ run \in RunShape /\ RunKnows(run) /\ runs \in 0..MaxRuns /\ strict \in BOOLEAN
      /\ Len(develop) \in 1..(MaxMerges + 1) /\ pulls \in [PRs -> {None} \cup Funding!Pull]
      /\ now \in 0..FundingMaxTime /\ pushes \in 0..MaxPushes /\ HeadsRest
  BY DEF FundingInv, FundingTyped
<1>00. (UNCHANGED <<develop, botMerges, dispatched>>) => DispatchedClean'
  BY DispatchedKept
<1>1. CASE Funding!Tick
  BY <1>0, <1>1, OthersMove, FundingAssumption
  DEF Funding!Tick, Funding!repository, Funding!outcome, HeadsRest
<1>2. CASE Funding!ChangeProtection
  <2> DEFINE e == run.eased \/ (run.pc \in {"clean", "sent"} /\ strict)
             r == [run EXCEPT !.eased = e]
  <2>1. run' = r
    BY <1>2 DEF Funding!ChangeProtection
  <2>2. e \in BOOLEAN /\ (~e /\ run.pc \in {"clean", "sent"} => ~strict)
    OBVIOUS
  <2> HIDE DEF e
  <2>3. /\ r \in RunShape /\ r.pc = run.pc /\ r.base = run.base /\ r.todo = run.todo
        /\ r.merged = run.merged
        /\ r.pr = run.pr /\ r.head = run.head /\ r.verdict = run.verdict
        /\ r.checkedAt = run.checkedAt /\ r.age = run.age
        /\ r.eased = e
    BY <1>0, <2>2 DEF RunShape
  <2> HIDE DEF r
  <2>4. run.pc \in {"clean", "sent"} => e \/ strict
    BY <1>0 DEF RunKnows, e
  <2>5. RunKnows(r) /\ (r.pc \in {"clean", "sent"} => r.eased \/ ~strict)
    BY <1>0, <2>2, <2>3, <2>4 DEF RunKnows
  <2>6. UNCHANGED <<now, develop, pulls, pushes, runs, botMerges, dispatched>>
    BY <1>2 DEF Funding!ChangeProtection, Funding!outcome
  <2>7. strict' \in BOOLEAN /\ (r.pc \in {"clean", "sent"} => r.eased \/ strict')
    <3>1. strict' = ~strict
      BY <1>2 DEF Funding!ChangeProtection
    <3> QED
      BY <2>5, <3>1
  <2> QED
    BY <1>0, <1>00, <2>1, <2>3, <2>5, <2>6, <2>7, RunMoves
<1>3. ASSUME NEW p \in PRs, Funding!Push(p)
      PROVE  FundingInv'
  <2>1. PICK h \in Funding!Revision :
          /\ h.on <= Len(develop)
          /\ pulls' = [pulls EXCEPT ![p] =
               [state |-> "open", head |-> h, base |-> Len(develop), checked |-> FALSE]]
    BY <1>3 DEF Funding!Push, Funding!Tip
  <2>2. pulls' \in [PRs -> {None} \cup Funding!Pull]
    BY <1>0, <2>1 DEF Funding!Pull
  <2>3. HeadsRest'
    BY <1>0, <1>3, <2>1 DEF HeadsRest, Funding!Push
  <2>4. pushes' \in 0..MaxPushes
    BY <1>0, <1>3, FundingAssumption DEF Funding!Push
  <2> QED
    BY <1>0, <1>3, <2>2, <2>3, <2>4, OthersMove DEF Funding!Push, Funding!outcome
<1>4. ASSUME NEW p \in PRs, Funding!QualityPasses(p)
      PROVE  FundingInv'
  <2>1. /\ pulls[p] \in Funding!Pull /\ pulls[p] # None
        /\ pulls' = [pulls EXCEPT ![p].checked = TRUE]
    BY <1>0, <1>4 DEF Funding!QualityPasses, Funding!Open
  <2>2. pulls' \in [PRs -> {None} \cup Funding!Pull]
    BY <1>0, <2>1 DEF Funding!Pull
  <2>3. \A q \in PRs : pulls'[q] # None => pulls[q] # None /\ pulls'[q].head = pulls[q].head
    BY <1>0, <2>1 DEF Funding!Pull
  <2>4. HeadsRest'
    BY <1>0, <1>4, <2>3 DEF HeadsRest, Funding!QualityPasses
  <2> QED
    BY <1>0, <1>4, <2>2, <2>4, OthersMove DEF Funding!QualityPasses, Funding!outcome
<1>5. ASSUME NEW p \in PRs, Funding!PersonMerges(p)
      PROVE  FundingInv'
  <2>1. PICK h, n : h = pulls[p].head /\ n = Len(develop)
    OBVIOUS
  <2>2. UNCHANGED <<now, strict, pushes, run, runs, botMerges, dispatched>>
    BY <1>5 DEF Funding!PersonMerges, Funding!outcome
  <2>3. /\ Funding!Merged(h) \in Funding!Tree /\ develop' = Append(develop, Funding!Merged(h))
        /\ Len(develop) <= MaxMerges /\ pulls' \in [PRs -> {None} \cup Funding!Pull]
        /\ HeadsRest'
    BY <1>5, <2>1, MergeLands DEF Funding!PersonMerges
  <2>4. RunKnows(run)' /\ BotMergesClean' /\ DispatchedClean'
    <3>1. \A r \in RunShape : RunKnows(r) /\ (r.pc \in {"clean", "sent"} => r.eased \/ strict')
                => RunKnows(r)'
      BY <2>2, <2>3, CommitKeeps
    <3>2. RunKnows(run)'
      <4>1. PICK r \in RunShape : r = run
        BY <1>0
      <4>2. RunKnows(r)'
        BY <1>0, <2>2, <3>1, <4>1 DEF RunKnows
      <4> QED
        BY <2>2, <4>1, <4>2 DEF RunKnows
    <3> QED
      BY <2>2, <2>3, <3>2, CommitKeeps DEF BotMergesClean, DispatchedClean
  <2>5. FundingTyped'
    <3>1. RunShape' = RunShape
      BY DEF RunShape, Decided
    <3> QED
      BY <1>0, <2>2, <2>3, <3>1, CommitsLast DEF FundingTyped
  <2> QED
    BY <2>3, <2>4, <2>5 DEF FundingInv
<1>6. ASSUME NEW p \in PRs, Funding!Fetch(p)
      PROVE  FundingInv'
  <2>1. run.pc = "next" /\ run.todo[p] # None /\ run.todo[p] \in Funding!Revision
        /\ UNCHANGED <<now, develop, strict, pulls, pushes, runs, botMerges, dispatched>>
    BY <1>0, <1>6, RunFields DEF Funding!Fetch, Funding!repository, Funding!outcome
  <2>2. CASE run' = [run EXCEPT !.pc = "fetched", !.pr = p, !.head = run.todo[p]]
    <3> DEFINE r == [run EXCEPT !.pc = "fetched", !.pr = p, !.head = run.todo[p]]
    <3>1. /\ r \in RunShape /\ r.pc = "fetched" /\ r.base = run.base /\ r.todo = run.todo
          /\ r.merged = run.merged
          /\ r.pr = p /\ r.head = run.todo[p]
      BY <1>0, <2>1 DEF RunShape
    <3> HIDE DEF r
    <3>2. RunKnows(r)
      BY <1>0, <2>1, <3>1 DEF RunKnows, Decided, OnBase
    <3>3. run' = r
      BY <2>2 DEF r
    <3>4. DispatchedClean' /\ runs' = runs /\ strict' = strict
      BY <1>00, <2>1
    <3> QED
      BY <1>0, <2>1, <3>1, <3>2, <3>3, <3>4, RunMoves
  <2>3. CASE run' = [run EXCEPT !.todo[p] = None]
    <3> DEFINE r == [run EXCEPT !.todo[p] = None]
    <3>1. /\ r \in RunShape /\ r.pc = "next" /\ r.base = run.base /\ r.merged = run.merged
          /\ \A q \in PRs : r.todo[q] # None => r.todo[q] = run.todo[q]
      BY <1>0, <2>1 DEF RunShape
    <3> HIDE DEF r
    <3>2. RunKnows(r)
      BY <1>0, <2>1, <3>1 DEF RunKnows, Decided, OnBase
    <3>3. run' = r
      BY <2>3 DEF r
    <3>4. DispatchedClean' /\ runs' = runs /\ strict' = strict
      BY <1>00, <2>1
    <3> QED
      BY <1>0, <2>1, <3>1, <3>2, <3>3, <3>4, RunMoves
  <2> QED
    BY <1>6, <2>2, <2>3 DEF Funding!Fetch
<1>7. CASE Funding!Trigger
  <2> DEFINE Queued(n) == [n EXCEPT !.pc = "queued", !.base = Len(develop)]
             r == Queued(Funding!NoRun)
  <2>0. Len(develop) \in 1..(MaxMerges + 1)
    BY <1>0
  <2>1. /\ r \in RunShape /\ r.pc = "queued" /\ r.base = Len(develop) /\ r.merged = None
        /\ \A p \in PRs : r.todo[p] = None
    <3>1. ASSUME NEW n \in RunShape
          PROVE  /\ Queued(n) \in RunShape /\ Queued(n).pc = "queued"
                 /\ Queued(n).base = Len(develop)
                 /\ Queued(n).merged = n.merged /\ Queued(n).todo = n.todo
      BY <2>0 DEF RunShape
    <3> HIDE DEF Queued
    <3> QED
      BY <3>1, NoRunKnows
  <2>2. run' = r
    BY <1>7 DEF Funding!Trigger, Funding!Tip
  <2> HIDE DEF r
  <2>5. r.pc \notin {"fetched", "decided", "clean", "sent", "merged", "dispatch"} \cup Decided
        /\ r.pc \notin OnBase /\ r.base <= Len(develop)
    BY <1>0, <2>1 DEF Decided, OnBase
  <2>3. RunKnows(r)
    BY <2>1, <2>5 DEF RunKnows
  <2>4. runs' \in 0..MaxRuns
    BY <1>0, <1>7, FundingAssumption DEF Funding!Trigger
  <2> QED
    BY <1>0, <1>00, <1>7, <2>1, <2>2, <2>3, <2>4, RunMoves
    DEF Funding!Trigger, Funding!repository, Funding!outcome
<1>8. CASE Funding!ListPulls
  <2> DEFINE todo == [p \in PRs |-> IF Funding!Open(p) THEN pulls[p].head ELSE None]
             r == [run EXCEPT !.pc = "next", !.todo = todo]
  <2>1. todo \in [PRs -> {None} \cup Funding!Revision]
    BY <1>0, PullFields DEF Funding!Open
  <2>2. \A p \in PRs : todo[p] # None => todo[p].on <= Len(develop)
    BY <1>0 DEF HeadsRest, Funding!Open
  <2> HIDE DEF todo
  <2>3. /\ r \in RunShape /\ r.pc = "next" /\ r.base = run.base /\ r.todo = todo
        /\ r.merged = run.merged
    BY <1>0, <2>1 DEF RunShape
  <2>4. run' = r
    BY <1>8 DEF Funding!ListPulls, todo
  <2> HIDE DEF r
  <2>5. RunKnows(r)
    BY <1>0, <2>2, <2>3 DEF RunKnows, Decided, OnBase
  <2> QED
    BY <1>0, <1>00, <1>8, <2>3, <2>4, <2>5, RunMoves
    DEF Funding!ListPulls, Funding!repository, Funding!outcome
<1>9. CASE Funding!Decide
  <2>1. PICK v \in Funding!Verdicts :
          run' = [run EXCEPT !.pc = "decided", !.verdict = v, !.checkedAt = now]
    BY <1>9 DEF Funding!Decide
  <2> DEFINE r == [run EXCEPT !.pc = "decided", !.verdict = v, !.checkedAt = now]
  <2>2. run.pc = "fetched"
    BY <1>9 DEF Funding!Decide
  <2>3. /\ v \in {"verified", "human", "failed"}
        /\ v = "verified" => VerifiedOver(run.base, run.head)
    BY <2>2, VerdictsMean
  <2>4. /\ r \in RunShape /\ r.pc = "decided" /\ r.base = run.base /\ r.todo = run.todo
        /\ r.merged = run.merged
        /\ r.pr = run.pr /\ r.head = run.head /\ r.verdict = v /\ r.checkedAt = now
    BY <1>0, <2>3 DEF RunShape
  <2> HIDE DEF r
  <2>5. RunKnows(r)
    BY <1>0, <2>2, <2>3, <2>4 DEF RunKnows, Decided, OnBase
  <2> QED
    BY <1>0, <1>00, <1>9, <2>1, <2>4, <2>5, RunMoves
    DEF Funding!Decide, Funding!repository, Funding!outcome, r
<1>10. CASE Funding!AssertDecision
  <2>1. UNCHANGED <<now, develop, strict, pulls, pushes, runs, botMerges, dispatched>>
    BY <1>10 DEF Funding!AssertDecision, Funding!repository, Funding!outcome
  <2>2. CASE Funding!Fresh
    <3> DEFINE r == [run EXCEPT !.pc = "pull"]
    <3>1. run.pc = "decided" /\ run.verdict = "verified" /\ run' = r
      BY <1>10, <2>2 DEF Funding!AssertDecision, Funding!Fresh
    <3>2. /\ r \in RunShape /\ r.pc = "pull" /\ r.base = run.base /\ r.todo = run.todo
          /\ r.merged = run.merged
          /\ r.pr = run.pr /\ r.head = run.head /\ r.checkedAt = run.checkedAt
      BY <1>0 DEF RunShape, Decided
    <3> HIDE DEF r
    <3>3. RunKnows(r)
      BY <1>0, <3>1, <3>2 DEF RunKnows, Decided, OnBase
    <3> QED
      BY <1>0, <1>00, <2>1, <3>1, <3>2, <3>3, RunMoves
  <2>3. CASE ~Funding!Fresh
    BY <1>10, <2>1, <2>3, NextCandidateKeeps DEF Funding!AssertDecision
  <2> QED
    BY <2>2, <2>3
<1>11. CASE Funding!GuardPull
  <2>1. UNCHANGED <<now, develop, strict, pulls, pushes, runs, botMerges, dispatched>>
    BY <1>11 DEF Funding!GuardPull, Funding!repository, Funding!outcome
  <2>2. CASE /\ run.pc \in {"pull", "pull again"} /\ Len(develop) = run.base
             /\ run' = [run EXCEPT !.pc = IF @ = "pull" THEN "authority" ELSE "authority again"]
    <3> DEFINE next == IF run.pc = "pull" THEN "authority" ELSE "authority again"
    <3>1. run' = [run EXCEPT !.pc = next]
      BY <2>2
    <3>2. next \in {"authority", "authority again"}
      OBVIOUS
    <3> HIDE DEF next
    <3> QED
      BY <2>1, <2>2, <3>1, <3>2, GuardPasses DEF Decided, OnBase
  <2> QED
    BY <1>11, <2>1, <2>2, NextCandidateKeeps
    DEF Funding!GuardPull, Funding!PullAsDecided, Funding!Tip
<1>12. CASE Funding!GuardAuthority
  <2>1. UNCHANGED <<now, develop, strict, pulls, pushes, runs, botMerges, dispatched>>
    BY <1>12 DEF Funding!GuardAuthority, Funding!repository, Funding!outcome
  <2>2. CASE /\ run.pc \in {"authority", "authority again"} /\ strict
             /\ run' = [run EXCEPT !.pc = IF @ = "authority" THEN "pull again" ELSE "clean"]
    <3> DEFINE next == IF run.pc = "authority" THEN "pull again" ELSE "clean"
    <3>1. run' = [run EXCEPT !.pc = next]
      BY <2>2
    <3>2. next \in {"pull again", "clean"}
      OBVIOUS
    <3> HIDE DEF next
    <3> QED
      BY <2>1, <2>2, <3>1, <3>2, GuardPasses DEF Decided, OnBase
  <2> QED
    BY <1>12, <2>1, <2>2, NextCandidateKeeps DEF Funding!GuardAuthority, Funding!AuthorityHolds
<1>13. CASE Funding!SendMerge
  <2>1. UNCHANGED <<now, develop, strict, pulls, pushes, runs, botMerges, dispatched>>
    BY <1>13 DEF Funding!SendMerge, Funding!repository, Funding!outcome
  <2>2. CASE Funding!Fresh
    <3> DEFINE age == now - run.checkedAt
               r == [run EXCEPT !.pc = "sent", !.age = age]
    <3>1. run.pc = "clean" /\ run' = r
      BY <1>13, <2>2 DEF Funding!SendMerge
    <3>2. run.checkedAt \in 0..FundingMaxTime
      BY <1>0, <3>1 DEF RunKnows, Decided
    <3>3. age \in Int /\ age <= DecisionLife
      BY <1>0, <2>2, <3>2 DEF Funding!Fresh
    <3> HIDE DEF age
    <3>4. /\ r \in RunShape /\ r.pc = "sent" /\ r.base = run.base /\ r.todo = run.todo
          /\ r.merged = run.merged
          /\ r.pr = run.pr /\ r.head = run.head /\ r.checkedAt = run.checkedAt
          /\ r.eased = run.eased /\ r.age = age
      BY <1>0, <3>3 DEF RunShape, Decided
    <3> HIDE DEF r
    <3>5. RunKnows(r)
      BY <1>0, <3>1, <3>3, <3>4 DEF RunKnows, Decided, OnBase
    <3>6. r.eased \/ strict
      BY <1>0, <3>1, <3>4 DEF RunKnows
    <3> QED
      BY <1>0, <1>00, <2>1, <3>1, <3>4, <3>5, <3>6, RunMoves
  <2>3. CASE ~Funding!Fresh
    BY <1>13, <2>1, <2>3, NextCandidateKeeps DEF Funding!SendMerge
  <2> QED
    BY <2>2, <2>3
<1>14. CASE Funding!Land
  <2>1. run.pc = "sent" /\ UNCHANGED <<now, strict, pushes, runs, dispatched>>
    BY <1>14 DEF Funding!Land
  <2>2. CASE Funding!Mergeable(run.pr) /\ pulls[run.pr].head = run.head
    <3>1. PICK p, h, n, base : p = run.pr /\ h = run.head /\ n = Len(develop) /\ base = run.base
      OBVIOUS
    <3>2. p \in PRs /\ h \in Funding!Revision /\ h.on = base /\ VerifiedOver(base, h)
          /\ base \in 1..n /\ n \in 1..(MaxMerges + 1)
      <4>1. run.pc \in Decided /\ run.pc \in OnBase
        BY <2>1 DEF Decided, OnBase
      <4>2. /\ run.pr \in PRs /\ run.head \in Funding!Revision /\ run.head.on = run.base
            /\ VerifiedOver(run.base, run.head) /\ run.base <= Len(develop)
            /\ run.base \in 1..(MaxMerges + 1)
        BY <1>0, <4>1, RunFields DEF RunKnows
      <4> QED
        BY <1>0, <3>1, <4>2, FundingAssumption
    <3> DEFINE bm == [commit |-> n + 1, eased |-> run.eased, age |-> run.age]
               r == [run EXCEPT !.pc = "merged", !.merged = n + 1]
    <3>3. Funding!MergePull(p) /\ run' = r /\ botMerges' = botMerges \cup {bm}
      BY <1>14, <2>2, <3>1 DEF Funding!Land, Funding!Tip
    <3>4. /\ Funding!Merged(h) \in Funding!Tree /\ develop' = Append(develop, Funding!Merged(h))
          /\ Len(develop) <= MaxMerges /\ pulls' \in [PRs -> {None} \cup Funding!Pull]
          /\ HeadsRest' /\ IsMerge(n + 1, h)'
      BY <2>2, <3>1, <3>2, <3>3, MergeLands
    <3>5. Len(develop') = n + 1 /\ Len(develop') \in 1..(MaxMerges + 1)
          /\ develop' \in Seq(Funding!Tree)
      BY <3>1, <3>4, CommitsLast
    <3>6. run.age <= DecisionLife /\ run.eased \in BOOLEAN /\ (run.eased \/ strict)
      BY <1>0, <2>1, RunFields DEF RunKnows
    <3>7. ~run.eased => CleanCommit(n + 1)'
      <4> SUFFICES ASSUME ~run.eased PROVE CleanCommit(n + 1)'
        OBVIOUS
      <4>1. h.on = n
        BY <2>2, <3>1, <3>6 DEF Funding!Mergeable, Funding!Tip
      <4>2. VerifiedOver(n, h)'
        BY <3>1, <3>2, <3>4, <4>1, CommitsLast
      <4>3. develop'[n] \in Funding!Tree /\ n \in Nat
        BY <3>2, <3>5
      <4> QED
        BY <3>2, <3>4, <4>1, <4>2, <4>3, CleanMerge
    <3>8. bm.commit = n + 1 /\ bm.eased = run.eased /\ bm.age = run.age
      OBVIOUS
    <3>12. n + 1 \in 1..(MaxMerges + 1)
      BY <3>1, <3>2, <3>4, FundingAssumption
    <3>9. /\ r \in RunShape /\ r.pc = "merged" /\ r.base = run.base /\ r.todo = run.todo
          /\ r.pr = run.pr /\ r.head = run.head /\ r.checkedAt = run.checkedAt
          /\ r.merged = n + 1
      BY <1>0, <3>12 DEF RunShape, Decided
    <3> HIDE DEF r, bm
    <3>10. RunKnows(run)'
      <4>1. PICK q \in RunShape : q = run
        BY <1>0
      <4>2. PICK s \in RunShape : s = r
        BY <3>9
      <4>3. RunKnows(q) /\ q.pc = "sent" /\ (q.eased \/ strict')
        BY <1>0, <2>1, <3>6, <4>1
      <4>4. RunKnows(q)'
        BY <3>3, <3>4, <4>1, <4>3, CommitKeeps
      <4>5. RunKnows(s)'
        <5>1. /\ s.pc = "merged" /\ s.base = q.base /\ s.todo = q.todo
              /\ s.pr = q.pr /\ s.head = h /\ q.head = h /\ s.checkedAt = q.checkedAt
              /\ s.merged = n + 1
          BY <3>1, <3>9, <4>1, <4>2
        <5>2. IsMerge(s.merged, s.head)' /\ \E m \in botMerges' : m.commit = s.merged
          BY <3>3, <3>4, <3>8, <5>1
        <5> QED
          BY <3>5, <4>3, <4>4, <5>1, <5>2 DEF RunKnows, Decided, OnBase
      <4>6. run' = s
        BY <3>3, <4>2
      <4> QED
        BY <4>5, <4>6 DEF RunKnows
    <3>11. BotMergesClean' /\ DispatchedClean'
      <4>1. /\ \A m \in botMerges :
                 /\ m.age <= DecisionLife /\ m.commit \in 2..Len(develop')
                 /\ m.eased \in BOOLEAN
                 /\ ~m.eased => CleanCommit(m.commit)'
            /\ \A i \in dispatched : CleanCommit(i)' /\ \E m \in botMerges' : m.commit = i
        BY <3>3, <3>4, CommitKeeps
      <4>2. /\ bm.age <= DecisionLife /\ bm.commit \in 2..Len(develop') /\ bm.eased \in BOOLEAN
            /\ ~bm.eased => CleanCommit(n + 1)'
        BY <3>2, <3>5, <3>6, <3>7, <3>8
      <4>3. ASSUME NEW m \in botMerges'
            PROVE  /\ m.age <= DecisionLife /\ m.commit \in 2..Len(develop')
                   /\ m.eased \in BOOLEAN /\ (~m.eased => CleanCommit(m.commit)')
        <5>1. CASE m \in botMerges
          BY <4>1, <5>1
        <5>2. CASE m = bm
          BY <3>8, <4>2, <5>2
        <5> QED
          BY <3>3, <5>1, <5>2
      <4> QED
        BY <2>1, <4>1, <4>3 DEF BotMergesClean, DispatchedClean
    <3> QED
      <4>1. RunShape' = RunShape
        BY DEF RunShape, Decided
      <4>2. FundingTyped'
        BY <1>0, <2>1, <3>3, <3>4, <3>5, <3>9, <4>1 DEF FundingTyped
      <4> QED
        BY <3>4, <3>10, <3>11, <4>2 DEF FundingInv
  <2>3. CASE ~(Funding!Mergeable(run.pr) /\ pulls[run.pr].head = run.head)
    BY <1>00, <1>14, <2>1, <2>3, RunEnds DEF Funding!Land
  <2> QED
    BY <2>2, <2>3
<1>15. CASE Funding!ReadBack
  <2>1. run.pc = "merged"
        /\ UNCHANGED <<now, develop, strict, pulls, pushes, runs, botMerges, dispatched>>
    BY <1>15 DEF Funding!ReadBack, Funding!repository, Funding!outcome
  <2>2. CASE Funding!Readback
    <3> DEFINE r == [run EXCEPT !.pc = "dispatch"]
    <3>1. run' = r /\ run.merged - 1 = run.base
      BY <1>15, <2>2 DEF Funding!ReadBack, Funding!Readback
    <3>2. /\ r \in RunShape /\ r.pc = "dispatch" /\ r.base = run.base /\ r.todo = run.todo
          /\ r.pr = run.pr /\ r.head = run.head /\ r.checkedAt = run.checkedAt
          /\ r.merged = run.merged
      BY <1>0 DEF RunShape, Decided
    <3> HIDE DEF r
    <3>3. RunKnows(r)
      BY <1>0, <2>1, <3>1, <3>2 DEF RunKnows, Decided, OnBase
    <3> QED
      BY <1>0, <1>00, <2>1, <3>1, <3>2, <3>3, RunMoves
  <2>3. CASE ~Funding!Readback
    BY <1>00, <1>15, <2>1, <2>3, RunEnds DEF Funding!ReadBack
  <2> QED
    BY <2>2, <2>3
<1>16. CASE Funding!Dispatch
  <2>1. /\ run.pc = "dispatch" /\ dispatched' = dispatched \cup {run.merged}
        /\ run' = Funding!NoRun
        /\ UNCHANGED <<now, develop, strict, pulls, pushes, runs, botMerges>>
    BY <1>16 DEF Funding!Dispatch, Funding!repository
  <2>2. PICK n, h : n = run.base /\ h = run.head
    OBVIOUS
  <2>3. /\ IsMerge(run.merged, run.head) /\ run.merged - 1 = run.base /\ run.head.on = run.base
        /\ VerifiedOver(run.base, run.head) /\ \E m \in botMerges : m.commit = run.merged
    BY <1>0, <2>1 DEF RunKnows, Decided, OnBase
  <2>4. /\ n \in Nat /\ n \in 1..Len(develop) /\ h \in Funding!Revision /\ h.on = n
        /\ run.merged = n + 1
    <3>1. run.base \in 1..(MaxMerges + 1) /\ run.head \in Funding!Revision
          /\ run.base <= Len(develop) /\ run.merged \in Nat
      <4>1. run.merged \in 2..Len(develop)
        BY <2>3 DEF IsMerge
      <4>2. run.head # None /\ run.base <= Len(develop)
        BY <1>0, <2>1 DEF RunKnows, Decided
      <4>3. run.base \in 1..(MaxMerges + 1) /\ run.head \in {None} \cup Funding!Revision
        BY <1>0, RunFields
      <4> QED
        BY <4>1, <4>2, <4>3
    <3> QED
      BY <1>0, <2>2, <2>3, <3>1
  <2>5. IsMerge(n + 1, h)' /\ VerifiedOver(n, h)'
    <3>1. IsMerge(n + 1, h) /\ VerifiedOver(n, h)
      BY <2>2, <2>3, <2>4
    <3> QED
      BY <2>1, <3>1 DEF IsMerge, VerifiedOver
  <2>6. develop'[n] \in Funding!Tree
    BY <2>1, <2>4 DEF FundingInv, FundingTyped
  <2>7. CleanCommit(n + 1)'
    BY <2>4, <2>5, <2>6, CleanMerge
  <2>8. DispatchedClean'
    <3>1. \A i \in dispatched : CleanCommit(i)' /\ \E m \in botMerges' : m.commit = i
      BY <2>1 DEF FundingInv, DispatchedClean, CleanCommit
    <3>2. CleanCommit(n + 1)' /\ \E m \in botMerges' : m.commit = n + 1
      BY <2>1, <2>3, <2>4, <2>7
    <3> QED
      BY <2>1, <2>4, <3>1, <3>2 DEF DispatchedClean
  <2> QED
    BY <2>1, <2>8, RunEnds
<1>17. CASE Funding!EndRun
  BY <1>00, <1>17, RunEnds DEF Funding!EndRun, Funding!repository, Funding!outcome
<1>18. CASE UNCHANGED Funding!vars
  BY <1>0, <1>18, OthersMove DEF Funding!vars, HeadsRest
<1> QED
  BY <1>1, <1>2, <1>3, <1>4, <1>5, <1>6, <1>7, <1>8, <1>9, <1>10, <1>11, <1>12, <1>13,
     <1>14, <1>15, <1>16, <1>17, <1>18 DEF Funding!Next

\* What the invariant says of the merges of the runs.
LEMMA FundingVerified ==
  ASSUME FundingInv
  PROVE  Funding!TypeOK /\ Funding!MergedAsVerified
<1>1. Funding!TypeOK
  <2>1. run \in RunShape /\ RunKnows(run) /\ Len(develop) \in 1..(MaxMerges + 1)
    BY DEF FundingInv, FundingTyped
  <2>2. run.base \in 1..Len(develop) /\ run.head \in {None} \cup Funding!Revision
    BY <2>1, RunFields DEF RunKnows
  <2>3. run.merged \in {None} \cup 1..Len(develop)
    BY <2>1, RunFields DEF RunKnows
  <2>4. run.pc \in {"fetched", "decided", "pull", "authority", "pull again", "authority again",
                    "clean", "sent", "merged", "dispatch"} => run.pr \in PRs /\ run.head # None
    BY <2>1 DEF RunKnows, Decided
  <2>5. dispatched \subseteq {m.commit : m \in botMerges}
    BY DEF FundingInv, DispatchedClean
  <2> QED
    BY <2>1, <2>2, <2>3, <2>4, <2>5 DEF FundingInv, FundingTyped, Funding!TypeOK, Funding!Tip
<1>2. Funding!MergedAsVerified
  BY DEF FundingInv, BotMergesClean, DispatchedClean, CleanCommit, Funding!MergedAsVerified
<1> QED
  BY <1>1, <1>2

-----------------------------------------------------------------------------
(*****************************************************************************)
(* Signer access ledger (SignerAccess)                                       *)
(*****************************************************************************)

\* Up to tree n, no report is dropped: each tree has the reports of the one before it.
TreesKept(n) == \A i \in 1..n : i # 1 => trees[i - 1] \subseteq trees[i]
\* A tree kept to so far has the reports of every tree before it.
TreesChain ==
  \A n \in 1..Signers!Tip : TreesKept(n) => \A i \in 1..n : trees[i] \subseteq trees[n]

\* The reports of a tree are dated no later than a time.
ReportsDated(n, at) == \A r \in trees[n] : r.reportedAt <= at

\* What the command that asks has learnt, which stays true whatever is merged.
AskLearnt ==
  /\ ask.pc \in {"load", "judged", "proposal", "ready"} => ask.revision \in 1..Signers!Tip
  /\ ask.pc \in {"judged", "ready"} =>
       /\ ask.at \in Int
       /\ Signers!BothCurrent(trees[ask.revision], ask.at) /\ ReportsDated(ask.revision, ask.at)
  /\ ask.pc = "judged" => TreesKept(ask.revision)
  /\ ask.pc = "proposal" => ReportsDated(ask.revision, now)

\* The part's variables but the command's; a use names a tree there was.
SignersShape ==
  /\ now \in 0..SignersMaxTime /\ gated \in BOOLEAN
  /\ trees \in Seq(SUBSET Signers!Reports) /\ trees # <<>>
  /\ \A u \in uses : u.revision \in 1..u.tip /\ u.tip \in 1..Signers!Tip /\ u.at \in 0..now

\* The tree and the time the command works with.
AskTyped == ask.revision \in {None} \cup 1..Signers!Tip /\ ask.at \in {None} \cup 0..now

\* The inductive invariant of the signer access ledger: what the command has learnt is what
\* makes its uses vouched for.
SignersInv ==
  /\ SignersShape /\ TreesChain /\ (gated => TreesKept(Signers!Tip))
  /\ AskTyped /\ AskLearnt /\ Signers!SignersVouched

\* A report is dated within the bound.
LEMMA ReportDated ==
  ASSUME NEW r \in Signers!Reports
  PROVE  r.reportedAt \in 0..SignersMaxTime
BY DEF Signers!Reports, Signers!Lost, Signers!CanSign

\* Appending a tree leaves the trees before it alone.
LEMMA AppendKeeps ==
  ASSUME SignersShape, NEW t \in SUBSET Signers!Reports, trees' = Append(trees, t)
  PROVE  /\ trees' \in Seq(SUBSET Signers!Reports) /\ trees' # <<>>
         /\ Signers!Tip' = Signers!Tip + 1 /\ Signers!Tip \in Nat /\ Signers!Tip >= 1
         /\ \A i \in 1..Signers!Tip : trees'[i] = trees[i]
         /\ trees'[Signers!Tip + 1] = t
BY DEF SignersShape, Signers!Tip

\* The trees still chain when one is appended.
LEMMA ChainGrows ==
  ASSUME SignersShape, TreesChain, NEW t \in SUBSET Signers!Reports, trees' = Append(trees, t)
  PROVE  TreesChain'
<1> USE DEF Signers!Tip
<1>0. /\ Signers!Tip' = Signers!Tip + 1 /\ Signers!Tip \in Nat /\ Signers!Tip >= 1
      /\ \A i \in 1..Signers!Tip : trees'[i] = trees[i]
  BY AppendKeeps
<1> SUFFICES ASSUME NEW n \in 1..(Signers!Tip + 1), TreesKept(n)', NEW i \in 1..n
             PROVE  trees'[i] \subseteq trees'[n]
  BY <1>0 DEF TreesChain
<1>1. CASE n <= Signers!Tip
  <2>1. TreesKept(n)
    <3> SUFFICES ASSUME NEW j \in 1..n, j # 1 PROVE trees[j - 1] \subseteq trees[j]
      BY DEF TreesKept
    <3>1. trees'[j - 1] \subseteq trees'[j]
      BY DEF TreesKept
    <3> QED
      BY <1>0, <1>1, <3>1
  <2>2. n \in 1..Signers!Tip /\ i \in 1..Signers!Tip /\ trees[i] \subseteq trees[n]
    BY <1>0, <1>1, <2>1 DEF TreesChain
  <2> QED
    BY <1>0, <2>2
<1>2. CASE n = Signers!Tip + 1
  <2>1. TreesKept(Signers!Tip)
    <3> SUFFICES ASSUME NEW j \in 1..Signers!Tip, j # 1 PROVE trees[j - 1] \subseteq trees[j]
      BY DEF TreesKept
    <3>1. trees'[j - 1] \subseteq trees'[j]
      BY <1>0, <1>2 DEF TreesKept
    <3> QED
      BY <1>0, <3>1
  <2>2. trees'[Signers!Tip] \subseteq trees'[n]
    <3>1. n \in 1..n /\ n # 1 /\ n - 1 = Signers!Tip
      BY <1>0, <1>2
    <3>2. trees'[n - 1] \subseteq trees'[n]
      BY <3>1 DEF TreesKept
    <3> QED
      BY <3>1, <3>2
  <2>3. CASE i = n
    BY <2>3
  <2>4. CASE i # n
    <3>1. i \in 1..Signers!Tip /\ Signers!Tip \in 1..Signers!Tip
      BY <1>0, <1>2, <2>4
    <3>2. trees[i] \subseteq trees[Signers!Tip]
      BY <2>1, <3>1 DEF TreesChain
    <3> QED
      BY <1>0, <2>2, <3>1, <3>2
  <2> QED
    BY <2>3, <2>4
<1> QED
  BY <1>0, <1>1, <1>2

\* What was learnt of a tree, and what was used, stays true after a merge.
LEMMA TreeMergeKeeps ==
  ASSUME SignersInv, NEW t \in SUBSET Signers!Reports, trees' = Append(trees, t),
         gated' \in BOOLEAN, gated' => gated, UNCHANGED <<now, ask, uses>>
  PROVE  SignersShape' /\ AskTyped' /\ TreesChain' /\ AskLearnt' /\ Signers!SignersVouched'
<1> USE DEF SignersInv, Signers!Tip
<1>0. /\ trees' \in Seq(SUBSET Signers!Reports) /\ trees' # <<>>
      /\ Signers!Tip' = Signers!Tip + 1 /\ Signers!Tip \in Nat /\ Signers!Tip >= 1
      /\ \A i \in 1..Signers!Tip : trees'[i] = trees[i]
  BY AppendKeeps
<1>1. SignersShape'
  BY <1>0 DEF SignersShape
<1>5. AskTyped'
  BY <1>0 DEF AskTyped
<1>2. TreesChain'
  BY ChainGrows
<1>3. AskLearnt'
  <2>1. CASE ask.pc \in {"load", "judged", "proposal", "ready"}
    <3>1. ask.revision \in 1..Signers!Tip /\ ask.revision \in 1..Signers!Tip'
      BY <1>0, <2>1 DEF AskLearnt
    <3>2. trees'[ask.revision] = trees[ask.revision]
      BY <1>0, <3>1
    <3>3. TreesKept(ask.revision) => TreesKept(ask.revision)'
      <4> SUFFICES ASSUME TreesKept(ask.revision), NEW j \in 1..ask.revision, j # 1
                   PROVE  trees'[j - 1] \subseteq trees'[j]
        BY DEF TreesKept
      <4>1. trees[j - 1] \subseteq trees[j]
        BY DEF TreesKept
      <4> QED
        BY <1>0, <3>1, <4>1
    <3>4. ask' = ask /\ now' = now
      OBVIOUS
    <3> QED
      BY <3>1, <3>2, <3>3, <3>4 DEF AskLearnt, ReportsDated
  <2>2. CASE ask.pc \notin {"load", "judged", "proposal", "ready"}
    BY <2>2 DEF AskLearnt
  <2> QED
    BY <2>1, <2>2
<1>4. Signers!SignersVouched'
  <2> SUFFICES ASSUME NEW u \in uses
               PROVE  /\ (u.kind = "plan" => Signers!NeverLost(u.tip))'
                      /\ (u.kind = "proposal" /\ gated => Signers!NeverLost(u.revision))'
                      /\ \A role \in Signers!Roles : \E r \in trees'[u.revision] :
                           /\ r.role = role /\ r.capability = "can-sign"
                           /\ r.reportedAt <= u.at /\ u.at < r.expiresAt
    BY DEF Signers!SignersVouched
  <2>1. u.revision \in 1..Signers!Tip /\ u.tip \in 1..Signers!Tip
    BY DEF SignersShape
  <2>2. \A n \in 1..Signers!Tip : Signers!NeverLost(n) => Signers!NeverLost(n)'
    <3> SUFFICES ASSUME NEW n \in 1..Signers!Tip,
        Signers!NeverLost(n) PROVE Signers!NeverLost(n)'
      OBVIOUS
    <3>1. \A i \in 1..n : trees'[i] = trees[i]
      BY <1>0
    <3> QED
      BY <3>1 DEF Signers!NeverLost
  <2>3. trees'[u.revision] = trees[u.revision]
    BY <1>0, <2>1
  <2> QED
    BY <2>1, <2>2, <2>3 DEF Signers!SignersVouched
<1> QED
  BY <1>1, <1>2, <1>3, <1>4, <1>5

\* A use of a tree with both signers able, and no loss up to tip n.
LEMMA UseVouched ==
  ASSUME SignersInv, UNCHANGED <<now, trees, gated>>, ask' = Signers!NoAsk,
         NEW kind \in {"plan", "proposal"}, Signers!Use(kind),
         ask.pc \in {"judged", "ready"},
         kind = "plan" => Signers!NeverLost(Signers!Tip),
         kind = "proposal" /\ gated => Signers!NeverLost(ask.revision)
  PROVE  SignersInv'
<1> DEFINE new == [kind |-> kind, revision |-> ask.revision, at |-> ask.at, tip |-> Signers!Tip]
<1>1. uses' = uses \cup {new}
  BY DEF Signers!Use
<1>2. ask.revision \in 1..Signers!Tip /\ Signers!Tip \in 1..Signers!Tip /\ ask.at \in 0..now
  BY NoneAssumption DEF SignersInv, SignersShape, AskTyped, AskLearnt, Signers!Tip
<1>7. AskTyped'
  BY DEF AskTyped, Signers!NoAsk, Signers!Asking
<1>3. SignersShape'
  BY <1>1, <1>2 DEF SignersInv, SignersShape, Signers!Tip
<1>4. TreesChain' /\ (gated => TreesKept(Signers!Tip))'
  BY DEF SignersInv, TreesChain, TreesKept, Signers!Tip
<1>5. AskLearnt'
  BY DEF AskLearnt, Signers!NoAsk, Signers!Asking
<1>6. Signers!SignersVouched'
  <2>1. \A role \in Signers!Roles : \E r \in trees[ask.revision] :
          /\ r.role = role /\ r.capability = "can-sign"
          /\ r.reportedAt <= ask.at /\ ask.at < r.expiresAt
    <3> SUFFICES ASSUME NEW role \in Signers!Roles
                 PROVE  \E r \in trees[ask.revision] :
                          /\ r.role = role /\ r.capability = "can-sign"
                          /\ r.reportedAt <= ask.at /\ ask.at < r.expiresAt
      OBVIOUS
    <3>1. PICK r \in trees[ask.revision] :
            r.role = role /\ r.capability = "can-sign" /\ r.expiresAt > ask.at
      BY DEF SignersInv, AskLearnt, Signers!BothCurrent
    <3>2. r.reportedAt <= ask.at
      BY DEF SignersInv, AskLearnt, ReportsDated
    <3> QED
      BY <3>1, <3>2
  <2>2. \A u \in uses' : u \in uses \/ u = new
    BY <1>1
  <2> QED
    BY <2>1, <2>2 DEF SignersInv, Signers!SignersVouched, Signers!NeverLost, Signers!Tip
<1> QED
  BY <1>3, <1>4, <1>5, <1>6, <1>7 DEF SignersInv

\* The invariant holds of the empty ledger.
LEMMA SignersInit ==
  ASSUME Signers!Init
  PROVE  SignersInv
<1>1. PICK t \in SUBSET Signers!Reports : trees = <<t>>
  BY DEF Signers!Init, Signers!Reports
<1>2. SignersShape /\ AskTyped /\ Signers!Tip = 1
  BY <1>1, SignersAssumption
  DEF Signers!Init, SignersShape, AskTyped, Signers!NoAsk, Signers!Asking, Signers!Tip
<1>3. TreesChain /\ TreesKept(Signers!Tip)
  BY <1>2 DEF TreesChain, TreesKept
<1>4. AskLearnt /\ Signers!SignersVouched
  BY DEF Signers!Init, AskLearnt, Signers!NoAsk, Signers!Asking, Signers!SignersVouched
<1> QED
  BY <1>2, <1>3, <1>4 DEF SignersInv

\* Time passes or the command stops: what was learnt stays learnt.
LEMMA AskMoves ==
  ASSUME SignersInv, UNCHANGED <<trees, gated, uses>>, now' \in 0..SignersMaxTime,
         now <= now', AskTyped', AskLearnt'
  PROVE  SignersInv'
<1>1. SignersShape'
  BY DEF SignersInv, SignersShape, Signers!Tip
<1>2. TreesChain'
  BY DEF SignersInv, TreesChain, TreesKept, Signers!Tip
<1>3. (gated => TreesKept(Signers!Tip))'
  BY DEF SignersInv, TreesKept, Signers!Tip
<1>4. Signers!SignersVouched'
  BY DEF SignersInv, Signers!SignersVouched, Signers!NeverLost, Signers!Tip
<1> QED
  BY <1>1, <1>2, <1>3, <1>4 DEF SignersInv

\* Every step of the ledger keeps the invariant (SignerAccess.Next).
LEMMA SignersStep ==
  ASSUME SignersInv, [Signers!Next]_(Signers!vars)
  PROVE  SignersInv'
<1>0. /\ Signers!Tip \in Nat /\ Signers!Tip >= 1
      /\ now \in 0..SignersMaxTime /\ SignersMaxTime \in Nat
  BY SignersAssumption DEF SignersInv, SignersShape, Signers!Tip
<1>00. ASSUME UNCHANGED <<trees, gated, uses, now>>, AskLearnt', AskTyped'
       PROVE  SignersInv'
  BY <1>00, <1>0, AskMoves
<1>1. CASE Signers!Tick
  <2>1. ASSUME NEW n \in 1..Signers!Tip, ReportsDated(n, now)
        PROVE  ReportsDated(n, now + 1)
    <3> SUFFICES ASSUME NEW r \in trees[n] PROVE r.reportedAt <= now + 1
      BY DEF ReportsDated
    <3>1. r \in Signers!Reports
      BY DEF SignersInv, SignersShape, Signers!Tip
    <3> QED
      BY <2>1, <3>1, ReportDated DEF ReportsDated, SignersInv, SignersShape
  <2>2. /\ now' = now + 1 /\ now' \in 0..SignersMaxTime /\ now <= now'
        /\ UNCHANGED <<trees, gated, ask, uses>>
    BY <1>0, <1>1 DEF Signers!Tick
  <2>3. ask.pc = "proposal" => ask.revision \in 1..Signers!Tip /\ ReportsDated(ask.revision,
      now)
    BY DEF SignersInv, AskLearnt
  <2>4. ask.pc = "proposal" => ReportsDated(ask.revision, now + 1)
    BY <2>1, <2>3
  <2>5. AskLearnt'
    BY <2>2, <2>4
    DEF SignersInv, AskLearnt, ReportsDated, TreesKept, Signers!BothCurrent, Signers!Tip
  <2>6. AskTyped'
    BY <1>0, <2>2 DEF SignersInv, AskTyped, Signers!Tip
  <2> QED
    BY <2>2, <2>5, <2>6, AskMoves
<1>2. CASE Signers!GatedMerge
  <2>1. PICK r \in Signers!Reports : /\ Signers!Replay(Signers!Tip, now)
                             /\ trees' = Append(trees, trees[Signers!Tip] \cup {r})
    BY <1>2 DEF Signers!GatedMerge
  <2> DEFINE t == trees[Signers!Tip] \cup {r}
  <2>2. t \in SUBSET Signers!Reports
    BY <1>0 DEF SignersInv, SignersShape, Signers!Tip
  <2>3. /\ trees' = Append(trees, t) /\ gated' \in BOOLEAN
        /\ UNCHANGED <<now, gated, ask, uses>>
    BY <1>2, <2>1 DEF Signers!GatedMerge, SignersInv, SignersShape
  <2>4. SignersShape' /\ AskTyped' /\ TreesChain' /\ AskLearnt' /\ Signers!SignersVouched'
    BY <2>2, <2>3, TreeMergeKeeps
  <2>5. Signers!Tip' = Signers!Tip + 1 /\ trees'[Signers!Tip + 1] = t
      /\ \A i \in 1..Signers!Tip : trees'[i] = trees[i]
    BY <2>2, <2>3, AppendKeeps DEF SignersInv
  <2>6. (gated => TreesKept(Signers!Tip))'
    <3> SUFFICES ASSUME gated, NEW j \in 1..(Signers!Tip + 1), j # 1
                 PROVE  trees'[j - 1] \subseteq trees'[j]
      BY <2>3, <2>5 DEF TreesKept
    <3>1. CASE j <= Signers!Tip
      <4>1. trees[j - 1] \subseteq trees[j]
        BY <1>0, <3>1 DEF SignersInv, TreesKept
      <4> QED
        BY <1>0, <2>5, <3>1, <4>1
    <3>2. CASE j = Signers!Tip + 1
      BY <1>0, <2>5, <3>2
    <3> QED
      BY <1>0, <3>1, <3>2
  <2> QED
    BY <2>4, <2>6 DEF SignersInv
<1>3. CASE Signers!BypassMerge
  <2>1. PICK t \in SUBSET Signers!Reports : trees' = Append(trees, t)
    <3>1. PICK gone \in {{}} \cup {{r} : r \in trees[Signers!Tip]},
               new \in {{}} \cup {{r} : r \in Signers!Reports} :
                 trees' = Append(trees, (trees[Signers!Tip] \ gone) \cup new)
      BY <1>3 DEF Signers!BypassMerge
    <3>2. trees[Signers!Tip] \in SUBSET Signers!Reports /\ new \in SUBSET Signers!Reports
      BY <1>0 DEF SignersInv, SignersShape, Signers!Tip
    <3> QED
      BY <3>1, <3>2
  <2>2. gated' = FALSE /\ UNCHANGED <<now, ask, uses>>
    BY <1>3 DEF Signers!BypassMerge
  <2> QED
    BY <2>1, <2>2, TreeMergeKeeps DEF SignersInv
<1>4. CASE Signers!StartLoad
  <2>1. AskLearnt' /\ AskTyped'
    BY <1>0, <1>4
    DEF Signers!StartLoad, AskLearnt, AskTyped, Signers!NoAsk, Signers!Asking, Signers!Tip
  <2> QED
    BY <1>00, <1>4, <2>1 DEF Signers!StartLoad
<1>5. CASE Signers!Judge
  <2>1. ask.revision \in 1..Signers!Tip /\ UNCHANGED <<now, trees, gated, uses>> /\ now \in Int
    BY <1>5 DEF Signers!Judge, SignersInv, AskLearnt, SignersShape
  <2>2. CASE Signers!Replay(ask.revision, now) /\ Signers!BothCurrent(trees[ask.revision], now)
    <3>1. ask' = Signers!Asking("judged", ask.revision, now)
      BY <1>5, <2>2 DEF Signers!Judge
    <3>2. TreesKept(ask.revision) /\ ReportsDated(ask.revision, now)
      BY <2>1, <2>2 DEF Signers!Replay, Signers!LedgerValid, TreesKept, ReportsDated
    <3>3. AskLearnt' /\ AskTyped'
      BY <1>0, <2>1, <2>2, <3>1, <3>2
      DEF AskLearnt, AskTyped, Signers!Asking, TreesKept, ReportsDated, Signers!BothCurrent,
          Signers!Tip
    <3> QED
      BY <1>00, <2>1, <3>3
  <2>3. CASE ask' = Signers!NoAsk
    BY <1>00, <2>1, <2>3 DEF AskLearnt, AskTyped, Signers!NoAsk, Signers!Asking
  <2> QED
    BY <1>5, <2>2, <2>3 DEF Signers!Judge
<1>6. CASE Signers!Release
  <2>1. Signers!NeverLost(Signers!Tip)
    <3>1. ask.revision = Signers!Tip /\ TreesKept(Signers!Tip)
        /\ Signers!BothCurrent(trees[Signers!Tip], ask.at)
      BY <1>6 DEF Signers!Release, SignersInv, AskLearnt
    <3>2. \A i \in 1..Signers!Tip : trees[i] \subseteq trees[Signers!Tip]
      BY <1>0, <3>1 DEF SignersInv, TreesChain
    <3> QED
      BY <3>1, <3>2 DEF Signers!NeverLost, Signers!BothCurrent
  <2> QED
    BY <1>6, <2>1, UseVouched DEF Signers!Release
<1>7. CASE Signers!StartProposal
  <2>1. AskLearnt' /\ AskTyped'
    BY <1>0, <1>7
    DEF Signers!StartProposal, AskLearnt, AskTyped, Signers!Asking, Signers!LedgerValid,
        ReportsDated, Signers!Tip
  <2> QED
    BY <1>00, <1>7, <2>1 DEF Signers!StartProposal
<1>8. CASE Signers!Judge2
  <2>1. /\ ask.revision \in 1..Signers!Tip /\ ReportsDated(ask.revision, now) /\ now \in Int
        /\ UNCHANGED <<now, trees, gated, uses>>
    BY <1>8 DEF Signers!Judge2, SignersInv, AskLearnt, SignersShape
  <2>2. CASE /\ Signers!BothCurrent(trees[ask.revision], now)
             /\ ask' = Signers!Asking("ready", ask.revision, now)
    <3>1. AskLearnt' /\ AskTyped'
      BY <1>0, <2>1, <2>2
      DEF AskLearnt, AskTyped, Signers!Asking, ReportsDated, Signers!BothCurrent, Signers!Tip
    <3> QED
      BY <1>00, <2>1, <3>1
  <2>3. CASE ask' = Signers!NoAsk
    BY <1>00, <2>1, <2>3 DEF AskLearnt, AskTyped, Signers!NoAsk, Signers!Asking
  <2> QED
    BY <1>8, <2>2, <2>3 DEF Signers!Judge2
<1>9. CASE Signers!Propose
  <2>1. gated => Signers!NeverLost(ask.revision)
    <3> SUFFICES ASSUME gated PROVE Signers!NeverLost(ask.revision)
      OBVIOUS
    <3>1. ask.revision \in 1..Signers!Tip /\ Signers!BothCurrent(trees[ask.revision], ask.at)
      BY <1>9 DEF Signers!Propose, SignersInv, AskLearnt
    <3>2. TreesKept(ask.revision)
      BY <1>0, <3>1 DEF SignersInv, TreesKept
    <3>3. \A i \in 1..ask.revision : trees[i] \subseteq trees[ask.revision]
      BY <3>1, <3>2 DEF SignersInv, TreesChain
    <3> QED
      BY <3>1, <3>3 DEF Signers!NeverLost, Signers!BothCurrent
  <2> QED
    BY <1>9, <2>1, UseVouched DEF Signers!Propose
<1>10. CASE Signers!Stop
  BY <1>00, <1>10 DEF Signers!Stop, AskLearnt, AskTyped, Signers!NoAsk, Signers!Asking
<1>11. CASE UNCHANGED Signers!vars
  <2>1. AskLearnt' /\ AskTyped'
    BY <1>11
    DEF Signers!vars, SignersInv, AskLearnt, AskTyped, ReportsDated, TreesKept, Signers!Tip
  <2> QED
    BY <1>00, <1>11, <2>1 DEF Signers!vars
<1> QED
  BY <1>1, <1>2, <1>3, <1>4, <1>5, <1>6, <1>7, <1>8, <1>9, <1>10, <1>11 DEF Signers!Next

\* What the invariant says of types and of the uses of the ledger.
LEMMA SignersTyped ==
  ASSUME SignersInv
  PROVE  Signers!TypeOK /\ Signers!SignersVouched
BY DEF SignersInv, SignersShape, AskTyped, Signers!TypeOK, Signers!Tip

-----------------------------------------------------------------------------
(***************************************************************************)
(* The composition                                                         *)
(***************************************************************************)
\* The invariant of the part that runs.
IInv ==
  /\ part = "reads" => ReadsInv
  /\ part = "limits" => LimitsInv
  /\ part = "intake" => IntakeInv
  /\ part = "squads" => SquadsInv
  /\ part = "settlement" => SettlementInv
  /\ part = "funding" => FundingInv
  /\ part = "signers" => SignersInv

\* The first state is a first state of the part it chooses.
LEMMA ServicesInit == Init => IInv
<1> SUFFICES ASSUME Init PROVE IInv
  OBVIOUS
<1>1. CASE part = "reads" /\ Reads!Init
  BY <1>1, ReadsInit DEF IInv
<1>2. CASE part = "limits" /\ Limits!Init
  BY <1>2, LimitsInit DEF IInv
<1>3. CASE part = "intake" /\ Intake!Init
  BY <1>3, IntakeInit DEF IInv
<1>4. CASE part = "squads" /\ Squads!Init
  BY <1>4, SquadsInit DEF IInv
<1>5. CASE part = "settlement" /\ Settling!Init
  BY <1>5, SettlementInit DEF IInv
<1>6. CASE part = "funding" /\ Funding!Init
  BY <1>6, FundingInit DEF IInv
<1>7. CASE part = "signers" /\ Signers!Init
  BY <1>7, SignersInit DEF IInv
<1> QED
  BY <1>1, <1>2, <1>3, <1>4, <1>5, <1>6, <1>7 DEF Init

\* A step that leaves the composition as it is leaves every part so.
LEMMA PartsRest ==
  ASSUME UNCHANGED vars
  PROVE  /\ UNCHANGED part
         /\ UNCHANGED Reads!vars /\ UNCHANGED Limits!vars /\ UNCHANGED Intake!vars
         /\ UNCHANGED Squads!vars /\ UNCHANGED Settling!vars /\ UNCHANGED Funding!vars
         /\ UNCHANGED Signers!vars
BY DEF vars, readsVars, limitsVars, intakeVars, squadsVars, settlementVars, fundingVars,
       signersVars, Reads!vars, Limits!vars, Intake!vars, Squads!vars, Settling!vars,
       Funding!vars, Signers!vars

\* Every step of the composition keeps the invariant.
LEMMA ServicesStep == IInv /\ [Next]_vars => IInv'
<1> SUFFICES ASSUME IInv, [Next]_vars PROVE IInv'
  OBVIOUS
<1>1. CASE part = "reads" /\ Reads!Next /\ UNCHANGED part
  BY <1>1, ReadsStep DEF IInv
<1>2. CASE part = "limits" /\ Limits!Next /\ UNCHANGED part
  BY <1>2, LimitsStep DEF IInv
<1>3. CASE part = "intake" /\ Intake!Next /\ UNCHANGED part
  BY <1>3, IntakeStep DEF IInv
<1>4. CASE part = "squads" /\ Squads!Next /\ UNCHANGED part
  BY <1>4, SquadsStep DEF IInv
<1>5. CASE part = "settlement" /\ Settling!Next /\ UNCHANGED part
  BY <1>5, SettlementStep DEF IInv
<1>6. CASE part = "funding" /\ Funding!Next /\ UNCHANGED part
  BY <1>6, FundingStep DEF IInv
<1>7. CASE part = "signers" /\ Signers!Next /\ UNCHANGED part
  BY <1>7, SignersStep DEF IInv
<1>8. CASE UNCHANGED vars
  <2>1. part = "reads" => ReadsInv'
    BY <1>8, PartsRest, ReadsStep DEF IInv
  <2>2. part = "limits" => LimitsInv'
    BY <1>8, PartsRest, LimitsStep DEF IInv
  <2>3. part = "intake" => IntakeInv'
    BY <1>8, PartsRest, IntakeStep DEF IInv
  <2>4. part = "squads" => SquadsInv'
    BY <1>8, PartsRest, SquadsStep DEF IInv
  <2>5. part = "settlement" => SettlementInv'
    BY <1>8, PartsRest, SettlementStep DEF IInv
  <2>6. part = "funding" => FundingInv'
    BY <1>8, PartsRest, FundingStep DEF IInv
  <2>7. part = "signers" => SignersInv'
    BY <1>8, PartsRest, SignersStep DEF IInv
  <2> QED
    BY <1>8, PartsRest, <2>1, <2>2, <2>3, <2>4, <2>5, <2>6, <2>7 DEF IInv
<1> QED
  BY <1>1, <1>2, <1>3, <1>4, <1>5, <1>6, <1>7, <1>8 DEF Next

\* In every reachable state the invariant of the part that runs holds.
THEOREM ServicesInvariant == Spec => []IInv
BY ServicesInit, ServicesStep, PTL DEF Spec

\* The variables of the part that runs keep their types (Services.TypeOK).
THEOREM ServicesTyped == Spec => []TypeOK
<1>1. IInv => TypeOK
  BY ReadsKeepAccount, LimitsBounded, IntakeServes, SquadsMatched, SettlementPaid,
     FundingVerified, SignersTyped
  DEF IInv, TypeOK
<1> QED
  BY <1>1, ServicesInvariant, PTL

\* readTrace: every trace that leaves is audited once, within the life of an audited grant
\* for its operator and its digest, and a grant is good for one.
THEOREM ReadsAreAccounted == Spec => []ReadsAccounted
<1>1. IInv => ReadsAccounted
  BY ReadsKeepAccount DEF IInv, ReadsAccounted
<1> QED
  BY <1>1, ServicesInvariant, PTL

\* consumeExactRateLimit: however late, dropped and reordered the counts, and however late
\* the cleanup, no span of one window's length lets more than three windows' calls through.
THEOREM SpansAreBounded == Spec => []SpanBounded
<1>1. IInv => SpanBounded
  BY LimitsBounded DEF IInv, SpanBounded
<1> QED
  BY <1>1, ServicesInvariant, PTL

\* privateIntakeStatus: what the API serves, GitHub had within the validity of the row, the
\* time of a fetch and the skew of the clocks.
THEOREM ServedIsRecent == Spec => []ServedRecently
<1>1. IInv => ServedRecently
  BY IntakeServes DEF IInv, ServedRecently
<1> QED
  BY <1>1, ServicesInvariant, PTL

\* verifySquadsExecution: of any number of authorities of which one may be faulty, a matched
\* observation reports a progress that the chain had, of the plan's messages.
THEOREM MatchedIsSo == Spec => []MatchedIsTrue
<1>1. IInv => MatchedIsTrue
  BY SquadsMatched DEF IInv, MatchedIsTrue
<1> QED
  BY <1>1, ServicesInvariant, PTL

\* verifySquadsExecution: the token accounts it reports were so while the proposal was as
\* reported.
THEOREM EvidenceCoheres == Spec => []EvidenceCoherent
<1>1. IInv => EvidenceCoherent
  BY SquadsMatched DEF IInv, EvidenceCoherent
<1> QED
  BY <1>1, ServicesInvariant, PTL

\* verify-settlement: a published settlement credits every recipient exactly what the plan
\* owes, whatever the plan, the intents and the transactions.
THEOREM SettlementsPayInFull == Spec => []PaidInFull
<1>1. IInv => PaidInFull
  BY SettlementPaid DEF IInv, PaidInFull
<1> QED
  BY <1>1, ServicesInvariant, PTL

\* mergeVerifiedFunding: what a run merges is what it verified, and it dispatches the
\* workflow of develop only after such a merge, while contributors push and others merge.
THEOREM MergesAreVerified == Spec => []MergedAsVerified
<1>1. IInv => MergedAsVerified
  BY FundingVerified DEF IInv, MergedAsVerified
<1> QED
  BY <1>1, ServicesInvariant, PTL

\* loadCanonicalPaymentReservation and assertFundedProposalReady: both signers had said they
\* can sign, and no accepted loss is forgotten.
THEOREM SignersAreVouched == Spec => []SignersVouched
<1>1. IInv => SignersVouched
  BY SignersTyped DEF IInv, SignersVouched
<1> QED
  BY <1>1, ServicesInvariant, PTL
=============================================================================
