---------------------------- MODULE WalletProofs ----------------------------
(***************************************************************************)
(* The wallet registry for every number of accounts, claims and requests:  *)
(* types, the single lineage of each account, and the compare-and-swap     *)
(* register it implements.  The induction needs one fact about requests:   *)
(* a predecessor that was checked against the account stays of that        *)
(* account, because claims are never changed.                              *)
(***************************************************************************)
EXTENDS WalletRegistry, TLAPS

Own(g) == {i \in Ids : claims[i].actor = g}

\* A request past its first checks names a record it may insert.
FitsIn(q, rows) ==
  /\ q.pc \in {"digest", "predecessor", "batch", "raced", "competing"} =>
       /\ q.actor \in Actors /\ q.address \in Addresses /\ q.at \in Stamps
       /\ q.id \in Ids
  /\ q.pc = "current" => q.actor \in Actors /\ q.address \in Addresses
  /\ q.pc = "predecessor" => q.pred # None
  /\ q.pc = "batch" /\ q.pred # None => rows[q.pred].actor = q.actor
Fits(q) == FitsIn(q, claims)

IInv == TypeOK /\ OneLineage /\ \A s \in Slots : Fits(req[s])

LEMMA InitIInv == Init => IInv
<1> SUFFICES ASSUME Init PROVE IInv
  OBVIOUS
<1>1. TypeOK
  BY DEF Init, TypeOK, Request, Idle, Pcs, OrNone
<1>2. \A g \in Actors : Own(g) = {}
  BY RegistryAssumption DEF Init, Own, NoClaim
<1>3. OneLineage
  BY <1>2 DEF OneLineage, Own
<1>4. \A s \in Slots : Fits(req[s])
  BY DEF Init, Idle, Fits, FitsIn
<1> QED
  BY <1>1, <1>3, <1>4 DEF IInv

-----------------------------------------------------------------------------
(* Steps that write only a request *)

LEMMA RequestStep ==
  ASSUME IInv, NEW s \in Slots, NEW q \in Request,
         req' = [req EXCEPT ![s] = q], UNCHANGED <<claims, audited>>, FitsIn(q, claims')
  PROVE  IInv'
<1>1. \A t \in Slots : req'[t] = IF t = s THEN q ELSE req[t]
  BY DEF IInv, TypeOK
<1>2. TypeOK'
  BY DEF IInv, TypeOK
<1>3. OneLineage'
  BY DEF IInv, OneLineage, Roots, Tips, Successors, Stored
<1>4. \A t \in Slots : Fits(req[t])'
  BY <1>1 DEF IInv, Fits, FitsIn
<1> QED
  BY <1>2, <1>3, <1>4 DEF IInv

LEMMA IdleStep ==
  ASSUME IInv, NEW s \in Slots, req' = [req EXCEPT ![s] = Idle],
         UNCHANGED <<claims, audited>>
  PROVE  IInv'
<1>1. Idle \in Request
  BY DEF Idle, Request, Pcs, OrNone
<1>2. FitsIn(Idle, claims')
  BY DEF Idle, Fits, FitsIn
<1> QED
  BY <1>1, <1>2, RequestStep

LEMMA RefuseStep ==
  ASSUME IInv, NEW s \in Slots, NEW a \in Replies, Refuse(s, a),
         UNCHANGED <<claims, audited>>
  PROVE  IInv'
<1> DEFINE q == [Idle EXCEPT !.pc = "done", !.reply = a]
<1>1. q \in Request /\ q.pc = "done"
  BY DEF Idle, Request, Pcs, OrNone
<1>2. req' = [req EXCEPT ![s] = q]
  BY DEF Refuse
<1> HIDE DEF q
<1>3. FitsIn(q, claims')
  BY <1>1 DEF Fits, FitsIn
<1> QED
  BY <1>1, <1>2, <1>3, RequestStep

LEMMA AnswerStep ==
  ASSUME IInv, NEW s \in Slots, NEW a \in Replies, NEW i \in Ids, Answer(s, a, i),
         UNCHANGED <<claims, audited>>
  PROVE  IInv'
<1> DEFINE q == [req[s] EXCEPT !.pc = "done", !.reply = a, !.id = i]
<1>1. q \in Request /\ q.pc = "done"
  BY DEF IInv, TypeOK, Request, Pcs, OrNone
<1>2. req' = [req EXCEPT ![s] = q]
  BY DEF Answer
<1> HIDE DEF q
<1>3. FitsIn(q, claims')
  BY <1>1 DEF Fits, FitsIn
<1> QED
  BY <1>1, <1>2, <1>3, RequestStep

LEMMA GotoStep ==
  ASSUME IInv, NEW s \in Slots, NEW pc \in {"predecessor", "batch", "raced", "competing"},
         Goto(s, pc), UNCHANGED <<claims, audited>>,
         req[s].pc \in {"digest", "predecessor", "batch", "raced"},
         pc = "predecessor" => req[s].pred # None,
         pc = "batch" /\ req[s].pred # None => claims[req[s].pred].actor = req[s].actor
  PROVE  IInv'
<1> DEFINE x == req[s]
           q == [x EXCEPT !.pc = pc]
<1>1. x \in Request /\ Fits(x)
  BY DEF IInv, TypeOK
<1>2. q \in Request /\ q.pc = pc /\ q.actor = x.actor /\ q.address = x.address
        /\ q.at = x.at /\ q.id = x.id /\ q.pred = x.pred
  BY <1>1 DEF Request, Pcs
<1>3. req' = [req EXCEPT ![s] = q]
  BY DEF Goto
<1> HIDE DEF q
<1>4. FitsIn(q, claims')
  BY <1>1, <1>2 DEF Fits, FitsIn
<1> QED
  BY <1>2, <1>3, <1>4, RequestStep

LEMMA BeginStep ==
  ASSUME IInv, NEW s \in Slots, Begin(s)
  PROVE  IInv'
<1>1. PICK g \in Actors, w \in Addresses, p \in OrNone(Ids) :
        ClaimBegin(s, g, w, p) \/ \E t \in Stamps, i \in Ids : RecoverBegin(s, g, w, p, t, i)
  BY DEF Begin
<1>2. CASE ClaimBegin(s, g, w, p)
  <2> DEFINE q == [Idle EXCEPT !.pc = "current", !.actor = g, !.address = w, !.pred = p]
  <2>1. q \in Request /\ q.pc = "current" /\ q.actor = g /\ q.address = w
    BY DEF Idle, Request, Pcs, OrNone
  <2>2. req' = [req EXCEPT ![s] = q] /\ UNCHANGED <<claims, audited>>
    BY <1>2 DEF ClaimBegin
  <2> HIDE DEF q
  <2>3. FitsIn(q, claims')
    BY <2>1 DEF Fits, FitsIn
  <2> QED
    BY <2>1, <2>2, <2>3, RequestStep
<1>3. ASSUME NEW t \in Stamps, NEW i \in Ids, RecoverBegin(s, g, w, p, t, i)
      PROVE  IInv'
  <2> DEFINE q == [Idle EXCEPT !.pc = "digest", !.actor = g, !.address = w, !.pred = p,
                               !.at = t, !.id = i]
  <2>1. q \in Request /\ q.pc = "digest" /\ q.actor = g /\ q.address = w /\ q.at = t
          /\ q.id = i
    BY DEF Idle, Request, Pcs, OrNone
  <2>2. req' = [req EXCEPT ![s] = q] /\ UNCHANGED <<claims, audited>>
    BY <1>3 DEF RecoverBegin
  <2> HIDE DEF q
  <2>3. FitsIn(q, claims')
    BY <2>1 DEF Fits, FitsIn
  <2> QED
    BY <2>1, <2>2, <2>3, RequestStep
<1> QED
  BY <1>1, <1>2, <1>3

\* With one lineage per account, the current claim is the account's one tip.
LEMMA CurrentTip ==
  ASSUME OneLineage, NEW g \in Actors
  PROVE  /\ Own(g) = {} => Current(g) = None /\ Tips(g) = {}
         /\ Own(g) # {} => Current(g) \in Own(g) /\ Tips(g) = {Current(g)}
<1>1. Own(g) = {} => Tips(g) = {}
  BY DEF Own, Tips
<1>2. Own(g) # {} => \E t \in Ids : Tips(g) = {t}
  BY DEF OneLineage, Own
<1>3. Tips(g) \subseteq Own(g)
  BY DEF Tips, Own
<1>4. ASSUME NEW t \in Ids, Tips(g) = {t} PROVE Current(g) = t
  BY <1>4 DEF Current, Row
<1> QED
  BY <1>1, <1>2, <1>3, <1>4 DEF Current, Row

LEMMA CurrentStep ==
  ASSUME IInv, NEW s \in Slots, ClaimCurrent(s)
  PROVE  IInv'
<1> DEFINE x == req[s]
           c == Current(x.actor)
<1>1. x \in Request /\ x.actor \in Actors /\ x.address \in Addresses
  BY DEF IInv, TypeOK, ClaimCurrent, At, Fits, FitsIn
<1>2. UNCHANGED <<claims, audited>>
  BY DEF ClaimCurrent
<1>3. CASE Refuse(s, "conflict")
  BY <1>2, <1>3, RefuseStep DEF Replies
<1>4. CASE c # None /\ Answer(s, "existing", c)
  <2>1. c \in Ids
    BY <1>1, <1>4, CurrentTip DEF IInv, Own
  <2> QED
    BY <1>2, <1>4, <2>1, AnswerStep DEF Replies
<1>5. ASSUME NEW t \in Stamps, NEW i \in Ids,
             req' = [req EXCEPT ![s] = [@ EXCEPT !.pc = "digest", !.at = t, !.id = i]]
      PROVE  IInv'
  <2> DEFINE q == [x EXCEPT !.pc = "digest", !.at = t, !.id = i]
  <2>1. q \in Request /\ q.pc = "digest" /\ q.actor = x.actor /\ q.address = x.address
          /\ q.at = t /\ q.id = i
    BY <1>1 DEF Request, Pcs, OrNone
  <2>2. req' = [req EXCEPT ![s] = q]
    BY <1>5
  <2> HIDE DEF q
  <2>3. FitsIn(q, claims')
    BY <1>1, <2>1 DEF Fits, FitsIn
  <2> QED
    BY <1>2, <2>1, <2>2, <2>3, RequestStep
<1> QED
  BY <1>3, <1>4, <1>5 DEF ClaimCurrent, FreshIds
LEMMA ReadStep ==
  ASSUME IInv, NEW s \in Slots,
         SelectDigest(s) \/ SelectPredecessor(s) \/ CatchRaced(s) \/ CatchCompeting(s)
  PROVE  IInv'
<1>1. UNCHANGED <<claims, audited>>
  BY DEF SelectDigest, SelectPredecessor, CatchRaced, CatchCompeting
<1>2. CASE SelectDigest(s)
  BY <1>1, <1>2, AnswerStep, GotoStep DEF SelectDigest, At, Replies
<1>3. CASE SelectPredecessor(s)
  BY <1>1, <1>3, RefuseStep, GotoStep DEF SelectPredecessor, At, Replies
<1>4. CASE CatchRaced(s)
  BY <1>1, <1>4, AnswerStep, GotoStep DEF CatchRaced, Raced, At, Replies
<1>5. CASE CatchCompeting(s)
  BY <1>1, <1>5, RefuseStep DEF CatchCompeting, Replies
<1> QED
  BY <1>2, <1>3, <1>4, <1>5

-----------------------------------------------------------------------------
(* The one statement that writes a claim *)

\* What the INSERT of request q does to each account's rows.
Extends(q) ==
  /\ q.actor \in Actors /\ q.id \in Ids
  /\ \A h \in Actors : q.id \notin Own(h)
  /\ Own(q.actor)' = Own(q.actor) \cup {q.id}
  /\ Tips(q.actor)' = {q.id}
  /\ \A h \in Actors \ {q.actor} : Own(h)' = Own(h) /\ Tips(h)' = Tips(h)
  /\ q.pred = Current(q.actor)

LEMMA InsertExtends ==
  ASSUME IInv, NEW q \in Request, q.actor \in Actors, q.address \in Addresses,
         q.at \in Stamps, q.id \in Ids, Insertable(q),
         q.pred # None => claims[q.pred].actor = q.actor,
         claims' = [claims EXCEPT ![q.id] = Record(q)]
  PROVE  /\ Extends(q)
         /\ OneLineage'
         /\ claims' \in [Ids -> Claim \cup {NoClaim}]
<1> DEFINE i == q.id
           g == q.actor
           p == q.pred
           row == Record(q)
<1>1. /\ row \in Claim /\ row.actor = g /\ row.pred = p
      /\ p \in Ids \cup {None} /\ i \in Ids /\ g \in Actors
      /\ claims' = [claims EXCEPT ![i] = row]
  BY DEF Record, Claim, Request, OrNone
<1> HIDE DEF row
<1>2. \A j \in Ids : claims'[j] = IF j = i THEN row ELSE claims[j]
  BY <1>1 DEF IInv, TypeOK
<1>3. claims' \in [Ids -> Claim \cup {NoClaim}]
  BY <1>1 DEF IInv, TypeOK
<1>4. claims[i].actor = None /\ (p = None => Roots(g) = {})
        /\ (p # None => claims[p].actor = g /\ Successors(p) = {})
  BY DEF Insertable, Stored
<1>5. /\ None \notin Actors /\ None \notin Ids
      /\ \A j \in Ids : Stored(j) => claims[j] \in Claim
      /\ \A j \in Ids : ~Stored(j) => claims[j].pred = None
  BY RegistryAssumption DEF IInv, TypeOK, Stored, NoClaim, Claim
<1>6. \A h \in Actors : i \notin Own(h)
  BY <1>4, <1>5 DEF Own
<1>7. \A h \in Actors : \A j \in Own(h) : claims[j].pred \in Own(h) \cup {None}
  BY DEF IInv, OneLineage, Own
<1>8. \A j \in Ids : claims[j].pred # i
  BY <1>1, <1>5, <1>6, <1>7 DEF Own, Claim, Stored
<1> HIDE DEF g, p, i
<1>9. /\ Own(g)' = Own(g) \cup {i}
      /\ \A h \in Actors \ {g} : Own(h)' = Own(h)
  BY <1>1, <1>2, <1>6 DEF Own
<1>10. \A j \in Ids : Stored(j)' <=> Stored(j) \/ j = i
  BY <1>1, <1>2, <1>4, <1>5 DEF Stored
<1>11. \A j \in Ids \ {i} : Successors(j)' = IF j = p THEN {i} ELSE Successors(j)
  BY <1>1, <1>2, <1>4, <1>5, <1>10 DEF Successors, Stored
<1>12. Successors(i)' = {} \/ p = i
  BY <1>1, <1>2, <1>8 DEF Successors
<1>13. p # i
  BY <1>1, <1>4, <1>5
<1>14. \A h \in Actors \ {g} : Tips(h)' = Tips(h) /\ Roots(h)' = Roots(h)
  <2> SUFFICES ASSUME NEW h \in Actors \ {g} PROVE Tips(h)' = Tips(h) /\ Roots(h)' = Roots(h)
    OBVIOUS
  <2>1. i \notin Own(h) /\ p \notin Own(h)
    BY <1>1, <1>4, <1>5, <1>6 DEF Own
  <2>2. Tips(h)' = {j \in Own(h) : Successors(j)' = {}}
    BY <1>9 DEF Tips, Own
  <2>3. Tips(h) = {j \in Own(h) : Successors(j) = {}}
    BY DEF Tips, Own
  <2>4. Tips(h)' = Tips(h)
    BY <1>11, <2>1, <2>2, <2>3 DEF Own
  <2>5. Roots(h)' = Roots(h)
    BY <1>2, <1>1, <1>4, <1>5 DEF Roots
  <2> QED
    BY <2>4, <2>5
<1>15. Tips(g)' = {i} /\ p = Current(g) /\ \E r \in Ids : Roots(g)' = {r}
  <2>1. CASE p = None
    <3>1. Own(g) = {}
      BY <1>1, <1>4, <2>1 DEF IInv, OneLineage, Own
    <3>2. Own(g)' = {i}
      BY <1>9, <3>1
    <3>3. Roots(g)' = {i} /\ Tips(g)' = {i}
      BY <1>1, <1>2, <1>12, <1>13, <2>1, <3>2 DEF Roots, Tips, Own
    <3>4. Current(g) = None
      BY <1>1, <3>1, CurrentTip DEF IInv
    <3> QED
      BY <1>1, <2>1, <3>3, <3>4
  <2>2. CASE p # None
    <3>1. p \in Ids /\ p \in Own(g) /\ p \in Tips(g)
      BY <1>1, <1>4, <2>2 DEF Own, Tips
    <3>2. Current(g) = p /\ Tips(g) = {p}
      BY <1>1, <3>1, CurrentTip DEF IInv
    <3>3. Tips(g)' = {j \in Own(g) \cup {i} : Successors(j)' = {}}
      BY <1>9 DEF Tips, Own
    <3>4. Tips(g) = {j \in Own(g) : Successors(j) = {}}
      BY DEF Tips, Own
    <3>5. Tips(g)' = {i}
      BY <1>1, <1>6, <1>11, <1>12, <1>13, <3>2, <3>3, <3>4 DEF Own
    <3>6. Roots(g)' = Roots(g)
      BY <1>1, <1>2, <1>4, <1>5, <2>2 DEF Roots
    <3>7. \E r \in Ids : Roots(g) = {r}
      BY <1>1, <3>1 DEF IInv, OneLineage, Own
    <3> QED
      BY <3>2, <3>5, <3>6, <3>7
  <2> QED
    BY <2>1, <2>2
<1>16. Extends(q)
  BY <1>1, <1>6, <1>9, <1>14, <1>15 DEF Extends, g, i, p
<1>17. OneLineage'
  <2> SUFFICES ASSUME NEW h \in Actors, Own(h)' # {}
               PROVE  /\ \E r \in Ids : Roots(h)' = {r}
                      /\ \E t \in Ids : Tips(h)' = {t}
                      /\ \A j \in Own(h)' : claims'[j].pred \in Own(h)' \cup {None}
                      /\ \A j \in Own(h)' : \A k, l \in Successors(j)' : k = l
    BY DEF OneLineage, Own
  <2>1. \A j \in Own(h) : \A k, l \in Successors(j) : k = l
    BY DEF IInv, OneLineage, Own
  <2>2. \A j \in Own(h)' : \A k, l \in Successors(j)' : k = l
    BY <1>9, <1>11, <1>12, <1>13, <2>1 DEF Own
  <2>3. \A j \in Own(h)' : claims'[j].pred \in Own(h)' \cup {None}
    BY <1>1, <1>2, <1>4, <1>7, <1>9 DEF Own
  <2>4. CASE h = g
    BY <1>1, <1>15, <2>2, <2>3, <2>4
  <2>5. CASE h # g
    <3>1. Own(h) # {}
      BY <1>9, <2>5
    <3>2. (\E r \in Ids : Roots(h) = {r}) /\ (\E t \in Ids : Tips(h) = {t})
      BY <3>1 DEF IInv, OneLineage, Own
    <3> QED
      BY <1>14, <2>2, <2>3, <2>5, <3>2
  <2> QED
    BY <2>4, <2>5
<1> QED
  BY <1>3, <1>16, <1>17
LEMMA BatchCases ==
  ASSUME IInv, NEW s \in Slots, Batch(s)
  PROVE  \/ /\ UNCHANGED <<claims, audited>>
            /\ Goto(s, "raced")
         \/ /\ Extends(req[s]) /\ OneLineage'
            /\ claims' = [claims EXCEPT ![req[s].id] = Record(req[s])]
            /\ claims' \in [Ids -> Claim \cup {NoClaim}]
            /\ audited' = audited \cup {req[s].id}
            /\ Answer(s, "created", req[s].id) \/ Goto(s, "raced")
<1> DEFINE x == req[s]
<1>1. /\ x \in Request /\ x.actor \in Actors /\ x.address \in Addresses
      /\ x.at \in Stamps /\ x.id \in Ids
      /\ x.pred # None => claims[x.pred].actor = x.actor
  BY DEF IInv, TypeOK, Batch, At, Fits, FitsIn
<1> QED
  BY <1>1, InsertExtends DEF Batch

LEMMA BatchStep ==
  ASSUME IInv, NEW s \in Slots, Batch(s)
  PROVE  IInv'
<1> DEFINE x == req[s]
<1>1. x \in Request /\ FitsIn(x, claims) /\ x.pc = "batch"
  BY DEF IInv, TypeOK, Batch, At, Fits
<1>2. CASE UNCHANGED <<claims, audited>> /\ Goto(s, "raced")
  BY <1>1, <1>2, GotoStep
<1>3. CASE /\ Extends(x) /\ OneLineage'
           /\ claims' = [claims EXCEPT ![x.id] = Record(x)]
           /\ claims' \in [Ids -> Claim \cup {NoClaim}]
           /\ audited' = audited \cup {x.id}
           /\ Answer(s, "created", x.id) \/ Goto(s, "raced")
  <2>1. \A i \in Ids : claims[i].actor \in Actors => claims'[i] = claims[i]
    BY <1>3 DEF Extends, Own, IInv, TypeOK
  <2>2. ASSUME NEW q \in Request, req' = [req EXCEPT ![s] = q], FitsIn(q, claims')
        PROVE  IInv'
    <3>1. TypeOK'
      BY <1>3, <2>2 DEF IInv, TypeOK, Extends
    <3>2. ASSUME NEW t \in Slots PROVE Fits(req[t])'
      <4>1. CASE t = s
        BY <2>2, <4>1 DEF IInv, TypeOK, Fits
      <4>2. CASE t # s
        <5>1. req'[t] = req[t] /\ req[t] \in Request /\ FitsIn(req[t], claims)
          BY <2>2, <4>2 DEF IInv, TypeOK, Fits
        <5>2. FitsIn(req[t], claims')
          BY <2>1, <5>1 DEF FitsIn, Request, OrNone
        <5> QED
          BY <5>1, <5>2 DEF Fits
      <4> QED
        BY <4>1, <4>2
    <3> QED
      BY <1>3, <3>1, <3>2 DEF IInv
  <2>3. CASE Answer(s, "created", x.id)
    <3> DEFINE q == [x EXCEPT !.pc = "done", !.reply = "created", !.id = x.id]
    <3>1. q \in Request /\ q.pc = "done" /\ req' = [req EXCEPT ![s] = q]
      BY <1>1, <2>3 DEF Answer, Request, Pcs, Replies, OrNone
    <3> HIDE DEF q
    <3>2. FitsIn(q, claims')
      BY <3>1 DEF FitsIn
    <3> QED
      BY <2>2, <3>1, <3>2
  <2>4. CASE Goto(s, "raced")
    <3> DEFINE q == [x EXCEPT !.pc = "raced"]
    <3>1. /\ q \in Request /\ q.pc = "raced" /\ req' = [req EXCEPT ![s] = q]
          /\ q.actor = x.actor /\ q.address = x.address /\ q.at = x.at /\ q.id = x.id
      BY <1>1, <2>4 DEF Goto, Request, Pcs
    <3> HIDE DEF q
    <3>2. FitsIn(q, claims')
      BY <1>1, <3>1 DEF FitsIn
    <3> QED
      BY <2>2, <3>1, <3>2
  <2> QED
    BY <1>3, <2>3, <2>4
<1> QED
  BY <1>2, <1>3, BatchCases

-----------------------------------------------------------------------------
LEMMA StepIInv == IInv /\ [Next]_vars => IInv'
<1> SUFFICES ASSUME IInv, [Next]_vars PROVE IInv'
  OBVIOUS
<1>1. CASE UNCHANGED vars
  BY <1>1 DEF vars, IInv, TypeOK, OneLineage, Roots, Tips, Successors, Stored, Fits
<1>2. ASSUME NEW s \in Slots, Begin(s) \/ Serve(s) \/ Drop(s) PROVE IInv'
  <2>1. CASE Begin(s)
    BY <2>1, BeginStep
  <2>2. CASE ClaimCurrent(s)
    BY <2>2, CurrentStep
  <2>3. CASE SelectDigest(s) \/ SelectPredecessor(s) \/ CatchRaced(s) \/ CatchCompeting(s)
    BY <2>3, ReadStep
  <2>4. CASE Batch(s)
    BY <2>4, BatchStep
  <2>5. CASE Drop(s)
    BY <2>5, IdleStep DEF Drop
  <2> QED
    BY <1>2, <2>1, <2>2, <2>3, <2>4, <2>5 DEF Serve
<1> QED
  BY <1>1, <1>2 DEF Next

LEMMA Invariant == Spec => []IInv
BY InitIInv, StepIInv, PTL DEF Spec

\* Every row, audit event and request is well typed.
THEOREM TypeCorrect == Spec => []TypeOK
BY Invariant, PTL DEF IInv

\* However contributors, operators and retries race, an account's claims form
\* one lineage with one current claim.
THEOREM LineageStaysOne == Spec => []OneLineage
BY Invariant, PTL DEF IInv

-----------------------------------------------------------------------------
(* Refinement of ClaimRegister *)

LEMMA InitRegister == Init => Register!Init
<1> SUFFICES ASSUME Init PROVE Register!Init
  OBVIOUS
<1>1. \A i \in Ids : claims[i].actor = None /\ claims[i].pred = None
  BY DEF Init, NoClaim
<1>2. \A g \in Actors : Tips(g) = {}
  BY <1>1, RegistryAssumption DEF Tips
<1> QED
  BY <1>1, <1>2 DEF Register!Init, Current, Row

LEMMA StepRegister == IInv /\ [Next]_vars => [Register!Next]_(Register!vars)
<1> SUFFICES ASSUME IInv, [Next]_vars PROVE [Register!Next]_(Register!vars)
  OBVIOUS
<1>1. CASE UNCHANGED claims
  BY <1>1 DEF Register!vars, Current, Row, Tips, Successors, Stored
<1>2. ASSUME NEW s \in Slots, Batch(s), claims' # claims
      PROVE  [Register!Next]_(Register!vars)
  <2>1. PICK q \in Request :
          /\ Extends(q) /\ OneLineage'
          /\ claims' = [claims EXCEPT ![q.id] = Record(q)]
    BY <1>2, BatchCases DEF IInv, TypeOK
  <2> DEFINE g == q.actor
             i == q.id
  <2>2. g \in Actors /\ i \in Ids
    BY <2>1 DEF Extends
  <2>3. claims[i].actor = None
    BY <2>1 DEF Extends, Own, IInv, TypeOK, Claim, NoClaim
  <2>4. /\ [j \in Ids |-> claims'[j].actor] = [[j \in Ids |-> claims[j].actor] EXCEPT ![i] = g]
        /\ [j \in Ids |-> claims'[j].pred] = [[j \in Ids |-> claims[j].pred] EXCEPT ![i] = Current(g)]
    BY <2>1, <2>2 DEF Extends, Record, IInv, TypeOK
  <2>5. \A h \in Actors \ {g} : Current(h)' = Current(h)
    BY <2>1 DEF Extends, Current
  <2>6. Current(g)' = i
    BY <2>1 DEF Extends, Current, Row
  <2>7. [h \in Actors |-> Current(h)]' = [[h \in Actors |-> Current(h)] EXCEPT ![g] = i]
    BY <2>5, <2>6
  <2>8. Register!Append(g, i)
    BY <2>2, <2>3, <2>4, <2>7 DEF Register!Append
  <2> QED
    BY <2>2, <2>8 DEF Register!Next
<1>3. \A s \in Slots : Begin(s) \/ Drop(s) => UNCHANGED claims
  BY DEF Begin, ClaimBegin, RecoverBegin, Drop
<1>4. \A s \in Slots : Serve(s) /\ ~Batch(s) => UNCHANGED claims
  BY DEF Serve, ClaimCurrent, SelectDigest, SelectPredecessor, CatchRaced, CatchCompeting
<1> QED
  BY <1>1, <1>2, <1>3, <1>4 DEF Next, vars

\* The registry is a register per account that is replaced by compare-and-swap:
\* each new claim names the claim that was current when it was stored.
THEOREM RegistryImplementsRegister == Spec => ImplementsRegister
BY InitRegister, StepRegister, Invariant, PTL DEF Spec, ImplementsRegister, Register!Spec
-----------------------------------------------------------------------------
(* Answers *)

HoldsIn(q, rows, log) ==
  /\ q.pc # "done" => q.reply = None
  /\ q.reply \in {"created", "existing"} =>
       /\ q.id \in log /\ q.id \in Ids /\ q.actor # None
       /\ rows[q.id].actor = q.actor /\ rows[q.id].address = q.address
       /\ q.reply = "created" => rows[q.id] = Record(q)

AInv ==
  /\ \A i \in Ids : Stored(i) => i \in audited
  /\ \A s \in Slots : HoldsIn(req[s], claims, audited)

LEMMA AInvStep ==
  ASSUME IInv, AInv, NEW s \in Slots, NEW q, req' = [req EXCEPT ![s] = q],
         \A i \in Ids : Stored(i) => claims'[i] = claims[i],
         \A i \in Ids : Stored(i)' => i \in audited',
         audited \subseteq audited', HoldsIn(q, claims', audited')
  PROVE  AInv'
<1>1. \A t \in Slots : req'[t] = IF t = s THEN q ELSE req[t]
  BY DEF IInv, TypeOK
<1>2. \A t \in Slots : HoldsIn(req[t], claims, audited) => HoldsIn(req[t], claims', audited')
  BY DEF HoldsIn, Stored
<1> QED
  BY <1>1, <1>2 DEF AInv
\* A request that has not succeeded, or that is not answered yet.
LEMMA Unanswered ==
  ASSUME NEW q, NEW rows, NEW log, q.reply \notin {"created", "existing"},
         q.pc # "done" => q.reply = None
  PROVE  HoldsIn(q, rows, log)
BY DEF HoldsIn

LEMMA ReadAInv ==
  ASSUME IInv, AInv, NEW s \in Slots, NEW q, req' = [req EXCEPT ![s] = q],
         UNCHANGED <<claims, audited>>, HoldsIn(q, claims, audited)
  PROVE  AInv'
BY AInvStep DEF AInv, Stored

LEMMA GotoAInv ==
  ASSUME IInv, AInv, NEW s \in Slots, NEW pc, Goto(s, pc), req[s].pc # "done",
         \A i \in Ids : Stored(i) => claims'[i] = claims[i],
         \A i \in Ids : Stored(i)' => i \in audited',
         audited \subseteq audited'
  PROVE  AInv'
<1> DEFINE q == [req[s] EXCEPT !.pc = pc]
<1>1. q.reply = None
  BY DEF AInv, HoldsIn, IInv, TypeOK, Request
<1>2. req' = [req EXCEPT ![s] = q]
  BY DEF Goto
<1> HIDE DEF q
<1>3. HoldsIn(q, claims', audited')
  BY <1>1, RegistryAssumption, Unanswered
<1> QED
  BY <1>2, <1>3, AInvStep

LEMMA RefuseAInv ==
  ASSUME IInv, AInv, NEW s \in Slots, NEW a \in {"conflict", "error"}, Refuse(s, a),
         UNCHANGED <<claims, audited>>
  PROVE  AInv'
<1> DEFINE q == [Idle EXCEPT !.pc = "done", !.reply = a]
<1>1. q.reply = a /\ q.pc = "done"
  BY DEF Idle
<1>2. req' = [req EXCEPT ![s] = q]
  BY DEF Refuse
<1> HIDE DEF q
<1>3. HoldsIn(q, claims, audited)
  BY <1>1, Unanswered
<1> QED
  BY <1>2, <1>3, ReadAInv

\* An answer that names a stored claim of the account and address asked for.
LEMMA AnswerAInv ==
  ASSUME IInv, AInv, NEW s \in Slots, NEW i \in Ids, Answer(s, "existing", i),
         UNCHANGED <<claims, audited>>, req[s].actor \in Actors,
         claims[i].actor = req[s].actor, claims[i].address = req[s].address
  PROVE  AInv'
<1> DEFINE q == [req[s] EXCEPT !.pc = "done", !.reply = "existing", !.id = i]
<1>1. q.pc = "done" /\ q.reply = "existing" /\ q.id = i /\ q.actor = req[s].actor
        /\ q.address = req[s].address
  BY DEF IInv, TypeOK, Request
<1>2. req' = [req EXCEPT ![s] = q]
  BY DEF Answer
<1> HIDE DEF q
<1>3. i \in audited /\ req[s].actor # None
  BY RegistryAssumption DEF AInv, Stored
<1>4. HoldsIn(q, claims, audited)
  BY <1>1, <1>3 DEF HoldsIn
<1> QED
  BY <1>2, <1>4, ReadAInv

LEMMA BatchAInv ==
  ASSUME IInv, AInv, NEW s \in Slots, Batch(s)
  PROVE  AInv'
<1> DEFINE x == req[s]
<1>1. x \in Request /\ x.pc = "batch" /\ x.actor \in Actors
  BY DEF IInv, TypeOK, Batch, At, Fits, FitsIn
<1>2. CASE UNCHANGED <<claims, audited>> /\ Goto(s, "raced")
  BY <1>1, <1>2, GotoAInv DEF AInv, Stored
<1>3. CASE /\ Extends(x)
           /\ claims' = [claims EXCEPT ![x.id] = Record(x)]
           /\ audited' = audited \cup {x.id}
           /\ Answer(s, "created", x.id) \/ Goto(s, "raced")
  <2>1. x.id \in Ids /\ claims[x.id].actor = None
    BY <1>3 DEF Extends, Own, IInv, TypeOK, Claim, NoClaim
  <2>2. \A i \in Ids : claims'[i] = IF i = x.id THEN Record(x) ELSE claims[i]
    BY <1>3 DEF IInv, TypeOK
  <2>3. \A i \in Ids : Stored(i) => claims'[i] = claims[i]
    BY <2>1, <2>2 DEF Stored
  <2>4. \A i \in Ids : Stored(i)' => i \in audited'
    BY <1>3, <2>2 DEF AInv, Stored
  <2>5. CASE Goto(s, "raced")
    BY <1>1, <1>3, <2>3, <2>4, <2>5, GotoAInv
  <2>6. CASE Answer(s, "created", x.id)
    <3> DEFINE q == [x EXCEPT !.pc = "done", !.reply = "created", !.id = x.id]
    <3>1. /\ q.pc = "done" /\ q.reply = "created" /\ q.id = x.id /\ q.actor = x.actor
          /\ q.address = x.address /\ Record(q) = Record(x)
      BY <1>1 DEF Request, Record
    <3>2. req' = [req EXCEPT ![s] = q]
      BY <2>6 DEF Answer
    <3> HIDE DEF q
    <3>3. claims'[x.id] = Record(x) /\ Record(x).actor = x.actor /\ Record(x).address = x.address
      BY <2>1, <2>2 DEF Record
    <3>4. HoldsIn(q, claims', audited')
      BY <1>1, <1>3, <2>1, <3>1, <3>3, RegistryAssumption DEF HoldsIn
    <3> QED
      BY <1>3, <2>3, <2>4, <3>2, <3>4, AInvStep
  <2> QED
    BY <1>3, <2>5, <2>6
<1> QED
  BY <1>2, <1>3, BatchCases

LEMMA IdleAInv ==
  ASSUME IInv, AInv, NEW s \in Slots, NEW q, req' = [req EXCEPT ![s] = q],
         UNCHANGED <<claims, audited>>, q.reply = None
  PROVE  AInv'
BY RegistryAssumption, Unanswered, ReadAInv

LEMMA StepAInv == IInv /\ AInv /\ [Next]_vars => AInv'
<1> SUFFICES ASSUME IInv, AInv, [Next]_vars PROVE AInv'
  OBVIOUS
<1>1. CASE UNCHANGED vars
  BY <1>1 DEF vars, AInv, Stored, HoldsIn
<1>2. ASSUME NEW s \in Slots, Begin(s) \/ Drop(s) PROVE AInv'
  <2>1. CASE Drop(s)
    <3>1. req' = [req EXCEPT ![s] = Idle] /\ Idle.reply = None /\ UNCHANGED <<claims, audited>>
      BY <2>1 DEF Drop, Idle
    <3> QED
      BY <3>1, IdleAInv
  <2>2. ASSUME NEW g, NEW w, NEW p, ClaimBegin(s, g, w, p) PROVE AInv'
    <3> DEFINE q == [Idle EXCEPT !.pc = "current", !.actor = g, !.address = w, !.pred = p]
    <3>1. q.reply = None /\ req' = [req EXCEPT ![s] = q] /\ UNCHANGED <<claims, audited>>
      BY <2>2 DEF ClaimBegin, Idle
    <3> HIDE DEF q
    <3> QED
      BY <3>1, IdleAInv
  <2>3. ASSUME NEW g, NEW w, NEW p, NEW t, NEW i, RecoverBegin(s, g, w, p, t, i) PROVE AInv'
    <3> DEFINE q == [Idle EXCEPT !.pc = "digest", !.actor = g, !.address = w, !.pred = p,
                                 !.at = t, !.id = i]
    <3>1. q.reply = None /\ req' = [req EXCEPT ![s] = q] /\ UNCHANGED <<claims, audited>>
      BY <2>3 DEF RecoverBegin, Idle
    <3> HIDE DEF q
    <3> QED
      BY <3>1, IdleAInv
  <2> QED
    BY <1>2, <2>1, <2>2, <2>3 DEF Begin
<1>3. ASSUME NEW s \in Slots, Serve(s) PROVE AInv'
  <2> DEFINE x == req[s]
  <2>1. x \in Request /\ FitsIn(x, claims)
    BY DEF IInv, TypeOK, Fits
  <2>2. CASE ClaimCurrent(s)
    <3>1. x.pc = "current" /\ x.actor \in Actors /\ UNCHANGED <<claims, audited>>
      BY <2>1, <2>2 DEF ClaimCurrent, At, FitsIn
    <3>2. CASE Refuse(s, "conflict")
      BY <3>1, <3>2, RefuseAInv
    <3>3. CASE /\ Current(x.actor) # None
               /\ claims[Current(x.actor)].address = x.address
               /\ Answer(s, "existing", Current(x.actor))
      <4>1. Current(x.actor) \in Ids /\ claims[Current(x.actor)].actor = x.actor
        BY <3>1, <3>3, CurrentTip DEF IInv, Own
      <4> QED
        BY <3>1, <3>3, <4>1, AnswerAInv
    <3>4. ASSUME NEW t, NEW i,
                 req' = [req EXCEPT ![s] = [@ EXCEPT !.pc = "digest", !.at = t, !.id = i]]
          PROVE  AInv'
      <4> DEFINE q == [x EXCEPT !.pc = "digest", !.at = t, !.id = i]
      <4>1. q.reply = None
        BY <2>1, <3>1 DEF AInv, HoldsIn, Request
      <4>2. req' = [req EXCEPT ![s] = q]
        BY <3>4
      <4> HIDE DEF q
      <4> QED
        BY <3>1, <4>1, <4>2, IdleAInv
    <3> QED
      BY <2>2, <3>2, <3>3, <3>4 DEF ClaimCurrent
  <2>3. ASSUME x.pc \in {"digest", "raced"}, UNCHANGED <<claims, audited>>,
               NEW i \in Ids, claims[i] = Record(x), Answer(s, "existing", i)
        PROVE  AInv'
    BY <2>1, <2>3, AnswerAInv DEF FitsIn, Record
  <2>4. CASE SelectDigest(s)
    BY <2>3, <2>4, GotoAInv DEF SelectDigest, At, AInv, Stored
  <2>5. CASE SelectPredecessor(s)
    BY <2>5, GotoAInv, RefuseAInv DEF SelectPredecessor, At, AInv, Stored
  <2>6. CASE CatchRaced(s)
    BY <2>3, <2>6, GotoAInv DEF CatchRaced, Raced, At, AInv, Stored
  <2>7. CASE CatchCompeting(s)
    BY <2>7, RefuseAInv DEF CatchCompeting
  <2>8. CASE Batch(s)
    BY <2>8, BatchAInv
  <2> QED
    BY <1>3, <2>2, <2>4, <2>5, <2>6, <2>7, <2>8 DEF Serve
<1> QED
  BY <1>1, <1>2, <1>3 DEF Next

\* A success names a stored, audited claim of the account and address asked
\* for, also when the answer of the first attempt was lost.
THEOREM AnswersStayTrue == Spec => []AnswersHold
<1>1. Init => AInv
  BY RegistryAssumption DEF Init, AInv, HoldsIn, Idle, NoClaim, Stored
<1>2. AInv => AnswersHold
  BY DEF AInv, HoldsIn, AnswersHold
<1> QED
  BY <1>1, <1>2, StepAInv, Invariant, PTL DEF Spec
=============================================================================
