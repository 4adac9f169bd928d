--------------------------- MODULE WalletRegistry ---------------------------
(***************************************************************************)
(* The wallet registry (backend/trace/handler.ts, createWalletClaim and    *)
(* getCurrentWalletClaim of cloudflare-persistence.ts, and the indexes of  *)
(* migrations/0003_wallet_claim_registry.sql).  A contributor replaces the *)
(* current claim, an operator migrates or recovers one; each request is a  *)
(* process in a slot with one action per D1 statement or batch.            *)
(*                                                                         *)
(* Abstractions.  A record digest is the record.  An address stands for    *)
(* the address, login and source that the record also carries.  The clock  *)
(* and the operator's observedAt are any stamp: no statement compares them *)
(* but the ORDER BY of getCurrentWalletClaim, which orders at most one row *)
(* (OneLineage).                                                           *)
(***************************************************************************)
CONSTANTS
  Actors,     \* GitHub account ids
  Ids,        \* claim ids (randomId)
  Addresses,
  Stamps,     \* observed_at
  Slots,      \* requests in flight
  None        \* SQL NULL, and a row that does not exist

ASSUME RegistryAssumption ==
  /\ None \notin Actors \cup Ids \cup Addresses \cup Stamps
  /\ None \notin {"created", "existing"}

VARIABLES
  claims,   \* wallet_claims
  audited,  \* claims with a wallet_claim event in private_audit_events
  req       \* the request in each slot

vars == <<claims, audited, req>>

OrNone(S) == S \cup {None}
Claim ==
  [actor: Actors, address: Addresses, at: Stamps, pred: OrNone(Ids)]
NoClaim == [actor |-> None, address |-> None, at |-> None, pred |-> None]

Pcs ==
  {"idle", "done", "current", "digest", "predecessor", "batch", "raced", "competing"}
Replies == {"created", "existing", "conflict", "error"}
Request ==
  [pc: Pcs, actor: OrNone(Actors), address: OrNone(Addresses), at: OrNone(Stamps),
   pred: OrNone(Ids), id: OrNone(Ids), reply: OrNone(Replies)]
Idle ==
  [pc |-> "idle", actor |-> None, address |-> None, at |-> None, pred |-> None,
   id |-> None, reply |-> None]

Init ==
  /\ claims = [i \in Ids |-> NoClaim]
  /\ audited = {}
  /\ req = [s \in Slots |-> Idle]

Stored(i) == claims[i].actor # None
Successors(i) == {j \in Ids : Stored(j) /\ claims[j].pred = i}
Tips(g) == {i \in Ids : claims[i].actor = g /\ Successors(i) = {}}
Roots(g) == {i \in Ids : claims[i].actor = g /\ claims[i].pred = None}

\* getCurrentWalletClaim: the row of the SELECT, LIMIT 1, if there is one.
Row(S) == IF S = {} THEN None ELSE CHOOSE i \in S : TRUE
Current(g) == Row(Tips(g))

\* randomId() is neither stored nor drawn by another request.
FreshIds == {i \in Ids : ~Stored(i) /\ \A s \in Slots : req[s].id # i}

RecordUnstamped(q) ==
  [actor |-> q.actor, address |-> q.address, at |-> None, pred |-> q.pred]
\* The row that a request inserts, and what its digest covers.
Record(q) == [actor |-> q.actor, address |-> q.address, at |-> q.at, pred |-> q.pred]

At(s, pc) == req[s].pc = pc
Free(s) == req[s].pc \in {"idle", "done"}
Goto(s, pc) == req' = [req EXCEPT ![s].pc = pc]
Answer(s, reply, i) ==
  req' = [req EXCEPT ![s] = [@ EXCEPT !.pc = "done", !.reply = reply, !.id = i]]
Refuse(s, reply) ==
  req' = [req EXCEPT ![s] = [Idle EXCEPT !.pc = "done", !.reply = reply]]

\* The Worker is evicted or the connection is lost: nothing more happens.
Drop(s) ==
  /\ ~Free(s)
  /\ req' = [req EXCEPT ![s] = Idle]
  /\ UNCHANGED <<claims, audited>>

-----------------------------------------------------------------------------
\* POST wallet-claims: the client names the claim it believes is current.
ClaimBegin(s, g, w, p) ==
  /\ Free(s)
  /\ req' = [req EXCEPT ![s] = [Idle EXCEPT !.pc = "current", !.actor = g,
                                            !.address = w, !.pred = p]]
  /\ UNCHANGED <<claims, audited>>

\* The operator's route has no check against the current claim.
RecoverBegin(s, g, w, p, t, i) ==
  /\ Free(s)
  /\ i \in FreshIds
  /\ req' = [req EXCEPT ![s] = [Idle EXCEPT !.pc = "digest", !.actor = g,
                                            !.address = w, !.pred = p, !.at = t,
                                            !.id = i]]
  /\ UNCHANGED <<claims, audited>>

ClaimCurrent(s) ==
  LET q == req[s]
      current == Current(q.actor)
  IN  /\ At(s, "current")
      /\ \/ q.pred # current /\ Refuse(s, "conflict")
         \/ /\ q.pred = current
            /\ current # None
            /\ claims[current].address = q.address
            /\ Answer(s, "existing", current)
         \/ /\ q.pred = current
            /\ current # None => claims[current].address # q.address
            /\ \E t \in Stamps, i \in FreshIds :
                 req' = [req EXCEPT ![s] = [@ EXCEPT !.pc = "digest", !.at = t, !.id = i]]
      /\ UNCHANGED <<claims, audited>>

SelectDigest(s) ==
  LET q == req[s]
      same == {i \in Ids : claims[i] = Record(q)}
  IN  /\ At(s, "digest")
      /\ \/ \E i \in same : Answer(s, "existing", i)
         \/ /\ same = {}
            /\ IF q.pred = None THEN Goto(s, "batch") ELSE Goto(s, "predecessor")
      /\ UNCHANGED <<claims, audited>>

SelectPredecessor(s) ==
  LET q == req[s]
  IN  /\ At(s, "predecessor")
      /\ IF claims[q.pred].actor = q.actor
         THEN Goto(s, "batch")
         ELSE Refuse(s, "conflict")
      /\ UNCHANGED <<claims, audited>>

InsertableFork(q) ==
  /\ ~Stored(q.id)
  /\ \A i \in Ids : claims[i] # Record(q)
  /\ q.pred = None => Roots(q.actor) = {}
  /\ q.pred # None => Stored(q.pred)
InsertableAnyRoot(q) ==
  /\ ~Stored(q.id)
  /\ \A i \in Ids : claims[i] # Record(q)
  /\ q.pred # None => Stored(q.pred) /\ Successors(q.pred) = {}
\* The primary key, the foreign key and the unique indexes on the digest, on
\* an actor's root and on a predecessor.
Insertable(q) ==
  /\ ~Stored(q.id)
  /\ \A i \in Ids : claims[i] # Record(q)
  /\ q.pred = None => Roots(q.actor) = {}
  /\ q.pred # None => Stored(q.pred) /\ Successors(q.pred) = {}

\* Claim and audit event commit together; the answer of a committed batch may
\* be lost, and a batch may fail by itself.
Batch(s) ==
  LET q == req[s]
  IN  /\ At(s, "batch")
      /\ \/ /\ Insertable(q)
            /\ claims' = [claims EXCEPT ![q.id] = Record(q)]
            /\ audited' = audited \cup {q.id}
            /\ Answer(s, "created", q.id) \/ Goto(s, "raced")
         \/ /\ UNCHANGED <<claims, audited>>
            /\ Goto(s, "raced")

RacedAnySibling(q) == {i \in Ids : Stored(i) /\ claims[i].pred = q.pred}
\* A request that lost to itself, or to the same record, is answered with it.
Raced(q) == {i \in Ids : claims[i] = Record(q)}

CatchRaced(s) ==
  LET q == req[s]
  IN  /\ At(s, "raced")
      /\ \/ \E i \in Raced(q) : Answer(s, "existing", i)
         \/ Raced(q) = {} /\ Goto(s, "competing")
      /\ UNCHANGED <<claims, audited>>

\* Another claim in this one's place is a conflict; none is a server error.
CatchCompeting(s) ==
  LET q == req[s]
      rivals == IF q.pred = None THEN Roots(q.actor) ELSE Successors(q.pred)
  IN  /\ At(s, "competing")
      /\ IF rivals # {} THEN Refuse(s, "conflict") ELSE Refuse(s, "error")
      /\ UNCHANGED <<claims, audited>>

-----------------------------------------------------------------------------
Begin(s) ==
  \E g \in Actors, w \in Addresses, p \in OrNone(Ids) :
    \/ ClaimBegin(s, g, w, p)
    \/ \E t \in Stamps, i \in Ids : RecoverBegin(s, g, w, p, t, i)
Serve(s) ==
  \/ ClaimCurrent(s) \/ SelectDigest(s) \/ SelectPredecessor(s)
  \/ Batch(s) \/ CatchRaced(s) \/ CatchCompeting(s)

Next == \E s \in Slots : Begin(s) \/ Serve(s) \/ Drop(s)

Spec == Init /\ [][Next]_vars

-----------------------------------------------------------------------------
(* Properties *)

\* Rows and requests have their types, and an absent row is blank.
TypeOK ==
  /\ claims \in [Ids -> Claim \cup {NoClaim}]
  /\ audited \subseteq Ids
  /\ req \in [Slots -> Request]

\* An account with claims has one lineage: one root, one tip, every other
\* claim superseded once and by the same account's next claim, whichever of
\* contributor, operator and retries raced.
OneLineage ==
  \A g \in Actors :
    LET own == {i \in Ids : claims[i].actor = g} IN
    own # {} =>
      /\ \E r \in Ids : Roots(g) = {r}
      /\ \E t \in Ids : Tips(g) = {t}
      /\ \A i \in own :
           /\ claims[i].pred \in own \cup {None}
           /\ \A j, k \in Successors(i) : j = k

\* A success names a stored, audited claim of this account and address; one
\* that was created supersedes exactly the claim the request named.
AnswersHold ==
  \A s \in Slots :
    LET q == req[s] IN
    q.reply \in {"created", "existing"} =>
      /\ q.id \in audited
      /\ claims[q.id].actor = q.actor /\ claims[q.id].address = q.address
      /\ q.reply = "created" => claims[q.id] = Record(q)

\* The registry implements a register that is replaced by compare-and-swap.
Register == INSTANCE ClaimRegister WITH
  current <- [g \in Actors |-> Current(g)],
  owner <- [i \in Ids |-> claims[i].actor],
  prev <- [i \in Ids |-> claims[i].pred]
ImplementsRegister == Register!Spec
=============================================================================
