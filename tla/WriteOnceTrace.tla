--------------------------- MODULE WriteOnceTrace ---------------------------
(***************************************************************************)
(* What the private trace backend promises about a run, with no tables, no *)
(* requests and no clock.  A run is opened once, is given one trace digest *)
(* once, and is sealed once; a digest can be given to a run only when its  *)
(* bytes are stored; stored bytes are permanent.  TraceBackend.tla is      *)
(* shown to implement this module.                                         *)
(*                                                                         *)
(* External contract: backend/trace/README.md, "Storage contract".         *)
(***************************************************************************)
CONSTANTS Runs, Digests, None

VARIABLES
  opened,    \* runs that exist
  trace,     \* the digest a run carries, None before the upload
  sealed,    \* finalized runs
  stored     \* digests whose bytes are in the bucket

vars == <<opened, trace, sealed, stored>>

Init ==
  /\ opened = {}
  /\ trace = [r \in Runs |-> None]
  /\ sealed = {}
  /\ stored = {}

Open(r) ==
  /\ r \notin opened
  /\ opened' = opened \cup {r}
  /\ UNCHANGED <<trace, sealed, stored>>

Store(d) ==
  /\ stored' = stored \cup {d}
  /\ UNCHANGED <<opened, trace, sealed>>

Attach(r, d) ==
  /\ r \in opened \ sealed
  /\ trace[r] = None
  /\ d \in stored
  /\ trace' = [trace EXCEPT ![r] = d]
  /\ UNCHANGED <<opened, sealed, stored>>

Seal(r) ==
  /\ r \in opened
  /\ trace[r] # None
  /\ sealed' = sealed \cup {r}
  /\ UNCHANGED <<opened, trace, stored>>

Next ==
  \/ \E r \in Runs : Open(r) \/ Seal(r)
  \/ \E d \in Digests : Store(d)
  \/ \E r \in Runs, d \in Digests : Attach(r, d)

Spec == Init /\ [][Next]_vars
=============================================================================
