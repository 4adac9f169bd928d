---------------------------- MODULE ReportMutex -----------------------------
(***************************************************************************)
(* What the live report lock promises: a report works only while the lock  *)
(* names it, takes the lock only when it is free, and loses it only by its *)
(* own release, by giving up (the lock then stays taken) or by ending.     *)
(***************************************************************************)
CONSTANTS Report, None

VARIABLES
  holder,   \* the report the lock names, or None
  working,  \* reports that took the lock and have not left
  ended     \* reports whose process is gone

vars == <<holder, working, ended>>

Init == holder = None /\ working = {} /\ ended = {}

Acquire(r) ==
  /\ holder = None /\ r \notin ended
  /\ holder' = r
  /\ working' = working \cup {r}
  /\ UNCHANGED ended

Release(r) ==
  /\ holder = r /\ r \in working
  /\ holder' = None
  /\ working' = working \ {r}
  /\ UNCHANGED ended

\* A release that may not be made yet: the report leaves, the lock stays.
GiveUp(r) ==
  /\ holder = r /\ r \in working
  /\ working' = working \ {r}
  /\ UNCHANGED <<holder, ended>>

Reclaim ==
  /\ holder \in ended
  /\ holder' = None
  /\ UNCHANGED <<working, ended>>

End(r) ==
  /\ ended' = ended \cup {r}
  /\ working' = working \ {r}
  /\ UNCHANGED holder

Next == Reclaim \/ \E r \in Report : Acquire(r) \/ Release(r) \/ GiveUp(r) \/ End(r)

Spec == Init /\ [][Next]_vars
=============================================================================
