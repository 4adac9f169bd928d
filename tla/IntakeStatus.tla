----------------------------- MODULE IntakeStatus -----------------------------
(***************************************************************************)
(* The observation of GitHub's private vulnerability reporting that opens  *)
(* and closes the optional trace intake: renewed by the identity Worker's  *)
(* hourly cron (renewPrivateIntakeStatus, dated when the cron started) and *)
(* by an operator's script (scripts/renew-private-intake.mjs, dated when   *)
(* the answer arrived), written to one row, and read for 24 hours by the   *)
(* Pages API (privateIntakeStatus of functions/api/v1).  Renewals overlap, *)
(* are slow, fail, and reach D1 in any order.                              *)
(*                                                                         *)
(* Abstractions.  Time is counted in ticks.  A refused token's anonymous   *)
(* retry is a slower answer.  Every failure is a renewal that writes       *)
(* nothing.                                                                *)
(***************************************************************************)
EXTENDS Integers

CONSTANTS
  Renewals,
  Validity,    \* 24 hours
  Tolerance,   \* how far in the future a row may be dated: five minutes
  FetchLimit,  \* the script's timeout of thirty seconds
  Skew,        \* how far the clock of the script's machine may be off
  MaxTime,     \* bound on the clock
  None

VARIABLES
  now,
  enabled,   \* external: the setting at GitHub
  lastHeld,  \* for each value, the last time GitHub had it
  row,       \* private_intake_status
  newest,    \* the latest date that a renewal brought to the row
  renewals

vars == <<now, enabled, lastHeld, row, newest, renewals>>

Row == [enabled: BOOLEAN, verifiedAt: -Skew..(MaxTime + Skew)]
Renewal ==
  [kind: {"cron", "script"}, startedAt: 0..MaxTime, answer: BOOLEAN \cup {None},
   verifiedAt: {None} \cup (-Skew)..(MaxTime + Skew)]

\* lastHeld: before the beginning for a value GitHub has not had yet.
Init ==
  /\ now = 0
  /\ enabled \in BOOLEAN
  /\ lastHeld = [b \in BOOLEAN |-> IF b = enabled THEN 0 ELSE -(Validity + FetchLimit + Skew + 1)]
  /\ row = None
  /\ newest = None
  /\ renewals = [r \in Renewals |-> None]

-----------------------------------------------------------------------------
Tick ==
  /\ now < MaxTime
  /\ now' = now + 1
  /\ lastHeld' = [lastHeld EXCEPT ![enabled] = now + 1]
  /\ UNCHANGED <<enabled, row, newest, renewals>>

\* external
Toggle ==
  /\ enabled' = ~enabled
  /\ lastHeld' = [lastHeld EXCEPT ![~enabled] = now]
  /\ UNCHANGED <<now, row, newest, renewals>>

\* The cron's date is the start of the invocation.
Start(r, kind) ==
  /\ renewals[r] = None
  /\ renewals' = [renewals EXCEPT ![r] =
       [kind |-> kind, startedAt |-> now, answer |-> None,
        verifiedAt |-> IF kind = "cron" THEN now ELSE None]]
  /\ UNCHANGED <<now, enabled, lastHeld, row, newest>>

\* GitHub answers with the setting it has now.
Answered(r) ==
  /\ renewals[r] # None
  /\ renewals[r].answer = None
  /\ renewals[r].kind = "script" => now <= renewals[r].startedAt + FetchLimit
  /\ renewals' = [renewals EXCEPT ![r].answer = enabled]
  /\ UNCHANGED <<now, enabled, lastHeld, row, newest>>

\* The script reads its own clock when the whole answer is there.
Date(r) ==
  /\ renewals[r] # None
  /\ renewals[r].answer # None /\ renewals[r].verifiedAt = None
  /\ now <= renewals[r].startedAt + FetchLimit
  /\ \E at \in (now - Skew)..(now + Skew) :
       renewals' = [renewals EXCEPT ![r].verifiedAt = at]
  /\ UNCHANGED <<now, enabled, lastHeld, row, newest>>

Dated(r) ==
  /\ renewals[r] # None
  /\ renewals[r].answer # None /\ renewals[r].verifiedAt # None

Newest(at) == IF newest # None /\ newest >= at THEN newest ELSE at

\* As if the upsert had no WHERE.
WriteAnyOrder(r) ==
  /\ Dated(r)
  /\ row' = [enabled |-> renewals[r].answer, verifiedAt |-> renewals[r].verifiedAt]
  /\ newest' = Newest(renewals[r].verifiedAt)
  /\ renewals' = [renewals EXCEPT ![r] = None]
  /\ UNCHANGED <<now, enabled, lastHeld>>

\* The upsert keeps the row that is dated later.
Write(r) ==
  /\ Dated(r)
  /\ row' = IF row # None /\ row.verifiedAt >= renewals[r].verifiedAt
              THEN row
              ELSE [enabled |-> renewals[r].answer, verifiedAt |-> renewals[r].verifiedAt]
  /\ newest' = Newest(renewals[r].verifiedAt)
  /\ renewals' = [renewals EXCEPT ![r] = None]
  /\ UNCHANGED <<now, enabled, lastHeld>>

\* Unreachable, rate limited, refused, malformed or killed.
Fail(r) ==
  /\ renewals[r] # None
  /\ renewals' = [renewals EXCEPT ![r] = None]
  /\ UNCHANGED <<now, enabled, lastHeld, row, newest>>

Next ==
  \/ Tick \/ Toggle
  \/ \E r \in Renewals :
       \/ \E kind \in {"cron", "script"} : Start(r, kind)
       \/ Answered(r) \/ Date(r) \/ Write(r) \/ Fail(r)

Spec == Init /\ [][Next]_vars

-----------------------------------------------------------------------------
TypeOK ==
  /\ now \in 0..MaxTime
  /\ enabled \in BOOLEAN
  /\ row \in {None} \cup Row
  /\ newest \in {None} \cup (-Skew)..(MaxTime + Skew)
  /\ renewals \in [Renewals -> {None} \cup Renewal]

\* privateIntakeStatus answers "verified".
Served ==
  /\ row # None
  /\ now - row.verifiedAt >= -Tolerance
  /\ now - row.verifiedAt <= Validity

\* What the API says of the intake GitHub had within a day of now (and the script's
\* timeout and clock error), however slow and out of order the renewals were: when
\* GitHub closes it, or nobody can ask, the API stops saying it is open.  And GitHub had
\* it since the newest observation that ever arrived (up to the same two): no renewal
\* that comes late puts back what a newer one replaced.
ServedRecently ==
  Served =>
    /\ now - lastHeld[row.enabled] <= Validity + FetchLimit + Skew
    /\ newest - lastHeld[row.enabled] <= FetchLimit + Skew
=============================================================================
