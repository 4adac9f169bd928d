----------------------------- MODULE FixedWindow -----------------------------
(***************************************************************************)
(* The exact fixed-window counters of identity_rate_limits                 *)
(* (workers/identity/rate-limit.ts), as the public verification endpoints  *)
(* use them (backend/trace/verification-admission.ts): a call is counted in*)
(* the one global window and, when that admits it, in the window of its    *)
(* client's bucket.  Callers date a call before they count it, so counts   *)
(* reach D1 late and out of order; the hourly cleanup deletes expired rows *)
(* with a date of its own.  The OAuth endpoints of the identity Worker     *)
(* count one window in the same way.                                       *)
(*                                                                         *)
(* Abstractions.  Time is counted in ticks.  A count stops at one above the*)
(* limit: it is only compared with the limit.  window_started_at is        *)
(* expires_at less the window.  A caller that gives up after two seconds   *)
(* shows in nothing: its call is counted on, as if it still waited.        *)
(*                                                                         *)
(* Assumption.  A statement reaches D1 within MaxDelay of the call's date. *)
(***************************************************************************)
EXTENDS Naturals, FiniteSets, Sequences

CONSTANTS
  Keys,      \* key_hash: of the scope and the principal or bucket
  Limit,     \* of each key
  Paths,     \* the keys a call is counted in, in order
  Calls,
  Window,    \* windowSeconds
  MaxDelay,
  MaxTime,   \* bound on the clock
  None

VARIABLES
  now,
  rows,     \* identity_rate_limits
  cleanup,  \* the date of the cleanup in flight
  calls,
  admitted  \* what was let through, for one window's length

vars == <<now, rows, cleanup, calls, admitted>>

Time == 0..MaxTime
Row == [count: Nat \ {0}, expiresAt: 0..(MaxTime + Window)]
Call == [date: Time, path: Paths, passed: Nat]

Init ==
  /\ now = 0
  /\ rows = [k \in Keys |-> None]
  /\ cleanup = None
  /\ calls = [c \in Calls |-> None]
  /\ admitted = {}

-----------------------------------------------------------------------------
\* The assumption on delays holds back the clock.
Tick ==
  /\ now < MaxTime
  /\ \A c \in Calls : calls[c] # None => now < calls[c].date + MaxDelay
  /\ cleanup # None => now < cleanup + MaxDelay
  /\ now' = now + 1
  /\ admitted' = {a \in admitted : a.at + Window > now + 1}
  /\ UNCHANGED <<rows, cleanup, calls>>

Begin(c, p) ==
  /\ calls[c] = None
  /\ calls' = [calls EXCEPT ![c] = [date |-> now, path |-> p, passed |-> 0]]
  /\ UNCHANGED <<now, rows, cleanup, admitted>>

NextKey(c) == calls[c].path[calls[c].passed + 1]

\* As if window_started_at were compared.
ExpiredByStart(row, date) == row = None \/ row.expiresAt <= date + Window

Expired(row, date) == row = None \/ row.expiresAt <= date

\* The upsert.
Counted(k, date) ==
  IF Expired(rows[k], date)
    THEN [count |-> 1, expiresAt |-> date + Window]
    ELSE [rows[k] EXCEPT !.count = IF @ > Limit[k] THEN @ ELSE @ + 1]

\* What the row let through now, with the window and the count it had.
Admission(k, row) ==
  [key |-> k, at |-> now, nth |-> Cardinality({a \in admitted : a.key = k /\ a.at = now}),
   expiresAt |-> row.expiresAt, count |-> row.count]

\* consumeExactRateLimit for the next window of the call: counted, then compared.  The
\* call is over when a window denies it and when the last admits it.
Count(c) ==
  /\ calls[c] # None
  /\ LET k == NextKey(c)
         row == Counted(k, calls[c].date)
         passed == calls[c].passed + 1
         over == row.count > Limit[k] \/ passed = Len(calls[c].path)
     IN  /\ rows' = [rows EXCEPT ![k] = row]
         /\ calls' = [calls EXCEPT ![c] =
                        IF over THEN None ELSE [@ EXCEPT !.passed = passed]]
         /\ admitted' = IF row.count > Limit[k] THEN admitted
                        ELSE admitted \cup {Admission(k, row)}
  /\ UNCHANGED <<now, cleanup>>

\* The Worker stops, or a statement fails.
Drop(c) ==
  /\ calls[c] # None
  /\ calls' = [calls EXCEPT ![c] = None]
  /\ UNCHANGED <<now, rows, cleanup, admitted>>

StartCleanup ==
  /\ cleanup = None
  /\ cleanup' = now
  /\ UNCHANGED <<now, rows, calls, admitted>>

\* deleteExpiredRateLimits
Cleanup ==
  /\ cleanup # None
  /\ rows' = [k \in Keys |-> IF Expired(rows[k], cleanup) THEN None ELSE rows[k]]
  /\ cleanup' = None
  /\ UNCHANGED <<now, calls, admitted>>

Next ==
  \/ Tick \/ StartCleanup \/ Cleanup
  \/ \E c \in Calls :
       \/ \E p \in Paths : Begin(c, p)
       \/ Count(c) \/ Drop(c)

Spec == Init /\ [][Next]_vars

-----------------------------------------------------------------------------
TypeOK ==
  /\ now \in Time
  /\ rows \in [Keys -> {None} \cup Row]
  /\ cleanup \in {None} \cup Time
  /\ calls \in [Calls -> {None} \cup Call]
  /\ \A a \in admitted : a.key \in Keys /\ a.at \in 0..now /\ a.at + Window > now

\* Late and dropped calls and late cleanups included, no span of one window's length
\* lets more than three windows' calls through: those of the window that was open, of one
\* that opens within the span, and of one that follows it early because the former was
\* counted late.
SpanBounded == \A k \in Keys : Cardinality({a \in admitted : a.key = k}) <= 3 * Limit[k]
=============================================================================
