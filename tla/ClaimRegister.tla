--------------------------- MODULE ClaimRegister ----------------------------
(***************************************************************************)
(* What the wallet registry promises: each GitHub account has one current  *)
(* claim, a new claim takes its place and names it as predecessor, and no  *)
(* claim is ever changed, removed or given twice.                          *)
(***************************************************************************)
CONSTANTS Actors, Ids, None

VARIABLES
  current,  \* the claim each account is paid by
  owner,    \* the account a claim belongs to
  prev      \* the claim it superseded

vars == <<current, owner, prev>>

Init ==
  /\ current = [g \in Actors |-> None]
  /\ owner = [i \in Ids |-> None]
  /\ prev = [i \in Ids |-> None]

Append(g, i) ==
  /\ owner[i] = None
  /\ owner' = [owner EXCEPT ![i] = g]
  /\ prev' = [prev EXCEPT ![i] = current[g]]
  /\ current' = [current EXCEPT ![g] = i]

Next == \E g \in Actors, i \in Ids : Append(g, i)

Spec == Init /\ [][Next]_vars
=============================================================================
