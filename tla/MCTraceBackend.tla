--------------------------- MODULE MCTraceBackend ---------------------------
(* Small instances of TraceBackend for TLC.                                *)
EXTENDS TraceBackend, TLC

CONSTANTS u1, u2

\* Every key belongs to u1; u2 knocks at runs that are not its own.
MCKeyUser == [k \in RunKeys \cup Keys \cup EventKeys |-> u1]

\* Users are not interchangeable; these are.
MCSymmetry ==
  Permutations(Runs) \cup Permutations(RunKeys) \cup Permutations(Bodies)
    \cup Permutations(Types) \cup Permutations(Digests) \cup Permutations(Keys)
    \cup Permutations(Slots)
=============================================================================
