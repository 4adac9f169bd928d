---------------------------- MODULE RewardProofs ----------------------------
(***************************************************************************)
(* The money of the reward cycles for every number of contributors and     *)
(* months, and every minimum and review length.  cycles:check compares     *)
(* amounts, which are counts.  What makes counts enough: the balance a row *)
(* takes over is nothing or the whole of the row before it, whatever is    *)
(* decided about that row afterwards (Proposed), so two balances of one    *)
(* row that weigh the same are the same (SameBalance).  Hence the rows of  *)
(* the tree are exact (Derived), a change of a month leaves what it hands  *)
(* on (CarriesFreeze), and every unit can be followed back to the month    *)
(* that earned it (UnpaidSinceEarned).                                     *)
(***************************************************************************)
EXTENDS RewardCycle, FiniteSetTheorems, TLAPS

\* A row offers its month's unit if its actor earned it, and the balance before it.
DerivedAt(cs, m) ==
  \A a \in DOMAIN cs[m].rows :
    /\ cs[m].rows[a].shares = NewShares(m, cs[m], a) \cup Carry(cs, m, a)
Derived == \A m \in Months : cycles[m] # None => DerivedAt(cycles, m)

EarlierIn(m, c) == \A a \in DOMAIN c.rows : c.rows[a].shares \subseteq 1..m
Earlier ==
  \A m \in Months :
    /\ cycles[m] # None => EarlierIn(m, cycles[m])
    /\ pending[m] # None => EarlierIn(m, pending[m])

\* B is nothing, or all that the row of a offers in the month before m.
Balance(cs, m, a, B) ==
  B # {} => /\ m # 1 /\ cs[m - 1] # None
            /\ a \in DOMAIN cs[m - 1].rows /\ B = cs[m - 1].rows[a].shares

\* An open pull request has whole balances, perhaps not those of the tree any more.
ProposedAt(cs, m, p) ==
  \A a \in DOMAIN p.rows :
    \E B \in SUBSET (1..(m - 1)) :
      p.rows[a].shares = NewShares(m, p, a) \cup B /\ Balance(cs, m, a, B)
Proposed == \A m \in Months : pending[m] # None => ProposedAt(cycles, m, pending[m])

IInv ==
  /\ TypeOK /\ TreeValid(cycles)
  /\ Derived /\ Earlier /\ Proposed /\ UnpaidSinceEarned

\* The files of month m appear, or change without touching what the rows offer.
Changed(m) ==
  /\ cycles' \in [Months -> Cycle \cup {None}] /\ cycles'[m] \in Cycle
  /\ TreeValid(cycles') /\ EarlierIn(m, cycles'[m])
  /\ \A n \in Months \ {m} : cycles'[n] = cycles[n]
  /\ cycles[m] # None =>
       /\ cycles'[m].funded = cycles[m].funded /\ cycles'[m].leaders = cycles[m].leaders
       /\ DOMAIN cycles'[m].rows = DOMAIN cycles[m].rows
       /\ \A a \in DOMAIN cycles[m].rows :
            cycles'[m].rows[a].shares = cycles[m].rows[a].shares

-----------------------------------------------------------------------------
(* Balances *)

LEMMA MonthsAreNat ==
  ASSUME NEW m \in Months
  PROVE  /\ m \in Nat /\ m >= 1 /\ m <= LastMonth
         /\ m # 1 => m - 1 \in Months /\ m - 1 # m
         /\ m # LastMonth => m + 1 \in Months
BY RewardAssumption DEF Months

LEMMA RowsTyped ==
  ASSUME NEW c \in Cycle
  PROVE  /\ DOMAIN c.rows \subseteq Actors
         /\ \A a \in DOMAIN c.rows : c.rows[a] \in Row /\ c.rows[a].shares \subseteq Months
         /\ c.rows \in [DOMAIN c.rows -> Row]
<1>1. PICK S \in SUBSET Actors : c.rows \in [S -> Row]
  BY DEF Cycle
<1> QED
  BY <1>1 DEF Row

\* What a month takes over is a balance in the sense above.
LEMMA CarryIsBalance ==
  ASSUME NEW cs, NEW m \in Months, NEW a
  PROVE  Balance(cs, m, a, Carry(cs, m, a))
BY MonthsAreNat DEF Balance, Carry, Prior

LEMMA CarryEarlier ==
  ASSUME NEW cs, NEW m \in Months, NEW a,
         m # 1 /\ cs[m - 1] # None => EarlierIn(m - 1, cs[m - 1])
  PROVE  Carry(cs, m, a) \subseteq 1..(m - 1)
BY MonthsAreNat DEF Carry, Prior, EarlierIn

\* Two balances of one row that weigh the same are the same.
LEMMA SameBalance ==
  ASSUME NEW m \in Months, NEW N \in SUBSET {m},
         NEW A \in SUBSET (1..(m - 1)), NEW B \in SUBSET (1..(m - 1)),
         A = {} \/ B = {} \/ A = B,
         Cardinality(N \cup A) = Cardinality(N \cup B)
  PROVE  A = B
<1>0. m \in Int /\ m >= 1
  BY MonthsAreNat
<1>1. IsFiniteSet(1..m)
  BY <1>0, FS_Interval
<1>2. /\ N \cup A \in SUBSET (1..m) /\ N \cup B \in SUBSET (1..m)
      /\ A \cap N = {} /\ B \cap N = {}
  <2>1. m \in 1..m /\ m \notin 1..(m - 1) /\ 1..(m - 1) \subseteq 1..m
    BY <1>0
  <2> QED
    BY <2>1
<1>3. IsFiniteSet(N \cup A) /\ IsFiniteSet(N \cup B)
  BY <1>1, <1>2, FS_Subset
<1>4. CASE A = {}
  <2>1. N \cup A \in SUBSET (N \cup B)
    BY <1>4
  <2>2. N \cup B = N \cup A
    BY <1>3, <2>1, FS_Subset
  <2> QED
    BY <1>2, <1>4, <2>2
<1>5. CASE B = {}
  <2>1. N \cup B \in SUBSET (N \cup A)
    BY <1>5
  <2>2. N \cup A = N \cup B
    BY <1>3, <2>1, FS_Subset
  <2> QED
    BY <1>2, <1>5, <2>2
<1> QED
  BY <1>4, <1>5

\* Two balances a month could take over are nothing or the row before it.
LEMMA MatchedCarry ==
  ASSUME NEW m \in Months, NEW a \in Actors,
         NEW p \in Cycle, a \in DOMAIN p.rows,
         NEW A \in SUBSET (1..(m - 1)), NEW B \in SUBSET (1..(m - 1)),
         A = {} \/ B = {} \/ A = B,
         Cardinality(NewShares(m, p, a) \cup A) = Cardinality(NewShares(m, p, a) \cup B)
  PROVE  A = B
<1>1. NewShares(m, p, a) \in SUBSET {m}
  BY DEF NewShares
<1> QED
  BY <1>1, SameBalance

\* Neither a change of a month nor its first files disturb what the months hand on to
\* the proposals there are.
LEMMA CarriesFreeze ==
  ASSUME IInv, NEW m \in Months, Changed(m),
         NEW n \in Months, cycles[n] # None, NEW a \in Actors
  PROVE  Carry(cycles', n, a) = Carry(cycles, n, a)
<1> DEFINE A == Carry(cycles, n, a)
           B == Carry(cycles', n, a)
<1>1. CASE n = 1 \/ n - 1 # m
  <2>1. n # 1 => n - 1 \in Months \ {m}
    BY <1>1, MonthsAreNat
  <2>2. Prior(cycles', n) = Prior(cycles, n)
    BY <2>1 DEF Prior, Changed
  <2> QED
    BY <2>2 DEF Carry
<1>2. CASE n # 1 /\ n - 1 = m
  <2>1. n # m /\ cycles'[n] = cycles[n] /\ cycles[n] \in Cycle
    BY <1>2, MonthsAreNat DEF Changed, IInv, TypeOK
  <2>2. MatchesBaseline(cycles, n) /\ MatchesBaseline(cycles', n)
    <3>1. CycleValid(cycles, n)
      BY DEF IInv, TreeValid
    <3>2. CycleValid(cycles', n)
      <4>1. cycles'[n] # None /\ TreeValid(cycles')
        BY <2>1 DEF Changed
      <4> QED
        BY <4>1 DEF TreeValid
    <3> QED
      BY <3>1, <3>2 DEF CycleValid
  <2> DEFINE c == cycles[n]
  <2>3. /\ DOMAIN c.rows = c.leaders \cup {b \in Actors : Carry(cycles, n, b) # {}}
        /\ DOMAIN c.rows = c.leaders \cup {b \in Actors : Carry(cycles', n, b) # {}}
    BY <2>1, <2>2 DEF MatchesBaseline, RowActors
  <2>4. a \in DOMAIN c.rows =>
          /\ Amount(c.rows[a]) = Cardinality(NewShares(n, c, a) \cup A)
          /\ Amount(c.rows[a]) = Cardinality(NewShares(n, c, a) \cup B)
    <3> SUFFICES ASSUME a \in DOMAIN c.rows
                 PROVE  /\ Amount(c.rows[a]) = Cardinality(NewShares(n, c, a) \cup A)
                        /\ Amount(c.rows[a]) = Cardinality(NewShares(n, c, a) \cup B)
      OBVIOUS
    <3>1. Amount(c.rows[a]) = Cardinality(NewShares(n, c, a) \cup A)
      BY <2>2 DEF MatchesBaseline
    <3>2. Amount(c.rows[a]) = Cardinality(NewShares(n, c, a) \cup B)
      BY <2>1, <2>2 DEF MatchesBaseline
    <3> QED
      BY <3>1, <3>2
  <2>5. A = {} \/ B = {} \/ A = B
    BY <1>2, CarryIsBalance DEF Balance, Changed
  <2>6. A \subseteq 1..(n - 1) /\ B \subseteq 1..(n - 1)
    <3>1. cycles[m] # None => EarlierIn(m, cycles[m])
      BY DEF IInv, Earlier
    <3>2. A \subseteq 1..(n - 1)
      BY <1>2, <3>1, CarryEarlier
    <3>3. EarlierIn(m, cycles'[m])
      BY DEF Changed
    <3> QED
      BY <1>2, <3>2, <3>3, CarryEarlier
  <2>7. CASE a \in DOMAIN c.rows
    <3>1. Cardinality(NewShares(n, c, a) \cup A) = Cardinality(NewShares(n, c, a) \cup B)
      BY <2>4, <2>7
    <3> QED
      BY <2>1, <2>5, <2>6, <2>7, <3>1, MatchedCarry
  <2>8. CASE a \notin DOMAIN c.rows
    BY <2>3, <2>8
  <2> QED
    BY <2>7, <2>8
<1> QED
  BY <1>1, <1>2

-----------------------------------------------------------------------------
(* A change of one month keeps the invariant. *)

LEMMA DerivedKept ==
  ASSUME IInv, NEW m \in Months, Changed(m), cycles[m] = None => DerivedAt(cycles', m)
  PROVE  Derived'
<1> SUFFICES ASSUME NEW n \in Months, cycles'[n] # None, NEW a \in DOMAIN cycles'[n].rows
             PROVE  cycles'[n].rows[a].shares
                      = NewShares(n, cycles'[n], a) \cup Carry(cycles', n, a)
  BY DEF Derived, DerivedAt
<1>1. CASE cycles[n] = None
  <2>1. n = m
    BY <1>1 DEF Changed
  <2> QED
    BY <1>1, <2>1 DEF DerivedAt
<1>2. CASE cycles[n] # None
  <2>1. /\ cycles'[n].funded = cycles[n].funded /\ cycles'[n].leaders = cycles[n].leaders
        /\ a \in DOMAIN cycles[n].rows /\ cycles'[n].rows[a].shares = cycles[n].rows[a].shares
    BY <1>2 DEF Changed
  <2>2. a \in Actors
    BY <1>2, <2>1, RowsTyped DEF IInv, TypeOK
  <2>3. Carry(cycles', n, a) = Carry(cycles, n, a)
    BY <1>2, <2>2, CarriesFreeze
  <2>4. cycles[n].rows[a].shares = NewShares(n, cycles[n], a) \cup Carry(cycles, n, a)
    BY <1>2, <2>1 DEF IInv, Derived, DerivedAt
  <2> QED
    BY <2>1, <2>3, <2>4 DEF NewShares
<1> QED
  BY <1>1, <1>2

LEMMA EarlierKept ==
  ASSUME IInv, NEW m \in Months, Changed(m), NEW n \in Months, cycles'[n] # None
  PROVE  EarlierIn(n, cycles'[n])
<1>1. CASE n = m
  BY <1>1 DEF Changed
<1>2. CASE n # m
  BY <1>2 DEF Changed, IInv, Earlier
<1> QED
  BY <1>1, <1>2

LEMMA ProposedKept ==
  ASSUME IInv, NEW m \in Months, Changed(m),
         NEW n \in Months, NEW p, ProposedAt(cycles, n, p)
  PROVE  ProposedAt(cycles', n, p)
<1> SUFFICES ASSUME NEW a \in DOMAIN p.rows, NEW B \in SUBSET (1..(n - 1)),
                    Balance(cycles, n, a, B)
             PROVE  Balance(cycles', n, a, B)
  BY DEF ProposedAt
<1> SUFFICES ASSUME B # {}
             PROVE  /\ n # 1 /\ cycles'[n - 1] # None
                    /\ a \in DOMAIN cycles'[n - 1].rows
                    /\ B = cycles'[n - 1].rows[a].shares
  BY DEF Balance
<1>1. /\ n # 1 /\ cycles[n - 1] # None /\ n - 1 \in Months
      /\ a \in DOMAIN cycles[n - 1].rows /\ B = cycles[n - 1].rows[a].shares
  BY MonthsAreNat DEF Balance
<1>2. CASE n - 1 = m
  BY <1>1, <1>2, CycleAssumption DEF Changed
<1>3. CASE n - 1 # m
  BY <1>1, <1>3 DEF Changed
<1> QED
  BY <1>2, <1>3

\* The trail of a unit: the months from the one that earned it to the one before d.
LEMMA TrailKept ==
  ASSUME IInv, NEW m \in Months, Changed(m), Derived'
  PROVE  UnpaidSinceEarned'
<1> SUFFICES ASSUME NEW d \in Months, NEW a \in Actors,
                    cycles'[d] # None, a \in DOMAIN cycles'[d].rows,
                    NEW c \in cycles'[d].rows[a].shares
             PROVE  /\ c <= d /\ cycles'[c] # None /\ cycles'[c].funded
                    /\ a \in cycles'[c].leaders
                    /\ \A k \in c..(d - 1) :
                         /\ cycles'[k] # None /\ a \in DOMAIN cycles'[k].rows
                         /\ c \in cycles'[k].rows[a].shares
                         /\ cycles'[k].rows[a].state \notin {"approved", "held", "proposed"}
  BY DEF UnpaidSinceEarned
<1>0. c \in 1..d /\ c \in Months /\ d \in Nat /\ d <= LastMonth /\ LastMonth \in Nat
  <2>1. d \in Nat /\ d <= LastMonth /\ LastMonth \in Nat
    BY MonthsAreNat, RewardAssumption
  <2>2. EarlierIn(d, cycles'[d])
    BY EarlierKept
  <2>3. c \in 1..d
    BY <2>2 DEF EarlierIn
  <2> QED
    BY <2>1, <2>3 DEF Months
<1>1. CASE cycles[d] # None
  <2>1. a \in DOMAIN cycles[d].rows /\ c \in cycles[d].rows[a].shares
    BY <1>1 DEF Changed
  <2>2. /\ cycles[c] # None /\ cycles[c].funded /\ a \in cycles[c].leaders
        /\ \A k \in c..(d - 1) :
             /\ cycles[k] # None /\ a \in DOMAIN cycles[k].rows
             /\ c \in cycles[k].rows[a].shares
             /\ cycles[k].rows[a].state \notin {"approved", "held", "proposed"}
    BY <1>1, <2>1 DEF IInv, UnpaidSinceEarned
  <2>3. cycles'[c] # None /\ cycles'[c].funded /\ a \in cycles'[c].leaders
    BY <1>0, <2>2, CycleAssumption DEF Changed
  <2>4. ASSUME NEW k \in c..(d - 1)
        PROVE  /\ cycles'[k] # None /\ a \in DOMAIN cycles'[k].rows
               /\ c \in cycles'[k].rows[a].shares
               /\ cycles'[k].rows[a].state \notin {"approved", "held", "proposed"}
    <3>1. k \in Months /\ k + 1 \in Months /\ k + 1 \in c..d /\ k + 1 # 1 /\ c # k + 1
          /\ k \in Nat
      BY <1>0 DEF Months
    <3>2. CASE k # m
      BY <2>2, <3>1, <3>2 DEF Changed
    <3>3. CASE k = m
      <4>1. /\ cycles[k] # None /\ cycles'[k] # None /\ a \in DOMAIN cycles'[k].rows
            /\ c \in cycles'[k].rows[a].shares
        BY <2>2, <3>3, CycleAssumption DEF Changed
      <4>2. /\ cycles[k + 1] # None /\ a \in DOMAIN cycles[k + 1].rows
            /\ c \in cycles[k + 1].rows[a].shares
        <5>1. CASE k + 1 = d
          BY <1>1, <2>1, <5>1
        <5>2. CASE k + 1 # d
          <6>1. k + 1 \in c..(d - 1)
            BY <1>0, <3>1, <5>2
          <6> QED
            BY <2>2, <6>1
        <5> QED
          BY <5>1, <5>2
      <4>3. c \in Carry(cycles, k + 1, a)
        BY <3>1, <4>2 DEF IInv, Derived, DerivedAt, NewShares
      <4>4. c \in Carry(cycles', k + 1, a)
        BY <3>1, <4>2, <4>3, CarriesFreeze
      <4>5. Prior(cycles', k + 1) = cycles'[k]
        BY <3>1 DEF Prior
      <4>6. CarriesOn(cycles'[k].rows[a])
        BY <4>1, <4>4, <4>5 DEF Carry
      <4> QED
        BY <4>1, <4>6 DEF CarriesOn
    <3> QED
      BY <3>2, <3>3
  <2> QED
    BY <1>0, <2>3, <2>4
<1>2. CASE cycles[d] = None
  <2>1. d = m /\ cycles'[m] \in Cycle
    BY <1>2 DEF Changed
  <2>2. CASE c = d
    <3>1. c \notin Carry(cycles', d, a)
      <4>1. d # 1 /\ cycles'[d - 1] # None => EarlierIn(d - 1, cycles'[d - 1])
        BY MonthsAreNat, EarlierKept
      <4>2. Carry(cycles', d, a) \subseteq 1..(d - 1)
        BY <4>1, CarryEarlier
      <4> QED
        BY <1>0, <2>2, <4>2
    <3>2. c \in NewShares(d, cycles'[d], a)
      BY <3>1 DEF Derived, DerivedAt
    <3>3. cycles'[d].funded /\ a \in cycles'[d].leaders
      BY <3>2 DEF NewShares
    <3> QED
      BY <1>0, <2>2, <3>3
  <2>3. CASE c # d
    <3>1. c \in Carry(cycles', d, a)
      BY <2>3 DEF Derived, DerivedAt, NewShares
    <3>2. /\ d # 1 /\ cycles'[d - 1] # None /\ a \in DOMAIN cycles'[d - 1].rows
          /\ CarriesOn(cycles'[d - 1].rows[a]) /\ c \in cycles'[d - 1].rows[a].shares
      BY <3>1 DEF Carry, Prior
    <3>3. d - 1 \in Months /\ d - 1 # m /\ cycles'[d - 1] = cycles[d - 1]
      BY <2>1, <3>2, MonthsAreNat DEF Changed
    <3>4. /\ cycles[c] # None /\ cycles[c].funded /\ a \in cycles[c].leaders
          /\ \A k \in c..(d - 1 - 1) :
               /\ cycles[k] # None /\ a \in DOMAIN cycles[k].rows
               /\ c \in cycles[k].rows[a].shares
               /\ cycles[k].rows[a].state \notin {"approved", "held", "proposed"}
      BY <3>2, <3>3 DEF IInv, UnpaidSinceEarned
    <3>5. c # m /\ cycles'[c] = cycles[c]
      BY <1>0, <2>1, <2>3 DEF Changed
    <3>6. ASSUME NEW k \in c..(d - 1)
          PROVE  /\ cycles'[k] # None /\ a \in DOMAIN cycles'[k].rows
                 /\ c \in cycles'[k].rows[a].shares
                 /\ cycles'[k].rows[a].state \notin {"approved", "held", "proposed"}
      <4>1. k \in Months /\ k # m
        BY <1>0, <2>1 DEF Months
      <4>2. CASE k = d - 1
        BY <3>2, <4>2 DEF CarriesOn
      <4>3. CASE k # d - 1
        <5>1. k \in c..(d - 1 - 1)
          BY <1>0, <4>3
        <5> QED
          BY <3>4, <4>1, <5>1 DEF Changed
      <4> QED
        BY <4>2, <4>3
    <3> QED
      BY <1>0, <3>4, <3>5, <3>6
  <2> QED
    BY <2>2, <2>3
<1> QED
  BY <1>1, <1>2

\* A change of month m that leaves the open pull requests alone, or takes that of m away.
LEMMA ChangeKeepsIInv ==
  ASSUME IInv, NEW m \in Months, Changed(m), now' = now,
         cycles[m] = None => DerivedAt(cycles', m),
         pending' \in {pending, [pending EXCEPT ![m] = None]}
  PROVE  IInv'
<1>1. Derived'
  BY DerivedKept
<1>2. UnpaidSinceEarned'
  BY <1>1, TrailKept
<1>3. \A n \in Months : pending'[n] # None => pending'[n] = pending[n] /\ pending[n] # None
  BY DEF IInv, TypeOK
<1>4. Earlier'
  BY <1>3, EarlierKept DEF IInv, Earlier
<1>5. Proposed'
  BY <1>3, ProposedKept DEF IInv, Proposed
<1>6. TypeOK'
  BY DEF IInv, TypeOK, Changed
<1>7. TreeValid(cycles)'
  BY DEF Changed, TreeValid
<1> QED
  BY <1>1, <1>2, <1>4, <1>5, <1>6, <1>7 DEF IInv

LEMMA EditChanges ==
  ASSUME IInv, NEW m \in Months, NEW a \in Actors, NEW s \in RowState, EditRow(m, a, s)
  PROVE  Changed(m) /\ cycles[m] # None
<1> DEFINE c == cycles[m]
<1>1. PICK at \in {c.changedAt, now} :
        cycles' = [cycles EXCEPT ![m].rows[a].state = s, ![m].changedAt = at]
        /\ TreeValid(cycles')
  BY DEF EditRow, Merge
<1>2. c \in Cycle /\ c # None /\ a \in DOMAIN c.rows
  BY DEF EditRow, IInv, TypeOK
<1>3. at \in Time
  BY <1>2 DEF Cycle, IInv, TypeOK
<1> DEFINE rows == [c.rows EXCEPT ![a].state = s]
           d == [c EXCEPT !.rows = rows, !.changedAt = at]
<1>4. cycles' = [cycles EXCEPT ![m] = d]
  <2>1. [c EXCEPT !.rows[a].state = s, !.changedAt = at] = d
    BY <1>2 DEF Cycle
  <2> QED
    BY <1>1, <2>1 DEF IInv, TypeOK
<1>5. /\ DOMAIN rows = DOMAIN c.rows /\ rows \in [DOMAIN c.rows -> Row]
      /\ \A b \in DOMAIN c.rows : rows[b].shares = c.rows[b].shares
  BY <1>2, RowsTyped DEF Row
<1>6. d \in Cycle
  <2>1. rows \in UNION {[S -> Row] : S \in SUBSET Actors}
    BY <1>2, <1>5, RowsTyped
  <2> QED
    BY <1>2, <1>3, <2>1 DEF Cycle
<1>7. /\ EarlierIn(m, d) /\ d.rows = rows
      /\ d.funded = c.funded /\ d.leaders = c.leaders
  <2>1. d.rows = rows /\ d.funded = c.funded /\ d.leaders = c.leaders
    BY <1>2 DEF Cycle
  <2> QED
    BY <1>2, <1>5, <2>1 DEF IInv, Earlier, EarlierIn
<1>8. cycles'[m] = d /\ \A n \in Months \ {m} : cycles'[n] = cycles[n]
  BY <1>4 DEF IInv, TypeOK
<1>9. cycles' \in [Months -> Cycle \cup {None}]
  BY <1>4, <1>6 DEF IInv, TypeOK
<1> QED
  BY <1>1, <1>2, <1>5, <1>6, <1>7, <1>8, <1>9 DEF Changed

LEMMA FinalizeChanges ==
  ASSUME IInv, NEW m \in Months, Finalize(m)
  PROVE  Changed(m) /\ cycles[m] # None
<1> DEFINE c == cycles[m]
<1>1. PICK at \in EndsAt(c)..now :
        cycles' = [cycles EXCEPT ![m].approvedAt = at] /\ TreeValid(cycles')
  BY DEF Finalize, Merge
<1>2. c \in Cycle /\ c # None
  BY DEF Finalize, IInv, TypeOK
<1>3. at \in Time
  <2>1. c.changedAt \in Nat /\ ReviewTicks \in Nat /\ now \in Nat /\ now <= MaxTime
        /\ MaxTime \in Nat
    BY <1>2, RewardAssumption DEF Cycle, IInv, TypeOK, Time
  <2> QED
    BY <2>1 DEF EndsAt, Time
<1> DEFINE d == [c EXCEPT !.approvedAt = at]
<1>4. cycles'[m] = d /\ \A n \in Months \ {m} : cycles'[n] = cycles[n]
  BY <1>1 DEF IInv, TypeOK
<1>5. /\ d \in Cycle /\ d.rows = c.rows /\ d.funded = c.funded /\ d.leaders = c.leaders
  BY <1>2, <1>3 DEF Cycle
<1>6. EarlierIn(m, d)
  BY <1>2, <1>5 DEF IInv, Earlier, EarlierIn
<1>7. cycles' \in [Months -> Cycle \cup {None}]
  BY <1>1, <1>5 DEF IInv, TypeOK
<1> QED
  BY <1>1, <1>2, <1>4, <1>5, <1>6, <1>7 DEF Changed

LEMMA MergeChanges ==
  ASSUME IInv, NEW m \in Months, MergeProposal(m)
  PROVE  Changed(m) /\ DerivedAt(cycles', m)
<1> DEFINE p == pending[m]
<1>1. /\ cycles[m] = None /\ p # None /\ p \in Cycle
      /\ cycles' = [cycles EXCEPT ![m] = p] /\ TreeValid(cycles')
  BY DEF MergeProposal, Merge, IInv, TypeOK
<1>2. /\ cycles'[m] = p /\ \A n \in Months \ {m} : cycles'[n] = cycles[n]
      /\ cycles' \in [Months -> Cycle \cup {None}]
  BY <1>1 DEF IInv, TypeOK
<1>3. EarlierIn(m, p)
  BY <1>1 DEF IInv, Earlier
<1>4. Changed(m)
  BY <1>1, <1>2, <1>3 DEF Changed
<1>5. MatchesBaseline(cycles', m)
  BY <1>1, <1>2 DEF TreeValid, CycleValid
<1>6. ASSUME NEW a \in DOMAIN p.rows
      PROVE  p.rows[a].shares = NewShares(m, p, a) \cup Carry(cycles', m, a)
  <2> DEFINE C == Carry(cycles', m, a)
  <2>1. a \in Actors
    BY <1>1, RowsTyped
  <2>2. PICK B \in SUBSET (1..(m - 1)) :
          p.rows[a].shares = NewShares(m, p, a) \cup B /\ Balance(cycles, m, a, B)
    BY <1>1 DEF IInv, Proposed, ProposedAt
  <2>3. Cardinality(p.rows[a].shares) = Cardinality(NewShares(m, p, a) \cup C)
    BY <1>2, <1>5, <2>1 DEF MatchesBaseline, Amount
  <2>4. m # 1 => m - 1 \in Months /\ cycles'[m - 1] = cycles[m - 1]
    BY <1>2, MonthsAreNat
  <2>5. C \subseteq 1..(m - 1)
    <3>1. m # 1 /\ cycles'[m - 1] # None => EarlierIn(m - 1, cycles'[m - 1])
      BY <1>4, <2>4, EarlierKept
    <3> QED
      BY <3>1, CarryEarlier
  <2>6. B = {} \/ C = {} \/ B = C
    <3>1. Balance(cycles', m, a, C)
      BY CarryIsBalance
    <3> QED
      BY <2>2, <2>4, <3>1 DEF Balance
  <2>7. B = C
    BY <1>1, <2>1, <2>2, <2>3, <2>5, <2>6, MatchedCarry
  <2> QED
    BY <2>2, <2>7
<1> QED
  BY <1>2, <1>4, <1>6 DEF DerivedAt

\* A new proposal takes over whole balances.
LEMMA PrepareKeepsIInv ==
  ASSUME IInv, NEW m \in Months, PrepareMonthly(m)
  PROVE  IInv'
<1>1. PICK leaders \in SUBSET Actors, wallets \in SUBSET Actors, funded \in BOOLEAN :
        LET carry == [a \in Actors |-> IF m = FreshMonth THEN {} ELSE Carry(cycles, m, a)]
            c == [generatedAt |-> now, changedAt |-> now, approvedAt |-> None,
                  funded |-> funded, leaders |-> leaders, rows |-> <<>>]
        IN  pending' = [pending EXCEPT ![m] = WithRows(m, c, carry, wallets)]
  BY DEF PrepareMonthly
<1> DEFINE carry == [a \in Actors |-> IF m = FreshMonth THEN {} ELSE Carry(cycles, m, a)]
           c == [generatedAt |-> now, changedAt |-> now, approvedAt |-> None,
                 funded |-> funded, leaders |-> leaders, rows |-> <<>>]
           S == RowActors(c, carry)
           Row1(a) == LET shares == NewShares(m, c, a) \cup carry[a]
                      IN  [shares |-> shares, state |-> FirstState(shares, a \in wallets)]
           rows == [a \in S |-> Row1(a)]
           p == [c EXCEPT !.rows = rows]
<1>2. pending' = [pending EXCEPT ![m] = p] /\ UNCHANGED <<now, cycles>>
  BY <1>1 DEF PrepareMonthly, WithRows
<1>3. S \subseteq Actors
  BY DEF RowActors
<1>4. ASSUME NEW a \in Actors
      PROVE  /\ carry[a] \in SUBSET (1..(m - 1)) /\ Balance(cycles, m, a, carry[a])
             /\ carry[a] \subseteq Months /\ carry[a] \subseteq 1..m
  <2>1. m # 1 /\ cycles[m - 1] # None => EarlierIn(m - 1, cycles[m - 1])
    BY MonthsAreNat DEF IInv, Earlier
  <2>2. Carry(cycles, m, a) \subseteq 1..(m - 1)
    BY <2>1, CarryEarlier
  <2>3. carry[a] \in SUBSET (1..(m - 1)) /\ Balance(cycles, m, a, carry[a])
    BY <2>2, CarryIsBalance DEF Balance
  <2>4. 1..(m - 1) \subseteq Months /\ 1..(m - 1) \subseteq 1..m
    <3>1. m \in Nat /\ m <= LastMonth /\ LastMonth \in Nat
      BY MonthsAreNat, RewardAssumption
    <3> QED
      BY <3>1 DEF Months
  <2> QED
    BY <2>3, <2>4
<1>5. ASSUME NEW a \in S
      PROVE  /\ Row1(a) \in Row /\ Row1(a).shares \subseteq 1..m
             /\ Row1(a).shares = NewShares(m, c, a) \cup carry[a]
  <2>1. a \in Actors /\ carry[a] \subseteq Months /\ carry[a] \subseteq 1..m
    BY <1>3, <1>4
  <2>2. NewShares(m, c, a) \subseteq {m} /\ m \in 1..m
    BY MonthsAreNat DEF NewShares
  <2>3. \A shares : FirstState(shares, a \in wallets) \in RowState
    BY DEF FirstState, RowState
  <2> QED
    BY <2>1, <2>2, <2>3 DEF Row
<1>6. p.rows = rows /\ p.funded = funded /\ p.leaders = leaders /\ p.generatedAt = now
      /\ p.changedAt = now /\ p.approvedAt = None
  OBVIOUS
<1>7. p \in Cycle
  <2>1. rows \in [S -> Row]
    BY <1>5
  <2>2. rows \in UNION {[T -> Row] : T \in SUBSET Actors}
    BY <1>3, <2>1
  <2>3. now \in Time
    BY DEF IInv, TypeOK
  <2> QED
    BY <2>2, <2>3 DEF Cycle
<1>8. EarlierIn(m, p)
  BY <1>5, <1>6 DEF EarlierIn
<1>9. ProposedAt(cycles, m, p)
  <2> SUFFICES ASSUME NEW a \in S
               PROVE  \E B \in SUBSET (1..(m - 1)) :
                        /\ p.rows[a].shares = NewShares(m, p, a) \cup B
                        /\ Balance(cycles, m, a, B)
    BY <1>6 DEF ProposedAt
  <2>1. NewShares(m, p, a) = NewShares(m, c, a)
    BY <1>6 DEF NewShares
  <2>2. p.rows[a].shares = NewShares(m, p, a) \cup carry[a]
    BY <1>5, <1>6, <2>1
  <2> QED
    BY <1>3, <1>4, <2>2
<1>10. /\ pending' \in [Months -> Cycle \cup {None}] /\ pending'[m] = p
       /\ \A n \in Months \ {m} : pending'[n] = pending[n]
  BY <1>2, <1>7 DEF IInv, TypeOK
<1>11. TypeOK'
  BY <1>2, <1>10 DEF IInv, TypeOK
<1>12. Earlier'
  BY <1>2, <1>8, <1>10 DEF IInv, Earlier
<1>13. Proposed'
  <2> SUFFICES ASSUME NEW n \in Months, pending'[n] # None
               PROVE  ProposedAt(cycles, n, pending'[n])
    BY <1>2 DEF Proposed
  <2> QED
    BY <1>9, <1>10 DEF IInv, Proposed
<1>14. (TreeValid(cycles) /\ Derived /\ UnpaidSinceEarned)'
  BY <1>2 DEF IInv, TreeValid, Derived, UnpaidSinceEarned
<1> QED
  BY <1>11, <1>12, <1>13, <1>14 DEF IInv

-----------------------------------------------------------------------------
LEMMA InitIInv ==
  ASSUME Init
  PROVE  IInv
BY RewardAssumption
DEF Init, IInv, TypeOK, Time, TreeValid, Derived, Earlier, Proposed, UnpaidSinceEarned

LEMMA StepIInv ==
  ASSUME IInv, [Next]_vars
  PROVE  IInv'
<1>1. CASE Tick
  <2>1. now' \in Time /\ UNCHANGED <<cycles, pending>>
    BY <1>1, RewardAssumption DEF Tick, IInv, TypeOK, Time
  <2> QED
    BY <2>1 DEF IInv, TypeOK, TreeValid, Derived, Earlier, Proposed, UnpaidSinceEarned
<1>2. ASSUME NEW m \in Months, PrepareMonthly(m)
      PROVE  IInv'
  BY <1>2, PrepareKeepsIInv
<1>3. ASSUME NEW m \in Months, MergeProposal(m)
      PROVE  IInv'
  <2>1. now' = now /\ pending' = [pending EXCEPT ![m] = None]
    BY <1>3 DEF MergeProposal
  <2> QED
    BY <1>3, <2>1, MergeChanges, ChangeKeepsIInv
<1>4. ASSUME NEW m \in Months, CloseProposal(m)
      PROVE  IInv'
  <2>1. pending' = [pending EXCEPT ![m] = None] /\ UNCHANGED <<now, cycles>>
    BY <1>4 DEF CloseProposal
  <2>2. \A n \in Months : pending'[n] # None => pending'[n] = pending[n] /\ pending[n] # None
    BY <2>1 DEF IInv, TypeOK
  <2>3. TypeOK'
    BY <2>1 DEF IInv, TypeOK
  <2>4. Earlier' /\ Proposed'
    BY <2>1, <2>2 DEF IInv, Earlier, Proposed
  <2> QED
    BY <2>1, <2>3, <2>4 DEF IInv, TreeValid, Derived, UnpaidSinceEarned
<1>5. ASSUME NEW m \in Months, Finalize(m)
      PROVE  IInv'
  <2>1. now' = now /\ pending' = pending
    BY <1>5 DEF Finalize
  <2> QED
    BY <1>5, <2>1, FinalizeChanges, ChangeKeepsIInv
<1>6. ASSUME NEW m \in Months, NEW a \in Actors, NEW s \in Decisions, EditRow(m, a, s)
      PROVE  IInv'
  <2>1. s \in RowState
    BY CycleAssumption
  <2>2. now' = now /\ pending' = pending
    BY <1>6 DEF EditRow
  <2> QED
    BY <1>6, <2>1, <2>2, EditChanges, ChangeKeepsIInv
<1>7. CASE UNCHANGED vars
  BY <1>7 DEF vars, IInv, TypeOK, TreeValid, Derived, Earlier, Proposed, UnpaidSinceEarned
<1> QED
  BY <1>1, <1>2, <1>3, <1>4, <1>5, <1>6, <1>7 DEF Next

LEMMA IInvHolds == Spec => []IInv
<1>1. Init => IInv
  BY InitIInv
<1>2. IInv /\ [Next]_vars => IInv'
  BY StepIInv
<1> QED
  BY <1>1, <1>2, PTL DEF Spec

\* The cycle directories, the open pull requests and the clock keep their types.
THEOREM TypeCorrect == Spec => []TypeOK
<1>1. IInv => TypeOK
  BY DEF IInv
<1> QED
  BY <1>1, IInvHolds, PTL

\* createRewardCycleProposal and cycles:check: every unit a row offers was earned in its
\* month and held, unpaid, by every month since.
THEOREM UnitsTraceable == Spec => []UnpaidSinceEarned
<1>1. IInv => UnpaidSinceEarned
  BY DEF IInv
<1> QED
  BY <1>1, IInvHolds, PTL

\* No unit is approved in two cycles: of two cycles that offer it, the earlier one still
\* held it when the later one took it over, and an approval ends that.
THEOREM UnitsApprovedOnce == Spec => []ApprovedOnce
<1>1. ASSUME IInv PROVE ApprovedOnce
  <2>1. ASSUME NEW c \in Months, NEW d \in Months, NEW a \in Actors, c < d,
               cycles[c] # None, cycles[d] # None,
               a \in DOMAIN cycles[c].rows, a \in DOMAIN cycles[d].rows,
               cycles[c].rows[a].state = "approved"
        PROVE  cycles[c].rows[a].shares \cap cycles[d].rows[a].shares = {}
    <3> SUFFICES ASSUME NEW x \in cycles[c].rows[a].shares, x \in cycles[d].rows[a].shares
                 PROVE  FALSE
      OBVIOUS
    <3>1. x \in 1..c /\ c \in Nat /\ d \in Nat
      BY <1>1, <2>1, MonthsAreNat DEF IInv, Earlier, EarlierIn
    <3>2. c \in x..(d - 1)
      BY <2>1, <3>1
    <3>3. cycles[c].rows[a].state \notin {"approved", "held", "proposed"}
      BY <1>1, <2>1, <3>2 DEF IInv, UnpaidSinceEarned
    <3> QED
      BY <2>1, <3>3
  <2>2. \A c, d \in Months : c # d => c < d \/ d < c
    <3> SUFFICES ASSUME NEW c \in Months, NEW d \in Months, c # d
                 PROVE  c < d \/ d < c
      OBVIOUS
    <3>1. c \in Nat /\ d \in Nat
      BY MonthsAreNat
    <3> QED
      BY <3>1
  <2> SUFFICES ASSUME NEW c \in Months, NEW d \in Months, NEW a \in Actors, c # d,
                      cycles[c] # None, cycles[d] # None,
                      a \in DOMAIN cycles[c].rows, a \in DOMAIN cycles[d].rows,
                      cycles[c].rows[a].state = "approved",
                      cycles[d].rows[a].state = "approved"
               PROVE  cycles[c].rows[a].shares \cap cycles[d].rows[a].shares = {}
    BY DEF ApprovedOnce
  <2>3. CASE c < d
    BY <2>1, <2>3
  <2>4. CASE d < c
    BY <2>1, <2>4
  <2> QED
    BY <2>2, <2>3, <2>4
<1> QED
  BY <1>1, IInvHolds, PTL

\* reviewFinalPriorCycle and cycles:check: once the next month has its proposal, nothing
\* changes what a month hands on.
THEOREM HandedOnOnce == Spec => BalancesFreeze
<1>1. ASSUME IInv, [Next]_vars,
             NEW m \in Months \ {1}, NEW a \in Actors, cycles[m] # None
      PROVE  Carry(cycles', m, a) = Carry(cycles, m, a)
  <2>1. ASSUME NEW n \in Months, Changed(n)
        PROVE  Carry(cycles', m, a) = Carry(cycles, m, a)
    BY <1>1, <2>1, CarriesFreeze
  <2>2. CASE UNCHANGED cycles
    BY <2>2 DEF Carry, Prior
  <2>3. UNCHANGED cycles \/ \E n \in Months : Changed(n)
    BY <1>1, MergeChanges, FinalizeChanges, EditChanges, CycleAssumption
    DEF Next, vars, Tick, PrepareMonthly, CloseProposal
  <2> QED
    BY <2>1, <2>2, <2>3
<1>2. IInv /\ [Next]_vars =>
        [\A m \in Months \ {1}, a \in Actors :
           cycles[m] # None => Carry(cycles', m, a) = Carry(cycles, m, a)]_vars
  BY <1>1
<1> QED
  BY <1>2, IInvHolds, PTL DEF Spec, BalancesFreeze
=============================================================================
