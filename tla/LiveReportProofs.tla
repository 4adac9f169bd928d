-------------------------- MODULE LiveReportProofs --------------------------
(***************************************************************************)
(* The live report lock for every number of reports and commands: types,   *)
(* the lock names its holder, the mutex it implements, and the commands    *)
(* that may outlive their report.  The induction needs the transition      *)
(* guard: the report inside it is alone in changing the lock path, so what *)
(* it has read of the owner stays true.  For the commands it needs that    *)
(* the running gh of a report that was not killed keeps its lease in the   *)
(* directory of that report, and that a scan in progress still has it to   *)
(* read.                                                                   *)
(***************************************************************************)
EXTENDS LiveReportLock, TLAPS

InGuard(r) ==
  pc[r] \in {"checking", "scanning", "installing", "installed", "releasing", "draining",
             "leaving"}

GuardHeld == \A r \in Report : InGuard(r) => guard = r
StaleStays == \A r \in Report : pc[r] = "scanning" => lock # None /\ ~ReportRuns(lock)
FreeStays == \A r \in Report : pc[r] = "installing" => lock = None
OwnerStarted == lock # None => pc[lock] # "idle"

\* A helper outlives its spawnSync only when its report was killed.
HelperWaited ==
  \A c \in Command :
    HelperRuns(c) /\ pc[Owner(c)] # "killed" =>
      pc[Owner(c)] = "waiting" /\ c = <<Owner(c), issued[Owner(c)]>>
LeaseWritten ==
  \A c \in Command :
    helper[c] \in {"leased", "confirmed", "spawned"} /\ pc[Owner(c)] # "killed" =>
      lease[c] = "starting"
ChildLeased ==
  \A c \in Command :
    ChildRuns(c) /\ pc[Owner(c)] # "killed" =>
      lock = Owner(c) /\ lease[c] \in {"starting", "published"}
ScanSees ==
  \A r \in Report, c \in Command :
    /\ pc[r] \in {"scanning", "draining"}
    /\ ChildRuns(c) /\ pc[Owner(c)] # "killed"
    => c \in todo[r]

Tracked ==
  HelperWaited /\ LeaseWritten /\ ChildLeased /\ ScanSees /\ ForeignLeaseNeedsKilledOwner

Control == GuardHeld /\ StaleStays /\ FreeStays /\ OwnerStarted /\ LockNamesHolder
IInv == TypeOK /\ Control

LEMMA InitIInv == Init => IInv
<1> SUFFICES ASSUME Init PROVE IInv
  OBVIOUS
<1>1. TypeOK
  BY LockAssumption
  DEF Init, TypeOK, Phase, Lease, HelperState, ChildState
<1>2. Control
  BY DEF Init, Control, GuardHeld, StaleStays, FreeStays, OwnerStarted, LockNamesHolder,
         InGuard, Holds
<1> QED
  BY <1>1, <1>2 DEF IInv

-----------------------------------------------------------------------------
(* Types *)

LEMMA TypeReport ==
  ASSUME TypeOK, NEW r \in Report, ReportStep(r)
  PROVE  TypeOK'
<1>1. CASE Contend(r)
  BY <1>1 DEF TypeOK, Contend, Goto, files, processes, Phase
<1>2. CASE EnterAcquire(r)
  BY <1>2 DEF TypeOK, EnterAcquire, Goto, processes, Phase
<1>3. CASE FindAbsent(r) \/ FindLive(r)
  BY <1>3 DEF TypeOK, FindAbsent, FindLive, Goto, files, processes, Phase
<1>4. CASE FindStale(r)
  BY <1>4 DEF TypeOK, FindStale, Leased, Goto, files, processes, Phase
<1>5. CASE \E c \in Command : ReadLease(r, c)
  BY <1>5 DEF TypeOK, ReadLease, Goto, files, processes, Phase
<1>6. CASE MoveStale(r) \/ RemoveLock(r)
  BY <1>6 DEF TypeOK, MoveStale, RemoveLock, RenameAway, Goto, processes, Phase, Lease
<1>7. CASE Install(r)
  BY <1>7 DEF TypeOK, Install, Goto, processes, Phase
<1>8. CASE LeaveGuard(r)
  BY <1>8 DEF TypeOK, LeaveGuard, Goto, processes, Phase
<1>9. CASE IssueCommand(r)
  <2>1. issued[r] + 1 \in 1..MaxCommands /\ issued[r] + 1 \in 0..MaxCommands
    BY <1>9, LockAssumption DEF IssueCommand, TypeOK
  <2>2. <<r, issued[r] + 1>> \in Command
    BY <2>1 DEF Command
  <2> QED
    BY <1>9, <2>1, <2>2 DEF TypeOK, IssueCommand, Goto, Phase, HelperState
<1>10. CASE CommandReturns(r)
  BY <1>10 DEF TypeOK, CommandReturns, Goto, processes, Phase
<1>11. CASE EnterRelease(r)
  BY <1>11 DEF TypeOK, EnterRelease, Goto, processes, Phase
<1>12. CASE CheckOwn(r)
  BY <1>12 DEF TypeOK, CheckOwn, Leased, Goto, files, processes, Phase
<1>13. CASE KillReport(r)
  BY <1>13 DEF TypeOK, KillReport, Goto, files, processes, Phase
<1> QED
  BY <1>1, <1>2, <1>3, <1>4, <1>5, <1>6, <1>7, <1>8, <1>9, <1>10, <1>11, <1>12, <1>13
  DEF ReportStep

LEMMA TypeCommand ==
  ASSUME TypeOK, NEW c \in Command, CommandStep(c)
  PROVE  TypeOK'
<1>1. CASE Admit(c) \/ SpawnGh(c) \/ KillHelper(c) \/ ChildEnds(c)
  BY <1>1 DEF TypeOK, Admit, SpawnGh, KillHelper, ChildEnds, HelperGoto, files,
              HelperState, ChildState
<1>2. CASE WriteLease(c) \/ PublishChild(c) \/ Age(c)
  BY <1>2 DEF TypeOK, WriteLease, PublishChild, Age, HelperGoto, processes, HelperState, Lease
<1>3. CASE Confirm(c) \/ PublishFails(c) \/ FinishCommand(c)
  BY <1>3 DEF TypeOK, Confirm, PublishFails, FinishCommand, Cleanup, HelperGoto,
              HelperState, Lease
<1> QED
  BY <1>1, <1>2, <1>3 DEF CommandStep

-----------------------------------------------------------------------------
(* The guard and the lock *)

\* What the control facts are about does not move.
LEMMA ControlFrame ==
  ASSUME Control, UNCHANGED <<pc, guard, lock>>
  PROVE  Control'
BY DEF Control, GuardHeld, StaleStays, FreeStays, OwnerStarted, LockNamesHolder, InGuard,
       Holds, ReportRuns

LEMMA ControlReport ==
  ASSUME IInv, NEW r \in Report, ReportStep(r)
  PROVE  Control'
<1> USE DEF Control, GuardHeld, StaleStays, FreeStays, OwnerStarted, LockNamesHolder,
            InGuard, Holds, ReportRuns, Goto
<1>0. pc \in [Report -> Phase] /\ lock \in Report \cup {None} /\ None \notin Report
  BY LockAssumption DEF IInv, TypeOK
<1>i. Control
  BY DEF IInv
<1>1. CASE Contend(r)
  BY <1>0, <1>i, <1>1 DEF Contend, files
<1>2. CASE EnterAcquire(r)
  BY <1>0, <1>i, <1>2 DEF EnterAcquire
<1>3. CASE FindAbsent(r) \/ FindLive(r)
  BY <1>0, <1>i, <1>3 DEF FindAbsent, FindLive, files
<1>4. CASE FindStale(r)
  BY <1>0, <1>i, <1>4 DEF FindStale, files
<1>5. CASE \E c \in Command : ReadLease(r, c)
  BY <1>0, <1>i, <1>5 DEF ReadLease, files
<1>6. CASE MoveStale(r)
  BY <1>0, <1>i, <1>6 DEF MoveStale, RenameAway
<1>7. CASE Install(r)
  BY <1>0, <1>i, <1>7 DEF Install
<1>8. CASE LeaveGuard(r)
  BY <1>0, <1>i, <1>8 DEF LeaveGuard
<1>9. CASE IssueCommand(r) \/ CommandReturns(r)
  BY <1>0, <1>i, <1>9 DEF IssueCommand, CommandReturns
<1>10. CASE EnterRelease(r)
  BY <1>0, <1>i, <1>10 DEF EnterRelease
<1>11. CASE CheckOwn(r)
  BY <1>0, <1>i, <1>11 DEF CheckOwn, files
<1>12. CASE RemoveLock(r)
  BY <1>0, <1>i, <1>12 DEF RemoveLock, RenameAway
<1>13. CASE KillReport(r)
  BY <1>0, <1>i, <1>13 DEF KillReport, files
<1> QED
  BY <1>1, <1>2, <1>3, <1>4, <1>5, <1>6, <1>7, <1>8, <1>9, <1>10, <1>11, <1>12, <1>13
  DEF ReportStep

LEMMA CommandFrame ==
  ASSUME NEW c \in Command, CommandStep(c)
  PROVE  UNCHANGED <<pc, guard, lock>>
BY DEF CommandStep, Admit, WriteLease, Confirm, SpawnGh, PublishChild, PublishFails,
       FinishCommand, KillHelper, ChildEnds, Age, files

LEMMA StepIInv ==
  ASSUME IInv, [Next]_vars
  PROVE  IInv'
<1>1. CASE \E r \in Report : ReportStep(r)
  BY <1>1, TypeReport, ControlReport DEF IInv
<1>2. CASE \E c \in Command : CommandStep(c)
  BY <1>2, TypeCommand, CommandFrame, ControlFrame DEF IInv
<1>3. CASE RemoveGuard
  <2>1. TypeOK'
    BY <1>3 DEF RemoveGuard, processes, IInv, TypeOK
  <2>2. \A r \in Report : ~InGuard(r)
    BY <1>3 DEF RemoveGuard, ReportRuns, InGuard
  <2>3. Control'
    BY <1>3, <2>2 DEF RemoveGuard, IInv, Control, GuardHeld, StaleStays, FreeStays,
       OwnerStarted, LockNamesHolder, InGuard, Holds, ReportRuns
  <2> QED
    BY <2>1, <2>3 DEF IInv
<1>4. CASE UNCHANGED vars
  <2>1. TypeOK'
    BY <1>4 DEF vars, files, processes, IInv, TypeOK
  <2>2. Control'
    BY <1>4, ControlFrame DEF vars, files, IInv
  <2> QED
    BY <2>1, <2>2 DEF IInv
<1> QED
  BY <1>1, <1>2, <1>3, <1>4 DEF Next

LEMMA Inductive == Spec => []IInv
BY InitIInv, StepIInv, PTL DEF Spec

\* The variables keep their types, for any number of reports and commands.
THEOREM TypeCorrect == Spec => []TypeOK
BY Inductive, PTL DEF IInv

\* A report that runs commands is the one the lock names, whatever takeovers other
\* reports attempt and wherever processes are killed (acquireLiveReportLock).
THEOREM HolderNamed == Spec => []LockNamesHolder
BY Inductive, PTL DEF IInv, Control

-----------------------------------------------------------------------------
(* The mutex *)

LEMMA ReportMutexStep ==
  ASSUME IInv, NEW r \in Report, ReportStep(r)
  PROVE  [Mutex!Next]_(Mutex!vars)
<1> DEFINE ended == {q \in Report : pc[q] \in {"exited", "killed"}}
<1> DEFINE working == {q \in Report : Holds(q)}
<1>0. /\ pc \in [Report -> Phase] /\ lock \in Report \cup {None} /\ None \notin Report
      /\ Control
  BY LockAssumption DEF IInv, TypeOK
<1>1. CASE Contend(r) \/ KillReport(r)
  <2>1. ended' = ended \cup {r} /\ working' = working \ {r} /\ lock' = lock
    BY <1>0, <1>1 DEF Contend, KillReport, Goto, files, Holds
  <2> QED
    BY <2>1 DEF Mutex!Next, Mutex!End
<1>2. CASE LeaveGuard(r)
  <2>1. CASE pc[r] = "installed"
    <3>1. ended' = ended /\ working' = working /\ lock' = lock
      BY <1>0, <1>2, <2>1 DEF LeaveGuard, Goto, Holds
    <3> QED
      BY <3>1 DEF Mutex!vars
  <2>2. CASE pc[r] = "leaving"
    <3>1. ended' = ended \cup {r} /\ working' = working \ {r} /\ lock' = lock
      BY <1>0, <1>2, <2>2 DEF LeaveGuard, Goto, Holds
    <3> QED
      BY <3>1 DEF Mutex!Next, Mutex!End
  <2> QED
    BY <1>2, <2>1, <2>2 DEF LeaveGuard
<1>3. CASE \/ EnterAcquire(r) \/ FindAbsent(r) \/ FindLive(r) \/ FindStale(r)
           \/ IssueCommand(r) \/ CommandReturns(r) \/ EnterRelease(r)
  <2>1. ended' = ended /\ working' = working /\ lock' = lock
    BY <1>0, <1>3 DEF EnterAcquire, FindAbsent, FindLive, FindStale, IssueCommand,
       CommandReturns, EnterRelease, Goto, files, Holds
  <2> QED
    BY <2>1 DEF Mutex!vars
<1>4. CASE Install(r)
  <2>1. /\ ended' = ended /\ working' = working \cup {r}
        /\ lock' = r /\ lock = None /\ r \notin ended
    BY <1>0, <1>4 DEF Install, Goto, Control, FreeStays, Holds
  <2> QED
    BY <2>1 DEF Mutex!Next, Mutex!Acquire
<1>5. CASE MoveStale(r)
  <2>1. ended' = ended /\ working' = working /\ lock' = None
    BY <1>0, <1>5 DEF MoveStale, RenameAway, Goto, Holds
  <2>2. lock \in ended
    BY <1>0, <1>5 DEF MoveStale, Control, StaleStays, OwnerStarted, ReportRuns
  <2> QED
    BY <2>1, <2>2 DEF Mutex!Next, Mutex!Reclaim
<1>6. CASE RemoveLock(r)
  <2>1. lock = r /\ r \in working
    BY <1>0, <1>6 DEF RemoveLock, Control, LockNamesHolder, Holds
  <2>2. ended' = ended /\ working' = working \ {r} /\ lock' = None
    BY <1>0, <1>6 DEF RemoveLock, RenameAway, Goto, Holds
  <2> QED
    BY <2>1, <2>2 DEF Mutex!Next, Mutex!Release
<1>7. CASE \E c \in Command : ReadLease(r, c)
  <2>1. ended' = ended /\ lock' = lock
    BY <1>0, <1>7 DEF ReadLease, Goto, files
  <2>2. CASE working' = working
    BY <2>1, <2>2 DEF Mutex!vars
  <2>3. CASE working' # working
    <3>1. pc[r] = "draining" /\ pc' = [pc EXCEPT ![r] = "leaving"]
      BY <1>0, <1>7, <2>3 DEF ReadLease, Goto, Holds
    <3>2. lock = r /\ r \in working /\ working' = working \ {r}
      BY <1>0, <3>1 DEF Control, LockNamesHolder, Holds
    <3> QED
      BY <2>1, <3>2 DEF Mutex!Next, Mutex!GiveUp
  <2> QED
    BY <2>2, <2>3
<1>8. CASE CheckOwn(r)
  <2>1. lock = r
    BY <1>0, <1>8 DEF CheckOwn, Control, LockNamesHolder, Holds
  <2>2. ended' = ended /\ working' = working /\ lock' = lock
    BY <1>0, <1>8, <2>1 DEF CheckOwn, Goto, files, Holds
  <2> QED
    BY <2>2 DEF Mutex!vars
<1> QED
  BY <1>1, <1>2, <1>3, <1>4, <1>5, <1>6, <1>7, <1>8 DEF ReportStep

LEMMA MutexStep ==
  ASSUME IInv, [Next]_vars
  PROVE  [Mutex!Next]_(Mutex!vars)
<1>1. CASE \E r \in Report : ReportStep(r)
  BY <1>1, ReportMutexStep
<1>2. ASSUME UNCHANGED <<pc, lock>> PROVE UNCHANGED Mutex!vars
  BY <1>2 DEF Mutex!vars, Holds
<1>3. CASE (\E c \in Command : CommandStep(c)) \/ RemoveGuard \/ UNCHANGED vars
  BY <1>3, <1>2, CommandFrame DEF RemoveGuard, vars, files
<1> QED
  BY <1>1, <1>3 DEF Next

\* The lock is the abstract mutex of ReportMutex: taken only when free, and taken
\* from a report only by its own release or after its process has ended
\* (acquireLiveReportLock and its release).
THEOREM LockIsMutex == Spec => ImplementsMutex
<1>1. Init => Mutex!Init
  BY DEF Init, Mutex!Init, Holds
<1> QED
  BY <1>1, Inductive, MutexStep, PTL DEF Spec, ImplementsMutex, Mutex!Spec

-----------------------------------------------------------------------------
(* Commands that outlive their report *)

LEMMA InitTracked == Init => Tracked
BY DEF Init, Tracked, HelperWaited, LeaseWritten, ChildLeased, ScanSees,
       ForeignLeaseNeedsKilledOwner, HelperRuns, ChildRuns

LEMMA TrackedReport ==
  ASSUME IInv, Tracked, NEW r \in Report, ReportStep(r)
  PROVE  Tracked'
<1> USE DEF Tracked, HelperWaited, LeaseWritten, ChildLeased, ScanSees,
            ForeignLeaseNeedsKilledOwner, HelperRuns, ChildRuns, Goto
<1>0. /\ pc \in [Report -> Phase] /\ todo \in [Report -> SUBSET Command]
      /\ issued \in [Report -> 0..MaxCommands]
      /\ lease \in [Command -> Lease] /\ helper \in [Command -> HelperState]
      /\ lock \in Report \cup {None} /\ None \notin Report
      /\ Control
      /\ \A c \in Command : Owner(c) \in Report
  BY LockAssumption DEF IInv, TypeOK, Command, Owner
<1>1. CASE Contend(r)
  BY <1>0, <1>1 DEF Contend, files, processes
<1>2. CASE EnterAcquire(r)
  BY <1>0, <1>2 DEF EnterAcquire, processes
<1>3. CASE FindAbsent(r) \/ FindLive(r)
  BY <1>0, <1>3 DEF FindAbsent, FindLive, files, processes
<1>4. CASE FindStale(r)
  BY <1>0, <1>4 DEF FindStale, Leased, files, processes
<1>5. CASE \E c \in Command : ReadLease(r, c)
  <2> PICK c \in Command : ReadLease(r, c)
    BY <1>5
  <2> QED
    BY <1>0 DEF ReadLease, LeaseBlocks, LeaseActive, files, processes
<1>6. CASE MoveStale(r)
  <2>1. \A c \in Command : ChildRuns(c) => pc[Owner(c)] = "killed"
    BY <1>0, <1>6 DEF MoveStale
  <2> QED
    BY <1>0, <1>6, <2>1 DEF MoveStale, RenameAway, processes, Control, StaleStays, LockNamesHolder,
       Holds, ReportRuns
<1>7. CASE Install(r)
  BY <1>0, <1>7 DEF Install, processes, Control, FreeStays
<1>8. CASE LeaveGuard(r)
  BY <1>0, <1>8 DEF LeaveGuard, processes
<1>9. CASE IssueCommand(r)
  <2> DEFINE c0 == <<r, issued[r] + 1>>
  <2>1. Owner(c0) = r /\ issued'[r] = issued[r] + 1
    BY <1>0, <1>9 DEF IssueCommand, Owner
  <2>2. \A c \in Command : Owner(c) = r => ~HelperRuns(c)
    BY <1>0, <1>9 DEF IssueCommand
  <2> QED
    BY <1>0, <1>9, <2>1, <2>2 DEF IssueCommand
<1>10. CASE CommandReturns(r)
  BY <1>0, <1>10 DEF CommandReturns, processes
<1>11. CASE EnterRelease(r)
  BY <1>0, <1>11 DEF EnterRelease, processes
<1>12. CASE CheckOwn(r)
  BY <1>0, <1>12 DEF CheckOwn, Leased, files, processes
<1>13. CASE RemoveLock(r)
  <2>1. \A c \in Command : ChildRuns(c) => pc[Owner(c)] = "killed"
    BY <1>0, <1>13 DEF RemoveLock
  <2> QED
    BY <1>0, <1>13, <2>1 DEF RemoveLock, RenameAway, processes, Control, LockNamesHolder, Holds
<1>14. CASE KillReport(r)
  BY <1>0, <1>14 DEF KillReport, files, processes
<1> QED
  BY <1>1, <1>2, <1>3, <1>4, <1>5, <1>6, <1>7, <1>8, <1>9, <1>10, <1>11, <1>12, <1>13, <1>14
  DEF ReportStep

LEMMA TrackedCommand ==
  ASSUME IInv, Tracked, NEW c \in Command, CommandStep(c)
  PROVE  Tracked'
<1> USE DEF Tracked, HelperWaited, LeaseWritten, ChildLeased, ScanSees,
            ForeignLeaseNeedsKilledOwner, HelperRuns, ChildRuns, HelperGoto
<1>0. /\ lease \in [Command -> Lease] /\ helper \in [Command -> HelperState]
      /\ child \in [Command -> ChildState]
      /\ lock \in Report \cup {None} /\ None \notin Report
      /\ Owner(c) \in Report
  BY LockAssumption DEF IInv, TypeOK, Command, Owner
<1>o. HelperRuns(c) /\ pc[Owner(c)] # "killed" => pc[Owner(c)] = "waiting" /\ lock = Owner(c)
  BY <1>0 DEF IInv, Control, LockNamesHolder, Holds
<1>1. CASE Admit(c) \/ KillHelper(c) \/ ChildEnds(c)
  BY <1>0, <1>1 DEF Admit, KillHelper, ChildEnds, files
<1>2. CASE WriteLease(c)
  BY <1>0, <1>o, <1>2 DEF WriteLease, processes
<1>3. CASE Confirm(c)
  BY <1>0, <1>o, <1>3 DEF Confirm, Cleanup
<1>4. CASE SpawnGh(c)
  <2>1. \A r \in Report : pc[r] = "scanning" => lock # None /\ pc[lock] # "waiting"
    BY DEF IInv, Control, StaleStays, ReportRuns
  <2>2. \A r \in Report : pc[r] = "draining" => lock = r
    BY DEF IInv, Control, LockNamesHolder, Holds
  <2> QED
    BY <1>0, <1>o, <1>4, <2>1, <2>2 DEF SpawnGh, files
<1>5. CASE PublishChild(c)
  BY <1>0, <1>o, <1>5 DEF PublishChild, processes
<1>6. CASE PublishFails(c) \/ FinishCommand(c)
  BY <1>0, <1>o, <1>6 DEF PublishFails, FinishCommand, Cleanup
<1>7. CASE Age(c)
  BY <1>0, <1>7 DEF Age, processes
<1> QED
  BY <1>1, <1>2, <1>3, <1>4, <1>5, <1>6, <1>7 DEF CommandStep

LEMMA StepTracked ==
  ASSUME IInv, Tracked, [Next]_vars
  PROVE  Tracked'
<1>1. CASE UNCHANGED <<pc, todo, issued, lock, lease, helper, child>>
  BY <1>1 DEF Tracked, HelperWaited, LeaseWritten, ChildLeased, ScanSees,
     ForeignLeaseNeedsKilledOwner, HelperRuns, ChildRuns
<1> QED
  BY <1>1, TrackedReport, TrackedCommand DEF Next, RemoveGuard, vars, files, processes

LEMMA TrackedAlways == Spec => []Tracked
BY InitTracked, StepTracked, Inductive, PTL DEF Spec

LEMMA TrackedOverlap == Tracked => OverlapNeedsKilledOwner
BY DEF Tracked, ChildLeased, OverlapNeedsKilledOwner

\* gh commands of two reports overlap only if one of the two reports was killed
\* (liveReportHasActiveCommand before the takeover and before the release).
THEOREM OverlapExplained == Spec => []OverlapNeedsKilledOwner
BY TrackedAlways, TrackedOverlap, PTL

\* A lease that names another owner than its directory, which blocks every later acquire
\* and release, is left only by a command whose report was killed (runLockedGhCommand).
THEOREM WedgeExplained == Spec => []ForeignLeaseNeedsKilledOwner
BY TrackedAlways, PTL DEF Tracked
=============================================================================
