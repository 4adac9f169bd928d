--------------------------- MODULE LiveReportLock ---------------------------
(***************************************************************************)
(* The lock of the live report (skills/*/scripts/live-report.mjs, the same *)
(* file in every skill).  A report is a process: it takes the lock         *)
(* directory under a mkdir guard, runs its gh commands one at a time, each *)
(* through a helper process that spawns gh, and releases the directory.    *)
(* Owner, helper and gh child can each be killed at any point; helpers     *)
(* outlive their owner and children outlive their helper.  Each action is  *)
(* one file system call, or one process event, that others can see.        *)
(*                                                                         *)
(* Abstractions.  An owner token is its report and a command token is the  *)
(* report with a number: both are random and never reused, and so is the   *)
(* pair of a pid and its birth identity.  The contents of a directory that *)
(* was renamed away do not matter: every reader uses the lock path.        *)
(*                                                                         *)
(* Grace assumption.  Wall-clock time enters only by the age of a lease    *)
(* that names no child (Age).  A helper publishes its child, and a child   *)
(* no lease names ends, within the grace of the lease                      *)
(* (LIVE_REPORT_ORPHAN_COMMAND_GRACE_MS); the recovery relies on it.       *)
(***************************************************************************)
EXTENDS Naturals

CONSTANTS
  Report,       \* report processes
  MaxCommands,  \* bound: gh commands of a report
  None          \* no report: the path does not exist

ASSUME LockAssumption == MaxCommands \in Nat /\ None \notin Report

VARIABLES
  pc,        \* where each report is
  todo,      \* the leases it has listed and not read yet
  issued,    \* the commands it has issued
  guard,     \* the report that made the transition directory
  lock,      \* the owner token in the directory at the lock path
  requests,  \* request files in that directory
  lease,     \* lease files in that directory
  helper,    \* the helper process of each command
  child      \* its gh process

vars == <<pc, todo, issued, guard, lock, requests, lease, helper, child>>
files == <<guard, lock, requests, lease>>
processes == <<helper, child>>

Command == Report \X (1..MaxCommands)
Owner(c) == c[1]

Phase ==
  {"idle", "checking", "scanning", "installing", "installed", "holding", "waiting",
   "releasing", "draining", "leaving", "exited", "killed"}
Lease == {"none", "starting", "aged", "published"}
HelperState ==
  {"none", "started", "admitted", "leased", "confirmed", "spawned", "collecting", "gone"}
ChildState == {"none", "running", "ended"}

Init ==
  /\ pc = [r \in Report |-> "idle"]
  /\ todo = [r \in Report |-> {}]
  /\ issued = [r \in Report |-> 0]
  /\ guard = None
  /\ lock = None
  /\ requests = {}
  /\ lease = [c \in Command |-> "none"]
  /\ helper = [c \in Command |-> "none"]
  /\ child = [c \in Command |-> "none"]

\* readLiveReportProcessIdentity is not null and still the recorded one.
ReportRuns(r) == pc[r] \notin {"idle", "exited", "killed"}
HelperRuns(c) == helper[c] \notin {"none", "gone"}
ChildRuns(c) == child[c] = "running"

Leased == {c \in Command : lease[c] # "none"}
\* Mutant: the recovery looks at helpers only and forgets a published child.
LeaseActiveHelperOnly(c) == HelperRuns(c) \/ lease[c] = "starting"

\* liveReportCommandIsActive, for a lease with the expected owner token.
LeaseActive(c) ==
  \/ HelperRuns(c)
  \/ lease[c] = "published" /\ ChildRuns(c)
  \/ lease[c] = "starting"

Goto(r, phase) == pc' = [pc EXCEPT ![r] = phase]

-----------------------------------------------------------------------------
(* acquireLiveReportLock *)

\* mkdir of the guard fails with EEXIST: contention, the report ends.
Contend(r) ==
  /\ pc[r] \in {"idle", "holding"}
  /\ guard # None
  /\ Goto(r, "exited")
  /\ UNCHANGED <<todo, issued, files, processes>>

EnterAcquire(r) ==
  /\ pc[r] = "idle"
  /\ guard = None
  /\ guard' = r
  /\ Goto(r, "checking")
  /\ UNCHANGED <<todo, issued, lock, requests, lease, processes>>

FindAbsent(r) ==
  /\ pc[r] = "checking"
  /\ lock = None
  /\ Goto(r, "installing")
  /\ UNCHANGED <<todo, issued, files, processes>>

FindLive(r) ==
  /\ pc[r] = "checking"
  /\ lock # None /\ ReportRuns(lock)
  /\ Goto(r, "leaving")
  /\ UNCHANGED <<todo, issued, files, processes>>

\* Mutant: the owner's process is not looked at.
FindStaleUnchecked(r) ==
  /\ pc[r] = "checking"
  /\ lock # None
  /\ todo' = [todo EXCEPT ![r] = Leased]
  /\ Goto(r, "scanning")
  /\ UNCHANGED <<issued, files, processes>>

FindStale(r) ==
  /\ pc[r] = "checking"
  /\ lock # None /\ ~ReportRuns(lock)
  /\ todo' = [todo EXCEPT ![r] = Leased]
  /\ Goto(r, "scanning")
  /\ UNCHANGED <<issued, files, processes>>

\* liveReportHasActiveCommand reads one listed lease.  A file that vanished, a
\* lease of another owner and an active command all end the transition.
LeaseBlocks(c) == lease[c] = "none" \/ Owner(c) # lock \/ LeaseActive(c)
ReadLease(r, c) ==
  /\ pc[r] \in {"scanning", "draining"}
  /\ c \in todo[r]
  /\ IF LeaseBlocks(c)
       THEN Goto(r, "leaving") /\ todo' = [todo EXCEPT ![r] = {}]
       ELSE UNCHANGED pc /\ todo' = [todo EXCEPT ![r] = @ \ {c}]
  /\ UNCHANGED <<issued, files, processes>>

\* renameSync away from the lock path, which takes every file in it along.
RenameAway ==
  /\ lock' = None
  /\ requests' = {}
  /\ lease' = [c \in Command |-> "none"]

MoveStale(r) ==
  /\ pc[r] = "scanning"
  /\ todo[r] = {}
  /\ RenameAway
  /\ Goto(r, "installing")
  /\ UNCHANGED <<todo, issued, guard, processes>>

Install(r) ==
  /\ pc[r] = "installing"
  /\ lock' = r
  /\ Goto(r, "installed")
  /\ UNCHANGED <<todo, issued, guard, requests, lease, processes>>

\* rmdir of the guard, on success and on failure.
LeaveGuard(r) ==
  /\ pc[r] \in {"installed", "leaving"}
  /\ guard' = None
  /\ Goto(r, IF pc[r] = "installed" THEN "holding" ELSE "exited")
  /\ UNCHANGED <<todo, issued, lock, requests, lease, processes>>

-----------------------------------------------------------------------------
(* spawnLockedGh, and release *)

\* Mutant: no bound on the commands of a report.
IssueCommandUnbounded(r) ==
  /\ pc[r] = "holding"
  /\ lock # None
  /\ LET c == <<r, issued[r] + 1>> IN
       /\ requests' = requests \cup {c}
       /\ helper' = [helper EXCEPT ![c] = "started"]
  /\ issued' = [issued EXCEPT ![r] = @ + 1]
  /\ Goto(r, "waiting")
  /\ UNCHANGED <<todo, guard, lock, lease, child>>

IssueCommand(r) ==
  /\ pc[r] = "holding"
  /\ issued[r] < MaxCommands
  /\ lock # None
  /\ LET c == <<r, issued[r] + 1>> IN
       /\ requests' = requests \cup {c}
       /\ helper' = [helper EXCEPT ![c] = "started"]
  /\ issued' = [issued EXCEPT ![r] = @ + 1]
  /\ Goto(r, "waiting")
  /\ UNCHANGED <<todo, guard, lock, lease, child>>

\* Mutant: the helper is spawned without waiting for it.
CommandReturnsEarly(r) ==
  /\ pc[r] = "waiting"
  /\ Goto(r, "holding")
  /\ UNCHANGED <<todo, issued, files, processes>>

\* spawnSync returns when the helper has ended, however it ended.
CommandReturns(r) ==
  /\ pc[r] = "waiting"
  /\ helper[<<r, issued[r]>>] = "gone"
  /\ requests' = requests \ {<<r, issued[r]>>}
  /\ Goto(r, "holding")
  /\ UNCHANGED <<todo, issued, guard, lock, lease, processes>>

EnterRelease(r) ==
  /\ pc[r] = "holding"
  /\ guard = None
  /\ guard' = r
  /\ Goto(r, "releasing")
  /\ UNCHANGED <<todo, issued, lock, requests, lease, processes>>

\* The owner file must still be ours; the leases are listed.
CheckOwn(r) ==
  /\ pc[r] = "releasing"
  /\ IF lock = r
       THEN Goto(r, "draining") /\ todo' = [todo EXCEPT ![r] = Leased]
       ELSE Goto(r, "leaving") /\ UNCHANGED todo
  /\ UNCHANGED <<issued, files, processes>>

RemoveLock(r) ==
  /\ pc[r] = "draining"
  /\ todo[r] = {}
  /\ RenameAway
  /\ Goto(r, "leaving")
  /\ UNCHANGED <<todo, issued, guard, processes>>

KillReport(r) ==
  /\ ReportRuns(r)
  /\ Goto(r, "killed")
  /\ todo' = [todo EXCEPT ![r] = {}]
  /\ UNCHANGED <<issued, files, processes>>

\* Mutant: the guard is reclaimed while its report may still run.
RemoveGuardOfRunning ==
  /\ guard # None
  /\ guard' = None
  /\ UNCHANGED <<pc, todo, issued, lock, requests, lease, processes>>

\* Manual recovery: all local reports are stopped, then the guard is removed.
RemoveGuard ==
  /\ guard # None
  /\ \A r \in Report : ~ReportRuns(r)
  /\ guard' = None
  /\ UNCHANGED <<pc, todo, issued, lock, requests, lease, processes>>

-----------------------------------------------------------------------------
(* readLockedGhRequest and runLockedGhCommand: the helper process *)

HelperGoto(c, state) == helper' = [helper EXCEPT ![c] = state]

Admit(c) ==
  /\ helper[c] = "started"
  /\ HelperGoto(c, IF lock = Owner(c) /\ c \in requests THEN "admitted" ELSE "gone")
  /\ UNCHANGED <<pc, todo, issued, files, child>>

\* The lease is created at the lock path, in whatever directory is there now.
WriteLease(c) ==
  /\ helper[c] = "admitted"
  /\ IF lock # None
       THEN lease' = [lease EXCEPT ![c] = "starting"] /\ HelperGoto(c, "leased")
       ELSE UNCHANGED lease /\ HelperGoto(c, "gone")
  /\ UNCHANGED <<pc, todo, issued, guard, lock, requests, child>>

\* rmSync of the lease and of the request, at the lock path.
Cleanup(c) ==
  /\ lease' = [lease EXCEPT ![c] = "none"]
  /\ requests' = requests \ {c}

Confirm(c) ==
  /\ helper[c] = "leased"
  /\ IF lock = Owner(c)
       THEN HelperGoto(c, "confirmed") /\ UNCHANGED <<lease, requests>>
       ELSE HelperGoto(c, "gone") /\ Cleanup(c)
  /\ UNCHANGED <<pc, todo, issued, guard, lock, child>>

SpawnGh(c) ==
  /\ helper[c] = "confirmed"
  /\ child' = [child EXCEPT ![c] = "running"]
  /\ HelperGoto(c, "spawned")
  /\ UNCHANGED <<pc, todo, issued, files>>

\* The child's identity replaces the lease by a rename; a child that has ended
\* already has none.
PublishChild(c) ==
  /\ helper[c] = "spawned"
  /\ HelperGoto(c, "collecting")
  /\ lease' = IF ChildRuns(c) /\ lock # None THEN [lease EXCEPT ![c] = "published"] ELSE lease
  /\ UNCHANGED <<pc, todo, issued, guard, lock, requests, child>>

\* A write or the rename fails when the directory was moved meanwhile.  The
\* cleanup runs, and the process lives on until gh closes its pipes.
PublishFails(c) ==
  /\ helper[c] = "spawned"
  /\ ChildRuns(c) /\ lock # Owner(c)
  /\ HelperGoto(c, "collecting")
  /\ Cleanup(c)
  /\ UNCHANGED <<pc, todo, issued, guard, lock, child>>

FinishCommand(c) ==
  /\ helper[c] = "collecting"
  /\ ~ChildRuns(c)
  /\ HelperGoto(c, "gone")
  /\ Cleanup(c)
  /\ UNCHANGED <<pc, todo, issued, guard, lock, child>>

KillHelper(c) ==
  /\ HelperRuns(c)
  /\ HelperGoto(c, "gone")
  /\ UNCHANGED <<pc, todo, issued, files, child>>

ChildEnds(c) ==
  /\ ChildRuns(c)
  /\ child' = [child EXCEPT ![c] = "ended"]
  /\ UNCHANGED <<pc, todo, issued, files, helper>>

\* The grace of a lease without a child is over (the grace assumption).
Age(c) ==
  /\ lease[c] = "starting"
  /\ ~HelperRuns(c) /\ ~ChildRuns(c)
  /\ lease' = [lease EXCEPT ![c] = "aged"]
  /\ UNCHANGED <<pc, todo, issued, guard, lock, requests, processes>>

-----------------------------------------------------------------------------
ReportStep(r) ==
  \/ Contend(r) \/ EnterAcquire(r) \/ FindAbsent(r) \/ FindLive(r) \/ FindStale(r)
  \/ \E c \in Command : ReadLease(r, c)
  \/ MoveStale(r) \/ Install(r) \/ LeaveGuard(r)
  \/ IssueCommand(r) \/ CommandReturns(r)
  \/ EnterRelease(r) \/ CheckOwn(r) \/ RemoveLock(r) \/ KillReport(r)

CommandStep(c) ==
  \/ Admit(c) \/ WriteLease(c) \/ Confirm(c) \/ SpawnGh(c)
  \/ PublishChild(c) \/ PublishFails(c) \/ FinishCommand(c)
  \/ KillHelper(c) \/ ChildEnds(c) \/ Age(c)

Next ==
  \/ \E r \in Report : ReportStep(r)
  \/ \E c \in Command : CommandStep(c)
  \/ RemoveGuard

Spec == Init /\ [][Next]_vars

-----------------------------------------------------------------------------
(* Properties *)

\* The types of the variables.
TypeOK ==
  /\ pc \in [Report -> Phase]
  /\ todo \in [Report -> SUBSET Command]
  /\ issued \in [Report -> 0..MaxCommands]
  /\ guard \in Report \cup {None}
  /\ lock \in Report \cup {None}
  /\ requests \in SUBSET Command
  /\ lease \in [Command -> Lease]
  /\ helper \in [Command -> HelperState]
  /\ child \in [Command -> ChildState]

\* A report that runs commands is the one the lock names, whatever takeovers
\* other reports attempt: two live reports never hold the lock together, and a
\* stale owner that is taken over was really gone (the race between the check of
\* an owner and the rename that the transition guard is there for).
Holds(r) == pc[r] \in {"installed", "holding", "waiting", "releasing", "draining"}
LockNamesHolder == \A r \in Report : Holds(r) => lock = r

\* gh commands of two reports overlap only if one of the two reports was killed:
\* a report that ends by itself leaves the lock in place while a command of its
\* own may still run, and a takeover waits for that command.
OverlapNeedsKilledOwner ==
  \A c, d \in Command :
    ChildRuns(c) /\ ChildRuns(d) /\ Owner(c) # Owner(d) =>
      "killed" \in {pc[Owner(c)], pc[Owner(d)]}

\* A lease that blocks every later acquire and release, because it names another
\* owner than the directory it is in, is the work of a command whose report was
\* killed: reports that end by themselves never wedge the lock.
ForeignLeaseNeedsKilledOwner ==
  \A c \in Command :
    lease[c] # "none" /\ lock # Owner(c) => lock # None /\ pc[Owner(c)] = "killed"

\* "A user-private process lease serializes complete discovery across skill
\* copies" (live-report.mjs, header): gh commands of two reports never overlap.
ExclusiveCommands ==
  \A c, d \in Command : ChildRuns(c) /\ ChildRuns(d) => Owner(c) = Owner(d)

\* The lock is the abstract mutex: it is taken only when free, and leaves a report
\* only by that report's own release or after its process has ended, never by a
\* takeover of another report while it still works.
Mutex ==
  INSTANCE ReportMutex WITH
    holder <- lock,
    working <- {r \in Report : Holds(r)},
    ended <- {r \in Report : pc[r] \in {"exited", "killed"}}
ImplementsMutex == Mutex!Spec
=============================================================================
