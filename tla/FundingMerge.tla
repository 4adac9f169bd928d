----------------------------- MODULE FundingMerge -----------------------------
(***************************************************************************)
(* The unattended merge of pull requests that add verified funding records *)
(* (scripts/merge-verified-funding.ts, check-funding-record-pr.ts,         *)
(* funding-merge-policy.ts), beside people who push, review, merge and     *)
(* change the protection of develop.  Every call of the run to GitHub is a *)
(* step of its own, and anything may happen between two of them.           *)
(*                                                                         *)
(* Abstractions.  A commit of develop is the records it holds and whether  *)
(* funding/ holds files that are neither records nor commitments.  A head  *)
(* is the commit it contains, the records it adds and whether it changes   *)
(* other files; its check runs are one flag.  People can hold it back at   *)
(* any time (labels, assignees, reviewers, a draft, threads, requested     *)
(* changes): a guard may refuse for that.  The approving review changes    *)
(* nothing that is compared later, and the log is left out.  Runs do not   *)
(* overlap (the workflow's concurrency group), and a merge call that was   *)
(* sent is answered or lost before the next run.                           *)
(***************************************************************************)
EXTENDS Naturals, Sequences

CONSTANTS
  PRs,
  Records,
  TxOf,          \* the transaction each record names
  Genuine,       \* the records the chain confirms
  DecisionLife,  \* five minutes
  MaxMerges, MaxPushes, MaxRuns, MaxTime,
  None

Tree == [records: SUBSET Records, others: BOOLEAN]
Revision == [on: 1..(MaxMerges + 1), adds: SUBSET Records, other: BOOLEAN]
Pull == [state: {"open", "merged"}, head: Revision, base: 1..(MaxMerges + 1),
         checked: BOOLEAN]

VARIABLES
  now,
  develop,   \* the commits of develop, oldest first
  strict,    \* strict protection without bypass is in force
  pulls,     \* None before it is opened
  pushes,
  run,       \* the run of the workflow
  runs,
  botMerges, \* what the runs merged: the commit, whether protection was eased after the
             \* run had read it, and the age of the decision when the call was sent
  dispatched \* the merges after which the workflow of develop was dispatched

vars == <<now, develop, strict, pulls, pushes, run, runs, botMerges, dispatched>>
repository == <<develop, strict, pulls, pushes>>
outcome == <<botMerges, dispatched>>

NoRun == [pc |-> "idle", base |-> 1, todo |-> [p \in PRs |-> None], pr |-> None,
          head |-> None, verdict |-> None, checkedAt |-> None, age |-> 0, eased |-> FALSE,
          merged |-> None]

Tip == Len(develop)
Open(p) == pulls[p] # None /\ pulls[p].state = "open"

Init ==
  /\ now = 0
  /\ develop \in {<<[records |-> {}, others |-> o]>> : o \in BOOLEAN}
  /\ strict = TRUE
  /\ pulls = [p \in PRs |-> None]
  /\ pushes = 0
  /\ run = NoRun
  /\ runs = 0
  /\ botMerges = {} /\ dispatched = {}

-----------------------------------------------------------------------------
(* People and GitHub *)

Tick == now < MaxTime /\ now' = now + 1 /\ UNCHANGED <<repository, run, runs, outcome>>

\* external: a pull request is opened, or its branch is pushed to.
Push(p) ==
  /\ pushes < MaxPushes /\ pushes' = pushes + 1
  /\ pulls[p] # None => Open(p)
  /\ \E h \in Revision :
       /\ h.on <= Tip /\ (h.adds # {} \/ h.other)
       /\ h.adds \cap develop[h.on].records = {}
       /\ pulls' = [pulls EXCEPT ![p] =
            [state |-> "open", head |-> h, base |-> Tip, checked |-> FALSE]]
  /\ UNCHANGED <<now, develop, strict, run, runs, outcome>>

Merged(h) == [records |-> develop[Tip].records \cup h.adds,
              others |-> develop[Tip].others # h.other]

\* assertProjectFundingLedger, assertProjectFundingIndex: a transaction has one record
\* (a correction of it is not modelled).
IndexValid(rs) == \A r, s \in rs : TxOf[r] = TxOf[s] => r = s

\* The quality workflow, funding:check among it, passes on the test merge.
QualityPasses(p) ==
  /\ Open(p) /\ ~pulls[p].checked
  /\ IndexValid(Merged(pulls[p].head).records)
  /\ pulls' = [pulls EXCEPT ![p].checked = TRUE]
  /\ UNCHANGED <<now, develop, strict, pushes, run, runs, outcome>>

\* external: what GitHub asks of a merge while protection is strict.
Mergeable(p) ==
  Open(p) /\ (strict => pulls[p].checked /\ pulls[p].head.on = Tip)

MergePull(p) ==
  /\ Tip <= MaxMerges
  /\ develop' = Append(develop, Merged(pulls[p].head))
  /\ pulls' = [pulls EXCEPT ![p].state = "merged"]

\* external: a person merges.
PersonMerges(p) ==
  /\ Mergeable(p) /\ MergePull(p)
  /\ UNCHANGED <<now, strict, pushes, run, runs, outcome>>

\* external: an administrator eases or restores the protection.
ChangeProtection ==
  /\ strict' = ~strict
  /\ run' = [run EXCEPT !.eased = @ \/ (run.pc \in {"clean", "sent"} /\ strict)]
  /\ UNCHANGED <<now, develop, pulls, pushes, runs, outcome>>

-----------------------------------------------------------------------------
(* checkFundingRecordPr *)

\* The diff from the base of the run to the head, which descends from it.
Added == (develop[run.head.on].records \cup run.head.adds) \ develop[run.base].records
OnlyRecords == ~run.head.other /\ develop[run.head.on].others = develop[run.base].others

\* Neither the base nor the proposal names a transaction twice.
NewTransactions ==
  \A r \in Added :
    /\ \A s \in develop[run.base].records : TxOf[r] # TxOf[s]
    /\ \A s \in Added : TxOf[r] = TxOf[s] => r = s

Verdicts ==
  IF run.head.on < run.base THEN {"failed"}
  ELSE IF ~OnlyRecords \/ Added = {} \/ develop[run.base].others THEN {"human"}
  ELSE IF NewTransactions /\ Added \subseteq Genuine THEN {"verified", "failed"}
  ELSE {"failed"}

-----------------------------------------------------------------------------
(* mergeVerifiedFunding *)

\* The workflow is triggered; its checkout is the tip of that moment.
Trigger ==
  /\ run.pc = "idle" /\ runs < MaxRuns
  /\ run' = [NoRun EXCEPT !.pc = "queued", !.base = Tip]
  /\ runs' = runs + 1
  /\ UNCHANGED <<now, repository, outcome>>

ListPulls ==
  /\ run.pc = "queued"
  /\ run' = [run EXCEPT !.pc = "next",
               !.todo = [p \in PRs |-> IF Open(p) THEN pulls[p].head ELSE None]]
  /\ UNCHANGED <<now, repository, runs, outcome>>

\* A refusal is logged and the next candidate is tried.
NextCandidate == run' = [run EXCEPT !.pc = "next", !.todo[run.pr] = None]

\* The head is fetched, if it is still the listed one, and verified.
Fetch(p) ==
  /\ run.pc = "next" /\ run.todo[p] # None
  /\ IF pulls[p].head = run.todo[p]
       THEN run' = [run EXCEPT !.pc = "fetched", !.pr = p, !.head = run.todo[p]]
       ELSE run' = [run EXCEPT !.todo[p] = None]
  /\ UNCHANGED <<now, repository, runs, outcome>>

Decide ==
  /\ run.pc = "fetched"
  /\ \E v \in Verdicts :
       run' = [run EXCEPT !.pc = "decided", !.verdict = v, !.checkedAt = now]
  /\ UNCHANGED <<now, repository, runs, outcome>>

\* assertFundingMergeDecision
Fresh == run.verdict = "verified" /\ now - run.checkedAt <= DecisionLife

AssertDecision ==
  /\ run.pc = "decided"
  /\ IF Fresh THEN run' = [run EXCEPT !.pc = "pull"] ELSE NextCandidate
  /\ UNCHANGED <<now, repository, runs, outcome>>

\* guard, its reads of the pull request and of the branch.
PullAsDecided ==
  LET p == run.pr IN
    /\ Tip = run.base /\ pulls[p].base = run.base
    /\ Open(p) /\ pulls[p].head = run.head
GuardPull ==
  /\ run.pc \in {"pull", "pull again"}
  /\ \/ /\ PullAsDecided /\ (run.pc = "pull again" => Mergeable(run.pr))
        /\ run' = [run EXCEPT !.pc = IF @ = "pull" THEN "authority" ELSE "authority again"]
     \/ NextCandidate
  /\ UNCHANGED <<now, repository, runs, outcome>>

\* guard, its reads of protection, threads, reviews and checks; the checks are those of
\* the decided head, whatever the head is now.
AuthorityHolds ==
  LET pull == pulls[run.pr] IN
    strict /\ (pull.head = run.head => pull.checked)
GuardAuthority ==
  /\ run.pc \in {"authority", "authority again"}
  /\ \/ /\ AuthorityHolds
        /\ run' = [run EXCEPT !.pc = IF @ = "authority" THEN "pull again" ELSE "clean"]
     \/ NextCandidate
  /\ UNCHANGED <<now, repository, runs, outcome>>

\* The decision is looked at again, and the merge of this head is asked for.
SendMerge ==
  /\ run.pc = "clean"
  /\ IF Fresh
       THEN run' = [run EXCEPT !.pc = "sent", !.age = now - run.checkedAt]
       ELSE NextCandidate
  /\ UNCHANGED <<now, repository, runs, outcome>>

\* GitHub merges if the head is the given one; a refusal ends the run.
Land ==
  /\ run.pc = "sent" /\ Tip <= MaxMerges
  /\ IF Mergeable(run.pr) /\ pulls[run.pr].head = run.head
       THEN /\ MergePull(run.pr)
            /\ run' = [run EXCEPT !.pc = "merged", !.merged = Tip + 1]
            /\ botMerges' = botMerges \cup
                 {[commit |-> Tip + 1, eased |-> run.eased, age |-> run.age]}
       ELSE run' = NoRun /\ UNCHANGED <<develop, pulls, botMerges>>
  /\ UNCHANGED <<now, strict, pushes, runs, dispatched>>

\* As if only the head were read back.
ReadbackHeadOnly == pulls[run.pr].state = "merged" /\ pulls[run.pr].head = run.head

\* The merge commit has the base and the head of the decision as its parents.
Readback ==
  /\ pulls[run.pr].state = "merged" /\ pulls[run.pr].head = run.head
  /\ run.merged - 1 = run.base

ReadBack ==
  /\ run.pc = "merged"
  /\ run' = IF Readback THEN [run EXCEPT !.pc = "dispatch"] ELSE NoRun
  /\ UNCHANGED <<now, repository, runs, outcome>>

\* One merge per run.  The dispatch names develop, not the commit: what it deploys is the
\* tip of its own moment.
Dispatch ==
  /\ run.pc = "dispatch"
  /\ dispatched' = dispatched \cup {run.merged}
  /\ run' = NoRun
  /\ UNCHANGED <<now, repository, runs, botMerges>>

\* The candidates are exhausted, a call fails, an answer is lost or the job is stopped.
EndRun ==
  /\ run.pc # "idle"
  /\ run' = NoRun
  /\ UNCHANGED <<now, repository, runs, outcome>>

Next ==
  \/ Tick \/ ChangeProtection
  \/ \E p \in PRs : Push(p) \/ QualityPasses(p) \/ PersonMerges(p) \/ Fetch(p)
  \/ Trigger \/ ListPulls \/ Decide \/ AssertDecision \/ GuardPull \/ GuardAuthority
  \/ SendMerge \/ Land \/ ReadBack \/ Dispatch \/ EndRun

Spec == Init /\ [][Next]_vars

-----------------------------------------------------------------------------
(* Properties *)

\* The types of the variables.
TypeOK ==
  /\ now \in 0..MaxTime /\ strict \in BOOLEAN /\ runs \in 0..MaxRuns /\ pushes \in 0..MaxPushes
  /\ develop \in Seq(Tree) /\ Tip \in 1..(MaxMerges + 1)
  /\ \A p \in PRs : pulls[p] \in {None} \cup Pull
  /\ run.base \in 1..Tip /\ run.head \in {None} \cup Revision
  /\ run.merged \in {None} \cup 1..Tip
  /\ run.pc \in {"fetched", "decided", "pull", "authority", "pull again", "authority again",
                 "clean", "sent", "merged", "dispatch"} => run.pr \in PRs /\ run.head # None
  /\ dispatched \subseteq {m.commit : m \in botMerges}

\* "It verifies and SHA-locks at most one merge": whatever is pushed, merged, labelled or
\* eased while a run is between its calls, what it merges adds confirmed records of new
\* transactions to the commit below it and touches nothing else, on a decision of at most
\* five minutes; and if protection was eased after the run had read it, so that the merge
\* may be another one, then the workflow of develop, which asks for production, is
\* dispatched only if it is not.
MergedAsVerified ==
  \A m \in botMerges :
    LET below == develop[m.commit - 1]
        new == develop[m.commit].records \ below.records
    IN /\ m.age <= DecisionLife
       /\ ~m.eased \/ m.commit \in dispatched =>
            /\ new # {} /\ new \subseteq Genuine
            /\ develop[m.commit].others = below.others
            /\ \A r \in new, s \in below.records : TxOf[r] # TxOf[s]

\* "Verified-records means every proposed record passed this bounded verification", and
\* the doc lists what is outside of it (funding-record-pr-verification.md:18-76): a head
\* that only adds confirmed records of new transactions is never sent to a person.
InScope == /\ run.head.on >= run.base /\ OnlyRecords
           /\ Added # {} /\ Added \subseteq Genuine /\ NewTransactions
InScopeIsDecided == run.pc = "decided" /\ InScope => run.verdict # "human"
=============================================================================
