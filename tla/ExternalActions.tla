---------------------------- MODULE ExternalActions ----------------------------
(***************************************************************************)
(* The workflow autonomous-monetization-scout: owner commands on issue 77   *)
(* become approvals (scripts/autonomous_approval_manager.py), which two     *)
(* executors consume: one opens an internal execution issue                 *)
(* (autonomous_opportunity_executor.py), one posts a prepared action to a   *)
(* foreign repository (autonomous_external_action_executor.py).             *)
(*                                                                         *)
(* A run works on a checkout and pushes it in one of its last steps; a step *)
(* that fails before that, at any point, loses what the run has written and *)
(* nothing of what it has posted.  So a step's saves are one action here.   *)
(***************************************************************************)
EXTENDS Naturals, FiniteSets, SequencesExt

CONSTANTS
  Cand,        \* candidates
  Top,         \* the target "top" of a command
  Report,      \* a comment that is not an owner command: the workflow's report
  Other,       \* an issue or pull request of the repository without a marker
  N,           \* prepared actions, 1..N in queue order
  CandOf,      \* [1..N -> Cand]
  Autonomous,  \* the actions of class low_risk_reversible
  Page,        \* comments one request returns (100)
  LookBack,    \* newest issues the scan for a marker reaches (10 pages of 100)
  MaxComments, MaxOthers, MaxRuns, MaxFailures  \* bounds

Queued == 1..N

ASSUME NAssumption == N \in Nat
ASSUME CandAssumption == IsFiniteSet(Cand) /\ {Top, Other} \cap Cand = {} /\ CandOf \in [Queued -> Cand]
ASSUME AutonomousAssumption == Autonomous \subseteq Queued
ASSUME PageAssumption == Page \in Nat \ {0}
ASSUME LookBackAssumption == LookBack \in Nat \ {0}
ASSUME BoundsAssumption == MaxComments \in Nat /\ MaxRuns \in Nat /\ MaxFailures \in Nat

ActionStatuses == {"ready", "submitted", "policy_rejected", "email_fallback_ready"}
OwnerCommand   == [target : Cand \cup {Top}, external : BOOLEAN]
Approval       == [comment : Nat, candidate : Cand, external : BOOLEAN, consumed : BOOLEAN]
LedgerFiles    == [approvals : Seq(Approval), listing : Seq(Cand), started : SUBSET Cand,
                   status : [Queued -> ActionStatuses], receipts : SUBSET Queued,
                   submitted : Nat]

VARIABLES
  thread,   \* the comments of issue 77, oldest first
  durable,  \* results/ on the branch
  files,    \* results/ in the checkout of the current run
  pc,       \* the step of the current run
  issues,   \* the repository's issues, oldest first: the candidate whose marker an
            \* execution issue carries, or Other
  posted,   \* [Queued -> Nat]: comments posted for it
  uses,     \* history: [comment -> Nat], posts its approval was spent on
  runs, failures

actionVars == <<thread, durable, files, pc, issues, posted, uses, runs, failures>>

FreshResults == [approvals |-> <<>>, listing |-> <<>>, started |-> {},
                 status |-> [a \in Queued |-> "ready"], receipts |-> {}, submitted |-> 0]

ActionsInit ==
  /\ thread = <<>>
  /\ durable = FreshResults
  /\ files = durable
  /\ pc = "idle"
  /\ issues = <<>>
  /\ posted = [a \in Queued |-> 0]
  /\ uses = [i \in 1..(MaxComments + MaxRuns) |-> 0]
  /\ runs = 0
  /\ failures = 0

ListedCandidates == Range(files.listing)

-------------------------------------------------------------------------------
(* The owner and the approval manager.                                      *)

Commands == {i \in 1..Len(thread) : thread[i] # Report}

OwnerComments ==
  /\ Cardinality(Commands) < MaxComments
  /\ \E command \in OwnerCommand : thread' = Append(thread, command)
  /\ UNCHANGED <<durable, files, pc, issues, posted, uses, runs, failures>>

(* The candidates a command stands for: none, or one.                       *)
Resolve(i) ==
  IF thread[i].target # Top THEN {thread[i].target} \cap ListedCandidates
  ELSE IF files.listing = <<>> THEN {} ELSE {Head(files.listing)}

Seen == {files.approvals[k].comment : k \in 1..Len(files.approvals)}

Returned == {i \in 1..Len(thread) : i <= Page}

Acceptable(i) ==
  /\ i \in (Returned \cap Commands) \ Seen
  /\ Resolve(i) # {}

(* autonomous_approval_manager.main: each acceptable comment, in order.        *)
Approve(approvals, i) ==
  IF Acceptable(i)
  THEN Append(approvals, [comment |-> i, candidate |-> CHOOSE c \in Resolve(i) : TRUE,
                          external |-> thread[i].external, consumed |-> FALSE])
  ELSE approvals
Comments == [i \in 1..Len(thread) |-> i]
Approved == FoldLeft(LAMBDA approvals, i : Approve(approvals, i), files.approvals, Comments)

ConsumeApprovals ==
  /\ pc = "approvals"
  /\ files' = [files EXCEPT !.approvals = Approved]
  /\ pc' = "internal"
  /\ UNCHANGED <<thread, durable, issues, posted, uses, runs, failures>>

-------------------------------------------------------------------------------
(* Approvals in the hands of the executors.                                 *)

Open(k, c) == files.approvals[k].candidate = c /\ ~files.approvals[k].consumed

Latest(S) == {k \in S : \A l \in S : l <= k}

(* find_approval and find_external_approval: empty, or one position.         *)
FindApproval(c) == Latest({k \in 1..Len(files.approvals) : Open(k, c)})

FindExternalApproval(c) ==
  Latest({k \in 1..Len(files.approvals) : Open(k, c) /\ files.approvals[k].external})

Spent(K) == [k \in 1..Len(files.approvals) |->
               IF k \in K THEN [files.approvals[k] EXCEPT !.consumed = TRUE]
                          ELSE files.approvals[k]]

Use(K) == uses' = [i \in DOMAIN uses |->
                     uses[i] + Cardinality({k \in K : files.approvals[k].comment = i})]

-------------------------------------------------------------------------------
(* autonomous_opportunity_executor.main: one candidate the policy allows.    *)

(* Whoever else opens an issue or a pull request in the repository.          *)
OthersOpen ==
  /\ Cardinality({k \in 1..Len(issues) : issues[k] = Other}) < MaxOthers
  /\ issues' = Append(issues, Other)
  /\ UNCHANGED <<thread, durable, files, pc, posted, uses, runs, failures>>

(* find_existing_execution_issue.                                            *)
Scanned == {issues[k] : k \in {j \in 1..Len(issues) : j > Len(issues) - LookBack}}

NothingToStart ==
  /\ pc = "internal"
  /\ pc' = "external"
  /\ UNCHANGED <<thread, durable, files, issues, posted, uses, runs, failures>>

AlreadyExecuting ==
  /\ pc = "internal"
  /\ \E c \in ListedCandidates : c \in Scanned /\ files' = [files EXCEPT !.started = @ \cup {c}]
  /\ pc' = "external"
  /\ UNCHANGED <<thread, durable, issues, posted, uses, runs, failures>>

(* Mutant: only the local receipts are consulted.                            *)
StartByReceipt ==
  /\ pc = "internal"
  /\ \E c \in ListedCandidates \ files.started :
       /\ issues' = Append(issues, c)
       /\ files' = [files EXCEPT !.started = @ \cup {c}, !.approvals = Spent(FindApproval(c))]
  /\ pc' = "external"
  /\ UNCHANGED <<thread, durable, posted, uses, runs, failures>>

StartExecution ==
  /\ pc = "internal"
  /\ \E c \in ListedCandidates \ files.started :
       /\ c \notin Scanned
       /\ issues' = Append(issues, c)
       /\ files' = [files EXCEPT !.started = @ \cup {c}, !.approvals = Spent(FindApproval(c))]
  /\ pc' = "external"
  /\ UNCHANGED <<thread, durable, posted, uses, runs, failures>>

-------------------------------------------------------------------------------
(* autonomous_external_action_executor.main: the first ready action only.    *)

ReadyActions == {a \in Queued : files.status[a] = "ready" /\ a \notin files.receipts}

First(a) == a \in ReadyActions /\ \A b \in ReadyActions : a <= b

Authorised(a) == a \in Autonomous \/ FindExternalApproval(CandOf[a]) # {}

(* Policy blocked, nothing ready, the first one invalid or awaiting approval. *)
NothingToPost ==
  /\ pc = "external"
  /\ pc' = "commit"
  /\ UNCHANGED <<thread, durable, files, issues, posted, uses, runs, failures>>

RejectByPolicy(a) ==
  /\ pc = "external" /\ First(a)
  /\ files' = [files EXCEPT !.status[a] = "policy_rejected"]
  /\ pc' = "commit"
  /\ UNCHANGED <<thread, durable, issues, posted, uses, runs, failures>>

(* No credential, or the post answered 401 or 403: the approval stays open.  *)
Fallback(a) ==
  /\ pc = "external" /\ First(a) /\ Authorised(a)
  /\ files' = [files EXCEPT !.status[a] = "email_fallback_ready"]
  /\ pc' = "commit"
  /\ UNCHANGED <<thread, durable, issues, posted, uses, runs, failures>>

PostAction(a) ==
  LET K == IF a \in Autonomous THEN {} ELSE FindExternalApproval(CandOf[a])
  IN /\ pc = "external" /\ First(a) /\ Authorised(a)
     /\ posted' = [posted EXCEPT ![a] = @ + 1]
     /\ files' = [files EXCEPT !.receipts = @ \cup {a}, !.approvals = Spent(K),
                             !.status[a] = "submitted", !.submitted = @ + 1]
     /\ Use(K)
     /\ pc' = "commit"
     /\ UNCHANGED <<thread, durable, issues, runs, failures>>

-------------------------------------------------------------------------------
(* The run around them.                                                     *)

(* Checkout and autonomous_monetization_scout.py, which writes a new list.   *)
ScoutCandidates ==
  /\ pc = "idle" /\ runs < MaxRuns
  /\ runs' = runs + 1
  /\ \E listing \in SetToAllKPermutations(Cand) :
       files' = [durable EXCEPT !.listing = listing]
  /\ pc' = "approvals"
  /\ UNCHANGED <<thread, durable, issues, posted, uses, failures>>

CommitLedger ==
  /\ pc = "commit"
  /\ durable' = files
  /\ pc' = "report"
  /\ UNCHANGED <<thread, files, issues, posted, uses, runs, failures>>

PublishReport ==
  /\ pc = "report"
  /\ thread' = Append(thread, Report)
  /\ pc' = "idle"
  /\ UNCHANGED <<durable, files, issues, posted, uses, runs, failures>>

(* A step exits non-zero, times out, cannot push, or its machine is lost.    *)
ScoutJobFails ==
  /\ pc # "idle" /\ failures < MaxFailures
  /\ failures' = failures + 1
  /\ pc' = "idle"
  /\ files' = durable
  /\ UNCHANGED <<thread, durable, issues, posted, uses, runs>>

ActionsNext ==
  \/ OwnerComments \/ OthersOpen
  \/ ScoutCandidates \/ ConsumeApprovals
  \/ NothingToStart \/ AlreadyExecuting \/ StartExecution
  \/ NothingToPost
  \/ \E a \in Queued : RejectByPolicy(a) \/ Fallback(a) \/ PostAction(a)
  \/ CommitLedger \/ PublishReport \/ ScoutJobFails

ActionsSpec == ActionsInit /\ [][ActionsNext]_actionVars

-------------------------------------------------------------------------------
(* Types, and: between runs nothing lives on a disk.                         *)
ActionsTypeOK ==
  /\ thread \in Seq(OwnerCommand \cup {Report})
  /\ durable \in LedgerFiles
  /\ files \in LedgerFiles
  /\ pc \in {"idle", "approvals", "internal", "external", "commit", "report"}
  /\ pc = "idle" => files = durable
  /\ issues \in Seq(Cand \cup {Other})
  /\ posted \in [Queued -> Nat]
  /\ uses \in [1..(MaxComments + MaxRuns) -> Nat]
  /\ runs \in 0..MaxRuns
  /\ failures \in 0..MaxFailures

(* The marker in the issue keeps execution issues unique although receipts   *)
(* are lost with failed runs: two issues of one candidate are never within   *)
(* the reach of one scan.  Beyond it, a lost receipt does open another.       *)
OneIssuePerCandidate ==
  \A j, k \in 1..Len(issues) :
    (issues[j] # Other /\ issues[j] = issues[k] /\ j < k) => k - j > LookBack

(* "Approvals are persisted and consumed exactly once by the corresponding   *)
(* executor" (autonomous_approval_manager.py): an approval of external scope  *)
(* pays for one comment on a foreign repository.                             *)
ApprovalUsedOnce == \A i \in DOMAIN uses : uses[i] <= 1
===============================================================================
