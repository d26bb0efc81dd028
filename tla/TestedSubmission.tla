---------------------------- MODULE TestedSubmission ----------------------------
(***************************************************************************)
(* The workflow autonomous-tested-submission.yml: a scout lists payable tasks, *)
(* a builder makes a patch for one of them, the patch is packaged and sent as    *)
(* a pull request, the results are committed.  Each script reads what the one     *)
(* before has left in results/, which also holds what earlier runs left there.     *)
(*                                                                           *)
(* Runs of the workflow are sequential; maintainers and the owner move at any     *)
(* time, and a commit of another workflow can make a run lose its results.        *)
(***************************************************************************)
EXTENDS Naturals, FiniteSets, Sequences

CONSTANTS
  Task,        \* issues with a reward
  Capability,  \* kinds of deterministic patch, read from the text of the issue
  Nil,         \* no workspace, no package
  Policies,    \* contents of config/production_policy.json the owner may commit
  MaxPulls     \* bound: pull requests opened

Modes   == {"quick", "other"}
Change  == [task : Task, capability : Capability]
Package == [change : Change, mode : Modes]
Policy  == [open : BOOLEAN,          \* external actions enabled, no kill switch
            payment : BOOLEAN,       \* require_verified_payment_path
            rejected : SUBSET Task,  \* by a term, the effort, the reward, the family
            mode : Modes]

ASSUME PolicyAssumption == Policies \subseteq Policy /\ Policies # {}
ASSUME PullsAssumption  == MaxPulls \in Nat /\ Nil \notin Change \cup Package

VARIABLES
  results,  \* what is committed: the workspace, the package, the receipts
  policy,   \* the policy that is committed
  attempt,  \* the run in progress and its checkout
  pulls     \* the project's pull requests on GitHub, by number

submission == <<results, policy, attempt, pulls>>

RunPhases == {"idle", "scout", "build", "package", "submit", "comment", "monitor", "persist"}
Verdicts  == {"absent", "listed", "refused", "credible", "rejected"}
Causes    == {"none", "undiscovered", "policy", "pivot"}

NoRun ==
  [phase |-> "idle", registry |-> [t \in Task |-> "absent"], cause |-> "none",
   workspace |-> Nil, package |-> Nil, receipts |-> <<>>, diagnosis |-> "none",
   policy |-> CHOOSE p \in Policies : TRUE]

SubmissionInit ==
  /\ results = [workspace |-> Nil, package |-> Nil, receipts |-> <<>>]
  /\ policy \in Policies
  /\ attempt = NoRun
  /\ pulls = <<>>

Proceeds(c, phase) == attempt' = [c EXCEPT !.phase = phase]

CheckoutResults ==
  /\ attempt.phase = "idle"
  /\ Proceeds([NoRun EXCEPT !.workspace = results.workspace, !.package = results.package,
                        !.receipts = results.receipts, !.policy = policy], "scout")
  /\ UNCHANGED <<results, policy, pulls>>

-------------------------------------------------------------------------------
(* evaluate_candidate(): `fields' are the fields the candidate has.          *)

Pays(fields) == fields \cap {"payment_path", "paymentProvider", "payment_provider"} # {}

Accepts(t, fields) ==
  /\ attempt.policy.open
  /\ t \notin attempt.policy.rejected
  /\ attempt.policy.payment => Pays(fields)

(* Of the fields about payment, those a candidate of the scout has, and those *)
(* that the context in the package keeps.                                     *)
CandidateFields == {"payment_provider"}
ContextFields   ==
  CandidateFields \cap {"reward_verified", "payment_path", "payment_methods", "payment_evidence"}

Listed  == {t \in Task : attempt.registry[t] # "absent"}
Allowed == {t \in Listed : Accepts(t, CandidateFields)}

-------------------------------------------------------------------------------
(* The scout replaces the registry and the cause that the last run has left.  *)
Scout ==
  /\ attempt.phase = "scout"
  /\ \E found \in SUBSET Task :
       Proceeds([attempt EXCEPT
               !.registry = [t \in Task |-> IF t \in found THEN "listed" ELSE "absent"],
               !.cause = IF found = {} THEN "undiscovered" ELSE "none"], "build")
  /\ UNCHANGED <<results, policy, pulls>>

(* The preflight: an issue that is closed or reads like a trap is rejected, one  *)
(* that cannot be read keeps no verdict.                                      *)
Preflighted == {"listed", "credible", "rejected"}

(* The patch that is built for an issue depends on the text it has now.       *)
PatchesOf(t) == {change \in Change : change.task = t}

(* The verdicts after these candidates were tried.                            *)
Tried(candidates) ==
  {r \in [Task -> Verdicts] :
     \A t \in Task :
       CASE t \in candidates -> r[t] \in Preflighted
         [] t \in Allowed \ candidates -> r[t] = "listed"
         [] t \in Listed \ Allowed -> r[t] = "refused"
         [] OTHER -> r[t] = "absent"}

(* The first allowed candidate that can be patched ends the search ...        *)
PatchBuilt ==
  \E candidates \in SUBSET Allowed : \E t \in candidates :
    \E change \in PatchesOf(t), r \in Tried(candidates) :
      /\ r[t] = "credible"
      /\ Proceeds([attempt EXCEPT !.registry = r, !.cause = "none", !.workspace = change],
                  "package")

(* ... and if none can, the workspace of an earlier run stays in the ledger.  *)
NothingBuilt ==
  \E r \in Tried(Allowed) :
    Proceeds([attempt EXCEPT !.registry = r,
            !.cause = CASE Allowed # {} -> "pivot"
                        [] Listed # {} /\ Allowed = {} -> "policy"
                        [] OTHER -> @], "package")

BuildTargetPatch ==
  /\ attempt.phase = "build"
  /\ PatchBuilt \/ NothingBuilt
  /\ UNCHANGED <<results, policy, pulls>>

-------------------------------------------------------------------------------

(* _record_policy_block() removes the package.                               *)
Blocked(c) == [c EXCEPT !.package = Nil]

NothingFound == attempt.cause \in {"undiscovered", "policy"} /\ Listed = {}

(* The workspace that the ledger names is packaged if its task is listed and  *)
(* allowed, whatever the builder has said of it.                              *)
Packaged ==
  IF attempt.workspace.task \in Allowed
    THEN [attempt EXCEPT !.package = [change |-> attempt.workspace, mode |-> attempt.policy.mode]]
    ELSE Blocked(attempt)

BuildPackage ==
  /\ attempt.phase = "package"
  /\ Proceeds(CASE ~attempt.policy.open -> Blocked(attempt)
            [] attempt.policy.open /\ NothingFound -> [attempt EXCEPT !.package = Nil]
            [] attempt.policy.open /\ ~NothingFound /\ attempt.workspace = Nil -> attempt
            [] OTHER -> Packaged, "submit")
  /\ UNCHANGED <<results, policy, pulls>>

-------------------------------------------------------------------------------
(* The submitter.  Either it refuses the package ...                         *)

AcceptsPackage ==
  /\ attempt.package # Nil
  /\ Accepts(attempt.package.change.task, ContextFields)
  /\ attempt.package.mode = attempt.policy.mode

Refuse ==
  /\ attempt.phase = "submit" /\ ~AcceptsPackage
  /\ Proceeds([attempt EXCEPT !.diagnosis =
             IF attempt.policy.open /\ attempt.package = Nil THEN "missing" ELSE "policy"],
          "monitor")
  /\ UNCHANGED <<results, policy, pulls>>

(* Mutant: the branch carries the time of the build.                         *)
BranchOfBuild(change) == <<change, Len(pulls)>>

(* The branch of a patch is named after the candidate and the capability, so  *)
(* a repetition finds the branch, and the pull request, that it has made.      *)
Branch(change) == <<change, 0>>

(* GitHub opens one pull request per branch.                                 *)
GitHubOpens(branch) ==
  /\ Len(pulls) < MaxPulls
  /\ \A n \in DOMAIN pulls : pulls[n].branch = branch => pulls[n].state # "open"

(* ... or it opens a pull request ...                                        *)
OpenPullRequest ==
  /\ attempt.phase = "submit" /\ AcceptsPackage
  /\ LET change == attempt.package.change IN
     /\ GitHubOpens(Branch(change))
     /\ pulls' = Append(pulls,
          [change |-> change, branch |-> Branch(change), state |-> "open"])
  /\ Proceeds(attempt, "comment")
  /\ UNCHANGED <<results, policy>>

(* What a failure is put down to: a lack that only the owner can make good, or   *)
(* something technical.                                                       *)
Diagnoses == {"blocked", "failed"}

(* ... or the manifest does not hold, GitHub refuses or does not answer, or the  *)
(* identity is missing.                                                       *)
SubmissionFails ==
  /\ attempt.phase = "submit" /\ AcceptsPackage
  /\ \E d \in Diagnoses : Proceeds([attempt EXCEPT !.diagnosis = d], "monitor")
  /\ UNCHANGED <<results, policy, pulls>>

(* The comment on the issue comes before the receipt.                        *)
CommentOnIssue ==
  /\ attempt.phase = "comment"
  /\ \/ Proceeds([attempt EXCEPT !.receipts = Append(@, Len(pulls))], "monitor")
     \/ \E d \in Diagnoses : Proceeds([attempt EXCEPT !.diagnosis = d], "monitor")
  /\ UNCHANGED <<results, policy, pulls>>

(* The state of the last pull request is read and reported.                  *)
MonitorSubmission ==
  /\ attempt.phase = "monitor"
  /\ Proceeds(attempt, "persist")
  /\ UNCHANGED <<results, policy, pulls>>

(* A package that was removed is not staged: the committed one stays.        *)
PersistEvidence ==
  /\ attempt.phase = "persist"
  /\ results' = [workspace |-> attempt.workspace,
                 package |-> IF attempt.package = Nil THEN results.package ELSE attempt.package,
                 receipts |-> attempt.receipts]
  /\ attempt' = NoRun
  /\ UNCHANGED <<policy, pulls>>

(* A step fails, the monitor's included, the time is over, or the rebase hits *)
(* the ledger of another workflow: nothing of the run is committed.            *)
CycleLost ==
  /\ attempt.phase # "idle"
  /\ attempt' = NoRun
  /\ UNCHANGED <<results, policy, pulls>>

CycleStep ==
  \/ CheckoutResults \/ Scout \/ BuildTargetPatch \/ BuildPackage
  \/ Refuse \/ OpenPullRequest \/ SubmissionFails \/ CommentOnIssue
  \/ MonitorSubmission \/ PersistEvidence \/ CycleLost

-------------------------------------------------------------------------------
MaintainerDecides ==
  /\ \E n \in DOMAIN pulls, s \in {"closed", "merged"} :
       /\ pulls[n].state = "open"
       /\ pulls' = [pulls EXCEPT ![n].state = s]
  /\ UNCHANGED <<results, policy, attempt>>

OwnerChangesPolicy ==
  /\ policy' \in Policies \ {policy}
  /\ UNCHANGED <<results, attempt, pulls>>

SubmissionNext ==
  CycleStep \/ MaintainerDecides \/ OwnerChangesPolicy

SubmissionSpec == SubmissionInit /\ [][SubmissionNext]_submission

-------------------------------------------------------------------------------
(* What the commit, the checkout and GitHub hold.                             *)
SubmissionTypeOK ==
  /\ results \in [workspace : Change \cup {Nil}, package : Package \cup {Nil},
                  receipts : Seq(1..MaxPulls)]
  /\ policy \in Policies
  /\ attempt \in [phase : RunPhases, registry : [Task -> Verdicts], cause : Causes,
                workspace : Change \cup {Nil}, package : Package \cup {Nil},
                receipts : Seq(1..MaxPulls),
                diagnosis : {"none", "policy", "missing"} \cup Diagnoses,
                policy : Policies]
  /\ pulls \in Seq([change : Change, branch : Change \X Nat,
                    state : {"open", "closed", "merged"}])

(* Lost receipts, lost runs and repetitions do not open the same patch twice   *)
(* at the same time.                                                          *)
OneOpenPullRequest ==
  \A m, n \in DOMAIN pulls :
    pulls[m].change = pulls[n].change /\ pulls[m].state = "open" /\ pulls[n].state = "open"
      => m = n

(* "rejects subjective, fictional or adversarial bounty terms ... Unsupported    *)
(* work fails closed": no pull request is opened for a task that the preflight   *)
(* of the same run has rejected.                                                *)
RejectedIsNotSubmitted ==
  [][Len(pulls') > Len(pulls) =>
       attempt.registry[pulls'[Len(pulls')].change.task] # "rejected"]_submission
===============================================================================
