---------------------------- MODULE DegradedRuntime ----------------------------
(***************************************************************************)
(* The git-backed runtime without a VM: scripts/degraded_monetization_      *)
(* cycle.py, scripts/persist_degraded_state.sh and the workflow that calls *)
(* them, next to the connected operator of docs/github-operator-mode.md.    *)
(*                                                                         *)
(* A run checks main out, prepares at most one package, pushes the intent   *)
(* to main (the checkpoint), submits, and pushes its final state.  It can   *)
(* fail, be cancelled or lose its machine between any two file writes.     *)
(***************************************************************************)
EXTENDS Naturals, FiniteSets

CONSTANTS
  Cand,      \* the ids discovery can return
  Run,       \* workflow runs, a run being GITHUB_RUN_ID:GITHUB_RUN_ATTEMPT
  Operator,  \* the connected operator, which reserves under its own run id
  NoPackage, \* ready.json is absent
  Serial,    \* whether the workflow's concurrency group is in force
  MaxTries,  \* iterations of the persist loop (3 in the script)
  MaxChanges \* bound: changes of the configuration in a behaviour

ASSUME OperatorAssumption == Operator \notin Run
ASSUME PackageAssumption  == NoPackage \notin [candidate : Cand, run_id : Run]
ASSUME SerialAssumption   == Serial \in BOOLEAN
ASSUME BoundsAssumption   == MaxTries \in Nat \ {0} /\ MaxChanges \in Nat

Drivers       == {"github_actions", "connected_github_operator"}
Config        == [driver : Drivers, enabled : BOOLEAN]
IntentStatus  == {"none", "prepared", "attempted_requires_reconciliation",
                  "submitted", "operator_reserved"}
Intent        == [status : IntentStatus, run_id : Run \cup {Operator}]
NoIntent      == [status |-> "none", run_id |-> Operator]
Package       == [candidate : Cand, run_id : Run]
Outcomes      == {"starting", "policy_disabled", "no_eligible_candidate",
                  "prepared_for_connected_operator", "prepared_for_submission",
                  "prepared_external_credential_missing", "prepare_failed",
                  "submit_failed", "submission_uncertain", "submitted",
                  "submitted_unverified"}
Status        == [run_id : Run \cup {Operator}, cycle_outcome : Outcomes]

(* The files of one commit of results/degraded/ and the configuration.     *)
Tree == [intents  : [Cand -> Intent],
         receipts : SUBSET Cand,
         ready    : Package \cup {NoPackage},
         status   : Status,
         cfg      : Config]

Preparing  == {"starting", "discovering", "built", "reserved"}
Submitting == {"checkpointed", "attempting", "receipt", "recorded", "settled",
               "uncertain"}
Guarded    == {"attempting", "receipt"}  \* inside the try block of submit()
Pulling    == {"checkpoint_pull", "final_pull"}
Pushing    == {"checkpoint_push", "final_push"}
PC == {"queued", "done"} \cup Preparing \cup Submitting \cup Pulling \cup Pushing

VARIABLES
  main,      \* the tree at the head of the remote main
  disk,      \* [Run -> Tree]: the runner's working tree
  base,      \* [Run -> Tree]: the commit of main that working tree grew from
  pc,        \* [Run -> PC]
  tries,     \* [Run -> 0..MaxTries-1]: failed iterations of the persist loop
  attempts,  \* [Cand -> Nat]: external submissions started, by anybody
  pulls,     \* the candidates that have an upstream pull request
  op,        \* the operator session
  gate,      \* history: [Run -> BOOLEAN], main allowed r when its checkpoint landed
  changes    \* configuration changes so far, at most MaxChanges

vars  == <<main, disk, base, pc, tries, attempts, pulls, op, gate, changes>>
git   == <<main, base, tries, gate>>
world == <<attempts, pulls, op, changes>>

FirstTree ==
  [intents  |-> [c \in Cand |-> NoIntent],
   receipts |-> {},
   ready    |-> NoPackage,
   status   |-> [run_id |-> Operator, cycle_outcome |-> "starting"],
   cfg      |-> [driver |-> "github_actions", enabled |-> TRUE]]

Init ==
  /\ main = FirstTree
  /\ disk = [r \in Run |-> FirstTree]
  /\ base = [r \in Run |-> FirstTree]
  /\ gate = [r \in Run |-> FALSE]
  /\ changes = 0
  /\ pc = [r \in Run |-> "queued"]
  /\ tries = [r \in Run |-> 0]
  /\ attempts = [c \in Cand |-> 0]
  /\ pulls = {}
  /\ op = [pc |-> "idle", package |-> NoPackage]

At(r, from)  == pc[r] = from
Goto(r, to)  == pc' = [pc EXCEPT ![r] = to]
Write(r, t)  == disk' = [disk EXCEPT ![r] = t]
Outcome(t, outcome) == [t EXCEPT !.status.cycle_outcome = outcome]
MaySubmit(cfg) == cfg.enabled /\ cfg.driver = "github_actions"

-------------------------------------------------------------------------------
(* The job: one at a time in the repository-wide concurrency group.         *)

Checkout(r) ==
  /\ At(r, "queued")
  /\ Serial => \A q \in Run : pc[q] \in {"queued", "done"}
  /\ Write(r, main)
  /\ base' = [base EXCEPT ![r] = main]
  /\ Goto(r, "starting")
  /\ UNCHANGED <<main, tries, gate, world>>

(* prepare(), file write by file write.                                     *)
PrepareStart(r) ==
  LET started == [disk[r] EXCEPT !.ready = NoPackage,
                    !.status = [run_id |-> r, cycle_outcome |-> "starting"]]
  IN /\ At(r, "starting")
     /\ IF disk[r].cfg.enabled
          THEN Write(r, started) /\ Goto(r, "discovering")
          ELSE /\ Write(r, Outcome(started, "policy_disabled"))
               /\ Goto(r, "checkpoint_pull")
     /\ UNCHANGED <<git, world>>

(* Mutant: only receipts, not intents, mark a candidate as attempted.        *)
AttemptedByReceipt(t) == t.receipts

Attempted(t) == {c \in Cand : t.intents[c] # NoIntent} \cup t.receipts

PrepareNothing(r) ==
  /\ At(r, "discovering")
  /\ Write(r, Outcome(disk[r], "no_eligible_candidate"))
  /\ Goto(r, "checkpoint_pull")
  /\ UNCHANGED <<git, world>>

PreparePackage(r, c) ==
  /\ At(r, "discovering")
  /\ c \notin Attempted(disk[r])
  /\ Write(r, [disk[r] EXCEPT !.ready = [candidate |-> c, run_id |-> r]])
  /\ Goto(r, "built")
  /\ UNCHANGED <<git, world>>

PrepareForOthers(r) ==
  /\ At(r, "built")
  /\ \/ /\ disk[r].cfg.driver = "connected_github_operator"
        /\ Write(r, Outcome(disk[r], "prepared_for_connected_operator"))
     \/ /\ disk[r].cfg.driver = "github_actions"
        /\ Write(r, Outcome(disk[r], "prepared_external_credential_missing"))
  /\ Goto(r, "checkpoint_pull")
  /\ UNCHANGED <<git, world>>

PrepareIntent(r) ==
  LET c == disk[r].ready.candidate
  IN /\ At(r, "built")
     /\ disk[r].cfg.driver = "github_actions"
     /\ Write(r, [disk[r] EXCEPT !.intents[c] =
                     [status |-> "prepared", run_id |-> r]])
     /\ Goto(r, "reserved")
     /\ UNCHANGED <<git, world>>

PrepareFinish(r) ==
  /\ At(r, "reserved")
  /\ Write(r, Outcome(disk[r], "prepared_for_submission"))
  /\ Goto(r, "checkpoint_pull")
  /\ UNCHANGED <<git, world>>

-------------------------------------------------------------------------------
(* persist_degraded_state.sh: commit, then at most three times              *)
(* "git pull --rebase && git push".  A rebase merges three trees: what the  *)
(* run grew from, what it committed and what main holds now.                *)

Merged(b, mine, theirs) == IF mine = b THEN theirs ELSE mine
Clash(b, mine, theirs)  == mine # b /\ theirs # b /\ mine # theirs
New(b, x)               == {c \in Cand : b[c] = NoIntent /\ x[c] # NoIntent}

(* Two commits that each append to the list of one JSON file touch the same *)
(* lines, so neither rebases onto the other.                                *)
AppendsClash(b, mine, theirs) == ~(mine \subseteq theirs) /\ ~(theirs \subseteq mine)

(* Mutant: the rebase resolves every conflict in favour of the run.          *)
NeverConflict(b, m, t) == FALSE

Conflict(b, m, t) ==
  \/ \E c \in Cand : Clash(b.intents[c], m.intents[c], t.intents[c])
  \/ AppendsClash(b, New(b.intents, m.intents), New(b.intents, t.intents))
  \/ AppendsClash(b, m.receipts \ b.receipts, t.receipts \ b.receipts)
  \/ Clash(b.status, m.status, t.status)
  \/ Clash(b.ready, m.ready, t.ready)

Rebased(b, m, t) ==
  [intents  |-> [c \in Cand |-> Merged(b.intents[c], m.intents[c], t.intents[c])],
   receipts |-> m.receipts \cup t.receipts,
   ready    |-> Merged(b.ready, m.ready, t.ready),
   status   |-> Merged(b.status, m.status, t.status),
   cfg      |-> t.cfg]

PushOf(pull)  == IF pull = "checkpoint_pull" THEN "checkpoint_push" ELSE "final_push"
PullOf(push)  == IF push = "checkpoint_push" THEN "checkpoint_pull" ELSE "final_pull"

Pull(r) ==
  /\ pc[r] \in Pulling
  /\ ~Conflict(base[r], disk[r], main)
  /\ Write(r, Rebased(base[r], disk[r], main))
  /\ base' = [base EXCEPT ![r] = main]
  /\ Goto(r, PushOf(pc[r]))
  /\ UNCHANGED <<main, tries, gate, world>>

(* An iteration fails: a rebase conflict or a network error in the pull,    *)
(* main has moved or the network failed in the push, or the push took       *)
(* effect and its answer was lost.                                          *)
IterationFails(r) ==
  /\ pc[r] \in Pulling \cup Pushing
  /\ \/ UNCHANGED main
     \/ /\ pc[r] \in Pushing
        /\ main = base[r]
        /\ main' = disk[r]

(* Mutant: one iteration too many.                                           *)
TryOnceMore(r) ==
  /\ IterationFails(r)
  /\ tries' = [tries EXCEPT ![r] = @ + 1]
  /\ Goto(r, IF pc[r] \in Pushing THEN PullOf(pc[r]) ELSE pc[r])
  /\ UNCHANGED <<disk, base, gate, world>>

TryAgain(r) ==
  /\ IterationFails(r)
  /\ tries[r] + 1 < MaxTries
  /\ tries' = [tries EXCEPT ![r] = @ + 1]
  /\ Goto(r, IF pc[r] \in Pushing THEN PullOf(pc[r]) ELSE pc[r])
  /\ UNCHANGED <<disk, base, gate, world>>

(* The last failure makes the script exit 1.  A failed checkpoint skips the *)
(* submission step; the always() steps still run.                           *)
CheckpointFails(r) ==
  /\ pc[r] \in {"checkpoint_pull", "checkpoint_push"}
  /\ IterationFails(r)
  /\ tries[r] + 1 = MaxTries
  /\ tries' = [tries EXCEPT ![r] = 0]
  /\ Goto(r, "final_pull")
  /\ UNCHANGED <<disk, base, gate, world>>

(* A hosted runner is discarded with its disk at the end of its job.        *)
RunEnds(r) ==
  /\ Goto(r, "done")
  /\ Write(r, FirstTree)
  /\ base' = [base EXCEPT ![r] = FirstTree]
  /\ tries' = [tries EXCEPT ![r] = 0]
  /\ UNCHANGED <<gate, world>>

FinalPersistFails(r) ==
  /\ pc[r] \in {"final_pull", "final_push"}
  /\ IterationFails(r)
  /\ tries[r] + 1 = MaxTries
  /\ RunEnds(r)

Checkpoint(r) ==
  /\ At(r, "checkpoint_push")
  /\ main = base[r]
  /\ main' = disk[r]
  /\ base' = [base EXCEPT ![r] = disk[r]]
  /\ tries' = [tries EXCEPT ![r] = 0]
  /\ gate' = [gate EXCEPT ![r] = MaySubmit(main.cfg)]
  /\ Goto(r, "checkpointed")
  /\ UNCHANGED <<disk, world>>

FinalPersist(r) ==
  /\ At(r, "final_push")
  /\ main = base[r]
  /\ main' = disk[r]
  /\ RunEnds(r)

-------------------------------------------------------------------------------
(* submit(), run only after a successful checkpoint step.                   *)

Target(r) == disk[r].ready.candidate

(* Mutant: submit() does not read the configuration again.                   *)
CurrentPackageOnly(r) ==
  /\ disk[r].status.cycle_outcome = "prepared_for_submission"
  /\ disk[r].ready # NoPackage
  /\ disk[r].ready.run_id = r
  /\ disk[r].intents[Target(r)] = [status |-> "prepared", run_id |-> r]

CurrentPackage(r) ==
  /\ MaySubmit(disk[r].cfg)
  /\ disk[r].status.cycle_outcome = "prepared_for_submission"
  /\ disk[r].ready # NoPackage
  /\ disk[r].ready.run_id = r
  /\ disk[r].intents[Target(r)] = [status |-> "prepared", run_id |-> r]

SubmitDeclines(r) ==
  /\ At(r, "checkpointed")
  /\ ~CurrentPackage(r)
  /\ Goto(r, "final_pull")
  /\ UNCHANGED <<disk, git, world>>

MarkAttempt(r) ==
  /\ At(r, "checkpointed")
  /\ CurrentPackage(r)
  /\ Write(r, [disk[r] EXCEPT !.intents[Target(r)].status =
                  "attempted_requires_reconciliation"])
  /\ Goto(r, "attempting")
  /\ UNCHANGED <<git, world>>

(* submit_patch creates the pull request and comments the issue; any call   *)
(* can raise, before or after the pull request exists.                      *)
SubmitPatch(r) ==
  /\ At(r, "attempting")
  /\ attempts' = [attempts EXCEPT ![Target(r)] = @ + 1]
  /\ \/ /\ pulls' = pulls \cup {Target(r)}
        /\ Goto(r, "receipt") \/ Goto(r, "uncertain")
     \/ /\ Goto(r, "uncertain")
        /\ UNCHANGED pulls
  /\ UNCHANGED <<disk, git, op, changes>>

(* Mutant: the receipt stays in memory.                                      *)
SkipReceipt(r) ==
  /\ At(r, "receipt")
  /\ Goto(r, "recorded")
  /\ UNCHANGED <<disk, git, world>>

SaveReceipt(r) ==
  /\ At(r, "receipt")
  /\ \/ /\ Write(r, [disk[r] EXCEPT !.receipts = @ \cup {Target(r)}])
        /\ Goto(r, "recorded")
     \/ Goto(r, "uncertain") /\ UNCHANGED disk
  /\ UNCHANGED <<git, world>>

SaveIntent(r) ==
  /\ At(r, "recorded")
  /\ Write(r, [disk[r] EXCEPT !.intents[Target(r)].status = "submitted"])
  /\ Goto(r, "settled")
  /\ UNCHANGED <<git, world>>

SaveStatus(r) ==
  /\ \/ /\ At(r, "settled")
        /\ \E o \in {"submitted", "submitted_unverified"} : Write(r, Outcome(disk[r], o))
     \/ /\ At(r, "uncertain")
        /\ Write(r, Outcome(disk[r], "submission_uncertain"))
  /\ Goto(r, "final_pull")
  /\ UNCHANGED <<git, world>>

-------------------------------------------------------------------------------
(* Failures of a job.  An exception is caught by main(), which records it;  *)
(* a cancelled or timed out job still runs its always() steps; a lost       *)
(* machine takes its disk with it.                                          *)

StepRaises(r) ==
  /\ pc[r] \in (Preparing \cup Submitting) \ Guarded
  /\ Write(r, Outcome(disk[r],
                IF pc[r] \in Preparing THEN "prepare_failed" ELSE "submit_failed"))
  /\ Goto(r, "final_pull")
  /\ UNCHANGED <<git, world>>

JobCancelled(r) ==
  /\ pc[r] \in Preparing \cup Submitting \cup {"checkpoint_pull", "checkpoint_push"}
  /\ Goto(r, "final_pull")
  /\ tries' = [tries EXCEPT ![r] = 0]
  /\ UNCHANGED <<main, disk, base, gate, world>>

RunnerLost(r) ==
  /\ pc[r] \notin {"queued", "done"}
  /\ UNCHANGED main
  /\ RunEnds(r)

-------------------------------------------------------------------------------
(* operator_briefing(): what main offers to the connected operator.         *)

PackageOffered(t) ==
  /\ t.cfg.enabled
  /\ t.cfg.driver = "connected_github_operator"
  /\ t.status.cycle_outcome = "prepared_for_connected_operator"
  /\ t.ready # NoPackage
  /\ t.ready.run_id = t.status.run_id
  /\ t.intents[t.ready.candidate] = NoIntent

(* Mutant: only intents marked by submit() are held.                         *)
AttemptsToReconcile(t) ==
  {c \in Cand : t.intents[c].status = "attempted_requires_reconciliation"}

ReconciliationRequired(t) ==
  {c \in Cand : t.intents[c].status \notin {"none", "submitted"}}

(* The operator session, through the GitHub connector: it pins a package,   *)
(* reserves its candidate on main, writes upstream, then records.           *)

OperatorMoves(from, to) == op.pc = from /\ op' = [op EXCEPT !.pc = to]

OperatorPins ==
  /\ op.pc = "idle"
  /\ PackageOffered(main)
  /\ op' = [pc |-> "pinned", package |-> main.ready]
  /\ UNCHANGED <<main, disk, base, pc, tries, gate, attempts, pulls, changes>>

OperatorReserves ==
  LET c == op.package.candidate
  IN /\ OperatorMoves("pinned", "reserved")
     /\ main.intents[c] = NoIntent
     /\ main' = [main EXCEPT !.intents[c] =
                   [status |-> "operator_reserved", run_id |-> Operator]]
     /\ UNCHANGED <<disk, base, pc, tries, gate, attempts, pulls, changes>>

OperatorSubmits ==
  LET c == op.package.candidate
  IN /\ OperatorMoves("reserved", "sent")
     /\ attempts' = [attempts EXCEPT ![c] = @ + 1]
     /\ pulls' \in {pulls, pulls \cup {c}}
     /\ UNCHANGED <<main, disk, base, pc, tries, gate, changes>>

OperatorRecords ==
  LET c == op.package.candidate
  IN /\ op.pc \in {"sent", "recorded"}
     /\ c \in pulls
     /\ \/ /\ OperatorMoves("sent", "recorded")
           /\ main' = [main EXCEPT !.receipts = @ \cup {c}]
        \/ /\ OperatorMoves("recorded", "settled")
           /\ main' = [main EXCEPT !.intents[c].status = "submitted"]
     /\ UNCHANGED <<disk, base, pc, tries, gate, attempts, pulls, changes>>

OperatorLeaves ==
  /\ op.pc # "idle"
  /\ op' = [pc |-> "idle", package |-> NoPackage]
  /\ UNCHANGED <<main, disk, base, pc, tries, gate, attempts, pulls, changes>>

(* A pull request of the maintainers changes the driver or the kill switch. *)
ConfigChanges ==
  /\ changes < MaxChanges
  /\ changes' = changes + 1
  /\ \E cfg \in Config \ {main.cfg} : main' = [main EXCEPT !.cfg = cfg]
  /\ UNCHANGED <<disk, base, pc, tries, gate, attempts, pulls, op>>

-------------------------------------------------------------------------------
RunStep(r) ==
  \/ Checkout(r)
  \/ PrepareStart(r) \/ PrepareNothing(r) \/ \E c \in Cand : PreparePackage(r, c)
  \/ PrepareForOthers(r) \/ PrepareIntent(r) \/ PrepareFinish(r)
  \/ Pull(r) \/ TryAgain(r) \/ Checkpoint(r) \/ CheckpointFails(r)
  \/ FinalPersist(r) \/ FinalPersistFails(r)
  \/ SubmitDeclines(r) \/ MarkAttempt(r) \/ SubmitPatch(r)
  \/ SaveReceipt(r) \/ SaveIntent(r) \/ SaveStatus(r)
  \/ StepRaises(r) \/ JobCancelled(r) \/ RunnerLost(r)

OperatorStep ==
  \/ OperatorPins \/ OperatorReserves \/ OperatorSubmits
  \/ OperatorRecords \/ OperatorLeaves

Next ==
  \/ \E r \in Run : RunStep(r)
  \/ OperatorStep
  \/ ConfigChanges

Spec == Init /\ [][Next]_vars

-------------------------------------------------------------------------------
(* The program counters, trees and counters stay in their domains.          *)
TypeOK ==
  /\ main \in Tree
  /\ disk \in [Run -> Tree]
  /\ base \in [Run -> Tree]
  /\ pc \in [Run -> PC]
  /\ tries \in [Run -> 0..(MaxTries - 1)]
  /\ attempts \in [Cand -> Nat]
  /\ pulls \in SUBSET Cand
  /\ op \in [pc : {"idle", "pinned", "reserved", "sent", "recorded", "settled"},
             package : Package \cup {NoPackage}]
  /\ gate \in [Run -> BOOLEAN]
  /\ changes \in 0..MaxChanges

(* "Each opportunity can be attempted once" (docs/degraded-runtime.md): the *)
(* runs, re-runs and operator sessions together never start a second        *)
(* submission of a candidate, whatever is lost or interrupted.              *)
AtMostOneAttempt == \A c \in Cand : attempts[c] <= 1

(* "Prepare persists an intent BEFORE submit is allowed": no submission was *)
(* ever started for a candidate that main does not hold an intent for.      *)
AttemptIsReserved == \A c \in Cand : attempts[c] > 0 => main.intents[c] # NoIntent

(* An attempt without a receipt on main is listed for reconciliation in the *)
(* operator briefing, even when the run that made it died with its disk.    *)
UnrecordedAttemptIsHeld ==
  \A c \in Cand :
    (attempts[c] > 0 /\ c \notin main.receipts) => c \in ReconciliationRequired(main)

(* main never claims a submission without upstream evidence: a receipt      *)
(* stands for an existing pull request, and "submitted" for a receipt.      *)
EvidenceIsTrue ==
  /\ main.receipts \subseteq pulls
  /\ \A c \in Cand : main.intents[c].status = "submitted" => c \in main.receipts

(* A takeover by the operator, or the kill switch, merged before a run's    *)
(* checkpoint lands stops that run's submission.                            *)
TakeoverIsRespected ==
  [][\A r \in Run : (pc[r] = "attempting" /\ pc'[r] \in {"receipt", "uncertain"})
                      => gate[r]]_vars

(* A durable intent is never dropped and never changes hands.               *)
ReservationIsPermanent ==
  [][\A c \in Cand : main.intents[c] # NoIntent =>
        /\ main'.intents[c] # NoIntent
        /\ main'.intents[c].run_id = main.intents[c].run_id]_vars

(* The inductive invariant behind the properties above.                     *)

Reserved(t, c)  == t.intents[c] # NoIntent
HeldBy(t, c, h) == Reserved(t, c) /\ t.intents[c].run_id = h
Unsent   == {"queued", "checkpointed", "attempting"} \cup Preparing
              \cup {"checkpoint_pull", "checkpoint_push"}
InFlight == {"attempting", "receipt", "recorded", "settled", "uncertain"}

(* A tree is honest about submissions.                                      *)
TreeEvidence(t) ==
  /\ t.receipts \subseteq pulls
  /\ \A c \in Cand :
       /\ t.intents[c].status = "none" => t.intents[c] = NoIntent
       /\ t.intents[c].status = "submitted" => c \in t.receipts

Evidence ==
  /\ TreeEvidence(main)
  /\ \A r \in Run : /\ TreeEvidence(disk[r]) /\ TreeEvidence(base[r])
                    /\ base[r].receipts \subseteq disk[r].receipts
  /\ \A r \in Run : pc[r] = "receipt" => Target(r) \in pulls
  /\ \A r \in Run : pc[r] = "recorded" => Target(r) \in disk[r].receipts

(* Every reservation in a clone is main's, or the run's own addition.       *)
Extends(t, u) == \A c \in Cand, h \in Run \cup {Operator} :
                    HeldBy(t, c, h) => HeldBy(u, c, h)
AddsOnlyOf(t, u, h) == \A c \in Cand, g \in Run \cup {Operator} :
                          HeldBy(u, c, g) => g = h \/ HeldBy(t, c, g)
Lineage ==
  \A r \in Run : /\ Extends(base[r], main)
                 /\ Extends(base[r], disk[r])
                 /\ AddsOnlyOf(base[r], disk[r], r)

(* Only its holder attempts a candidate, and only once.                     *)
Ownership ==
  /\ \A c \in Cand : attempts[c] <= 1
  /\ \A c \in Cand : attempts[c] > 0 => Reserved(main, c)
  /\ \A r \in Run, c \in Cand :
       HeldBy(main, c, r) /\ pc[r] \in Unsent => attempts[c] = 0

(* Who works on a package has one.                                          *)
HasPackage ==
  /\ \A r \in Run : pc[r] \in InFlight \cup {"built"} => disk[r].ready \in Package
  /\ op.pc # "idle" => op.package \in Package

RunState ==
  \A r \in Run :
    /\ disk[r].cfg = base[r].cfg
    /\ pc[r] = "built" => ~Reserved(disk[r], Target(r))
    /\ pc[r] = "checkpointed" => base[r] = disk[r] /\ gate[r] = MaySubmit(disk[r].cfg)
    /\ pc[r] \in InFlight => HeldBy(base[r], Target(r), r)
    /\ pc[r] = "attempting" => gate[r]

OperatorState ==
  LET c == op.package.candidate
  IN op.pc # "idle" =>
       /\ op.pc # "pinned" => HeldBy(main, c, Operator)
       /\ op.pc = "reserved" => attempts[c] = 0
       /\ op.pc = "recorded" => c \in main.receipts

(* What a working tree adds to the commit it grew from is one reservation   *)
(* or one receipt at most, and nothing before prepare() writes the intent   *)
(* and again from the checkpoint to the receipt.                            *)
Fresh(b, m)   == {c \in Cand : Reserved(m, c) /\ ~Reserved(b, c)}
OneAtMost(S)  == \A c \in S, d \in S : c = d
AddsOne(b, m) ==
  /\ OneAtMost(Fresh(b, m)) /\ OneAtMost(m.receipts \ b.receipts)
  /\ Fresh(b, m) = {} \/ m.receipts \subseteq b.receipts
AddsNothing(b, m) == Fresh(b, m) = {} /\ m.receipts \subseteq b.receipts
Unchanged == {"starting", "discovering", "built", "checkpointed", "attempting", "receipt"}

Additions ==
  /\ \A c \in pulls : attempts[c] > 0
  /\ \A r \in Run :
       /\ base[r].receipts \subseteq main.receipts
       /\ AddsOne(base[r], disk[r])
       /\ pc[r] \in Unchanged => AddsNothing(base[r], disk[r])

(* Conjunction of the above: what every step of a run, of the operator and  *)
(* of the maintainers preserves.                                            *)
IInv ==
  /\ TypeOK /\ HasPackage /\ Evidence
  /\ Lineage /\ Ownership /\ RunState /\ OperatorState /\ Additions

(* The runtime implements the submission ledger: the durable intents of     *)
(* main are the reservations, its receipts the records.                     *)
HoldersOf(t) ==
  [c \in Cand |-> IF t.intents[c] = NoIntent THEN {} ELSE {t.intents[c].run_id}]
Ledger == INSTANCE SubmissionLedger WITH
  Holder   <- Run \cup {Operator},
  holders  <- HoldersOf(main),
  recorded <- main.receipts
LedgerSpec == Ledger!Spec
===============================================================================
