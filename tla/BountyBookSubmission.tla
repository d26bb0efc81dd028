------------------------- MODULE BountyBookSubmission -------------------------
(* bountybook_authorized_submit.py and the workflow around it: one authorized job, a    *)
(* pinned artifact, and a receipt per attempt (the workflow names the file). A run       *)
(* looks for the receipt on the branch, checks the envelope and the artifact, reads the  *)
(* job, signs in, claims, submits, polls the oracle, writes the receipt on the VM, pulls  *)
(* and commits it. The receipt's text and the sign-in messages are left out.             *)
EXTENDS Naturals, FiniteSets

CONSTANTS
  MaxAttempts,  \* bound: attempts the owner authorizes, each with its own receipt file
  MaxRestarts   \* bound: runs of the workflow

ASSUME SubmissionAssumption == MaxAttempts \in Nat \ {0} /\ MaxRestarts \in Nat

VARIABLES
  job,       \* the platform: status, who holds it, how often it was opened
  handed,    \* the submissions the platform has: [opening, artifact]
  envelope,  \* bountybook_authorized_submission.json: authorized, spending excluded
  artifact,  \* the deliverable on the branch
  attempt,   \* RECEIPT_PATH: the number in its name
  vmReceipt, \* attempts with a receipt on the VM
  committed, \* attempts with a verified receipt on the branch
  handover,  \* the run under way
  restarts

submitting == <<job, handed, envelope, artifact, attempt, vmReceipt, committed, handover, restarts>>

Artifacts == {"reviewed", "changed"}
NoHandover == [at |-> "idle", content |-> "none", authorized |-> FALSE]

SubmissionInit ==
  /\ job = [status |-> "open", holder |-> "nobody", opening |-> 1, right |-> TRUE]
  /\ handed = {} /\ envelope \in BOOLEAN /\ artifact \in Artifacts
  /\ attempt = 1 /\ vmReceipt = {} /\ committed = {}
  /\ handover = NoHandover /\ restarts = 0

(* The workflow: a receipt on the branch refuses the run; the files are those of its     *)
(* checkout.                                                                         *)
Begin ==
  /\ handover.at = "idle" /\ restarts < MaxRestarts
  /\ attempt \notin committed
  /\ handover' = [at |-> "check", content |-> artifact, authorized |-> envelope]
  /\ restarts' = restarts + 1
  /\ UNCHANGED <<job, handed, envelope, artifact, attempt, vmReceipt, committed>>

Goes(next) == handover' = [handover EXCEPT !.at = next]
Fails == handover' = NoHandover
ExceptHandover == UNCHANGED <<job, handed, envelope, artifact, attempt, vmReceipt, committed, restarts>>

(* The envelope and the hash, before any request.                                      *)
Pinned == handover.content = "reviewed"
CheckEnvelope ==
  /\ handover.at = "check"
  /\ IF handover.authorized /\ Pinned THEN Goes("preflight") ELSE Fails
  /\ ExceptHandover

(* The job as it was reviewed (its id, title and reward) and open.                      *)
JobIsTaken == job.status \in {"open", "claimed", "submitted"}
JobIsOpen == job.status = "open"
Preflight ==
  /\ handover.at = "preflight"
  /\ \/ IF JobIsOpen /\ job.right THEN Goes("sign_in") ELSE Fails
     \/ Fails
  /\ ExceptHandover

SignIn ==
  /\ handover.at = "sign_in"
  /\ Goes("claim") \/ Fails
  /\ ExceptHandover

(* The platform gives the job to the first who claims it, and to him again.              *)
Claim ==
  /\ handover.at = "claim"
  /\ LET mine == job.status # "settled" /\ job.holder \in {"nobody", "louis"}
         held == IF job.status = "open" THEN [job EXCEPT !.status = "claimed", !.holder = "louis"]
                 ELSE job
     IN \/ mine /\ job' = held /\ Goes("submit")
        \/ mine /\ job' = held /\ Fails                \* claimed, the answer lost
        \/ UNCHANGED job /\ Fails
  /\ UNCHANGED <<handed, envelope, artifact, attempt, vmReceipt, committed, restarts>>

Submit ==
  /\ handover.at = "submit"
  /\ LET mine  == job.holder = "louis" /\ job.status \in {"claimed", "submitted"}
         taken == /\ handed' = handed \cup {[opening |-> job.opening, artifact |-> handover.content,
                                            number |-> Cardinality(handed)]}
                  /\ job' = [job EXCEPT !.status = "submitted"]
     IN \/ mine /\ taken /\ Goes("poll")
        \/ mine /\ taken /\ Fails                      \* submitted, the answer lost
        \/ UNCHANGED <<handed, job>> /\ Fails
  /\ UNCHANGED <<envelope, artifact, attempt, vmReceipt, committed, restarts>>

(* The polls only read, but one that raises loses the receipt of what was submitted.     *)
Poll ==
  /\ handover.at = "poll"
  /\ \/ Goes("commit") /\ vmReceipt' = vmReceipt \cup {attempt}
     \/ Fails /\ UNCHANGED vmReceipt
  /\ UNCHANGED <<job, handed, envelope, artifact, attempt, committed, restarts>>

CommitReceipt ==
  /\ handover.at = "commit"
  /\ committed' = committed \cup {attempt} \/ UNCHANGED committed
  /\ Fails
  /\ UNCHANGED <<job, handed, envelope, artifact, attempt, vmReceipt, restarts>>

(* The oracle judges a submission: it settles the job, or opens it again.                *)
Judge ==
  /\ job.status = "submitted" /\ job.opening < MaxAttempts
  /\ \/ job' = [job EXCEPT !.status = "settled"]
     \/ job' = [job EXCEPT !.status = "open", !.holder = "nobody", !.opening = @ + 1]
  /\ UNCHANGED <<handed, envelope, artifact, attempt, vmReceipt, committed, handover, restarts>>

(* Another agent claims the job; its payer edits it.                                    *)
OthersAct ==
  /\ job.status = "open"
  /\ \/ job' = [job EXCEPT !.status = "claimed", !.holder = "other"]
     \/ job' = [job EXCEPT !.right = FALSE]
  /\ UNCHANGED <<handed, envelope, artifact, attempt, vmReceipt, committed, handover, restarts>>

(* The owner authorizes, revokes, edits the deliverable or names the next attempt.       *)
OwnerActs ==
  /\ handover.at = "idle"
  /\ \/ envelope' = ~envelope /\ UNCHANGED <<artifact, attempt>>
     \/ artifact' \in Artifacts \ {artifact} /\ UNCHANGED <<envelope, attempt>>
     \/ attempt < MaxAttempts /\ attempt' = attempt + 1 /\ UNCHANGED <<envelope, artifact>>
  /\ UNCHANGED <<job, handed, vmReceipt, committed, handover, restarts>>

SubmissionNext ==
  \/ Begin \/ CheckEnvelope \/ Preflight \/ SignIn \/ Claim \/ Submit \/ Poll \/ CommitReceipt
  \/ Judge \/ OthersAct \/ OwnerActs

SubmissionSpec == SubmissionInit /\ [][SubmissionNext]_submitting

SubmissionTypeOK ==
  /\ job.status \in {"open", "claimed", "submitted", "settled"}
  /\ job.holder \in {"nobody", "louis", "other"} /\ job.opening \in 1 .. MaxAttempts
  /\ envelope \in BOOLEAN /\ artifact \in Artifacts /\ attempt \in 1 .. MaxAttempts
  /\ committed \subseteq vmReceipt /\ vmReceipt \subseteq 1 .. MaxAttempts
  /\ handover.at \in {"idle", "check", "preflight", "sign_in", "claim", "submit", "poll", "commit"}
  /\ restarts \in 0 .. MaxRestarts

(* However often the workflow is started after answers, receipts and commits were lost,  *)
(* the platform gets the deliverable at most once for each time the job was open, as     *)
(* reviewed, and a receipt on the branch stands for one of these submissions.            *)
SubmittedOncePerOpening ==
  /\ \A s, t \in handed : s.opening = t.opening => s = t
  /\ \A s \in handed : s.artifact = "reviewed"
  /\ committed # {} => handed # {}
===============================================================================
