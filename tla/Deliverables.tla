------------------------------ MODULE Deliverables ------------------------------
(***************************************************************************)
(* atlas/cash_first_usdc_cycle.py, self_healing_monetization.py and             *)
(* monetization_execution_cycle.py with candidate_registry.py and                *)
(* deliverable_executor.py: the commands of commands.py that turn a candidate of  *)
(* the registry into a file of the workspace.  The server runs every command on a *)
(* thread of its own, all on the same files, which have no lock: a file that is     *)
(* being written is empty for the readers until its text is flushed.  SCOPE.md,     *)
(* the diagnosis, the evidence journal, amounts, scores and times are left out.      *)
(***************************************************************************)
EXTENDS Integers, FiniteSets

CONSTANTS
  Command,    \* commands accepted by the server, each on its thread
  Work,       \* candidates
  Priced,     \* verified rewards between 5 and 50 USDC
  Ready,      \* executable now, with no prerequisite left
  Legacy,     \* authenticity still under its historical field name
  Rank,       \* [Work -> Nat]: order of the execution scores
  Scouted,    \* what a public search may find: sets of candidates
  Torn, Nobody

ASSUME DeliverablesAssumption ==
  /\ Priced \subseteq Work /\ Ready \subseteq Work /\ Legacy \subseteq Work
  /\ Scouted \subseteq SUBSET Work /\ Nobody \notin Work /\ IsFiniteSet(Work)
  /\ Rank \in [Work -> Nat] /\ \A v, w \in Work : Rank[v] = Rank[w] => v = w

Registry  == [items : SUBSET Work, normal : BOOLEAN]
Digest    == {"draft", "empty"}                     \* SHA-256 of an artifact
File      == {"none", "torn"} \cup Digest           \* a JSON file that names a digest
Workspace == [artifact : {"none", "torn", "draft"}, manifest : File, receipt : File]
Earnings  == [history : BOOLEAN, done : Nat]        \* submissions so far, deliverables
NoEarnings == [history |-> FALSE, done |-> 0]
Steps ==
  {"start", "read", "narrow", "narrowing", "recover", "repair", "repairing", "load",
   "ledger", "artifact", "drafting", "hash", "manifest", "listing", "receipt",
   "signing", "verify", "save", "saving", "restore", "restoring", "judge", "done"}
Thread ==
  [at : Steps, kind : {"cash", "market"}, payload : Registry \cup {Torn},
   local : BOOLEAN, found : Registry \cup {Torn}, book : Earnings,
   picked : Work \cup {Nobody}, digest : Digest,
   status : {"none", "blocked", "failed", "completed"}, retryable : BOOLEAN]

VARIABLES
  registry,   \* results/monetization_candidates.json
  snapshot,   \* [registry, fresh]: the registry kept in Firestore
  earnings,   \* results/monetization.json
  workspace,  \* [Work -> Workspace]
  thread      \* [Command -> Thread]

deliverables == <<registry, snapshot, earnings, workspace, thread>>

Fresh ==
  [at |-> "start", kind |-> "cash", payload |-> Torn, local |-> TRUE, found |-> Torn,
   book |-> NoEarnings, picked |-> Nobody, digest |-> "empty", status |-> "none",
   retryable |-> FALSE]

(* The image holds a registry as an older scout wrote it, or none.                *)
DeliverablesInit ==
  /\ registry \in {Torn, [items |-> Work, normal |-> FALSE]}
  /\ snapshot = [registry |-> Torn, fresh |-> FALSE]
  /\ earnings \in [history : BOOLEAN, done : {0}]
  /\ workspace = [w \in Work |-> [artifact |-> "none", manifest |-> "none",
                                  receipt |-> "none"]]
  /\ thread = [c \in Command |-> Fresh]

At(c, step) == thread[c].at = step
Goto(c, step) == thread' = [thread EXCEPT ![c].at = step]
Step(c, fields) ==
  thread' = [thread EXCEPT ![c] = [f \in DOMAIN @ |->
               IF f \in DOMAIN fields THEN fields[f] ELSE @[f]]]

Begin(c, kind) ==
  /\ At(c, "start")
  /\ Step(c, [at |-> "read", kind |-> kind])
  /\ UNCHANGED <<registry, snapshot, earnings, workspace>>

-------------------------------------------------------------------------------
(* The economic gate and the repair of the registry.                         *)

(* run_cash_first_usdc_cycle: without a registry the executor runs as it is; with *)
(* no candidate in the window nothing runs.                                       *)
ReadForCash(c) ==
  /\ At(c, "read") /\ thread[c].kind = "cash"
  /\ \/ /\ registry = Torn /\ Goto(c, "load")
     \/ /\ registry # Torn /\ registry.items \cap Priced = {}
        /\ Step(c, [at |-> "done", status |-> "blocked"])
     \/ /\ registry # Torn /\ registry.items \cap Priced # {}
        /\ Step(c, [at |-> "narrow", payload |-> registry])
  /\ UNCHANGED <<registry, snapshot, earnings, workspace>>

(* run_self_healing_deliverable_cycle.                                           *)
ReadForMarket(c) ==
  /\ At(c, "read") /\ thread[c].kind = "market"
  /\ \/ /\ registry = Torn /\ Goto(c, "recover")
     \/ /\ registry # Torn /\ registry.normal /\ Goto(c, "load")
     \/ /\ registry # Torn /\ ~registry.normal
        /\ Step(c, [at |-> "repair", payload |-> [registry EXCEPT !.normal = TRUE],
                    local |-> FALSE])
  /\ UNCHANGED <<registry, snapshot, earnings, workspace>>

(* write_text: the file is empty, then whole.                                     *)
EmptyRegistry(c) ==
  /\ \E step \in {"narrow", "repair", "restore"} :
       /\ At(c, step)
       /\ Goto(c, CASE step = "narrow"  -> "narrowing"
                    [] step = "repair"  -> "repairing"
                    [] step = "restore" -> "restoring")
  /\ registry' = Torn
  /\ UNCHANGED <<snapshot, earnings, workspace>>

(* Only what the window admits is shown to the executor.                          *)
NarrowRegistry(c) ==
  /\ At(c, "narrowing")
  /\ registry' = [thread[c].payload EXCEPT !.items = @ \cap Priced]
  /\ Goto(c, "load")
  /\ UNCHANGED <<snapshot, earnings, workspace>>

RepairRegistry(c) ==
  /\ At(c, "repairing")
  /\ registry' = thread[c].payload
  /\ Goto(c, "load")
  /\ UNCHANGED <<snapshot, earnings, workspace>>

RestoreRegistry(c) ==
  /\ At(c, "restoring")
  /\ registry' = thread[c].payload
  /\ Goto(c, "judge")
  /\ UNCHANGED <<snapshot, earnings, workspace>>

(* recover_candidate_registry: the snapshot while it is fresh, otherwise a public  *)
(* search, whose queries may each fail, kept in Firestore if that can be reached.   *)
RecoverSnapshot(c) ==
  /\ At(c, "recover") /\ snapshot.fresh
  /\ Step(c, [at |-> "repair", payload |-> snapshot.registry, local |-> FALSE])
  /\ UNCHANGED <<registry, snapshot, earnings, workspace>>

RecoverByScouting(c) ==
  /\ At(c, "recover")
  /\ \E items \in Scouted :
       LET scouted == [items |-> items, normal |-> TRUE] IN
       /\ Step(c, [at |-> "repair", payload |-> scouted, local |-> FALSE])
       /\ \/ snapshot' = [registry |-> scouted, fresh |-> TRUE]
          \/ UNCHANGED snapshot
  /\ UNCHANGED <<registry, earnings, workspace>>

RecoverNothing(c) ==
  /\ At(c, "recover")
  /\ Step(c, [at |-> "load", local |-> FALSE])
  /\ UNCHANGED <<registry, snapshot, earnings, workspace>>

(* Six hours pass: the snapshot is stale.                                        *)
SnapshotAges ==
  /\ snapshot.fresh
  /\ snapshot' = [snapshot EXCEPT !.fresh = FALSE]
  /\ UNCHANGED <<registry, earnings, workspace, thread>>

-------------------------------------------------------------------------------
(* run_verified_deliverable_cycle.                                           *)

Eligible(found) == {w \in found.items \cap Ready : found.normal \/ w \notin Legacy}
Best(works)     == CHOOSE w \in works : \A v \in works : Rank[v] <= Rank[w]

LoadCandidates(c) ==
  /\ At(c, "load")
  /\ Step(c, [at |-> "ledger", found |-> registry])
  /\ UNCHANGED <<registry, snapshot, earnings, workspace>>

(* The ledger, none if it cannot be parsed, and the choice of a candidate.  Blocked *)
(* runs are tried again but where the ledger tells of submissions                  *)
(* (analyze_monetization) and no legacy candidate waits for its normal form.        *)
LoadLedger(c) ==
  /\ At(c, "ledger")
  /\ \E book \in {IF earnings = Torn THEN NoEarnings ELSE earnings} :
       LET found == thread[c].found IN
       \/ /\ found = Torn
          /\ Step(c, [at |-> "save", book |-> book, status |-> "blocked",
                      retryable |-> TRUE])
       \/ /\ found # Torn /\ Eligible(found) = {}
          /\ Step(c, [at |-> "save", book |-> book, status |-> "blocked",
                      retryable |-> found.items \cap Ready # {} \/ ~book.history])
       \/ /\ found # Torn /\ Eligible(found) # {}
          /\ Step(c, [at |-> "artifact", book |-> book,
                      picked |-> Best(Eligible(found))])
  /\ UNCHANGED <<registry, snapshot, earnings, workspace>>

(* execute_candidate: the files of the candidate's workspace, one after the other. *)
Put(c, field, value) == workspace' = [workspace EXCEPT ![thread[c].picked][field] = value]

EmptyFile(c) ==
  /\ \/ /\ At(c, "artifact") /\ Put(c, "artifact", "torn") /\ Goto(c, "drafting")
     \/ /\ At(c, "manifest") /\ Put(c, "manifest", "torn") /\ Goto(c, "listing")
     \/ /\ At(c, "receipt")  /\ Put(c, "receipt", "torn")  /\ Goto(c, "signing")
  /\ UNCHANGED <<registry, snapshot, earnings>>

WriteFile(c) ==
  /\ \/ /\ At(c, "drafting") /\ Put(c, "artifact", "draft") /\ Goto(c, "hash")
     \/ /\ At(c, "listing")  /\ Put(c, "manifest", thread[c].digest) /\ Goto(c, "receipt")
     \/ /\ At(c, "signing")  /\ Put(c, "receipt", thread[c].digest) /\ Goto(c, "verify")
  /\ UNCHANGED <<registry, snapshot, earnings>>

(* A mutant: the digest of whatever is there.                                      *)
RawHash(artifact) == artifact

HashOf(artifact) == IF artifact = "draft" THEN "draft" ELSE "empty"

HashArtifact(c) ==
  /\ At(c, "hash")
  /\ Step(c, [at |-> "manifest", digest |-> HashOf(workspace[thread[c].picked].artifact)])
  /\ UNCHANGED <<registry, snapshot, earnings, workspace>>

(* A mutant: the artifact is not hashed again.                                     *)
FilesAgree(c) ==
  LET files == workspace[thread[c].picked] IN
  files.manifest = thread[c].digest /\ files.receipt = thread[c].digest

(* _verify_receipt: the artifact has the digest of the run, and so say both files. *)
Proof(c) ==
  LET files == workspace[thread[c].picked] IN
  /\ HashOf(files.artifact) = thread[c].digest
  /\ files.manifest = thread[c].digest
  /\ files.receipt = thread[c].digest

VerifyReceipt(c) ==
  /\ At(c, "verify")
  /\ \/ /\ Proof(c)
        /\ Step(c, [at |-> "save", status |-> "completed",
                    book |-> [thread[c].book EXCEPT !.done = @ + 1]])
     \/ /\ ~Proof(c)
        /\ Step(c, [at |-> "save", status |-> "failed"])
  /\ UNCHANGED <<registry, snapshot, earnings, workspace>>

EmptyLedger(c) ==
  /\ At(c, "save")
  /\ earnings' = Torn
  /\ Goto(c, "saving")
  /\ UNCHANGED <<registry, snapshot, workspace>>

-------------------------------------------------------------------------------
(* What follows a run.                                                       *)

Narrowed(c) == thread[c].kind = "cash" /\ thread[c].payload # Torn

(* The gate gives the registry back; the repair tries again, once.                *)
TriesAgain(c) ==
  /\ thread[c].kind = "market" /\ thread[c].local
  /\ thread[c].status = "blocked" /\ thread[c].retryable

SaveLedger(c) ==
  /\ At(c, "saving")
  /\ earnings' = thread[c].book
  /\ Goto(c, IF Narrowed(c) THEN "restore" ELSE IF TriesAgain(c) THEN "recover" ELSE "done")
  /\ UNCHANGED <<registry, snapshot, workspace>>

(* A generic draft, or none, is no deliverable; build_artifact writes no other.    *)
AcceptanceReady(artifact) == artifact \notin {"none", "torn", "draft"}

JudgeArtifact(c) ==
  /\ At(c, "judge")
  /\ Step(c, [at |-> "done", status |->
       IF thread[c].status = "completed" /\ ~AcceptanceReady(workspace[thread[c].picked].artifact)
       THEN "blocked" ELSE thread[c].status])
  /\ UNCHANGED <<registry, snapshot, earnings, workspace>>

DeliverablesNext ==
  \/ SnapshotAges
  \/ \E c \in Command :
       \/ \E kind \in {"cash", "market"} : Begin(c, kind)
       \/ ReadForCash(c) \/ ReadForMarket(c)
       \/ EmptyRegistry(c) \/ NarrowRegistry(c) \/ RepairRegistry(c) \/ RestoreRegistry(c)
       \/ RecoverSnapshot(c) \/ RecoverByScouting(c) \/ RecoverNothing(c)
       \/ LoadCandidates(c) \/ LoadLedger(c)
       \/ EmptyFile(c) \/ WriteFile(c) \/ HashArtifact(c) \/ VerifyReceipt(c)
       \/ EmptyLedger(c) \/ SaveLedger(c) \/ JudgeArtifact(c)

DeliverablesSpec == DeliverablesInit /\ [][DeliverablesNext]_deliverables

-------------------------------------------------------------------------------
(* Properties.                                                               *)

DeliverablesTypeOK ==
  /\ registry \in Registry \cup {Torn}
  /\ snapshot \in [registry : Registry \cup {Torn}, fresh : BOOLEAN]
  /\ earnings \in Earnings \cup {Torn}
  /\ workspace \in [Work -> Workspace]
  /\ thread \in [Command -> Thread]

(* While no command fails and none is at work on it, a candidate that was completed *)
(* has its artifact, and manifest and receipt both name its digest.               *)
CompletedIsProven ==
  \A w \in Work :
    LET on == {c \in Command : thread[c].picked = w} IN
    (\E c \in on : thread[c].status = "completed")
      /\ (\A c \in on : thread[c].status = "completed" /\ thread[c].at \in {"save", "saving", "done"})
    => workspace[w] = [artifact |-> "draft", manifest |-> "draft", receipt |-> "draft"]

(* Claim of cash_first_usdc_cycle.py: candidates outside the economic window are    *)
(* never executed.                                                                *)
OnlyTheWindowIsExecuted ==
  \A c \in Command :
    thread[c].kind = "cash" /\ thread[c].picked # Nobody => thread[c].picked \in Priced

===============================================================================
