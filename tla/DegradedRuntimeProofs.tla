------------------------ MODULE DegradedRuntimeProofs ------------------------
(***************************************************************************)
(* Proofs about DegradedRuntime, for every set of candidates and runs, with *)
(* or without the concurrency group.                                       *)
(***************************************************************************)
EXTENDS DegradedRuntime, TLAPS

USE DEF At, Goto, Write, Outcome

(* The configuration a run reads is a tree field, whatever it holds.        *)
LEMMA FirstTreeType == FirstTree \in Tree
  BY DEF FirstTree, Tree, Intent, NoIntent, IntentStatus, Status, Outcomes, Config, Drivers

(* Writing one field of a tree yields a tree.                               *)
LEMMA TreeUpdate ==
  ASSUME NEW t \in Tree
  PROVE  /\ \A o \in Outcomes : [t EXCEPT !.status.cycle_outcome = o] \in Tree
         /\ \A s \in Status : [t EXCEPT !.ready = NoPackage, !.status = s] \in Tree
         /\ \A p \in Package : [t EXCEPT !.ready = p] \in Tree
         /\ \A c \in Cand, i \in Intent : [t EXCEPT !.intents[c] = i] \in Tree
         /\ \A c \in Cand, s \in IntentStatus :
              [t EXCEPT !.intents[c].status = s] \in Tree
         /\ \A c \in Cand : [t EXCEPT !.receipts = @ \cup {c}] \in Tree
         /\ \A cfg \in Config : [t EXCEPT !.cfg = cfg] \in Tree
  BY DEF Tree, Status, Intent

(* A rebase of trees yields a tree.                                         *)
LEMMA RebasedType ==
  ASSUME NEW b \in Tree, NEW m \in Tree, NEW t \in Tree
  PROVE  Rebased(b, m, t) \in Tree
  BY DEF Rebased, Merged, Tree

(* The initial state is well typed.                                         *)
LEMMA TypeInit == Init => TypeOK /\ HasPackage
  BY FirstTreeType, BoundsAssumption DEF Init, TypeOK, PC, HasPackage, InFlight

(* Every step keeps every variable in its domain, because whoever reads a   *)
(* package has one.                                                        *)
LEMMA TypeNext == TypeOK /\ HasPackage /\ [Next]_vars => TypeOK'
<1> SUFFICES ASSUME TypeOK, HasPackage, [Next]_vars PROVE TypeOK'
  OBVIOUS
<1> USE DEF TypeOK
<1>pc. {"queued", "done", "starting", "discovering", "built", "reserved",
        "checkpointed", "attempting", "receipt", "recorded", "settled",
        "uncertain", "checkpoint_pull", "final_pull", "checkpoint_push",
        "final_push"} = PC
  BY DEF PC, Preparing, Submitting, Pulling, Pushing
<1>1. ASSUME NEW r \in Run, RunStep(r) PROVE TypeOK'
  <2> USE <1>pc
  <2>t. disk[r] \in Tree
    OBVIOUS
  <2>1. CASE Checkout(r)
    BY <2>1 DEF Checkout, world
  <2>2. CASE PrepareStart(r)
    <3> DEFINE started == [disk[r] EXCEPT !.ready = NoPackage,
                             !.status = [run_id |-> r, cycle_outcome |-> "starting"]]
    <3>1. started \in Tree
      BY <2>t, TreeUpdate DEF Status, Outcomes
    <3>2. Outcome(started, "policy_disabled") \in Tree
      BY <3>1, TreeUpdate DEF Outcomes
    <3> HIDE DEF started
    <3> QED
      BY <2>2, <3>1, <3>2 DEF PrepareStart, started, git, world
  <2>3. CASE PrepareNothing(r)
    BY <2>3, <2>t, TreeUpdate DEF PrepareNothing, git, world, Outcomes
  <2>4. ASSUME NEW c \in Cand, PreparePackage(r, c) PROVE TypeOK'
    BY <2>4, <2>t, TreeUpdate DEF PreparePackage, git, world, Package
  <2>5. CASE PrepareForOthers(r)
    BY <2>5, <2>t, TreeUpdate DEF PrepareForOthers, git, world, Outcomes
  <2>6. CASE PrepareIntent(r)
    <3> DEFINE c == disk[r].ready.candidate
               i == [status |-> "prepared", run_id |-> r]
    <3>1. c \in Cand /\ i \in Intent
      BY <2>6 DEF PrepareIntent, HasPackage, Package, Intent, IntentStatus
    <3>2. [disk[r] EXCEPT !.intents[c] = i] \in Tree
      BY <2>t, <3>1, TreeUpdate
    <3> QED
      BY <2>6, <3>2 DEF PrepareIntent, git, world
  <2>7. CASE PrepareFinish(r)
    BY <2>7, <2>t, TreeUpdate DEF PrepareFinish, git, world, Outcomes
  <2>8. CASE Pull(r)
    BY <2>8, RebasedType DEF Pull, PushOf, world
  <2>9. CASE TryAgain(r)
    BY <2>9, BoundsAssumption DEF TryAgain, IterationFails, PullOf, world
  <2>10. CASE Checkpoint(r)
    BY <2>10, BoundsAssumption DEF Checkpoint, world, MaySubmit, Tree, Config
  <2>11. CASE CheckpointFails(r)
    BY <2>11, BoundsAssumption DEF CheckpointFails, IterationFails, world
  <2>12. CASE FinalPersist(r)
    BY <2>12, FirstTreeType, BoundsAssumption DEF FinalPersist, RunEnds, world
  <2>13. CASE FinalPersistFails(r)
    BY <2>13, FirstTreeType, BoundsAssumption
    DEF FinalPersistFails, IterationFails, RunEnds, world
  <2>14. CASE SubmitDeclines(r)
    BY <2>14 DEF SubmitDeclines, git, world
  <2>15. CASE MarkAttempt(r)
    <3>1. Target(r) \in Cand
      BY <2>15, <2>t DEF MarkAttempt, CurrentPackage, Target, Tree, Package
    <3>2. [disk[r] EXCEPT !.intents[Target(r)].status =
             "attempted_requires_reconciliation"] \in Tree
      BY <2>t, <3>1, TreeUpdate DEF IntentStatus
    <3> QED
      BY <2>15, <3>2 DEF MarkAttempt, git, world
  <2>16. CASE SubmitPatch(r)
    BY <2>16 DEF SubmitPatch, git, HasPackage, InFlight, Target, Package
  <2>17. CASE SaveReceipt(r)
    <3>1. Target(r) \in Cand
      BY <2>17 DEF SaveReceipt, HasPackage, InFlight, Target, Package
    <3>2. [disk[r] EXCEPT !.receipts = @ \cup {Target(r)}] \in Tree
      BY <2>t, <3>1, TreeUpdate
    <3> QED
      BY <2>17, <3>2 DEF SaveReceipt, git, world
  <2>18. CASE SaveIntent(r)
    <3>1. Target(r) \in Cand
      BY <2>18 DEF SaveIntent, HasPackage, InFlight, Target, Package
    <3>2. [disk[r] EXCEPT !.intents[Target(r)].status = "submitted"] \in Tree
      BY <2>t, <3>1, TreeUpdate DEF IntentStatus
    <3> QED
      BY <2>18, <3>2 DEF SaveIntent, git, world
  <2>19. CASE SaveStatus(r)
    <3>1. \A o \in Outcomes : Outcome(disk[r], o) \in Tree
      BY <2>t, TreeUpdate
    <3>2. {"submitted", "submitted_unverified", "submission_uncertain"} \subseteq Outcomes
      BY DEF Outcomes
    <3> HIDE DEF Outcome
    <3> QED
      BY <2>19, <3>1, <3>2 DEF SaveStatus, git, world
  <2>20. CASE StepRaises(r)
    BY <2>20, <2>t, TreeUpdate DEF StepRaises, git, world, Outcomes
  <2>21. CASE JobCancelled(r)
    BY <2>21, BoundsAssumption DEF JobCancelled, world
  <2>22. CASE RunnerLost(r)
    BY <2>22, FirstTreeType, BoundsAssumption DEF RunnerLost, RunEnds, world
  <2> QED
    BY <1>1, <2>1, <2>2, <2>3, <2>4, <2>5, <2>6, <2>7, <2>8, <2>9, <2>10, <2>11,
       <2>12, <2>13, <2>14, <2>15, <2>16, <2>17, <2>18, <2>19, <2>20, <2>21, <2>22
    DEF RunStep
<1>2. CASE OperatorStep
  <2> DEFINE c == op.package.candidate
  <2>1. CASE OperatorPins
    BY <2>1 DEF OperatorPins, PackageOffered, Tree
  <2>2. CASE OperatorReserves
    <3>1. c \in Cand
      BY <2>2 DEF OperatorReserves, OperatorMoves, HasPackage, Package
    <3>2. [main EXCEPT !.intents[c] =
             [status |-> "operator_reserved", run_id |-> Operator]] \in Tree
      BY <3>1, TreeUpdate DEF Intent, IntentStatus
    <3> QED
      BY <2>2, <3>2 DEF OperatorReserves, OperatorMoves
  <2>3. CASE OperatorSubmits
    BY <2>3 DEF OperatorSubmits, OperatorMoves, HasPackage, Package
  <2>4. CASE OperatorRecords
    <3>1. c \in Cand
      BY <2>4 DEF OperatorRecords, HasPackage, Package
    <3>2. /\ [main EXCEPT !.receipts = @ \cup {c}] \in Tree
          /\ [main EXCEPT !.intents[c].status = "submitted"] \in Tree
      BY <3>1, TreeUpdate DEF IntentStatus
    <3> QED
      BY <2>4, <3>2 DEF OperatorRecords, OperatorMoves
  <2>5. CASE OperatorLeaves
    BY <2>5 DEF OperatorLeaves
  <2> QED
    BY <1>2, <2>1, <2>2, <2>3, <2>4, <2>5 DEF OperatorStep
<1>3. CASE ConfigChanges
  <2>1. PICK cfg \in Config : main' = [main EXCEPT !.cfg = cfg]
    BY <1>3 DEF ConfigChanges
  <2>2. main' \in Tree
    BY <2>1, TreeUpdate
  <2> QED
    BY <1>3, <2>2, BoundsAssumption DEF ConfigChanges
<1>4. CASE UNCHANGED vars
  BY <1>4 DEF vars
<1> QED
  BY <1>1, <1>2, <1>3, <1>4 DEF Next


(* A step of one run leaves the clones and the control of the others alone. *)
LEMMA RunFrame ==
  ASSUME TypeOK, NEW r \in Run, RunStep(r), NEW q \in Run, q # r
  PROVE  /\ disk'[q] = disk[q] /\ base'[q] = base[q]
         /\ pc'[q] = pc[q] /\ gate'[q] = gate[q]
  BY DEF TypeOK, RunStep, Checkout, PrepareStart, PrepareNothing, PreparePackage,
     PrepareForOthers, PrepareIntent, PrepareFinish, Pull, TryAgain, Checkpoint,
     CheckpointFails, FinalPersist, FinalPersistFails, RunEnds, IterationFails,
     SubmitDeclines, MarkAttempt, SubmitPatch, SaveReceipt, SaveIntent, SaveStatus,
     StepRaises, JobCancelled, RunnerLost, git, world

(* Who works on a package has one, after every step.                        *)
LEMMA PackageNext == TypeOK /\ HasPackage /\ [Next]_vars => HasPackage'
<1> SUFFICES ASSUME TypeOK, HasPackage, [Next]_vars PROVE HasPackage'
  OBVIOUS
<1>1. ASSUME NEW r \in Run, RunStep(r) PROVE HasPackage'
  <2>1. op' = op
    BY <1>1 DEF RunStep, Checkout, PrepareStart, PrepareNothing, PreparePackage,
     PrepareForOthers, PrepareIntent, PrepareFinish, Pull, TryAgain, Checkpoint,
     CheckpointFails, FinalPersist, FinalPersistFails, RunEnds, IterationFails,
     SubmitDeclines, MarkAttempt, SubmitPatch, SaveReceipt, SaveIntent, SaveStatus,
     StepRaises, JobCancelled, RunnerLost, git, world
  <2>2. pc'[r] \in InFlight \cup {"built"} => disk'[r].ready \in Package
    <3> USE <1>1 DEF TypeOK, InFlight, HasPackage
    <3>1. ASSUME NEW c \in Cand, PreparePackage(r, c)
          PROVE  disk'[r].ready \in Package
      BY <3>1 DEF PreparePackage, Package, Tree
    <3>2. CASE MarkAttempt(r)
      BY <3>2 DEF MarkAttempt, CurrentPackage, Tree
    <3>3. CASE SubmitPatch(r) \/ SaveReceipt(r) \/ SaveIntent(r)
      BY <3>3 DEF SubmitPatch, SaveReceipt, SaveIntent, git, Tree
    <3>4. CASE Checkout(r) \/ PrepareStart(r) \/ PrepareNothing(r)
               \/ PrepareForOthers(r) \/ PrepareIntent(r) \/ PrepareFinish(r)
      BY <3>4 DEF Checkout, PrepareStart, PrepareNothing, PrepareForOthers,
                 PrepareIntent, PrepareFinish
    <3>5. CASE Pull(r) \/ TryAgain(r) \/ Checkpoint(r) \/ CheckpointFails(r)
               \/ FinalPersist(r) \/ FinalPersistFails(r)
      BY <3>5 DEF Pull, PushOf, TryAgain, PullOf, IterationFails, Pulling, Pushing,
                 Checkpoint, CheckpointFails, FinalPersist, FinalPersistFails, RunEnds
    <3>6. CASE SubmitDeclines(r) \/ SaveStatus(r) \/ StepRaises(r)
               \/ JobCancelled(r) \/ RunnerLost(r)
      BY <3>6 DEF SubmitDeclines, SaveStatus, StepRaises, JobCancelled, RunnerLost,
                 RunEnds
    <3> QED
      BY <3>1, <3>2, <3>3, <3>4, <3>5, <3>6 DEF RunStep
  <2> QED
    BY <1>1, <2>1, <2>2, RunFrame DEF HasPackage
<1>2. CASE OperatorStep
  <2>1. op'.pc # "idle" => op'.package \in Package
    <3>1. CASE OperatorPins
      BY <3>1 DEF OperatorPins, PackageOffered, TypeOK, Tree
    <3>2. CASE OperatorReserves \/ OperatorSubmits \/ OperatorRecords
      <4>1. op.pc # "idle" /\ op'.package = op.package
        BY <3>2 DEF OperatorReserves, OperatorSubmits, OperatorRecords,
           OperatorMoves, TypeOK
      <4> QED
        BY <4>1 DEF HasPackage
    <3>3. CASE OperatorLeaves
      BY <3>3 DEF OperatorLeaves
    <3> QED
      BY <1>2, <3>1, <3>2, <3>3 DEF OperatorStep
  <2> QED
    BY <1>2, <2>1 DEF OperatorStep, OperatorPins, OperatorReserves, OperatorSubmits,
       OperatorRecords, OperatorLeaves, HasPackage
<1>3. CASE ConfigChanges \/ UNCHANGED vars
  BY <1>3 DEF ConfigChanges, vars, HasPackage
<1> QED
  BY <1>1, <1>2, <1>3 DEF Next

(* The domains hold in every behaviour.                                     *)
THEOREM TypeCorrect == Spec => []TypeOK
<1>1. Spec => [](TypeOK /\ HasPackage)
  BY TypeInit, TypeNext, PackageNext, PTL DEF Spec
<1> QED
  BY <1>1, PTL
-----------------------------------------------------------------------------
(* Reservations: who holds a candidate on main and in the clones.           *)

(* The first tree of a repository reserves nothing.                         *)
LEMMA FirstTreeFree ==
  ASSUME NEW c \in Cand, NEW h
  PROVE  ~HeldBy(FirstTree, c, h)
  BY DEF FirstTree, HeldBy, Reserved

(* Extending a tree twice extends it.                                       *)
LEMMA ExtendsTrans ==
  ASSUME NEW t, NEW u, NEW v, Extends(t, u), Extends(u, v)
  PROVE  Extends(t, v)
  BY DEF Extends

(* A rebase without conflict keeps what main reserved and adds only what    *)
(* the run had reserved itself.                                            *)
LEMMA RebasedLineage ==
  ASSUME NEW b \in Tree, NEW m \in Tree, NEW t \in Tree, NEW r \in Run,
         ~Conflict(b, m, t), Extends(b, m), AddsOnlyOf(b, m, r)
  PROVE  Extends(t, Rebased(b, m, t)) /\ AddsOnlyOf(t, Rebased(b, m, t), r)
<1> SUFFICES ASSUME NEW c \in Cand, NEW h \in Run \cup {Operator}
             PROVE  /\ HeldBy(t, c, h) => HeldBy(Rebased(b, m, t), c, h)
                    /\ HeldBy(Rebased(b, m, t), c, h) => h = r \/ HeldBy(t, c, h)
  BY DEF Extends, AddsOnlyOf
<1> DEFINE i(x) == x.intents[c]
<1>1. \/ i(m) = i(b) /\ i(Rebased(b, m, t)) = i(t)
      \/ i(t) = i(b) /\ i(Rebased(b, m, t)) = i(m)
      \/ i(m) = i(t) /\ i(Rebased(b, m, t)) = i(t)
  BY DEF Conflict, Clash, Rebased, Merged
<1> QED
  BY <1>1 DEF HeldBy, Reserved, Extends, AddsOnlyOf

(* Setting the status of a reservation leaves it with its holder.           *)
LEMMA StatusKeepsHolder ==
  ASSUME NEW t \in Tree, NEW d \in Cand, NEW s \in IntentStatus \ {"none"},
         NEW h \in Run \cup {Operator}, HeldBy(t, d, h),
         NEW u, u = [t EXCEPT !.intents[d].status = s]
  PROVE  Extends(t, u) /\ AddsOnlyOf(t, u, h)
<1>1. \A c \in Cand : c # d => u.intents[c] = t.intents[c]
  BY DEF Tree
<1>2. u.intents[d].status = s /\ u.intents[d].run_id = t.intents[d].run_id
  BY DEF Tree, Intent
<1>3. Reserved(t, d) /\ Reserved(u, d)
  BY <1>2 DEF HeldBy, Reserved, NoIntent
<1> QED
  BY <1>1, <1>2, <1>3 DEF Extends, AddsOnlyOf, HeldBy, Reserved

(* Appending a reservation for a free candidate adds that one only.         *)
LEMMA AppendKeepsHolders ==
  ASSUME NEW t \in Tree, NEW d \in Cand, ~Reserved(t, d),
         NEW s \in IntentStatus \ {"none"}, NEW h \in Run \cup {Operator},
         NEW u, u = [t EXCEPT !.intents[d] = [status |-> s, run_id |-> h]]
  PROVE  Extends(t, u) /\ AddsOnlyOf(t, u, h)
<1>1. \A c \in Cand : c # d => u.intents[c] = t.intents[c]
  BY DEF Tree
<1>2. u.intents[d].run_id = h
  BY DEF Tree
<1> QED
  BY <1>1, <1>2 DEF Extends, AddsOnlyOf, HeldBy, Reserved
(* What one step of a run does to main and to its own clone, as far as      *)
(* reservations go.                                                        *)
LocalStep(r) == /\ main' = main
                /\ base'[r] = base[r]
                /\ Extends(disk[r], disk'[r])
                /\ AddsOnlyOf(disk[r], disk'[r], r)
CloneStep(r) == /\ main' = main
                /\ base'[r] = main
                /\ Extends(main, disk'[r])
                /\ AddsOnlyOf(main, disk'[r], r)
Lands(r)     == main = base[r] /\ main' = disk[r]
PushStep(r)  == /\ Lands(r)
                /\ disk'[r] = disk[r]
                /\ base'[r] \in {base[r], disk[r]}
LastStep(r)  == /\ main' = main \/ Lands(r)
                /\ disk'[r] = FirstTree
                /\ base'[r] = FirstTree
Shape(r) == LocalStep(r) \/ CloneStep(r) \/ PushStep(r) \/ LastStep(r)

(* Trees with the same intents have the same holders.                       *)
LEMMA SameHolders ==
  ASSUME NEW t, NEW u, t.intents = u.intents, NEW h
  PROVE  Extends(t, u) /\ AddsOnlyOf(t, u, h)
  BY DEF Extends, AddsOnlyOf, HeldBy, Reserved

(* The statuses the code writes into an intent.                             *)
LEMMA Statuses ==
  {"prepared", "attempted_requires_reconciliation", "submitted", "operator_reserved"}
    \subseteq IntentStatus \ {"none"}
  BY DEF IntentStatus

(* Writing status.json leaves the other files alone.                        *)
LEMMA OutcomeKeepsIntents ==
  ASSUME NEW t \in Tree, NEW o
  PROVE  /\ Outcome(t, o).intents = t.intents
         /\ Outcome(t, o).receipts = t.receipts
         /\ Outcome(t, o).cfg = t.cfg
         /\ Outcome(t, o).ready = t.ready
  BY DEF Tree

(* Every step of a run has one of the four shapes.                          *)
LEMMA RunShape ==
  ASSUME TypeOK, HasPackage, RunState, Lineage, NEW r \in Run, RunStep(r)
  PROVE  Shape(r)
<1> USE DEF TypeOK
<1>t. disk[r] \in Tree /\ main \in Tree /\ base[r] \in Tree
  OBVIOUS
<1>1. CASE Checkout(r)
  <2>1. main' = main /\ base'[r] = main /\ disk'[r] = main
    BY <1>1 DEF Checkout
  <2> QED
    BY <2>1, SameHolders DEF Shape, CloneStep
<1>2. CASE \/ PrepareStart(r) \/ PrepareNothing(r) \/ (\E c \in Cand : PreparePackage(r, c))
           \/ PrepareForOthers(r) \/ PrepareFinish(r) \/ SubmitDeclines(r)
           \/ SubmitPatch(r) \/ SaveReceipt(r) \/ SaveStatus(r) \/ StepRaises(r)
           \/ JobCancelled(r)
  <2>1. main' = main /\ base' = base
    BY <1>2 DEF PrepareStart, PrepareNothing, PreparePackage, PrepareForOthers,
       PrepareFinish, SubmitDeclines, SubmitPatch, SaveReceipt, SaveStatus,
       StepRaises, JobCancelled, git, world
  <2>2. disk'[r].intents = disk[r].intents
    <3>1. CASE \/ PrepareStart(r) \/ PrepareNothing(r) \/ PrepareForOthers(r)
               \/ PrepareFinish(r) \/ SaveStatus(r) \/ StepRaises(r)
      <4> DEFINE started == [disk[r] EXCEPT !.ready = NoPackage,
                               !.status = [run_id |-> r, cycle_outcome |-> "starting"]]
      <4>1. started \in Tree /\ started.intents = disk[r].intents
        <5>1. [run_id |-> r, cycle_outcome |-> "starting"] \in Status
          BY DEF Status, Outcomes
        <5>2. started \in Tree
          BY <1>t, <5>1, TreeUpdate
        <5>3. started.intents = disk[r].intents
          BY <1>t DEF Tree
        <5> QED
          BY <5>2, <5>3
      <4>2. \/ disk'[r] = started
            \/ disk'[r] = Outcome(started, "policy_disabled")
            \/ \E o : disk'[r] = Outcome(disk[r], o)
        <5> HIDE DEF Outcome
        <5>1. CASE PrepareStart(r)
          BY <5>1 DEF PrepareStart
        <5>2. CASE PrepareNothing(r)
          BY <5>2 DEF PrepareNothing
        <5>3. CASE PrepareForOthers(r)
          BY <5>3 DEF PrepareForOthers
        <5>4. CASE PrepareFinish(r)
          BY <5>4 DEF PrepareFinish
        <5>5. CASE SaveStatus(r)
          BY <5>5 DEF SaveStatus
        <5>6. CASE StepRaises(r)
          BY <5>6 DEF StepRaises
        <5> QED
          BY <3>1, <5>1, <5>2, <5>3, <5>4, <5>5, <5>6
      <4> HIDE DEF started, Outcome
      <4> QED
        BY <1>t, <4>1, <4>2, OutcomeKeepsIntents
    <3>2. CASE (\E c \in Cand : PreparePackage(r, c)) \/ SaveReceipt(r)
      BY <1>t, <3>2 DEF PreparePackage, SaveReceipt, Tree
    <3>3. CASE SubmitDeclines(r) \/ SubmitPatch(r) \/ JobCancelled(r)
      BY <3>3 DEF SubmitDeclines, SubmitPatch, JobCancelled
    <3> QED
      BY <1>2, <3>1, <3>2, <3>3
  <2> QED
    BY <2>1, <2>2, SameHolders DEF Shape, LocalStep
<1>3. CASE PrepareIntent(r)
  <2> DEFINE c == disk[r].ready.candidate
  <2>1. c \in Cand /\ ~Reserved(disk[r], c)
    BY <1>3 DEF PrepareIntent, HasPackage, Package, RunState, Target
  <2>2. main' = main /\ base' = base /\ disk'[r] =
           [disk[r] EXCEPT !.intents[c] = [status |-> "prepared", run_id |-> r]]
    BY <1>3 DEF PrepareIntent, git
  <2>3. Extends(disk[r], disk'[r]) /\ AddsOnlyOf(disk[r], disk'[r], r)
    BY <1>t, <2>1, <2>2, AppendKeepsHolders, Statuses
  <2> QED
    BY <2>2, <2>3 DEF Shape, LocalStep
<1>4. CASE MarkAttempt(r)
  <2>1. Target(r) \in Cand /\ HeldBy(disk[r], Target(r), r)
    BY <1>t, <1>4, OperatorAssumption DEF MarkAttempt, CurrentPackage, Target, Tree,
       Package, HeldBy, Reserved, NoIntent
  <2>2. main' = main /\ base' = base /\ disk'[r] =
          [disk[r] EXCEPT !.intents[Target(r)].status = "attempted_requires_reconciliation"]
    BY <1>4 DEF MarkAttempt, git
  <2>3. Extends(disk[r], disk'[r]) /\ AddsOnlyOf(disk[r], disk'[r], r)
    BY <1>t, <2>1, <2>2, StatusKeepsHolder, Statuses
  <2> QED
    BY <2>2, <2>3 DEF Shape, LocalStep
<1>5. CASE SaveIntent(r)
  <2>1. Target(r) \in Cand /\ HeldBy(base[r], Target(r), r)
    BY <1>5 DEF SaveIntent, HasPackage, InFlight, Target, Package, RunState
  <2>2. HeldBy(disk[r], Target(r), r)
    BY <2>1 DEF Lineage, Extends
  <2>3. main' = main /\ base' = base /\ disk'[r] =
          [disk[r] EXCEPT !.intents[Target(r)].status = "submitted"]
    BY <1>5 DEF SaveIntent, git
  <2>4. Extends(disk[r], disk'[r]) /\ AddsOnlyOf(disk[r], disk'[r], r)
    BY <1>t, <2>1, <2>2, <2>3, StatusKeepsHolder, Statuses
  <2> QED
    BY <2>3, <2>4 DEF Shape, LocalStep
<1>6. CASE Pull(r)
  <2>1. main' = main /\ base'[r] = main /\ disk'[r] = Rebased(base[r], disk[r], main)
    BY <1>6 DEF Pull
  <2>2. ~Conflict(base[r], disk[r], main)
    BY <1>6 DEF Pull
  <2> QED
    BY <1>t, <2>1, <2>2, RebasedLineage DEF Shape, CloneStep, Lineage
<1>7. CASE TryAgain(r) \/ CheckpointFails(r)
  <2>1. base' = base /\ disk' = disk /\ (main' = main \/ Lands(r))
    BY <1>7 DEF TryAgain, CheckpointFails, IterationFails, Lands
  <2> QED
    BY <2>1, SameHolders DEF Shape, LocalStep, PushStep
<1>8. CASE Checkpoint(r)
  BY <1>8 DEF Checkpoint, Shape, PushStep, Lands
<1>9. CASE FinalPersist(r) \/ FinalPersistFails(r) \/ RunnerLost(r)
  BY <1>9 DEF FinalPersist, FinalPersistFails, RunnerLost, IterationFails, RunEnds,
     Shape, LastStep, Lands
<1> QED
  BY <1>1, <1>2, <1>3, <1>4, <1>5, <1>6, <1>7, <1>8, <1>9 DEF RunStep
(* What a step outside the runs does to main: it adds at most a reservation *)
(* of the operator.                                                        *)
LEMMA OthersShape ==
  ASSUME TypeOK, HasPackage, OperatorState, OperatorStep \/ ConfigChanges
  PROVE  /\ Extends(main, main') /\ AddsOnlyOf(main, main', Operator)
         /\ disk' = disk /\ base' = base /\ pc' = pc /\ gate' = gate
<1> DEFINE c == op.package.candidate
<1> USE DEF TypeOK
<1>1. disk' = disk /\ base' = base /\ pc' = pc /\ gate' = gate
  BY DEF OperatorStep, ConfigChanges, OperatorPins, OperatorReserves, OperatorSubmits,
     OperatorRecords, OperatorLeaves
<1>2. CASE OperatorReserves
  <2>1. c \in Cand /\ ~Reserved(main, c)
    BY <1>2 DEF OperatorReserves, OperatorMoves, HasPackage, Package, Reserved
  <2>2. main' = [main EXCEPT !.intents[c] =
                   [status |-> "operator_reserved", run_id |-> Operator]]
    BY <1>2 DEF OperatorReserves
  <2> QED
    BY <1>1, <2>1, <2>2, AppendKeepsHolders, Statuses
<1>3. CASE OperatorRecords
  <2>1. c \in Cand /\ HeldBy(main, c, Operator)
    BY <1>3 DEF OperatorRecords, HasPackage, Package, OperatorState
  <2>2. CASE main' = [main EXCEPT !.receipts = @ \cup {c}]
    <3>1. main'.intents = main.intents
      BY <2>2 DEF Tree
    <3> QED
      BY <1>1, <3>1, SameHolders
  <2>3. CASE main' = [main EXCEPT !.intents[c].status = "submitted"]
    BY <1>1, <2>1, <2>3, StatusKeepsHolder, Statuses
  <2> QED
    BY <1>3, <2>2, <2>3 DEF OperatorRecords
<1>4. CASE ConfigChanges
  <2>1. main'.intents = main.intents
    BY <1>4 DEF ConfigChanges, Tree
  <2> QED
    BY <1>1, <2>1, SameHolders
<1>5. CASE OperatorPins \/ OperatorSubmits \/ OperatorLeaves
  BY <1>1, <1>5, SameHolders DEF OperatorPins, OperatorSubmits, OperatorLeaves
<1> QED
  BY <1>2, <1>3, <1>4, <1>5 DEF OperatorStep

(* A run adds at most its own reservations to main and removes none.        *)
LEMMA MainGrows ==
  ASSUME Lineage, NEW r \in Run, Shape(r)
  PROVE  Extends(main, main') /\ AddsOnlyOf(main, main', r)
<1>1. CASE main' = main
  BY <1>1, SameHolders
<1>2. CASE Lands(r)
  BY <1>2 DEF Lands, Lineage
<1> QED
  BY <1>1, <1>2 DEF Shape, LocalStep, CloneStep, PushStep, LastStep

(* A clone never claims a reservation that is neither main's nor its own.   *)
LEMMA LineageNext ==
  ASSUME TypeOK, HasPackage, RunState, OperatorState, Lineage, [Next]_vars
  PROVE  Lineage'
<1>1. ASSUME NEW r \in Run, RunStep(r) PROVE Lineage'
  <2>1. Shape(r) /\ Extends(main, main')
    BY <1>1, RunShape, MainGrows
  <2>2. Extends(base[r], main) /\ Extends(base[r], disk[r]) /\ AddsOnlyOf(base[r], disk[r], r)
    BY DEF Lineage
  <2>3. /\ Extends(base'[r], main')
        /\ Extends(base'[r], disk'[r])
        /\ AddsOnlyOf(base'[r], disk'[r], r)
    <3>1. CASE LocalStep(r)
      BY <2>2, <3>1 DEF LocalStep, Extends, AddsOnlyOf
    <3>2. CASE CloneStep(r)
      BY <3>2, SameHolders DEF CloneStep
    <3>3. CASE PushStep(r)
      BY <2>2, <3>3, SameHolders DEF PushStep, Lands
    <3>4. CASE LastStep(r)
      BY <3>4, FirstTreeFree DEF LastStep, Extends, AddsOnlyOf
    <3> QED
      BY <2>1, <3>1, <3>2, <3>3, <3>4 DEF Shape
  <2>4. ASSUME NEW q \in Run, q # r
        PROVE  /\ Extends(base'[q], main')
               /\ Extends(base'[q], disk'[q])
               /\ AddsOnlyOf(base'[q], disk'[q], q)
    BY <1>1, <2>1, <2>4, RunFrame, ExtendsTrans DEF Lineage
  <2> QED
    BY <2>3, <2>4 DEF Lineage, Extends, AddsOnlyOf, HeldBy, Reserved
<1>2. CASE OperatorStep \/ ConfigChanges
  <2>1. Extends(main, main') /\ disk' = disk /\ base' = base
    BY <1>2, OthersShape
  <2> QED
    BY <2>1 DEF Lineage, Extends, AddsOnlyOf, HeldBy, Reserved
<1>3. CASE UNCHANGED vars
  BY <1>3 DEF vars, Lineage, Extends, AddsOnlyOf, HeldBy, Reserved
<1> QED
  BY <1>1, <1>2, <1>3 DEF Next

-----------------------------------------------------------------------------
(* Attempts: only the holder of a reservation submits, and only once.       *)

(* A run that has not submitted after a step had not submitted before it.   *)
LEMMA UnsentBack ==
  ASSUME TypeOK, NEW r \in Run, RunStep(r), pc'[r] \in Unsent
  PROVE  pc[r] \in Unsent
<1> USE DEF TypeOK, Unsent, Preparing
<1>1. CASE \/ Checkout(r) \/ PrepareStart(r) \/ PrepareNothing(r)
           \/ (\E c \in Cand : PreparePackage(r, c)) \/ PrepareForOthers(r)
           \/ PrepareIntent(r) \/ PrepareFinish(r)
  BY <1>1 DEF Checkout, PrepareStart, PrepareNothing, PreparePackage,
     PrepareForOthers, PrepareIntent, PrepareFinish
<1>2. CASE Pull(r) \/ TryAgain(r) \/ Checkpoint(r) \/ CheckpointFails(r)
  BY <1>2 DEF Pull, PushOf, TryAgain, PullOf, IterationFails, Pulling, Pushing,
     Checkpoint, CheckpointFails
<1>3. CASE FinalPersist(r) \/ FinalPersistFails(r) \/ RunnerLost(r)
  BY <1>3 DEF FinalPersist, FinalPersistFails, RunnerLost, RunEnds
<1>4. CASE \/ SubmitDeclines(r) \/ MarkAttempt(r) \/ SubmitPatch(r) \/ SaveReceipt(r)
           \/ SaveIntent(r) \/ SaveStatus(r) \/ StepRaises(r) \/ JobCancelled(r)
  BY <1>4 DEF SubmitDeclines, MarkAttempt, SubmitPatch, SaveReceipt, SaveIntent,
     SaveStatus, StepRaises, JobCancelled
<1> QED
  BY <1>1, <1>2, <1>3, <1>4 DEF RunStep

(* The only step of a run that starts a submission is submit_patch.         *)
LEMMA OnlySubmitAttempts ==
  ASSUME NEW r \in Run, RunStep(r)
  PROVE  /\ op' = op /\ pulls \subseteq pulls'
         /\ SubmitPatch(r) \/ (attempts' = attempts /\ pulls' = pulls)
<1>1. CASE SubmitPatch(r)
  BY <1>1 DEF SubmitPatch
<1>2. CASE ~SubmitPatch(r)
  BY <1>2 DEF RunStep, Checkout, PrepareStart, PrepareNothing, PreparePackage,
     PrepareForOthers, PrepareIntent, PrepareFinish, Pull, TryAgain, Checkpoint,
     CheckpointFails, FinalPersist, FinalPersistFails, RunEnds, IterationFails,
     SubmitDeclines, MarkAttempt, SaveReceipt, SaveIntent, SaveStatus,
     StepRaises, JobCancelled, RunnerLost, git, world
<1> QED
  BY <1>1, <1>2

(* A candidate has one holder, which is a run or the operator.              *)
LEMMA OneHolder ==
  ASSUME NEW t \in Tree, NEW c \in Cand, Reserved(t, c)
  PROVE  \E h \in Run \cup {Operator} :
           HeldBy(t, c, h) /\ \A g : HeldBy(t, c, g) => g = h
  BY DEF Tree, Intent, HeldBy, Reserved

(* A step that starts no submission and only lets h add reservations keeps  *)
(* the owner's rights.                                                     *)
LEMMA QuietStepOwnership ==
  ASSUME TypeOK, Ownership, main' \in Tree, attempts' = attempts,
         NEW h \in Run \cup {Operator},
         Extends(main, main'), AddsOnlyOf(main, main', h),
         \A q \in Run : pc'[q] \in Unsent => pc[q] \in Unsent
  PROVE  Ownership'
<1> USE DEF TypeOK
<1>1. ASSUME NEW c \in Cand, Reserved(main, c) PROVE Reserved(main', c)
  <2>1. PICK g \in Run \cup {Operator} : HeldBy(main, c, g)
    BY <1>1, OneHolder
  <2> QED
    BY <2>1 DEF Extends, HeldBy
<1>2. ASSUME NEW q \in Run, NEW c \in Cand, HeldBy(main', c, q), pc'[q] \in Unsent
      PROVE  attempts[c] = 0
  <2>1. CASE HeldBy(main, c, q)
    BY <1>2, <2>1 DEF Ownership
  <2>2. CASE ~HeldBy(main, c, q)
    <3>1. ~Reserved(main, c)
      <4> SUFFICES ASSUME Reserved(main, c) PROVE FALSE
        OBVIOUS
      <4>1. PICK g \in Run \cup {Operator} : HeldBy(main, c, g)
        BY OneHolder
      <4>2. HeldBy(main', c, g)
        BY <4>1 DEF Extends
      <4> QED
        BY <1>2, <2>2, <4>1, <4>2 DEF HeldBy
    <3>2. attempts[c] \in Nat /\ ~(attempts[c] > 0)
      BY <3>1 DEF Ownership
    <3> QED
      BY <3>2
  <2> QED
    BY <2>1, <2>2
<1> QED
  BY <1>1, <1>2 DEF Ownership, HeldBy, Reserved

(* Each submission is the first of its candidate and its holder's own.      *)
LEMMA OwnershipNext ==
  ASSUME TypeOK, HasPackage, RunState, OperatorState, Lineage, Ownership, [Next]_vars
  PROVE  Ownership'
<1> USE DEF TypeOK
<1>0. TypeOK'
  BY TypeNext
<1>1. ASSUME NEW r \in Run, RunStep(r) PROVE Ownership'
  <2>1. CASE SubmitPatch(r)
    <3> DEFINE c == Target(r)
    <3>1. /\ c \in Cand /\ main' = main /\ attempts' = [attempts EXCEPT ![c] = @ + 1]
          /\ pc[r] = "attempting" /\ pc'[r] \in {"receipt", "uncertain"}
      BY <2>1 DEF SubmitPatch, git, HasPackage, InFlight, Target, Package
    <3>2. HeldBy(main, c, r)
      BY <3>1 DEF RunState, InFlight, Lineage, Extends
    <3>3. attempts[c] = 0
      BY <3>1, <3>2 DEF Ownership, Unsent
    <3>4. pc'[r] \notin Unsent
      BY <3>1 DEF Unsent, Preparing
    <3>5. \A q \in Run : pc'[q] \in Unsent => pc[q] \in Unsent /\ q # r
      BY <1>1, <3>4, UnsentBack, RunFrame
    <3>6. \A q \in Run : HeldBy(main, c, q) => q = r
      BY <3>2 DEF HeldBy
    <3> HIDE DEF c
    <3>7. /\ attempts'[c] = 1
          /\ \A d \in Cand : d # c => attempts'[d] = attempts[d]
      BY <3>1, <3>3
    <3>8. \A d \in Cand : attempts'[d] <= 1
      BY <3>7 DEF Ownership
    <3>9. \A d \in Cand : attempts'[d] > 0 => Reserved(main', d)
      BY <3>1, <3>2, <3>7 DEF Ownership, HeldBy
    <3>10. ASSUME NEW q \in Run, NEW d \in Cand, HeldBy(main', d, q), pc'[q] \in Unsent
           PROVE  attempts'[d] = 0
      BY <3>1, <3>5, <3>6, <3>7, <3>10 DEF Ownership
    <3> QED
      BY <3>8, <3>9, <3>10 DEF Ownership, HeldBy, Reserved
  <2>2. CASE attempts' = attempts
    <3>1. Extends(main, main') /\ AddsOnlyOf(main, main', r)
      BY <1>1, RunShape, MainGrows
    <3>2. \A q \in Run : pc'[q] \in Unsent => pc[q] \in Unsent
      BY <1>1, UnsentBack, RunFrame
    <3> QED
      BY <1>0, <2>2, <3>1, <3>2, QuietStepOwnership
  <2> QED
    BY <1>1, <2>1, <2>2, OnlySubmitAttempts
<1>2. CASE OperatorSubmits
  <2> DEFINE c == op.package.candidate
  <2>1. /\ c \in Cand /\ HeldBy(main, c, Operator) /\ attempts[c] = 0
        /\ main' = main /\ pc' = pc /\ attempts' = [attempts EXCEPT ![c] = @ + 1]
    BY <1>2 DEF OperatorSubmits, OperatorMoves, HasPackage, Package, OperatorState
  <2>2. \A q \in Run : ~HeldBy(main, c, q)
    BY <2>1, OperatorAssumption DEF HeldBy
  <2> HIDE DEF c
  <2>3. attempts'[c] = 1 /\ \A d \in Cand : d # c => attempts'[d] = attempts[d]
    BY <2>1
  <2> QED
    BY <2>1, <2>2, <2>3 DEF Ownership, HeldBy, Reserved
<1>3. CASE (OperatorStep /\ ~OperatorSubmits) \/ ConfigChanges
  <2>1. attempts' = attempts
    BY <1>3 DEF OperatorStep, OperatorPins, OperatorReserves, OperatorRecords,
       OperatorLeaves, ConfigChanges
  <2> QED
    BY <1>0, <1>3, <2>1, OthersShape, QuietStepOwnership
<1>4. CASE UNCHANGED vars
  BY <1>4 DEF vars, Ownership, HeldBy, Reserved
<1> QED
  BY <1>1, <1>2, <1>3, <1>4 DEF Next, OperatorStep

(* The start of prepare() rewrites only ready.json and status.json.         *)
LEMMA StartKeeps ==
  ASSUME TypeOK, NEW r \in Run, PrepareStart(r)
  PROVE  /\ disk'[r].intents = disk[r].intents
         /\ disk'[r].receipts = disk[r].receipts
         /\ disk'[r].cfg = disk[r].cfg
<1> DEFINE started == [disk[r] EXCEPT !.ready = NoPackage,
                         !.status = [run_id |-> r, cycle_outcome |-> "starting"]]
<1>t. disk[r] \in Tree /\ r \in DOMAIN disk
  BY DEF TypeOK
<1>1. /\ started \in Tree /\ started.intents = disk[r].intents
      /\ started.receipts = disk[r].receipts /\ started.cfg = disk[r].cfg
  <2>1. [run_id |-> r, cycle_outcome |-> "starting"] \in Status
    BY DEF Status, Outcomes
  <2>2. started \in Tree
    BY <1>t, <2>1, TreeUpdate
  <2>3. /\ started.intents = disk[r].intents
        /\ started.receipts = disk[r].receipts /\ started.cfg = disk[r].cfg
    BY <1>t DEF Tree
  <2> QED
    BY <2>2, <2>3
<1> HIDE DEF Outcome
<1>2. disk'[r] = started \/ disk'[r] = Outcome(started, "policy_disabled")
  BY <1>t DEF PrepareStart
<1> HIDE DEF started
<1> QED
  BY <1>1, <1>2, OutcomeKeepsIntents

-----------------------------------------------------------------------------
(* The run's own state: its package, its reservation and its permission.    *)

(* A step of a run keeps what RunState says of that run.                    *)
LEMMA OwnStateNext ==
  ASSUME TypeOK, HasPackage, RunState, Lineage, NEW r \in Run, RunStep(r)
  PROVE  /\ disk'[r].cfg = base'[r].cfg
         /\ pc'[r] = "built" => ~Reserved(disk'[r], disk'[r].ready.candidate)
         /\ pc'[r] = "checkpointed" =>
              base'[r] = disk'[r] /\ gate'[r] = MaySubmit(disk'[r].cfg)
         /\ pc'[r] \in InFlight => HeldBy(base'[r], disk'[r].ready.candidate, r)
         /\ pc'[r] = "attempting" => gate'[r]
<1> USE DEF TypeOK, InFlight
<1>t. disk[r] \in Tree /\ main \in Tree /\ base[r] \in Tree
  OBVIOUS
<1>s. disk[r].cfg = base[r].cfg
  BY DEF RunState
<1>1. CASE Checkout(r) \/ Pull(r)
  <2>1. pc'[r] \notin InFlight \cup {"built", "checkpointed"}
    BY <1>1 DEF Checkout, Pull, PushOf
  <2>2. disk'[r].cfg = base'[r].cfg
    BY <1>1 DEF Checkout, Pull, Rebased
  <2> QED
    BY <2>1, <2>2
<1>2. CASE \/ PrepareStart(r) \/ PrepareNothing(r) \/ PrepareForOthers(r)
           \/ PrepareIntent(r) \/ PrepareFinish(r) \/ SaveStatus(r) \/ StepRaises(r)
  <2>1. pc'[r] \notin InFlight \cup {"built", "checkpointed"} /\ base' = base
    BY <1>2 DEF PrepareStart, PrepareNothing, PrepareForOthers, PrepareIntent,
       PrepareFinish, SaveStatus, StepRaises, git
  <2>2. disk'[r].cfg = disk[r].cfg
    <3>1. CASE PrepareStart(r)
      BY <3>1, StartKeeps
    <3>2. CASE PrepareIntent(r)
      BY <1>t, <3>2 DEF PrepareIntent, Tree
    <3>3. CASE PrepareNothing(r) \/ PrepareForOthers(r) \/ PrepareFinish(r)
      BY <1>t, <3>3 DEF PrepareNothing, PrepareForOthers, PrepareFinish, Tree
    <3>4. CASE SaveStatus(r) \/ StepRaises(r)
      BY <1>t, <3>4 DEF SaveStatus, StepRaises, Tree
    <3> QED
      BY <1>2, <3>1, <3>2, <3>3, <3>4
  <2> QED
    BY <1>s, <2>1, <2>2
<1>3. ASSUME NEW c \in Cand, PreparePackage(r, c)
      PROVE  /\ pc'[r] = "built" /\ disk'[r].cfg = base'[r].cfg
             /\ ~Reserved(disk'[r], disk'[r].ready.candidate)
  <2>1. disk'[r] = [disk[r] EXCEPT !.ready = [candidate |-> c, run_id |-> r]]
    BY <1>3 DEF PreparePackage
  <2>2. /\ disk'[r].intents = disk[r].intents /\ disk'[r].cfg = disk[r].cfg
        /\ disk'[r].ready.candidate = c
    BY <1>t, <2>1 DEF Tree
  <2> QED
    BY <1>3, <1>s, <2>2 DEF PreparePackage, Attempted, Reserved, git
<1>4. CASE SubmitDeclines(r) \/ JobCancelled(r) \/ TryAgain(r) \/ CheckpointFails(r)
  BY <1>4, <1>s DEF SubmitDeclines, JobCancelled, TryAgain, CheckpointFails,
     IterationFails, PullOf,
     Pulling, Pushing, git
<1>5. CASE Checkpoint(r)
  BY <1>5, <1>s DEF Checkpoint
<1>6. CASE FinalPersist(r) \/ FinalPersistFails(r) \/ RunnerLost(r)
  BY <1>6 DEF FinalPersist, FinalPersistFails, RunnerLost, RunEnds
<1>7. CASE MarkAttempt(r)
  <2>1. /\ pc[r] = "checkpointed" /\ pc'[r] = "attempting"
        /\ base' = base /\ gate' = gate
    BY <1>7 DEF MarkAttempt, git
  <2>2. Target(r) \in Cand /\ HeldBy(disk[r], Target(r), r) /\ MaySubmit(disk[r].cfg)
    BY <1>t, <1>7, OperatorAssumption DEF MarkAttempt, CurrentPackage, Target, Tree,
       Package, HeldBy, Reserved, NoIntent
  <2>3. disk'[r].ready = disk[r].ready /\ disk'[r].cfg = disk[r].cfg
    BY <1>t, <1>7 DEF MarkAttempt, Tree
  <2> QED
    BY <1>s, <2>1, <2>2, <2>3 DEF RunState, Target
<1>8. CASE SubmitPatch(r) \/ SaveReceipt(r) \/ SaveIntent(r)
  <2>1. /\ pc[r] \in InFlight /\ pc'[r] \in InFlight \ {"attempting"}
        /\ base' = base /\ gate' = gate
    BY <1>8 DEF SubmitPatch, SaveReceipt, SaveIntent, git
  <2>2. disk'[r].ready = disk[r].ready /\ disk'[r].cfg = disk[r].cfg
    BY <1>t, <1>8 DEF SubmitPatch, SaveReceipt, SaveIntent, Tree
  <2> QED
    BY <1>s, <2>1, <2>2 DEF RunState, Target
<1> QED
  BY <1>1, <1>2, <1>3, <1>4, <1>5, <1>6, <1>7, <1>8 DEF RunStep

(* A run in flight holds the reservation it works on.                       *)
LEMMA RunStateNext ==
  ASSUME TypeOK, HasPackage, RunState, OperatorState, Lineage, [Next]_vars
  PROVE  RunState'
<1>1. ASSUME NEW r \in Run, RunStep(r) PROVE RunState'
  <2>1. ASSUME NEW q \in Run, q # r
        PROVE  /\ disk'[q] = disk[q] /\ base'[q] = base[q]
               /\ pc'[q] = pc[q] /\ gate'[q] = gate[q]
    BY <1>1, <2>1, RunFrame
  <2>2. ASSUME NEW q \in Run, q # r
        PROVE  /\ disk'[q].cfg = base'[q].cfg
               /\ pc'[q] = "built" => ~Reserved(disk'[q], disk'[q].ready.candidate)
               /\ pc'[q] = "checkpointed" =>
                    base'[q] = disk'[q] /\ gate'[q] = MaySubmit(disk'[q].cfg)
               /\ pc'[q] \in InFlight => HeldBy(base'[q], disk'[q].ready.candidate, q)
               /\ pc'[q] = "attempting" => gate'[q]
    BY <2>1, <2>2 DEF RunState, Target
  <2> QED
    BY <1>1, <2>2, OwnStateNext DEF RunState, Target, Reserved, HeldBy, MaySubmit
<1>2. CASE OperatorStep \/ ConfigChanges
  <2>1. disk' = disk /\ base' = base /\ pc' = pc /\ gate' = gate
    BY <1>2, OthersShape
  <2> QED
    BY <2>1 DEF RunState, Target, Reserved, HeldBy, MaySubmit
<1>3. CASE UNCHANGED vars
  BY <1>3 DEF vars, RunState, Target, Reserved, HeldBy, MaySubmit
<1> QED
  BY <1>1, <1>2, <1>3 DEF Next

-----------------------------------------------------------------------------
(* Evidence: receipts stand for pull requests.                              *)

(* TreeEvidence against a given set of pull requests.                       *)
Honest(t, p) ==
  /\ t.receipts \subseteq p
  /\ \A c \in Cand :
       /\ t.intents[c].status = "none" => t.intents[c] = NoIntent
       /\ t.intents[c].status = "submitted" => c \in t.receipts

(* A first tree claims nothing.                                             *)
LEMMA FirstTreeHonest == \A p : Honest(FirstTree, p)
  BY DEF Honest, FirstTree, NoIntent

(* A rebase of honest trees is honest.                                      *)
LEMMA RebasedHonest ==
  ASSUME NEW b \in Tree, NEW m \in Tree, NEW t \in Tree, NEW p,
         Honest(m, p), Honest(t, p)
  PROVE  /\ Honest(Rebased(b, m, t), p)
         /\ t.receipts \subseteq Rebased(b, m, t).receipts
  BY DEF Honest, Rebased, Merged, Tree

(* u is t with one intent set, to "submitted" only with its receipt.        *)
SetsIntent(t, u, d) ==
  /\ u.receipts = t.receipts
  /\ \A c \in Cand : c # d => u.intents[c] = t.intents[c]
  /\ u.intents[d].status # "none"
  /\ u.intents[d].status = "submitted" => d \in t.receipts

(* Setting an intent so is honest.                                          *)
LEMMA IntentHonest ==
  ASSUME NEW t, NEW p, Honest(t, p), NEW d, NEW u, SetsIntent(t, u, d)
  PROVE  Honest(u, p)
  BY DEF Honest, SetsIntent

(* What a local write of a run leaves in its working tree is honest.        *)
LEMMA DiskHonest ==
  ASSUME TypeOK, HasPackage, Evidence, NEW r \in Run, RunStep(r)
  PROVE  /\ Honest(disk'[r], pulls') /\ Honest(base'[r], pulls')
         /\ base'[r].receipts \subseteq disk'[r].receipts
         /\ pc'[r] = "receipt" => disk'[r].ready.candidate \in pulls'
         /\ pc'[r] = "recorded" => disk'[r].ready.candidate \in disk'[r].receipts
<1> USE DEF TypeOK
<1>t. disk[r] \in Tree /\ main \in Tree /\ base[r] \in Tree
  OBVIOUS
<1>p. pulls \subseteq pulls'
  BY OnlySubmitAttempts
<1>h. /\ Honest(disk[r], pulls') /\ Honest(base[r], pulls') /\ Honest(main, pulls')
      /\ base[r].receipts \subseteq disk[r].receipts
  BY <1>p DEF Evidence, TreeEvidence, Honest
<1>1. CASE Checkout(r) \/ Pull(r)
  <2>1. pc'[r] \notin {"receipt", "recorded"} /\ base'[r] = main
    BY <1>1 DEF Checkout, Pull, PushOf
  <2>2. disk'[r] = main \/ disk'[r] = Rebased(base[r], disk[r], main)
    BY <1>1 DEF Checkout, Pull
  <2> QED
    BY <1>t, <1>h, <2>1, <2>2, RebasedHonest
<1>2. CASE \/ PrepareStart(r) \/ PrepareNothing(r) \/ (\E c \in Cand : PreparePackage(r, c))
           \/ PrepareForOthers(r) \/ PrepareFinish(r) \/ SaveStatus(r) \/ StepRaises(r)
  <2>1. pc'[r] \notin {"receipt", "recorded"} /\ base' = base
    BY <1>2 DEF PrepareStart, PrepareNothing, PreparePackage, PrepareForOthers,
       PrepareFinish, SaveStatus, StepRaises, git
  <2>2. disk'[r].intents = disk[r].intents /\ disk'[r].receipts = disk[r].receipts
    <3>1. CASE PrepareStart(r)
      BY <3>1, StartKeeps
    <3>2. CASE \E c \in Cand : PreparePackage(r, c)
      BY <1>t, <3>2 DEF PreparePackage, Tree
    <3>3. CASE PrepareNothing(r) \/ PrepareForOthers(r) \/ PrepareFinish(r)
      BY <1>t, <3>3 DEF PrepareNothing, PrepareForOthers, PrepareFinish, Tree
    <3>4. CASE SaveStatus(r) \/ StepRaises(r)
      BY <1>t, <3>4 DEF SaveStatus, StepRaises, Tree
    <3> QED
      BY <1>2, <3>1, <3>2, <3>3, <3>4
  <2> QED
    BY <1>h, <2>1, <2>2 DEF Honest
<1>3. CASE PrepareIntent(r)
  <2> DEFINE d == disk[r].ready.candidate
             i == [status |-> "prepared", run_id |-> r]
  <2>1. /\ d \in Cand /\ base' = base /\ pc'[r] = "reserved"
        /\ disk'[r] = [disk[r] EXCEPT !.intents[d] = i]
    BY <1>3 DEF PrepareIntent, HasPackage, Package, git
  <2>2. /\ disk'[r].receipts = disk[r].receipts /\ disk'[r].intents[d] = i
        /\ \A c \in Cand : c # d => disk'[r].intents[c] = disk[r].intents[c]
    BY <1>t, <2>1 DEF Tree
  <2>3. SetsIntent(disk[r], disk'[r], d)
    BY <2>2 DEF SetsIntent
  <2> QED
    BY <1>h, <2>1, <2>2, <2>3, IntentHonest
<1>4. CASE MarkAttempt(r) \/ SaveIntent(r)
  <2> DEFINE d == Target(r)
  <2>1. d \in Cand /\ base' = base /\ pc'[r] \in {"attempting", "settled"}
    BY <1>t, <1>4 DEF MarkAttempt, SaveIntent, CurrentPackage, HasPackage, InFlight,
       Target, Tree, Package, git
  <2>2. PICK s \in {"attempted_requires_reconciliation", "submitted"} :
          /\ disk'[r] = [disk[r] EXCEPT !.intents[d].status = s]
          /\ s = "submitted" => pc[r] = "recorded"
    BY <1>4 DEF MarkAttempt, SaveIntent
  <2>3. s = "submitted" => d \in disk[r].receipts
    BY <2>2 DEF Evidence
  <2> HIDE DEF d
  <2>4. /\ disk'[r].receipts = disk[r].receipts /\ disk'[r].intents[d].status = s
        /\ \A c \in Cand : c # d => disk'[r].intents[c] = disk[r].intents[c]
    BY <1>t, <2>1, <2>2 DEF Tree, Intent
  <2>5. SetsIntent(disk[r], disk'[r], d)
    BY <2>2, <2>3, <2>4 DEF SetsIntent
  <2> QED
    BY <1>h, <2>1, <2>4, <2>5, IntentHonest
<1>5. CASE SaveReceipt(r)
  <2>1. Target(r) \in Cand /\ Target(r) \in pulls /\ base' = base
    BY <1>5 DEF SaveReceipt, HasPackage, InFlight, Target, Package, Evidence, git
  <2>2. CASE Goto(r, "uncertain") /\ UNCHANGED disk
    BY <1>h, <2>1, <2>2
  <2>3. CASE Write(r, [disk[r] EXCEPT !.receipts = @ \cup {Target(r)}])
    <3>1. /\ disk'[r].receipts = disk[r].receipts \cup {Target(r)}
          /\ disk'[r].intents = disk[r].intents /\ disk'[r].ready = disk[r].ready
      BY <1>t, <2>3 DEF Tree
    <3>2. pc'[r] # "receipt"
      BY <1>5 DEF SaveReceipt
    <3> QED
      BY <1>h, <1>p, <2>1, <3>1, <3>2 DEF Honest, Target
  <2> QED
    BY <1>5, <2>2, <2>3 DEF SaveReceipt
<1>6. CASE SubmitPatch(r)
  BY <1>6, <1>h DEF SubmitPatch, git, Target
<1>7. CASE \/ SubmitDeclines(r) \/ JobCancelled(r) \/ TryAgain(r) \/ CheckpointFails(r)
           \/ Checkpoint(r)
  BY <1>7, <1>h DEF SubmitDeclines, JobCancelled, TryAgain, CheckpointFails,
     IterationFails, PullOf,
     Pulling, Pushing, Checkpoint, git
<1>8. CASE FinalPersist(r) \/ FinalPersistFails(r) \/ RunnerLost(r)
  BY <1>8, FirstTreeHonest DEF FinalPersist, FinalPersistFails, RunnerLost, RunEnds
<1> QED
  BY <1>1, <1>2, <1>3, <1>4, <1>5, <1>6, <1>7, <1>8 DEF RunStep

(* No step makes main or a clone claim a submission without evidence.       *)
LEMMA EvidenceNext ==
  ASSUME TypeOK, HasPackage, RunState, OperatorState, Lineage, Evidence, [Next]_vars
  PROVE  Evidence' /\ main.receipts \subseteq main'.receipts
<1> USE DEF TypeOK
<1>m. Honest(main, pulls)
  BY DEF Evidence, TreeEvidence, Honest
<1>1. ASSUME NEW r \in Run, RunStep(r)
      PROVE  Evidence' /\ main.receipts \subseteq main'.receipts
  <2>1. pulls \subseteq pulls' /\ Shape(r)
    BY <1>1, OnlySubmitAttempts, RunShape
  <2>2. Honest(main', pulls') /\ main.receipts \subseteq main'.receipts
    <3>1. main' = main \/ (main = base[r] /\ main' = disk[r])
      BY <2>1 DEF Shape, LocalStep, CloneStep, PushStep, LastStep, Lands
    <3> QED
      BY <1>m, <2>1, <3>1 DEF Evidence, TreeEvidence, Honest
  <2>3. ASSUME NEW q \in Run, q # r
        PROVE  /\ Honest(disk'[q], pulls') /\ Honest(base'[q], pulls')
               /\ base'[q].receipts \subseteq disk'[q].receipts
               /\ pc'[q] = "receipt" => disk'[q].ready.candidate \in pulls'
               /\ pc'[q] = "recorded" => disk'[q].ready.candidate \in disk'[q].receipts
    <3>1. disk'[q] = disk[q] /\ base'[q] = base[q] /\ pc'[q] = pc[q]
      BY <1>1, <2>3, RunFrame
    <3> QED
      BY <2>1, <3>1 DEF Evidence, TreeEvidence, Honest, Target
  <2> QED
    BY <1>1, <2>2, <2>3, DiskHonest DEF Evidence, TreeEvidence, Honest, Target
<1>2. CASE OperatorStep \/ ConfigChanges
  <2> DEFINE c == op.package.candidate
  <2>1. disk' = disk /\ base' = base /\ pc' = pc
    BY <1>2, OthersShape
  <2>2. pulls \subseteq pulls'
    BY <1>2 DEF OperatorStep, OperatorPins, OperatorReserves, OperatorSubmits,
       OperatorRecords, OperatorLeaves, ConfigChanges
  <2>3. Honest(main', pulls') /\ main.receipts \subseteq main'.receipts
    <3>h. Honest(main, pulls')
      BY <1>m, <2>2 DEF Honest
    <3>1. CASE OperatorReserves
      <4> DEFINE i == [status |-> "operator_reserved", run_id |-> Operator]
      <4>1. c \in Cand /\ main' = [main EXCEPT !.intents[c] = i]
        BY <3>1 DEF OperatorReserves, OperatorMoves, HasPackage, Package
      <4>2. /\ main'.receipts = main.receipts /\ main'.intents[c] = i
            /\ \A d \in Cand : d # c => main'.intents[d] = main.intents[d]
        BY <4>1 DEF Tree
      <4>3. SetsIntent(main, main', c)
        BY <4>2 DEF SetsIntent
      <4> QED
        BY <3>h, <4>2, <4>3, IntentHonest
    <3>2. CASE OperatorRecords
      <4>1. c \in Cand /\ c \in pulls'
        BY <3>2, <2>2 DEF OperatorRecords, HasPackage, Package
      <4>2. CASE main' = [main EXCEPT !.receipts = @ \cup {c}]
        <5>1. main'.receipts = main.receipts \cup {c} /\ main'.intents = main.intents
          BY <4>2 DEF Tree
        <5> QED
          BY <3>h, <4>1, <5>1 DEF Honest
      <4>3. CASE op.pc = "recorded" /\ main' = [main EXCEPT !.intents[c].status = "submitted"]
        <5>1. c \in main.receipts
          BY <4>3 DEF OperatorState
        <5> HIDE DEF c
        <5>2. /\ main'.receipts = main.receipts
              /\ main'.intents[c].status = "submitted"
              /\ \A d \in Cand : d # c => main'.intents[d] = main.intents[d]
          BY <4>1, <4>3 DEF Tree, Intent
        <5>3. SetsIntent(main, main', c)
          BY <5>1, <5>2 DEF SetsIntent
        <5> QED
          BY <3>h, <5>2, <5>3, IntentHonest
      <4> QED
        BY <3>2, <4>2, <4>3 DEF OperatorRecords, OperatorMoves
    <3>3. CASE ConfigChanges
      <4>1. main'.receipts = main.receipts /\ main'.intents = main.intents
        BY <3>3 DEF ConfigChanges, Tree
      <4> QED
        BY <3>h, <4>1 DEF Honest
    <3>4. CASE OperatorPins \/ OperatorSubmits \/ OperatorLeaves
      BY <3>h, <3>4 DEF OperatorPins, OperatorSubmits, OperatorLeaves
    <3> QED
      BY <1>2, <3>1, <3>2, <3>3, <3>4 DEF OperatorStep
  <2> QED
    BY <2>1, <2>2, <2>3 DEF Evidence, TreeEvidence, Honest, Target
<1>3. CASE UNCHANGED vars
  BY <1>3 DEF vars, Evidence, TreeEvidence, Target
<1> QED
  BY <1>1, <1>2, <1>3 DEF Next

-----------------------------------------------------------------------------
(* The operator session keeps the reservation it made.                      *)
LEMMA OperatorStateNext ==
  ASSUME TypeOK, HasPackage, RunState, OperatorState, Lineage, Ownership, Evidence,
         [Next]_vars
  PROVE  OperatorState'
<1> DEFINE c == op.package.candidate
<1> USE DEF TypeOK
<1>0. TypeOK' /\ main.receipts \subseteq main'.receipts
  BY TypeNext, EvidenceNext
<1>1. ASSUME NEW r \in Run, RunStep(r) PROVE OperatorState'
  <2>1. op' = op /\ (SubmitPatch(r) \/ attempts' = attempts)
    BY <1>1, OnlySubmitAttempts
  <2>2. Extends(main, main')
    BY <1>1, RunShape, MainGrows
  <2>3. ASSUME op.pc \notin {"idle", "pinned"}
        PROVE  c \in Cand /\ HeldBy(main, c, Operator) /\ HeldBy(main', c, Operator)
    BY <2>2, <2>3 DEF HasPackage, Package, OperatorState, Extends
  <2>4. ASSUME op.pc = "reserved" PROVE attempts'[c] = 0
    <3>1. c \in Cand /\ HeldBy(main, c, Operator) /\ attempts[c] = 0
      BY <2>3, <2>4 DEF OperatorState
    <3>2. CASE SubmitPatch(r)
      <4>1. /\ Target(r) \in Cand /\ pc[r] = "attempting"
            /\ attempts' = [attempts EXCEPT ![Target(r)] = @ + 1]
        BY <3>2 DEF SubmitPatch, HasPackage, InFlight, Target, Package
      <4>2. HeldBy(main, Target(r), r)
        BY <4>1 DEF RunState, InFlight, Lineage, Extends
      <4>3. Target(r) # c
        BY <3>1, <4>2, OperatorAssumption DEF HeldBy
      <4> QED
        BY <3>1, <4>1, <4>3
    <3> QED
      BY <2>1, <3>1, <3>2
  <2>5. op.pc = "recorded" => c \in main'.receipts
    BY <1>0 DEF OperatorState
  <2> QED
    BY <2>1, <2>3, <2>4, <2>5 DEF OperatorState, HeldBy, Reserved
<1>2. CASE OperatorPins \/ OperatorLeaves
  BY <1>2 DEF OperatorPins, OperatorLeaves, OperatorState, HeldBy, Reserved
<1>3. CASE OperatorReserves
  <2>1. /\ op' = [op EXCEPT !.pc = "reserved"] /\ op.pc = "pinned"
        /\ c \in Cand /\ ~Reserved(main, c) /\ attempts' = attempts
        /\ main' = [main EXCEPT !.intents[c] =
                       [status |-> "operator_reserved", run_id |-> Operator]]
    BY <1>3 DEF OperatorReserves, OperatorMoves, HasPackage, Package, Reserved
  <2>2. op'.pc = "reserved" /\ op'.package = op.package
    BY <2>1
  <2>3. attempts[c] = 0
    <3>1. attempts[c] \in Nat /\ ~(attempts[c] > 0)
      BY <2>1 DEF Ownership
    <3> QED
      BY <3>1
  <2> HIDE DEF c
  <2>4. main'.intents[c] = [status |-> "operator_reserved", run_id |-> Operator]
    BY <2>1 DEF Tree
  <2>5. HeldBy(main', c, Operator)
    BY <2>4 DEF HeldBy, Reserved, NoIntent
  <2> QED
    BY <2>1, <2>2, <2>3, <2>5 DEF OperatorState, HeldBy, Reserved, c
<1>4. CASE OperatorSubmits \/ OperatorRecords
  <2>1. /\ op.pc \in {"reserved", "sent", "recorded"}
        /\ op'.pc \in {"sent", "recorded", "settled"} /\ op'.package = op.package
    BY <1>4 DEF OperatorSubmits, OperatorRecords, OperatorMoves
  <2>2. c \in Cand /\ HeldBy(main, c, Operator)
    BY <2>1 DEF HasPackage, Package, OperatorState
  <2>3. Extends(main, main')
    BY <1>4, OthersShape DEF OperatorStep
  <2>4. HeldBy(main', c, Operator)
    BY <2>2, <2>3 DEF Extends
  <2>5. ASSUME op'.pc = "recorded" PROVE c \in main'.receipts
    <3>1. main' = [main EXCEPT !.receipts = @ \cup {c}]
      BY <1>4, <2>5 DEF OperatorSubmits, OperatorRecords, OperatorMoves
    <3> QED
      BY <3>1 DEF Tree
  <2> QED
    BY <2>1, <2>4, <2>5 DEF OperatorState, HeldBy, Reserved
<1>5. CASE ConfigChanges
  <2>1. Extends(main, main') /\ op' = op /\ attempts' = attempts
    BY <1>5, OthersShape DEF ConfigChanges
  <2>2. ASSUME op.pc \notin {"idle", "pinned"}
        PROVE  HeldBy(main', c, Operator)
    BY <2>1, <2>2 DEF HasPackage, Package, OperatorState, Extends
  <2> QED
    BY <1>0, <2>1, <2>2 DEF OperatorState, HeldBy, Reserved
<1>6. CASE UNCHANGED vars
  BY <1>6 DEF vars, OperatorState, HeldBy, Reserved
<1> QED
  BY <1>1, <1>2, <1>3, <1>4, <1>5, <1>6 DEF Next, OperatorStep

-----------------------------------------------------------------------------
(* Additions: one push lands one reservation or one receipt.                *)

(* A tree adds nothing to itself.                                           *)
LEMMA AddsNothingToSelf == ASSUME NEW t PROVE AddsNothing(t, t) /\ AddsOne(t, t)
  BY DEF AddsNothing, AddsOne, Fresh, OneAtMost

(* Who adds nothing adds one at most.                                       *)
LEMMA NothingIsOne ==
  ASSUME NEW b, NEW m, AddsNothing(b, m)
  PROVE  AddsOne(b, m)
  BY DEF AddsNothing, AddsOne, OneAtMost

(* Fewer additions are still one at most.                                   *)
LEMMA FewerAdditions ==
  ASSUME NEW b, NEW m, NEW c, NEW n,
         Fresh(c, n) \subseteq Fresh(b, m),
         n.receipts \ c.receipts \subseteq m.receipts \ b.receipts
  PROVE  /\ AddsOne(b, m) => AddsOne(c, n)
         /\ AddsNothing(b, m) => AddsNothing(c, n)
  BY DEF AddsOne, AddsNothing, OneAtMost

(* Setting the status of a held reservation reserves nothing new.           *)
LEMMA StatusAddsNothing ==
  ASSUME NEW b, NEW t \in Tree, NEW d \in Cand, Reserved(t, d),
         NEW s, NEW u, u = [t EXCEPT !.intents[d].status = s]
  PROVE  Fresh(b, u) \subseteq Fresh(b, t) /\ u.receipts = t.receipts
<1>1. u.receipts = t.receipts /\ \A c \in Cand : c # d => u.intents[c] = t.intents[c]
  BY DEF Tree
<1> QED
  BY <1>1 DEF Fresh, Reserved

(* A rebase adds no more than the run had added.                            *)
LEMMA RebaseAddsNoMore ==
  ASSUME NEW b \in Tree, NEW m \in Tree, NEW t \in Tree,
         Extends(b, t), b.receipts \subseteq t.receipts
  PROVE  /\ Fresh(t, Rebased(b, m, t)) \subseteq Fresh(b, m)
         /\ Rebased(b, m, t).receipts \ t.receipts \subseteq m.receipts \ b.receipts
<1>1. ASSUME NEW c \in Fresh(t, Rebased(b, m, t)) PROVE c \in Fresh(b, m)
  <2>1. c \in Cand /\ t.intents[c] = NoIntent /\ Rebased(b, m, t).intents[c] # NoIntent
    BY DEF Fresh, Reserved
  <2>2. m.intents[c] # NoIntent
    BY <2>1 DEF Rebased, Merged
  <2>3. b.intents[c] = NoIntent
    <3> SUFFICES ASSUME Reserved(b, c) PROVE FALSE
      BY DEF Reserved
    <3>1. PICK h \in Run \cup {Operator} : HeldBy(b, c, h)
      BY <2>1, OneHolder
    <3> QED
      BY <2>1, <3>1 DEF Extends, HeldBy, Reserved
  <2> QED
    BY <2>1, <2>2, <2>3 DEF Fresh, Reserved
<1>2. Rebased(b, m, t).receipts = m.receipts \cup t.receipts
  BY DEF Rebased
<1> QED
  BY <1>1, <1>2

(* A step of a run leaves its clone with one addition at most.              *)
LEMMA OwnAdditions ==
  ASSUME TypeOK, HasPackage, RunState, Lineage, Evidence, Additions,
         NEW r \in Run, RunStep(r)
  PROVE  /\ AddsOne(base'[r], disk'[r])
         /\ pc'[r] \in Unchanged => AddsNothing(base'[r], disk'[r])
<1> USE DEF TypeOK
<1>t. disk[r] \in Tree /\ main \in Tree /\ base[r] \in Tree
  OBVIOUS
<1>a. /\ AddsOne(base[r], disk[r]) /\ base[r].receipts \subseteq main.receipts
      /\ pc[r] \in Unchanged => AddsNothing(base[r], disk[r])
  BY DEF Additions
<1>1. CASE Checkout(r) \/ Checkpoint(r)
  <2>1. disk'[r] = base'[r]
    BY <1>1 DEF Checkout, Checkpoint
  <2> QED
    BY <2>1, AddsNothingToSelf
<1>2. CASE Pull(r)
  <2>1. base'[r] = main /\ disk'[r] = Rebased(base[r], disk[r], main)
    BY <1>2 DEF Pull
  <2>2. pc'[r] \notin Unchanged
    BY <1>2 DEF Pull, PushOf, Unchanged
  <2>3. Extends(base[r], main)
    BY DEF Lineage
  <2>4. /\ Fresh(main, Rebased(base[r], disk[r], main)) \subseteq Fresh(base[r], disk[r])
        /\ Rebased(base[r], disk[r], main).receipts \ main.receipts
             \subseteq disk[r].receipts \ base[r].receipts
    BY <1>t, <1>a, <2>3, RebaseAddsNoMore
  <2>5. AddsOne(main, Rebased(base[r], disk[r], main))
    BY <1>a, <2>4, FewerAdditions
  <2> QED
    BY <2>1, <2>2, <2>5
<1>3. CASE \/ PrepareStart(r) \/ PrepareNothing(r) \/ (\E c \in Cand : PreparePackage(r, c))
           \/ PrepareForOthers(r) \/ PrepareFinish(r) \/ SaveStatus(r) \/ StepRaises(r)
           \/ SubmitDeclines(r) \/ SubmitPatch(r) \/ JobCancelled(r)
           \/ TryAgain(r) \/ CheckpointFails(r)
  <2>1. base' = base /\ (pc'[r] \in Unchanged => pc[r] \in Unchanged)
    <3>1. CASE \/ PrepareStart(r) \/ PrepareNothing(r)
               \/ (\E c \in Cand : PreparePackage(r, c))
               \/ PrepareForOthers(r) \/ PrepareFinish(r)
      BY <3>1 DEF PrepareStart, PrepareNothing, PreparePackage, PrepareForOthers,
         PrepareFinish, git, Unchanged
    <3>2. CASE \/ SaveStatus(r) \/ StepRaises(r) \/ SubmitDeclines(r)
               \/ SubmitPatch(r) \/ JobCancelled(r)
      BY <3>2 DEF SaveStatus, StepRaises, SubmitDeclines, SubmitPatch, JobCancelled,
         git, Unchanged
    <3>3. CASE TryAgain(r) \/ CheckpointFails(r)
      BY <3>3 DEF TryAgain, CheckpointFails, IterationFails, PullOf, Pulling, Pushing,
         Unchanged
    <3> QED
      BY <1>3, <3>1, <3>2, <3>3
  <2>2. disk'[r].intents = disk[r].intents /\ disk'[r].receipts = disk[r].receipts
    <3>1. CASE PrepareStart(r)
      BY <3>1, StartKeeps
    <3>2. CASE \E c \in Cand : PreparePackage(r, c)
      BY <1>t, <3>2 DEF PreparePackage, Tree
    <3>3. CASE PrepareNothing(r) \/ PrepareForOthers(r) \/ PrepareFinish(r)
      BY <1>t, <3>3 DEF PrepareNothing, PrepareForOthers, PrepareFinish, Tree
    <3>4. CASE SaveStatus(r) \/ StepRaises(r)
      BY <1>t, <3>4 DEF SaveStatus, StepRaises, Tree
    <3>5. CASE \/ SubmitDeclines(r) \/ SubmitPatch(r) \/ JobCancelled(r)
               \/ TryAgain(r) \/ CheckpointFails(r)
      BY <3>5 DEF SubmitDeclines, SubmitPatch, JobCancelled, TryAgain, CheckpointFails, git
    <3> QED
      BY <1>3, <3>1, <3>2, <3>3, <3>4, <3>5
  <2>3. Fresh(base[r], disk'[r]) = Fresh(base[r], disk[r])
    BY <2>2 DEF Fresh, Reserved
  <2> QED
    BY <1>a, <2>1, <2>2, <2>3, FewerAdditions
<1>4. CASE PrepareIntent(r)
  <2> DEFINE d == disk[r].ready.candidate
             i == [status |-> "prepared", run_id |-> r]
  <2>1. /\ d \in Cand /\ base' = base /\ pc'[r] = "reserved" /\ pc[r] = "built"
        /\ disk'[r] = [disk[r] EXCEPT !.intents[d] = i]
    BY <1>4 DEF PrepareIntent, HasPackage, Package, git
  <2>2. AddsNothing(base[r], disk[r]) /\ pc'[r] \notin Unchanged
    BY <1>a, <2>1 DEF Unchanged
  <2>3. /\ disk'[r].receipts = disk[r].receipts
        /\ \A c \in Cand : c # d => disk'[r].intents[c] = disk[r].intents[c]
    BY <1>t, <2>1 DEF Tree
  <2> HIDE DEF d, i
  <2>4. Fresh(base[r], disk'[r]) \subseteq {d}
    BY <2>2, <2>3 DEF AddsNothing, Fresh, Reserved
  <2> QED
    BY <2>1, <2>2, <2>3, <2>4 DEF AddsNothing, AddsOne, OneAtMost
<1>5. CASE MarkAttempt(r) \/ SaveIntent(r)
  <2> DEFINE d == Target(r)
  <2>1. /\ d \in Cand /\ base' = base
        /\ MarkAttempt(r) => pc[r] = "checkpointed"
        /\ SaveIntent(r) => pc'[r] = "settled"
        /\ Reserved(disk[r], d)
    <3>1. CASE MarkAttempt(r)
      BY <1>t, <3>1, OperatorAssumption DEF MarkAttempt, CurrentPackage, Target, Tree,
         Package, HeldBy, Reserved, NoIntent, git, SaveIntent
    <3>2. CASE SaveIntent(r)
      <4>1. d \in Cand /\ HeldBy(base[r], d, r)
        BY <3>2 DEF SaveIntent, HasPackage, InFlight, Target, Package, RunState
      <4>2. HeldBy(disk[r], d, r)
        BY <4>1 DEF Lineage, Extends
      <4> QED
        BY <3>2, <4>1, <4>2 DEF HeldBy, SaveIntent, git, MarkAttempt
    <3> QED
      BY <1>5, <3>1, <3>2
  <2>2. PICK s : disk'[r] = [disk[r] EXCEPT !.intents[d].status = s]
    BY <1>5 DEF MarkAttempt, SaveIntent
  <2> HIDE DEF d
  <2>3. /\ Fresh(base[r], disk'[r]) \subseteq Fresh(base[r], disk[r])
        /\ disk'[r].receipts = disk[r].receipts
    <3> DEFINE u == disk'[r]
    <3>1. u = [disk[r] EXCEPT !.intents[d].status = s]
      BY <2>2
    <3> HIDE DEF u
    <3>2. disk[r] \in Tree /\ d \in Cand /\ Reserved(disk[r], d)
      BY <1>t, <2>1
    <3>3. Fresh(base[r], u) \subseteq Fresh(base[r], disk[r]) /\ u.receipts = disk[r].receipts
      BY ONLY <3>1, <3>2, StatusAddsNothing
    <3> QED
      BY <3>3 DEF u
  <2>4. pc'[r] \in Unchanged => pc[r] \in Unchanged
    BY <1>5, <2>1 DEF Unchanged
  <2> QED
    BY <1>a, <2>1, <2>3, <2>4, FewerAdditions
<1>6. CASE SaveReceipt(r)
  <2>1. /\ pc[r] = "receipt" /\ pc'[r] \notin Unchanged /\ base' = base
    BY <1>6 DEF SaveReceipt, git, Unchanged
  <2>2. AddsNothing(base[r], disk[r])
    BY <1>a, <2>1 DEF Unchanged
  <2>3. CASE UNCHANGED disk
    BY <2>1, <2>2, <2>3, NothingIsOne
  <2>4. CASE Write(r, [disk[r] EXCEPT !.receipts = @ \cup {Target(r)}])
    <3>1. /\ disk'[r].receipts = disk[r].receipts \cup {Target(r)}
          /\ disk'[r].intents = disk[r].intents
      BY <1>t, <2>4 DEF Tree
    <3>2. Fresh(base[r], disk'[r]) = {}
      BY <2>2, <3>1 DEF AddsNothing, Fresh, Reserved
    <3> QED
      BY <2>1, <2>2, <3>1, <3>2 DEF AddsNothing, AddsOne, OneAtMost
  <2> QED
    BY <1>6, <2>3, <2>4 DEF SaveReceipt
<1>7. CASE FinalPersist(r) \/ FinalPersistFails(r) \/ RunnerLost(r)
  <2>1. disk'[r] = base'[r]
    BY <1>7 DEF FinalPersist, FinalPersistFails, RunnerLost, RunEnds
  <2> QED
    BY <2>1, AddsNothingToSelf
<1> QED
  BY <1>1, <1>2, <1>3, <1>4, <1>5, <1>6, <1>7 DEF RunStep

(* Only candidates whose submission started have a pull request.            *)
LEMMA PullsAreAttempted ==
  ASSUME TypeOK, HasPackage, Ownership, \A c \in pulls : attempts[c] > 0, [Next]_vars
  PROVE  \A c \in pulls' : attempts'[c] > 0
<1> USE DEF TypeOK
<1>1. CASE attempts' = attempts /\ pulls' = pulls
  BY <1>1
<1>2. ASSUME NEW d \in Cand, attempts' = [attempts EXCEPT ![d] = @ + 1],
             pulls' \subseteq pulls \cup {d}
      PROVE  \A c \in pulls' : attempts'[c] > 0
  <2>1. \A c \in Cand : attempts[c] \in Nat
    OBVIOUS
  <2> QED
    BY <1>2, <2>1
<1>3. ASSUME NEW r \in Run, SubmitPatch(r) PROVE \A c \in pulls' : attempts'[c] > 0
  <2>1. Target(r) \in Cand
    BY <1>3 DEF SubmitPatch, HasPackage, InFlight, Target, Package
  <2> QED
    BY <1>2, <1>3, <2>1 DEF SubmitPatch
<1>4. CASE OperatorSubmits
  <2>1. op.package.candidate \in Cand
    BY <1>4 DEF OperatorSubmits, OperatorMoves, HasPackage, Package
  <2> QED
    BY <1>2, <1>4, <2>1 DEF OperatorSubmits
<1>5. CASE \/ OperatorPins \/ OperatorReserves \/ OperatorRecords \/ OperatorLeaves
           \/ ConfigChanges \/ UNCHANGED vars
  BY <1>1, <1>5 DEF OperatorPins, OperatorReserves, OperatorRecords, OperatorLeaves,
     ConfigChanges, vars
<1> QED
  BY <1>1, <1>3, <1>4, <1>5, OnlySubmitAttempts DEF Next, OperatorStep

(* Every step leaves every clone with one addition at most.                 *)
LEMMA AdditionsNext ==
  ASSUME TypeOK, HasPackage, RunState, OperatorState, Lineage, Ownership, Evidence,
         Additions, [Next]_vars
  PROVE  Additions'
<1>1. \A c \in pulls' : attempts'[c] > 0
  BY PullsAreAttempted DEF Additions
<1>2. main.receipts \subseteq main'.receipts
  BY EvidenceNext
<1>3. ASSUME NEW r \in Run, RunStep(r), NEW q \in Run
      PROVE  /\ base'[q].receipts \subseteq main'.receipts
             /\ AddsOne(base'[q], disk'[q])
             /\ pc'[q] \in Unchanged => AddsNothing(base'[q], disk'[q])
  <2>1. CASE q # r
    <3>1. disk'[q] = disk[q] /\ base'[q] = base[q] /\ pc'[q] = pc[q]
      BY <1>3, <2>1, RunFrame
    <3> QED
      BY <1>2, <3>1 DEF Additions
  <2>2. CASE q = r
    <3>1. base[r].receipts \subseteq main.receipts
      BY <1>3 DEF Additions
    <3>2. Shape(r)
      BY <1>3, RunShape
    <3>3. base'[r].receipts \subseteq main'.receipts
      BY <1>2, <3>1, <3>2
      DEF Shape, LocalStep, CloneStep, PushStep, LastStep, Lands, FirstTree
    <3> QED
      BY <1>3, <2>2, <3>3, OwnAdditions
  <2> QED
    BY <2>1, <2>2
<1>4. ASSUME OperatorStep \/ ConfigChanges \/ UNCHANGED vars, NEW q \in Run
      PROVE  /\ base'[q].receipts \subseteq main'.receipts
             /\ AddsOne(base'[q], disk'[q])
             /\ pc'[q] \in Unchanged => AddsNothing(base'[q], disk'[q])
  <2>1. disk' = disk /\ base' = base /\ pc' = pc
    BY <1>4, OthersShape DEF vars
  <2> QED
    BY <1>2, <2>1 DEF Additions
<1> QED
  BY <1>1, <1>3, <1>4 DEF Next, Additions, AddsOne, AddsNothing, OneAtMost, Fresh, Reserved

-----------------------------------------------------------------------------
(* The invariant and what follows from it.                                  *)

(* Nothing is reserved, attempted or claimed at first.                      *)
LEMMA InvInit == Init => IInv
<1> SUFFICES ASSUME Init PROVE IInv
  OBVIOUS
<1>1. TypeOK /\ HasPackage
  BY TypeInit
<1>2. Evidence
  BY FirstTreeHonest DEF Init, Evidence, TreeEvidence, Honest, FirstTree
<1>3. Lineage
  BY FirstTreeFree DEF Init, Lineage, Extends, AddsOnlyOf
<1>4. Ownership
  BY FirstTreeFree DEF Init, Ownership
<1>5. RunState /\ OperatorState
  BY DEF Init, RunState, OperatorState, InFlight
<1>6. Additions
  BY AddsNothingToSelf DEF Init, Additions, FirstTree
<1> QED
  BY <1>1, <1>2, <1>3, <1>4, <1>5, <1>6 DEF IInv

(* Every step preserves the invariant.                                      *)
LEMMA InvNext == IInv /\ [Next]_vars => IInv'
  BY TypeNext, PackageNext, EvidenceNext, LineageNext, OwnershipNext, RunStateNext,
     OperatorStateNext, AdditionsNext DEF IInv

(* The invariant holds in every behaviour.                                  *)
THEOREM Invariant == Spec => []IInv
  BY InvInit, InvNext, PTL DEF Spec

(* No candidate is submitted twice, by any number of runs, with or without  *)
(* the concurrency group, whatever is lost.                                 *)
THEOREM OneAttempt == Spec => []AtMostOneAttempt
<1>1. IInv => AtMostOneAttempt
  BY DEF IInv, Ownership, AtMostOneAttempt
<1> QED
  BY <1>1, Invariant, PTL

(* Every submission has its durable reservation.                            *)
THEOREM AttemptsAreReserved == Spec => []AttemptIsReserved
<1>1. IInv => AttemptIsReserved
  BY DEF IInv, Ownership, AttemptIsReserved, Reserved
<1> QED
  BY <1>1, Invariant, PTL

(* An attempt whose receipt is missing stays listed for reconciliation.     *)
THEOREM UnrecordedAttemptsAreHeld == Spec => []UnrecordedAttemptIsHeld
<1>1. IInv => UnrecordedAttemptIsHeld
  BY DEF IInv, Ownership, Evidence, TreeEvidence, UnrecordedAttemptIsHeld,
     ReconciliationRequired, Reserved
<1> QED
  BY <1>1, Invariant, PTL

(* Receipts stand for pull requests, "submitted" for a receipt.             *)
THEOREM TrueEvidence == Spec => []EvidenceIsTrue
<1>1. IInv => EvidenceIsTrue
  BY DEF IInv, Evidence, TreeEvidence, EvidenceIsTrue
<1> QED
  BY <1>1, Invariant, PTL

(* A submission step has the permission main gave when its checkpoint       *)
(* landed.                                                                 *)
THEOREM TakeoversAreRespected == Spec => TakeoverIsRespected
<1>1. IInv /\ [Next]_vars =>
        [\A r \in Run : (pc[r] = "attempting" /\ pc'[r] \in {"receipt", "uncertain"})
                           => gate[r]]_vars
  BY DEF IInv, RunState
<1> QED
  BY <1>1, Invariant, PTL DEF Spec, TakeoverIsRespected

(* What main reserved stays reserved for the same holder.                   *)
THEOREM ReservationsArePermanent == Spec => ReservationIsPermanent
<1>1. ASSUME IInv, [Next]_vars
      PROVE  \A c \in Cand : main.intents[c] # NoIntent =>
               /\ main'.intents[c] # NoIntent
               /\ main'.intents[c].run_id = main.intents[c].run_id
  <2>1. Extends(main, main')
    <3>1. ASSUME NEW r \in Run, RunStep(r) PROVE Extends(main, main')
      BY <1>1, <3>1, RunShape, MainGrows DEF IInv
    <3>2. CASE OperatorStep \/ ConfigChanges
      BY <1>1, <3>2, OthersShape DEF IInv
    <3>3. CASE UNCHANGED vars
      BY <3>3, SameHolders DEF vars
    <3> QED
      BY <1>1, <3>1, <3>2, <3>3 DEF Next
  <2> SUFFICES ASSUME NEW c \in Cand, Reserved(main, c)
               PROVE  /\ Reserved(main', c)
                      /\ main'.intents[c].run_id = main.intents[c].run_id
    BY DEF Reserved
  <2>2. PICK h \in Run \cup {Operator} : HeldBy(main, c, h)
    BY <1>1, OneHolder DEF IInv, TypeOK
  <2>3. HeldBy(main', c, h)
    BY <2>1, <2>2 DEF Extends
  <2> QED
    BY <2>2, <2>3 DEF HeldBy
<1>2. IInv /\ [Next]_vars =>
        [\A c \in Cand : main.intents[c] # NoIntent =>
               /\ main'.intents[c] # NoIntent
               /\ main'.intents[c].run_id = main.intents[c].run_id]_vars
  BY <1>1
<1> QED
  BY <1>2, Invariant, PTL DEF Spec, ReservationIsPermanent
-----------------------------------------------------------------------------
(* The runtime implements the submission ledger.                            *)

(* A tree with the reservations of another one has its holders.             *)
LEMMA NoNewHolder ==
  ASSUME NEW t \in Tree, NEW u \in Tree, NEW h, Extends(t, u), AddsOnlyOf(t, u, h),
         Fresh(t, u) = {}
  PROVE  HoldersOf(u) = HoldersOf(t)
<1> SUFFICES ASSUME NEW c \in Cand PROVE HoldersOf(u)[c] = HoldersOf(t)[c]
  BY DEF HoldersOf
<1>1. CASE Reserved(t, c)
  <2>1. PICK g \in Run \cup {Operator} : HeldBy(t, c, g)
    BY <1>1, OneHolder
  <2>2. HeldBy(u, c, g)
    BY <2>1 DEF Extends
  <2> QED
    BY <2>1, <2>2 DEF HoldersOf, HeldBy, Reserved
<1>2. CASE ~Reserved(t, c)
  <2>1. ~Reserved(u, c)
    BY <1>2 DEF Fresh
  <2> QED
    BY <1>2, <2>1 DEF HoldersOf, Reserved
<1> QED
  BY <1>1, <1>2

(* A tree with one reservation more is the ledger after that reservation.   *)
LEMMA OneNewHolder ==
  ASSUME NEW t \in Tree, NEW u \in Tree, NEW h, Extends(t, u), AddsOnlyOf(t, u, h),
         NEW d \in Cand, Fresh(t, u) = {d}
  PROVE  /\ HoldersOf(t)[d] = {}
         /\ HoldersOf(u) = [HoldersOf(t) EXCEPT ![d] = {h}]
<1>1. ASSUME NEW c \in Cand, c # d PROVE HoldersOf(u)[c] = HoldersOf(t)[c]
  <2>1. CASE Reserved(t, c)
    <3>1. PICK g \in Run \cup {Operator} : HeldBy(t, c, g)
      BY <2>1, OneHolder
    <3>2. HeldBy(u, c, g)
      BY <3>1 DEF Extends
    <3> QED
      BY <3>1, <3>2 DEF HoldersOf, HeldBy, Reserved
  <2>2. CASE ~Reserved(t, c)
    <3>1. ~Reserved(u, c)
      BY <1>1, <2>2 DEF Fresh
    <3> QED
      BY <2>2, <3>1 DEF HoldersOf, Reserved
  <2> QED
    BY <2>1, <2>2
<1>2. Reserved(u, d) /\ ~Reserved(t, d)
  BY DEF Fresh
<1>3. HoldersOf(t)[d] = {} /\ HoldersOf(u)[d] = {h}
  <2>1. PICK g \in Run \cup {Operator} : HeldBy(u, d, g)
    BY <1>2, OneHolder
  <2>2. g = h
    BY <1>2, <2>1 DEF AddsOnlyOf, HeldBy
  <2> QED
    BY <1>2, <2>1, <2>2 DEF HoldersOf, HeldBy, Reserved
<1>4. /\ HoldersOf(t) = [c \in Cand |-> HoldersOf(t)[c]]
      /\ HoldersOf(u) = [c \in Cand |-> HoldersOf(u)[c]]
  BY DEF HoldersOf
<1> HIDE DEF HoldersOf
<1> QED
  BY <1>1, <1>3, <1>4

(* A landed push is a reservation, a record, or nothing in the ledger.      *)
LEMMA LandingRefines ==
  ASSUME IInv, NEW r \in Run, Lands(r), attempts' = attempts
  PROVE  [Ledger!Next]_(Ledger!vars)
<1> USE DEF TypeOK
<1>t. disk[r] \in Tree /\ main \in Tree /\ main = base[r] /\ main' = disk[r]
  BY DEF IInv, Lands
<1>1. /\ Extends(main, main') /\ AddsOnlyOf(main, main', r)
      /\ main.receipts \subseteq main'.receipts /\ main'.receipts \subseteq pulls
      /\ AddsOne(main, main')
  BY <1>t DEF IInv, Lineage, Evidence, TreeEvidence, Additions
<1>2. CASE Fresh(main, main') = {}
  <2>1. HoldersOf(main') = HoldersOf(main)
    BY <1>t, <1>1, <1>2, NoNewHolder
  <2>2. CASE main'.receipts = main.receipts
    BY <2>1, <2>2 DEF Ledger!vars
  <2>3. CASE main'.receipts # main.receipts
    <3>1. PICK c : c \in main'.receipts \ main.receipts
      BY <1>1, <2>3
    <3>2. main'.receipts = main.receipts \cup {c}
      BY <1>1, <3>1 DEF AddsOne, OneAtMost
    <3>3. c \in Cand /\ attempts[c] = 1
      <4>1. c \in pulls /\ c \in Cand
        BY <1>1, <3>1 DEF IInv
      <4>2. attempts[c] \in Nat /\ attempts[c] > 0 /\ attempts[c] <= 1
        BY <4>1 DEF IInv, Additions, Ownership
      <4> QED
        BY <4>1, <4>2
    <3>4. Ledger!Record(c)
      BY <2>1, <3>2, <3>3 DEF Ledger!Record
    <3> QED
      BY <3>3, <3>4 DEF Ledger!Next
  <2> QED
    BY <2>2, <2>3
<1>3. CASE Fresh(main, main') # {}
  <2>1. PICK d : d \in Fresh(main, main')
    BY <1>3
  <2>2. d \in Cand /\ Fresh(main, main') = {d}
    <3>1. d \in Cand
      BY <2>1 DEF Fresh
    <3> QED
      BY <1>1, <2>1, <3>1 DEF AddsOne, OneAtMost
  <2>3. main'.receipts = main.receipts
    BY <1>1, <1>3 DEF AddsOne
  <2>4. /\ HoldersOf(main)[d] = {}
        /\ HoldersOf(main') = [HoldersOf(main) EXCEPT ![d] = {r}]
    BY <1>t, <1>1, <2>2, OneNewHolder
  <2>5. Ledger!Reserve(d, r)
    BY <2>3, <2>4 DEF Ledger!Reserve
  <2> QED
    BY <2>2, <2>5 DEF Ledger!Next
<1> QED
  BY <1>2, <1>3

(* A started submission is the ledger's attempt of a reserved candidate.    *)
LEMMA AttemptRefines ==
  ASSUME IInv, NEW c \in Cand, NEW h, HeldBy(main, c, h), attempts[c] = 0,
         main' = main, attempts' = [attempts EXCEPT ![c] = @ + 1]
  PROVE  [Ledger!Next]_(Ledger!vars)
<1>1. HoldersOf(main)[c] # {} /\ HoldersOf(main') = HoldersOf(main)
  BY DEF HoldersOf, HeldBy, Reserved
<1>2. attempts' = [attempts EXCEPT ![c] = 1]
  BY DEF IInv, TypeOK
<1>3. Ledger!Attempt(c)
  BY <1>1, <1>2 DEF Ledger!Attempt
<1> QED
  BY <1>3 DEF Ledger!Next

(* A step of a run is a step of the ledger.                                 *)
LEMMA RunRefines ==
  ASSUME IInv, NEW r \in Run, RunStep(r)
  PROVE  [Ledger!Next]_(Ledger!vars)
<1>1. CASE SubmitPatch(r)
  <2> DEFINE c == Target(r)
  <2>1. /\ c \in Cand /\ main' = main /\ attempts' = [attempts EXCEPT ![c] = @ + 1]
        /\ pc[r] = "attempting"
    BY <1>1 DEF SubmitPatch, git, IInv, HasPackage, InFlight, Target, Package
  <2>2. HeldBy(main, c, r)
    BY <2>1 DEF IInv, RunState, InFlight, Lineage, Extends
  <2>3. attempts[c] = 0
    BY <2>1, <2>2 DEF IInv, Ownership, Unsent
  <2> HIDE DEF c
  <2> QED
    BY <2>1, <2>2, <2>3, AttemptRefines
<1>2. CASE attempts' = attempts
  <2>1. Shape(r)
    BY RunShape DEF IInv
  <2>2. CASE main' = main
    BY <1>2, <2>2 DEF Ledger!vars, HoldersOf
  <2>3. CASE Lands(r)
    BY <1>2, <2>3, LandingRefines
  <2> QED
    BY <2>1, <2>2, <2>3 DEF Shape, LocalStep, CloneStep, PushStep, LastStep
<1> QED
  BY <1>1, <1>2, OnlySubmitAttempts

(* A step of the operator is a step of the ledger.                          *)
LEMMA OperatorRefines ==
  ASSUME IInv, OperatorStep
  PROVE  [Ledger!Next]_(Ledger!vars)
<1> DEFINE c == op.package.candidate
<1>t. main \in Tree
  BY DEF IInv, TypeOK
<1>1. CASE OperatorPins \/ OperatorLeaves
  BY <1>1 DEF OperatorPins, OperatorLeaves, Ledger!vars, HoldersOf
<1>2. CASE OperatorReserves
  <2>1. /\ c \in Cand /\ ~Reserved(main, c) /\ attempts' = attempts
        /\ main' = [main EXCEPT !.intents[c] =
                       [status |-> "operator_reserved", run_id |-> Operator]]
    BY <1>2 DEF OperatorReserves, OperatorMoves, IInv, HasPackage, Package, Reserved
  <2> HIDE DEF c
  <2>2. /\ main'.receipts = main.receipts
        /\ main'.intents[c] = [status |-> "operator_reserved", run_id |-> Operator]
        /\ \A d \in Cand : d # c => main'.intents[d] = main.intents[d]
    BY <1>t, <2>1 DEF Tree
  <2>3. Extends(main, main') /\ AddsOnlyOf(main, main', Operator) /\ main' \in Tree
    <3>1. TypeOK'
      BY TypeNext DEF IInv, Next
    <3> QED
      BY <3>1, OthersShape DEF IInv, TypeOK
  <2>4. /\ HoldersOf(main)[c] = {}
        /\ HoldersOf(main') = [HoldersOf(main) EXCEPT ![c] = {Operator}]
    <3>1. Fresh(main, main') = {c}
      BY <2>1, <2>2 DEF Fresh, Reserved, NoIntent
    <3>2. c \in Cand
      BY <2>1
    <3> QED
      BY <1>t, <2>3, <3>1, <3>2, OneNewHolder
  <2>5. Ledger!Reserve(c, Operator)
    BY <2>1, <2>2, <2>3, <2>4 DEF Ledger!Reserve
  <2> QED
    BY <2>1, <2>5 DEF Ledger!Next
<1>3. CASE OperatorSubmits
  <2>1. /\ c \in Cand /\ HeldBy(main, c, Operator) /\ attempts[c] = 0
        /\ main' = main /\ attempts' = [attempts EXCEPT ![c] = @ + 1]
    BY <1>3 DEF OperatorSubmits, OperatorMoves, IInv, HasPackage, Package, OperatorState
  <2> HIDE DEF c
  <2> QED
    BY <2>1, AttemptRefines
<1>4. CASE OperatorRecords
  <2>1. /\ c \in Cand /\ c \in pulls /\ attempts' = attempts
        /\ HeldBy(main, c, Operator)
    BY <1>4 DEF OperatorRecords, IInv, HasPackage, Package, OperatorState
  <2>2. CASE main' = [main EXCEPT !.receipts = @ \cup {c}]
    <3>1. main'.receipts = main.receipts \cup {c} /\ main'.intents = main.intents
      BY <1>t, <2>2 DEF Tree
    <3>2. attempts[c] = 1
      <4>1. attempts[c] \in Nat /\ attempts[c] > 0 /\ attempts[c] <= 1
        BY <2>1 DEF IInv, TypeOK, Additions, Ownership
      <4> QED
        BY <4>1
    <3>3. Ledger!Record(c)
      BY <2>1, <3>1, <3>2 DEF Ledger!Record, HoldersOf
    <3> QED
      BY <2>1, <3>3 DEF Ledger!Next
  <2>3. CASE main' = [main EXCEPT !.intents[c].status = "submitted"]
    <3> HIDE DEF c
    <3>1. /\ main'.receipts = main.receipts
          /\ main'.intents[c].run_id = main.intents[c].run_id
          /\ main'.intents[c].status = "submitted"
          /\ \A d \in Cand : d # c => main'.intents[d] = main.intents[d]
      BY <1>t, <2>1, <2>3 DEF Tree, Intent
    <3>2. HoldersOf(main') = HoldersOf(main)
      BY <2>1, <3>1 DEF HoldersOf, NoIntent, HeldBy, Reserved
    <3> QED
      BY <2>1, <3>1, <3>2 DEF Ledger!vars
  <2> QED
    BY <1>4, <2>2, <2>3 DEF OperatorRecords
<1> QED
  BY <1>1, <1>2, <1>3, <1>4 DEF OperatorStep

(* The runtime without a VM implements the submission ledger: each          *)
(* candidate is reserved once, attempted once by its holder, and recorded   *)
(* only after its attempt.                                                 *)
THEOREM ImplementsLedger == Spec => LedgerSpec
<1>1. Init => Ledger!Init
  BY DEF Init, Ledger!Init, HoldersOf, FirstTree
<1>2. IInv /\ [Next]_vars => [Ledger!Next]_(Ledger!vars)
  <2> SUFFICES ASSUME IInv, [Next]_vars PROVE [Ledger!Next]_(Ledger!vars)
    OBVIOUS
  <2>1. CASE ConfigChanges
    <3>1. main'.intents = main.intents /\ main'.receipts = main.receipts
      BY <2>1 DEF ConfigChanges, IInv, TypeOK, Tree
    <3> QED
      BY <2>1, <3>1 DEF ConfigChanges, Ledger!vars, HoldersOf
  <2>2. CASE UNCHANGED vars
    BY <2>2 DEF vars, Ledger!vars, HoldersOf
  <2> QED
    BY <2>1, <2>2, RunRefines, OperatorRefines DEF Next
<1> QED
  BY <1>1, <1>2, Invariant, PTL DEF Spec, LedgerSpec, Ledger!Spec
=============================================================================
