--------------------------------- MODULE Cycles ---------------------------------
(***************************************************************************)
(* atlas/autonomous.py with autonomous_service.py, behind POST /autonomous/cycles, *)
(* and atlas/initiative_cycle.py: a cycle is named after what it observed, and is  *)
(* to be run once.  Callers work at the same time.  Scores, stages, learnt texts     *)
(* and times are left out; a cycle stands for the digest of its observations, of     *)
(* which the best opportunity is none, a safe one or one that needs approval.        *)
(***************************************************************************)
EXTENDS FiniteSets

CONSTANTS
  Asker,   \* callers
  Cycle,   \* cycle ids
  Finds,   \* [Cycle -> {"none", "safe", "unsafe"}]: the best opportunity observed
  NoRecord

ASSUME CyclesAssumption == Finds \in [Cycle -> {"none", "safe", "unsafe"}]

(* Autonomous cycles, initiatives in Firestore, and initiatives in a local file, which *)
(* the tests alone run.                                                           *)
Lane == {"autonomous", "initiative", "local"}

(* What a caller asks for: none of it is part of the cycle's name.                *)
Wish ==
  [cycle : Cycle,
   lane    : Lane,
   dry     : BOOLEAN,   \* dry_run
   flawed  : BOOLEAN,   \* regression_detected, or what the simulator answers
   granted : BOOLEAN,   \* approval_granted
   admits  : BOOLEAN]   \* the budget admits the opportunity

Outcome ==
  {"stopped", "approval_required", "simulated", "completed", "blocked", "validated",
   "rejected"}
Written == [status : Outcome, by : Asker]

VARIABLES
  cycles,  \* [Lane -> [Cycle -> Written]]: the documents
  asked    \* [Asker -> [at, wish, record]]

cycling == <<cycles, asked>>

Unasked == [at |-> "off", wish |-> NoRecord, record |-> NoRecord]

CyclesInit ==
  /\ cycles = [lane \in Lane |-> [y \in Cycle |-> NoRecord]]
  /\ asked = [a \in Asker |-> Unasked]

Stored(a) == cycles[asked[a].wish.lane][asked[a].wish.cycle]

Answer(a, record) == asked' = [asked EXCEPT ![a].at = "told", ![a].record = record]

(* Initiatives have neither a live mode nor approval.                             *)
Ask(a) ==
  /\ asked[a].at = "off"
  /\ \E wish \in Wish :
       /\ wish.lane # "autonomous" => wish.dry /\ ~wish.granted
       /\ asked' = [asked EXCEPT ![a].at = "look", ![a].wish = wish]
  /\ UNCHANGED cycles

(* run_cycle and run_dry_cycle return the record of a known cycle.                *)
LookUp(a) ==
  /\ asked[a].at = "look"
  /\ \/ Stored(a) # NoRecord /\ Answer(a, Stored(a))
     \/ Stored(a) = NoRecord /\ asked' = [asked EXCEPT ![a].at = "decide"]
  /\ UNCHANGED cycles

(* run_cycle: one opportunity at most, simulated unless the run is live; an unsafe  *)
(* one waits for approval.                                                        *)
Autonomous(wish) ==
  CASE Finds[wish.cycle] = "none" \/ ~wish.admits           -> "stopped"
    [] Finds[wish.cycle] = "unsafe" /\ wish.admits /\ ~wish.granted
                                                            -> "approval_required"
    [] OTHER -> IF wish.dry THEN "simulated"
                ELSE IF wish.flawed THEN "blocked" ELSE "completed"

(* run_dry_cycle: what needs approval is never selected.                          *)
Initiative(wish) ==
  CASE Finds[wish.cycle] = "unsafe" -> "approval_required"
    [] Finds[wish.cycle] = "none" \/ (Finds[wish.cycle] = "safe" /\ ~wish.admits)
                                    -> "stopped"
    [] OTHER -> IF wish.flawed THEN "rejected" ELSE "validated"

Decide(a) ==
  LET wish   == asked[a].wish
      status == IF wish.lane = "autonomous" THEN Autonomous(wish) ELSE Initiative(wish)
  IN
  /\ asked[a].at = "decide"
  /\ asked' = [asked EXCEPT ![a].at = "check", ![a].record = [status |-> status, by |-> a]]
  /\ UNCHANGED cycles

(* A planner without a plan, a simulator without evidence.                        *)
DecisionFails(a) ==
  /\ asked[a].at = "decide" /\ asked[a].wish.lane # "autonomous"
  /\ Finds[asked[a].wish.cycle] = "safe" /\ asked[a].wish.admits
  /\ Answer(a, NoRecord)
  /\ UNCHANGED cycles

(* save and append_once look once more: save leaves the document as it is, and the *)
(* caller is told its own record all the same; append_once tells the stored one.    *)
CheckAgain(a) ==
  /\ asked[a].at = "check"
  /\ \/ /\ Stored(a) # NoRecord
        /\ Answer(a, IF asked[a].wish.lane = "autonomous" THEN asked[a].record ELSE Stored(a))
     \/ /\ Stored(a) = NoRecord
        /\ asked' = [asked EXCEPT ![a].at = "write"]
  /\ UNCHANGED cycles

Write(a) ==
  cycles' = [cycles EXCEPT ![asked[a].wish.lane][asked[a].wish.cycle] = asked[a].record]

(* reference.set replaces the document; the local file's last line counts.        *)
Save(a) ==
  /\ asked[a].at = "write" /\ asked[a].wish.lane = "autonomous"
  /\ Write(a)
  /\ Answer(a, asked[a].record)

(* append_once on the local file: of two lines of a cycle the first counts, and both  *)
(* writers are told their own.                                                    *)
AppendOnce(a) ==
  /\ asked[a].at = "write" /\ asked[a].wish.lane = "local"
  /\ IF Stored(a) = NoRecord THEN Write(a) ELSE UNCHANGED cycles
  /\ Answer(a, asked[a].record)

(* A mutant: the document is set, not created.                                     *)
CreateOver(a) ==
  /\ asked[a].at = "write" /\ asked[a].wish.lane = "initiative"
  /\ Write(a) /\ Answer(a, asked[a].record)

(* document.create: the loser of a race is told what the winner wrote; any other    *)
(* failure is the caller's.                                                       *)
Create(a) ==
  /\ asked[a].at = "write" /\ asked[a].wish.lane = "initiative"
  /\ \/ /\ Stored(a) = NoRecord
        /\ Write(a) /\ Answer(a, asked[a].record)
     \/ /\ Answer(a, Stored(a))
        /\ UNCHANGED cycles

CyclesNext ==
  \E a \in Asker :
    \/ Ask(a) \/ LookUp(a) \/ Decide(a) \/ DecisionFails(a)
    \/ CheckAgain(a) \/ Save(a) \/ AppendOnce(a) \/ Create(a)

CyclesSpec == CyclesInit /\ [][CyclesNext]_cycling

-------------------------------------------------------------------------------
CyclesTypeOK ==
  /\ cycles \in [Lane -> [Cycle -> Written \cup {NoRecord}]]
  /\ asked \in [Asker -> [at : {"off", "look", "decide", "check", "write", "told"},
                          wish : Wish \cup {NoRecord}, record : Written \cup {NoRecord}]]

(* Whoever was told the outcome of an initiative was told the one that is stored in   *)
(* Firestore, however many callers ran it at the same time.  The local file does not    *)
(* promise it: the loser of a race is told its own.                                *)
AnswerIsStored ==
  \A a \in Asker :
    asked[a].at = "told" /\ asked[a].wish.lane = "initiative" /\ asked[a].record # NoRecord
      => asked[a].record = Stored(a)
===============================================================================
