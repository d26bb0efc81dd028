------------------------------- MODULE TaskForce -------------------------------
(* taskforce_cash_sniper.py on the VM: a timer starts it, and a workflow starts a     *)
(* second one over ssh, with another copy of the production policy but the same        *)
(* state file. A run reads the ids it has applied for, lists and ranks the active      *)
(* tasks, applies for the best ones and writes the state at its end.                   *)
(* A task is its id; Flaw names the first gate that refuses it. Notifications,         *)
(* earnings and the public report are read or written only.                            *)
EXTENDS Integers, FiniteSets, Sequences, SequencesExt

CONSTANTS
  Tasks,
  Flaw,        \* [Tasks -> what is wrong with it, "" if nothing]
  Score,       \* [Tasks -> execution_score, and within it the budget]
  MaxApplies,  \* MAX_APPLIES
  Stubborn,    \* tasks whose applications the platform refuses
  MaxRunsOf    \* bound: runs of each process

ASSUME SniperAssumption ==
  /\ "torn" \notin Tasks /\ IsFiniteSet(Tasks)
  /\ Score \in [Tasks -> Int] /\ MaxApplies \in Nat /\ MaxRunsOf \in Nat

VARIABLES
  active,    \* the tasks the platform lists as ACTIVE
  state,     \* cash_sniper_state.json: applied_task_ids, or Torn
  sniper,    \* process -> its run
  made,      \* task -> applications that the platform has taken
  excused,   \* history: tasks whose application could not be remembered
  starts     \* process -> runs so far

sniping == <<active, state, sniper, made, excused, starts>>

Processes == {"timer", "workflow"}
TornState == {"torn"}
Resting   == [at |-> "idle", applied |-> {}, ranked |-> <<>>, attempts |-> 0, mine |-> {}]

SniperInit ==
  /\ active = Tasks
  /\ state = {} /\ sniper = [p \in Processes |-> Resting]
  /\ made = [t \in Tasks |-> 0] /\ excused = {}
  /\ starts = [p \in Processes |-> 0]

(* base_qualified and evaluate_candidate.                                             *)
BaseRefuses   == {"budget_outside_gate", "test_or_demo_listing", "human_or_financial_dependency",
                  "effort_exceeds_three_hours", "category_not_validated", "expired_deadline",
                  "insufficient_scope_specificity"}
PolicyRefuses == {"blocked_term", "family_not_allowed", "reward_exceeds_cap"}
Qualified == {t \in active : Flaw[t] \notin BaseRefuses \cup PolicyRefuses}

(* The best first; equals stay in the order of the listing, which may be any.           *)
Rankings ==
  {order \in [1 .. Cardinality(Qualified) -> Qualified] :
     \A i, j \in DOMAIN order :
       i < j => order[i] # order[j] /\ Score[order[i]] >= Score[order[j]]}

Others(p)  == UNION {sniper[q].mine : q \in Processes \ {p}}
Overlaps(p) == \E q \in Processes \ {p} : sniper[q].at # "idle"

(* A file that cannot be parsed is an empty state.                                     *)
LoadedState == IF state = TornState THEN {} ELSE state

(* A run that its copy of the policy forbids ends before it reads anything.            *)
Start(p) ==
  /\ sniper[p].at = "idle" /\ starts[p] < MaxRunsOf
  /\ sniper' = [sniper EXCEPT ![p] = [Resting EXCEPT !.at = "list", !.applied = LoadedState]]
  /\ starts' = [starts EXCEPT ![p] = @ + 1]
  /\ excused' = excused \cup Others(p)
  /\ UNCHANGED <<active, state, made>>

List(p) ==
  /\ sniper[p].at = "list"
  /\ \/ \E order \in Rankings :
          sniper' = [sniper EXCEPT ![p].at = "apply", ![p].ranked = order]
     \/ sniper' = [sniper EXCEPT ![p] = Resting]       \* the market is unavailable
  /\ UNCHANGED <<active, state, made, excused, starts>>

RememberedIfOk(p, t, status) ==
  IF status = 200 THEN sniper[p].applied \cup {t} ELSE sniper[p].applied
Remembered(p, t, status) ==
  IF status \in {200, 201} THEN sniper[p].applied \cup {t} ELSE sniper[p].applied

Applies(t) == made' = [made EXCEPT ![t] = @ + 1]

(* One task of the ranking: an application counts as an attempt whatever the answer.    *)
ApplyNext(p) ==
  /\ sniper[p].at = "apply" /\ sniper[p].ranked # <<>> /\ sniper[p].attempts < MaxApplies
  /\ LET t    == Head(sniper[p].ranked)
         rest == Tail(sniper[p].ranked)
         ends(status) == sniper' = [sniper EXCEPT ![p].ranked = rest, ![p].attempts = @ + 1,
                                      ![p].applied = Remembered(p, t, status),
                                      ![p].mine = @ \cup {t}]
         also == IF Overlaps(p) THEN {t} ELSE {}
     IN \/ /\ t \in sniper[p].applied
           /\ sniper' = [sniper EXCEPT ![p].ranked = rest]
           /\ UNCHANGED <<made, excused>>
        \/ /\ t \notin sniper[p].applied /\ t \in active \ Stubborn
           /\ ends(201) /\ Applies(t)
           /\ excused' = excused \cup also
        \/ /\ t \notin sniper[p].applied /\ t \notin active \ Stubborn
           /\ ends(409)
           /\ UNCHANGED <<made, excused>>
        \/ /\ t \notin sniper[p].applied /\ t \in active \ Stubborn
           /\ ends(503) /\ Applies(t)                  \* taken, and answered with an error
           /\ excused' = excused \cup {t}
        \/ /\ t \notin sniper[p].applied               \* the answer is lost: the run dies
           /\ sniper' = [sniper EXCEPT ![p] = Resting]
           /\ excused' = excused \cup sniper[p].mine \cup {t}
           /\ IF t \in active \ Stubborn THEN Applies(t) ELSE UNCHANGED made
  /\ UNCHANGED <<active, state, starts>>

SaveState(p) ==
  /\ sniper[p].at = "apply"
  /\ sniper[p].ranked = <<>> \/ sniper[p].attempts >= MaxApplies
  /\ state' = sniper[p].applied
  /\ sniper' = [sniper EXCEPT ![p] = Resting]
  /\ UNCHANGED <<active, made, excused, starts>>

(* A timeout or the machine ends the run, before or while it writes the state.          *)
Killed(p) ==
  /\ sniper[p].at # "idle"
  /\ sniper' = [sniper EXCEPT ![p] = Resting]
  /\ \/ excused' = excused \cup sniper[p].mine /\ UNCHANGED state
     \/ sniper[p].at = "apply" /\ state' = TornState /\ excused' = Tasks
  /\ UNCHANGED <<active, made, starts>>

CloseTask ==
  /\ \E t \in active : active' = active \ {t}
  /\ UNCHANGED <<state, sniper, made, excused, starts>>

SniperNext ==
  \/ \E p \in Processes : Start(p) \/ List(p) \/ ApplyNext(p) \/ SaveState(p) \/ Killed(p)
  \/ CloseTask

SniperSpec == SniperInit /\ [][SniperNext]_sniping

SniperTypeOK ==
  /\ active \subseteq Tasks /\ excused \subseteq Tasks
  /\ state = TornState \/ state \subseteq Tasks
  /\ \A p \in Processes :
       /\ sniper[p].at \in {"idle", "list", "apply"}
       /\ sniper[p].applied \subseteq Tasks /\ sniper[p].mine \subseteq Tasks
       /\ sniper[p].ranked \in Seq(Tasks) /\ sniper[p].attempts \in 0 .. MaxApplies
  /\ made \in [Tasks -> 0 .. 2 * MaxRunsOf]
  /\ starts \in [Processes -> 0 .. MaxRunsOf]

(* The state file keeps a task from being applied for twice by runs that follow each     *)
(* other, of either process, unless the answer to the first application was an error or  *)
(* lost, its run did not end, the file was torn, or the two processes ran at once.        *)
KnownTaskIsNotAppliedAgain == \A t \in Tasks : made[t] > 1 => t \in excused
===============================================================================
