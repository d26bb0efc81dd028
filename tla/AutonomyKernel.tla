---------------------------- MODULE AutonomyKernel ----------------------------
(***************************************************************************)
(* atlas/autonomy_kernel.py and scripts/autonomy_cycle.py: the VM worker runs   *)
(* one cycle after the other, each a process that observes the market files,    *)
(* decides for one of four actions, runs it, measures its effect and writes      *)
(* three files.  The worker kills a cycle that takes too long, wherever it is,   *)
(* and the files are written in place.  What the actions do, and what other      *)
(* processes do to the market meanwhile, is any change of what is observed.      *)
(***************************************************************************)
EXTENDS Naturals, FiniteSets

CONSTANTS
  Observed,     \* what build_state can observe (subset of Observation)
  Cooldown,     \* MARKET_REFRESH_COOLDOWN_CYCLES
  NoAction,
  MaxDecisions  \* bound: decisions taken

Action == {"execution_attempt", "market_refresh", "candidate_recovery", "quality_review"}

(* The counts are 0 or more; opportunities are none, below five, or more.      *)
Observation == [opportunities : {"none", "few", "many"}, candidates : BOOLEAN,
                executable : BOOLEAN, prepare : BOOLEAN,
                recommendation : {"execute_now", "prepare_then_gate", "other"}]

ASSUME KernelAssumption ==
  /\ Observed \subseteq Observation /\ Observed # {}
  /\ NoAction \notin Action /\ Cooldown \in Nat \ {0} /\ MaxDecisions \in Nat

VARIABLES
  world,     \* Observation: the market files
  state,     \* [cycle : Nat]: autonomy_state.json
  last,      \* [action, effect]: autonomy_last_decision.json
  refreshed, \* autonomy_learning.json: cycle of the last learned market_refresh
  cycle,     \* [pc, action, number, before, effect]: the process under way
  decisions, \* decisions taken
  waited,    \* history: decisions since market_refresh was last tried
  excused,   \* history: those of them that had an effect or were killed
  torn       \* history: a file was cut off while it was written

kernel == <<world, state, last, refreshed, cycle, decisions, waited, excused, torn>>

NoCycle == [pc |-> "idle", action |-> NoAction, number |-> 0, before |-> NoAction, effect |-> FALSE]

KernelInit ==
  /\ world \in Observed
  /\ state = 0 /\ last = [action |-> NoAction, effect |-> FALSE] /\ refreshed = NoAction
  /\ cycle = NoCycle
  /\ decisions = 0 /\ waited = 0 /\ excused = 0 /\ torn = FALSE

-------------------------------------------------------------------------------
(* _candidate_actions                                                        *)

Due(number) ==
  refreshed = NoAction \/ (number >= refreshed /\ number - refreshed >= Cooldown)

Available(obs) ==
  {a \in Action :
     CASE a = "execution_attempt"  -> obs.executable \/ obs.recommendation = "execute_now"
       [] a = "market_refresh"     -> TRUE
       [] a = "candidate_recovery" -> ~obs.candidates \/ ~(obs.executable \/ obs.prepare)
       [] a = "quality_review"     -> obs.candidates /\ obs.recommendation = "other"}

(* Scores in hundredths.                                                     *)
RefreshScore(obs, number) ==
  IF Due(number) THEN 99
  ELSE (CASE obs.opportunities = "none" -> 92
          [] obs.opportunities = "few"  -> 78
          [] obs.opportunities = "many" -> 45) + (IF obs.candidates THEN 0 ELSE 6)

(* score * confidence - 0.15 * estimated_cost, in ten thousandths.           *)
Worth(a, obs, number) ==
  CASE a = "execution_attempt"  -> 98 * 82 - 450
    [] a = "market_refresh"     -> RefreshScore(obs, number) * 78 - 180
    [] a = "candidate_recovery" -> (IF obs.candidates THEN 69 ELSE 88) * 74 - 150
    [] a = "quality_review"     -> 73 * 72 - 330

(* Mutant: an action that had no effect is not demoted.                      *)
UtilityUndemoted(a, obs, number) == Worth(a, obs, number)

(* An action repeated without a measured effect is demoted by 0.22.          *)
Utility(a, obs, number) ==
  LET worth == Worth(a, obs, number)
  IN IF a = last.action /\ ~last.effect THEN worth - 2200 ELSE worth

(* choose_next_action                                                        *)
Chosen(obs, number) ==
  CHOOSE a \in Available(obs) :
    \A b \in Available(obs) : Utility(b, obs, number) <= Utility(a, obs, number)

-------------------------------------------------------------------------------
(* main() of autonomy_cycle.py                                               *)

(* Observe, decide and note the decision as running.                         *)
TakeDecision ==
  /\ cycle.pc = "idle" /\ decisions < MaxDecisions
  /\ LET number == state + 1
         action == Chosen(world, number)
     IN /\ cycle' = [pc |-> "running", action |-> action, number |-> number,
                     before |-> world, effect |-> FALSE]
        /\ last' = [action |-> action, effect |-> FALSE]
        /\ waited'  = IF action = "market_refresh" THEN 0 ELSE waited + 1
        /\ excused' = IF action = "market_refresh" THEN 0 ELSE excused
  /\ decisions' = decisions + 1
  /\ UNCHANGED <<world, state, refreshed, torn>>

Counts(obs) == <<obs.opportunities, obs.candidates, obs.executable>>

(* The action has ended, completed, failed or blocked; its effect is measured:   *)
(* submissions and revenue, which nothing here depends on, may have changed too. *)
Measure ==
  /\ cycle.pc = "running"
  /\ \E effect \in BOOLEAN :
       /\ Counts(world) # Counts(cycle.before) => effect
       /\ cycle' = [cycle EXCEPT !.pc = "measured", !.before = NoAction, !.effect = effect]
  /\ UNCHANGED <<world, state, last, refreshed, decisions, waited, excused, torn>>

SaveLast ==
  /\ cycle.pc = "measured"
  /\ last' = [action |-> cycle.action, effect |-> cycle.effect]
  /\ cycle' = [cycle EXCEPT !.pc = "last"]
  /\ UNCHANGED <<world, state, refreshed, decisions, waited, excused, torn>>

SaveCycle ==
  /\ cycle.pc = "last"
  /\ state' = cycle.number
  /\ cycle' = [cycle EXCEPT !.pc = "state"]
  /\ UNCHANGED <<world, last, refreshed, decisions, waited, excused, torn>>

(* update_learning                                                           *)
Learn ==
  /\ cycle.pc = "state"
  /\ refreshed' = IF cycle.action = "market_refresh" THEN cycle.number ELSE refreshed
  /\ excused' = excused + (IF cycle.effect /\ cycle.action # "market_refresh" THEN 1 ELSE 0)
  /\ cycle' = NoCycle
  /\ UNCHANGED <<world, state, last, decisions, waited, torn>>

(* The worker's time limit, or the end of the container.                     *)
Killed ==
  /\ cycle.pc # "idle"
  /\ cycle' = NoCycle
  /\ excused' = excused + (IF cycle.action = "market_refresh" THEN 0 ELSE 1)
  /\ UNCHANGED <<world, state, last, refreshed, decisions, waited, torn>>

(* Killed while a file is written: what cannot be parsed is read as empty.   *)
KilledWriting ==
  /\ \/ cycle.pc = "measured" /\ last' = [action |-> NoAction, effect |-> FALSE]
        /\ UNCHANGED <<state, refreshed>>
     \/ cycle.pc = "last" /\ state' = 0 /\ UNCHANGED <<last, refreshed>>
     \/ cycle.pc = "state" /\ refreshed' = NoAction /\ UNCHANGED <<last, state>>
  /\ torn' = TRUE
  /\ cycle' = NoCycle
  /\ UNCHANGED <<world, decisions, waited, excused>>

WorldMoves ==
  /\ cycle.pc = "running"
  /\ world' \in Observed
  /\ UNCHANGED <<state, last, refreshed, cycle, decisions, waited, excused, torn>>

KernelNext ==
  \/ TakeDecision \/ Measure \/ SaveLast \/ SaveCycle \/ Learn
  \/ Killed \/ KilledWriting \/ WorldMoves

KernelSpec == KernelInit /\ [][KernelNext]_kernel

-------------------------------------------------------------------------------
KernelTypeOK ==
  /\ world \in Observed /\ state \in 0..MaxDecisions
  /\ last \in [action : Action \cup {NoAction}, effect : BOOLEAN]
  /\ refreshed \in 0..MaxDecisions \cup {NoAction}
  /\ cycle \in [pc : {"idle", "running", "measured", "last", "state"},
                action : Action \cup {NoAction}, number : 0..MaxDecisions,
                before : Observed \cup {NoAction}, effect : BOOLEAN]
  /\ decisions \in 0..MaxDecisions /\ waited \in 0..decisions /\ excused \in 0..decisions
  /\ torn \in BOOLEAN

(* However the market moves and cycles are killed, the refresh of the market is   *)
(* tried again after its cooldown and at most two more decisions, not counting     *)
(* those that had a measured effect or were killed; unless a file was torn.        *)
RefreshIsNotStarved == torn \/ waited <= Cooldown + 1 + excused
===============================================================================
