-------------------------------- MODULE MCLanes --------------------------------
(* TLC instances of the lanes that share no variable: `focus' picks the one a      *)
(* behaviour is about, so that their states add up instead of multiplying.          *)
EXTENDS MissionBridge, MoltJobs, AutonomyKernel, Reconciliation, MarketPipeline,
        Missions, ExternalActions, TestedSubmission, TLC

CONSTANTS
  Focus,       \* the lanes looked at
  b1, s1, e1,  \* listings: a bounty, a simple mission, one of the expanded sources
  w1, w2,      \* wallets
  p1, p2,      \* providers
  c1, c2,      \* candidates of the scout, in issue 77
  k1, k2       \* tasks of the tested submission

VARIABLES focus

MCSource    == (b1 :> "bounty") @@ (s1 :> "simple") @@ (e1 :> "expanded")
MCAdapterOf == [l \in {s1} |-> CHOOSE a \in Adapter : TRUE]

(* One wallet holds something before the first probe.                             *)
MCHeld == (w1 :> 1) @@ (w2 :> 0)

(* Executable missions are candidates, and a market without opportunities has none *)
(* of either; the review recommends execution or nothing.                           *)
MCObserved ==
  {o \in Observation :
     /\ o.opportunities # "few" /\ o.prepare = o.candidates
     /\ o.opportunities = "none" => ~o.candidates
     /\ o.executable => o.candidates
     /\ o.recommendation = "execute_now" => o.executable
     /\ o.recommendation # "prepare_then_gate"}

(* The second provider has a call limit.                                          *)
MCProvider == {p1, p2}
MCOrder    == <<p1, p2>>
MCLimit    == [p \in MCProvider |-> IF p = p2 THEN 3 ELSE 0]

(* Two prepared actions for one candidate.                                         *)
MCCand     == {c1, c2}
MCCandOf   == [a \in 1..2 |-> c1]

(* The policy as it is, without proof of payment, stricter, and with the kill switch. *)
MCTask     == {k1, k2}
MCPolicies ==
  {[open |-> TRUE,  payment |-> TRUE,  rejected |-> {},   mode |-> "quick"],
   [open |-> TRUE,  payment |-> FALSE, rejected |-> {},   mode |-> "quick"],
   [open |-> TRUE,  payment |-> FALSE, rejected |-> {k1}, mode |-> "other"],
   [open |-> FALSE, payment |-> FALSE, rejected |-> {},   mode |-> "quick"]}

vars == <<bridge, molt, kernel, outcome, pipeline, missions, actionVars, submission, focus>>

Init ==
  /\ BridgeInit /\ MoltInit /\ KernelInit /\ OutcomeInit /\ MarketInit
  /\ MissionInit /\ ActionsInit /\ SubmissionInit
  /\ focus \in Focus
  /\ focus # "kernel" => world = CHOOSE o \in Observed : TRUE
  /\ focus # "market" => config.adapters = {CHOOSE a \in Adapter : TRUE}
  /\ focus # "tested" => policy = CHOOSE p \in Policies : TRUE

Next ==
  /\ UNCHANGED focus
  /\ \/ /\ focus = "bridge" /\ BridgeNext
        /\ UNCHANGED <<molt, kernel, outcome, pipeline, missions, actionVars, submission>>
     \/ /\ focus = "molt" /\ MoltNext
        /\ UNCHANGED <<bridge, kernel, outcome, pipeline, missions, actionVars, submission>>
     \/ /\ focus = "kernel" /\ KernelNext
        /\ UNCHANGED <<bridge, molt, outcome, pipeline, missions, actionVars, submission>>
     \/ /\ focus = "outcome" /\ OutcomeNext
        /\ UNCHANGED <<bridge, molt, kernel, pipeline, missions, actionVars, submission>>
     \/ /\ focus = "market" /\ MarketNext
        /\ UNCHANGED <<bridge, molt, kernel, outcome, missions, actionVars, submission>>
     \/ /\ focus = "missions" /\ MissionNext
        /\ UNCHANGED <<bridge, molt, kernel, outcome, pipeline, actionVars, submission>>
     \/ /\ focus = "actions" /\ ActionsNext
        /\ UNCHANGED <<bridge, molt, kernel, outcome, pipeline, missions, submission>>
     \/ /\ focus = "tested" /\ SubmissionNext
        /\ UNCHANGED <<bridge, molt, kernel, outcome, pipeline, missions, actionVars>>

Spec == Init /\ [][Next]_vars

(* Types of the variables of the lane in focus; the others rest.                   *)
TypeOK ==
  /\ focus = "bridge"  => BridgeTypeOK
  /\ focus = "molt"    => MoltTypeOK
  /\ focus = "kernel"  => KernelTypeOK
  /\ focus = "outcome" => OutcomeTypeOK
  /\ focus = "market"  => MarketTypeOK
  /\ focus = "missions" => MissionTypeOK
  /\ focus = "actions"  => ActionsTypeOK
  /\ focus = "tested"   => SubmissionTypeOK
===============================================================================
