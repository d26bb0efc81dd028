------------------------------- MODULE MCOffices -------------------------------
(* TLC instances of the services behind the HTTP server and of the pure chains     *)
(* between files, which share no variable: `focus' picks the one a behaviour is     *)
(* about, so that their states add up instead of multiplying.                       *)
EXTENDS ActionQueue, Deliverables, Cycles, MentorChat, Economics, TLC

CONSTANTS
  Focus,       \* the services looked at
  g1, g2,      \* candidates of the deliverable commands
  y1, y2, y3,  \* cycles
  v1, v2       \* missions with a budget

VARIABLES focus

(* The first candidate is in the economic window, and was written by an older scout. *)
MCWork    == {g1, g2}
MCPriced  == {g1}
MCRank    == (g1 :> 1) @@ (g2 :> 2)
MCScouted == {{}, {g2}, {g1, g2}}

MCFinds == (y1 :> "none") @@ (y2 :> "safe") @@ (y3 :> "unsafe")

(* Outcomes of a mission: an order whose probability was left at its default, one   *)
(* with hardly a margin, and a lead that costs more than it promises.              *)
MCOutcome(stage, revenue, cost, chance) ==
  [stage |-> stage, revenue |-> revenue, cost |-> cost, chance |-> chance]
MCKind ==
  {MCOutcome("quote", 200, 100, 50), MCOutcome("order", 200, 100, 0),
   MCOutcome("order", 200, 190, 100), MCOutcome("lost", 0, 0, 0), MCOutcome("lead", 0, 20, 50)}
MCFit == (v1 :> 1) @@ (v2 :> 2)

vars == <<queueing, deliverables, cycling, mentoring, economy, focus>>

Init ==
  /\ QueueInit /\ DeliverablesInit /\ CyclesInit /\ MentorInit /\ EconomicsInit
  /\ focus \in Focus
  /\ focus # "cash" => registry = Torn /\ earnings = NoEarnings
  /\ focus # "queue" => serial

Next ==
  /\ UNCHANGED focus
  /\ \/ /\ focus = "queue" /\ QueueNext
        /\ UNCHANGED <<deliverables, cycling, mentoring, economy>>
     \/ /\ focus = "cash" /\ DeliverablesNext
        /\ UNCHANGED <<queueing, cycling, mentoring, economy>>
     \/ /\ focus = "cycles" /\ CyclesNext
        /\ UNCHANGED <<queueing, deliverables, mentoring, economy>>
     \/ /\ focus = "mentor" /\ MentorNext
        /\ UNCHANGED <<queueing, deliverables, cycling, economy>>
     \/ /\ focus = "chat" /\ TalkNext
        /\ UNCHANGED <<queueing, deliverables, cycling, economy>>
     \/ /\ focus = "economy" /\ EconomicsNext
        /\ UNCHANGED <<queueing, deliverables, cycling, mentoring>>

Spec == Init /\ [][Next]_vars

(* Types of the variables of the service in focus; the others rest.                *)
TypeOK ==
  /\ focus = "queue"  => QueueTypeOK
  /\ focus = "cash"   => DeliverablesTypeOK
  /\ focus = "cycles" => CyclesTypeOK
  /\ focus \in {"mentor", "chat"} => MentorTypeOK
  /\ focus = "economy" => EconomicsTypeOK
===============================================================================
