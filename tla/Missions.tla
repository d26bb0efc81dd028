------------------------------- MODULE Missions -------------------------------
(***************************************************************************)
(* Missions over the providers: orchestrate_mission() of atlas/orchestrator  *)
(* (approval gate, specialist, then one loop of validation, criticism and     *)
(* revision), run_mission() of atlas/missions, which stores the result, and    *)
(* the generative route of atlas/commands, which reports it.  The route /ask   *)
(* calls a model once, through the adaptive router.                            *)
(*                                                                           *)
(* A draft is a number: the i-th text written for the mission.                 *)
(***************************************************************************)
EXTENDS ProviderRuntime

CONSTANTS
  MaxRevisions,  \* ORCHESTRATOR_MAX_REVISIONS, 0..2
  MaxRequests    \* bound: requests served by all the threads

ASSUME RevisionsAssumption == MaxRevisions \in 0..2 /\ MaxRequests \in Nat

VARIABLES
  mission,  \* [Caller -> Mission]: the request of each thread
  served    \* requests so far

missionVars == <<mission, served>>
missions    == <<routing, mission, served>>

MissionPhases   == {"idle", "ask", "specialist", "validate", "critic", "revision",
                    "decided", "recorded"}
MissionStatuses == {"none", "completed", "failed_validation", "approval_required"}

Drafts == 0..MaxRevisions + 1

Mission ==
  [phase     : MissionPhases,
   draft     : Drafts,      \* the candidate; 0: nothing was generated
   author    : Provider,    \* of `response', which the result names
   written   : Provider,    \* history: who wrote the candidate
   valid     : Drafts,      \* history: the draft last found valid
   passed    : Drafts,      \* history: the draft the critic last passed
   revisions : 0..MaxRevisions,  \* revision_count, which is also `attempt'
   status    : MissionStatuses,
   command   : {"none", "completed", "failed"}]  \* of the CommandRecord

FreshMission ==
  [phase |-> "idle", draft |-> 0, author |-> Reasoner, written |-> Reasoner,
   valid |-> 0, passed |-> 0, revisions |-> 0,
   status |-> "none", command |-> "none"]

MissionInit ==
  /\ RoutingInit
  /\ mission = [c \in Caller |-> FreshMission]
  /\ served = 0

Becomes(c, m) == mission' = [mission EXCEPT ![c] = m]

(* A logical call of a model on behalf of a mission.                         *)
Generate(c, m) == Begin(c) /\ Becomes(c, m)

ModelAnswered(c, phase) == mission[c].phase = phase /\ stage[c] = "answered"

Leave(c) ==
  /\ stage' = [stage EXCEPT ![c] = "out"]
  /\ at' = [at EXCEPT ![c] = 1]

(* The request is over; of its mission only the report is left.              *)
Ends(c, report) ==
  Becomes(c, [FreshMission EXCEPT !.status = mission[c].status, !.command = report])

-------------------------------------------------------------------------------
(* POST /ask: one prompt, easy or hard.                                      *)

Ask(c) ==
  /\ mission[c].phase = "idle" /\ served < MaxRequests
  /\ served' = served + 1
  /\ Becomes(c, [FreshMission EXCEPT !.phase = "ask"])
  /\ Begin(c) \/ BeginDirect(c)
  /\ UNCHANGED <<providers, now, clock>>

AskEnds(c) ==
  /\ mission[c].phase = "ask" /\ stage[c] \in {"answered", "raised"}
  /\ Ends(c, "none")
  /\ Leave(c)
  /\ UNCHANGED <<providers, now, clock, served>>

(* An objective of high risk is answered without a model.                    *)
Gate(c) ==
  /\ mission[c].phase = "idle" /\ served < MaxRequests
  /\ served' = served + 1
  /\ Becomes(c, [FreshMission EXCEPT !.phase = "decided", !.status = "approval_required"])
  /\ UNCHANGED routing

Specialist(c) ==
  /\ mission[c].phase = "idle" /\ served < MaxRequests
  /\ served' = served + 1
  /\ Generate(c, [FreshMission EXCEPT !.phase = "specialist"])
  /\ UNCHANGED <<providers, now, clock>>

Drafted(c) ==
  /\ ModelAnswered(c, "specialist")
  /\ Becomes(c, [mission[c] EXCEPT !.phase = "validate", !.draft = 1,
                   !.author = Answering(c), !.written = Answering(c)])
  /\ Leave(c)
  /\ UNCHANGED <<providers, now, clock, served>>

(* Errors, or no pass, in this round of the loop.                            *)
Rejected(c, m) ==
  IF m.revisions = MaxRevisions
    THEN /\ Becomes(c, [m EXCEPT !.phase = "decided", !.status = "failed_validation"])
         /\ Leave(c)
    ELSE Generate(c, [m EXCEPT !.phase = "revision"])

(* validate_output_contract(): the critic sees valid drafts only.            *)
Validate(c) ==
  /\ mission[c].phase = "validate"
  /\ \/ Generate(c, [mission[c] EXCEPT !.phase = "critic",
                       !.valid = mission[c].draft])
     \/ Rejected(c, mission[c])
  /\ UNCHANGED <<providers, now, clock, served>>

(* Mutant: the accepted text is polished once more, without a review.        *)
CriticisedThenPolished(c) ==
  /\ ModelAnswered(c, "critic")
  /\ \/ /\ Becomes(c, [mission[c] EXCEPT !.phase = "decided", !.status = "completed",
                         !.passed = mission[c].draft, !.draft = @ + 1])
        /\ Leave(c)
     \/ Rejected(c, mission[c])
  /\ UNCHANGED <<providers, now, clock, served>>

Criticised(c) ==
  /\ ModelAnswered(c, "critic")
  /\ \/ /\ Becomes(c, [mission[c] EXCEPT !.phase = "decided", !.status = "completed",
                         !.passed = mission[c].draft])
        /\ Leave(c)
     \/ Rejected(c, mission[c])
  /\ UNCHANGED <<providers, now, clock, served>>

Revised(c) ==
  /\ ModelAnswered(c, "revision")
  /\ Becomes(c, [mission[c] EXCEPT !.phase = "validate", !.draft = @ + 1,
                   !.revisions = @ + 1,
                   !.author = Answering(c), !.written = Answering(c)])
  /\ Leave(c)
  /\ UNCHANGED <<providers, now, clock, served>>

(* The exception of complete() ends the mission; nothing is stored.          *)
ModelFails(c) ==
  /\ mission[c].phase \in {"specialist", "critic", "revision"}
  /\ stage[c] = "raised"
  /\ Ends(c, "failed")
  /\ Leave(c)
  /\ UNCHANGED <<providers, now, clock, served>>

-------------------------------------------------------------------------------
(* run_mission(): experience first, then the record; an error of the memory   *)
(* store other than the three that are caught ends the mission too.           *)

RecordExperience(c) ==
  /\ mission[c].phase = "decided"
  /\ Becomes(c, [mission[c] EXCEPT !.phase = "recorded"])
  /\ UNCHANGED <<routing, served>>

SaveMission(c) ==
  /\ mission[c].phase = "recorded"
  /\ Ends(c, "completed")
  /\ UNCHANGED <<routing, served>>

StoreRaises(c) ==
  /\ mission[c].phase \in {"decided", "recorded"}
  /\ Ends(c, "failed")
  /\ UNCHANGED <<routing, served>>

MissionStep(c) ==
  \/ AskEnds(c) \/ Drafted(c) \/ Validate(c) \/ Criticised(c) \/ Revised(c)
  \/ ModelFails(c) \/ RecordExperience(c) \/ SaveMission(c) \/ StoreRaises(c)

Progress(c) ==
  \/ RoutingStep(c) /\ UNCHANGED missionVars
  \/ MissionStep(c)

MissionNext ==
  \/ \E c \in Caller : Progress(c) \/ Ask(c) \/ Gate(c) \/ Specialist(c)
  \/ Tick /\ UNCHANGED missionVars

MissionSpec == MissionInit /\ [][MissionNext]_missions

-------------------------------------------------------------------------------
(* Types of the providers' table and of the missions.                         *)
MissionTypeOK ==
  /\ RoutingTypeOK
  /\ mission \in [Caller -> Mission]
  /\ served \in 0..MaxRequests

(* What a mission returns as completed is the very text that was found valid  *)
(* and that the critic passed, under the name of the model that wrote it.     *)
AcceptedIsReviewed ==
  \A c \in Caller :
    LET m == mission[c] IN
    m.status = "completed" /\ m.phase # "idle" =>
      m.draft > 0 /\ m.valid = m.draft /\ m.passed = m.draft /\ m.author = m.written
===============================================================================
