------------------------------ MODULE ActionQueue ------------------------------
(***************************************************************************)
(* Approved GitHub actions in the Firestore queue: the chat approves and    *)
(* stops them (atlas/autonomous_action_bridge.py, atlas/louis_chat_v8.py),  *)
(* runs of scripts/autonomous_action_executor.py claim and plan them.       *)
(*                                                                         *)
(* Chat requests are threads of one server.  Runs of the workflow follow     *)
(* one another (serial) unless a second runner is started by hand.          *)
(***************************************************************************)
EXTENDS Naturals, FiniteSets

CONSTANTS
  Action,     \* ids of queued actions (uuid4, one per approval)
  Stop,       \* stop messages
  Run,        \* runs of the executor
  Nothing,    \* no action
  MaxCrashes  \* bound: lost runs and lost chat threads

ASSUME NothingAssumption == Nothing \notin Action
ASSUME CrashesAssumption == MaxCrashes \in Nat

Statuses  == {"none", "approved_ready", "planning_claimed", "cancelled",
              "policy_rejected", "implementation_planning", "retryable_error"}
(* completed, failed and external_submitted are terminal too; nothing in     *)
(* the repository sets them.                                                *)
Terminal  == {"cancelled"}
InHand    == {"claiming", "claimed", "fetched", "checked", "dossier", "planned"}
RunPC     == {"new", "looping"} \cup InHand
StopPC    == {"new", "cancelling", "done"}

VARIABLES
  status,   \* [Action -> Statuses]: louis_action_queue
  dossiers, \* the actions with a document in louis_execution_dossiers
  runtime,  \* louis_runtime/current: the active action and its status
  shown,    \* the approvals whose thread has updated louis_runtime
  stop,     \* [Stop -> [pc, todo, done]]: cancel_active_actions
  run,      \* [Run -> [pc, listed, action]]: process_once
  told,     \* history: actions whose cancellation was confirmed to the user
  serial,   \* the workflow's concurrency group keeps the runs apart
  early,    \* history: cancelled before the run's re-read of them
  spared,   \* history: cancelled before any claim of them
  claims,   \* history: [Action -> Nat], successful claims
  crashes

queueing == <<status, dossiers, runtime, shown, stop, run, told, serial, early, spared, claims, crashes>>

Inactive == [active |-> Nothing, status |-> "cancelled"]

QueueInit ==
  /\ status = [a \in Action |-> "none"]
  /\ dossiers = {}
  /\ runtime = Inactive
  /\ shown = {}
  /\ stop = [s \in Stop |-> [pc |-> "new", todo |-> {}, done |-> {}]]
  /\ run = [r \in Run |-> [pc |-> "new", listed |-> {}, action |-> Nothing]]
  /\ told = {}
  /\ serial \in BOOLEAN
  /\ early = {} /\ spared = {}
  /\ claims = [a \in Action |-> 0]
  /\ crashes = 0

Set(a, s) == status' = [status EXCEPT ![a] = s]

-------------------------------------------------------------------------------
(* The chat.                                                                *)

(* queue_approved_action: the action, then the runtime document.             *)
Approve(a) ==
  /\ status[a] = "none"
  /\ Set(a, "approved_ready")
  /\ UNCHANGED <<dossiers, runtime, shown, stop, run, told, serial, early, spared, claims, crashes>>

ShowApproved(a) ==
  /\ status[a] # "none" /\ a \notin shown
  /\ shown' = shown \cup {a}
  /\ runtime' = [active |-> a, status |-> "approved_ready"]
  /\ UNCHANGED <<status, dossiers, stop, run, told, serial, early, spared, claims, crashes>>

(* cancel_active_actions: one query of the session, or of one action in it.  *)
StopQueries(s) ==
  /\ stop[s].pc = "new"
  /\ \E targets \in SUBSET {a \in Action : status[a] # "none"} :
       stop' = [stop EXCEPT ![s] =
         [pc |-> "cancelling", todo |-> {a \in targets : status[a] \notin Terminal},
          done |-> {}]]
  /\ UNCHANGED <<status, dossiers, runtime, shown, run, told, serial, early, spared, claims, crashes>>

PastReread(a) ==
  \E r \in Run : run[r].action = a /\ run[r].pc \in {"checked", "dossier", "planned"}

StopCancels(s, a) ==
  /\ stop[s].pc = "cancelling" /\ a \in stop[s].todo
  /\ Set(a, "cancelled")
  /\ stop' = [stop EXCEPT ![s].todo = @ \ {a}, ![s].done = @ \cup {a}]
  /\ early' = IF PastReread(a) \/ a \in dossiers THEN early ELSE early \cup {a}
  /\ spared' = IF claims[a] = 0 THEN spared \cup {a} ELSE spared
  /\ UNCHANGED <<dossiers, runtime, shown, run, told, serial, claims, crashes>>

StopConfirms(s) ==
  /\ stop[s].pc = "cancelling" /\ stop[s].todo = {}
  /\ stop' = [stop EXCEPT ![s].pc = "done"]
  /\ told' = told \cup stop[s].done
  /\ runtime' = IF stop[s].done = {} THEN runtime ELSE Inactive
  /\ UNCHANGED <<status, dossiers, shown, run, serial, early, spared, claims, crashes>>

-------------------------------------------------------------------------------
(* process_once(): one query, then one action after the other.              *)

Ended(r) == run[r].pc = "looping" /\ run[r].listed = {}

ListReady(r) ==
  /\ run[r].pc = "new"
  /\ serial => \A o \in Run \ {r} : run[o].pc = "new" \/ Ended(o)
  /\ run' = [run EXCEPT ![r].pc = "looping",
               ![r].listed = {a \in Action : status[a] = "approved_ready"}]
  /\ UNCHANGED <<status, dossiers, runtime, shown, stop, told, serial, early, spared, claims, crashes>>

NextAction(r, a) ==
  /\ run[r].pc = "looping" /\ a \in run[r].listed
  /\ run' = [run EXCEPT ![r] = [pc |-> "claiming", listed |-> @.listed \ {a}, action |-> a]]
  /\ UNCHANGED <<status, dossiers, runtime, shown, stop, told, serial, early, spared, claims, crashes>>

Reach(r, from, to) ==
  /\ run[r].pc = from
  /\ run' = [run EXCEPT ![r].pc = to, ![r].action = IF to = "looping" THEN Nothing ELSE @]

(* Mutant: the claim trusts the status the query returned.                   *)
ClaimListed(r) ==
  LET a == run[r].action
  IN /\ Reach(r, "claiming", "claimed")
     /\ Set(a, "planning_claimed")
     /\ claims' = [claims EXCEPT ![a] = @ + 1]
     /\ UNCHANGED <<dossiers, runtime, shown, stop, told, serial, early, spared, crashes>>

(* _claim_if_ready: read and write in one transaction.                       *)
ClaimIfReady(r) ==
  LET a == run[r].action
  IN /\ run[r].pc = "claiming"
     /\ \/ /\ status[a] = "approved_ready"
           /\ Reach(r, "claiming", "claimed")
           /\ Set(a, "planning_claimed")
           /\ claims' = [claims EXCEPT ![a] = @ + 1]
        \/ /\ status[a] # "approved_ready"
           /\ Reach(r, "claiming", "looping")
           /\ UNCHANGED <<status, claims>>
     /\ UNCHANGED <<dossiers, runtime, shown, stop, told, serial, early, spared, crashes>>

FetchIssue(r) ==
  /\ Reach(r, "claimed", "fetched")
  /\ UNCHANGED <<status, dossiers, runtime, shown, stop, told, serial, early, spared, claims, crashes>>

(* Mutant: the action is not read again after the fetch.                     *)
NoReread(r) ==
  /\ Reach(r, "fetched", "checked")
  /\ UNCHANGED <<status, dossiers, runtime, shown, stop, told, serial, early, spared, claims, crashes>>

Reread(r) ==
  /\ Reach(r, "fetched", IF status[run[r].action] = "cancelled" THEN "looping" ELSE "checked")
  /\ UNCHANGED <<status, dossiers, runtime, shown, stop, told, serial, early, spared, claims, crashes>>

RejectByPolicy(r) ==
  /\ Reach(r, "checked", "looping")
  /\ Set(run[r].action, "policy_rejected")
  /\ UNCHANGED <<dossiers, runtime, shown, stop, told, serial, early, spared, claims, crashes>>

SaveDossier(r) ==
  /\ Reach(r, "checked", "dossier")
  /\ dossiers' = dossiers \cup {run[r].action}
  /\ UNCHANGED <<status, runtime, shown, stop, told, serial, early, spared, claims, crashes>>

SavePlan(r) ==
  /\ Reach(r, "dossier", "planned")
  /\ Set(run[r].action, "implementation_planning")
  /\ UNCHANGED <<dossiers, runtime, shown, stop, told, serial, early, spared, claims, crashes>>

ShowPlan(r) ==
  /\ Reach(r, "planned", "looping")
  /\ runtime' = [active |-> run[r].action, status |-> "implementation_planning"]
  /\ UNCHANGED <<status, dossiers, shown, stop, told, serial, early, spared, claims, crashes>>

(* Mutant: the handler only reports the error.                               *)
RaisesUnrecorded(r) ==
  /\ run[r].pc \in InHand
  /\ run' = [run EXCEPT ![r].pc = "looping", ![r].action = Nothing]
  /\ UNCHANGED <<status, dossiers, runtime, shown, stop, told, serial, early, spared, claims, crashes>>

(* The except clause: whatever the status is by now, it is replaced.  A      *)
(* transaction that raises may have claimed the action or not.              *)
Raises(r) ==
  /\ run[r].pc \in InHand
  /\ Set(run[r].action, "retryable_error")
  /\ run' = [run EXCEPT ![r].pc = "looping", ![r].action = Nothing]
  /\ UNCHANGED <<dossiers, runtime, shown, stop, told, serial, early, spared, claims, crashes>>

RunLost(r) ==
  /\ run[r].pc # "new"
  /\ crashes < MaxCrashes /\ crashes' = crashes + 1
  /\ run' = [run EXCEPT ![r] = [pc |-> "looping", listed |-> {}, action |-> Nothing]]
  /\ UNCHANGED <<status, dossiers, runtime, shown, stop, told, serial, early, spared, claims>>

ChatLost(s) ==
  /\ stop[s].pc = "cancelling"
  /\ crashes < MaxCrashes /\ crashes' = crashes + 1
  /\ stop' = [stop EXCEPT ![s].pc = "done"]
  /\ UNCHANGED <<status, dossiers, runtime, shown, run, told, serial, early, spared, claims>>

-------------------------------------------------------------------------------
RunStep(r) ==
  \/ ListReady(r) \/ (\E a \in Action : NextAction(r, a)) \/ ClaimIfReady(r)
  \/ FetchIssue(r) \/ Reread(r) \/ RejectByPolicy(r) \/ SaveDossier(r)
  \/ SavePlan(r) \/ ShowPlan(r) \/ Raises(r)

QueueNext ==
  \/ \E a \in Action : Approve(a) \/ ShowApproved(a)
  \/ \E s \in Stop : \/ StopQueries(s) \/ (\E a \in Action : StopCancels(s, a))
                     \/ StopConfirms(s) \/ ChatLost(s)
  \/ \E r \in Run : RunStep(r) \/ RunLost(r)

QueueSpec == QueueInit /\ [][QueueNext]_queueing

-------------------------------------------------------------------------------
QueueTypeOK ==
  /\ status \in [Action -> Statuses]
  /\ dossiers \in SUBSET Action
  /\ runtime \in [active : Action \cup {Nothing},
                  status : {"approved_ready", "implementation_planning", "cancelled"}]
  /\ shown \in SUBSET Action
  /\ stop \in [Stop -> [pc : StopPC, todo : SUBSET Action, done : SUBSET Action]]
  /\ run \in [Run -> [pc : RunPC, listed : SUBSET Action, action : Action \cup {Nothing}]]
  /\ \A r \in Run : (run[r].action \in Action) <=> (run[r].pc \in InHand)
  /\ told \in SUBSET Action
  /\ serial \in BOOLEAN
  /\ early \in SUBSET Action /\ spared \in SUBSET Action
  /\ claims \in [Action -> Nat]
  /\ crashes \in 0..MaxCrashes

(* Two runs, or a run and a late query, never both plan an action, and an    *)
(* action the user stopped before its claim is not claimed.                 *)
ClaimedOnce == \A a \in Action : claims[a] <= IF a \in spared THEN 0 ELSE 1

(* A stop that lands before the run reads the action again prevents the      *)
(* dossier.  (An overlapping run whose claim raises replaces the cancelled   *)
(* status, and the first run goes on: hence the premise.)                   *)
EarlyStopPreventsDossier == serial => early \cap dossiers = {}

(* No run is lost: a claimed action is in the hands of the run that goes on to   *)
(* plan, reject or give it back, whatever raised or was stopped on the way; it    *)
(* never waits in planning_claimed, which no query lists.                        *)
ClaimIsHeld ==
  crashes = 0 =>
    \A a \in Action : status[a] = "planning_claimed" =>
      \E r \in Run : run[r].action = a /\ run[r].pc \in InHand \ {"claiming", "planned"}

(* "Arret confirme. Actions annulees" (atlas/louis_chat_v8.py): what the     *)
(* user was told is cancelled stays cancelled.                              *)
ConfirmedStopHolds == \A a \in told : status[a] = "cancelled"
===============================================================================
