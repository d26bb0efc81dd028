----------------------------- MODULE OfficesProofs -----------------------------
(******************************************************************************)
(* Proofs about the services around the mission queue: the action queue and   *)
(* its chat, the deliverable commands, the cycle documents, the mentor chat,  *)
(* the allocation of budgets.                                                 *)
(******************************************************************************)
EXTENDS MCOffices, SequenceTheorems, SumTheorems, TLAPS

--------------------------------------------------------------------------------
(***************************************************************************)
(* Proofs about ActionQueue, for every set of actions, stop messages and    *)
(* runs, whatever raises and whoever is lost.                               *)
(***************************************************************************)

RunRecord  == [pc : RunPC, listed : SUBSET Action, action : Action \cup {Nothing}]
StopRecord == [pc : StopPC, todo : SUBSET Action, done : SUBSET Action]

(* What a step along a run, and a cancelled action, leave of the records.    *)
LEMMA ReachType ==
  ASSUME QueueTypeOK, NEW r \in Run, NEW from \in InHand, NEW to \in InHand \cup {"looping"},
         Reach(r, from, to)
  PROVE  /\ run' \in [Run -> RunRecord]
         /\ \A o \in Run : (run'[o].action \in Action) <=> (run'[o].pc \in InHand)
         /\ run[r].action \in Action
<1> DEFINE held == IF to = "looping" THEN Nothing ELSE run[r].action
           next == [[run[r] EXCEPT !.pc = to] EXCEPT !.action = held]
<1>1. run \in [Run -> RunRecord] /\ run[r] \in RunRecord
  BY DEF QueueTypeOK, RunRecord
<1>2. run[r].action \in Action
  BY DEF QueueTypeOK, Reach
<1>3. held \in Action \cup {Nothing} /\ (held \in Action <=> to \in InHand)
  BY <1>2, NothingAssumption DEF InHand
<1>4. next \in RunRecord /\ next.pc = to /\ next.action = held
  <2> HIDE DEF held
  <2> QED
    BY <1>1, <1>3 DEF RunPC, RunRecord
<1>5. run' = [run EXCEPT ![r] = next]
  <2>1. run' = [[run EXCEPT ![r] = [run[r] EXCEPT !.pc = to]] EXCEPT ![r] = next]
    BY <1>1 DEF Reach
  <2> HIDE DEF next
  <2> QED
    BY <2>1, <1>1
<1> QED
  BY <1>1, <1>2, <1>3, <1>4, <1>5 DEF QueueTypeOK

LEMMA StopCancelsType ==
  ASSUME QueueTypeOK, NEW s \in Stop, NEW a \in Action, StopCancels(s, a)
  PROVE  stop' \in [Stop -> StopRecord]
<1> DEFINE next == [[stop[s] EXCEPT !.todo = @ \ {a}] EXCEPT !.done = stop[s].done \cup {a}]
<1>1. stop \in [Stop -> StopRecord] /\ stop[s] \in StopRecord
  BY DEF QueueTypeOK, StopRecord
<1>2. next \in StopRecord
  BY <1>1 DEF StopRecord
<1>3. stop' = [stop EXCEPT ![s] = next]
  <2>1. stop' = [[stop EXCEPT ![s] = [stop[s] EXCEPT !.todo = @ \ {a}]] EXCEPT ![s] = next]
    BY <1>1 DEF StopCancels
  <2> HIDE DEF next
  <2> QED
    BY <2>1, <1>1
<1> QED
  BY <1>1, <1>2, <1>3

(* Every variable keeps its domain, and a run holds an action exactly while  *)
(* it is between the query's loop and the end of that action.               *)
LEMMA QueueTypeNext == QueueTypeOK /\ [QueueNext]_queueing => QueueTypeOK'
<1> SUFFICES ASSUME QueueTypeOK, [QueueNext]_queueing PROVE QueueTypeOK'
  OBVIOUS
<1> USE NothingAssumption, CrashesAssumption
    DEF QueueTypeOK, Statuses, Terminal, InHand, RunPC, StopPC, Inactive, Set
<1>1. ASSUME NEW a \in Action, Approve(a) \/ ShowApproved(a) PROVE QueueTypeOK'
  BY <1>1 DEF Approve, ShowApproved
<1>2. ASSUME NEW s \in Stop, StopQueries(s) PROVE QueueTypeOK'
  BY <1>2 DEF StopQueries
<1>3. ASSUME NEW s \in Stop, NEW a \in Action, StopCancels(s, a) PROVE QueueTypeOK'
  BY <1>3, StopCancelsType DEF StopCancels, StopRecord
<1>4. ASSUME NEW s \in Stop, StopConfirms(s) \/ ChatLost(s) PROVE QueueTypeOK'
  <2>1. CASE StopConfirms(s)
    BY <2>1 DEF StopConfirms
  <2>2. CASE ChatLost(s)
    BY <2>2 DEF ChatLost
  <2> QED
    BY <1>4, <2>1, <2>2
<1>5. ASSUME NEW r \in Run, RunStep(r) \/ RunLost(r) PROVE QueueTypeOK'
  <2>1. CASE ListReady(r)
    <3> DEFINE ready == {a \in Action : status[a] = "approved_ready"}
               next == [[run[r] EXCEPT !.pc = "looping"] EXCEPT !.listed = ready]
    <3>1. run \in [Run -> RunRecord] /\ run[r] \in RunRecord
      BY DEF RunRecord
    <3>2. ready \in SUBSET Action
      OBVIOUS
    <3>3. run' = [[run EXCEPT ![r] = [run[r] EXCEPT !.pc = "looping"]] EXCEPT ![r] = next]
      BY <2>1, <3>1 DEF ListReady
    <3>4. next \in RunRecord /\ next.pc = "looping" /\ next.action = run[r].action
      <4> HIDE DEF ready
      <4> QED
        BY <3>1, <3>2 DEF RunRecord
    <3>5. run[r].pc = "new"
      BY <2>1 DEF ListReady
    <3> HIDE DEF next
    <3>6. run' = [run EXCEPT ![r] = next]
      BY <3>1, <3>3
    <3>7. run' \in [Run -> RunRecord]
      BY <3>1, <3>4, <3>6
    <3>8. \A o \in Run : (run'[o].action \in Action) <=> (run'[o].pc \in InHand)
      BY <3>1, <3>4, <3>5, <3>6
    <3> QED
      BY <2>1, <3>7, <3>8 DEF ListReady, RunRecord
  <2>2. ASSUME NEW a \in Action, NextAction(r, a) PROVE QueueTypeOK'
    <3> DEFINE next == [pc |-> "claiming", listed |-> run[r].listed \ {a}, action |-> a]
    <3>1. next \in RunRecord
      BY DEF RunRecord
    <3>2. run' = [run EXCEPT ![r] = next]
      BY <2>2 DEF NextAction
    <3> QED
      BY <2>2, <3>1, <3>2 DEF NextAction, RunRecord
  <2>3. CASE ClaimIfReady(r)
    <3>1. run[r].action \in Action
      BY <2>3 DEF ClaimIfReady
    <3>2. claims' \in [Action -> Nat] /\ status' \in [Action -> Statuses]
      <4>1. CASE status[run[r].action] = "approved_ready"
        <5>1. /\ claims' = [claims EXCEPT ![run[r].action] = @ + 1]
              /\ status' = [status EXCEPT ![run[r].action] = "planning_claimed"]
          BY <2>3, <4>1 DEF ClaimIfReady
        <5>2. claims[run[r].action] + 1 \in Nat
          BY <3>1
        <5> QED
          BY <5>1, <5>2
      <4>2. CASE status[run[r].action] # "approved_ready"
        BY <2>3, <4>2 DEF ClaimIfReady
      <4> QED
        BY <4>1, <4>2
    <3>3. /\ run' \in [Run -> RunRecord]
          /\ \A o \in Run : (run'[o].action \in Action) <=> (run'[o].pc \in InHand)
      <4>1. Reach(r, "claiming", "claimed") \/ Reach(r, "claiming", "looping")
        BY <2>3 DEF ClaimIfReady
      <4> QED
        BY <4>1, ReachType
    <3> QED
      BY <2>3, <3>2, <3>3 DEF ClaimIfReady, RunRecord
  <2>4. CASE FetchIssue(r)
    BY <2>4, ReachType DEF RunRecord, FetchIssue
  <2>5. CASE Reread(r)
    BY <2>5, ReachType DEF RunRecord, Reread
  <2>6. CASE RejectByPolicy(r)
    BY <2>6, ReachType DEF RunRecord, RejectByPolicy
  <2>7. CASE SaveDossier(r)
    BY <2>7, ReachType DEF RunRecord, SaveDossier
  <2>8. CASE SavePlan(r)
    BY <2>8, ReachType DEF RunRecord, SavePlan
  <2>9. CASE ShowPlan(r)
    BY <2>9, ReachType DEF RunRecord, ShowPlan
  <2>10. CASE Raises(r)
    BY <2>10 DEF Raises
  <2>11. CASE RunLost(r)
    BY <2>11 DEF RunLost
  <2> QED
    BY <1>5, <2>1, <2>2, <2>3, <2>4, <2>5, <2>6, <2>7, <2>8, <2>9, <2>10, <2>11 DEF RunStep
<1>6. CASE UNCHANGED queueing
  BY <1>6 DEF queueing
<1> QED
  BY <1>1, <1>2, <1>3, <1>4, <1>5, <1>6 DEF QueueNext

LEMMA QueueTypeInit == QueueInit => QueueTypeOK
  BY NothingAssumption, CrashesAssumption
  DEF QueueInit, QueueTypeOK, Statuses, InHand, RunPC, StopPC, Inactive

(* The queue's documents, the runs and the stops keep their shape.          *)
THEOREM QueueTypeCorrect == QueueSpec => []QueueTypeOK
<1>1. QueueInit => QueueTypeOK
  BY QueueTypeInit
<1>2. QueueTypeOK /\ [QueueNext]_queueing => QueueTypeOK'
  BY QueueTypeNext
<1> QED
  BY <1>1, <1>2, PTL DEF QueueSpec

-------------------------------------------------------------------------------
(* Nothing makes an action ready a second time: one that still can be        *)
(* claimed never has been, nor stopped.                                      *)
Unclaimed == \A a \in Action :
               status[a] \in {"none", "approved_ready"} => claims[a] = 0 /\ a \notin spared

LEMMA ClaimedOnceNext ==
  QueueTypeOK /\ Unclaimed /\ ClaimedOnce /\ [QueueNext]_queueing
    => Unclaimed' /\ ClaimedOnce'
<1> SUFFICES ASSUME QueueTypeOK, Unclaimed, ClaimedOnce, [QueueNext]_queueing
             PROVE  Unclaimed' /\ ClaimedOnce'
  OBVIOUS
<1> USE DEF QueueTypeOK, Unclaimed, ClaimedOnce, Set
<1>1. ASSUME NEW a \in Action, Approve(a) \/ ShowApproved(a)
      PROVE  Unclaimed' /\ ClaimedOnce'
  BY <1>1 DEF Approve, ShowApproved
<1>2. ASSUME NEW s \in Stop, StopQueries(s) \/ StopConfirms(s) \/ ChatLost(s)
      PROVE  Unclaimed' /\ ClaimedOnce'
  BY <1>2 DEF StopQueries, StopConfirms, ChatLost
<1>3. ASSUME NEW s \in Stop, NEW a \in Action, StopCancels(s, a)
      PROVE  Unclaimed' /\ ClaimedOnce'
  BY <1>3 DEF StopCancels
<1>4. ASSUME NEW r \in Run, ClaimIfReady(r) PROVE Unclaimed' /\ ClaimedOnce'
  <2>1. run[r].action \in Action
    BY <1>4 DEF ClaimIfReady, InHand
  <2>2. CASE status[run[r].action] = "approved_ready"
    <3>1. claims[run[r].action] = 0 /\ run[r].action \notin spared /\ UNCHANGED spared
      BY <1>4, <2>1, <2>2 DEF ClaimIfReady
    <3>2. \A b \in Action : claims'[b] = IF b = run[r].action THEN 1 ELSE claims[b]
      BY <1>4, <2>1, <2>2, <3>1 DEF ClaimIfReady
    <3>3. \A b \in Action :
            status'[b] = IF b = run[r].action THEN "planning_claimed" ELSE status[b]
      BY <1>4, <2>1, <2>2 DEF ClaimIfReady
    <3> QED
      BY <3>1, <3>2, <3>3
  <2>3. CASE status[run[r].action] # "approved_ready"
    BY <1>4, <2>3 DEF ClaimIfReady
  <2> QED
    BY <2>2, <2>3
<1>5. ASSUME NEW r \in Run,
             RejectByPolicy(r) \/ SavePlan(r) \/ Raises(r)
      PROVE  Unclaimed' /\ ClaimedOnce'
  BY <1>5 DEF RejectByPolicy, SavePlan, Raises
<1>6. ASSUME NEW r \in Run,
             \/ ListReady(r) \/ (\E a \in Action : NextAction(r, a)) \/ FetchIssue(r)
             \/ Reread(r) \/ SaveDossier(r) \/ ShowPlan(r) \/ RunLost(r)
      PROVE  Unclaimed' /\ ClaimedOnce'
  BY <1>6 DEF ListReady, NextAction, FetchIssue, Reread, SaveDossier, ShowPlan, RunLost
<1>7. CASE UNCHANGED queueing
  BY <1>7 DEF queueing
<1> QED
  BY <1>1, <1>2, <1>3, <1>4, <1>5, <1>6, <1>7 DEF QueueNext, RunStep

(* However many runs overlap, and whatever they and the stops interleave,    *)
(* the transaction of _claim_if_ready lets one claim of an action succeed,   *)
(* and none after a stop that came before it.                                *)
THEOREM ClaimedOnceHolds == QueueSpec => []ClaimedOnce
<1>1. QueueInit => Unclaimed /\ ClaimedOnce
  BY DEF QueueInit, Unclaimed, ClaimedOnce
<1>2. QueueTypeOK /\ Unclaimed /\ ClaimedOnce /\ [QueueNext]_queueing
        => Unclaimed' /\ ClaimedOnce'
  BY ClaimedOnceNext
<1> QED
  BY <1>1, <1>2, QueueTypeCorrect, PTL DEF QueueSpec

-------------------------------------------------------------------------------
(* A run has an action claimed and has not yet written what became of it.    *)
Holds(r, a) == run[r].action = a /\ run[r].pc \in {"claimed", "fetched", "checked", "dossier"}

LEMMA ClaimIsHeldNext == QueueTypeOK /\ ClaimIsHeld /\ [QueueNext]_queueing => ClaimIsHeld'
<1> SUFFICES ASSUME QueueTypeOK, ClaimIsHeld, [QueueNext]_queueing,
                    crashes' = 0, NEW b \in Action, status'[b] = "planning_claimed"
             PROVE  \E r \in Run : Holds(r, b)'
  BY DEF ClaimIsHeld, Holds, InHand
<1>old. status[b] = "planning_claimed" /\ crashes = 0 => \E r \in Run : Holds(r, b)
  BY DEF ClaimIsHeld, Holds, InHand
<1> USE DEF QueueTypeOK
<1>1. ASSUME NEW a \in Action, Approve(a) \/ ShowApproved(a)
      PROVE  \E r \in Run : Holds(r, b)'
  BY <1>1, <1>old DEF Approve, ShowApproved, Set, Holds
<1>2. ASSUME NEW s \in Stop, StopQueries(s) \/ StopConfirms(s)
      PROVE  \E r \in Run : Holds(r, b)'
  BY <1>2, <1>old DEF StopQueries, StopConfirms, Holds
<1>3. ASSUME NEW s \in Stop, NEW a \in Action, StopCancels(s, a)
      PROVE  \E r \in Run : Holds(r, b)'
  BY <1>3, <1>old DEF StopCancels, Set, Holds
<1>4. ASSUME NEW r \in Run, RunStep(r) PROVE \E o \in Run : Holds(o, b)'
  <2>0. crashes = 0
    BY <1>4 DEF RunStep, ListReady, NextAction, ClaimIfReady, FetchIssue, Reread,
                RejectByPolicy, SaveDossier, SavePlan, ShowPlan, Raises
  <2>1. CASE ListReady(r)
    BY <2>0, <2>1, <1>old DEF ListReady, Holds
  <2>2. ASSUME NEW a \in Action, NextAction(r, a) PROVE \E o \in Run : Holds(o, b)'
    BY <2>0, <2>2, <1>old DEF NextAction, Holds
  <2>3. CASE ClaimIfReady(r)
    <3>1. CASE b = run[r].action /\ status[b] = "approved_ready"
      BY <2>3, <3>1 DEF ClaimIfReady, Reach, Holds
    <3>2. CASE ~(b = run[r].action /\ status[b] = "approved_ready")
      BY <2>0, <2>3, <3>2, <1>old DEF ClaimIfReady, Reach, Set, Holds
    <3> QED
      BY <3>1, <3>2
  <2>4. CASE FetchIssue(r)
    BY <2>0, <2>4, <1>old DEF FetchIssue, Reach, Holds
  <2>5. CASE Reread(r)
    BY <2>0, <2>5, <1>old DEF Reread, Reach, Holds
  <2>6. CASE RejectByPolicy(r)
    BY <2>0, <2>6, <1>old DEF RejectByPolicy, Reach, Set, Holds
  <2>7. CASE SaveDossier(r)
    BY <2>0, <2>7, <1>old DEF SaveDossier, Reach, Holds
  <2>8. CASE SavePlan(r)
    BY <2>0, <2>8, <1>old DEF SavePlan, Reach, Set, Holds
  <2>9. CASE ShowPlan(r)
    BY <2>0, <2>9, <1>old DEF ShowPlan, Reach, Holds
  <2>10. CASE Raises(r)
    BY <2>0, <2>10, <1>old DEF Raises, Set, Holds, InHand
  <2> QED
    BY <1>4, <2>1, <2>2, <2>3, <2>4, <2>5, <2>6, <2>7, <2>8, <2>9, <2>10 DEF RunStep
<1>5. ASSUME NEW s \in Stop, ChatLost(s) PROVE FALSE
  BY <1>5 DEF ChatLost
<1>6. ASSUME NEW r \in Run, RunLost(r) PROVE FALSE
  BY <1>6 DEF RunLost
<1>7. CASE UNCHANGED queueing
  BY <1>7, <1>old DEF queueing, Holds
<1> QED
  BY <1>1, <1>2, <1>3, <1>4, <1>5, <1>6, <1>7 DEF QueueNext

(* As long as no run and no chat thread is lost, a claimed action is in the  *)
(* hands of a run: no exception and no stop leaves it in planning_claimed.   *)
THEOREM ClaimIsHeldHolds == QueueSpec => []ClaimIsHeld
<1>1. QueueInit => ClaimIsHeld
  BY DEF QueueInit, ClaimIsHeld
<1>2. QueueTypeOK /\ ClaimIsHeld /\ [QueueNext]_queueing => ClaimIsHeld'
  BY ClaimIsHeldNext
<1> QED
  BY <1>1, <1>2, QueueTypeCorrect, PTL DEF QueueSpec
-------------------------------------------------------------------------------
Idle(r) == run[r].pc = "new" \/ Ended(r)

(* Runs that follow one another: at most one is under way.                   *)
OneRun == serial => \A r, o \in Run : r = o \/ Idle(r) \/ Idle(o)

(* An action stopped before the run's second look at it: no query lists it    *)
(* again, and the run that holds it, if one does, still has that look ahead   *)
(* of it and will see the cancellation.                                      *)
EarlyStopped ==
  serial => \A a \in early :
    /\ a \notin dossiers
    /\ status[a] \notin {"none", "approved_ready"}
    /\ \A r \in Run : run[r].action = a =>
         \/ run[r].pc = "claiming"
         \/ run[r].pc \in {"claimed", "fetched"} /\ status[a] = "cancelled"

LEMMA OneRunNext == QueueTypeOK /\ OneRun /\ [QueueNext]_queueing => OneRun'
<1> SUFFICES ASSUME QueueTypeOK, OneRun, [QueueNext]_queueing PROVE OneRun'
  OBVIOUS
<1>t. run \in [Run -> RunRecord]
  BY DEF QueueTypeOK, RunRecord
<1>0. ASSUME UNCHANGED <<run, serial>> PROVE OneRun'
  BY <1>0 DEF OneRun, Idle, Ended
<1> USE DEF OneRun, Idle, Ended
<1>1. ASSUME NEW a \in Action, Approve(a) \/ ShowApproved(a) PROVE OneRun'
  BY <1>0, <1>1 DEF Approve, ShowApproved
<1>2. ASSUME NEW s \in Stop, StopQueries(s) \/ StopConfirms(s) \/ ChatLost(s) PROVE OneRun'
  BY <1>0, <1>2 DEF StopQueries, StopConfirms, ChatLost
<1>3. ASSUME NEW s \in Stop, NEW a \in Action, StopCancels(s, a) PROVE OneRun'
  BY <1>0, <1>3 DEF StopCancels
<1>4. ASSUME NEW r \in Run, ListReady(r) PROVE OneRun'
  BY <1>t, <1>4 DEF ListReady, RunRecord
<1>5. ASSUME NEW r \in Run, RunStep(r) \/ RunLost(r), ~ListReady(r) PROVE OneRun'
  <2>1. ~Idle(r) \/ (run'[r].listed = {} /\ run'[r].pc = "looping")
    <3>1. CASE RunLost(r)
      BY <1>t, <3>1 DEF RunLost, RunRecord
    <3>2. ASSUME NEW a \in Action, NextAction(r, a) PROVE ~Idle(r)
      BY <3>2 DEF NextAction
    <3>3. ASSUME run[r].pc \in InHand PROVE ~Idle(r)
      BY <3>3 DEF InHand
    <3>4. CASE ~RunLost(r) /\ ~\E a \in Action : NextAction(r, a)
      <4>1. run[r].pc \in InHand
        BY <1>5, <1>t, <3>4 DEF RunStep, ClaimIfReady, FetchIssue, Reread, RejectByPolicy,
                          SaveDossier, SavePlan, ShowPlan, Raises, Reach, InHand
      <4> QED
        BY <3>3, <4>1
    <3> QED
      BY <3>1, <3>2, <3>4
  <2>2. \A o \in Run \ {r} : run'[o] = run[o]
    BY <1>5, <1>t DEF RunStep, NextAction, ClaimIfReady, FetchIssue, Reread, RejectByPolicy,
                SaveDossier, SavePlan, ShowPlan, Raises, RunLost, Reach
  <2>3. serial' = serial
    BY <1>5, <1>t DEF RunStep, NextAction, ClaimIfReady, FetchIssue, Reread, RejectByPolicy,
                SaveDossier, SavePlan, ShowPlan, Raises, RunLost
  <2> QED
    BY <2>1, <2>2, <2>3
<1>6. CASE UNCHANGED queueing
  BY <1>0, <1>6 DEF queueing
<1> QED
  BY <1>1, <1>2, <1>3, <1>4, <1>5, <1>6 DEF QueueNext

LEMMA EarlyStoppedNext ==
  QueueTypeOK /\ OneRun /\ EarlyStopped /\ [QueueNext]_queueing => EarlyStopped'
<1> SUFFICES ASSUME QueueTypeOK, OneRun, EarlyStopped, [QueueNext]_queueing
             PROVE  EarlyStopped'
  OBVIOUS
<1> USE NothingAssumption DEF QueueTypeOK, EarlyStopped
<1>1. ASSUME NEW a \in Action, Approve(a) \/ ShowApproved(a) PROVE EarlyStopped'
  <2>1. CASE Approve(a)
    BY <2>1 DEF Approve, Set
  <2>2. CASE ShowApproved(a)
    BY <2>2 DEF ShowApproved
  <2> QED
    BY <1>1, <2>1, <2>2
<1>2. ASSUME NEW s \in Stop, StopQueries(s) \/ StopConfirms(s) \/ ChatLost(s)
      PROVE  EarlyStopped'
  BY <1>2 DEF StopQueries, StopConfirms, ChatLost
<1>3. ASSUME NEW s \in Stop, NEW a \in Action, StopCancels(s, a) PROVE EarlyStopped'
  <2>1. \A b \in Action : status'[b] = IF b = a THEN "cancelled" ELSE status[b]
    BY <1>3 DEF StopCancels, Set
  <2>2. UNCHANGED <<dossiers, run, serial>>
    BY <1>3 DEF StopCancels
  <2>3. CASE PastReread(a) \/ a \in dossiers
    BY <1>3, <2>1, <2>2, <2>3 DEF StopCancels
  <2>4. CASE ~PastReread(a) /\ a \notin dossiers
    <3>1. early' = early \cup {a}
      BY <1>3, <2>4 DEF StopCancels
    <3>2. \A r \in Run : run[r].action = a => run[r].pc \in {"claiming", "claimed", "fetched"}
      BY <2>4 DEF PastReread, InHand
    <3> QED
      BY <2>1, <2>2, <2>4, <3>1, <3>2
  <2> QED
    BY <2>3, <2>4
<1>4. ASSUME NEW r \in Run, RunStep(r) PROVE EarlyStopped'
  <2>1. CASE ListReady(r)
    BY <2>1 DEF ListReady
  <2>2. ASSUME NEW a \in Action, NextAction(r, a) PROVE EarlyStopped'
    BY <2>2 DEF NextAction
  <2>3. CASE ClaimIfReady(r)
    <3>1. \A o \in Run \ {r} : run'[o] = run[o]
      BY <2>3 DEF ClaimIfReady, Reach
    <3>2. UNCHANGED <<dossiers, early, serial>>
      BY <2>3 DEF ClaimIfReady
    <3>3. run[r].action \in Action
      BY <2>3 DEF ClaimIfReady, InHand
    <3>4. CASE status[run[r].action] = "approved_ready"
      <4>1. \A b \in Action :
              status'[b] = IF b = run[r].action THEN "planning_claimed" ELSE status[b]
        BY <2>3, <3>3, <3>4 DEF ClaimIfReady, Set
      <4>2. run'[r].action = run[r].action
        BY <2>3, <3>4 DEF ClaimIfReady, Reach
      <4>3. serial => run[r].action \notin early
        BY <3>4
      <4>4. ASSUME serial, NEW b \in early
            PROVE  /\ b \notin dossiers
                   /\ status'[b] = status[b]
                   /\ \A o \in Run : run'[o].action = b => run'[o] = run[o]
        BY <3>1, <4>1, <4>2, <4>3, <4>4
      <4> QED
        BY <3>2, <4>4
    <3>5. CASE status[run[r].action] # "approved_ready"
      <4>1. run'[r].action = Nothing /\ status' = status
        BY <2>3, <3>5 DEF ClaimIfReady, Reach
      <4> QED
        BY <3>1, <3>2, <4>1
    <3> QED
      BY <3>4, <3>5
  <2>4. CASE FetchIssue(r)
    BY <2>4 DEF FetchIssue, Reach
  <2>5. CASE Reread(r)
    BY <2>5 DEF Reread, Reach
  <2>6. CASE RejectByPolicy(r)
    BY <2>6 DEF RejectByPolicy, Reach, Set, InHand
  <2>7. CASE SaveDossier(r)
    BY <2>7 DEF SaveDossier, Reach
  <2>8. CASE SavePlan(r)
    BY <2>8 DEF SavePlan, Reach, Set, InHand
  <2>9. CASE ShowPlan(r)
    BY <2>9 DEF ShowPlan, Reach
  <2>10. CASE Raises(r)
    <3>1. run[r].action \in Action
      BY <2>10 DEF Raises
    <3>2. serial => \A o \in Run \ {r} : run[o].action # run[r].action
      BY <2>10, <3>1 DEF Raises, OneRun, Idle, Ended, InHand
    <3>3. \A b \in Action :
            status'[b] = IF b = run[r].action THEN "retryable_error" ELSE status[b]
      BY <2>10, <3>1 DEF Raises, Set
    <3>4. run'[r].action = Nothing /\ \A o \in Run \ {r} : run'[o] = run[o]
      BY <2>10 DEF Raises
    <3>5. UNCHANGED <<dossiers, early, serial>>
      BY <2>10 DEF Raises
    <3> QED
      BY <3>1, <3>2, <3>3, <3>4, <3>5
  <2> QED
    BY <1>4, <2>1, <2>2, <2>3, <2>4, <2>5, <2>6, <2>7, <2>8, <2>9, <2>10 DEF RunStep
<1>5. ASSUME NEW r \in Run, RunLost(r) PROVE EarlyStopped'
  BY <1>5 DEF RunLost
<1>6. CASE UNCHANGED queueing
  BY <1>6 DEF queueing
<1> QED
  BY <1>1, <1>2, <1>3, <1>4, <1>5, <1>6 DEF QueueNext

(* Without overlapping runs, a stop that lands before the run's second look   *)
(* at the action keeps its dossier from being written.                       *)
THEOREM EarlyStopPreventsDossierHolds == QueueSpec => []EarlyStopPreventsDossier
<1>1. QueueInit => OneRun /\ EarlyStopped
  BY DEF QueueInit, OneRun, Idle, EarlyStopped
<1>2. QueueTypeOK /\ OneRun /\ [QueueNext]_queueing => OneRun'
  BY OneRunNext
<1>3. QueueTypeOK /\ OneRun /\ EarlyStopped /\ [QueueNext]_queueing => EarlyStopped'
  BY EarlyStoppedNext
<1>4. EarlyStopped => EarlyStopPreventsDossier
  BY DEF EarlyStopped, EarlyStopPreventsDossier
<1> QED
  BY <1>1, <1>2, <1>3, <1>4, QueueTypeCorrect, PTL DEF QueueSpec

--------------------------------------------------------------------------------
(* The deliverable commands, for every set of commands and candidates.                  *)

Fields == {"at", "kind", "payload", "local", "found", "book", "picked", "digest", "status",
           "retryable"}

(* Before a thread has chosen a candidate, and once its run is over.                    *)
Choosing == {"start", "read", "narrow", "narrowing", "recover", "repair", "repairing", "load",
           "ledger"}
Over   == {"save", "saving", "done"}

ThreadShape ==
  /\ workspace \in [Work -> Workspace]
  /\ DOMAIN thread = Command
  /\ \A c \in Command : DOMAIN thread[c] = Fields /\ thread[c].digest \in Digest

(* A thread chooses once: it is blocked, and may try again, only without a candidate.     *)
ChosenOnce ==
  \A c \in Command : thread[c].picked # Nobody =>
    thread[c].at \notin Choosing /\ ~(thread[c].status = "blocked" /\ thread[c].at \in {"save", "saving"})

(* An artifact is there once a thread has begun to write it, and cut off only while one     *)
(* is writing it.                                                                     *)
ArtifactIsWritten ==
  \A w \in Work :
    /\ workspace[w].artifact = "torn" =>
         \E c \in Command : thread[c].picked = w /\ thread[c].at = "drafting"
    /\ \A c \in Command : thread[c].picked = w /\ thread[c].at # "artifact" =>
         workspace[w].artifact # "none"

DeliveryInv == ThreadShape /\ ChosenOnce /\ ArtifactIsWritten /\ CompletedIsProven

-------------------------------------------------------------------------------
(* The place, the choice, the outcome and the digest of the thread of c; the others stay.  *)
Moves(c, at, picked, st, digest) ==
  /\ DOMAIN thread' = Command /\ DOMAIN thread'[c] = Fields
  /\ thread'[c].at = at /\ thread'[c].picked = picked
  /\ thread'[c].status = st /\ thread'[c].digest = digest
  /\ \A d \in Command \ {c} : thread'[d] = thread[d]

LEMMA GotoMoves ==
  ASSUME ThreadShape, NEW c \in Command, NEW step, Goto(c, step)
  PROVE  Moves(c, step, thread[c].picked, thread[c].status, thread[c].digest)
<1> DEFINE r == [thread[c] EXCEPT !.at = step]
<1>1. DOMAIN thread = Command /\ DOMAIN thread[c] = Fields
  BY DEF ThreadShape
<1>2. /\ DOMAIN r = Fields /\ r.at = step /\ r.picked = thread[c].picked
      /\ r.status = thread[c].status /\ r.digest = thread[c].digest
  BY <1>1 DEF Fields
<1>3. thread' = [thread EXCEPT ![c] = r]
  BY DEF Goto
<1> HIDE DEF r
<1> QED
  BY <1>1, <1>2, <1>3 DEF Moves

LEMMA StepMoves ==
  ASSUME ThreadShape, NEW c \in Command, NEW fields, Step(c, fields)
  PROVE  Moves(c, IF "at" \in DOMAIN fields THEN fields.at ELSE thread[c].at,
                  IF "picked" \in DOMAIN fields THEN fields.picked ELSE thread[c].picked,
                  IF "status" \in DOMAIN fields THEN fields.status ELSE thread[c].status,
                  IF "digest" \in DOMAIN fields THEN fields.digest ELSE thread[c].digest)
<1> DEFINE r == [f \in DOMAIN thread[c] |-> IF f \in DOMAIN fields THEN fields[f] ELSE thread[c][f]]
<1>1. DOMAIN thread = Command /\ DOMAIN thread[c] = Fields
  BY DEF ThreadShape
<1>2. /\ DOMAIN r = Fields
      /\ \A f \in Fields : r[f] = IF f \in DOMAIN fields THEN fields[f] ELSE thread[c][f]
  BY <1>1
<1>3. thread' = [thread EXCEPT ![c] = r]
  BY DEF Step
<1> HIDE DEF r
<1>4. DOMAIN thread' = Command /\ thread'[c] = r /\ \A d \in Command \ {c} : thread'[d] = thread[d]
  BY <1>1, <1>3
<1> QED
  BY <1>1, <1>2, <1>4 DEF Moves, Fields

(* A step that leaves the workspaces alone keeps all, provided it does not go back before    *)
(* the choice, and finishes no candidate that was not.                                   *)
LEMMA MoveNext ==
  ASSUME DeliveryInv, NEW c \in Command, NEW at, NEW st, NEW digest \in Digest,
         Moves(c, at, thread[c].picked, st, digest), workspace' = workspace,
         thread[c].at # "artifact", thread[c].at # "drafting",
         thread[c].picked # Nobody =>
           at \notin Choosing /\ ~(st = "blocked" /\ at \in {"save", "saving"}),
         thread[c].picked \in Work /\ st = "completed" /\ at \in Over =>
           thread[c].status = "completed" /\ thread[c].at \in Over
  PROVE  DeliveryInv'
<1>1. ThreadShape'
  BY DEF DeliveryInv, ThreadShape, Moves
<1>2. ChosenOnce'
  BY DEF DeliveryInv, ChosenOnce, Moves
<1>3. ArtifactIsWritten'
  BY DEF DeliveryInv, ArtifactIsWritten, Moves
<1>4. CompletedIsProven'
  <2> SUFFICES ASSUME NEW w \in Work,
                      \E d \in Command : thread'[d].picked = w /\ thread'[d].status = "completed",
                      \A d \in Command : thread'[d].picked = w =>
                        thread'[d].status = "completed" /\ thread'[d].at \in Over
               PROVE  workspace'[w] = [artifact |-> "draft", manifest |-> "draft", receipt |-> "draft"]
    BY DEF CompletedIsProven, Over
  <2>1. \A d \in Command : thread'[d].picked = thread[d].picked
    BY DEF Moves
  <2>2. w # Nobody
    BY DeliverablesAssumption
  <2>3. ASSUME NEW d \in Command, thread[d].picked = w
        PROVE  thread[d].status = "completed" /\ thread[d].at \in Over
    BY <2>1, <2>2, <2>3 DEF Moves
  <2>4. \E d \in Command : thread[d].picked = w /\ thread[d].status = "completed"
    BY <2>1, <2>3
  <2> QED
    BY <2>3, <2>4 DEF DeliveryInv, CompletedIsProven, Over
<1> QED
  BY <1>1, <1>2, <1>3, <1>4 DEF DeliveryInv

(* A thread without a candidate moves freely.                                           *)
LEMMA UnchosenNext ==
  ASSUME DeliveryInv, NEW c \in Command, NEW at, NEW st,
         Moves(c, at, thread[c].picked, st, thread[c].digest), workspace' = workspace,
         thread[c].at \in Choosing
  PROVE  DeliveryInv'
<1>1. thread[c].picked = Nobody /\ Nobody \notin Work /\ thread[c].digest \in Digest
      /\ thread[c].at # "artifact" /\ thread[c].at # "drafting"
  BY DeliverablesAssumption DEF DeliveryInv, ChosenOnce, ThreadShape, Choosing
<1> QED
  BY <1>1, MoveNext

LEMMA BeforeNext ==
  ASSUME DeliveryInv, NEW c \in Command,
         \/ \E kind \in {"cash", "market"} : Begin(c, kind)
         \/ ReadForCash(c) \/ ReadForMarket(c)
         \/ RecoverSnapshot(c) \/ RecoverByScouting(c) \/ RecoverNothing(c) \/ LoadCandidates(c)
         \/ NarrowRegistry(c) \/ RepairRegistry(c)
  PROVE  DeliveryInv'
<1>1. ThreadShape /\ workspace' = workspace
  BY DEF DeliveryInv, Begin, ReadForCash, ReadForMarket, RecoverSnapshot, RecoverByScouting,
         RecoverNothing, LoadCandidates, NarrowRegistry, RepairRegistry
<1>2. thread[c].at \in Choosing
  BY DEF At, Choosing, Begin, ReadForCash, ReadForMarket, RecoverSnapshot, RecoverByScouting,
         RecoverNothing, LoadCandidates, NarrowRegistry, RepairRegistry
<1>3. ASSUME NEW fields, Step(c, fields), "picked" \notin DOMAIN fields, "digest" \notin DOMAIN fields
      PROVE  DeliveryInv'
  BY <1>1, <1>2, <1>3, StepMoves, UnchosenNext
<1>4. ASSUME NEW step, Goto(c, step) PROVE DeliveryInv'
  BY <1>1, <1>2, <1>4, GotoMoves, UnchosenNext
<1>5. CASE \E kind \in {"cash", "market"} : Begin(c, kind)
  <2>1. PICK kind : Step(c, [at |-> "read", kind |-> kind])
    BY <1>5 DEF Begin
  <2> QED
    BY <1>3, <2>1
<1>6. CASE ReadForCash(c)
  <2>1. \/ Goto(c, "load") \/ Step(c, [at |-> "done", status |-> "blocked"])
        \/ Step(c, [at |-> "narrow", payload |-> registry])
    BY <1>6 DEF ReadForCash
  <2> QED
    BY <1>3, <1>4, <2>1
<1>7. CASE ReadForMarket(c)
  <2>1. \/ Goto(c, "recover") \/ Goto(c, "load")
        \/ Step(c, [at |-> "repair", payload |-> [registry EXCEPT !.normal = TRUE], local |-> FALSE])
    BY <1>7 DEF ReadForMarket
  <2> QED
    BY <1>3, <1>4, <2>1
<1>8. CASE RecoverSnapshot(c)
  <2>1. Step(c, [at |-> "repair", payload |-> snapshot.registry, local |-> FALSE])
    BY <1>8 DEF RecoverSnapshot
  <2> QED
    BY <1>3, <2>1
<1>9. CASE RecoverByScouting(c)
  <2>1. PICK scouted : Step(c, [at |-> "repair", payload |-> scouted, local |-> FALSE])
    BY <1>9 DEF RecoverByScouting
  <2> QED
    BY <1>3, <2>1
<1>10. CASE RecoverNothing(c)
  <2>1. Step(c, [at |-> "load", local |-> FALSE])
    BY <1>10 DEF RecoverNothing
  <2> QED
    BY <1>3, <2>1
<1>11. CASE LoadCandidates(c)
  <2>1. Step(c, [at |-> "ledger", found |-> registry])
    BY <1>11 DEF LoadCandidates
  <2> QED
    BY <1>3, <2>1
<1>12. CASE NarrowRegistry(c) \/ RepairRegistry(c)
  <2>1. Goto(c, "load")
    BY <1>12 DEF NarrowRegistry, RepairRegistry
  <2> QED
    BY <1>4, <2>1
<1> QED
  BY <1>5, <1>6, <1>7, <1>8, <1>9, <1>10, <1>11, <1>12

(* The choice: the candidate then has a thread that is not over.                         *)
LEMMA LoadLedgerNext ==
  ASSUME DeliveryInv, NEW c \in Command, LoadLedger(c) PROVE DeliveryInv'
<1>1. /\ ThreadShape /\ workspace' = workspace /\ thread[c].at = "ledger"
      /\ thread[c].at \in Choosing
  BY DEF DeliveryInv, LoadLedger, At, Choosing
<1>2. PICK rows : \/ \E again : Step(c, [at |-> "save", book |-> rows, status |-> "blocked",
                                         retryable |-> again])
                  \/ \E w : Step(c, [at |-> "artifact", book |-> rows, picked |-> w])
  BY DEF LoadLedger
<1>3. ASSUME NEW again, Step(c, [at |-> "save", book |-> rows, status |-> "blocked",
                                 retryable |-> again])
      PROVE  DeliveryInv'
  <2>1. Moves(c, "save", thread[c].picked, "blocked", thread[c].digest)
    BY <1>1, <1>3, StepMoves
  <2> QED
    BY <1>1, <2>1, UnchosenNext
<1>4. ASSUME NEW w, Step(c, [at |-> "artifact", book |-> rows, picked |-> w])
      PROVE  DeliveryInv'
  <2>1. Moves(c, "artifact", w, thread[c].status, thread[c].digest)
    BY <1>1, <1>4, StepMoves
  <2>2. thread[c].picked = Nobody
    BY <1>1 DEF DeliveryInv, ChosenOnce
  <2>3. ThreadShape'
    BY <1>1, <2>1 DEF ThreadShape, Moves
  <2>4. ChosenOnce'
    BY <2>1 DEF DeliveryInv, ChosenOnce, Moves, Choosing
  <2>5. ArtifactIsWritten'
    BY <1>1, <2>1 DEF DeliveryInv, ArtifactIsWritten, Moves
  <2>6. CompletedIsProven'
    <3> SUFFICES ASSUME NEW v \in Work,
                        \E d \in Command : thread'[d].picked = v /\ thread'[d].status = "completed",
                        \A d \in Command : thread'[d].picked = v =>
                          thread'[d].status = "completed" /\ thread'[d].at \in Over
                 PROVE  workspace'[v] = [artifact |-> "draft", manifest |-> "draft", receipt |-> "draft"]
      BY DEF CompletedIsProven, Over
    <3>1. v # w /\ v # Nobody
      BY <2>1, DeliverablesAssumption DEF Moves, Over
    <3>2. \A d \in Command : thread[d].picked = v <=> thread'[d].picked = v
      BY <2>1, <2>2, <3>1 DEF Moves
    <3>3. \A d \in Command : thread[d].picked = v => thread'[d] = thread[d]
      BY <2>1, <2>2, <3>1 DEF Moves
    <3> QED
      BY <1>1, <3>2, <3>3 DEF DeliveryInv, CompletedIsProven, Over
  <2> QED
    BY <2>3, <2>4, <2>5, <2>6 DEF DeliveryInv
<1> QED
  BY <1>2, <1>3, <1>4

-------------------------------------------------------------------------------
(* A file of the candidate of c changes, and c is not over.                              *)
LEMMA PutNext ==
  ASSUME DeliveryInv, NEW c \in Command, NEW at,
         NEW field \in {"artifact", "manifest", "receipt"}, NEW value,
         Put(c, field, value), Goto(c, at),
         thread[c].at \notin Choosing, thread[c].at \notin Over, at \notin Choosing, at \notin Over,
         IF field = "artifact"
         THEN \/ value = "torn" /\ at = "drafting"
              \/ value = "draft" /\ at = "hash"
         ELSE value \in File /\ thread[c].at # "drafting" /\ thread[c].at # "artifact" /\ at # "artifact"
  PROVE  DeliveryInv'
<1> DEFINE p == thread[c].picked
<1>1. /\ ThreadShape /\ Moves(c, at, p, thread[c].status, thread[c].digest)
      /\ workspace \in [Work -> Workspace]
  BY GotoMoves DEF DeliveryInv, ThreadShape
<1> HIDE DEF p
<1>2. /\ workspace' \in [Work -> Workspace]
      /\ \A w \in Work \ {p} : workspace'[w] = workspace[w]
      /\ p \in Work => /\ field = "artifact" => workspace'[p].artifact = value
                       /\ field # "artifact" => workspace'[p].artifact = workspace[p].artifact
  <2>1. CASE p \in Work
    <3> DEFINE e == [workspace[p] EXCEPT ![field] = value]
    <3>1. workspace[p] \in Workspace
      BY <1>1, <2>1
    <3>2. /\ e \in Workspace
          /\ field = "artifact" => e.artifact = value
          /\ field # "artifact" => e.artifact = workspace[p].artifact
      <4>1. CASE field = "artifact"
        BY <3>1, <4>1 DEF Workspace
      <4>2. CASE field = "manifest"
        BY <3>1, <4>2 DEF Workspace
      <4>3. CASE field = "receipt"
        BY <3>1, <4>3 DEF Workspace
      <4> QED
        BY <4>1, <4>2, <4>3
    <3>3. workspace' = [workspace EXCEPT ![p] = e]
      BY DEF Put, p
    <3> HIDE DEF e
    <3> QED
      BY <1>1, <2>1, <3>2, <3>3
  <2>2. CASE p \notin Work
    <3>1. workspace' = workspace
      BY <1>1, <2>2 DEF Put, p
    <3> QED
      BY <1>1, <2>2, <3>1
  <2> QED
    BY <2>1, <2>2
<1>3. ThreadShape'
  BY <1>1, <1>2 DEF ThreadShape, Moves
<1>4. ChosenOnce'
  BY <1>1 DEF DeliveryInv, ChosenOnce, Moves, p, Over
<1>5. ASSUME NEW w \in Work
      PROVE  /\ workspace'[w].artifact = "torn" =>
                  \E d \in Command : thread'[d].picked = w /\ thread'[d].at = "drafting"
             /\ \A d \in Command : thread'[d].picked = w /\ thread'[d].at # "artifact" =>
                  workspace'[w].artifact # "none"
  <2>1. CASE w # p
    BY <1>1, <1>2, <2>1 DEF DeliveryInv, ArtifactIsWritten, Moves, p
  <2>2. CASE w = p /\ field = "artifact"
    BY <1>1, <1>2, <2>2 DEF Moves, p
  <2>3. CASE w = p /\ field # "artifact"
    BY <1>1, <1>2, <2>3 DEF DeliveryInv, ArtifactIsWritten, Moves, p
  <2> QED
    BY <2>1, <2>2, <2>3
<1>6. CompletedIsProven'
  <2> SUFFICES ASSUME NEW v \in Work,
                      \E d \in Command : thread'[d].picked = v /\ thread'[d].status = "completed",
                      \A d \in Command : thread'[d].picked = v =>
                        thread'[d].status = "completed" /\ thread'[d].at \in Over
               PROVE  workspace'[v] = [artifact |-> "draft", manifest |-> "draft", receipt |-> "draft"]
    BY DEF CompletedIsProven, Over
  <2>1. v # p
    BY <1>1 DEF Moves, p
  <2>2. \A d \in Command : thread[d].picked = v => thread'[d] = thread[d]
    BY <1>1, <2>1 DEF Moves, p
  <2>3. \A d \in Command : thread'[d].picked = v => thread[d].picked = v
    BY <1>1, <2>1 DEF Moves, p
  <2> QED
    BY <1>2, <2>1, <2>2, <2>3 DEF DeliveryInv, CompletedIsProven, Over
<1> QED
  BY <1>3, <1>4, <1>5, <1>6 DEF DeliveryInv, ArtifactIsWritten

LEMMA FileNext ==
  ASSUME DeliveryInv, NEW c \in Command, EmptyFile(c) \/ WriteFile(c) PROVE DeliveryInv'
<1>1. thread[c].digest \in File /\ "torn" \in File
  BY DEF DeliveryInv, ThreadShape, File
<1>2. CASE thread[c].at = "artifact" /\ Put(c, "artifact", "torn") /\ Goto(c, "drafting")
  BY <1>2, PutNext DEF Choosing, Over
<1>3. CASE thread[c].at = "manifest" /\ Put(c, "manifest", "torn") /\ Goto(c, "listing")
  BY <1>1, <1>3, PutNext DEF Choosing, Over
<1>4. CASE thread[c].at = "receipt" /\ Put(c, "receipt", "torn") /\ Goto(c, "signing")
  BY <1>1, <1>4, PutNext DEF Choosing, Over
<1>5. CASE thread[c].at = "drafting" /\ Put(c, "artifact", "draft") /\ Goto(c, "hash")
  BY <1>5, PutNext DEF Choosing, Over
<1>6. CASE thread[c].at = "listing" /\ Put(c, "manifest", thread[c].digest) /\ Goto(c, "receipt")
  BY <1>1, <1>6, PutNext DEF Choosing, Over
<1>7. CASE thread[c].at = "signing" /\ Put(c, "receipt", thread[c].digest) /\ Goto(c, "verify")
  BY <1>1, <1>7, PutNext DEF Choosing, Over
<1> QED
  BY <1>2, <1>3, <1>4, <1>5, <1>6, <1>7 DEF EmptyFile, WriteFile, At

(* The last to be verified finds the artifact whole, since no other is writing it: it is     *)
(* the digest of the draft that both files name.                                        *)
LEMMA VerifyNext ==
  ASSUME DeliveryInv, NEW c \in Command, VerifyReceipt(c) PROVE DeliveryInv'
<1>1. /\ ThreadShape /\ workspace' = workspace /\ thread[c].at = "verify"
      /\ thread[c].digest \in Digest
  BY DEF DeliveryInv, ThreadShape, VerifyReceipt, At
<1>2. CASE ~Proof(c)
  <2>1. Step(c, [at |-> "save", status |-> "failed"])
    BY <1>2 DEF VerifyReceipt
  <2>2. Moves(c, "save", thread[c].picked, "failed", thread[c].digest)
    BY <1>1, <2>1, StepMoves
  <2> QED
    BY <1>1, <2>2, MoveNext DEF Choosing
<1>3. CASE Proof(c)
  <2>1. PICK rows : Step(c, [at |-> "save", status |-> "completed", book |-> rows])
    BY <1>3 DEF VerifyReceipt
  <2>2. Moves(c, "save", thread[c].picked, "completed", thread[c].digest)
    BY <1>1, <2>1, StepMoves
  <2>3. ThreadShape'
    BY <1>1, <2>2 DEF ThreadShape, Moves
  <2>4. ChosenOnce'
    BY <2>2 DEF DeliveryInv, ChosenOnce, Moves, Choosing
  <2>5. ArtifactIsWritten'
    BY <1>1, <2>2 DEF DeliveryInv, ArtifactIsWritten, Moves
  <2>6. CompletedIsProven'
    <3> SUFFICES ASSUME NEW w \in Work,
                        \E d \in Command : thread'[d].picked = w /\ thread'[d].status = "completed",
                        \A d \in Command : thread'[d].picked = w =>
                          thread'[d].status = "completed" /\ thread'[d].at \in Over
                 PROVE  workspace[w] = [artifact |-> "draft", manifest |-> "draft", receipt |-> "draft"]
      BY <1>1 DEF CompletedIsProven, Over
    <3>1. CASE thread[c].picked = w
      <4>1. \A d \in Command : thread[d].picked = w => thread[d].at # "drafting"
        BY <1>1, <2>2 DEF Moves, Over
      <4>2. workspace[w].artifact # "torn" /\ workspace[w].artifact # "none"
        BY <1>1, <3>1, <4>1 DEF DeliveryInv, ArtifactIsWritten
      <4>3. workspace[w] \in Workspace
        BY <1>1 DEF ThreadShape
      <4>4. workspace[w].artifact = "draft"
        BY <4>2, <4>3 DEF Workspace
      <4>5. workspace[w].manifest = "draft" /\ workspace[w].receipt = "draft"
        BY <1>3, <3>1, <4>4 DEF Proof, HashOf
      <4> QED
        BY <4>3, <4>4, <4>5 DEF Workspace
    <3>2. CASE thread[c].picked # w
      BY <2>2, <3>2 DEF DeliveryInv, CompletedIsProven, Moves, Over
    <3> QED
      BY <3>1, <3>2
  <2> QED
    BY <2>3, <2>4, <2>5, <2>6 DEF DeliveryInv
<1> QED
  BY <1>2, <1>3

(* The rest of a run, and what follows it.                                            *)
LEMMA AfterNext ==
  ASSUME DeliveryInv, NEW c \in Command,
         \/ HashArtifact(c) \/ EmptyLedger(c) \/ SaveLedger(c) \/ JudgeArtifact(c)
         \/ RestoreRegistry(c) \/ EmptyRegistry(c)
  PROVE  DeliveryInv'
<1>1. ThreadShape /\ workspace' = workspace /\ thread[c].digest \in Digest
  BY DEF DeliveryInv, ThreadShape, HashArtifact, EmptyLedger, SaveLedger, JudgeArtifact,
         RestoreRegistry, EmptyRegistry
<1>2. CASE HashArtifact(c)
  <2> DEFINE h == HashOf(workspace[thread[c].picked].artifact)
  <2>1. thread[c].at = "hash" /\ Step(c, [at |-> "manifest", digest |-> h]) /\ h \in Digest
    BY <1>2 DEF HashArtifact, At, HashOf, Digest
  <2> HIDE DEF h
  <2>2. Moves(c, "manifest", thread[c].picked, thread[c].status, h)
    BY <1>1, <2>1, StepMoves
  <2> QED
    BY <1>1, <2>1, <2>2, MoveNext DEF Choosing, Over
<1>3. CASE EmptyLedger(c)
  <2>1. thread[c].at = "save" /\ Moves(c, "saving", thread[c].picked, thread[c].status, thread[c].digest)
    BY <1>1, <1>3, GotoMoves DEF EmptyLedger, At
  <2> QED
    BY <1>1, <2>1, MoveNext DEF Choosing, Over, DeliveryInv, ChosenOnce
<1>4. CASE SaveLedger(c)
  <2>1. /\ thread[c].at = "saving"
        /\ Goto(c, IF Narrowed(c) THEN "restore" ELSE IF TriesAgain(c) THEN "recover" ELSE "done")
    BY <1>4 DEF SaveLedger, At
  <2>2. PICK at \in {"restore", "recover", "done"} :
          Goto(c, at) /\ (at = "recover" => thread[c].status = "blocked")
    BY <2>1 DEF TriesAgain
  <2>3. Moves(c, at, thread[c].picked, thread[c].status, thread[c].digest)
    BY <1>1, <2>2, GotoMoves
  <2>4. thread[c].picked # Nobody => thread[c].status # "blocked"
    BY <2>1 DEF DeliveryInv, ChosenOnce
  <2> QED
    BY <1>1, <2>1, <2>2, <2>3, <2>4, MoveNext DEF Choosing, Over
<1>5. CASE JudgeArtifact(c)
  <2> DEFINE verdict == IF /\ thread[c].status = "completed"
                           /\ ~AcceptanceReady(workspace[thread[c].picked].artifact)
                        THEN "blocked" ELSE thread[c].status
  <2>1. thread[c].at = "judge" /\ Step(c, [at |-> "done", status |-> verdict])
    BY <1>5 DEF JudgeArtifact, At
  <2>2. thread[c].picked \in Work => verdict # "completed"
    BY <1>1 DEF ThreadShape, Workspace, AcceptanceReady
  <2> HIDE DEF verdict
  <2>3. Moves(c, "done", thread[c].picked, verdict, thread[c].digest)
    BY <1>1, <2>1, StepMoves
  <2> QED
    BY <1>1, <2>1, <2>2, <2>3, MoveNext DEF Choosing, Over
<1>6. CASE RestoreRegistry(c)
  <2>1. thread[c].at = "restoring" /\ Moves(c, "judge", thread[c].picked, thread[c].status, thread[c].digest)
    BY <1>1, <1>6, GotoMoves DEF RestoreRegistry, At
  <2> QED
    BY <1>1, <2>1, MoveNext DEF Choosing, Over
<1>7. CASE EmptyRegistry(c)
  <2>1. PICK step \in {"narrow", "repair", "restore"} :
          /\ thread[c].at = step
          /\ Goto(c, CASE step = "narrow"  -> "narrowing"
                       [] step = "repair"  -> "repairing"
                       [] step = "restore" -> "restoring")
    BY <1>7 DEF EmptyRegistry, At
  <2>2. CASE step = "restore"
    <3>1. Moves(c, "restoring", thread[c].picked, thread[c].status, thread[c].digest)
      BY <1>1, <2>1, <2>2, GotoMoves
    <3> QED
      BY <1>1, <2>1, <2>2, <3>1, MoveNext DEF Choosing, Over
  <2>3. CASE step # "restore"
    <3>1. PICK at : Goto(c, at)
      BY <2>1
    <3>2. thread[c].at \in Choosing
      BY <2>1, <2>3 DEF Choosing
    <3> QED
      BY <1>1, <3>1, <3>2, GotoMoves, UnchosenNext
  <2> QED
    BY <2>2, <2>3
<1> QED
  BY <1>2, <1>3, <1>4, <1>5, <1>6, <1>7

LEMMA DeliveryInvNext == DeliveryInv /\ [DeliverablesNext]_deliverables => DeliveryInv'
<1> SUFFICES ASSUME DeliveryInv, [DeliverablesNext]_deliverables PROVE DeliveryInv'
  OBVIOUS
<1>1. CASE SnapshotAges \/ UNCHANGED deliverables
  <2>1. UNCHANGED <<workspace, thread>>
    BY <1>1 DEF SnapshotAges, deliverables
  <2> QED
    BY <2>1 DEF DeliveryInv, ThreadShape, ChosenOnce, ArtifactIsWritten, CompletedIsProven
<1> QED
  BY <1>1, BeforeNext, LoadLedgerNext, FileNext, VerifyNext, AfterNext DEF DeliverablesNext

LEMMA DeliveryInvInit == DeliverablesInit => DeliveryInv
<1> SUFFICES ASSUME DeliverablesInit PROVE DeliveryInv
  OBVIOUS
<1>1. /\ \A c \in Command : thread[c] = Fresh
      /\ DOMAIN thread = Command
  BY DEF DeliverablesInit
<1>2. /\ DOMAIN Fresh = Fields /\ Fresh.digest = "empty" /\ Fresh.picked = Nobody
      /\ Fresh.status = "none"
  BY DEF Fresh, Fields
<1>3. workspace \in [Work -> Workspace] /\ \A w \in Work : workspace[w].artifact = "none"
  BY DEF DeliverablesInit, Workspace, File
<1>4. Nobody \notin Work
  BY DeliverablesAssumption
<1> QED
  BY <1>1, <1>2, <1>3, <1>4
     DEF DeliveryInv, ThreadShape, ChosenOnce, ArtifactIsWritten, CompletedIsProven, Digest

(* A completed candidate has its artifact, and manifest and receipt name its digest, while   *)
(* none fails and none is at work on it; for any number of commands on any candidates.       *)
THEOREM CompletedIsProvenAlways == DeliverablesSpec => []CompletedIsProven
<1>1. DeliveryInv => CompletedIsProven
  BY DEF DeliveryInv
<1> QED
  BY <1>1, DeliveryInvInit, DeliveryInvNext, PTL DEF DeliverablesSpec

-------------------------------------------------------------------------------
(* The types of the deliverable commands.                                                *)

(* The registry is finite, so that one of any candidates has the best score.               *)
LEMMA BestIsOne ==
  ASSUME NEW works \in SUBSET Work, works # {}
  PROVE  Best(works) \in works
<1> DEFINE F == {T \in SUBSET works : T = {} \/ \E w \in T : \A v \in T : Rank[v] <= Rank[w]}
<1>1. IsFiniteSet(works) /\ Rank \in [Work -> Nat]
  BY FS_Subset, DeliverablesAssumption
<1>2. {} \in F
  OBVIOUS
<1>3. ASSUME NEW T \in SUBSET works, NEW x \in works, T \in F, x \notin T PROVE T \cup {x} \in F
  <2>1. CASE T = {}
    BY <1>1, <2>1
  <2>2. CASE T # {}
    <3>1. PICK w \in T : \A v \in T : Rank[v] <= Rank[w]
      BY <1>3, <2>2
    <3>2. \A v \in T \cup {x} : Rank[v] \in Nat
      BY <1>1
    <3>3. CASE Rank[x] <= Rank[w]
      BY <3>1, <3>3
    <3>4. CASE ~(Rank[x] <= Rank[w])
      <4>1. \A v \in T \cup {x} : Rank[v] <= Rank[x]
        BY <3>1, <3>2, <3>4
      <4> QED
        BY <4>1
    <3> QED
      BY <3>3, <3>4
  <2> QED
    BY <2>1, <2>2
<1> HIDE DEF F
<1>4. works \in F
  BY <1>1, <1>2, <1>3, Grows
<1> USE DEF F
<1> QED
  BY <1>4 DEF Best

(* A thread that narrows the registry has one to narrow.                                   *)
NarrowsOne == \A c \in Command : thread[c].at \in {"narrow", "narrowing"} => thread[c].payload \in Registry

DeliverablesInv == DeliverablesTypeOK /\ NarrowsOne

(* A field that a step sets, or the one there was.                                         *)
Becomes(c, fields, f) == IF f \in DOMAIN fields THEN fields[f] ELSE thread[c][f]

LEMMA ThreadFields ==
  ASSUME thread \in [Command -> Thread], NEW c \in Command
  PROVE  /\ DOMAIN thread[c] = Fields
         /\ thread[c].at \in Steps /\ thread[c].kind \in {"cash", "market"}
         /\ thread[c].payload \in Registry \cup {Torn} /\ thread[c].local \in BOOLEAN
         /\ thread[c].found \in Registry \cup {Torn} /\ thread[c].book \in Earnings
         /\ thread[c].picked \in Work \cup {Nobody} /\ thread[c].digest \in Digest
         /\ thread[c].status \in {"none", "blocked", "failed", "completed"}
         /\ thread[c].retryable \in BOOLEAN
<1>1. thread[c] \in Thread
  OBVIOUS
<1> QED
  BY <1>1 DEF Thread, Fields

LEMMA StepTyped ==
  ASSUME thread \in [Command -> Thread], NEW c \in Command, NEW fields, Step(c, fields),
         Becomes(c, fields, "at") \in Steps, Becomes(c, fields, "kind") \in {"cash", "market"},
         Becomes(c, fields, "payload") \in Registry \cup {Torn}, Becomes(c, fields, "local") \in BOOLEAN,
         Becomes(c, fields, "found") \in Registry \cup {Torn}, Becomes(c, fields, "book") \in Earnings,
         Becomes(c, fields, "picked") \in Work \cup {Nobody}, Becomes(c, fields, "digest") \in Digest,
         Becomes(c, fields, "status") \in {"none", "blocked", "failed", "completed"},
         Becomes(c, fields, "retryable") \in BOOLEAN
  PROVE  /\ thread' \in [Command -> Thread]
         /\ thread'[c].at = Becomes(c, fields, "at")
         /\ thread'[c].payload = Becomes(c, fields, "payload")
         /\ \A d \in Command \ {c} : thread'[d] = thread[d]
<1> DEFINE r == [f \in DOMAIN thread[c] |-> IF f \in DOMAIN fields THEN fields[f] ELSE thread[c][f]]
<1>1. r = [f \in Fields |-> Becomes(c, fields, f)]
  BY ThreadFields DEF Becomes
<1>2. r = [at |-> Becomes(c, fields, "at"), kind |-> Becomes(c, fields, "kind"),
           payload |-> Becomes(c, fields, "payload"), local |-> Becomes(c, fields, "local"),
           found |-> Becomes(c, fields, "found"), book |-> Becomes(c, fields, "book"),
           picked |-> Becomes(c, fields, "picked"), digest |-> Becomes(c, fields, "digest"),
           status |-> Becomes(c, fields, "status"), retryable |-> Becomes(c, fields, "retryable")]
  <2> HIDE DEF r
  <2> QED
    BY <1>1 DEF Fields
<1>3. thread' = [thread EXCEPT ![c] = r]
  BY DEF Step
<1> HIDE DEF r
<1>4. r \in Thread /\ r.at = Becomes(c, fields, "at") /\ r.payload = Becomes(c, fields, "payload")
  BY <1>2 DEF Thread
<1> QED
  BY <1>3, <1>4

LEMMA GotoTyped ==
  ASSUME thread \in [Command -> Thread], NEW c \in Command, NEW step \in Steps, Goto(c, step)
  PROVE  /\ thread' \in [Command -> Thread]
         /\ thread'[c].at = step /\ thread'[c].payload = thread[c].payload
         /\ \A d \in Command \ {c} : thread'[d] = thread[d]
<1> DEFINE r == [thread[c] EXCEPT !.at = step]
<1>1. thread[c] \in Thread
  OBVIOUS
<1>2. r \in Thread /\ r.at = step /\ r.payload = thread[c].payload
  BY <1>1 DEF Thread
<1>3. thread' = [thread EXCEPT ![c] = r]
  BY DEF Goto
<1> HIDE DEF r
<1> QED
  BY <1>2, <1>3

(* What the step of a thread leaves to show.                                               *)
ThreadsFit == thread \in [Command -> Thread] /\ NarrowsOne

LEMMA StepFits ==
  ASSUME ThreadsFit, NEW c \in Command, NEW fields, Step(c, fields),
         Becomes(c, fields, "at") \in Steps, Becomes(c, fields, "kind") \in {"cash", "market"},
         Becomes(c, fields, "payload") \in Registry \cup {Torn}, Becomes(c, fields, "local") \in BOOLEAN,
         Becomes(c, fields, "found") \in Registry \cup {Torn}, Becomes(c, fields, "book") \in Earnings,
         Becomes(c, fields, "picked") \in Work \cup {Nobody}, Becomes(c, fields, "digest") \in Digest,
         Becomes(c, fields, "status") \in {"none", "blocked", "failed", "completed"},
         Becomes(c, fields, "retryable") \in BOOLEAN,
         Becomes(c, fields, "at") \in {"narrow", "narrowing"} => Becomes(c, fields, "payload") \in Registry
  PROVE  ThreadsFit'
<1>1. /\ thread' \in [Command -> Thread]
      /\ thread'[c].at = Becomes(c, fields, "at")
      /\ thread'[c].payload = Becomes(c, fields, "payload")
      /\ \A d \in Command \ {c} : thread'[d] = thread[d]
  BY StepTyped DEF ThreadsFit
<1> QED
  BY <1>1 DEF ThreadsFit, NarrowsOne

LEMMA GotoFits ==
  ASSUME ThreadsFit, NEW c \in Command, NEW step \in Steps, Goto(c, step),
         step \in {"narrow", "narrowing"} => thread[c].payload \in Registry
  PROVE  ThreadsFit'
<1>1. /\ thread' \in [Command -> Thread]
      /\ thread'[c].at = step /\ thread'[c].payload = thread[c].payload
      /\ \A d \in Command \ {c} : thread'[d] = thread[d]
  BY GotoTyped DEF ThreadsFit
<1> QED
  BY <1>1 DEF ThreadsFit, NarrowsOne

(* The steps before the choice.                                                            *)
LEMMA ReadFits ==
  ASSUME DeliverablesInv, NEW c \in Command,
         \/ \E kind \in {"cash", "market"} : Begin(c, kind)
         \/ ReadForCash(c) \/ ReadForMarket(c) \/ LoadCandidates(c)
  PROVE  DeliverablesInv'
<1>1. ThreadsFit /\ registry \in Registry \cup {Torn}
  BY DEF DeliverablesInv, DeliverablesTypeOK, ThreadsFit
<1>2. UNCHANGED <<registry, snapshot, earnings, workspace>>
  BY DEF Begin, ReadForCash, ReadForMarket, LoadCandidates
<1>a. {"read", "done", "narrow", "repair", "load", "recover", "ledger"} \subseteq Steps
  BY DEF Steps
<1>3. ThreadsFit'
  <2>1. CASE \E kind \in {"cash", "market"} : Begin(c, kind)
    <3>1. PICK kind \in {"cash", "market"} : Step(c, [at |-> "read", kind |-> kind])
      BY <2>1 DEF Begin
    <3> QED
      BY <1>1, <1>a, <3>1, StepFits, ThreadFields DEF ThreadsFit, Becomes
  <2>2. CASE ReadForCash(c)
    <3>1. CASE Goto(c, "load")
      BY <1>1, <1>a, <3>1, GotoFits
    <3>2. CASE Step(c, [at |-> "done", status |-> "blocked"])
      BY <1>1, <1>a, <3>2, StepFits, ThreadFields DEF ThreadsFit, Becomes
    <3>3. CASE registry # Torn /\ Step(c, [at |-> "narrow", payload |-> registry])
      BY <1>1, <1>a, <3>3, StepFits, ThreadFields DEF ThreadsFit, Becomes
    <3> QED
      BY <2>2, <3>1, <3>2, <3>3 DEF ReadForCash
  <2>3. CASE ReadForMarket(c)
    <3>1. CASE Goto(c, "load")
      BY <1>1, <1>a, <3>1, GotoFits
    <3>2. CASE Goto(c, "recover")
      BY <1>1, <1>a, <3>2, GotoFits
    <3>3. CASE /\ registry # Torn
               /\ Step(c, [at |-> "repair", payload |-> [registry EXCEPT !.normal = TRUE],
                           local |-> FALSE])
      <4> DEFINE repaired == [registry EXCEPT !.normal = TRUE]
      <4>1. repaired \in Registry
        BY <1>1, <3>3 DEF Registry
      <4> HIDE DEF repaired
      <4>2. Step(c, [at |-> "repair", payload |-> repaired, local |-> FALSE])
        BY <3>3 DEF repaired
      <4> QED
        BY <1>1, <1>a, <4>1, <4>2, StepFits, ThreadFields DEF ThreadsFit, Becomes
    <3> QED
      BY <2>3, <3>1, <3>2, <3>3 DEF ReadForMarket
  <2>4. CASE LoadCandidates(c)
    <3>1. Step(c, [at |-> "ledger", found |-> registry])
      BY <2>4 DEF LoadCandidates
    <3> QED
      BY <1>1, <1>a, <3>1, StepFits, ThreadFields DEF ThreadsFit, Becomes
  <2> QED
    BY <2>1, <2>2, <2>3, <2>4
<1> QED
  BY <1>2, <1>3 DEF DeliverablesInv, DeliverablesTypeOK, ThreadsFit

LEMMA RegistryFits ==
  ASSUME DeliverablesInv, NEW c \in Command,
         EmptyRegistry(c) \/ NarrowRegistry(c) \/ RepairRegistry(c) \/ RestoreRegistry(c)
  PROVE  DeliverablesInv'
<1>1. ThreadsFit
  BY DEF DeliverablesInv, DeliverablesTypeOK, ThreadsFit
<1>2. UNCHANGED <<snapshot, earnings, workspace>>
  BY DEF EmptyRegistry, NarrowRegistry, RepairRegistry, RestoreRegistry
<1>a. {"narrowing", "repairing", "restoring", "load", "judge"} \subseteq Steps
  BY DEF Steps
<1>3. CASE EmptyRegistry(c)
  <2>1. \E step \in {"narrowing", "repairing", "restoring"} :
          Goto(c, step) /\ (step = "narrowing" => thread[c].at = "narrow")
    BY <1>3 DEF EmptyRegistry, At
  <2>2. ThreadsFit'
    BY <1>1, <1>a, <2>1, GotoFits DEF ThreadsFit, NarrowsOne
  <2> QED
    BY <1>2, <1>3, <2>2 DEF EmptyRegistry, DeliverablesInv, DeliverablesTypeOK, ThreadsFit
<1>4. CASE NarrowRegistry(c)
  <2>1. thread[c].payload \in Registry /\ Goto(c, "load")
    BY <1>1, <1>4 DEF NarrowRegistry, At, ThreadsFit, NarrowsOne
  <2>2. registry' \in Registry
    BY <1>4, <2>1 DEF NarrowRegistry, Registry
  <2>3. ThreadsFit'
    BY <1>1, <1>a, <2>1, GotoFits
  <2> QED
    BY <1>2, <2>2, <2>3 DEF DeliverablesInv, DeliverablesTypeOK, ThreadsFit
<1>5. CASE RepairRegistry(c) \/ RestoreRegistry(c)
  <2>1. registry' \in Registry \cup {Torn} /\ (Goto(c, "load") \/ Goto(c, "judge"))
    BY <1>1, <1>5, ThreadFields DEF RepairRegistry, RestoreRegistry, ThreadsFit
  <2>2. ThreadsFit'
    BY <1>1, <1>a, <2>1, GotoFits
  <2> QED
    BY <1>2, <2>1, <2>2 DEF DeliverablesInv, DeliverablesTypeOK, ThreadsFit
<1> QED
  BY <1>3, <1>4, <1>5

LEMMA RecoverFits ==
  ASSUME DeliverablesInv, NEW c \in Command,
         RecoverSnapshot(c) \/ RecoverByScouting(c) \/ RecoverNothing(c)
  PROVE  DeliverablesInv'
<1>1. ThreadsFit /\ snapshot \in [registry : Registry \cup {Torn}, fresh : BOOLEAN]
  BY DEF DeliverablesInv, DeliverablesTypeOK, ThreadsFit
<1>2. UNCHANGED <<registry, earnings, workspace>>
  BY DEF RecoverSnapshot, RecoverByScouting, RecoverNothing
<1>a. {"repair", "load"} \subseteq Steps
  BY DEF Steps
<1>3. ASSUME NEW found \in Registry \cup {Torn},
             Step(c, [at |-> "repair", payload |-> found, local |-> FALSE])
      PROVE  ThreadsFit'
  BY <1>1, <1>a, <1>3, StepFits, ThreadFields DEF ThreadsFit, Becomes
<1>4. CASE RecoverSnapshot(c)
  <2>1. snapshot.registry \in Registry \cup {Torn}
    BY <1>1
  <2>2. ThreadsFit' /\ UNCHANGED snapshot
    BY <1>3, <1>4, <2>1 DEF RecoverSnapshot
  <2> QED
    BY <1>2, <2>2 DEF DeliverablesInv, DeliverablesTypeOK, ThreadsFit
<1>5. CASE RecoverByScouting(c)
  <2>1. PICK items \in Scouted :
          /\ Step(c, [at |-> "repair", payload |-> [items |-> items, normal |-> TRUE],
                      local |-> FALSE])
          /\ \/ snapshot' = [registry |-> [items |-> items, normal |-> TRUE], fresh |-> TRUE]
             \/ UNCHANGED snapshot
    BY <1>5 DEF RecoverByScouting
  <2> DEFINE scouted == [items |-> items, normal |-> TRUE]
  <2>2. scouted \in Registry
    BY DeliverablesAssumption DEF Registry
  <2> HIDE DEF scouted
  <2>3. /\ Step(c, [at |-> "repair", payload |-> scouted, local |-> FALSE])
        /\ snapshot' = [registry |-> scouted, fresh |-> TRUE] \/ UNCHANGED snapshot
    BY <2>1 DEF scouted
  <2>4. ThreadsFit'
    BY <1>3, <2>2, <2>3
  <2>5. snapshot' \in [registry : Registry \cup {Torn}, fresh : BOOLEAN]
    <3>1. CASE snapshot' = [registry |-> scouted, fresh |-> TRUE]
      BY <2>2, <3>1
    <3>2. CASE UNCHANGED snapshot
      BY <1>1, <3>2
    <3> QED
      BY <2>3, <3>1, <3>2
  <2> QED
    BY <1>2, <2>4, <2>5 DEF DeliverablesInv, DeliverablesTypeOK, ThreadsFit
<1>6. CASE RecoverNothing(c)
  <2>1. Step(c, [at |-> "load", local |-> FALSE]) /\ UNCHANGED snapshot
    BY <1>6 DEF RecoverNothing
  <2>2. ThreadsFit'
    BY <1>1, <1>a, <2>1, StepFits, ThreadFields DEF ThreadsFit, Becomes
  <2> QED
    BY <1>2, <2>1, <2>2 DEF DeliverablesInv, DeliverablesTypeOK, ThreadsFit
<1> QED
  BY <1>4, <1>5, <1>6

LEMMA ChoiceFits ==
  ASSUME DeliverablesInv, NEW c \in Command, LoadLedger(c)
  PROVE  DeliverablesInv'
<1>1. ThreadsFit /\ earnings \in Earnings \cup {Torn} /\ NoEarnings \in Earnings
  BY DEF DeliverablesInv, DeliverablesTypeOK, ThreadsFit, NoEarnings, Earnings
<1>2. UNCHANGED <<registry, snapshot, earnings, workspace>>
  BY DEF LoadLedger
<1>a. {"save", "artifact"} \subseteq Steps
  BY DEF Steps
<1>3. ASSUME NEW rows \in Earnings, NEW again \in BOOLEAN,
             Step(c, [at |-> "save", book |-> rows, status |-> "blocked", retryable |-> again])
      PROVE  ThreadsFit'
  BY <1>1, <1>a, <1>3, StepFits, ThreadFields DEF ThreadsFit, Becomes
<1>4. ASSUME NEW rows \in Earnings, NEW w \in Work,
             Step(c, [at |-> "artifact", book |-> rows, picked |-> w])
      PROVE  ThreadsFit'
  BY <1>1, <1>a, <1>4, StepFits, ThreadFields DEF ThreadsFit, Becomes
<1>5. ThreadsFit'
  <2> DEFINE rows == IF earnings = Torn THEN NoEarnings ELSE earnings
             found == thread[c].found
  <2>1. rows \in Earnings /\ found \in Registry \cup {Torn}
    BY <1>1, ThreadFields DEF ThreadsFit
  <2>2. \/ \E again \in BOOLEAN :
             Step(c, [at |-> "save", book |-> rows, status |-> "blocked", retryable |-> again])
        \/ /\ found # Torn /\ Eligible(found) # {}
           /\ Step(c, [at |-> "artifact", book |-> rows, picked |-> Best(Eligible(found))])
    BY DEF LoadLedger
  <2> HIDE DEF rows
  <2>3. CASE \E again \in BOOLEAN :
               Step(c, [at |-> "save", book |-> rows, status |-> "blocked", retryable |-> again])
    BY <1>3, <2>1, <2>3
  <2>4. CASE /\ found # Torn /\ Eligible(found) # {}
             /\ Step(c, [at |-> "artifact", book |-> rows, picked |-> Best(Eligible(found))])
    <3>1. Eligible(found) \in SUBSET Work
      BY <2>1, <2>4 DEF Eligible, Registry
    <3>2. Best(Eligible(found)) \in Work
      BY <2>4, <3>1, BestIsOne
    <3> QED
      BY <1>4, <2>1, <2>4, <3>2
  <2> QED
    BY <2>2, <2>3, <2>4
<1> QED
  BY <1>2, <1>5 DEF DeliverablesInv, DeliverablesTypeOK, ThreadsFit

(* The files of the candidate.                                                            *)
LEMMA PutFits ==
  ASSUME workspace \in [Work -> Workspace], NEW c \in Command, NEW field, NEW value,
         \/ field = "artifact" /\ value \in {"torn", "draft"}
         \/ field \in {"manifest", "receipt"} /\ value \in File,
         Put(c, field, value)
  PROVE  workspace' \in [Work -> Workspace]
<1> DEFINE w == thread[c].picked
           files == [workspace[w] EXCEPT ![field] = value]
<1>1. workspace' = [workspace EXCEPT ![w] = files]
  BY DEF Put
<1>2. ASSUME w \in Work PROVE files \in Workspace
  <2>1. workspace[w] \in Workspace
    BY <1>2
  <2> QED
    BY <2>1 DEF Workspace
<1> HIDE DEF files, w
<1> QED
  BY <1>1, <1>2

LEMMA FilesFit ==
  ASSUME DeliverablesInv, NEW c \in Command, EmptyFile(c) \/ WriteFile(c)
  PROVE  DeliverablesInv'
<1>1. ThreadsFit /\ workspace \in [Work -> Workspace] /\ thread[c].digest \in File
      /\ "torn" \in File
  BY ThreadFields DEF DeliverablesInv, DeliverablesTypeOK, ThreadsFit, File
<1>2. UNCHANGED <<registry, snapshot, earnings>>
  BY DEF EmptyFile, WriteFile
<1>3. \E step \in {"drafting", "listing", "signing", "hash", "receipt", "verify"} : Goto(c, step)
  BY DEF EmptyFile, WriteFile
<1>4. ThreadsFit'
  BY <1>1, <1>3, GotoFits DEF Steps
<1>5. \E field, value : /\ Put(c, field, value)
                        /\ \/ field = "artifact" /\ value \in {"torn", "draft"}
                           \/ field \in {"manifest", "receipt"} /\ value \in File
  BY <1>1 DEF EmptyFile, WriteFile
<1>6. workspace' \in [Work -> Workspace]
  BY <1>1, <1>5, PutFits
<1> QED
  BY <1>2, <1>4, <1>6 DEF DeliverablesInv, DeliverablesTypeOK, ThreadsFit

LEMMA OutcomeFits ==
  ASSUME DeliverablesInv, NEW c \in Command,
         HashArtifact(c) \/ VerifyReceipt(c) \/ JudgeArtifact(c)
  PROVE  DeliverablesInv'
<1>1. ThreadsFit
  BY DEF DeliverablesInv, DeliverablesTypeOK, ThreadsFit
<1>2. UNCHANGED <<registry, snapshot, earnings, workspace>>
  BY DEF HashArtifact, VerifyReceipt, JudgeArtifact
<1>a. {"manifest", "save", "done"} \subseteq Steps
  BY DEF Steps
<1>3. ThreadsFit'
  <2>1. CASE HashArtifact(c)
    <3>1. PICK hash \in Digest : Step(c, [at |-> "manifest", digest |-> hash])
      BY <2>1 DEF HashArtifact, HashOf, Digest
    <3> QED
      BY <1>1, <1>a, <3>1, StepFits, ThreadFields DEF ThreadsFit, Becomes
  <2>2. CASE VerifyReceipt(c)
    <3>1. CASE Step(c, [at |-> "save", status |-> "failed"])
      BY <1>1, <1>a, <3>1, StepFits, ThreadFields DEF ThreadsFit, Becomes
    <3>2. CASE Step(c, [at |-> "save", status |-> "completed",
                        book |-> [thread[c].book EXCEPT !.done = @ + 1]])
      <4> DEFINE rows == [thread[c].book EXCEPT !.done = @ + 1]
      <4>1. thread[c].book \in Earnings
        BY <1>1, ThreadFields DEF ThreadsFit
      <4>2. rows \in Earnings
        BY <4>1 DEF Earnings
      <4> HIDE DEF rows
      <4>3. Step(c, [at |-> "save", status |-> "completed", book |-> rows])
        BY <3>2 DEF rows
      <4> QED
        BY <1>1, <1>a, <4>2, <4>3, StepFits, ThreadFields DEF ThreadsFit, Becomes
    <3> QED
      BY <2>2, <3>1, <3>2 DEF VerifyReceipt
  <2>3. CASE JudgeArtifact(c)
    <3>1. PICK st \in {"none", "blocked", "failed", "completed"} :
            Step(c, [at |-> "done", status |-> st])
      BY <1>1, <2>3, ThreadFields DEF JudgeArtifact, ThreadsFit
    <3> QED
      BY <1>1, <1>a, <3>1, StepFits, ThreadFields DEF ThreadsFit, Becomes
  <2> QED
    BY <2>1, <2>2, <2>3
<1> QED
  BY <1>2, <1>3 DEF DeliverablesInv, DeliverablesTypeOK, ThreadsFit

LEMMA LedgerFits ==
  ASSUME DeliverablesInv, NEW c \in Command, EmptyLedger(c) \/ SaveLedger(c)
  PROVE  DeliverablesInv'
<1>1. ThreadsFit
  BY DEF DeliverablesInv, DeliverablesTypeOK, ThreadsFit
<1>2. UNCHANGED <<registry, snapshot, workspace>> /\ earnings' \in Earnings \cup {Torn}
  BY <1>1, ThreadFields DEF EmptyLedger, SaveLedger, ThreadsFit
<1>3. \E step \in {"saving", "restore", "recover", "done"} : Goto(c, step)
  BY DEF EmptyLedger, SaveLedger
<1>4. ThreadsFit'
  BY <1>1, <1>3, GotoFits DEF Steps
<1> QED
  BY <1>2, <1>4 DEF DeliverablesInv, DeliverablesTypeOK, ThreadsFit

LEMMA DeliverablesInvNext ==
  DeliverablesInv /\ [DeliverablesNext]_deliverables => DeliverablesInv'
<1> SUFFICES ASSUME DeliverablesInv, [DeliverablesNext]_deliverables PROVE DeliverablesInv'
  OBVIOUS
<1>1. CASE UNCHANGED deliverables
  BY <1>1 DEF deliverables, DeliverablesInv, DeliverablesTypeOK, NarrowsOne
<1>2. CASE SnapshotAges
  BY <1>2 DEF SnapshotAges, DeliverablesInv, DeliverablesTypeOK, NarrowsOne
<1> QED
  BY <1>1, <1>2, ReadFits, RegistryFits, RecoverFits, ChoiceFits, FilesFit, OutcomeFits, LedgerFits
     DEF DeliverablesNext

LEMMA DeliverablesInvInit == DeliverablesInit => DeliverablesInv
<1> SUFFICES ASSUME DeliverablesInit PROVE DeliverablesInv
  OBVIOUS
<1>1. registry \in Registry \cup {Torn}
  <2>1. [items |-> Work, normal |-> FALSE] \in Registry
    BY DEF Registry
  <2> QED
    BY <2>1 DEF DeliverablesInit
<1>2. snapshot \in [registry : Registry \cup {Torn}, fresh : BOOLEAN]
  BY DEF DeliverablesInit
<1>3. NoEarnings \in Earnings /\ earnings \in Earnings
  BY DEF DeliverablesInit, Earnings, NoEarnings
<1>4. workspace \in [Work -> Workspace]
  BY DEF DeliverablesInit, Workspace, File
<1>5. Fresh \in Thread /\ Fresh.at = "start"
  BY <1>3 DEF Fresh, Thread, Steps, Digest
<1>6. thread \in [Command -> Thread] /\ NarrowsOne
  BY <1>5 DEF DeliverablesInit, NarrowsOne
<1> QED
  BY <1>1, <1>2, <1>3, <1>4, <1>6 DEF DeliverablesInv, DeliverablesTypeOK

(* The files and the threads keep their shape, whatever the public search finds and           *)
(* whichever of the files a thread reads while another one writes it.                     *)
THEOREM DeliverablesTypeCorrect == DeliverablesSpec => []DeliverablesTypeOK
<1>1. DeliverablesInv => DeliverablesTypeOK
  BY DEF DeliverablesInv
<1> QED
  BY <1>1, DeliverablesInvInit, DeliverablesInvNext, PTL DEF DeliverablesSpec

--------------------------------------------------------------------------------
(***************************************************************************)
(* Proofs about Cycles, for any number of callers at the same time and any set   *)
(* of cycles.                                                                   *)
(***************************************************************************)

Place == {"off", "look", "decide", "check", "write", "told"}
Entry == [at : Place, wish : Wish \cup {NoRecord}, record : Written \cup {NoRecord}]

(* A caller under way has a wish.                                              *)
Shape ==
  /\ cycles \in [Lane -> [Cycle -> Written \cup {NoRecord}]]
  /\ asked \in [Asker -> Entry]
  /\ \A a \in Asker : asked[a].at # "off" => asked[a].wish \in Wish

IInv == Shape /\ AnswerIsStored

LEMMA WishShape == \A w \in Wish : w.lane \in Lane /\ w.cycle \in Cycle
  BY DEF Wish, Lane

LEMMA DecisionIsOutcome ==
  \A w \in Wish : Autonomous(w) \in Outcome /\ Initiative(w) \in Outcome
  BY DEF Autonomous, Initiative, Outcome

LEMMA StoredShape ==
  ASSUME Shape, NEW a \in Asker, asked[a].at # "off"
  PROVE  Stored(a) \in Written \cup {NoRecord} /\ asked[a].wish \in Wish
  BY WishShape DEF Shape, Stored

LEMMA EntryShape ==
  ASSUME Shape, NEW a \in Asker
  PROVE  asked[a] \in Entry /\ asked[a].record \in Written \cup {NoRecord}
  BY DEF Shape, Entry

(* A caller goes on: its place, and maybe its record, changes.                 *)
Goes(a, at, r) ==
  /\ asked' \in [Asker -> Entry]
  /\ asked'[a].at = at /\ asked'[a].wish = asked[a].wish /\ asked'[a].record = r
  /\ \A b \in Asker \ {a} : asked'[b] = asked[b]

LEMMA PlaceNext ==
  ASSUME Shape, NEW a \in Asker, NEW at \in Place, asked' = [asked EXCEPT ![a].at = at]
  PROVE  Goes(a, at, asked[a].record)
<1>1. asked[a] \in Entry
  BY EntryShape
<1> DEFINE e == [asked[a] EXCEPT !.at = at]
<1>2. e \in Entry /\ e.at = at /\ e.wish = asked[a].wish /\ e.record = asked[a].record
  BY <1>1 DEF Entry
<1>3. asked' = [asked EXCEPT ![a] = e]
  BY DEF Shape
<1> HIDE DEF e
<1> QED
  BY <1>2, <1>3 DEF Goes, Shape

LEMMA RecordNext ==
  ASSUME Shape, NEW a \in Asker, NEW at \in Place, NEW r \in Written \cup {NoRecord},
         asked' = [asked EXCEPT ![a].at = at, ![a].record = r]
  PROVE  Goes(a, at, r)
<1>1. asked[a] \in Entry
  BY EntryShape
<1> DEFINE e == [asked[a] EXCEPT !.at = at, !.record = r]
<1>2. e \in Entry /\ e.at = at /\ e.wish = asked[a].wish /\ e.record = r
  BY <1>1 DEF Entry
<1>3. asked' = [asked EXCEPT ![a] = e]
  BY DEF Shape
<1> HIDE DEF e
<1> QED
  BY <1>2, <1>3 DEF Goes, Shape

LEMMA AnswerNext ==
  ASSUME Shape, NEW a \in Asker, NEW r \in Written \cup {NoRecord}, Answer(a, r)
  PROVE  Goes(a, "told", r)
<1>1. "told" \in Place
  BY DEF Place
<1>2. asked' = [asked EXCEPT ![a].at = "told", ![a].record = r]
  BY DEF Answer
<1> QED
  BY <1>1, <1>2, RecordNext

LEMMA EntryNext ==
  ASSUME Shape, NEW a \in Asker, asked[a].at # "off", NEW at, NEW r, Goes(a, at, r),
         cycles' \in [Lane -> [Cycle -> Written \cup {NoRecord}]]
  PROVE  Shape'
  BY StoredShape DEF Shape, Goes

(* What is stored for an initiative stays; so do the answers that name it.     *)
Kept ==
  \A y \in Cycle : cycles["initiative"][y] # NoRecord
                     => cycles'["initiative"][y] = cycles["initiative"][y]

LEMMA ToldNext ==
  ASSUME IInv, Shape', Kept, NEW a \in Asker,
         \A b \in Asker \ {a} : asked'[b] = asked[b],
         asked'[a].at = "told" /\ asked'[a].wish.lane = "initiative" /\ asked'[a].record # NoRecord
           => asked'[a].record = Stored(a)'
  PROVE  AnswerIsStored'
<1> SUFFICES ASSUME NEW b \in Asker, asked'[b].at = "told",
                    asked'[b].wish.lane = "initiative", asked'[b].record # NoRecord
             PROVE  asked'[b].record = Stored(b)'
  BY DEF AnswerIsStored
<1>1. CASE b = a
  BY <1>1
<1>2. CASE b # a
  <2>1. asked'[b] = asked[b]
    BY <1>2
  <2>2. asked[b].record = cycles["initiative"][asked[b].wish.cycle]
    BY <2>1 DEF IInv, AnswerIsStored, Stored
  <2>3. asked[b].wish.cycle \in Cycle
    BY <2>1, WishShape DEF IInv, Shape
  <2> QED
    BY <2>1, <2>2, <2>3 DEF Kept, Stored
<1> QED
  BY <1>1, <1>2

(* Writing a caller's record into the documents of its lane.                   *)
LEMMA WriteNext ==
  ASSUME Shape, NEW a \in Asker, asked[a].at # "off", asked[a].record \in Written \cup {NoRecord},
         Write(a)
  PROVE  /\ cycles' \in [Lane -> [Cycle -> Written \cup {NoRecord}]]
         /\ cycles'[asked[a].wish.lane][asked[a].wish.cycle] = asked[a].record
         /\ \A l \in Lane, y \in Cycle :
              l # asked[a].wish.lane \/ y # asked[a].wish.cycle => cycles'[l][y] = cycles[l][y]
<1> DEFINE l == asked[a].wish.lane
           y == asked[a].wish.cycle
<1>1. l \in Lane /\ y \in Cycle
  BY StoredShape, WishShape
<1>2. cycles' = [cycles EXCEPT ![l] = [cycles[l] EXCEPT ![y] = asked[a].record]]
  BY <1>1 DEF Write, Shape
<1> HIDE DEF l, y
<1>3. [cycles[l] EXCEPT ![y] = asked[a].record] \in [Cycle -> Written \cup {NoRecord}]
  BY <1>1 DEF Shape
<1>4. cycles' \in [Lane -> [Cycle -> Written \cup {NoRecord}]]
  BY <1>1, <1>2, <1>3 DEF Shape
<1>5. cycles'[l][y] = asked[a].record
  BY <1>1, <1>2 DEF Shape
<1>6. \A m \in Lane, z \in Cycle : m # l \/ z # y => cycles'[m][z] = cycles[m][z]
  BY <1>1, <1>2 DEF Shape
<1> QED
  BY <1>4, <1>5, <1>6 DEF l, y

LEMMA IInvInit == CyclesInit => IInv
  BY DEF CyclesInit, IInv, Shape, AnswerIsStored, Unasked, Lane, Entry, Place

LEMMA IInvNext == IInv /\ [CyclesNext]_cycling => IInv'
<1> SUFFICES ASSUME IInv, [CyclesNext]_cycling PROVE IInv'
  OBVIOUS
<1>1. CASE UNCHANGED cycling
  BY <1>1 DEF cycling, IInv, Shape, AnswerIsStored, Stored
<1>2. ASSUME NEW a \in Asker, Ask(a) PROVE IInv'
  <2> PICK w \in Wish : asked' = [asked EXCEPT ![a].at = "look", ![a].wish = w]
    BY <1>2 DEF Ask
  <2> DEFINE e == [asked[a] EXCEPT !.at = "look", !.wish = w]
  <2>1. e \in Entry /\ e.at = "look" /\ e.wish = w
    BY EntryShape DEF IInv, Entry, Place
  <2>2. asked' = [asked EXCEPT ![a] = e]
    BY DEF IInv, Shape
  <2> HIDE DEF e
  <2>a. asked \in [Asker -> Entry]
    BY DEF IInv, Shape
  <2>3. UNCHANGED cycles /\ asked'[a].at = "look" /\ asked'[a].wish = w
        /\ asked' \in [Asker -> Entry]
        /\ \A b \in Asker \ {a} : asked'[b] = asked[b]
    BY <1>2, <2>1, <2>2, <2>a DEF Ask
  <2>4. Shape'
    BY <2>3 DEF IInv, Shape
  <2>5. Kept
    BY <2>3 DEF Kept
  <2> QED
    BY <2>3, <2>4, <2>5, ToldNext DEF IInv
<1>3. ASSUME NEW a \in Asker, NEW at, NEW r, asked[a].at # "off", UNCHANGED cycles, Goes(a, at, r),
             at = "told" /\ asked[a].wish.lane = "initiative" /\ r # NoRecord => r = Stored(a)
      PROVE  IInv'
  <2>1. Shape'
    BY <1>3, EntryNext DEF IInv, Shape
  <2>2. Kept
    BY <1>3 DEF Kept
  <2>3. Stored(a)' = Stored(a)
    BY <1>3 DEF Stored, Goes
  <2> QED
    BY <1>3, <2>1, <2>2, <2>3, ToldNext DEF IInv, Goes
<1>4. ASSUME NEW a \in Asker, LookUp(a) PROVE IInv'
  <2>1. Stored(a) \in Written \cup {NoRecord} /\ asked[a].at # "off"
    BY <1>4, StoredShape DEF LookUp, IInv
  <2>2. CASE Answer(a, Stored(a))
    <3>1. Goes(a, "told", Stored(a))
      BY <2>1, <2>2, AnswerNext DEF IInv
    <3> QED
      BY <1>3, <1>4, <2>1, <3>1 DEF LookUp
  <2>3. CASE asked' = [asked EXCEPT ![a].at = "decide"]
    <3>1. Goes(a, "decide", asked[a].record)
      BY <2>3, PlaceNext DEF IInv, Place
    <3> QED
      BY <1>3, <1>4, <2>1, <3>1 DEF LookUp
  <2> QED
    BY <1>4, <2>2, <2>3 DEF LookUp
<1>5. ASSUME NEW a \in Asker, Decide(a) PROVE IInv'
  <2> DEFINE w == asked[a].wish
             r == [status |-> IF w.lane = "autonomous" THEN Autonomous(w) ELSE Initiative(w), by |-> a]
  <2>1. asked[a].at # "off" /\ w \in Wish /\ UNCHANGED cycles
    BY <1>5, StoredShape DEF Decide, IInv
  <2>2. r \in Written
    BY <2>1, DecisionIsOutcome DEF Written
  <2>3. asked' = [asked EXCEPT ![a].at = "check", ![a].record = r]
    BY <1>5 DEF Decide
  <2> HIDE DEF r
  <2>4. Goes(a, "check", r)
    BY <2>2, <2>3, RecordNext DEF IInv, Place
  <2> QED
    BY <1>3, <2>1, <2>4
<1>6. ASSUME NEW a \in Asker, DecisionFails(a) PROVE IInv'
  <2>1. Goes(a, "told", NoRecord)
    BY <1>6, AnswerNext DEF DecisionFails, IInv
  <2> QED
    BY <1>3, <1>6, <2>1 DEF DecisionFails
<1>7. ASSUME NEW a \in Asker, CheckAgain(a) PROVE IInv'
  <2>1. Stored(a) \in Written \cup {NoRecord} /\ asked[a].at # "off" /\ UNCHANGED cycles
        /\ asked[a].record \in Written \cup {NoRecord}
    BY <1>7, StoredShape, EntryShape DEF CheckAgain, IInv
  <2>2. CASE Stored(a) # NoRecord
    <3> DEFINE r == IF asked[a].wish.lane = "autonomous" THEN asked[a].record ELSE Stored(a)
    <3>1. Answer(a, r) /\ r \in Written \cup {NoRecord}
      BY <1>7, <2>1, <2>2 DEF CheckAgain
    <3>2. asked[a].wish.lane = "initiative" => r = Stored(a)
      OBVIOUS
    <3> HIDE DEF r
    <3>3. Goes(a, "told", r)
      BY <3>1, AnswerNext DEF IInv
    <3> QED
      BY <1>3, <2>1, <3>2, <3>3
  <2>3. CASE Stored(a) = NoRecord
    <3>1. asked' = [asked EXCEPT ![a].at = "write"]
      BY <1>7, <2>3 DEF CheckAgain
    <3>2. Goes(a, "write", asked[a].record)
      BY <3>1, PlaceNext DEF IInv, Place
    <3> QED
      BY <1>3, <2>1, <3>2
  <2> QED
    BY <2>2, <2>3
<1>8. ASSUME NEW a \in Asker, asked[a].at # "off", Write(a), Answer(a, asked[a].record),
             asked[a].wish.lane # "initiative" \/ Stored(a) = NoRecord
      PROVE  IInv'
  <2>1. asked[a].record \in Written \cup {NoRecord}
    BY EntryShape DEF IInv
  <2>2. Goes(a, "told", asked[a].record)
    BY <1>8, <2>1, AnswerNext DEF IInv
  <2>3. /\ cycles' \in [Lane -> [Cycle -> Written \cup {NoRecord}]]
        /\ cycles'[asked[a].wish.lane][asked[a].wish.cycle] = asked[a].record
        /\ \A l \in Lane, y \in Cycle :
             l # asked[a].wish.lane \/ y # asked[a].wish.cycle => cycles'[l][y] = cycles[l][y]
    BY <1>8, <2>1, WriteNext DEF IInv
  <2>4. Shape'
    BY <1>8, <2>2, <2>3, EntryNext DEF IInv
  <2>5. Kept
    BY <1>8, <2>3 DEF Kept, Lane, Stored
  <2>6. asked'[a].record = Stored(a)'
    BY <2>2, <2>3 DEF Stored, Goes
  <2> QED
    BY <2>2, <2>4, <2>5, <2>6, ToldNext DEF IInv, Goes
<1>9. ASSUME NEW a \in Asker, Save(a) PROVE IInv'
  BY <1>8, <1>9 DEF Save
<1>10. ASSUME NEW a \in Asker, Create(a) PROVE IInv'
  <2>1. CASE Stored(a) = NoRecord /\ Write(a) /\ Answer(a, asked[a].record)
    BY <1>8, <1>10, <2>1 DEF Create
  <2>2. CASE Answer(a, Stored(a)) /\ UNCHANGED cycles
    <3>1. Stored(a) \in Written \cup {NoRecord} /\ asked[a].at # "off"
      BY <1>10, StoredShape DEF Create, IInv
    <3>2. Goes(a, "told", Stored(a))
      BY <2>2, <3>1, AnswerNext DEF IInv
    <3> QED
      BY <1>3, <2>2, <3>1, <3>2
  <2> QED
    BY <1>10, <2>1, <2>2 DEF Create
<1>11. ASSUME NEW a \in Asker, AppendOnce(a) PROVE IInv'
  <2>1. asked[a].at # "off" /\ asked[a].wish.lane = "local" /\ Answer(a, asked[a].record)
    BY <1>11 DEF AppendOnce
  <2>2. CASE Stored(a) = NoRecord
    BY <1>8, <1>11, <2>1, <2>2 DEF AppendOnce
  <2>3. CASE Stored(a) # NoRecord
    <3>1. Goes(a, "told", asked[a].record)
      BY <2>1, EntryShape, AnswerNext DEF IInv
    <3> QED
      BY <1>3, <1>11, <2>1, <2>3, <3>1 DEF AppendOnce
  <2> QED
    BY <2>2, <2>3
<1> QED
  BY <1>1, <1>2, <1>4, <1>5, <1>6, <1>7, <1>9, <1>10, <1>11 DEF CyclesNext

LEMMA Inductive == CyclesSpec => []IInv
  BY IInvInit, IInvNext, PTL DEF CyclesSpec

(* The documents and the callers keep their shape.                             *)
THEOREM CyclesTypeCorrect == CyclesSpec => []CyclesTypeOK
<1>1. IInv => CyclesTypeOK
  BY DEF IInv, Shape, CyclesTypeOK, Lane, Entry, Place
<1> QED
  BY <1>1, Inductive, PTL

(* However many callers run one initiative cycle at the same time, each is told  *)
(* the record that is stored in Firestore.                                    *)
THEOREM AnswerIsStoredHolds == CyclesSpec => []AnswerIsStored
<1>1. IInv => AnswerIsStored
  BY DEF IInv
<1> QED
  BY <1>1, Inductive, PTL

--------------------------------------------------------------------------------
(* The mentor chat, for every set of requests, notes and calls.                         *)

-------------------------------------------------------------------------------
(* The messages of the session.                                                      *)

TalkRec == [at : {"off", "history", "answer", "corrected", "done"},
            prompt : SUBSET Line, late : Nat]
Asks(t) == [role |-> "user", of |-> t]

(* Where a question is that no prompt has been built for yet: as far from the end as       *)
(* messages came after it.                                                           *)
QuestionIsNear(t) ==
  \E i \in 1 .. Len(session) : session[i] = Asks(t) /\ Len(session) - i <= talk[t].late

TalkInv ==
  /\ session \in Seq(Line) /\ talk \in [Talk -> TalkRec]
  /\ \A t \in Talk : talk[t].at = "history" => QuestionIsNear(t)
  /\ PromptHoldsItsQuestion

LEMMA NewestHolds ==
  ASSUME NEW S, NEW list \in Seq(S), NEW limit \in Nat \ {0}
  PROVE  /\ Range(Newest(list, limit)) \subseteq S
         /\ \A i \in 1 .. Len(list) : Len(list) - i < limit =>
              list[i] \in Range(Newest(list, limit))
<1> DEFINE first == IF Len(list) > limit THEN Len(list) - limit + 1 ELSE 1
           newest == SubSeq(list, first, Len(list))
<1>1. Len(list) \in Nat /\ first \in 1 .. Len(list) + 1
  OBVIOUS
<1>2. \A i \in 1 .. Len(list) : Len(list) - i < limit => i >= first
  BY <1>1
<1>3. Newest(list, limit) = newest
  BY DEF Newest
<1> HIDE DEF first
<1>4. /\ newest \in Seq(S) /\ Len(newest) = Len(list) - first + 1
      /\ \A j \in 1 .. Len(list) - first + 1 : newest[j] = list[first + j - 1]
  BY <1>1, SubSeqProperties
<1> HIDE DEF newest
<1>5. DOMAIN newest = 1 .. Len(newest)
  BY <1>4
<1>6. Range(newest) \subseteq S
  BY <1>4, <1>5, ElementOfSeq DEF Range
<1>7. ASSUME NEW i \in 1 .. Len(list), i >= first PROVE list[i] \in Range(newest)
  <2> DEFINE j == i - first + 1
  <2>1. j \in 1 .. Len(list) - first + 1 /\ first + j - 1 = i
    BY <1>1, <1>7
  <2> HIDE DEF j
  <2>2. j \in DOMAIN newest /\ newest[j] = list[i]
    BY <1>4, <1>5, <2>1
  <2> QED
    BY <2>2 DEF Range
<1> QED
  BY <1>2, <1>3, <1>6, <1>7

LEMMA NewestIsListed ==
  ASSUME NEW S, NEW list \in Seq(S), NEW limit \in Nat \ {0}, NEW x \in Range(Newest(list, limit))
  PROVE  \E i \in DOMAIN list : list[i] = x
<1> DEFINE first == IF Len(list) > limit THEN Len(list) - limit + 1 ELSE 1
           newest == SubSeq(list, first, Len(list))
<1>1. Len(list) \in Nat /\ first \in 1 .. Len(list) + 1 /\ DOMAIN list = 1 .. Len(list)
  OBVIOUS
<1>2. Newest(list, limit) = newest
  BY DEF Newest
<1> HIDE DEF first
<1>3. /\ newest \in Seq(S) /\ Len(newest) = Len(list) - first + 1
      /\ \A j \in 1 .. Len(list) - first + 1 : newest[j] = list[first + j - 1]
  BY <1>1, SubSeqProperties
<1> HIDE DEF newest
<1>4. PICK j \in 1 .. Len(list) - first + 1 : newest[j] = x
  BY <1>2, <1>3 DEF Range
<1>5. first + j - 1 \in DOMAIN list
  BY <1>1
<1> QED
  BY <1>3, <1>4, <1>5

(* A message is saved: t goes on to another place, the others' questions move away.       *)
LEMMA SaysNext ==
  ASSUME TalkInv, NEW t \in Talk, NEW line \in Line, Say(line),
         NEW at \in {"history", "answer", "corrected", "done"},
         at = "history" => line = Asks(t),
         talk' = [u \in Talk |->
                    IF u = t THEN [talk[t] EXCEPT !.at = at]
                    ELSE IF talk[u].at = "history" THEN [talk[u] EXCEPT !.late = @ + 1]
                    ELSE talk[u]]
  PROVE  TalkInv'
<1>1. session \in Seq(Line) /\ talk \in [Talk -> TalkRec] /\ PromptHoldsItsQuestion
  BY DEF TalkInv
<1>2. /\ session' \in Seq(Line) /\ Len(session') = Len(session) + 1 /\ Len(session) \in Nat
      /\ \A i \in 1 .. Len(session) : session'[i] = session[i]
      /\ session'[Len(session) + 1] = line
  BY <1>1, AppendProperties DEF Say
<1>3. ASSUME NEW u \in Talk
      PROVE  /\ talk'[u] \in TalkRec /\ talk'[u].prompt = talk[u].prompt
             /\ u = t => talk'[u].at = at
             /\ u # t => talk'[u].at = talk[u].at
             /\ u # t /\ talk[u].at = "history" => talk'[u].late = talk[u].late + 1
             /\ talk'[u].late >= talk[u].late /\ talk[u].late \in Nat /\ talk'[u].late \in Nat
  <2>1. talk[u] \in TalkRec
    BY <1>1
  <2>2. CASE u = t
    BY <2>1, <2>2 DEF TalkRec
  <2>3. CASE u # t /\ talk[u].at = "history"
    <3> DEFINE e == [talk[u] EXCEPT !.late = @ + 1]
    <3>1. talk[u].late + 1 \in Nat /\ talk[u].late \in Nat
      BY <2>1 DEF TalkRec
    <3>2. e \in TalkRec /\ e.prompt = talk[u].prompt /\ e.at = talk[u].at /\ e.late = talk[u].late + 1
      BY <2>1, <3>1 DEF TalkRec
    <3>3. talk'[u] = e
      BY <2>3
    <3> HIDE DEF e
    <3> QED
      BY <2>3, <3>1, <3>2, <3>3
  <2>4. CASE u # t /\ talk[u].at # "history"
    BY <2>1, <2>4 DEF TalkRec
  <2> QED
    BY <2>2, <2>3, <2>4
<1>4. ASSUME NEW u \in Talk, talk'[u].at = "history" PROVE QuestionIsNear(u)'
  <2>1. CASE u = t
    <3>1. session'[Len(session')] = Asks(u) /\ Len(session') - Len(session') <= talk'[u].late
      <4>1. line = Asks(u)
        BY <1>3, <1>4, <2>1
      <4>2. session'[Len(session')] = line /\ Len(session') \in Nat
        BY <1>2
      <4>3. talk'[u].late \in Nat
        BY <1>3
      <4> QED
        BY <4>1, <4>2, <4>3
    <3>2. Len(session') \in 1 .. Len(session')
      BY <1>2
    <3> QED
      BY <3>1, <3>2 DEF QuestionIsNear
  <2>2. CASE u # t
    <3>1. talk[u].at = "history" /\ talk'[u].late = talk[u].late + 1 /\ talk[u].late \in Nat
      BY <1>3, <1>4, <2>2
    <3>2. PICK i \in 1 .. Len(session) :
            session[i] = Asks(u) /\ Len(session) - i <= talk[u].late
      BY <3>1 DEF TalkInv, QuestionIsNear
    <3>3. i \in 1 .. Len(session') /\ session'[i] = Asks(u) /\ Len(session') - i <= talk'[u].late
      BY <1>2, <3>1, <3>2
    <3> QED
      BY <3>3 DEF QuestionIsNear
  <2> QED
    BY <2>1, <2>2
<1>5. PromptHoldsItsQuestion'
  <2> SUFFICES ASSUME NEW u \in Talk, talk'[u].prompt # {}, talk'[u].late < HistoryLimit
               PROVE  Asks(u) \in talk'[u].prompt
    BY DEF PromptHoldsItsQuestion, Asks
  <2>1. talk[u].late < HistoryLimit /\ talk'[u].prompt = talk[u].prompt
    BY <1>3, MentorAssumption
  <2> QED
    BY <1>1, <2>1 DEF PromptHoldsItsQuestion, Asks
<1>6. talk' \in [Talk -> TalkRec]
  BY <1>3
<1> QED
  BY <1>2, <1>4, <1>5, <1>6 DEF TalkInv

LEMMA HistoryNext ==
  ASSUME TalkInv, NEW t \in Talk, SearchFails(t) \/ ReadHistory(t)
  PROVE  TalkInv'
<1>1. /\ session \in Seq(Line) /\ talk \in [Talk -> TalkRec] /\ PromptHoldsItsQuestion
      /\ session' = session /\ talk[t].at = "history" /\ QuestionIsNear(t)
      /\ HistoryLimit \in Nat \ {0}
  BY MentorAssumption DEF TalkInv, SearchFails, ReadHistory
<1> DEFINE read == Range(Newest(session, HistoryLimit))
<1>2. read \subseteq Line
  BY <1>1, NewestHolds
<1> HIDE DEF read
<1>3. PICK p \in {talk[t].prompt, read} : talk' = [talk EXCEPT ![t].at = "answer", ![t].prompt = p]
  <2>1. CASE SearchFails(t)
    <3>1. talk' = [talk EXCEPT ![t].at = "answer"]
      BY <2>1 DEF SearchFails
    <3>2. talk[t] \in TalkRec
      BY <1>1
    <3>3. [talk[t] EXCEPT !.at = "answer"] = [talk[t] EXCEPT !.at = "answer", !.prompt = talk[t].prompt]
      BY <3>2 DEF TalkRec
    <3>4. talk' = [talk EXCEPT ![t].at = "answer", ![t].prompt = talk[t].prompt]
      BY <1>1, <3>1, <3>3
    <3> QED
      BY <3>4
  <2>2. CASE ReadHistory(t)
    BY <2>2 DEF ReadHistory, read
  <2> QED
    BY <2>1, <2>2
<1>4. /\ talk' \in [Talk -> TalkRec] /\ talk'[t].at = "answer" /\ talk'[t].prompt = p
      /\ talk'[t].late = talk[t].late /\ \A u \in Talk \ {t} : talk'[u] = talk[u]
  <2> DEFINE e == [talk[t] EXCEPT !.at = "answer", !.prompt = p]
  <2>1. talk[t] \in TalkRec /\ p \subseteq Line
    BY <1>1, <1>2 DEF TalkRec
  <2>2. e \in TalkRec /\ e.at = "answer" /\ e.prompt = p /\ e.late = talk[t].late
    BY <2>1 DEF TalkRec
  <2>3. talk' = [talk EXCEPT ![t] = e]
    BY <1>1, <1>3
  <2> HIDE DEF e
  <2> QED
    BY <1>1, <2>2, <2>3
<1>5. talk[t].late < HistoryLimit => Asks(t) \in read
  <2>1. PICK i \in 1 .. Len(session) :
          session[i] = Asks(t) /\ Len(session) - i <= talk[t].late
    BY <1>1 DEF QuestionIsNear
  <2>2. talk[t].late \in Nat /\ Len(session) \in Nat
    BY <1>1 DEF TalkRec
  <2>3. talk[t].late < HistoryLimit => Len(session) - i < HistoryLimit
    BY <1>1, <2>1, <2>2
  <2> QED
    BY <1>1, <2>1, <2>3, NewestHolds DEF read
<1>6. PromptHoldsItsQuestion'
  <2> SUFFICES ASSUME NEW u \in Talk, talk'[u].prompt # {}, talk'[u].late < HistoryLimit
               PROVE  Asks(u) \in talk'[u].prompt
    BY DEF PromptHoldsItsQuestion, Asks
  <2>1. CASE u = t
    BY <1>1, <1>3, <1>4, <1>5, <2>1 DEF PromptHoldsItsQuestion, Asks
  <2>2. CASE u # t
    BY <1>1, <1>4, <2>2 DEF PromptHoldsItsQuestion, Asks
  <2> QED
    BY <2>1, <2>2
<1>7. ASSUME NEW u \in Talk, talk'[u].at = "history" PROVE QuestionIsNear(u)'
  BY <1>1, <1>4, <1>7 DEF TalkInv, QuestionIsNear
<1> QED
  BY <1>1, <1>4, <1>6, <1>7 DEF TalkInv

LEMMA TalkInvNext == TalkInv /\ [MentorNext \/ TalkNext]_mentoring => TalkInv'
<1> SUFFICES ASSUME TalkInv, [MentorNext \/ TalkNext]_mentoring PROVE TalkInv'
  OBVIOUS
<1>1. CASE UNCHANGED <<session, talk>>
  BY <1>1 DEF TalkInv, QuestionIsNear, PromptHoldsItsQuestion
<1>2. CASE MentorNext \/ UNCHANGED mentoring
  <2>1. UNCHANGED <<session, talk>>
    BY <1>2 DEF MentorNext, QueueNote, ListPending, ReadNote, SetReply, PairingEnds, mentoring
  <2> QED
    BY <1>1, <2>1
<1>3. ASSUME NEW t \in Talk, Question(t) \/ AnswerTalk(t) PROVE TalkInv'
  <2>1. CASE Question(t)
    <3>1. Asks(t) \in Line
      BY DEF Asks, Line
    <3>2. PICK next \in {"history", "answer"} :
            talk' = [u \in Talk |->
                       IF u = t THEN [talk[t] EXCEPT !.at = next]
                       ELSE IF talk[u].at = "history" THEN [talk[u] EXCEPT !.late = @ + 1]
                       ELSE talk[u]]
      BY <2>1 DEF Question
    <3>3. Say(Asks(t))
      BY <2>1 DEF Question, Asks
    <3> QED
      BY <3>1, <3>2, <3>3, SaysNext
  <2>2. CASE AnswerTalk(t)
    <3>1. [role |-> "assistant", of |-> t] \in Line /\ Say([role |-> "assistant", of |-> t])
      BY <2>2 DEF AnswerTalk, Line
    <3>2. PICK next \in {"done", "corrected"} :
            talk' = [u \in Talk |->
                       IF u = t THEN [talk[t] EXCEPT !.at = next]
                       ELSE IF talk[u].at = "history" THEN [talk[u] EXCEPT !.late = @ + 1]
                       ELSE talk[u]]
      BY <2>2 DEF AnswerTalk
    <3> QED
      BY <3>1, <3>2, SaysNext
  <2> QED
    BY <1>3, <2>1, <2>2
<1> QED
  BY <1>2, <1>3, HistoryNext DEF TalkNext

LEMMA TalkInvInit == MentorInit => TalkInv
<1>1. <<>> \in Seq(Line)
  OBVIOUS
<1> QED
  BY <1>1 DEF MentorInit, TalkInv, TalkRec, PromptHoldsItsQuestion

(* A prompt holds the question it is to answer, unless as many messages came after it as  *)
(* a prompt holds; for any number of requests at once and any limit.                   *)
THEOREM PromptHoldsItsQuestionAlways == MentorSpec => []PromptHoldsItsQuestion
<1>1. TalkInv => PromptHoldsItsQuestion
  BY DEF TalkInv
<1> QED
  BY <1>1, TalkInvInit, TalkInvNext, PTL DEF MentorSpec

-------------------------------------------------------------------------------
(* The messages for the mentor.                                                       *)

NoteRec == [id : Note, reply : Wording \cup {Silence}]
CallRec == [at : {"off", "call", "write", "kept", "refused"},
            note : Note \cup {Silence}, reply : Wording \cup {Silence}]

NotesFit ==
  /\ notes \in Seq(NoteRec) /\ paired \in BOOLEAN /\ raced \subseteq Note
  /\ mentor \in [Mentor -> CallRec]
  /\ \A i, j \in DOMAIN notes : notes[i].id = notes[j].id => i = j
  /\ \A m \in Mentor : mentor[m].at # "off" =>
       mentor[m].reply \in Wording /\ \E i \in DOMAIN notes : notes[i].id = mentor[m].note

(* A reply about to be set is the only one on its way, and finds no other, unless its      *)
(* message is one that two replies raced for.                                          *)
WriterIsAlone ==
  \A m \in Mentor : mentor[m].at = "write" /\ mentor[m].note \notin raced =>
    /\ \A i \in DOMAIN notes : notes[i].id = mentor[m].note => notes[i].reply = Silence
    /\ \A o \in Mentor \ {m} : mentor[o].at = "write" => mentor[o].note # mentor[m].note

KeptIsThere ==
  \A m \in Mentor : mentor[m].at = "kept" /\ mentor[m].note \notin raced =>
    \A i \in DOMAIN notes : notes[i].id = mentor[m].note => notes[i].reply = mentor[m].reply

NotesInv == NotesFit /\ WriterIsAlone /\ KeptIsThere

LEMMA NoteIsOne ==
  ASSUME NotesFit, NEW m \in Mentor, mentor[m].at # "off"
  PROVE  /\ NoteOf(mentor[m].note) \in DOMAIN notes
         /\ notes[NoteOf(mentor[m].note)].id = mentor[m].note
         /\ \A i \in DOMAIN notes : notes[i].id = mentor[m].note => i = NoteOf(mentor[m].note)
<1>1. \E i \in DOMAIN notes : notes[i].id = mentor[m].note
  BY DEF NotesFit
<1>2. /\ NoteOf(mentor[m].note) \in DOMAIN notes
      /\ notes[NoteOf(mentor[m].note)].id = mentor[m].note
  BY <1>1 DEF NoteOf
<1> QED
  BY <1>2 DEF NotesFit

LEMMA NoteShape ==
  ASSUME NotesFit
  PROVE  /\ DOMAIN notes = 1 .. Len(notes) /\ Len(notes) \in Nat
         /\ \A i \in DOMAIN notes : notes[i] \in NoteRec
         /\ \A m \in Mentor : mentor[m] \in CallRec
  BY DEF NotesFit

LEMMA NoteQueued ==
  ASSUME NotesInv, NEW n \in Note, QueueNote(n) PROVE NotesInv'
<1> DEFINE x == [id |-> n, reply |-> Silence]
<1>1. /\ NotesFit /\ UNCHANGED <<paired, mentor, raced>> /\ notes' = Append(notes, x)
      /\ \A i \in DOMAIN notes : notes[i].id # n
  BY DEF NotesInv, QueueNote
<1>2. x \in NoteRec /\ x.id = n
  BY DEF NoteRec
<1> HIDE DEF x
<1>3. notes \in Seq(NoteRec)
  BY <1>1 DEF NotesFit
<1>4. /\ notes' \in Seq(NoteRec) /\ Len(notes') = Len(notes) + 1 /\ Len(notes) \in Nat
      /\ \A i \in 1 .. Len(notes) : notes'[i] = notes[i]
      /\ notes'[Len(notes) + 1] = x
  BY <1>1, <1>2, <1>3, AppendProperties
<1>5. /\ DOMAIN notes' = DOMAIN notes \cup {Len(notes) + 1}
      /\ Len(notes) + 1 \notin DOMAIN notes /\ DOMAIN notes = 1 .. Len(notes)
  BY <1>3, <1>4
<1>6. \A i \in DOMAIN notes : notes'[i] = notes[i] /\ notes'[i].id # n
  BY <1>1, <1>4, <1>5
<1>7. \A m \in Mentor : mentor[m].at # "off" => mentor[m].note # n
  BY <1>1 DEF NotesFit
<1>8. notes'[Len(notes) + 1].id = n
  BY <1>2, <1>4
<1>9. NotesFit'
  <2>1. \A i, j \in DOMAIN notes' : notes'[i].id = notes'[j].id => i = j
    BY <1>1, <1>5, <1>6, <1>8 DEF NotesFit
  <2>2. \A m \in Mentor : mentor[m].at # "off" =>
          mentor[m].reply \in Wording /\ \E i \in DOMAIN notes' : notes'[i].id = mentor[m].note
    BY <1>1, <1>5, <1>6 DEF NotesFit
  <2> QED
    BY <1>1, <1>4, <2>1, <2>2 DEF NotesFit
<1>10. WriterIsAlone'
  BY <1>1, <1>5, <1>6, <1>7, <1>8 DEF NotesInv, WriterIsAlone
<1>11. KeptIsThere'
  BY <1>1, <1>5, <1>6, <1>7, <1>8 DEF NotesInv, KeptIsThere
<1> QED
  BY <1>9, <1>10, <1>11 DEF NotesInv

(* A call of the mentor goes on: what it replies, and to which message, stays.           *)
LEMMA CallGoes ==
  ASSUME NotesFit, NEW m \in Mentor, mentor[m].at # "off",
         NEW at \in {"call", "write", "kept", "refused"},
         mentor' = [mentor EXCEPT ![m].at = at]
  PROVE  /\ mentor' \in [Mentor -> CallRec]
         /\ mentor'[m].at = at /\ mentor'[m].note = mentor[m].note
         /\ mentor'[m].reply = mentor[m].reply /\ mentor[m].note \in Note
         /\ \A o \in Mentor \ {m} : mentor'[o] = mentor[o]
<1> DEFINE e == [mentor[m] EXCEPT !.at = at]
<1>1. mentor[m] \in CallRec
  BY DEF NotesFit
<1>2. e \in CallRec /\ e.at = at /\ e.note = mentor[m].note /\ e.reply = mentor[m].reply
  BY <1>1 DEF CallRec
<1>3. mentor' = [mentor EXCEPT ![m] = e]
  BY DEF NotesFit
<1>4. mentor[m].note \in Note
  BY NoteIsOne, NoteShape DEF NoteRec
<1> HIDE DEF e
<1> QED
  BY <1>2, <1>3, <1>4 DEF NotesFit

LEMMA ListPendingNext ==
  ASSUME NotesInv, NEW m \in Mentor, ListPending(m) PROVE NotesInv'
<1>1. /\ NotesFit /\ mentor[m].at = "off" /\ UNCHANGED <<notes, paired, raced>>
      /\ notes \in Seq(NoteRec) /\ mentor \in [Mentor -> CallRec]
  BY DEF NotesInv, NotesFit, ListPending
<1>2. PICK n \in Pending : \E w \in Wording :
        mentor' = [mentor EXCEPT ![m] = [at |-> "call", note |-> n.id, reply |-> w]]
  BY DEF ListPending
<1>3. PICK w \in Wording :
        mentor' = [mentor EXCEPT ![m] = [at |-> "call", note |-> n.id, reply |-> w]]
  BY <1>2
<1>4. PICK i \in DOMAIN notes : notes[i] = n
  <2>1. n \in Range(Newest(notes, NotesLimit)) /\ NotesLimit \in Nat \ {0}
    BY MentorAssumption DEF Pending
  <2> QED
    BY <1>1, <2>1, NewestIsListed
<1>5. notes[i] \in NoteRec
  BY <1>1, NoteShape
<1>6. n.id \in Note
  BY <1>4, <1>5 DEF NoteRec
<1> DEFINE e == [at |-> "call", note |-> n.id, reply |-> w]
<1>7. e \in CallRec /\ e.at = "call" /\ e.note = n.id /\ e.reply = w
  BY <1>6 DEF CallRec
<1>8. mentor' = [mentor EXCEPT ![m] = e]
  BY <1>3
<1> HIDE DEF e
<1>9. /\ mentor' \in [Mentor -> CallRec] /\ mentor'[m] = e
      /\ \A o \in Mentor \ {m} : mentor'[o] = mentor[o]
  BY <1>1, <1>7, <1>8
<1>10. NotesFit'
  <2>1. ASSUME NEW o \in Mentor, mentor'[o].at # "off"
        PROVE  mentor'[o].reply \in Wording /\ \E j \in DOMAIN notes : notes[j].id = mentor'[o].note
    BY <1>1, <1>4, <1>7, <1>9, <2>1 DEF NotesFit
  <2> QED
    BY <1>1, <1>9, <2>1 DEF NotesFit
<1>11. WriterIsAlone' /\ KeptIsThere'
  BY <1>1, <1>7, <1>9 DEF NotesInv, WriterIsAlone, KeptIsThere
<1> QED
  BY <1>10, <1>11 DEF NotesInv

LEMMA ReadNoteNext ==
  ASSUME NotesInv, NEW m \in Mentor, ReadNote(m) PROVE NotesInv'
<1> DEFINE old == notes[NoteOf(mentor[m].note)].reply
<1>1. NotesFit /\ mentor[m].at = "call" /\ UNCHANGED <<notes, paired>>
  BY DEF NotesInv, ReadNote
<1>2. /\ mentor[m].reply \in Wording
      /\ \A i \in DOMAIN notes : notes[i].id = mentor[m].note => notes[i].reply = old
  BY <1>1, NoteIsOne DEF NotesFit
<1> HIDE DEF old
<1>3. \/ mentor' = [mentor EXCEPT ![m].at = "refused"] /\ raced' = raced
      \/ old = mentor[m].reply /\ mentor' = [mentor EXCEPT ![m].at = "kept"] /\ raced' = raced
      \/ /\ old = Silence /\ mentor' = [mentor EXCEPT ![m].at = "write"]
         /\ raced' = raced \cup {mentor[o].note : o \in Stale(m)}
  BY DEF ReadNote, old
<1>4. ASSUME NEW at \in {"refused", "kept", "write"}, mentor' = [mentor EXCEPT ![m].at = at],
             raced' \subseteq Note, raced \subseteq raced'
      PROVE  NotesFit'
  <2>1. /\ mentor' \in [Mentor -> CallRec] /\ mentor'[m].note = mentor[m].note
        /\ mentor'[m].reply = mentor[m].reply
        /\ \A o \in Mentor \ {m} : mentor'[o] = mentor[o]
    BY <1>1, <1>4, CallGoes
  <2> QED
    BY <1>1, <1>4, <2>1 DEF NotesFit
<1>5. CASE mentor' = [mentor EXCEPT ![m].at = "refused"] /\ raced' = raced
  <2>1. mentor'[m].at = "refused" /\ \A o \in Mentor \ {m} : mentor'[o] = mentor[o]
    BY <1>1, <1>5, CallGoes
  <2>2. NotesFit'
    BY <1>1, <1>4, <1>5 DEF NotesFit
  <2>3. WriterIsAlone' /\ KeptIsThere'
    BY <1>1, <1>5, <2>1 DEF NotesInv, WriterIsAlone, KeptIsThere
  <2> QED
    BY <2>2, <2>3 DEF NotesInv
<1>6. CASE old = mentor[m].reply /\ mentor' = [mentor EXCEPT ![m].at = "kept"] /\ raced' = raced
  <2>1. /\ mentor'[m].at = "kept" /\ mentor'[m].note = mentor[m].note
        /\ mentor'[m].reply = mentor[m].reply
        /\ \A o \in Mentor \ {m} : mentor'[o] = mentor[o]
    BY <1>1, <1>6, CallGoes
  <2>2. NotesFit'
    BY <1>1, <1>4, <1>6 DEF NotesFit
  <2>3. WriterIsAlone'
    BY <1>1, <1>6, <2>1 DEF NotesInv, WriterIsAlone
  <2>4. KeptIsThere'
    BY <1>1, <1>2, <1>6, <2>1 DEF NotesInv, KeptIsThere
  <2> QED
    BY <2>2, <2>3, <2>4 DEF NotesInv
<1>7. CASE /\ old = Silence /\ mentor' = [mentor EXCEPT ![m].at = "write"]
           /\ raced' = raced \cup {mentor[o].note : o \in Stale(m)}
  <2>1. /\ mentor'[m].at = "write" /\ mentor'[m].note = mentor[m].note
        /\ mentor[m].note \in Note
        /\ \A o \in Mentor \ {m} : mentor'[o] = mentor[o]
    BY <1>1, <1>7, CallGoes
  <2>2. \A o \in Stale(m) : mentor[o].note = mentor[m].note
    BY DEF Stale
  <2>3. NotesFit'
    <3>1. raced' \subseteq Note
      BY <1>1, <1>7, <2>1, <2>2 DEF NotesFit
    <3> QED
      BY <1>4, <1>7, <3>1
  <2>4. \A o \in Mentor \ {m} : mentor[o].at = "write" /\ mentor[o].note = mentor[m].note =>
          mentor[m].note \in raced'
    BY <1>7 DEF Stale
  <2>5. WriterIsAlone'
    <3> SUFFICES ASSUME NEW n \in Mentor, mentor'[n].at = "write", mentor'[n].note \notin raced'
                 PROVE  /\ \A i \in DOMAIN notes : notes[i].id = mentor'[n].note => notes[i].reply = Silence
                        /\ \A o \in Mentor \ {n} : mentor'[o].at = "write" => mentor'[o].note # mentor'[n].note
      BY <1>1 DEF WriterIsAlone
    <3>1. CASE n = m
      BY <1>2, <1>7, <2>1, <2>4, <3>1
    <3>2. CASE n # m
      BY <1>1, <1>7, <2>1, <2>4, <3>2 DEF NotesInv, WriterIsAlone
    <3> QED
      BY <3>1, <3>2
  <2>6. KeptIsThere'
    BY <1>1, <1>7, <2>1 DEF NotesInv, KeptIsThere
  <2> QED
    BY <2>3, <2>5, <2>6 DEF NotesInv
<1> QED
  BY <1>3, <1>5, <1>6, <1>7

LEMMA SetReplyNext ==
  ASSUME NotesInv, NEW m \in Mentor, SetReply(m) PROVE NotesInv'
<1> DEFINE k == NoteOf(mentor[m].note)
           w == mentor[m].reply
           e == [notes[k] EXCEPT !.reply = w]
<1>1. /\ NotesFit /\ mentor[m].at = "write" /\ UNCHANGED <<paired, raced>>
      /\ mentor' = [mentor EXCEPT ![m].at = "kept"] /\ notes \in Seq(NoteRec)
      /\ notes' = [notes EXCEPT ![k] = e]
  BY DEF NotesInv, NotesFit, SetReply
<1>2. /\ k \in DOMAIN notes /\ notes[k].id = mentor[m].note /\ w \in Wording
      /\ notes[k] \in NoteRec /\ w # Silence
  BY <1>1, NoteIsOne, NoteShape, MentorAssumption DEF NotesFit
<1>3. e \in NoteRec /\ e.id = notes[k].id /\ e.reply = w
  BY <1>2 DEF NoteRec
<1> HIDE DEF k, e
<1>4. k \in 1 .. Len(notes) /\ DOMAIN notes = 1 .. Len(notes)
  BY <1>1, <1>2, NoteShape
<1>5. /\ notes' \in Seq(NoteRec) /\ DOMAIN notes' = DOMAIN notes
      /\ notes'[k] = e /\ \A i \in DOMAIN notes \ {k} : notes'[i] = notes[i]
  <2> DEFINE list == [notes EXCEPT ![k] = e]
  <2>1. /\ list \in Seq(NoteRec) /\ Len(list) = Len(notes)
        /\ \A i \in 1 .. Len(notes) : list[i] = IF i = k THEN e ELSE notes[i]
    BY ONLY <1>1, <1>3, <1>4, ExceptSeq
  <2> HIDE DEF list
  <2>2. DOMAIN list = 1 .. Len(list)
    BY <2>1
  <2>3. notes' = list
    BY <1>1 DEF list
  <2> QED
    BY <1>4, <2>1, <2>2, <2>3
<1>6. \A i \in DOMAIN notes : notes'[i].id = notes[i].id
  BY <1>3, <1>5
<1>7. /\ mentor' \in [Mentor -> CallRec]
      /\ mentor'[m].at = "kept" /\ mentor'[m].note = mentor[m].note
      /\ mentor'[m].reply = w
      /\ \A o \in Mentor \ {m} : mentor'[o] = mentor[o]
  BY <1>1, CallGoes
<1>8. NotesFit'
  <2>1. \A o \in Mentor : mentor'[o].at # "off" =>
          mentor'[o].reply \in Wording /\ \E i \in DOMAIN notes' : notes'[i].id = mentor'[o].note
    BY <1>1, <1>2, <1>5, <1>6, <1>7 DEF NotesFit
  <2>2. \A i, j \in DOMAIN notes' : notes'[i].id = notes'[j].id => i = j
    BY <1>1, <1>5, <1>6 DEF NotesFit
  <2> QED
    BY <1>1, <1>5, <1>7, <2>1, <2>2 DEF NotesFit
<1>9. mentor[m].note \notin raced =>
        /\ notes[k].reply = Silence
        /\ \A o \in Mentor \ {m} : mentor[o].at = "write" => mentor[o].note # mentor[m].note
  BY <1>1, <1>2 DEF NotesInv, WriterIsAlone
<1>10. WriterIsAlone'
  <2> SUFFICES ASSUME NEW n \in Mentor, mentor'[n].at = "write", mentor'[n].note \notin raced
               PROVE  /\ \A i \in DOMAIN notes' : notes'[i].id = mentor'[n].note => notes'[i].reply = Silence
                      /\ \A o \in Mentor \ {n} : mentor'[o].at = "write" => mentor'[o].note # mentor'[n].note
    BY <1>1 DEF WriterIsAlone
  <2>1. n # m /\ mentor'[n] = mentor[n]
    BY <1>7
  <2>2. mentor[n].note # mentor[m].note
    BY <1>9, <2>1
  <2>3. /\ \A i \in DOMAIN notes : notes[i].id = mentor[n].note => notes[i].reply = Silence
        /\ \A o \in Mentor \ {n} : mentor[o].at = "write" => mentor[o].note # mentor[n].note
    BY <2>1 DEF NotesInv, WriterIsAlone
  <2>4. \A i \in DOMAIN notes' : notes'[i].id = mentor[n].note => i # k
    BY <1>2, <1>5, <1>6, <2>2
  <2> QED
    BY <1>5, <1>7, <2>1, <2>3, <2>4
<1>11. KeptIsThere'
  <2> SUFFICES ASSUME NEW n \in Mentor, mentor'[n].at = "kept", mentor'[n].note \notin raced,
                      NEW i \in DOMAIN notes', notes'[i].id = mentor'[n].note
               PROVE  notes'[i].reply = mentor'[n].reply
    BY <1>1 DEF KeptIsThere
  <2>1. CASE n = m
    <3>1. notes[i].id = notes[k].id /\ i \in DOMAIN notes
      BY <1>2, <1>5, <1>6, <1>7, <2>1
    <3>2. i = k
      BY <1>1, <1>2, <3>1 DEF NotesFit
    <3> QED
      BY <1>3, <1>5, <1>7, <2>1, <3>2
  <2>2. CASE n # m
    <3>1. /\ mentor'[n] = mentor[n] /\ notes[i].id = mentor[n].note
          /\ notes[i].reply = mentor[n].reply /\ i \in DOMAIN notes
      BY <1>5, <1>6, <1>7, <2>2 DEF NotesInv, KeptIsThere
    <3>2. i # k
      <4>1. mentor[n].reply # Silence
        BY <1>1, <3>1, MentorAssumption DEF NotesFit
      <4> QED
        BY <1>2, <1>9, <3>1, <4>1
    <3> QED
      BY <1>5, <3>1, <3>2
  <2> QED
    BY <2>1, <2>2
<1> QED
  BY <1>8, <1>10, <1>11 DEF NotesInv

LEMMA NotesInvNext == NotesInv /\ [MentorNext \/ TalkNext]_mentoring => NotesInv'
<1> SUFFICES ASSUME NotesInv, [MentorNext \/ TalkNext]_mentoring PROVE NotesInv'
  OBVIOUS
<1>1. CASE TalkNext \/ PairingEnds \/ UNCHANGED mentoring
  <2>1. UNCHANGED <<notes, mentor, raced>> /\ paired' \in BOOLEAN
    BY <1>1 DEF TalkNext, Question, SearchFails, ReadHistory, AnswerTalk, PairingEnds,
                mentoring, NotesInv, NotesFit
  <2> QED
    BY <2>1 DEF NotesInv, NotesFit, WriterIsAlone, KeptIsThere
<1> QED
  BY <1>1, NoteQueued, ListPendingNext, ReadNoteNext, SetReplyNext DEF MentorNext

LEMMA NotesInvInit == MentorInit => NotesInv
<1> SUFFICES ASSUME MentorInit PROVE NotesInv
  OBVIOUS
<1>1. notes = <<>> /\ notes \in Seq(NoteRec) /\ DOMAIN notes = {}
  BY DEF MentorInit
<1>2. \A m \in Mentor : mentor[m].at = "off"
  BY DEF MentorInit
<1>3. mentor \in [Mentor -> CallRec] /\ paired \in BOOLEAN /\ raced \subseteq Note
  BY DEF MentorInit, CallRec
<1> QED
  BY <1>1, <1>2, <1>3 DEF NotesInv, NotesFit, WriterIsAlone, KeptIsThere

(* A reply that was accepted is the one the message keeps, unless another was on its way     *)
(* at the same moment; for any number of calls at once and any limit of the listing.      *)
THEOREM AcceptedReplyIsKeptAlways == MentorSpec => []AcceptedReplyIsKept
<1>1. NotesInv => AcceptedReplyIsKept
  <2> SUFFICES ASSUME NotesInv, NEW m \in Mentor, mentor[m].at = "kept", mentor[m].note \notin raced
               PROVE  notes[NoteOf(mentor[m].note)].reply = mentor[m].reply
    BY DEF AcceptedReplyIsKept
  <2> QED
    BY NoteIsOne DEF NotesInv, KeptIsThere
<1> QED
  BY <1>1, NotesInvInit, NotesInvNext, PTL DEF MentorSpec

(* The session, the messages for the mentor and the calls keep their shape.              *)
THEOREM MentorTypeCorrect == MentorSpec => []MentorTypeOK
<1>1. MentorInit => TalkInv /\ NotesInv
  BY TalkInvInit, NotesInvInit
<1>2. TalkInv /\ NotesInv => MentorTypeOK
  BY DEF TalkInv, NotesInv, NotesFit, MentorTypeOK, TalkRec, NoteRec, CallRec
<1> QED
  BY <1>1, <1>2, TalkInvNext, NotesInvNext, PTL DEF MentorSpec

--------------------------------------------------------------------------------
(* The allocation of budgets, for every portfolio, score and share.                     *)

LEMMA SumOfAll ==
  ASSUME NEW S, NEW f, S = DOMAIN f
  PROVE  SumFunction(f) = SumOver(f, S)
  BY DEF SumFunction, SumFunctionOnSet, FoldFunctionOnSet, SumOver, MapThenSumSet

LEMMA RoundingBound ==
  ASSUME NEW a \in Int, NEW b \in Int, b > 0
  PROVE  Rounded(a, b) \in Int /\ 2 * (b * Rounded(a, b)) <= 2 * a + b
<1> DEFINE n == 2 * a + b
           d == 2 * b
           q == n \div d
<1>1. n \in Int /\ d \in Int /\ d > 0
  OBVIOUS
<1>2. q \in Int /\ d * q <= n
  <2> HIDE DEF n, d
  <2> QED
    BY <1>1
<1> QED
  BY <1>2 DEF Rounded

LEMMA LessOfTwo ==
  ASSUME NEW a \in Int, NEW b \in Int
  PROVE  Min({a, b}) \in Int /\ Min({a, b}) <= a /\ Min({a, b}) <= b
  BY DEF Min

LEMMA MoreOfTwo ==
  ASSUME NEW a \in Nat, NEW b \in Nat
  PROVE  Max({a, b}) \in Nat
  BY DEF Max

(* What a summary adds up is a number.                                                    *)
Books == [Venture -> [Kind -> Nat]]

LEMMA KindFacts ==
  ASSUME NEW k \in Kind
  PROVE  Revenue(k) \in Int /\ Profit(k) \in Int /\ k.chance \in Int
  BY EconomicsAssumption DEF Revenue, Profit

LEMMA SummaryType ==
  ASSUME book \in Books, NEW v \in Venture
  PROVE  /\ Summary(v).quotes \in Nat /\ Summary(v).orders \in Nat
         /\ Summary(v).hope \in Int
<1>1. book[v] \in [Kind -> Nat]
  BY DEF Books
<1>2. ASSUME NEW stage PROVE Count(v, stage) \in Nat
  <2> DEFINE S == {k \in Kind : k.stage = stage}
  <2>1. IsFiniteSet(S)
    BY EconomicsAssumption, FS_Subset
  <2>2. Count(v, stage) = SumOver(book[v], S)
    BY DEF Count, SumOver
  <2>3. \A k \in S : book[v][k] \in Nat
    BY <1>1
  <2> HIDE DEF S
  <2> QED
    BY <2>1, <2>2, <2>3, SumIsNat
<1>3. Expected(v, Profit) \in Int
  <2> DEFINE f == [k \in Kind |-> (book[v][k] * Profit(k) * k.chance) \div 100]
  <2>1. \A k \in Kind : f[k] \in Int
    BY <1>1, KindFacts
  <2>2. Expected(v, Profit) = SumOver(f, Kind)
    BY SumOfAll DEF Expected
  <2> HIDE DEF f
  <2> QED
    BY <2>1, <2>2, EconomicsAssumption, SumStep
<1> QED
  BY <1>2, <1>3 DEF Summary

LEMMA NatTimes == \A a, b \in Nat : a * b \in Nat
  OBVIOUS

LEMMA ConversionType ==
  ASSUME NEW m, m.quotes \in Nat, m.orders \in Nat
  PROVE  Conversion(m) \in Nat
<1> DEFINE n == Unit * m.orders
           d == m.quotes
<1>1. n \in Nat /\ d \in Nat
  BY EconomicsAssumption, NatTimes
<1>2. Conversion(m) = IF d = 0 THEN 0 ELSE n \div d
  BY DEF Conversion
<1> HIDE DEF n, d
<1>3. ASSUME d # 0 PROVE n \div d \in Nat
  BY <1>1, <1>3
<1> QED
  BY <1>2, <1>3

LEMMA ScoreType ==
  ASSUME NEW m, m.quotes \in Nat, m.orders \in Nat, m.hope \in Int, NEW fit \in 0..2
  PROVE  Score(m, fit) \in Nat /\ Classify(m, fit).score \in Nat
<1> DEFINE h == Positive(m.hope)
           c == Unit + 2 * Conversion(m)
<1>1. h \in Nat /\ 2 + fit \in Nat /\ c \in Nat /\ 800 * Unit \in Nat /\ fit \in Nat
  BY ConversionType, EconomicsAssumption DEF Positive
<1>2. Score(m, fit) = h * (2 + fit) * c
  BY DEF Score
<1> HIDE DEF h, c
<1>3. Score(m, fit) \in Nat
  <2>1. h * (2 + fit) \in Nat
    BY <1>1, NatTimes
  <2> QED
    BY <1>1, <1>2, <2>1, NatTimes
<1>4. 800 * Unit * fit \in Nat
  BY <1>1, NatTimes
<1>5. 2 * Score(m, fit) \in Nat /\ 3 * Score(m, fit) \in Nat
  BY <1>3
<1>6. Max({2 * Score(m, fit), 800 * Unit * fit}) \in Nat
  BY <1>4, <1>5, MoreOfTwo
<1>7. Classify(m, fit).score \in
        {0, 3 * Score(m, fit), 2 * Score(m, fit), Max({2 * Score(m, fit), 800 * Unit * fit})}
  BY Zenon DEF Classify
<1> QED
  BY <1>3, <1>5, <1>6, <1>7

(* The parts of an allocation.                                                            *)
Class(ventures)  == [v \in ventures |-> Classify(Summary(v), Fit[v])]
Shared(ventures) == {v \in ventures : Class(ventures)[v].decision \in {"continue", "accelerate"}}
New(ventures)    == {v \in Shared(ventures) : Summary(v).size < MinSample}
Points(ventures) == [v \in Shared(ventures) |-> Class(ventures)[v].score]
Scores(ventures) == SumFunction(Points(ventures))
Weight(ventures) == IF Scores(ventures) = 0 THEN 1 ELSE Scores(ventures)
Each(ventures)   == IF New(ventures) = {} THEN 1 ELSE Cardinality(New(ventures))
Claim(ventures, total, v) ==
  (Exploitation(total) * Class(ventures)[v].score * Each(ventures))
    + (IF v \in New(ventures) THEN total * Explore * Weight(ventures) ELSE 0)
Base(ventures)   == 100 * Weight(ventures) * Each(ventures)

LEMMA AllocationParts ==
  ASSUME NEW ventures, NEW total
  PROVE  Allocation(ventures, total) =
           [v \in ventures |->
              IF v \in Shared(ventures)
              THEN Min({Rounded(Claim(ventures, total, v), Base(ventures)), Rounded(total * Share, 100)})
              ELSE 0]
  BY Zenon DEF Allocation, Class, Shared, New, Points, Scores, Weight, Each, Claim, Base

LEMMA PartsType ==
  ASSUME book \in Books, NEW ventures \in SUBSET Venture
  PROVE  /\ IsFiniteSet(ventures) /\ IsFiniteSet(Shared(ventures)) /\ IsFiniteSet(New(ventures))
         /\ New(ventures) \subseteq Shared(ventures) /\ Shared(ventures) \subseteq ventures
         /\ \A v \in Shared(ventures) : /\ Class(ventures)[v].score \in Nat
                                        /\ Points(ventures)[v] = Class(ventures)[v].score
         /\ Scores(ventures) = SumOver(Points(ventures), Shared(ventures))
         /\ Scores(ventures) \in Nat /\ Scores(ventures) <= Weight(ventures)
         /\ Weight(ventures) \in Nat \ {0} /\ Each(ventures) \in Nat \ {0}
         /\ Cardinality(New(ventures)) \in Nat /\ Cardinality(New(ventures)) <= Each(ventures)
<1>1. New(ventures) \subseteq Shared(ventures) /\ Shared(ventures) \subseteq ventures
  BY DEF New, Shared
<1>2. IsFiniteSet(ventures) /\ IsFiniteSet(Shared(ventures)) /\ IsFiniteSet(New(ventures))
  BY <1>1, EconomicsAssumption, FS_Subset
<1>3. ASSUME NEW v \in Shared(ventures)
      PROVE  Class(ventures)[v].score \in Nat /\ Points(ventures)[v] = Class(ventures)[v].score
  <2>1. v \in ventures /\ v \in Venture /\ Fit[v] \in 0..2
    BY <1>1, EconomicsAssumption
  <2>2. Class(ventures)[v] = Classify(Summary(v), Fit[v])
    BY <2>1 DEF Class
  <2>3. Classify(Summary(v), Fit[v]).score \in Nat
    BY <2>1, SummaryType, ScoreType
  <2> QED
    BY <2>2, <2>3 DEF Points
<1>4. Scores(ventures) = SumOver(Points(ventures), Shared(ventures))
  BY SumOfAll DEF Scores, Points
<1>5. Scores(ventures) \in Nat
  BY <1>2, <1>3, <1>4, SumIsNat
<1>6. Weight(ventures) \in Nat \ {0} /\ Scores(ventures) <= Weight(ventures)
  BY <1>5 DEF Weight
<1>7. /\ Cardinality(New(ventures)) \in Nat
      /\ Each(ventures) \in Nat \ {0} /\ Cardinality(New(ventures)) <= Each(ventures)
  BY <1>2, FS_CardinalityType, FS_EmptySet DEF Each
<1> QED
  BY <1>1, <1>2, <1>3, <1>4, <1>5, <1>6, <1>7

(* Arithmetic that the provers want spelled out.                                          *)
LEMMA Cancels ==
  ASSUME NEW d \in Nat \ {0}, NEW a \in Int, NEW b \in Int, d * a <= d * b
  PROVE  a <= b
<1> SUFFICES ASSUME a >= b + 1 PROVE FALSE
  OBVIOUS
<1>1. d * a >= d * (b + 1)
  OBVIOUS
<1>2. d * (b + 1) = d * b + d
  OBVIOUS
<1> QED
  BY <1>1, <1>2

LEMMA Scaled ==
  ASSUME NEW d \in Nat, NEW a \in Int, NEW b \in Int, a <= b
  PROVE  d * a <= d * b
  OBVIOUS

LEMMA ShareOut ==
  ASSUME NEW t \in Nat, NEW p \in 0..100, NEW w \in Nat, NEW e \in Nat
  PROVE  (((100 - p) * t) * e) * w + (t * p * w) * e = (100 * w * e) * t
<1> DEFINE x == t * (w * e)
<1>1. x \in Int /\ p \in Int
  BY NatTimes
<1>2. (((100 - p) * t) * e) * w = (100 - p) * x
  OBVIOUS
<1>3. (t * p * w) * e = p * x
  OBVIOUS
<1>4. (100 * w * e) * t = 100 * x
  OBVIOUS
<1> HIDE DEF x
<1>5. (100 - p) * x + p * x = 100 * x
  BY <1>1
<1> QED
  BY <1>2, <1>3, <1>4, <1>5

LEMMA AllocationBound ==
  ASSUME book \in Books, NEW ventures \in SUBSET Venture, NEW total \in Nat
  PROVE  /\ \A v \in ventures : Allocation(ventures, total)[v] \in Int
         /\ 2 * SumOver(Allocation(ventures, total), ventures) <= 2 * total + Cardinality(ventures)
<1> DEFINE S == Shared(ventures)
           N == New(ventures)
           W == Weight(ventures)
           E == Each(ventures)
           D == Base(ventures)
           X == Exploitation(total) * E
           Y == total * Explore * W
           amounts == Allocation(ventures, total)
           points  == [v \in ventures |-> IF v \in S THEN Points(ventures)[v] ELSE 0]
           news    == [v \in ventures |-> IF v \in N THEN 1 ELSE 0]
           ones    == [v \in ventures |-> IF v \in ventures THEN 1 ELSE 0]
           exploit == [v \in ventures |-> X * points[v]]
           explore == [v \in ventures |-> Y * news[v]]
           demand  == [v \in ventures |-> exploit[v] + explore[v]]
           twice   == [v \in ventures |-> 2 * demand[v]]
           halves  == [v \in ventures |-> D * ones[v]]
           above   == [v \in ventures |-> twice[v] + halves[v]]
           scaled  == [v \in ventures |-> (2 * D) * amounts[v]]
<1>1. /\ IsFiniteSet(ventures) /\ N \subseteq S /\ S \subseteq ventures
      /\ \A v \in S : Points(ventures)[v] \in Nat /\ Points(ventures)[v] = Class(ventures)[v].score
      /\ Scores(ventures) = SumOver(Points(ventures), S) /\ Scores(ventures) \in Nat
      /\ Scores(ventures) <= W /\ W \in Nat \ {0} /\ E \in Nat \ {0}
      /\ Cardinality(N) \in Nat /\ Cardinality(N) <= E
  BY PartsType
<1>2. /\ Explore \in 0..100 /\ Share \in Int
  BY EconomicsAssumption
<1>3. X \in Nat /\ Y \in Nat /\ D \in Nat /\ D > 0
  <2>1. Exploitation(total) \in Nat
    BY <1>2 DEF Exploitation
  <2>2. total * Explore \in Nat
    BY <1>2, NatTimes
  <2>3. W * E \in Nat \ {0} /\ D = 100 * (W * E)
    <3> HIDE DEF W, E
    <3> QED
      BY <1>1 DEF W, E, Base
  <2> QED
    BY <1>1, <2>1, <2>2, <2>3, NatTimes
<1>4. ASSUME NEW v \in ventures
      PROVE  /\ amounts[v] \in Int /\ points[v] \in Nat /\ news[v] \in 0..1 /\ ones[v] = 1
             /\ (2 * D) * amounts[v] <= 2 * demand[v] + D
  <2>1. points[v] \in Nat /\ news[v] \in 0..1 /\ ones[v] = 1
    BY <1>1
  <2>2. CASE v \in S
    <3> DEFINE r == Rounded(Claim(ventures, total, v), D)
               c == Rounded(total * Share, 100)
    <3>1. amounts[v] = Min({r, c})
      BY <2>2, AllocationParts
    <3>2. Claim(ventures, total, v) = demand[v]
      <4>1. /\ points[v] = Class(ventures)[v].score
            /\ demand[v] = X * points[v] + Y * news[v]
        BY <1>1, <2>2
      <4>2. Claim(ventures, total, v) =
              Exploitation(total) * points[v] * E + (IF v \in N THEN Y ELSE 0)
        BY <4>1 DEF Claim
      <4>3. Exploitation(total) * points[v] * E = X * points[v]
        <5>1. Exploitation(total) \in Nat
          BY <1>2 DEF Exploitation
        <5>2. \A a, b, d \in Nat : a * b * d = (a * d) * b
          OBVIOUS
        <5> QED
          BY <1>1, <2>1, <5>1, <5>2
      <4>4. Y * news[v] = IF v \in N THEN Y ELSE 0
        BY <1>3
      <4> QED
        BY <4>1, <4>2, <4>3, <4>4
    <3>3. demand[v] \in Int
      BY <1>3, <2>1
    <3>4. r \in Int /\ 2 * (D * r) <= 2 * demand[v] + D
      <4> HIDE DEF D, demand
      <4>1. r = Rounded(demand[v], D)
        BY <3>2
      <4>2. D \in Int /\ D > 0
        BY <1>3
      <4> QED
        BY <3>3, <4>1, <4>2, RoundingBound
    <3>5. c \in Int
      BY <1>2, RoundingBound
    <3> HIDE DEF r, c
    <3>6. amounts[v] \in Int /\ amounts[v] <= r
      BY <3>1, <3>4, <3>5, LessOfTwo
    <3> HIDE DEF amounts, D, demand
    <3>7. D * amounts[v] <= D * r
      BY <1>3, <3>4, <3>6, Scaled
    <3>8. (2 * D) * amounts[v] = 2 * (D * amounts[v]) /\ D * amounts[v] \in Int /\ D * r \in Int
      BY <1>3, <3>4, <3>6
    <3>9. (2 * D) * amounts[v] <= 2 * demand[v] + D
      BY <1>3, <3>3, <3>4, <3>7, <3>8
    <3> QED
      BY <2>1, <3>6, <3>9
  <2>3. CASE v \notin S
    <3>1. amounts[v] = 0
      BY <2>3, AllocationParts
    <3>2. demand[v] \in Nat
      BY <1>3, <2>1
    <3> HIDE DEF amounts, D, demand
    <3>3. (2 * D) * amounts[v] = 0
      BY <1>3, <3>1
    <3> QED
      BY <1>3, <2>1, <3>1, <3>2, <3>3
  <2> QED
    BY <2>2, <2>3
<1>5. ASSUME NEW v \in ventures
      PROVE  /\ exploit[v] = X * points[v] /\ explore[v] = Y * news[v] /\ demand[v] = exploit[v] + explore[v]
             /\ twice[v] = 2 * demand[v] /\ halves[v] = D * ones[v] /\ above[v] = twice[v] + halves[v]
             /\ scaled[v] = (2 * D) * amounts[v]
  OBVIOUS
<1>6. \A v \in ventures \ S : points[v] = 0
  OBVIOUS
<1>7. \A v \in S : points[v] = Points(ventures)[v]
  BY <1>1
<1>8. \A v \in ventures : /\ news[v] = IF v \in N THEN 1 ELSE 0
                          /\ ones[v] = IF v \in ventures THEN 1 ELSE 0
  OBVIOUS
<1> HIDE DEF S, N, W, E, D, X, Y, amounts, points, news, ones, exploit, explore, demand, twice, halves, above, scaled
<1>9. /\ SumOver(points, ventures) = Scores(ventures)
      /\ SumOver(news, ventures) = Cardinality(N)
      /\ SumOver(ones, ventures) = Cardinality(ventures)
  <2>1. ventures \cap N = N /\ ventures \cap ventures = ventures
    BY <1>1
  <2>2. SumOver(points, ventures) = SumOver(Points(ventures), S)
    <3>1. \A v \in S : points[v] \in Int /\ Points(ventures)[v] = points[v]
      BY <1>1, <1>7
    <3> QED
      BY <1>1, <1>6, <3>1, SumLeavesOut
  <2>3. SumOver(news, ventures) = Cardinality(ventures \cap N)
    BY <1>1, <1>8, SumCounts
  <2>4. SumOver(ones, ventures) = Cardinality(ventures \cap ventures)
    BY <1>1, <1>8, SumCounts
  <2> QED
    BY <1>1, <2>1, <2>2, <2>3, <2>4
<1>10. ASSUME NEW v \in ventures
       PROVE  /\ exploit[v] \in Int /\ explore[v] \in Int /\ demand[v] \in Int /\ twice[v] \in Int
              /\ halves[v] \in Int /\ above[v] \in Int /\ scaled[v] \in Int /\ scaled[v] <= above[v]
              /\ points[v] \in Int /\ news[v] \in Int /\ ones[v] \in Int /\ amounts[v] \in Int
  <2>1. /\ X \in Int /\ Y \in Int /\ D \in Int
        /\ points[v] \in Int /\ news[v] \in Int /\ ones[v] = 1 /\ amounts[v] \in Int
    BY <1>3, <1>4
  <2>2. \A a, b \in Int : a * b \in Int
    OBVIOUS
  <2>3. exploit[v] \in Int /\ explore[v] \in Int /\ halves[v] = D
    BY <1>5, <2>1, <2>2
  <2>4. demand[v] \in Int /\ twice[v] \in Int /\ above[v] = 2 * demand[v] + D
    BY <1>5, <2>1, <2>3
  <2>5. scaled[v] \in Int /\ scaled[v] <= above[v]
    <3>1. (2 * D) \in Int
      BY <2>1
    <3> QED
      BY <1>4, <1>5, <2>1, <2>2, <2>4, <3>1
  <2> QED
    BY <2>1, <2>3, <2>4, <2>5
<1>11. /\ SumOver(exploit, ventures) = X * Scores(ventures)
       /\ SumOver(explore, ventures) = Y * Cardinality(N)
       /\ SumOver(halves, ventures) = D * Cardinality(ventures)
       /\ SumOver(scaled, ventures) = (2 * D) * SumOver(amounts, ventures)
  <2>1. X \in Int /\ Y \in Int /\ D \in Int /\ 2 * D \in Int
    BY <1>3
  <2>2. SumOver(exploit, ventures) = X * SumOver(points, ventures)
    BY <1>1, <1>5, <1>10, <2>1, SumScales
  <2>3. SumOver(explore, ventures) = Y * SumOver(news, ventures)
    BY <1>1, <1>5, <1>10, <2>1, SumScales
  <2>4. SumOver(halves, ventures) = D * SumOver(ones, ventures)
    BY <1>1, <1>5, <1>10, <2>1, SumScales
  <2>5. SumOver(scaled, ventures) = (2 * D) * SumOver(amounts, ventures)
    BY <1>1, <1>5, <1>10, <2>1, SumScales
  <2> QED
    BY <1>9, <2>2, <2>3, <2>4, <2>5
<1>12. /\ SumOver(demand, ventures) = SumOver(exploit, ventures) + SumOver(explore, ventures)
       /\ SumOver(twice, ventures) = 2 * SumOver(demand, ventures)
       /\ SumOver(above, ventures) = SumOver(twice, ventures) + SumOver(halves, ventures)
       /\ SumOver(scaled, ventures) <= SumOver(above, ventures)
  <2>1. SumOver(demand, ventures) = SumOver(exploit, ventures) + SumOver(explore, ventures)
    BY <1>1, <1>5, <1>10, SumPlus
  <2>2. SumOver(twice, ventures) = 2 * SumOver(demand, ventures)
    BY <1>1, <1>5, <1>10, SumScales
  <2>3. SumOver(above, ventures) = SumOver(twice, ventures) + SumOver(halves, ventures)
    BY <1>1, <1>5, <1>10, SumPlus
  <2>4. SumOver(scaled, ventures) <= SumOver(above, ventures)
    BY <1>1, <1>10, SumCompares
  <2> QED
    BY <2>1, <2>2, <2>3, <2>4
<1>13. X * Scores(ventures) + Y * Cardinality(N) <= D * total
  <2>1. X * Scores(ventures) <= X * W
    BY <1>1, <1>3, Scaled
  <2>2. Y * Cardinality(N) <= Y * E
    BY <1>1, <1>3, Scaled
  <2>3. X * W + Y * E = D * total
    BY <1>1, <1>2, ShareOut DEF X, Y, D, Exploitation, Base, W, E
  <2>4. /\ X * Scores(ventures) \in Int /\ X * W \in Int
        /\ Y * Cardinality(N) \in Int /\ Y * E \in Int
    BY <1>1, <1>3, NatTimes
  <2> QED
    BY <2>1, <2>2, <2>3, <2>4
<1>14. SumOver(amounts, ventures) \in Int /\ Cardinality(ventures) \in Nat
  BY <1>1, <1>10, SumStep, FS_CardinalityType
<1>15. D * (2 * SumOver(amounts, ventures)) <= D * (2 * total + Cardinality(ventures))
  <2> DEFINE s == SumOver(amounts, ventures)
             n == Cardinality(ventures)
             q == X * Scores(ventures) + Y * Cardinality(N)
  <2>1. s \in Int /\ n \in Nat /\ D \in Nat /\ total \in Nat
    BY <1>3, <1>14
  <2>2. (2 * D) * s <= 2 * q + D * n
    BY <1>11, <1>12
  <2>3. q \in Int /\ q <= D * total
    BY <1>1, <1>3, <1>13, NatTimes
  <2> HIDE DEF s, n, q
  <2>4. (2 * D) * s = D * (2 * s) /\ D * (2 * total + n) = 2 * (D * total) + D * n
    BY <2>1
  <2>5. D * total \in Int /\ D * n \in Int /\ (2 * D) * s \in Int
    BY <2>1
  <2>6. (2 * D) * s <= 2 * (D * total) + D * n
    BY <2>2, <2>3, <2>5
  <2>7. D * (2 * s) <= D * (2 * total + n)
    BY <2>4, <2>6
  <2> QED
    BY <2>7 DEF s, n
<1>16. 2 * SumOver(amounts, ventures) <= 2 * total + Cardinality(ventures)
  BY <1>3, <1>14, <1>15, Cancels
<1> QED
  BY <1>10, <1>16 DEF amounts

PlanFits ==
  plan # NoPlan => /\ plan.ventures \subseteq Venture
                   /\ 2 * SumOver(plan.amounts, plan.ventures) <= 2 * plan.total + Cardinality(plan.ventures)

EconomicsInv == book \in Books /\ PlanFits

LEMMA RunFits ==
  ASSUME book \in Books, NEW ventures \in SUBSET Venture, NEW total \in Budgets, NEW active, NEW idle,
         RunChain(ventures, total, active, idle)
  PROVE  PlanFits'
<1> DEFINE amounts == Allocation(ventures, total)
           zeros   == [v \in ventures |-> 0]
<1>1. total \in Nat /\ IsFiniteSet(ventures) /\ Cardinality(ventures) \in Nat
  BY EconomicsAssumption, FS_Subset, FS_CardinalityType
<1>2. 2 * SumOver(amounts, ventures) <= 2 * total + Cardinality(ventures)
  BY <1>1, AllocationBound
<1>3. 2 * SumOver(zeros, ventures) <= 2 * total + Cardinality(ventures)
  <2>1. SumOver(zeros, ventures) = Cardinality(ventures \cap {})
    BY <1>1, SumCounts
  <2>2. ventures \cap {} = {} /\ Cardinality({}) = 0
    BY FS_EmptySet
  <2> QED
    BY <1>1, <2>1, <2>2
<1> HIDE DEF amounts, zeros
<1>4. plan'.ventures = ventures /\ plan'.total = total /\ plan'.amounts \in {amounts, zeros}
  <2>1. CASE \A v \in ventures : Acceptable(Summary(v))
    <3>1. plan' = [ventures |-> ventures, total |-> total, amounts |-> amounts,
                   held |-> active \cup idle, failed |-> FALSE,
                   launched |-> Schedule(ventures, amounts, total, active, idle)]
      BY <2>1, Zenon DEF RunChain, amounts
    <3> QED
      BY <3>1
  <2>2. CASE ~ \A v \in ventures : Acceptable(Summary(v))
    <3>1. plan' = [ventures |-> ventures, total |-> total, amounts |-> zeros,
                   held |-> active \cup idle, failed |-> TRUE, launched |-> {}]
      BY <2>2, Zenon DEF RunChain, zeros
    <3> QED
      BY <3>1
  <2> QED
    BY <2>1, <2>2
<1> QED
  BY <1>2, <1>3, <1>4 DEF PlanFits

LEMMA EconomicsInvNext == EconomicsInv /\ [EconomicsNext]_economy => EconomicsInv'
<1> SUFFICES ASSUME EconomicsInv, [EconomicsNext]_economy PROVE EconomicsInv'
  OBVIOUS
<1>1. ASSUME NEW v \in Venture, NEW k \in Kind, Record(v, k) PROVE EconomicsInv'
  <2>1. book' = [book EXCEPT ![v][k] = @ + 1] /\ plan' = NoPlan
    BY <1>1 DEF Record
  <2>2. book[v] \in [Kind -> Nat]
    BY DEF EconomicsInv, Books
  <2>3. [book[v] EXCEPT ![k] = @ + 1] \in [Kind -> Nat]
    BY <2>2
  <2>4. book' \in Books
    BY <2>1, <2>3 DEF EconomicsInv, Books
  <2> QED
    BY <2>1, <2>4 DEF EconomicsInv, PlanFits
<1>2. ASSUME NEW ventures \in SUBSET Venture, NEW total \in Budgets, NEW active, NEW idle,
             RunChain(ventures, total, active, idle)
      PROVE  EconomicsInv'
  <2>1. PlanFits' /\ book' = book
    BY <1>2, RunFits DEF EconomicsInv, RunChain
  <2> QED
    BY <2>1 DEF EconomicsInv
<1>3. CASE UNCHANGED economy
  BY <1>3 DEF economy, EconomicsInv, PlanFits
<1> QED
  BY <1>1, <1>2, <1>3 DEF EconomicsNext

(* A portfolio is never promised more than there is but for half a cent per mission, for    *)
(* every set of missions, scores, shares and exploration, and however often it is planned.  *)
THEOREM PortfolioIsBoundedHolds == EconomicsSpec => []PortfolioIsBounded
<1>1. EconomicsInit => EconomicsInv
  BY DEF EconomicsInit, EconomicsInv, Books, PlanFits
<1>2. EconomicsInv => PortfolioIsBounded
  <2> SUFFICES ASSUME EconomicsInv PROVE PortfolioIsBounded
    OBVIOUS
  <2>1. SumOver(plan.amounts, plan.ventures) = MapThenSumSet(LAMBDA v : plan.amounts[v], plan.ventures)
    BY DEF SumOver
  <2> QED
    BY <2>1 DEF EconomicsInv, PlanFits, PortfolioIsBounded
<1> QED
  BY <1>1, <1>2, EconomicsInvNext, PTL DEF EconomicsSpec

-------------------------------------------------------------------------------
(* The types of the chain of budgets.                                                     *)

(* An allocation gives each mission a number of cents.                                     *)
LEMMA RoundedIsNat ==
  ASSUME NEW a \in Nat, NEW b \in Nat \ {0}
  PROVE  Rounded(a, b) \in Nat
<1> DEFINE n == 2 * a + b
           d == 2 * b
<1>1. n \in Nat /\ d \in Nat /\ d > 0
  OBVIOUS
<1>2. n \div d \in Nat
  <2> HIDE DEF n, d
  <2> QED
    BY <1>1
<1> QED
  BY <1>2 DEF Rounded

LEMMA AmountsType ==
  ASSUME book \in Books, NEW ventures \in SUBSET Venture, NEW total \in Nat
  PROVE  Allocation(ventures, total) \in [ventures -> Nat]
<1>1. ASSUME NEW v \in Shared(ventures)
      PROVE  Min({Rounded(Claim(ventures, total, v), Base(ventures)), Rounded(total * Share, 100)}) \in Nat
  <2>1. /\ Exploitation(total) \in Nat /\ Class(ventures)[v].score \in Nat
        /\ Each(ventures) \in Nat \ {0} /\ Weight(ventures) \in Nat \ {0}
        /\ total * Share \in Nat /\ total * Explore \in Nat
    <3>1. 100 - Explore \in Nat /\ Share \in Nat /\ Explore \in Nat
      BY EconomicsAssumption
    <3> QED
      BY <3>1, PartsType, NatTimes DEF Exploitation
  <2>2. Claim(ventures, total, v) \in Nat
    <3>1. Exploitation(total) * Class(ventures)[v].score * Each(ventures) \in Nat
      BY <2>1, NatTimes
    <3>2. total * Explore * Weight(ventures) \in Nat
      BY <2>1, NatTimes
    <3> QED
      BY <3>1, <3>2 DEF Claim
  <2>3. Base(ventures) \in Nat \ {0}
    <3> DEFINE w == Weight(ventures)
               e == Each(ventures)
    <3>1. w \in Nat \ {0} /\ e \in Nat \ {0}
      BY <2>1
    <3> HIDE DEF w, e
    <3>2. 100 * w \in Nat \ {0} /\ 100 * w * e \in Nat \ {0}
      BY <3>1
    <3> QED
      BY <3>2 DEF Base, w, e
  <2>4. /\ Rounded(Claim(ventures, total, v), Base(ventures)) \in Nat
        /\ Rounded(total * Share, 100) \in Nat
    BY <2>1, <2>2, <2>3, RoundedIsNat
  <2> QED
    BY <2>4 DEF Min
<1> QED
  BY <1>1, AllocationParts

--------------------------------------------------------------------------------
(* The order of the scheduler.                                                            *)

Urgent(v) == EconomicDecision(Summary(v)) = "accelerate"
Hope(v)   == Positive(Summary(v).hope)
Firsts(ventures) == {x \in ventures \X ventures : Before(x[1], x[2])}

LEMMA BeforeReads ==
  ASSUME NEW v, NEW w
  PROVE  Before(v, w) <=>
           \/ Urgent(v) /\ ~Urgent(w)
           \/ Urgent(v) = Urgent(w) /\ \/ Hope(v) > Hope(w)
                                       \/ Hope(v) = Hope(w) /\ Fit[v] > Fit[w]
                                       \/ Hope(v) = Hope(w) /\ Fit[v] = Fit[w] /\ Id[v] < Id[w]
  BY DEF Before, Urgent, Hope

LEMMA BeforeOrders ==
  ASSUME book \in Books, NEW ventures \in SUBSET Venture
  PROVE  /\ StrictOrder(Firsts(ventures), ventures)
         /\ \A v \in ventures : Preceding(Firsts(ventures), ventures, v) = Leaders(ventures, v)
<1>1. ASSUME NEW v \in ventures
      PROVE  Urgent(v) \in BOOLEAN /\ Hope(v) \in Int /\ Fit[v] \in Int /\ Id[v] \in Int
  <2>1. Summary(v).hope \in Int
    BY SummaryType
  <2> QED
    BY <2>1, EconomicsAssumption DEF Urgent, Hope, Positive
<1>2. \A v, w \in ventures : Id[v] = Id[w] => v = w
  BY EconomicsAssumption
<1>3. \A v, w \in ventures : <<v, w>> \in Firsts(ventures) <=> Before(v, w)
  BY DEF Firsts
<1>4. \A v \in ventures : ~Before(v, v)
  BY <1>1, BeforeReads
<1>5. \A v, w \in ventures : v # w => Before(v, w) \/ Before(w, v)
  BY <1>1, <1>2, BeforeReads
<1>6. ASSUME NEW u \in ventures, NEW v \in ventures, NEW w \in ventures, Before(u, v), Before(v, w)
      PROVE  Before(u, w)
  BY <1>1, <1>6, BeforeReads
<1>7. StrictOrder(Firsts(ventures), ventures)
  BY <1>3, <1>4, <1>5, <1>6 DEF StrictOrder
<1>8. \A v \in ventures : Preceding(Firsts(ventures), ventures, v) = Leaders(ventures, v)
  BY <1>3 DEF Preceding, Leaders
<1> QED
  BY <1>7, <1>8

LEMMA RankingTyped ==
  ASSUME book \in Books, NEW ventures \in SUBSET Venture
  PROVE  Ranking(ventures) \in Seq(ventures)
<1>1. IsFiniteSet(ventures) /\ Cardinality(ventures) \in Nat
  BY EconomicsAssumption, FS_Subset, FS_CardinalityType
<1>2. \A p \in 1 .. Cardinality(ventures) :
        \E v \in ventures : Cardinality(Preceding(Firsts(ventures), ventures, v)) = p - 1
  BY <1>1, BeforeOrders, RanksFill
<1>3. \A p \in 1 .. Cardinality(ventures) :
        \E v \in ventures : Cardinality(Leaders(ventures, v)) = p - 1
  BY <1>2, BeforeOrders
<1>4. Ranking(ventures) \in [1 .. Cardinality(ventures) -> ventures]
  BY <1>3 DEF Ranking
<1> QED
  BY <1>1, <1>4

(* What the scheduler has left, and whom it has launched.                                 *)
Launching(ventures) == [slots : Int, left : Int, launched : SUBSET ventures]

LEMMA LaunchKeeps ==
  ASSUME NEW ventures, NEW state \in Launching(ventures), NEW v \in ventures, NEW amount \in Nat,
         NEW held
  PROVE  Launch(state, v, amount, held) \in Launching(ventures)
<1>1. state.slots \in Int /\ state.left \in Int /\ state.launched \in SUBSET ventures
  BY DEF Launching
<1>2. [slots |-> state.slots - 1, left |-> state.left - amount,
       launched |-> state.launched \cup {v}] \in Launching(ventures)
  BY <1>1 DEF Launching
<1> QED
  BY <1>2 DEF Launch

Scheduled(ventures, amounts, total, active, idle) ==
  FoldLeft(LAMBDA state, v : Launch(state, v, amounts[v], active \cup idle),
           [slots |-> Slots - Cardinality(active), left |-> total, launched |-> {}],
           Ranking(ventures))

(* The steps of the loop over the ranking. *)
LEMMA ScheduleFolds ==
  ASSUME NEW ventures \in SUBSET Venture, NEW amounts \in [ventures -> Nat], NEW total \in Nat,
         NEW active \in SUBSET ventures, NEW idle, book \in Books
  PROVE  /\ Scheduled(ventures, amounts, total, active, idle) \in Launching(ventures)
         /\ \E a \in [0 .. Len(Ranking(ventures)) -> Launching(ventures)] :
              /\ a[0] = [slots |-> Slots - Cardinality(active), left |-> total, launched |-> {}] /\ a[Len(Ranking(ventures))] = Scheduled(ventures, amounts, total, active, idle)
              /\ \A k \in 1 .. Len(Ranking(ventures)) :
                   /\ a[k - 1] \in Launching(ventures)
                   /\ a[k] = Launch(a[k - 1], Ranking(ventures)[k], amounts[Ranking(ventures)[k]], active \cup idle)
<1> DEFINE n == Len(Ranking(ventures))
           step == [p \in Launching(ventures) \X (1 .. n) |-> Launch(p[1], Ranking(ventures)[p[2]], amounts[Ranking(ventures)[p[2]]], active \cup idle)]
           Fold(g) == g = [T \in SUBSET (1 .. n) |-> IF T = {} THEN [slots |-> Slots - Cardinality(active), left |-> total, launched |-> {}]
                             ELSE Launch(g[T \ {Max(T)}], Ranking(ventures)[Max(T)], amounts[Ranking(ventures)[Max(T)]], active \cup idle)]
           h == CHOOSE g : Fold(g)
<1>0. n \in Nat /\ DOMAIN Ranking(ventures) = 1 .. n /\ [slots |-> Slots - Cardinality(active), left |-> total, launched |-> {}] \in Launching(ventures)
  BY RankingTyped, EconomicsAssumption, FS_Subset, FS_CardinalityType DEF Launching
<1>1. step \in [Launching(ventures) \X (1 .. n) -> Launching(ventures)]
  <2>1. ASSUME NEW acc \in Launching(ventures), NEW i \in 1 .. n PROVE Launch(acc, Ranking(ventures)[i], amounts[Ranking(ventures)[i]], active \cup idle) \in Launching(ventures)
    <3>1. Ranking(ventures)[i] \in ventures /\ amounts[Ranking(ventures)[i]] \in Nat
      BY <1>0, RankingTyped
    <3> QED
      BY <3>1, LaunchKeeps
  <2> QED
    BY <2>1
<1> HIDE DEF n
<1>2. PICK g \in [SUBSET (1 .. n) -> Launching(ventures)] : Runs(step, [slots |-> Slots - Cardinality(active), left |-> total, launched |-> {}], n, g)
  <2> HIDE DEF step
  <2> QED
    BY <1>0, <1>1, FoldRuns
<1>3. ASSUME NEW T \in SUBSET (1 .. n), T # {} PROVE Max(T) \in 1 .. n /\ T \ {Max(T)} \in SUBSET (1 .. n)
  BY <1>0, <1>3, MaxOfIndices
<1>4. Fold(g)
  BY <1>2, <1>3 DEF Runs
<1>5. Fold(h)
  BY <1>4
<1>6. Scheduled(ventures, amounts, total, active, idle) = h[1 .. n]
  BY <1>0 DEF Scheduled, FoldLeft, MapThenFoldSet
<1>7. Obeys(step, [slots |-> Slots - Cardinality(active), left |-> total, launched |-> {}], n, Launching(ventures), h)
  <2>1. h[{}] = [slots |-> Slots - Cardinality(active), left |-> total, launched |-> {}]
    BY <1>5
  <2>2. ASSUME NEW T \in SUBSET (1 .. n), T # {}, h[T \ {Max(T)}] \in Launching(ventures)
        PROVE  h[T] = step[<<h[T \ {Max(T)}], Max(T)>>]
    <3>1. h[T] = Launch(h[T \ {Max(T)}], Ranking(ventures)[Max(T)], amounts[Ranking(ventures)[Max(T)]], active \cup idle)
      BY <1>5, <2>2
    <3> HIDE DEF h
    <3> QED
      BY <1>3, <2>2, <3>1
  <2> QED
    BY <2>1, <2>2 DEF Obeys
<1> HIDE DEF h, step
<1>8. EndsIn(step, [slots |-> Slots - Cardinality(active), left |-> total, launched |-> {}], n, Launching(ventures), h[1 .. n])
  BY <1>0, <1>1, <1>7, FoldTrace
<1>9. PICK a \in [0 .. n -> Launching(ventures)] :
            /\ a[0] = [slots |-> Slots - Cardinality(active), left |-> total, launched |-> {}] /\ a[n] = Scheduled(ventures, amounts, total, active, idle)
            /\ \A k \in 1 .. n : a[k - 1] \in Launching(ventures) /\ a[k] = step[<<a[k - 1], k>>]
  BY <1>6, <1>8 DEF EndsIn
<1>10. \A k \in 1 .. n :
         a[k - 1] \in Launching(ventures) /\ a[k] = Launch(a[k - 1], Ranking(ventures)[k], amounts[Ranking(ventures)[k]], active \cup idle)
  BY <1>9 DEF step
<1>11. Scheduled(ventures, amounts, total, active, idle) \in Launching(ventures)
  BY <1>0, <1>9
<1>12. \E b \in [0 .. n -> Launching(ventures)] :
         /\ b[0] = [slots |-> Slots - Cardinality(active), left |-> total, launched |-> {}] /\ b[n] = Scheduled(ventures, amounts, total, active, idle)
         /\ \A k \in 1 .. n :
              b[k - 1] \in Launching(ventures) /\ b[k] = Launch(b[k - 1], Ranking(ventures)[k], amounts[Ranking(ventures)[k]], active \cup idle)
  BY <1>9, <1>10
<1> QED
  BY <1>11, <1>12 DEF n

LEMMA LaunchedAreOffered ==
  ASSUME book \in Books, NEW ventures \in SUBSET Venture, NEW amounts \in [ventures -> Nat],
         NEW total \in Nat, NEW active \in SUBSET ventures, NEW idle
  PROVE  Schedule(ventures, amounts, total, active, idle) \subseteq ventures
<1>1. Scheduled(ventures, amounts, total, active, idle) \in Launching(ventures)
  BY ScheduleFolds
<1>2. Schedule(ventures, amounts, total, active, idle)
        = Scheduled(ventures, amounts, total, active, idle).launched
  BY DEF Schedule, Scheduled
<1> QED
  BY <1>1, <1>2 DEF Launching

PlanTyped ==
  plan = NoPlan \/
    /\ plan.ventures \subseteq Venture /\ plan.total \in Budgets /\ plan.failed \in BOOLEAN
    /\ plan.amounts \in [plan.ventures -> Nat]
    /\ plan.launched \subseteq plan.ventures /\ plan.held \subseteq plan.ventures

(* An outcome is one of those the bound counts.                                           *)
BooksFit == book \in [Venture -> [Kind -> 0 .. MaxOutcomes]]

LEMMA RecordFits ==
  ASSUME BooksFit, NEW v \in Venture, NEW k \in Kind, Record(v, k)
  PROVE  BooksFit'
<1>1. book[v] \in [Kind -> 0 .. MaxOutcomes] /\ MaxOutcomes \in Nat /\ IsFiniteSet(Kind)
  BY EconomicsAssumption DEF BooksFit
<1>2. SumFunction(book[v]) = SumOver(book[v], Kind)
  BY <1>1, SumOfAll
<1>3. SumOver(book[v], Kind) = book[v][k] + SumOver(book[v], Kind \ {k})
  BY <1>1, SumTakes
<1>4. SumOver(book[v], Kind \ {k}) \in Nat
  <2>1. IsFiniteSet(Kind \ {k}) /\ \A j \in Kind \ {k} : book[v][j] \in Nat
    BY <1>1, FS_RemoveElement
  <2> QED
    BY <2>1, SumIsNat
<1>5. book[v][k] + 1 \in 0 .. MaxOutcomes
  BY <1>1, <1>2, <1>3, <1>4 DEF Record
<1>6. book' = [book EXCEPT ![v][k] = @ + 1]
  BY DEF Record
<1>7. [book[v] EXCEPT ![k] = @ + 1] \in [Kind -> 0 .. MaxOutcomes]
  BY <1>1, <1>5
<1> QED
  BY <1>6, <1>7 DEF BooksFit

LEMMA PlanRuns ==
  ASSUME BooksFit, NEW ventures \in SUBSET Venture, NEW total \in Budgets,
         NEW active \in SUBSET ventures, NEW idle \in SUBSET ventures,
         RunChain(ventures, total, active, idle)
  PROVE  PlanTyped'
<1> DEFINE amounts == Allocation(ventures, total)
           zeros   == [v \in ventures |-> 0]
           picked  == Schedule(ventures, amounts, total, active, idle)
<1>1. book \in Books /\ total \in Nat
  BY EconomicsAssumption DEF BooksFit, Books
<1>2. amounts \in [ventures -> Nat] /\ zeros \in [ventures -> Nat]
  BY <1>1, AmountsType
<1>3. picked \subseteq ventures
  <2> HIDE DEF amounts
  <2> QED
    BY <1>1, <1>2, LaunchedAreOffered
<1>4. \E money \in {amounts, zeros}, failed \in BOOLEAN, launched \in {picked, {}} :
        plan' = [ventures |-> ventures, total |-> total, amounts |-> money,
                 held |-> active \cup idle, failed |-> failed, launched |-> launched]
  <2>1. CASE \A v \in ventures : Acceptable(Summary(v))
    <3>1. plan' = [ventures |-> ventures, total |-> total, amounts |-> amounts,
                   held |-> active \cup idle, failed |-> FALSE, launched |-> picked]
      BY <2>1, Zenon DEF RunChain
    <3> QED
      BY <3>1
  <2>2. CASE ~ \A v \in ventures : Acceptable(Summary(v))
    <3>1. plan' = [ventures |-> ventures, total |-> total, amounts |-> zeros,
                   held |-> active \cup idle, failed |-> TRUE, launched |-> {}]
      BY <2>2, Zenon DEF RunChain
    <3> QED
      BY <3>1
  <2> QED
    BY <2>1, <2>2
<1> HIDE DEF amounts, zeros, picked
<1> QED
  BY <1>2, <1>3, <1>4 DEF PlanTyped

LEMMA EconomicsTypeNext == EconomicsTypeOK /\ [EconomicsNext]_economy => EconomicsTypeOK'
<1> SUFFICES ASSUME BooksFit, PlanTyped, [EconomicsNext]_economy PROVE BooksFit' /\ PlanTyped'
  BY DEF EconomicsTypeOK, BooksFit, PlanTyped
<1>1. ASSUME NEW v \in Venture, NEW k \in Kind, Record(v, k) PROVE BooksFit' /\ PlanTyped'
  BY <1>1, RecordFits DEF Record, PlanTyped
<1>2. ASSUME NEW ventures \in SUBSET Venture, NEW total \in Budgets,
             NEW active \in SUBSET ventures, NEW idle \in SUBSET (ventures \ active),
             RunChain(ventures, total, active, idle)
      PROVE  BooksFit' /\ PlanTyped'
  <2>1. PlanTyped'
    BY <1>2, PlanRuns
  <2> QED
    BY <1>2, <2>1 DEF RunChain, BooksFit
<1>3. CASE UNCHANGED economy
  BY <1>3 DEF economy, BooksFit, PlanTyped
<1> QED
  BY <1>1, <1>2, <1>3 DEF EconomicsNext

LEMMA EconomicsTypeInit == EconomicsInit => EconomicsTypeOK
  BY EconomicsAssumption DEF EconomicsInit, EconomicsTypeOK

(* Every amount of a plan is a number of cents, whatever the outcomes say, and the scheduler  *)
(* launches and holds missions of the portfolio only.                                      *)
THEOREM EconomicsTypeCorrect == EconomicsSpec => []EconomicsTypeOK
BY EconomicsTypeInit, EconomicsTypeNext, PTL DEF EconomicsSpec

-------------------------------------------------------------------------------
(* The services of MCOffices, together.                                                  *)

LEMMA OfficesApart ==
  /\ Init => QueueInit /\ DeliverablesInit /\ CyclesInit /\ MentorInit /\ EconomicsInit
  /\ [Next]_vars => /\ [QueueNext]_queueing /\ [DeliverablesNext]_deliverables
                    /\ [CyclesNext]_cycling /\ [MentorNext \/ TalkNext]_mentoring
                    /\ [EconomicsNext]_economy
<1>1. ASSUME Init
      PROVE  QueueInit /\ DeliverablesInit /\ CyclesInit /\ MentorInit /\ EconomicsInit
  BY <1>1 DEF Init
<1>2. ASSUME [Next]_vars
      PROVE  /\ [QueueNext]_queueing /\ [DeliverablesNext]_deliverables
             /\ [CyclesNext]_cycling /\ [MentorNext \/ TalkNext]_mentoring
             /\ [EconomicsNext]_economy
  BY <1>2 DEF Next, vars
<1> QED
  BY <1>1, <1>2

(* Whatever service is looked at, its variables are well typed: the queue and the messages  *)
(* that stop it, the files and threads of the deliverable commands, the documents of the    *)
(* cycles, the notes and prompts of the mentor, and the plans of the chain of budgets.     *)
THEOREM OfficesTypeCorrect == Spec => []TypeOK
<1>1. Spec => QueueSpec /\ DeliverablesSpec /\ CyclesSpec /\ MentorSpec /\ EconomicsSpec
  BY OfficesApart, PTL DEF Spec, QueueSpec, DeliverablesSpec, CyclesSpec, MentorSpec, EconomicsSpec
<1>2. /\ QueueTypeOK /\ DeliverablesTypeOK /\ CyclesTypeOK /\ MentorTypeOK /\ EconomicsTypeOK
      => TypeOK
  BY DEF TypeOK
<1> QED
  BY <1>1, <1>2, QueueTypeCorrect, DeliverablesTypeCorrect, CyclesTypeCorrect, MentorTypeCorrect,
     EconomicsTypeCorrect, PTL
================================================================================
