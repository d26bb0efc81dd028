----------------------------- MODULE MissionsProofs -----------------------------
(***************************************************************************)
(* Proofs about ProviderRuntime and Missions, for every finite set of       *)
(* threads, every order and limits of the providers, and every number of    *)
(* revisions that the configuration allows; and about MarketPipeline, for   *)
(* every set of listings, whatever changes of the world and of the          *)
(* configuration its workflows meet.                                        *)
(***************************************************************************)
EXTENDS Missions, MarketPipeline, FiniteSetTheorems, TLAPS

(* Where a thread stands in the order of providers.                         *)
Placed(s, i) ==
  /\ s \in Stages /\ i \in 0..Len(Order) + 1
  /\ s \in {"cooldown", "asking"} => i \in 1..Len(Order)
  /\ s = "limit" => i # 0
  /\ s \in {"direct", "answered"} => i # Len(Order) + 1

Placement == \A c \in Caller : Placed(stage[c], at[c])

(* The threads that have seen room in the limit of p and are not counted yet. *)
Asking(p) == {c \in Caller : stage[c] \in {"cooldown", "asking"} /\ Order[at[c]] = p}

(* The calls counted and those under way stay below the limit and one call    *)
(* for each thread.                                                         *)
Budget ==
  \A p \in Provider :
    Limit[p] # 0 => providers[p].calls + Cardinality(Asking(p)) < Limit[p] + Cardinality(Caller)

RoutingInv == RoutingTypeOK /\ Placement /\ Budget

LEMMA OrderType == Len(Order) \in Nat /\ \A i \in 1..Len(Order) : Order[i] \in Provider
  BY OrderAssumption

LEMMA AskingFinite ==
  \A p \in Provider : /\ IsFiniteSet(Asking(p)) /\ Cardinality(Asking(p)) \in Nat
                      /\ Cardinality(Asking(p)) <= Cardinality(Caller)
                      /\ Cardinality(Caller) \in Nat
  BY CallerAssumption, FS_Subset, FS_CardinalityType DEF Asking

LEMMA AskingFiniteNext ==
  \A p \in Provider : /\ IsFiniteSet(Asking(p)') /\ Cardinality(Asking(p)') \in Nat
                      /\ Cardinality(Asking(p)') <= Cardinality(Caller)
<1> SUFFICES ASSUME NEW p \in Provider
             PROVE  /\ IsFiniteSet(Asking(p)') /\ Cardinality(Asking(p)') \in Nat
                    /\ Cardinality(Asking(p)') <= Cardinality(Caller)
  OBVIOUS
<1>1. Asking(p)' \subseteq Caller
  BY DEF Asking
<1> QED
  BY <1>1, CallerAssumption, FS_Subset, FS_CardinalityType

(* A thread that goes where it is not about to ask: no provider gains a call.  *)
LEMMA Moves ==
  ASSUME RoutingInv, NEW c \in Caller, NEW s, NEW i, Placed(s, i),
         s \notin {"cooldown", "asking"},
         stage' = [stage EXCEPT ![c] = s], at' = [at EXCEPT ![c] = i],
         clock' \in [Caller -> Nat], UNCHANGED <<providers, now>>
  PROVE  RoutingInv'
<1>1. RoutingTypeOK'
  BY DEF RoutingInv, RoutingTypeOK, Placed
<1>2. \A d \in Caller : /\ stage'[d] = IF d = c THEN s ELSE stage[d]
                        /\ at'[d] = IF d = c THEN i ELSE at[d]
  BY DEF RoutingInv, RoutingTypeOK
<1>3. Placement'
  BY <1>2 DEF RoutingInv, Placement, Placed
<1>4. \A p \in Provider : Asking(p)' \subseteq Asking(p)
  BY <1>2 DEF Asking
<1>5. \A p \in Provider : Cardinality(Asking(p)') <= Cardinality(Asking(p))
  BY <1>4, AskingFinite, FS_Subset
<1>6. Budget'
  <2> SUFFICES ASSUME NEW p \in Provider, Limit[p] # 0
               PROVE  providers[p].calls + Cardinality(Asking(p)')
                        < Limit[p] + Cardinality(Caller)
    BY DEF Budget
  <2>1. providers[p].calls \in Nat /\ Limit[p] \in Nat
    BY LimitAssumption DEF RoutingInv, RoutingTypeOK
  <2>2. providers[p].calls + Cardinality(Asking(p)) < Limit[p] + Cardinality(Caller)
    BY DEF RoutingInv, Budget
  <2> QED
    BY <2>1, <2>2, <1>5, AskingFinite, AskingFiniteNext
<1> QED
  BY <1>1, <1>3, <1>6 DEF RoutingInv

(* A call that ends is counted, and no longer under way.                     *)
LEMMA Counted ==
  ASSUME RoutingInv, NEW c \in Caller, stage[c] = "asking",
         NEW entry \in [calls : Nat, failures : Nat, blocked : Nat],
         entry.calls = providers[Current(c)].calls + 1,
         providers' = [providers EXCEPT ![Current(c)] = entry],
         NEW s, NEW i, Placed(s, i), s \notin {"cooldown", "asking"},
         stage' = [stage EXCEPT ![c] = s], at' = [at EXCEPT ![c] = i],
         UNCHANGED <<now, clock>>
  PROVE  RoutingInv'
<1>0. PICK q \in Provider : q = Current(c)
  BY OrderType DEF RoutingInv, Placement, Placed, Current
<1>1. RoutingTypeOK'
  BY DEF RoutingInv, RoutingTypeOK, Placed
<1>2. \A d \in Caller : /\ stage'[d] = IF d = c THEN s ELSE stage[d]
                        /\ at'[d] = IF d = c THEN i ELSE at[d]
  BY DEF RoutingInv, RoutingTypeOK
<1>3. Placement'
  BY <1>2 DEF RoutingInv, Placement, Placed
<1>4. c \in Asking(q) /\ \A p \in Provider : Asking(p)' \subseteq Asking(p) \ {c}
  BY <1>0, <1>2 DEF Asking, Current
<1>5. Cardinality(Asking(q)') <= Cardinality(Asking(q)) - 1
  <2>1. IsFiniteSet(Asking(q) \ {c}) /\ Cardinality(Asking(q) \ {c}) = Cardinality(Asking(q)) - 1
    BY <1>0, <1>4, AskingFinite, FS_RemoveElement
  <2> QED
    BY <1>0, <1>4, <2>1, FS_Subset
<1>6. \A p \in Provider : Cardinality(Asking(p)') <= Cardinality(Asking(p))
  <2> SUFFICES ASSUME NEW p \in Provider
               PROVE  Cardinality(Asking(p)') <= Cardinality(Asking(p))
    OBVIOUS
  <2>1. Asking(p)' \subseteq Asking(p)
    BY <1>4
  <2> QED
    BY <2>1, AskingFinite, FS_Subset
<1>7. Budget'
  <2> SUFFICES ASSUME NEW p \in Provider, Limit[p] # 0
               PROVE  providers'[p].calls + Cardinality(Asking(p)')
                        < Limit[p] + Cardinality(Caller)
    BY DEF Budget
  <2>1. providers[p].calls \in Nat /\ Limit[p] \in Nat
    BY LimitAssumption DEF RoutingInv, RoutingTypeOK
  <2>2. providers[p].calls + Cardinality(Asking(p)) < Limit[p] + Cardinality(Caller)
    BY DEF RoutingInv, Budget
  <2>3. providers'[p].calls = IF p = q THEN providers[p].calls + 1 ELSE providers[p].calls
    BY <1>0 DEF RoutingInv, RoutingTypeOK
  <2> QED
    BY <2>1, <2>2, <2>3, <1>5, <1>6, AskingFinite, AskingFiniteNext
<1> QED
  BY <1>1, <1>3, <1>7 DEF RoutingInv

(* A thread sees room below the limit, or goes on from there to ask.          *)
LEMMA SeesRoom ==
  ASSUME RoutingInv, NEW c \in Caller, CheckLimit(c), at[c] <= Len(Order),
         ~Exhausted(Current(c))
  PROVE  RoutingInv'
<1> DEFINE q == Current(c)
<1>0. at[c] \in 1..Len(Order) /\ q \in Provider
  BY OrderType DEF RoutingInv, Placement, Placed, Current, CheckLimit
<1>1. /\ stage' = [stage EXCEPT ![c] = "cooldown"] /\ clock' = [clock EXCEPT ![c] = now]
      /\ UNCHANGED <<at, providers, now>>
  BY DEF CheckLimit
<1>2. RoutingTypeOK'
  BY <1>1 DEF RoutingInv, RoutingTypeOK, Stages
<1>3. \A d \in Caller : stage'[d] = IF d = c THEN "cooldown" ELSE stage[d]
  BY <1>1 DEF RoutingInv, RoutingTypeOK
<1>4. Placement'
  BY <1>0, <1>1, <1>3 DEF RoutingInv, Placement, Placed, Stages
<1>5. \A p \in Provider \ {q} : Asking(p)' \subseteq Asking(p)
  BY <1>1, <1>3 DEF Asking, Current
<1>6. Budget'
  <2> SUFFICES ASSUME NEW p \in Provider, Limit[p] # 0
               PROVE  providers[p].calls + Cardinality(Asking(p)')
                        < Limit[p] + Cardinality(Caller)
    BY <1>1 DEF Budget
  <2>1. providers[p].calls \in Nat /\ Limit[p] \in Nat
    BY LimitAssumption DEF RoutingInv, RoutingTypeOK
  <2>2. CASE p = q
    <3>1. providers[p].calls < Limit[p]
      BY <2>1, <2>2 DEF Exhausted
    <3> QED
      BY <2>1, <3>1, AskingFinite, AskingFiniteNext
  <2>3. CASE p # q
    <3>1. Cardinality(Asking(p)') <= Cardinality(Asking(p))
      <4>1. Asking(p)' \subseteq Asking(p)
        BY <1>5, <2>3
      <4> QED
        BY <4>1, AskingFinite, FS_Subset
    <3>2. providers[p].calls + Cardinality(Asking(p)) < Limit[p] + Cardinality(Caller)
      BY DEF RoutingInv, Budget
    <3> QED
      BY <2>1, <3>1, <3>2, AskingFinite, AskingFiniteNext
  <2> QED
    BY <2>2, <2>3
<1> QED
  BY <1>2, <1>4, <1>6 DEF RoutingInv

LEMMA GoesToAsk ==
  ASSUME RoutingInv, NEW c \in Caller, stage[c] = "cooldown",
         stage' = [stage EXCEPT ![c] = "asking"], clock' = [clock EXCEPT ![c] = 0],
         UNCHANGED <<at, providers, now>>
  PROVE  RoutingInv'
<1>1. RoutingTypeOK'
  BY DEF RoutingInv, RoutingTypeOK, Stages
<1>2. \A d \in Caller : stage'[d] = IF d = c THEN "asking" ELSE stage[d]
  BY DEF RoutingInv, RoutingTypeOK
<1>3. Placement'
  BY <1>2 DEF RoutingInv, Placement, Placed, Stages
<1>4. \A p \in Provider : Asking(p)' = Asking(p)
  BY <1>2 DEF Asking
<1>5. Budget'
  BY <1>4 DEF RoutingInv, Budget
<1> QED
  BY <1>1, <1>3, <1>5 DEF RoutingInv

LEMMA RoutingStepNext ==
  ASSUME RoutingInv, NEW c \in Caller, RoutingStep(c)
  PROVE  RoutingInv'
<1>t. /\ stage \in [Caller -> Stages] /\ at \in [Caller -> 0..Len(Order) + 1]
      /\ clock \in [Caller -> Nat] /\ now \in Nat
      /\ providers \in [Provider -> [calls : Nat, failures : Nat, blocked : Nat]]
  BY DEF RoutingInv, RoutingTypeOK
<1>p. Placed(stage[c], at[c])
  BY DEF RoutingInv, Placement
<1>l. Len(Order) \in Nat
  BY OrderType
<1>same. at = [at EXCEPT ![c] = at[c]]
  BY <1>t
<1>1. CASE AllFailed(c)
  <2>1. Placed("raised", at[c])
    BY <1>t, <1>p DEF Placed, Stages
  <2> QED
    BY <1>1, <1>t, <1>same, <2>1, Moves DEF AllFailed
<1>2. CASE CheckLimit(c)
  <2>1. CASE Exhausted(Current(c))
    <3>1. Placed("limit", at[c] + 1)
      BY <1>2, <1>t, <1>p, <1>l DEF Placed, Stages, CheckLimit
    <3> QED
      BY <1>2, <1>t, <2>1, <3>1, Moves DEF CheckLimit, Advance
  <2>2. CASE ~Exhausted(Current(c))
    BY <1>2, <2>2, SeesRoom DEF CheckLimit
  <2> QED
    BY <2>1, <2>2
<1>3. CASE CheckCooldown(c)
  <2>1. CASE Advance(c)
    <3>1. Placed("limit", at[c] + 1)
      BY <1>3, <1>t, <1>p, <1>l DEF Placed, Stages, CheckCooldown
    <3>2. clock' \in [Caller -> Nat] /\ UNCHANGED <<providers, now>>
      BY <1>3, <1>t DEF CheckCooldown
    <3> QED
      BY <2>1, <3>1, <3>2, Moves DEF Advance
  <2>2. CASE stage' = [stage EXCEPT ![c] = "asking"] /\ UNCHANGED at
    BY <1>3, <2>2, GoesToAsk DEF CheckCooldown
  <2> QED
    BY <1>3, <2>1, <2>2 DEF CheckCooldown
<1>4. CASE Succeeds(c)
  <2> DEFINE entry == [calls |-> providers[Current(c)].calls + 1, failures |-> 0, blocked |-> 0]
  <2>1. Current(c) \in Provider
    BY <1>4, <1>p, OrderType DEF Placed, Current, Succeeds
  <2>2. entry \in [calls : Nat, failures : Nat, blocked : Nat]
    BY <2>1, <1>t
  <2>3. Placed("answered", at[c])
    BY <1>4, <1>p, <1>l DEF Placed, Stages, Succeeds
  <2>4. /\ providers' = [providers EXCEPT ![Current(c)] = entry]
        /\ stage' = [stage EXCEPT ![c] = "answered"] /\ UNCHANGED <<now, at, clock>>
        /\ stage[c] = "asking"
    BY <1>4 DEF Succeeds
  <2>5. entry.calls = providers[Current(c)].calls + 1
    OBVIOUS
  <2> HIDE DEF entry
  <2> QED
    BY <1>same, <2>2, <2>3, <2>4, <2>5, Counted
<1>5. CASE Fails(c)
  <2> DEFINE entry == RecordFailure(providers[Current(c)])
  <2>1. Current(c) \in Provider
    BY <1>5, <1>p, OrderType DEF Placed, Current, Fails
  <2>2. /\ entry \in [calls : Nat, failures : Nat, blocked : Nat]
        /\ entry.calls = providers[Current(c)].calls + 1
    BY <2>1, <1>t, LimitAssumption DEF RecordFailure
  <2>3. Placed("limit", at[c] + 1)
    BY <1>5, <1>t, <1>p, <1>l DEF Placed, Stages, Fails
  <2>4. /\ providers' = [providers EXCEPT ![Current(c)] = entry]
        /\ stage' = [stage EXCEPT ![c] = "limit"] /\ at' = [at EXCEPT ![c] = at[c] + 1]
        /\ UNCHANGED <<now, clock>> /\ stage[c] = "asking"
    BY <1>5 DEF Fails, Advance
  <2> HIDE DEF entry
  <2> QED
    BY <2>2, <2>3, <2>4, Counted
<1>6. CASE Drops(c)
  <2>1. Placed("raised", at[c])
    BY <1>t, <1>p DEF Placed, Stages
  <2> QED
    BY <1>6, <1>t, <1>same, <2>1, Moves DEF Drops
<1>7. CASE DirectSucceeds(c)
  <2>1. CASE Placed("answered", at[c])
    BY <1>7, <1>t, <1>same, <2>1, Moves DEF DirectSucceeds
  <2> QED
    BY <1>7, <1>p, <1>t, <1>l, <2>1 DEF Placed, Stages, DirectSucceeds
<1>8. CASE DirectFails(c)
  <2>1. Placed("limit", 1)
    BY <1>l DEF Placed, Stages
  <2> QED
    BY <1>8, <1>t, <2>1, Moves DEF DirectFails, Begin
<1> QED
  BY <1>1, <1>2, <1>3, <1>4, <1>5, <1>6, <1>7, <1>8 DEF RoutingStep
-------------------------------------------------------------------------------
(* A mission between its steps: what the loop of validation, criticism and      *)
(* revision knows of its candidate in each phase.                              *)
Writing == {"ask", "specialist", "validate", "critic", "revision"}

GoodMission ==
  {m \in Mission :
     /\ m.phase \in {"validate", "critic", "revision"} =>
          m.draft = m.revisions + 1 /\ m.author = m.written
     /\ m.phase = "specialist" => m.revisions = 0
     /\ m.phase = "revision" => m.revisions < MaxRevisions
     /\ m.phase = "critic" => m.valid = m.draft
     /\ m.phase \in Writing => m.status = "none"
     /\ m.phase # "idle" /\ m.status = "completed" =>
          /\ m.draft > 0 /\ m.valid = m.draft
          /\ m.passed = m.draft /\ m.author = m.written}

MissionInv ==
  /\ RoutingInv
  /\ mission \in [Caller -> GoodMission]
  /\ served \in 0..MaxRequests

(* What a thread's request becomes is a good mission again.                    *)
LEMMA FreshType ==
  /\ FreshMission \in GoodMission
  /\ \A phase \in {"ask", "specialist"} : [FreshMission EXCEPT !.phase = phase] \in GoodMission
  /\ [FreshMission EXCEPT !.phase = "decided", !.status = "approval_required"] \in GoodMission
  /\ \A s \in MissionStatuses, r \in {"none", "completed", "failed"} :
       [FreshMission EXCEPT !.status = s, !.command = r] \in GoodMission
<1> USE OrderAssumption, RevisionsAssumption
<1>1. /\ 0 \in Drafts /\ 0 \in 0..MaxRevisions /\ Reasoner \in Provider
  BY DEF Drafts
<1>2. FreshMission \in Mission
  BY <1>1 DEF Mission, FreshMission, MissionPhases, MissionStatuses
<1>3. /\ FreshMission.phase = "idle" /\ FreshMission.status = "none"
      /\ FreshMission.revisions = 0
  BY DEF FreshMission
<1>4. FreshMission \in GoodMission
  BY <1>2, <1>3 DEF GoodMission, Writing
<1>5. ASSUME NEW phase \in {"ask", "specialist"}
      PROVE  [FreshMission EXCEPT !.phase = phase] \in GoodMission
  BY <1>2, <1>3 DEF GoodMission, Writing, Mission, MissionPhases
<1>6. [FreshMission EXCEPT !.phase = "decided", !.status = "approval_required"] \in GoodMission
  BY <1>2, <1>3 DEF GoodMission, Writing, Mission, MissionPhases, MissionStatuses
<1>7. ASSUME NEW s \in MissionStatuses, NEW r \in {"none", "completed", "failed"}
      PROVE  [FreshMission EXCEPT !.status = s, !.command = r] \in GoodMission
  BY <1>2, <1>3 DEF GoodMission, Writing, Mission, MissionPhases
<1> QED
  BY <1>4, <1>5, <1>6, <1>7

LEMMA WrittenType ==
  ASSUME NEW m \in GoodMission, NEW p \in Provider
  PROVE  /\ m.phase = "specialist" =>
              [m EXCEPT !.phase = "validate", !.draft = 1,
                        !.author = p, !.written = p] \in GoodMission
         /\ m.phase = "revision" =>
              [m EXCEPT !.phase = "validate", !.draft = @ + 1, !.revisions = @ + 1,
                        !.author = p, !.written = p] \in GoodMission
         /\ m.phase = "critic" =>
              [m EXCEPT !.phase = "decided", !.status = "completed",
                        !.passed = m.draft] \in GoodMission
<1>m. m \in Mission
  BY DEF GoodMission
<1>1. ASSUME m.phase = "specialist"
      PROVE  [m EXCEPT !.phase = "validate", !.draft = 1,
                       !.author = p, !.written = p] \in GoodMission
  <2> DEFINE next == [m EXCEPT !.phase = "validate", !.draft = 1, !.author = p, !.written = p]
  <2>1. 1 \in Drafts
    BY RevisionsAssumption DEF Drafts
  <2>2. next \in Mission
    BY <1>m, <2>1 DEF Mission, MissionPhases
  <2>3. /\ next.phase = "validate" /\ next.draft = 1 /\ next.author = next.written
        /\ next.revisions = m.revisions /\ next.status = m.status
    BY <1>m DEF Mission
  <2>4. m.revisions = 0 /\ m.status = "none"
    BY <1>1 DEF GoodMission, Writing
  <2> HIDE DEF next
  <2>5. next \in GoodMission
    BY <2>2, <2>3, <2>4 DEF GoodMission
  <2> QED
    BY <2>5 DEF next
<1>2. ASSUME m.phase = "revision"
      PROVE  [m EXCEPT !.phase = "validate", !.draft = @ + 1, !.revisions = @ + 1,
                       !.author = p, !.written = p] \in GoodMission
  <2> DEFINE next == [m EXCEPT !.phase = "validate", !.draft = @ + 1, !.revisions = @ + 1,
                               !.author = p, !.written = p]
  <2>1. /\ m.draft = m.revisions + 1 /\ m.revisions < MaxRevisions /\ m.status = "none"
        /\ m.revisions \in 0..MaxRevisions /\ MaxRevisions \in Nat
    BY <1>2, <1>m, RevisionsAssumption DEF GoodMission, Writing, Mission
  <2>2. m.draft + 1 \in Drafts /\ m.revisions + 1 \in 0..MaxRevisions
    BY <2>1 DEF Drafts
  <2>3. next \in Mission
    BY <1>m, <2>2 DEF Mission, MissionPhases
  <2>4. /\ next.phase = "validate" /\ next.draft = m.draft + 1 /\ next.author = next.written
        /\ next.revisions = m.revisions + 1 /\ next.status = m.status
    BY <1>m DEF Mission
  <2> HIDE DEF next
  <2>5. next \in GoodMission
    BY <2>1, <2>3, <2>4 DEF GoodMission
  <2> QED
    BY <2>5 DEF next
<1>3. ASSUME m.phase = "critic"
      PROVE  [m EXCEPT !.phase = "decided", !.status = "completed",
                       !.passed = m.draft] \in GoodMission
  <2> DEFINE next == [m EXCEPT !.phase = "decided", !.status = "completed", !.passed = m.draft]
  <2>1. /\ m.draft = m.revisions + 1 /\ m.valid = m.draft /\ m.author = m.written
        /\ m.revisions \in Nat
    BY <1>3, <1>m, RevisionsAssumption DEF GoodMission, Mission
  <2>2. next \in Mission
    BY <1>m DEF Mission, MissionPhases, MissionStatuses
  <2>3. /\ next.phase = "decided" /\ next.draft = m.draft /\ next.valid = m.valid
        /\ next.passed = m.draft /\ next.author = m.author /\ next.written = m.written
    BY <1>m DEF Mission
  <2> HIDE DEF next
  <2>4. next \in GoodMission
    BY <2>1, <2>2, <2>3 DEF GoodMission, Writing
  <2> QED
    BY <2>4 DEF next
<1> QED
  BY <1>1, <1>2, <1>3

LEMMA AnsweringType ==
  ASSUME RoutingInv, NEW c \in Caller, stage[c] = "answered"
  PROVE  Answering(c) \in Provider
  BY OrderAssumption, OrderType DEF RoutingInv, Placement, Placed, Answering, Current

(* A thread that starts a call of a model, leaves one, or was elsewhere.       *)
LEMMA Begins ==
  ASSUME RoutingInv, NEW c \in Caller, Begin(c) \/ BeginDirect(c) \/ Leave(c),
         UNCHANGED <<providers, now, clock>>
  PROVE  RoutingInv'
<1>1. Placed("limit", 1) /\ Placed("direct", 0) /\ Placed("out", 1)
  BY OrderType DEF Placed, Stages
<1>2. clock' \in [Caller -> Nat]
  BY DEF RoutingInv, RoutingTypeOK
<1>3. CASE Begin(c)
  BY <1>1, <1>2, <1>3, Moves DEF Begin
<1>4. CASE BeginDirect(c)
  BY <1>1, <1>2, <1>4, Moves DEF BeginDirect
<1>5. CASE Leave(c)
  BY <1>1, <1>2, <1>5, Moves DEF Leave
<1> QED
  BY <1>3, <1>4, <1>5

LEMMA BecomesType ==
  ASSUME MissionInv, NEW c \in Caller, NEW m \in GoodMission, Becomes(c, m)
  PROVE  mission' \in [Caller -> GoodMission]
  BY DEF MissionInv, Becomes

LEMMA ThreadAtRest ==
  ASSUME RoutingInv, UNCHANGED routing
  PROVE  RoutingInv'
  BY DEF RoutingInv, RoutingTypeOK, Placement, Budget, Asking, routing

(* The loop decides against a candidate that it has found invalid, or that the  *)
(* critic did not pass.                                                       *)
LEMMA RejectedNext ==
  ASSUME MissionInv, NEW c \in Caller, mission[c].phase \in {"validate", "critic"},
         Rejected(c, mission[c]), UNCHANGED <<providers, now, clock, served>>
  PROVE  MissionInv'
<1>1. mission[c] \in GoodMission
  BY DEF MissionInv
<1>2. CASE mission[c].revisions = MaxRevisions
  <2>1. [mission[c] EXCEPT !.phase = "decided", !.status = "failed_validation"] \in GoodMission
    BY <1>1 DEF GoodMission, Mission, MissionPhases, MissionStatuses, Writing
  <2> QED
    BY <1>2, <2>1, Begins, BecomesType DEF Rejected, MissionInv
<1>3. CASE mission[c].revisions # MaxRevisions
  <2>1. [mission[c] EXCEPT !.phase = "revision"] \in GoodMission
    BY <1>1, <1>3, RevisionsAssumption DEF GoodMission, Mission, MissionPhases, Writing
  <2> QED
    BY <1>3, <2>1, Begins, BecomesType DEF Rejected, Generate, MissionInv
<1> QED
  BY <1>2, <1>3

LEMMA MissionStepNext ==
  ASSUME MissionInv, NEW c \in Caller, MissionStep(c)
  PROVE  MissionInv'
<1>m. mission[c] \in GoodMission /\ RoutingInv
  BY DEF MissionInv
<1>e. ASSUME NEW report \in {"none", "completed", "failed"}, Ends(c, report)
      PROVE  mission' \in [Caller -> GoodMission]
  <2>1. mission[c].status \in MissionStatuses
    BY <1>m DEF GoodMission, Mission
  <2>2. [FreshMission EXCEPT !.status = mission[c].status, !.command = report] \in GoodMission
    BY <2>1, FreshType
  <2> QED
    BY <1>e, <2>2, BecomesType DEF Ends
<1>1. CASE AskEnds(c)
  BY <1>1, <1>m, <1>e, Begins DEF AskEnds, MissionInv
<1>2. CASE Drafted(c)
  <2>1. mission[c].phase = "specialist" /\ Answering(c) \in Provider
    BY <1>2, <1>m, AnsweringType DEF Drafted, ModelAnswered
  <2>2. [mission[c] EXCEPT !.phase = "validate", !.draft = 1,
           !.author = Answering(c), !.written = Answering(c)] \in GoodMission
    BY <1>m, <2>1, WrittenType
  <2>3. mission' \in [Caller -> GoodMission]
    BY <1>2, <2>2, BecomesType DEF Drafted
  <2> QED
    BY <1>2, <1>m, <2>3, Begins DEF Drafted, MissionInv
<1>3. CASE Validate(c)
  <2>1. CASE Rejected(c, mission[c])
    BY <1>3, <2>1, RejectedNext DEF Validate
  <2>2. CASE Generate(c, [mission[c] EXCEPT !.phase = "critic", !.valid = mission[c].draft])
    <3>1. [mission[c] EXCEPT !.phase = "critic", !.valid = mission[c].draft] \in GoodMission
      BY <1>3, <1>m DEF GoodMission, Mission, MissionPhases, Writing, Validate
    <3> QED
      BY <1>3, <1>m, <2>2, <3>1, Begins, BecomesType DEF Validate, Generate, MissionInv
  <2> QED
    BY <1>3, <2>1, <2>2 DEF Validate
<1>4. CASE Criticised(c)
  <2> DEFINE next == [mission[c] EXCEPT !.phase = "decided", !.status = "completed",
                        !.passed = mission[c].draft]
  <2>1. CASE Rejected(c, mission[c])
    BY <1>4, <2>1, RejectedNext DEF Criticised, ModelAnswered
  <2>2. CASE Becomes(c, next) /\ Leave(c)
    <3>1. next \in GoodMission
      BY <1>4, <1>m, <2>2, WrittenType, OrderAssumption DEF Criticised, ModelAnswered
    <3> HIDE DEF next
    <3> QED
      BY <1>4, <1>m, <2>2, <3>1, Begins, BecomesType DEF Criticised, MissionInv
  <2> QED
    BY <1>4, <2>1, <2>2 DEF Criticised
<1>5. CASE Revised(c)
  <2>1. mission[c].phase = "revision" /\ Answering(c) \in Provider
    BY <1>5, <1>m, AnsweringType DEF Revised, ModelAnswered
  <2>2. [mission[c] EXCEPT !.phase = "validate", !.draft = @ + 1, !.revisions = @ + 1,
           !.author = Answering(c), !.written = Answering(c)] \in GoodMission
    BY <1>m, <2>1, WrittenType
  <2>3. mission' \in [Caller -> GoodMission]
    BY <1>5, <2>2, BecomesType DEF Revised
  <2> QED
    BY <1>5, <1>m, <2>3, Begins DEF Revised, MissionInv
<1>6. CASE ModelFails(c)
  BY <1>6, <1>m, <1>e, Begins DEF ModelFails, MissionInv
<1>7. CASE RecordExperience(c)
  <2>1. [mission[c] EXCEPT !.phase = "recorded"] \in GoodMission
    BY <1>7, <1>m DEF RecordExperience, GoodMission, Mission, MissionPhases, Writing
  <2> QED
    BY <1>7, <1>m, <2>1, ThreadAtRest, BecomesType DEF RecordExperience, MissionInv
<1>8. CASE SaveMission(c) \/ StoreRaises(c)
  BY <1>8, <1>m, <1>e, ThreadAtRest DEF SaveMission, StoreRaises, MissionInv
<1> QED
  BY <1>1, <1>2, <1>3, <1>4, <1>5, <1>6, <1>7, <1>8 DEF MissionStep

LEMMA MissionInvNext == MissionInv /\ [MissionNext]_missions => MissionInv'
<1> SUFFICES ASSUME MissionInv, [MissionNext]_missions PROVE MissionInv'
  OBVIOUS
<1>m. RoutingInv /\ served \in 0..MaxRequests /\ MaxRequests \in Nat
  BY RevisionsAssumption DEF MissionInv
<1>1. ASSUME NEW c \in Caller, Progress(c) PROVE MissionInv'
  BY <1>1, <1>m, RoutingStepNext, MissionStepNext DEF Progress, MissionInv, missionVars
<1>2. ASSUME NEW c \in Caller, Ask(c) PROVE MissionInv'
  <2>1. RoutingInv'
    BY <1>2, <1>m, Begins DEF Ask
  <2>2. mission' \in [Caller -> GoodMission]
    BY <1>2, FreshType, BecomesType DEF Ask
  <2> QED
    BY <1>2, <1>m, <2>1, <2>2 DEF Ask, MissionInv
<1>3. ASSUME NEW c \in Caller, Gate(c) PROVE MissionInv'
  <2>1. RoutingInv'
    BY <1>3, <1>m, ThreadAtRest DEF Gate
  <2>2. mission' \in [Caller -> GoodMission]
    BY <1>3, FreshType, BecomesType DEF Gate
  <2>3. served' \in 0..MaxRequests
    BY <1>3, <1>m DEF Gate
  <2> QED
    BY <2>1, <2>2, <2>3 DEF MissionInv
<1>4. ASSUME NEW c \in Caller, Specialist(c) PROVE MissionInv'
  <2>1. RoutingInv'
    BY <1>4, <1>m, Begins DEF Specialist, Generate
  <2>2. mission' \in [Caller -> GoodMission]
    BY <1>4, FreshType, BecomesType DEF Specialist, Generate
  <2> QED
    BY <1>4, <1>m, <2>1, <2>2 DEF Specialist, MissionInv
<1>5. CASE Tick /\ UNCHANGED missionVars
  <2>1. RoutingInv'
    BY <1>5, <1>m DEF Tick, RoutingInv, RoutingTypeOK, Placement, Budget, Asking
  <2> QED
    BY <1>5, <2>1 DEF MissionInv, missionVars
<1>6. CASE UNCHANGED missions
  BY <1>6, <1>m, ThreadAtRest DEF missions, MissionInv
<1> QED
  BY <1>1, <1>2, <1>3, <1>4, <1>5, <1>6 DEF MissionNext

LEMMA MissionInvInit == MissionInit => MissionInv
<1> SUFFICES ASSUME MissionInit PROVE MissionInv
  OBVIOUS
<1>1. RoutingTypeOK /\ Placement
  BY OrderType DEF MissionInit, RoutingInit, RoutingTypeOK, Placement, Placed, Stages
<1>2. Budget
  <2> SUFFICES ASSUME NEW p \in Provider, Limit[p] # 0
               PROVE  providers[p].calls + Cardinality(Asking(p)) < Limit[p] + Cardinality(Caller)
    BY DEF Budget
  <2>1. Asking(p) = {}
    BY DEF Asking, MissionInit, RoutingInit
  <2>2. providers[p].calls = 0 /\ Limit[p] \in Nat
    BY LimitAssumption DEF MissionInit, RoutingInit
  <2> QED
    BY <2>1, <2>2, FS_EmptySet, AskingFinite
<1> QED
  <2>1. mission \in [Caller -> GoodMission]
    BY FreshType DEF MissionInit
  <2>2. served \in 0..MaxRequests
    BY RevisionsAssumption DEF MissionInit
  <2> QED
    BY <1>1, <1>2, <2>1, <2>2 DEF MissionInv, RoutingInv

LEMMA MissionInvariant == MissionSpec => []MissionInv
  BY MissionInvInit, MissionInvNext, PTL DEF MissionSpec

-------------------------------------------------------------------------------
(* The circuit breaker.                                                        *)

(* The threads that are waiting for an answer of p.                            *)
Waiting(p) == {c \in Caller : stage[c] = "asking" /\ Order[at[c]] = p}

(* The failures that the rest periods over by a time allow: one of each thread. *)
Tolerated(t) == Cardinality(Caller) * (t \div Rest)

(* Failures of p counted so far and those its waiting threads can still add     *)
(* are bounded by the rest periods that have begun; those beyond the threshold  *)
(* by the periods before the end of its rest.                                  *)
Breaker ==
  /\ \A c \in Caller : clock[c] <= now
  /\ \A p \in Provider :
       /\ providers[p].failures + Cardinality(Waiting(p))
            < Threshold + Cardinality(Caller) + Tolerated(now)
       /\ providers[p].failures >= Threshold =>
            providers[p].failures < Threshold + Tolerated(providers[p].blocked)

(* What is allowed grows with time, by one failure of each thread per period.  *)
LEMMA ToleratedGrows ==
  ASSUME NEW s \in Nat
  PROVE  /\ Tolerated(s) \in Nat
         /\ \A t \in Nat : s <= t => Tolerated(s) <= Tolerated(t)
         /\ Tolerated(s + Rest) = Tolerated(s) + Cardinality(Caller)
         /\ Cardinality(Caller) * (1 + s \div Rest) = Tolerated(s) + Cardinality(Caller)
<1> DEFINE n == Cardinality(Caller)
<1>0. Rest \in Nat \ {0} /\ n \in Nat
  BY LimitAssumption, CallerAssumption, FS_CardinalityType
<1> HIDE DEF n
<1>1. s \div Rest \in Nat /\ (s + Rest) \div Rest = 1 + s \div Rest
  BY <1>0
<1>2. \A t \in Nat : s <= t => t \div Rest \in Nat /\ s \div Rest <= t \div Rest
  BY <1>0
<1>3. \A x \in Nat, y \in Nat : x <= y => n * x \in Nat /\ n * x <= n * y
  BY <1>0
<1>4. \A x \in Nat : n * (1 + x) = n * x + n
  BY <1>0
<1>5. n * (s \div Rest) \in Nat
  BY <1>1, <1>3
<1>6. \A t \in Nat : s <= t => n * (s \div Rest) <= n * (t \div Rest)
  BY <1>1, <1>2, <1>3
<1>7. n * (1 + s \div Rest) = n * (s \div Rest) + n
  BY <1>1, <1>4
<1>8. n * ((s + Rest) \div Rest) = n * (s \div Rest) + n
  BY <1>1, <1>7
<1> QED
  BY <1>5, <1>6, <1>7, <1>8 DEF Tolerated, n

LEMMA WaitingFinite ==
  \A p \in Provider : /\ IsFiniteSet(Waiting(p)) /\ Cardinality(Waiting(p)) \in Nat
                      /\ Cardinality(Waiting(p)) <= Cardinality(Caller)
                      /\ Cardinality(Caller) \in Nat
  BY CallerAssumption, FS_Subset, FS_CardinalityType DEF Waiting

LEMMA WaitingFiniteNext ==
  \A p \in Provider : /\ IsFiniteSet(Waiting(p)') /\ Cardinality(Waiting(p)') \in Nat
                      /\ Cardinality(Waiting(p)') <= Cardinality(Caller)
<1> SUFFICES ASSUME NEW p \in Provider
             PROVE  /\ IsFiniteSet(Waiting(p)') /\ Cardinality(Waiting(p)') \in Nat
                    /\ Cardinality(Waiting(p)') <= Cardinality(Caller)
  OBVIOUS
<1>1. Waiting(p)' \subseteq Caller
  BY DEF Waiting
<1> QED
  BY <1>1, CallerAssumption, FS_Subset, FS_CardinalityType

(* A step after which no thread newly waits, while time does not go back.       *)
LEMMA BreakerKept ==
  ASSUME RoutingInv, RoutingInv', Breaker, UNCHANGED providers, now <= now',
         \A c \in Caller : clock'[c] <= now',
         \A p \in Provider : Waiting(p)' \subseteq Waiting(p)
  PROVE  Breaker'
<1> SUFFICES ASSUME NEW p \in Provider
             PROVE  providers[p].failures + Cardinality(Waiting(p)')
                      < Threshold + Cardinality(Caller) + Tolerated(now')
  BY DEF Breaker, Tolerated
<1>1. /\ providers[p].failures \in Nat /\ now \in Nat /\ now' \in Nat
      /\ Threshold \in Nat /\ Cardinality(Caller) \in Nat
  BY WaitingFinite, LimitAssumption DEF RoutingInv, RoutingTypeOK
<1>2. Cardinality(Waiting(p)') <= Cardinality(Waiting(p))
  BY WaitingFinite, FS_Subset
<1>3. /\ Tolerated(now) \in Nat /\ Tolerated(now') \in Nat /\ Tolerated(now) <= Tolerated(now')
  BY <1>1, ToleratedGrows
<1>4. providers[p].failures + Cardinality(Waiting(p))
        < Threshold + Cardinality(Caller) + Tolerated(now)
  BY DEF Breaker
<1> QED
  BY <1>1, <1>2, <1>3, <1>4, WaitingFinite, WaitingFiniteNext

(* A thread that goes anywhere but to wait.                                    *)
LEMMA NotWaiting ==
  ASSUME RoutingInv, NEW c \in Caller, NEW s, s # "asking",
         stage' = [stage EXCEPT ![c] = s],
         \/ UNCHANGED at
         \/ \E i : at' = [at EXCEPT ![c] = i]
  PROVE  \A p \in Provider : Waiting(p)' \subseteq Waiting(p)
<1>1. \A d \in Caller : d # c => stage'[d] = stage[d] /\ at'[d] = at[d]
  BY DEF RoutingInv, RoutingTypeOK
<1>2. stage'[c] # "asking"
  BY DEF RoutingInv, RoutingTypeOK
<1> QED
  BY <1>1, <1>2 DEF Waiting

(* available() lets a thread ask p only when the rest of p was over at the     *)
(* time the thread had read, which is not later than now.                      *)
LEMMA BreakerLets ==
  ASSUME RoutingInv, RoutingInv', Breaker, NEW c \in Caller, CheckCooldown(c),
         providers[Current(c)].blocked <= clock[c]
  PROVE  Breaker'
<1> DEFINE q == Current(c)
           N == Cardinality(Caller)
<1>0. q \in Provider
  BY OrderType DEF CheckCooldown, RoutingInv, Placement, Placed, Current
<1>1. UNCHANGED <<providers, now>> /\ clock' = [clock EXCEPT ![c] = 0]
      /\ (at' = at \/ \E i : at' = [at EXCEPT ![c] = i])
      /\ \E s : stage' = [stage EXCEPT ![c] = s]
  BY DEF CheckCooldown, Advance
<1>2. \A d \in Caller : clock'[d] <= now'
  <2>1. clock \in [Caller -> Nat] /\ now \in Nat
    BY DEF RoutingInv, RoutingTypeOK
  <2>2. \A d \in Caller : clock[d] <= now
    BY DEF Breaker
  <2> QED
    BY <1>1, <2>1, <2>2
<1>3. ASSUME NEW p \in Provider
      PROVE  providers[p].failures + Cardinality(Waiting(p)') < Threshold + N + Tolerated(now)
  <2>1. /\ providers[p].failures \in Nat /\ now \in Nat /\ clock[c] \in Nat
        /\ providers[p].blocked \in Nat /\ Threshold \in Nat /\ N \in Nat
        /\ Cardinality(Waiting(p)') \in Nat /\ Cardinality(Waiting(p)') <= N
    BY WaitingFinite, WaitingFiniteNext, LimitAssumption DEF RoutingInv, RoutingTypeOK
  <2>2. CASE p = q
    <3>1. providers[p].blocked <= now
      BY <2>1, <2>2 DEF Breaker
    <3>2. providers[p].failures >= Threshold =>
             providers[p].failures < Threshold + Tolerated(providers[p].blocked)
      BY DEF Breaker
    <3> HIDE DEF N, q
    <3>3. /\ Tolerated(providers[p].blocked) \in Nat /\ Tolerated(now) \in Nat
          /\ Tolerated(providers[p].blocked) <= Tolerated(now)
      BY <2>1, <3>1, ToleratedGrows
    <3> QED
      BY <2>1, <3>2, <3>3
  <2>3. CASE p # q
    <3>1. \A d \in Caller : d # c => stage'[d] = stage[d] /\ at'[d] = at[d]
      BY <1>1 DEF RoutingInv, RoutingTypeOK
    <3>2. Waiting(p)' \subseteq Waiting(p)
      <4>1. stage'[c] = "asking" => at'[c] = at[c]
        BY DEF CheckCooldown, Advance, RoutingInv, RoutingTypeOK
      <4> QED
        BY <2>3, <3>1, <4>1 DEF Waiting, Current
    <3>3. Cardinality(Waiting(p)') <= Cardinality(Waiting(p)) /\ Cardinality(Waiting(p)) \in Nat
      BY <3>2, WaitingFinite, FS_Subset
    <3>4. providers[p].failures + Cardinality(Waiting(p)) < Threshold + N + Tolerated(now)
      BY DEF Breaker
    <3>5. Tolerated(now) \in Nat
      BY <2>1, ToleratedGrows
    <3> HIDE DEF N
    <3> QED
      BY <2>1, <3>3, <3>4, <3>5
  <2> QED
    BY <2>2, <2>3
<1> QED
  BY <1>1, <1>2, <1>3 DEF Breaker

(* An answer resets the failures; a failure is one of those the breaker let      *)
(* through, and rests the provider for a whole period.                         *)
LEMMA BreakerCounts ==
  ASSUME RoutingInv, RoutingInv', Breaker, NEW c \in Caller, Succeeds(c) \/ Fails(c)
  PROVE  Breaker'
<1> DEFINE N == Cardinality(Caller)
<1>q. PICK q \in Provider : q = Current(c)
  BY OrderType DEF Succeeds, Fails, RoutingInv, Placement, Placed, Current
<1>0. q \in Provider /\ q = Current(c) /\ c \in Waiting(q)
  BY <1>q DEF Succeeds, Fails, Current, Waiting
<1>t. /\ providers \in [Provider -> [calls : Nat, failures : Nat, blocked : Nat]]
      /\ now \in Nat /\ Threshold \in Nat \ {0} /\ N \in Nat /\ Rest \in Nat \ {0}
  BY WaitingFinite, LimitAssumption, <1>0 DEF RoutingInv, RoutingTypeOK
<1>1. UNCHANGED <<now, clock>>
  BY DEF Succeeds, Fails
<1>2. \A p \in Provider : Waiting(p)' \subseteq Waiting(p)
  BY NotWaiting DEF Succeeds, Fails, Advance
<1>3. \A p \in Provider : Cardinality(Waiting(p)') <= Cardinality(Waiting(p))
  BY <1>2, WaitingFinite, FS_Subset
<1>4. Cardinality(Waiting(q)') <= Cardinality(Waiting(q)) - 1
  <2>1. stage'[c] # "asking"
    BY DEF Succeeds, Fails, Advance, RoutingInv, RoutingTypeOK
  <2>2. Waiting(q)' \subseteq Waiting(q) \ {c}
    BY <1>0, <1>2, <2>1 DEF Waiting
  <2>3. /\ IsFiniteSet(Waiting(q) \ {c})
        /\ Cardinality(Waiting(q) \ {c}) = Cardinality(Waiting(q)) - 1
    BY <1>0, WaitingFinite, FS_RemoveElement
  <2> QED
    BY <2>2, <2>3, FS_Subset
<1>5. Tolerated(now) \in Nat /\ Tolerated(now + Rest) = Tolerated(now) + N
  BY <1>t, ToleratedGrows
<1>w. Cardinality(Waiting(q)') \in Nat /\ Cardinality(Waiting(q)') <= N
  BY WaitingFiniteNext
<1>6. ASSUME NEW p \in Provider, p # q
      PROVE  /\ providers'[p].failures + Cardinality(Waiting(p)') < Threshold + N + Tolerated(now)
             /\ providers'[p].failures >= Threshold =>
                  providers'[p].failures < Threshold + Tolerated(providers'[p].blocked)
  <2>1. providers'[p] = providers[p] /\ providers[p].failures \in Nat
    BY <1>0, <1>6, <1>t DEF Succeeds, Fails
  <2>2. /\ providers[p].failures + Cardinality(Waiting(p)) < Threshold + N + Tolerated(now)
        /\ providers[p].failures >= Threshold =>
             providers[p].failures < Threshold + Tolerated(providers[p].blocked)
    BY DEF Breaker
  <2> HIDE DEF N
  <2>3. providers[p].failures + Cardinality(Waiting(p)') < Threshold + N + Tolerated(now)
    BY <1>t, <1>3, <1>5, <2>1, <2>2, WaitingFinite, WaitingFiniteNext
  <2> QED
    BY <2>1, <2>2, <2>3
<1>7. /\ providers'[q].failures + Cardinality(Waiting(q)') < Threshold + N + Tolerated(now)
      /\ providers'[q].failures >= Threshold =>
           providers'[q].failures < Threshold + Tolerated(providers'[q].blocked)
  <2>1. CASE Succeeds(c)
    <3>1. providers'[q].failures = 0
      BY <1>0, <1>t, <2>1 DEF Succeeds
    <3> HIDE DEF N
    <3> QED
      BY <1>t, <1>5, <1>w, <3>1
  <2>2. CASE Fails(c)
    <3>1. /\ providers'[q].failures = providers[q].failures + 1
          /\ providers[q].failures + 1 >= Threshold => providers'[q].blocked = now + Rest
          /\ providers[q].failures \in Nat
      BY <1>0, <1>t, <2>2 DEF Fails, RecordFailure
    <3>2. providers[q].failures + Cardinality(Waiting(q)) < Threshold + N + Tolerated(now)
      BY <1>0 DEF Breaker
    <3> HIDE DEF N
    <3>3. providers'[q].failures + Cardinality(Waiting(q)') < Threshold + N + Tolerated(now)
      BY <1>0, <1>t, <1>4, <1>5, <3>1, <3>2, WaitingFinite, WaitingFiniteNext
    <3>4. providers'[q].failures < Threshold + N + Tolerated(now)
      BY <1>t, <1>5, <1>w, <3>1, <3>3
    <3> QED
      BY <1>t, <1>5, <3>1, <3>3, <3>4
  <2> QED
    BY <2>1, <2>2
<1> QED
  BY <1>1, <1>6, <1>7 DEF Breaker

LEMMA BreakerRoutingStep ==
  ASSUME RoutingInv, RoutingInv', Breaker, NEW c \in Caller, RoutingStep(c)
  PROVE  Breaker'
<1>t. /\ \A d \in Caller : clock[d] <= now
      /\ now \in Nat /\ clock \in [Caller -> Nat]
  BY DEF Breaker, RoutingInv, RoutingTypeOK
<1>1. CASE AllFailed(c) \/ Drops(c) \/ DirectSucceeds(c) \/ DirectFails(c)
  <2>1. /\ UNCHANGED <<providers, now, clock>>
        /\ \A p \in Provider : Waiting(p)' \subseteq Waiting(p)
    BY <1>1, NotWaiting DEF AllFailed, Drops, DirectSucceeds, DirectFails, Begin
  <2> QED
    BY <1>t, <2>1, BreakerKept
<1>2. CASE CheckLimit(c)
  <2>1. /\ UNCHANGED <<providers, now>>
        /\ \A p \in Provider : Waiting(p)' \subseteq Waiting(p)
    BY <1>2, NotWaiting DEF CheckLimit, Advance
  <2>2. \A d \in Caller : clock'[d] <= now'
    BY <1>2, <1>t, <2>1 DEF CheckLimit
  <2> QED
    BY <1>t, <2>1, <2>2, BreakerKept
<1>3. CASE CheckCooldown(c)
  <2>1. CASE providers[Current(c)].blocked <= clock[c]
    BY <1>3, <2>1, BreakerLets
  <2>2. CASE ~(providers[Current(c)].blocked <= clock[c])
    <3>1. /\ UNCHANGED <<providers, now>>
          /\ \A p \in Provider : Waiting(p)' \subseteq Waiting(p)
      BY <1>3, <2>2, NotWaiting DEF CheckCooldown, Advance
    <3>2. \A d \in Caller : clock'[d] <= now'
      BY <1>3, <1>t, <3>1 DEF CheckCooldown
    <3> QED
      BY <1>t, <3>1, <3>2, BreakerKept
  <2> QED
    BY <2>1, <2>2
<1>4. CASE Succeeds(c) \/ Fails(c)
  BY <1>4, BreakerCounts
<1> QED
  BY <1>1, <1>2, <1>3, <1>4 DEF RoutingStep

LEMMA BreakerNext ==
  ASSUME MissionInv, MissionInv', Breaker, [MissionNext]_missions
  PROVE  Breaker'
<1>i. RoutingInv /\ RoutingInv'
  BY DEF MissionInv
<1>t. now \in Nat /\ \A d \in Caller : clock[d] <= now
  BY <1>i DEF Breaker, RoutingInv, RoutingTypeOK
<1>r. CASE UNCHANGED routing
  <2>1. UNCHANGED <<providers, now, stage, at, clock>>
    BY <1>r DEF routing
  <2> QED
    BY <1>i, <1>t, <2>1, BreakerKept DEF Waiting
<1>b. ASSUME NEW c \in Caller, UNCHANGED <<providers, now, clock>>,
             Begin(c) \/ BeginDirect(c) \/ Leave(c)
      PROVE  Breaker'
  <2>1. \A p \in Provider : Waiting(p)' \subseteq Waiting(p)
    BY <1>b, <1>i, NotWaiting DEF Begin, BeginDirect, Leave
  <2> QED
    BY <1>b, <1>i, <1>t, <2>1, BreakerKept
<1>1. ASSUME NEW c \in Caller, RoutingStep(c) PROVE Breaker'
  BY <1>1, <1>i, BreakerRoutingStep
<1>2. ASSUME NEW c \in Caller, MissionStep(c) PROVE Breaker'
  <2>1. \/ UNCHANGED routing
        \/ /\ UNCHANGED <<providers, now, clock>>
           /\ Begin(c) \/ BeginDirect(c) \/ Leave(c)
    BY <1>2 DEF MissionStep, AskEnds, Drafted, Validate, Criticised, Revised,
       ModelFails, RecordExperience, SaveMission, StoreRaises, Rejected, Generate
  <2> QED
    BY <1>r, <1>b, <2>1
<1>3. ASSUME NEW c \in Caller, Ask(c) \/ Gate(c) \/ Specialist(c) PROVE Breaker'
  <2>1. \/ UNCHANGED routing
        \/ /\ UNCHANGED <<providers, now, clock>>
           /\ Begin(c) \/ BeginDirect(c) \/ Leave(c)
    BY <1>3 DEF Ask, Gate, Specialist, Generate
  <2> QED
    BY <1>r, <1>b, <2>1
<1>4. CASE Tick
  <2>1. /\ UNCHANGED <<providers, stage, at, clock>> /\ now <= now'
        /\ \A d \in Caller : clock'[d] <= now'
    BY <1>4, <1>t, <1>i DEF Tick, RoutingInv, RoutingTypeOK
  <2> QED
    BY <1>i, <2>1, BreakerKept DEF Waiting
<1> QED
  BY <1>r, <1>1, <1>2, <1>3, <1>4 DEF MissionNext, Progress, missions, routing

LEMMA BreakerInit == MissionInit => Breaker
<1> SUFFICES ASSUME MissionInit PROVE Breaker
  OBVIOUS
<1>1. \A c \in Caller : clock[c] <= now
  BY DEF MissionInit, RoutingInit
<1>2. ASSUME NEW p \in Provider
      PROVE  /\ providers[p].failures = 0 /\ Cardinality(Waiting(p)) <= Cardinality(Caller)
             /\ Cardinality(Waiting(p)) \in Nat /\ Cardinality(Caller) \in Nat
  BY WaitingFinite DEF MissionInit, RoutingInit
<1>3. now = 0 /\ Threshold \in Nat \ {0}
  BY LimitAssumption DEF MissionInit, RoutingInit
<1>4. Tolerated(now) \in Nat
  BY <1>3, ToleratedGrows
<1> QED
  BY <1>1, <1>2, <1>3, <1>4 DEF Breaker

-------------------------------------------------------------------------------
(* The table of providers, the threads and their missions keep their shape.    *)
THEOREM MissionTypeCorrect == MissionSpec => []MissionTypeOK
<1>1. MissionInv => MissionTypeOK
  BY DEF MissionInv, RoutingInv, MissionTypeOK, GoodMission
<1> QED
  BY <1>1, MissionInvariant, PTL

(* The unlocked read of the call count lets a provider be called beyond its      *)
(* limit by fewer calls than there are threads, never by more.                 *)
THEOREM LimitOvershootHolds == MissionSpec => []LimitOvershoot
<1>1. MissionInv => LimitOvershoot
  <2> SUFFICES ASSUME MissionInv, NEW p \in Provider, Limit[p] # 0
               PROVE  providers[p].calls < Limit[p] + Cardinality(Caller)
    BY DEF LimitOvershoot
  <2>1. providers[p].calls \in Nat /\ Limit[p] \in Nat
    BY LimitAssumption DEF MissionInv, RoutingInv, RoutingTypeOK
  <2>2. providers[p].calls + Cardinality(Asking(p)) < Limit[p] + Cardinality(Caller)
    BY DEF MissionInv, RoutingInv, Budget
  <2> QED
    BY <2>1, <2>2, AskingFinite
<1> QED
  BY <1>1, MissionInvariant, PTL

(* A completed mission returns the draft that was found valid and passed, by     *)
(* the model that it names.                                                   *)
THEOREM AcceptedIsReviewedHolds == MissionSpec => []AcceptedIsReviewed
<1>1. MissionInv => AcceptedIsReviewed
  BY DEF MissionInv, GoodMission, AcceptedIsReviewed
<1> QED
  BY <1>1, MissionInvariant, PTL

(* The failures in a row recorded of a provider are at most one per thread and    *)
(* rest period beyond the threshold, whatever the threads saw without the lock. *)
THEOREM BreakerBoundsFailuresHolds == MissionSpec => []BreakerBoundsFailures
<1>1. MissionSpec => []Breaker
  BY BreakerInit, BreakerNext, MissionInvariant, PTL DEF MissionSpec
<1>2. MissionInv /\ Breaker => BreakerBoundsFailures
  <2> SUFFICES ASSUME MissionInv, Breaker, NEW p \in Provider
               PROVE  providers[p].failures
                        < Threshold + Cardinality(Caller) * (1 + now \div Rest)
    BY DEF BreakerBoundsFailures
  <2>1. providers[p].failures \in Nat /\ now \in Nat /\ Threshold \in Nat
    BY LimitAssumption DEF MissionInv, RoutingInv, RoutingTypeOK
  <2>2. /\ Tolerated(now) \in Nat
        /\ Cardinality(Caller) * (1 + now \div Rest) = Tolerated(now) + Cardinality(Caller)
    BY <2>1, ToleratedGrows
  <2> QED
    BY <2>1, <2>2, WaitingFinite DEF Breaker
<1> QED
  BY <1>1, <1>2, MissionInvariant, PTL
--------------------------------------------------------------------------------
(* MarketPipeline: the rows, dossiers and human actions that each script leaves.             *)

Rows == [Listing -> Row \cup {NoRow}]
MarketJob == [wf : Workflows, at : Nat \ {0}, config : Config, disk : Results]

(* A listing that a run with these capabilities prepares a dossier for.              *)
CanBePrepared(l, capable) == l \in Payable \cap capable \cap Gated /\ l \notin Oversized

(* A row of a freelance listing that is marked as prepared has its dossier, unless the *)
(* registry of prepared artifacts marked it.                                         *)
MarksHaveDossiers(disk, capable) ==
  \A l \in Freelance \ Registered :
    disk.market[l].prepared => l \in disk.dossiers /\ CanBePrepared(l, capable)

(* From the scope of a listing to its dossier: what is marked is still to prepare, and  *)
(* what is to prepare can be.                                                        *)
DecidedAnew(disk, capable) ==
  \A l \in Freelance :
    /\ disk.market[l].prepared /\ l \notin Registered
         => disk.market[l].status = "prepare_then_gate"
    /\ disk.market[l].status = "prepare_then_gate" => CanBePrepared(l, capable)

(* What is ready for the owner or in the portfolio is backed by the rows and dossiers.  *)
HumanBacked(disk) == \A i \in disk.human : i.id \in Freelance => i.id \in disk.dossiers \cup Registered
PlacesEarned(disk, registry) ==
  \A l \in disk.portfolio \cup {i.id : i \in disk.human} :
    ~disk.market[l].bad /\ l \notin registry

JobShape ==
  ~Resting =>
    /\ job \in MarketJob /\ job.at \in 1 .. Len(Scripts[job.wf])
    /\ job.disk.dossiers \subseteq Freelance
    /\ Here("commit") => job.disk.new \subseteq job.disk.human
    /\ Here("alert") => job.disk.new \subseteq branch.human
MarketShape == branch \in Results /\ MarketTypeOK /\ JobShape

BranchSafe == demoted \/ (MarksHaveDossiers(branch, config.capable) /\ HumanBacked(branch))
JobSafe ==
  ~Resting =>
    /\ demoted \/ job.config.capable \subseteq config.capable
    /\ demoted \/ MarksHaveDossiers(job.disk, job.config.capable)
    /\ (Here("enforce") \/ Here("dossiers")) /\ ~demoted
         => DecidedAnew(job.disk, job.config.capable)
    /\ Here("commit") => /\ demoted \/ HumanBacked(job.disk)
                         /\ PlacesEarned(job.disk, job.config.registry)
MarketInv == MarketShape /\ BranchSafe /\ JobSafe

(* The scripts of a workflow, in their order.                                        *)
LEMMA ScriptOrder ==
  ASSUME NEW w \in Workflows, NEW n \in 1 .. Len(Scripts[w])
  PROVE  /\ Scripts[w][n] \notin {"commit", "alert"} => n + 1 \in 1 .. Len(Scripts[w])
         /\ Scripts[w][n] = "commit" /\ w = "full" =>
              n + 1 \in 1 .. Len(Scripts[w]) /\ Scripts[w][n + 1] = "alert"
         /\ n + 1 \in 1 .. Len(Scripts[w]) =>
              /\ Scripts[w][n + 1] = "enforce" => Scripts[w][n] = "classify"
              /\ Scripts[w][n + 1] = "dossiers" => Scripts[w][n] = "enforce"
              /\ Scripts[w][n + 1] = "commit" => Scripts[w][n] = "postprocess"
              /\ Scripts[w][n + 1] = "alert" => Scripts[w][n] = "commit"
         /\ 1 \in 1 .. Len(Scripts[w])
         /\ Scripts[w][1] \notin {"enforce", "dossiers", "commit", "alert"}
<1>1. CASE w = "full"
  <2>1. Scripts[w] = <<"universal", "small", "verify", "simple", "classify", "enforce",
                       "dossiers", "postprocess", "commit", "alert">>
    BY <1>1 DEF Scripts
  <2> QED
    BY <1>1, <2>1
<1>2. CASE w = "verify"
  <2>1. Scripts[w] = <<"verify", "postprocess", "commit">>
    BY <1>2 DEF Scripts
  <2> QED
    BY <1>2, <2>1
<1>3. CASE w = "reward"
  <2>1. Scripts[w] = <<"small", "verify", "classify", "enforce", "dossiers",
                       "postprocess", "commit">>
    BY <1>3 DEF Scripts
  <2> QED
    BY <1>3, <2>1
<1>4. CASE w = "expanded"
  <2>1. Scripts[w] = <<"expand", "classify", "enforce", "dossiers", "postprocess", "commit">>
    BY <1>4 DEF Scripts
  <2> QED
    BY <1>4, <2>1
<1> QED
  BY <1>1, <1>2, <1>3, <1>4 DEF Workflows

(* A row that is decided again keeps everything but its status.                        *)
LEMMA EvaluateRows ==
  ASSUME NEW rows \in Rows
  PROVE  /\ Evaluate(rows) \in Rows
         /\ \A l \in Listing :
              /\ Evaluate(rows)[l].prepared = rows[l].prepared
              /\ Evaluate(rows)[l].bad = rows[l].bad
              /\ Present(rows, l) => Evaluate(rows)[l].status = Decide(l)
              /\ ~Present(rows, l) => Evaluate(rows)[l] = NoRow
<1>1. ASSUME NEW l \in Listing, Present(rows, l)
      PROVE  LET r == [rows[l] EXCEPT !.status = Decide(l)]
             IN  /\ r \in Row /\ r.prepared = rows[l].prepared /\ r.bad = rows[l].bad
                 /\ r.status = Decide(l)
  <2>1. rows[l] \in Row /\ Decide(l) \in Statuses
    BY <1>1 DEF Rows, Present, Decide, Statuses
  <2> QED
    BY <2>1 DEF Row
<1>2. \A l \in Listing : ~Present(rows, l) => rows[l] = NoRow
  BY DEF Present
<1> QED
  BY <1>1, <1>2 DEF Evaluate, Rows

LEMMA FoundRow ==
  ASSUME NEW l \in Listing
  PROVE  Found(l) \in Row /\ ~Found(l).prepared
<1>1. Decide(l) \in Statuses
  BY DEF Decide, Statuses
<1> QED
  BY <1>1 DEF Found, Row

(* Rows may be dropped, replaced by new ones and decided anew: nothing gets marked.      *)
NoNewMark(rows, old) ==
  \A l \in Freelance \ Registered : rows[l].prepared => old[l].prepared

LEMMA JoinedRows ==
  ASSUME NEW rows \in Rows, NEW found, NEW better
  PROVE  Joined(rows, found, better) \in Rows /\ NoNewMark(Joined(rows, found, better), rows)
<1> DEFINE joined == [l \in Listing |->
              IF l \in found /\ (~Present(rows, l) \/ l \in better) THEN Found(l) ELSE rows[l]]
<1>1. joined \in Rows
  BY FoundRow DEF Rows
<1>2. \A l \in Listing : joined[l].prepared => rows[l].prepared
  BY FoundRow
<1>3. Joined(rows, found, better) = Evaluate(joined)
  BY DEF Joined
<1> HIDE DEF joined
<1>4. \A l \in Listing : Evaluate(joined)[l].prepared = joined[l].prepared
  BY <1>1, EvaluateRows
<1>5. Evaluate(joined) \in Rows
  BY <1>1, EvaluateRows
<1> QED
  BY <1>2, <1>3, <1>4, <1>5, MarketAssumption DEF NoNewMark

(* Neither a rejection nor the registry of prepared artifacts marks another row.         *)
LEMMA RejectedRows ==
  ASSUME NEW rows \in Rows
  PROVE  /\ RejectIncompatible(rows) \in Rows
         /\ \A l \in Listing :
              LET r == RejectIncompatible(rows)[l]
              IN  /\ r.bad = rows[l].bad
                  /\ r.prepared => rows[l].prepared /\ r.status = rows[l].status
                  /\ r.status = "prepare_then_gate" => r = rows[l]
                  /\ r.bad \/ l \in job.config.registry => r = NoRow \/ r.status = "rejected"
<1>1. ASSUME NEW l \in Listing, Present(rows, l)
      PROVE  LET r == [rows[l] EXCEPT !.status = "rejected", !.refused = TRUE, !.prepared = FALSE]
             IN  r \in Row /\ ~r.prepared /\ r.bad = rows[l].bad /\ r.status = "rejected"
  <2>1. rows[l] \in Row /\ "rejected" \in Statuses
    BY <1>1 DEF Rows, Present, Statuses
  <2> QED
    BY <2>1 DEF Row
<1>2. \A l \in Listing : ~Present(rows, l) => rows[l] = NoRow
  BY DEF Present
<1>3. RejectIncompatible(rows) \in Rows
  BY <1>1 DEF RejectIncompatible, Rows
<1> QED
  BY <1>1, <1>2, <1>3 DEF RejectIncompatible, NoRow

LEMMA AttachedRows ==
  ASSUME NEW rows \in Rows
  PROVE  /\ Attached(rows) \in Rows
         /\ \A l \in Listing :
              LET r == Attached(rows)[l]
              IN  /\ r.bad = rows[l].bad /\ r.status = rows[l].status
                  /\ l \notin Registered => r = rows[l]
<1>1. ASSUME NEW l \in Listing, Present(rows, l)
      PROVE  LET r == [rows[l] EXCEPT !.prepared = TRUE]
             IN  r \in Row /\ r.bad = rows[l].bad /\ r.status = rows[l].status
  <2>1. rows[l] \in Row
    BY <1>1 DEF Rows, Present
  <2> QED
    BY <2>1 DEF Row
<1>2. Attached(rows) \in Rows
  BY <1>1 DEF Attached, Rows
<1> QED
  BY <1>1, <1>2 DEF Attached

LEMMA PreparedRows ==
  ASSUME NEW rows \in Rows
  PROVE  /\ Prepared(rows) \in Rows
         /\ \A l \in Listing :
              /\ l \in ToPrepare(rows) => Prepared(rows)[l].prepared = (l \in job.config.allowed)
              /\ l \notin ToPrepare(rows) => Prepared(rows)[l] = rows[l]
<1>1. ASSUME NEW l \in ToPrepare(rows)
      PROVE  LET r == [rows[l] EXCEPT !.prepared = l \in job.config.allowed]
             IN  l \in Listing /\ r \in Row /\ r.prepared = (l \in job.config.allowed)
  <2>1. l \in Listing /\ rows[l] \in Row
    BY MarketAssumption DEF ToPrepare, Rows, NoRow
  <2>2. (l \in job.config.allowed) \in BOOLEAN
    OBVIOUS
  <2> QED
    BY <2>1, <2>2 DEF Row
<1>2. Prepared(rows) \in Rows
  BY <1>1 DEF Prepared, Rows
<1> QED
  BY <1>1, <1>2 DEF Prepared

-------------------------------------------------------------------------------
(* The run under way is one, and rests when it is over.                               *)
LEMMA JobRuns ==
  ASSUME MarketShape
  PROVE  ~Resting => job.wf \in Workflows /\ job.config \in Config /\ job.disk \in Results
  BY DEF MarketShape, JobShape, MarketJob

(* One script has done its work.                                                     *)
LEMMA LeavesNext ==
  ASSUME MarketInv, ~Resting, ~Here("commit"), ~Here("alert"), NEW disk \in Results,
         Leaves(disk), disk.dossiers \subseteq Freelance,
         disk.paused \in job.config.adapters \cup {Nothing, branch.paused},
         demoted \/ MarksHaveDossiers(disk, job.config.capable),
         Here("classify") \/ Here("enforce")
           => demoted \/ DecidedAnew(disk, job.config.capable),
         Here("postprocess") => /\ demoted \/ HumanBacked(disk)
                                /\ PlacesEarned(disk, job.config.registry)
                                /\ disk.new \subseteq disk.human
  PROVE  MarketInv'
<1>1. /\ job \in MarketJob /\ job.at \in 1 .. Len(Scripts[job.wf]) /\ job.wf \in Workflows
      /\ Scripts[job.wf][job.at] \notin {"commit", "alert"}
  BY DEF MarketInv, MarketShape, JobShape, MarketJob, Here
<1>2. job' = [job EXCEPT !.at = @ + 1, !.disk = disk]
      /\ UNCHANGED <<offered, bans, config, demoted, changes, branch, told>>
  BY DEF Leaves, World
<1>3. /\ job' \in MarketJob /\ job'.wf = job.wf /\ job'.at = job.at + 1
      /\ job'.config = job.config /\ job'.disk = disk
  <2>1. /\ job.wf \in Workflows /\ job.config \in Config /\ job.at \in Nat /\ job.at + 1 \in Nat \ {0}
        /\ job = [wf |-> job.wf, at |-> job.at, config |-> job.config, disk |-> job.disk]
    BY <1>1 DEF MarketJob
  <2>2. job' = [wf |-> job.wf, at |-> job.at + 1, config |-> job.config, disk |-> disk]
    BY <1>2, <2>1
  <2> QED
    BY <2>1, <2>2 DEF MarketJob
<1>4. /\ job.at + 1 \in 1 .. Len(Scripts[job.wf])
      /\ Scripts[job.wf][job.at + 1] = "enforce" => Scripts[job.wf][job.at] = "classify"
      /\ Scripts[job.wf][job.at + 1] = "dossiers" => Scripts[job.wf][job.at] = "enforce"
      /\ Scripts[job.wf][job.at + 1] = "commit" => Scripts[job.wf][job.at] = "postprocess"
      /\ Scripts[job.wf][job.at + 1] # "alert"
  <2> DEFINE w == job.wf
             n == job.at
  <2>1. w \in Workflows /\ n \in 1 .. Len(Scripts[w])
    BY <1>1
  <2> HIDE DEF w, n
  <2>2. /\ Scripts[w][n] \notin {"commit", "alert"} => n + 1 \in 1 .. Len(Scripts[w])
        /\ n + 1 \in 1 .. Len(Scripts[w]) =>
              /\ Scripts[w][n + 1] = "enforce" => Scripts[w][n] = "classify"
              /\ Scripts[w][n + 1] = "dossiers" => Scripts[w][n] = "enforce"
              /\ Scripts[w][n + 1] = "commit" => Scripts[w][n] = "postprocess"
              /\ Scripts[w][n + 1] = "alert" => Scripts[w][n] = "commit"
    BY <2>1, ScriptOrder
  <2> QED
    BY <1>1, <2>2 DEF w, n
<1>5. /\ Here("enforce")' => Here("classify")
      /\ Here("dossiers")' => Here("enforce")
      /\ Here("commit")' => Here("postprocess")
      /\ ~Here("alert")'
  BY <1>3, <1>4 DEF Here, Resting
<1>6. ~Resting'
  BY <1>1, <1>3 DEF Resting, NoJob, MarketJob
<1>7. MarketShape'
  <2>1. JobShape'
    BY <1>3, <1>4, <1>5 DEF JobShape
  <2>2. MarketTypeOK'
    BY <1>2, <1>3 DEF MarketInv, MarketShape, MarketTypeOK
  <2> QED
    BY <1>2, <2>1, <2>2 DEF MarketInv, MarketShape
<1>8. BranchSafe'
  BY <1>2 DEF MarketInv, BranchSafe, MarksHaveDossiers, HumanBacked, CanBePrepared
<1>9. JobSafe'
  <2>1. demoted' = demoted /\ config' = config
    BY <1>2
  <2>2. demoted \/ job.config.capable \subseteq config.capable
    BY DEF MarketInv, JobSafe
  <2> QED
    BY <1>3, <1>5, <2>1, <2>2 DEF JobSafe, MarksHaveDossiers, HumanBacked, CanBePrepared,
       DecidedAnew, PlacesEarned
<1> QED
  BY <1>7, <1>8, <1>9 DEF MarketInv

(* A script that only touches the rows, and marks none.                              *)
LEMMA RowsNext ==
  ASSUME MarketInv, ~Resting, ~Here("commit"), ~Here("alert"), ~Here("postprocess"),
         NEW rows \in Rows, NoNewMark(rows, job.disk.market),
         Leaves([job.disk EXCEPT !.market = rows]),
         Here("classify") \/ Here("enforce")
           => demoted \/ DecidedAnew([job.disk EXCEPT !.market = rows], job.config.capable)
  PROVE  MarketInv'
<1> DEFINE disk == [job.disk EXCEPT !.market = rows]
<1>1. job.disk \in Results
  BY JobRuns DEF MarketInv
<1>2. /\ disk \in Results /\ disk.market = rows /\ disk.dossiers = job.disk.dossiers
      /\ disk.paused = job.disk.paused
  BY <1>1 DEF Results, Rows
<1>3. Leaves(disk)
  OBVIOUS
<1>4. Here("classify") \/ Here("enforce") => demoted \/ DecidedAnew(disk, job.config.capable)
  OBVIOUS
<1> HIDE DEF disk
<1>5. disk.dossiers \subseteq Freelance
  BY <1>2 DEF MarketInv, MarketShape, JobShape
<1>6. disk.paused \in job.config.adapters \cup {Nothing, branch.paused}
  BY <1>2 DEF MarketInv, MarketShape, MarketTypeOK
<1>7. demoted \/ MarksHaveDossiers(disk, job.config.capable)
  BY <1>2 DEF MarketInv, JobSafe, MarksHaveDossiers, NoNewMark
<1> QED
  BY <1>2, <1>3, <1>4, <1>5, <1>6, <1>7, LeavesNext

(* At a script the run is at no other.                                               *)
LEMMA AtOne ==
  ASSUME NEW s, NEW t, Here(s), s # t
  PROVE  ~Here(t) /\ ~Resting
  BY DEF Here

LEMMA FinderNext ==
  ASSUME MarketInv,
         UniversalMarketCycle \/ RefreshSmallBountySources
           \/ VerifySmallBountyIssueState \/ ExpandedCashFirstCycle
  PROVE  MarketInv'
<1>1. /\ ~Resting /\ ~Here("commit") /\ ~Here("alert") /\ ~Here("postprocess")
      /\ ~Here("classify") /\ ~Here("enforce")
  BY AtOne DEF UniversalMarketCycle, RefreshSmallBountySources, VerifySmallBountyIssueState,
     ExpandedCashFirstCycle
<1>2. job.disk \in Results /\ job.disk.market \in Rows
  BY <1>1, JobRuns DEF MarketInv, Results, Rows
<1>3. \E rows \in Rows : /\ NoNewMark(rows, job.disk.market)
                         /\ Leaves([job.disk EXCEPT !.market = rows])
  <2>1. CASE UniversalMarketCycle
    <3>1. PICK found \in SUBSET From("github") :
            Leaves([job.disk EXCEPT !.market =
              [l \in Listing |-> IF l \in found THEN Found(l) ELSE NoRow]])
      BY <2>1 DEF UniversalMarketCycle
    <3> DEFINE rows == [l \in Listing |-> IF l \in found THEN Found(l) ELSE NoRow]
    <3>2. rows \in Rows
      BY FoundRow DEF Rows
    <3>3. NoNewMark(rows, job.disk.market)
      BY FoundRow, MarketAssumption DEF NoNewMark, NoRow
    <3> QED
      BY <3>1, <3>2, <3>3
  <2>2. CASE RefreshSmallBountySources \/ ExpandedCashFirstCycle
    <3>1. \E found, better : Leaves([job.disk EXCEPT !.market = Joined(@, found, better)])
      BY <2>2 DEF RefreshSmallBountySources, ExpandedCashFirstCycle
    <3>2. PICK found, better : Leaves([job.disk EXCEPT !.market = Joined(@, found, better)])
      BY <3>1
    <3>3. /\ Joined(job.disk.market, found, better) \in Rows
          /\ NoNewMark(Joined(job.disk.market, found, better), job.disk.market)
      BY <1>2, JoinedRows
    <3> QED
      BY <3>2, <3>3
  <2>3. CASE VerifySmallBountyIssueState
    <3>1. PICK open \in SUBSET From("bounty") :
            Leaves([job.disk EXCEPT !.market =
                 Evaluate([l \in Listing |->
                             IF Source[l] # "bounty" \/ ~Present(@, l) THEN @[l]
                             ELSE IF l \in open THEN [@[l] EXCEPT !.bad = l \in bans]
                             ELSE NoRow])])
      BY <2>3 DEF VerifySmallBountyIssueState
    <3> DEFINE old  == job.disk.market
               read == [l \in Listing |->
                          IF Source[l] # "bounty" \/ ~Present(old, l) THEN old[l]
                          ELSE IF l \in open THEN [old[l] EXCEPT !.bad = l \in bans]
                          ELSE NoRow]
    <3>2. ASSUME NEW l \in Listing
          PROVE  /\ read[l] \in Row \cup {NoRow}
                 /\ read[l].prepared => old[l].prepared
      <4>1. CASE Present(old, l)
        <5>1. old[l] \in Row
          BY <1>2, <4>1 DEF Rows, Present
        <5>2. [old[l] EXCEPT !.bad = l \in bans] \in Row
          <6>1. (l \in bans) \in BOOLEAN
            OBVIOUS
          <6> QED
            BY <5>1, <6>1 DEF Row
        <5>3. [old[l] EXCEPT !.bad = l \in bans].prepared = old[l].prepared
          BY <5>1 DEF Row
        <5> QED
          BY <5>1, <5>2, <5>3 DEF NoRow
      <4>2. CASE ~Present(old, l)
        BY <4>2 DEF Present
      <4> QED
        BY <4>1, <4>2
    <3>3. read \in Rows
      BY <3>2 DEF Rows
    <3>4. \A l \in Listing : read[l].prepared => old[l].prepared
      BY <3>2
    <3>5. Leaves([job.disk EXCEPT !.market = Evaluate(read)])
      BY <3>1
    <3> HIDE DEF read
    <3>6. Evaluate(read) \in Rows /\ \A l \in Listing : Evaluate(read)[l].prepared = read[l].prepared
      BY <3>3, EvaluateRows
    <3>7. NoNewMark(Evaluate(read), old)
      BY <3>4, <3>6, MarketAssumption DEF NoNewMark
    <3> QED
      BY <3>5, <3>6, <3>7
  <2> QED
    BY <2>1, <2>2, <2>3
<1> QED
  BY <1>1, <1>3, RowsNext

LEMMA SimpleNext ==
  ASSUME MarketInv, RefreshSimpleMissionSources PROVE MarketInv'
<1>1. /\ ~Resting /\ ~Here("commit") /\ ~Here("alert") /\ ~Here("postprocess")
      /\ ~Here("classify") /\ ~Here("enforce")
  BY AtOne DEF RefreshSimpleMissionSources
<1>2. /\ job.disk \in Results /\ job.disk.market \in Rows /\ job.config.adapters \subseteq Adapter
  BY <1>1, JobRuns DEF MarketInv, Results, Rows, Config
<1>3. PICK target \in Adapter \cup {Nothing}, kept \in Rows, found \in SUBSET Listing :
        /\ Pause(target)
        /\ \A l \in Listing : kept[l].prepared => job.disk.market[l].prepared
        /\ Leaves([job.disk EXCEPT !.market = Joined(kept, found, {}),
                                   !.paused = target, !.known = job.config.adapters])
  <2>1. PICK target \in Adapter \cup {Nothing} :
          /\ Pause(target)
          /\ \E found \in SUBSET {l \in From("simple") :
                                 AdapterOf[l] \in job.config.adapters \ {target}} :
            LET own  == {l \in Listing : /\ Source[l] = "simple"
                                         /\ AdapterOf[l] \in job.config.adapters}
                kept == [l \in Listing |-> IF l \in own THEN NoRow ELSE job.disk.market[l]]
            IN Leaves([job.disk EXCEPT !.market = Joined(kept, found, {}),
                                       !.paused = target, !.known = job.config.adapters])
    BY DEF RefreshSimpleMissionSources
  <2> DEFINE own  == {l \in Listing : /\ Source[l] = "simple"
                                      /\ AdapterOf[l] \in job.config.adapters}
             kept == [l \in Listing |-> IF l \in own THEN NoRow ELSE job.disk.market[l]]
  <2>2. kept \in Rows /\ \A l \in Listing : kept[l].prepared => job.disk.market[l].prepared
    BY <1>2 DEF Rows, NoRow
  <2>3. PICK found \in SUBSET {l \in From("simple") :
                                 AdapterOf[l] \in job.config.adapters \ {target}} :
          Leaves([job.disk EXCEPT !.market = Joined(kept, found, {}),
                                  !.paused = target, !.known = job.config.adapters])
    BY <2>1
  <2>4. found \in SUBSET Listing
    BY DEF From, MarketInv, MarketShape, MarketTypeOK
  <2> QED
    BY <2>1, <2>2, <2>3, <2>4
<1> DEFINE rows == Joined(kept, found, {})
           disk == [job.disk EXCEPT !.market = rows, !.paused = target,
                                    !.known = job.config.adapters]
<1>4. rows \in Rows /\ NoNewMark(rows, kept)
  BY JoinedRows
<1>5. Leaves(disk)
  BY <1>3
<1>6. NoNewMark(rows, job.disk.market)
  <2> HIDE DEF rows
  <2> QED
    BY <1>3, <1>4, MarketAssumption DEF NoNewMark
<1>7. /\ disk \in Results /\ disk.market = rows /\ disk.dossiers = job.disk.dossiers
      /\ disk.paused = target
  <2> HIDE DEF rows
  <2> QED
    BY <1>2, <1>4 DEF Results, Rows
<1> HIDE DEF disk, rows
<1>8. target \in job.config.adapters \cup {Nothing}
  BY <1>3 DEF Pause
<1>9. disk.dossiers \subseteq Freelance
  BY <1>1, <1>7 DEF MarketInv, MarketShape, JobShape
<1>10. demoted \/ MarksHaveDossiers(disk, job.config.capable)
  BY <1>1, <1>6, <1>7 DEF MarketInv, JobSafe, MarksHaveDossiers, NoNewMark
<1> QED
  BY <1>1, <1>5, <1>7, <1>8, <1>9, <1>10, LeavesNext

(* The scope decides every row anew: what was marked is to prepare again ...            *)
LEMMA ClassifyNext ==
  ASSUME MarketInv, ClassifySoftwareMicroMissions PROVE MarketInv'
<1>1. /\ ~Resting /\ ~Here("commit") /\ ~Here("alert") /\ ~Here("postprocess")
      /\ Here("classify") /\ ~Here("enforce")
  <2>1. Here("classify")
    BY DEF ClassifySoftwareMicroMissions
  <2> QED
    BY <2>1, AtOne
<1>2. job.disk \in Results /\ job.disk.market \in Rows
  BY <1>1, JobRuns DEF MarketInv, Results, Rows
<1> DEFINE old  == job.disk.market
           new  == Evaluate(old)
           rows == [l \in Listing |-> IF Present(new, l) /\ ~WithinScope(l)
                               THEN [new[l] EXCEPT !.status = "rejected", !.refused = TRUE]
                               ELSE new[l]]
<1>3. /\ new \in Rows
      /\ \A l \in Listing :
           /\ new[l].prepared = old[l].prepared
           /\ Present(old, l) => new[l].status = Decide(l)
           /\ ~Present(old, l) => new[l] = NoRow
  BY <1>2, EvaluateRows
<1>4. Leaves([job.disk EXCEPT !.market = rows])
  BY DEF ClassifySoftwareMicroMissions
<1>5. ASSUME NEW l \in Listing
      PROVE  /\ rows[l] \in Row \cup {NoRow} /\ rows[l].prepared = old[l].prepared
             /\ rows[l].status = "prepare_then_gate" => WithinScope(l) /\ rows[l] = new[l]
             /\ WithinScope(l) => rows[l] = new[l]
  <2> HIDE DEF new
  <2>1. CASE Present(new, l) /\ ~WithinScope(l)
    <3>1. new[l] \in Row /\ "rejected" \in Statuses
      BY <1>3, <2>1 DEF Rows, Present, Statuses
    <3>2. LET r == [new[l] EXCEPT !.status = "rejected", !.refused = TRUE]
          IN  r \in Row /\ r.prepared = new[l].prepared /\ r.status = "rejected"
      BY <3>1 DEF Row
    <3> QED
      BY <1>3, <2>1, <3>2
  <2>2. CASE WithinScope(l)
    BY <1>3, <2>2 DEF Rows
  <2>3. CASE ~Present(new, l)
    BY <1>3, <2>3 DEF Present, NoRow
  <2> QED
    BY <2>1, <2>2, <2>3
<1>6. rows \in Rows
  BY <1>5 DEF Rows
<1> DEFINE disk == [job.disk EXCEPT !.market = rows]
<1>7. disk.market = rows
  BY <1>2 DEF Results
<1>8. \A l \in Listing : /\ rows[l].prepared = old[l].prepared
                         /\ rows[l].status = "prepare_then_gate" => WithinScope(l) /\ rows[l] = new[l]
                         /\ WithinScope(l) => rows[l] = new[l]
  BY <1>5
<1> HIDE DEF rows, new
<1>9. NoNewMark(rows, old)
  BY <1>8, MarketAssumption DEF NoNewMark
<1>10. demoted \/ DecidedAnew(disk, job.config.capable)
  <2> SUFFICES ASSUME ~demoted, NEW l \in Freelance
               PROVE  /\ rows[l].prepared /\ l \notin Registered
                           => rows[l].status = "prepare_then_gate"
                      /\ rows[l].status = "prepare_then_gate" => CanBePrepared(l, job.config.capable)
    BY <1>7 DEF DecidedAnew
  <2>1. l \in Listing
    BY MarketAssumption
  <2>2. ASSUME rows[l].prepared, l \notin Registered PROVE rows[l].status = "prepare_then_gate"
    <3>1. old[l].prepared
      BY <1>8, <2>1, <2>2
    <3>2. CanBePrepared(l, job.config.capable) /\ Present(old, l)
      BY <1>1, <2>2, <3>1 DEF MarketInv, JobSafe, MarksHaveDossiers, Present, NoRow
    <3> QED
      BY <1>3, <1>8, <2>1, <3>2 DEF CanBePrepared, WithinScope, Decide
  <2>3. ASSUME rows[l].status = "prepare_then_gate" PROVE CanBePrepared(l, job.config.capable)
    <3>1. new[l].status = "prepare_then_gate" /\ WithinScope(l)
      BY <1>8, <2>1, <2>3
    <3>2. Decide(l) = "prepare_then_gate"
      BY <1>3, <2>1, <3>1 DEF NoRow
    <3> QED
      BY <3>1, <3>2 DEF CanBePrepared, WithinScope, Decide
  <2> QED
    BY <2>2, <2>3
<1>11. demoted \/ DecidedAnew([job.disk EXCEPT !.market = rows], job.config.capable)
  BY <1>10
<1>12. Leaves([job.disk EXCEPT !.market = rows])
  BY <1>4 DEF rows, new
<1> QED
  BY <1>1, <1>6, <1>9, <1>11, <1>12, RowsNext

(* ... or was rejected, and lost its mark.                                           *)
LEMMA EnforceNext ==
  ASSUME MarketInv, EnforceDeliveryCompatibility PROVE MarketInv'
<1>1. /\ ~Resting /\ ~Here("commit") /\ ~Here("alert") /\ ~Here("postprocess")
      /\ ~Here("classify") /\ Here("enforce")
  BY AtOne DEF EnforceDeliveryCompatibility
<1>2. job.disk \in Results /\ job.disk.market \in Rows
  BY <1>1, JobRuns DEF MarketInv, Results, Rows
<1> DEFINE old  == job.disk.market
           rows == RejectIncompatible(old)
           disk == [job.disk EXCEPT !.market = rows]
<1>3. /\ rows \in Rows
      /\ \A l \in Listing :
           /\ rows[l].prepared => old[l].prepared /\ rows[l].status = old[l].status
           /\ rows[l].status = "prepare_then_gate" => rows[l] = old[l]
  BY <1>2, RejectedRows
<1>4. Leaves([job.disk EXCEPT !.market = rows])
  BY DEF EnforceDeliveryCompatibility
<1> HIDE DEF rows
<1>5. disk.market = rows
  BY <1>2 DEF Results
<1>6. NoNewMark(rows, job.disk.market)
  BY <1>3, MarketAssumption DEF NoNewMark
<1>7. demoted \/ DecidedAnew(disk, job.config.capable)
  <2>1. demoted \/ DecidedAnew(job.disk, job.config.capable)
    BY <1>1 DEF MarketInv, JobSafe
  <2>2. \A l \in Freelance : l \in Listing
    BY MarketAssumption
  <2> HIDE DEF disk
  <2> QED
    BY <1>3, <1>5, <2>1, <2>2 DEF DecidedAnew
<1>8. demoted \/ DecidedAnew([job.disk EXCEPT !.market = rows], job.config.capable)
  BY <1>7
<1> QED
  BY <1>1, <1>3, <1>4, <1>6, <1>8, RowsNext

(* All dossiers are written anew: exactly those that are marked.                      *)
LEMMA DossiersNext ==
  ASSUME MarketInv, PrepareSimpleMissionDossiers PROVE MarketInv'
<1>1. /\ ~Resting /\ ~Here("commit") /\ ~Here("alert") /\ ~Here("postprocess")
      /\ ~Here("classify") /\ ~Here("enforce") /\ Here("dossiers")
  BY AtOne DEF PrepareSimpleMissionDossiers
<1>2. job.disk \in Results /\ job.disk.market \in Rows
  BY <1>1, JobRuns DEF MarketInv, Results, Rows
<1> DEFINE old  == job.disk.market
           rows == Prepared(old)
           kept == Proposals(old)
           disk == [job.disk EXCEPT !.market = rows, !.dossiers = kept]
<1>3. /\ rows \in Rows
      /\ \A l \in Listing :
           /\ l \in ToPrepare(old) => rows[l].prepared = (l \in job.config.allowed)
           /\ l \notin ToPrepare(old) => rows[l] = old[l]
  BY <1>2, PreparedRows
<1>4. kept \subseteq Freelance /\ kept \in SUBSET Listing
  BY MarketAssumption DEF Proposals, ToPrepare
<1>5. Leaves(disk)
  BY DEF PrepareSimpleMissionDossiers
<1> HIDE DEF rows
<1>6. /\ disk \in Results /\ disk.market = rows /\ disk.dossiers = kept
      /\ disk.paused = job.disk.paused
  <2> HIDE DEF kept
  <2> QED
    BY <1>2, <1>3, <1>4 DEF Results, Rows
<1> HIDE DEF disk
<1>7. disk.paused \in job.config.adapters \cup {Nothing, branch.paused}
  BY <1>1, <1>6 DEF MarketInv, MarketShape, MarketTypeOK
<1>8. demoted \/ MarksHaveDossiers(disk, job.config.capable)
  <2> SUFFICES ASSUME ~demoted, NEW l \in Freelance \ Registered, rows[l].prepared
               PROVE  l \in kept /\ CanBePrepared(l, job.config.capable)
    BY <1>6 DEF MarksHaveDossiers
  <2>1. l \in Listing
    BY MarketAssumption
  <2>2. DecidedAnew(job.disk, job.config.capable)
    BY <1>1 DEF MarketInv, JobSafe
  <2>3. l \in ToPrepare(old)
    BY <1>3, <2>1, <2>2 DEF DecidedAnew, ToPrepare
  <2>4. l \in kept
    BY <1>3, <2>1, <2>3 DEF Proposals
  <2> QED
    BY <2>2, <2>3, <2>4 DEF DecidedAnew, ToPrepare
<1> QED
  BY <1>1, <1>4, <1>5, <1>6, <1>7, <1>8, LeavesNext

(* What the postprocessor shows is neither rejected nor without its dossier.           *)
LEMMA PostprocessNext ==
  ASSUME MarketInv, Postprocess PROVE MarketInv'
<1>1. /\ ~Resting /\ ~Here("commit") /\ ~Here("alert") /\ Here("postprocess")
      /\ ~Here("classify") /\ ~Here("enforce")
  <2>1. Here("postprocess")
    BY DEF Postprocess
  <2> QED
    BY <2>1, AtOne
<1>2. job.disk \in Results /\ job.disk.market \in Rows
  BY <1>1, JobRuns DEF MarketInv, Results, Rows
<1> DEFINE old   == job.disk.market
           safe  == RejectIncompatible(old)
           rows  == SafeRows(old)
           cash  == CashFirst(rows)
           ready == ReadyForHuman(rows)
           disk  == [job.disk EXCEPT !.market = rows, !.portfolio = cash,
                                     !.human = ready, !.new = ready \ job.disk.human]
<1>3. /\ rows \in Rows
      /\ \A l \in Listing :
           /\ rows[l].prepared /\ l \notin Registered => old[l].prepared
           /\ rows[l].status \in {"prepare_then_gate", "executable_now"} =>
                ~rows[l].bad /\ l \notin job.config.registry
  <2>1. /\ safe \in Rows
        /\ \A l \in Listing :
             /\ safe[l].bad = old[l].bad
             /\ safe[l].prepared => old[l].prepared
             /\ safe[l].bad \/ l \in job.config.registry
                  => safe[l] = NoRow \/ safe[l].status = "rejected"
    BY <1>2, RejectedRows
  <2> HIDE DEF safe
  <2>2. /\ Attached(safe) \in Rows
        /\ \A l \in Listing :
             /\ Attached(safe)[l].bad = safe[l].bad /\ Attached(safe)[l].status = safe[l].status
             /\ l \notin Registered => Attached(safe)[l] = safe[l]
    BY <2>1, AttachedRows
  <2>3. rows = Attached(safe)
    BY DEF SafeRows, safe
  <2> HIDE DEF rows
  <2> QED
    BY <2>1, <2>2, <2>3 DEF NoRow
<1>4. Leaves(disk)
  BY DEF Postprocess
<1> HIDE DEF rows
<1>5. \A l \in cash : l \in Listing /\ rows[l].status \in {"prepare_then_gate", "executable_now"}
  BY DEF CashFirst
<1>6. \A i \in ready : /\ i \in Item /\ i.id \in cash
                       /\ i.id \in Freelance => rows[i.id].prepared
  <2>1. ASSUME NEW k \in CashFirst(rows), k \notin Freelance \/ rows[k].prepared
        PROVE  LET i == [id |-> k, status |-> rows[k].status, exact |-> rows[k].prepared]
               IN  i \in Item /\ i.id \in cash /\ (i.id \in Freelance => rows[i.id].prepared)
    <3>1. k \in Listing /\ rows[k] \in Row
      BY <1>3, <1>5 DEF Rows, NoRow
    <3> QED
      BY <2>1, <3>1 DEF Item, Row
  <2> QED
    BY <2>1 DEF ReadyForHuman
<1>7. cash \subseteq Listing /\ ready \subseteq Item /\ ready \ job.disk.human \subseteq Item
  BY <1>5, <1>6
<1> HIDE DEF cash, ready
<1>8. /\ disk \in Results /\ disk.market = rows /\ disk.dossiers = job.disk.dossiers
      /\ disk.paused = job.disk.paused /\ disk.portfolio = cash /\ disk.human = ready
      /\ disk.new = ready \ job.disk.human
  BY <1>2, <1>3, <1>7 DEF Results, Rows
<1> HIDE DEF disk
<1>9. disk.paused \in job.config.adapters \cup {Nothing, branch.paused}
  BY <1>1, <1>8 DEF MarketInv, MarketShape, MarketTypeOK
<1>10. disk.dossiers \subseteq Freelance
  BY <1>1, <1>8 DEF MarketInv, MarketShape, JobShape
<1>11. demoted \/ MarksHaveDossiers(job.disk, job.config.capable)
  BY <1>1 DEF MarketInv, JobSafe
<1>12. \A l \in Freelance : l \in Listing
  BY MarketAssumption
<1>13. demoted \/ MarksHaveDossiers(disk, job.config.capable)
  BY <1>3, <1>8, <1>11, <1>12 DEF MarksHaveDossiers
<1>14. demoted \/ HumanBacked(disk)
  BY <1>6, <1>8, <1>13 DEF HumanBacked, MarksHaveDossiers
<1>15. PlacesEarned(disk, job.config.registry)
  BY <1>3, <1>5, <1>6, <1>8 DEF PlacesEarned
<1> QED
  BY <1>1, <1>4, <1>8, <1>9, <1>10, <1>13, <1>14, <1>15, LeavesNext

(* The push: the branch is what the run has made of it.                              *)
LEMMA CommitNext ==
  ASSUME MarketInv, Commit PROVE MarketInv'
<1>1. /\ ~Resting /\ Here("commit") /\ ~Here("alert")
  <2>1. Here("commit")
    BY DEF Commit
  <2> QED
    BY <2>1, AtOne
<1>2. /\ job \in MarketJob /\ job.at \in 1 .. Len(Scripts[job.wf]) /\ job.wf \in Workflows
      /\ job.disk \in Results /\ Scripts[job.wf][job.at] = "commit"
      /\ job.disk.dossiers \subseteq Freelance /\ job.disk.new \subseteq job.disk.human
  BY <1>1 DEF MarketInv, MarketShape, JobShape, MarketJob, Here
<1>3. /\ branch' = [job.disk EXCEPT !.new = {}] /\ told' = told \cap job.disk.human
      /\ UNCHANGED <<offered, bans, config, demoted, changes>>
      /\ job' = IF job.wf = "full" THEN [job EXCEPT !.at = @ + 1] ELSE NoJob
  BY DEF Commit, World
<1>4. /\ branch' \in Results /\ branch'.market = job.disk.market
      /\ branch'.portfolio = job.disk.portfolio /\ branch'.human = job.disk.human
      /\ branch'.dossiers = job.disk.dossiers /\ branch'.paused = job.disk.paused
  BY <1>2, <1>3 DEF Results
<1>5. BranchSafe'
  <2>1. demoted \/ /\ MarksHaveDossiers(job.disk, job.config.capable)
                   /\ job.config.capable \subseteq config.capable
                   /\ HumanBacked(job.disk)
    BY <1>1 DEF MarketInv, JobSafe
  <2>2. ASSUME ~demoted PROVE MarksHaveDossiers(branch', config.capable) /\ HumanBacked(branch')
    <3>1. MarksHaveDossiers(branch', config.capable)
      BY <1>4, <2>1, <2>2 DEF MarksHaveDossiers, CanBePrepared
    <3> QED
      BY <1>4, <2>1, <2>2, <3>1 DEF HumanBacked
  <2>3. demoted' = demoted /\ config' = config
    BY <1>3
  <2> QED
    BY <2>2, <2>3 DEF BranchSafe, MarksHaveDossiers, HumanBacked, CanBePrepared
<1>6. CASE job.wf = "full"
  <2>1. /\ job' \in MarketJob /\ job'.wf = job.wf /\ job'.at = job.at + 1
        /\ job'.config = job.config /\ job'.disk = job.disk
    <3>1. /\ job.wf \in Workflows /\ job.config \in Config /\ job.at \in Nat
          /\ job.at + 1 \in Nat \ {0}
          /\ job = [wf |-> job.wf, at |-> job.at, config |-> job.config, disk |-> job.disk]
      BY <1>2 DEF MarketJob
    <3>2. job' = [wf |-> job.wf, at |-> job.at + 1, config |-> job.config, disk |-> job.disk]
      BY <1>3, <1>6, <3>1
    <3> QED
      BY <1>2, <3>1, <3>2 DEF MarketJob
  <2>2. job.at + 1 \in 1 .. Len(Scripts[job.wf]) /\ Scripts[job.wf][job.at + 1] = "alert"
    <3>1. "full" \in Workflows /\ job.at \in 1 .. Len(Scripts["full"])
      BY <1>2, <1>6
    <3>2. Scripts["full"][job.at] = "commit"
      BY <1>2, <1>6
    <3>3. job.at + 1 \in 1 .. Len(Scripts["full"]) /\ Scripts["full"][job.at + 1] = "alert"
      BY <3>1, <3>2, ScriptOrder
    <3> QED
      BY <1>6, <3>3
  <2>3. ~Resting' /\ Here("alert")' /\ ~Here("commit")' /\ ~Here("enforce")' /\ ~Here("dossiers")'
    BY <1>2, <2>1, <2>2 DEF Resting, Here, NoJob, MarketJob
  <2>4. JobShape'
    BY <1>2, <1>4, <2>1, <2>2, <2>3 DEF JobShape
  <2>5. MarketTypeOK'
    BY <1>2, <1>3, <1>4, <2>1 DEF MarketInv, MarketShape, MarketTypeOK, Results, Rows
  <2>6. JobSafe'
    BY <1>1, <1>3, <2>1, <2>3 DEF MarketInv, JobSafe, MarksHaveDossiers, CanBePrepared
  <2> QED
    BY <1>4, <1>5, <2>4, <2>5, <2>6 DEF MarketInv, MarketShape
<1>7. CASE job.wf # "full"
  <2>1. Resting'
    BY <1>3, <1>7 DEF Resting
  <2>2. MarketTypeOK'
    BY <1>2, <1>3, <1>4, <2>1 DEF MarketInv, MarketShape, MarketTypeOK, Results, Rows
  <2> QED
    BY <1>4, <1>5, <2>1, <2>2 DEF MarketInv, MarketShape, JobShape, JobSafe
<1> QED
  BY <1>6, <1>7

(* A run that is over leaves the branch alone.                                       *)
LEMMA OverNext ==
  ASSUME MarketInv, Alert \/ JobFails PROVE MarketInv'
<1>1. /\ job' = NoJob /\ UNCHANGED <<offered, bans, config, demoted, changes, branch>>
      /\ told' \subseteq branch.human
  <2>1. CASE Alert
    <3>1. Here("alert") /\ ~Resting
      BY <2>1 DEF Alert, Here
    <3> QED
      BY <2>1, <3>1 DEF Alert, World, MarketInv, MarketShape, JobShape, MarketTypeOK
  <2>2. CASE JobFails
    BY <2>2 DEF JobFails, World, MarketInv, MarketShape, MarketTypeOK
  <2> QED
    BY <2>1, <2>2
<1>2. Resting'
  BY <1>1 DEF Resting
<1>3. MarketTypeOK'
  BY <1>1, <1>2 DEF MarketInv, MarketShape, MarketTypeOK
<1>4. BranchSafe'
  BY <1>1 DEF MarketInv, BranchSafe, MarksHaveDossiers, HumanBacked, CanBePrepared
<1> QED
  BY <1>1, <1>2, <1>3, <1>4 DEF MarketInv, MarketShape, JobShape, JobSafe

LEMMA CheckoutNext ==
  ASSUME MarketInv, NEW w \in Workflows, Checkout(w) PROVE MarketInv'
<1>1. /\ job' = [wf |-> w, at |-> 1, config |-> config, disk |-> [branch EXCEPT !.new = {}]]
      /\ UNCHANGED <<offered, bans, config, demoted, changes, branch, told>>
  BY DEF Checkout, World
<1> DEFINE disk == [branch EXCEPT !.new = {}]
<1>2. /\ disk \in Results /\ disk.market = branch.market /\ disk.dossiers = branch.dossiers
      /\ disk.paused = branch.paused
  BY DEF MarketInv, MarketShape, Results
<1>3. job' = [wf |-> w, at |-> 1, config |-> config, disk |-> disk]
  BY <1>1
<1> HIDE DEF disk
<1>4. /\ job' \in MarketJob /\ job'.wf = w /\ job'.at = 1 /\ job'.config = config /\ job'.disk = disk
  BY <1>2, <1>3 DEF MarketJob, MarketInv, MarketShape, MarketTypeOK
<1>5. /\ 1 \in 1 .. Len(Scripts[w])
      /\ Scripts[w][1] \notin {"enforce", "dossiers", "commit", "alert"}
  <2>1. CASE w = "full"
    BY <2>1 DEF Scripts, Workflows
  <2>2. CASE w = "verify"
    BY <2>2 DEF Scripts, Workflows
  <2>3. CASE w = "reward"
    BY <2>3 DEF Scripts, Workflows
  <2>4. CASE w = "expanded"
    BY <2>4 DEF Scripts, Workflows
  <2> QED
    BY <2>1, <2>2, <2>3, <2>4 DEF Workflows
<1>6. ~Here("enforce")' /\ ~Here("dossiers")' /\ ~Here("commit")' /\ ~Here("alert")' /\ ~Resting'
  BY <1>4, <1>5 DEF Here, Resting, NoJob
<1>7. MarketTypeOK'
  BY <1>1, <1>2, <1>4 DEF MarketInv, MarketShape, MarketTypeOK
<1>8. JobShape'
  BY <1>2, <1>4, <1>5, <1>6 DEF JobShape, MarketInv, MarketShape, MarketTypeOK
<1>9. JobSafe'
  BY <1>1, <1>2, <1>4, <1>6 DEF MarketInv, BranchSafe, JobSafe, MarksHaveDossiers, CanBePrepared
<1>10. BranchSafe'
  BY <1>1 DEF MarketInv, BranchSafe, MarksHaveDossiers, HumanBacked, CanBePrepared
<1> QED
  BY <1>1, <1>7, <1>8, <1>9, <1>10 DEF MarketInv, MarketShape

(* Capabilities are only gained, unless one is demoted.                              *)
LEMMA WorldNext ==
  ASSUME MarketInv, PayerChanges \/ MaintainersChange PROVE MarketInv'
<1>1. job' = job /\ branch' = branch /\ told' = told /\ changes' \in 0 .. MaxChanges
  <2>1. changes \in 0 .. MaxChanges /\ MaxChanges \in Nat
    BY MarketAssumption DEF MarketInv, MarketShape, MarketTypeOK
  <2> QED
    BY <2>1 DEF PayerChanges, MaintainersChange, Changes
<1>2. /\ offered' \subseteq Listing /\ bans' \subseteq Listing /\ config' \in Config
      /\ demoted' \in BOOLEAN /\ (demoted => demoted')
      /\ demoted' \/ config.capable \subseteq config'.capable
  <2>1. /\ offered \subseteq Listing /\ bans \subseteq Listing /\ config \in Config
        /\ demoted \in BOOLEAN
    BY DEF MarketInv, MarketShape, MarketTypeOK
  <2>2. CASE PayerChanges
    <3>1. /\ config' = config /\ demoted' = demoted
          /\ \E l \in Listing :
               \/ offered' = Toggled(offered, l) /\ bans' = bans
               \/ l \in offered \ bans /\ bans' = bans \cup {l} /\ offered' = offered
      BY <2>2 DEF PayerChanges
    <3> QED
      BY <2>1, <3>1 DEF Toggled
  <2>3. CASE MaintainersChange
    <3>1. /\ offered' = offered /\ bans' = bans
          /\ demoted' = (demoted \/ ~(config.capable \subseteq config'.capable))
      BY <2>3 DEF MaintainersChange
    <3>2. config' \in Config
      <4>1. \A a \in Adapter : config.adapters \cup {a} \in SUBSET Adapter
        BY <2>1 DEF Config
      <4>2. \A l \in Listing : /\ config.registry \cup {l} \in SUBSET Listing
                               /\ Toggled(config.allowed, l) \in SUBSET Listing
                               /\ Toggled(config.capable, l) \in SUBSET Listing
        BY <2>1 DEF Config, Toggled
      <4>3. /\ \A S \in SUBSET Adapter : [config EXCEPT !.adapters = S] \in Config
            /\ \A S \in SUBSET Listing : /\ [config EXCEPT !.registry = S] \in Config
                                         /\ [config EXCEPT !.allowed = S] \in Config
                                         /\ [config EXCEPT !.capable = S] \in Config
        BY <2>1 DEF Config
      <4>4. \/ \E S \in SUBSET Adapter : config' = [config EXCEPT !.adapters = S]
            \/ \E S \in SUBSET Listing : config' = [config EXCEPT !.registry = S]
            \/ \E S \in SUBSET Listing : config' = [config EXCEPT !.allowed = S]
            \/ \E S \in SUBSET Listing : config' = [config EXCEPT !.capable = S]
        BY <2>3, <4>1, <4>2 DEF MaintainersChange
      <4> QED
        BY <4>3, <4>4
    <3> QED
      BY <2>1, <3>1, <3>2
  <2> QED
    BY <2>2, <2>3
<1>3. MarketTypeOK'
  BY <1>1, <1>2 DEF MarketInv, MarketShape, MarketTypeOK, Resting
<1>4. \A s : Here(s)' = Here(s)
  BY <1>1 DEF Here, Resting
<1>5. JobShape' /\ Resting' = Resting
  BY <1>1, <1>4 DEF MarketInv, MarketShape, JobShape, Resting
<1>6. BranchSafe'
  BY <1>1, <1>2 DEF MarketInv, BranchSafe, MarksHaveDossiers, HumanBacked, CanBePrepared
<1>7. JobSafe'
  <2> SUFFICES ASSUME ~Resting'
               PROVE  JobSafe'
    BY DEF JobSafe
  <2>1. ~Resting
    BY <1>5
  <2>2. demoted' \/ job.config.capable \subseteq config'.capable
    BY <1>2, <2>1 DEF MarketInv, JobSafe
  <2> QED
    BY <1>1, <1>2, <1>4, <2>1, <2>2 DEF MarketInv, JobSafe, MarksHaveDossiers, HumanBacked,
       CanBePrepared, DecidedAnew, PlacesEarned
<1> QED
  BY <1>1, <1>3, <1>5, <1>6, <1>7 DEF MarketInv, MarketShape

LEMMA MarketInvNext == MarketInv /\ [MarketNext]_pipeline => MarketInv'
<1> SUFFICES ASSUME MarketInv, [MarketNext]_pipeline PROVE MarketInv'
  OBVIOUS
<1>1. CASE UNCHANGED pipeline
  <2>1. \A s : Here(s)' = Here(s)
    BY <1>1 DEF pipeline, Here, Resting
  <2>2. /\ MarketShape' /\ BranchSafe'
    BY <1>1, <2>1 DEF pipeline, MarketInv, MarketShape, MarketTypeOK, JobShape, BranchSafe,
       Resting, MarksHaveDossiers, HumanBacked, CanBePrepared
  <2>3. JobSafe'
    BY <1>1, <2>1 DEF pipeline, MarketInv, JobSafe, Resting, MarksHaveDossiers, HumanBacked,
       CanBePrepared, DecidedAnew, PlacesEarned
  <2> QED
    BY <2>2, <2>3 DEF MarketInv
<1> QED
  BY <1>1, FinderNext, SimpleNext, ClassifyNext, EnforceNext, DossiersNext, PostprocessNext,
     CommitNext, OverNext, CheckoutNext, WorldNext DEF MarketNext

LEMMA MarketInvInit == MarketInit => MarketInv
<1> SUFFICES ASSUME MarketInit PROVE MarketInv
  OBVIOUS
<1>1. Resting /\ job = NoJob
  BY DEF MarketInit, Resting
<1>2. config \in Config
  <2>1. {A \in SUBSET Adapter : Cardinality(A) = 1} \subseteq SUBSET Adapter
    OBVIOUS
  <2>2. config \in [adapters : {A \in SUBSET Adapter : Cardinality(A) = 1},
                    capable : {Listing}, registry : {{}}, allowed : {Listing}]
    BY DEF MarketInit
  <2> QED
    BY <2>1, <2>2 DEF Config
<1>3. branch = [market |-> [l \in Listing |-> NoRow], portfolio |-> {}, human |-> {},
               new |-> {}, dossiers |-> {}, paused |-> Nothing, known |-> {}]
  BY DEF MarketInit
<1>4. branch \in Results
  BY <1>3 DEF Results
<1>5. \A l \in Listing : ~branch.market[l].prepared
  BY <1>3 DEF NoRow
<1>6. branch.human = {} /\ branch.dossiers = {} /\ branch.portfolio = {}
      /\ branch.market \in [Listing -> Row \cup {NoRow}]
  BY <1>3
<1>7. MarketTypeOK
  <2>1. /\ offered = Listing /\ bans = {} /\ told = {} /\ demoted = FALSE /\ changes = 0
    BY DEF MarketInit
  <2>2. 0 \in 0 .. MaxChanges
    BY MarketAssumption
  <2> QED
    BY <1>1, <1>2, <1>6, <2>1, <2>2 DEF MarketTypeOK
<1>8. BranchSafe
  <2>1. \A l \in Freelance : l \in Listing
    BY MarketAssumption
  <2> QED
    BY <1>5, <1>6, <2>1 DEF BranchSafe, MarksHaveDossiers, HumanBacked
<1> QED
  BY <1>1, <1>4, <1>7, <1>8 DEF MarketInv, MarketShape, JobShape, JobSafe

(* The files of the branch and of the run keep their shape, whatever workflows ran and  *)
(* failed, in any order.                                                             *)
THEOREM MarketTypeCorrect == MarketSpec => []MarketTypeOK
<1>1. MarketInv => MarketTypeOK
  BY DEF MarketInv, MarketShape
<1> QED
  BY <1>1, MarketInvInit, MarketInvNext, PTL DEF MarketSpec

(* The owner is asked to submit a prepared freelance dossier only when it is on the     *)
(* branch, unless a validated capability was demoted.                                *)
THEOREM HumanActionHasDossierHolds == MarketSpec => []HumanActionHasDossier
<1>1. MarketInv => HumanActionHasDossier
  BY DEF MarketInv, BranchSafe, HumanBacked, HumanActionHasDossier
<1> QED
  BY <1>1, MarketInvInit, MarketInvNext, PTL DEF MarketSpec

(* Only a push changes what is shown, and it shows what was checked by its own run.     *)
LEMMA PushShowsChecked ==
  ASSUME MarketInv, [MarketNext]_pipeline, NEW l \in Listing,
         branch'.portfolio # branch.portfolio \/ branch'.human # branch.human,
         l \in branch'.portfolio \cup {i.id : i \in branch'.human}
  PROVE  ~branch'.market[l].bad /\ l \notin job.config.registry
<1>1. Commit
  BY DEF MarketNext, pipeline, Checkout, UniversalMarketCycle, RefreshSmallBountySources,
     VerifySmallBountyIssueState, RefreshSimpleMissionSources, ExpandedCashFirstCycle,
     ClassifySoftwareMicroMissions, EnforceDeliveryCompatibility, PrepareSimpleMissionDossiers,
     Postprocess, Alert, JobFails, PayerChanges, MaintainersChange, Changes, Leaves
<1>2. ~Resting /\ Here("commit")
  BY <1>1 DEF Commit, Here
<1>3. PlacesEarned(job.disk, job.config.registry) /\ job.disk \in Results
  BY <1>2, JobRuns DEF MarketInv, JobSafe
<1>4. /\ branch'.market = job.disk.market /\ branch'.portfolio = job.disk.portfolio
      /\ branch'.human = job.disk.human
  BY <1>1, <1>3 DEF Commit, Results
<1> QED
  BY <1>3, <1>4 DEF PlacesEarned

(* What a run puts before the owner or into the portfolio breaks neither the delivery   *)
(* policy, as the text was read, nor the registry of rejections the run had.          *)
THEOREM NoIncompatibleMissionHolds == MarketSpec => NoIncompatibleMission
<1>1. MarketInv /\ [MarketNext]_pipeline =>
        [\A l \in Listing :
           (branch'.portfolio # branch.portfolio \/ branch'.human # branch.human) =>
             (l \in branch'.portfolio \cup {i.id : i \in branch'.human} =>
                ~branch'.market[l].bad /\ l \notin job.config.registry)]_pipeline
  BY PushShowsChecked
<1> QED
  BY <1>1, MarketInvInit, MarketInvNext, PTL DEF MarketSpec, NoIncompatibleMission
===============================================================================
