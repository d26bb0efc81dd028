-------------------------------- MODULE MCScouts --------------------------------
(* TLC instances of the scouts, the chains that turn what they find into files, and *)
(* the three programs that answer a market by themselves. They share no variable:   *)
(* `focus' picks the one a behaviour is about, so that their states add up.          *)
EXTENDS SourceScans, OpportunityRouter, CapabilityMarket, TaskForce, BountyBookSubmission,
        AgentPactOffers, PayableScout, OpportunityRadar, TLC

CONSTANTS
  Focus,           \* the programs looked at
  j1, j2, j3,      \* listings of the adapters
  k1, k2, k3, k4,  \* listings of the router's files
  t1, t2, t3       \* tasks of TaskForce

VARIABLES focus

(* Listings as the pages show them: sound ones, and for each adapter the flaws that *)
(* its tests tell apart. An amount has a currency; ₹ amounts are read with a factor.  *)
Usd(n) == [symbol |-> "$", maximum |-> n]
Inr(n) == [symbol |-> "r", maximum |-> n]
Card(l, rank, flaw, price) == [listing |-> l, rank |-> rank, flaw |-> flaw, price |-> price]
Dollar(l, rank, flaw) == Card(l, rank, flaw, Usd(1))
Sound == {Dollar(j1, 1, ""), Dollar(j2, 2, "")}
With(flaws) == Sound \cup {Dollar(j1, 1, f) : f \in flaws} \cup {Dollar(j2, 2, f) : f \in flaws}
Twice == {Dollar(j1, 1, ""), Dollar(j1, 2, ""), Dollar(j2, 2, ""), Dollar(j3, 1, "")}

MCCards(a) ==
  CASE a = "superteam"  -> With({"ineligible", "raises", "record"})
    [] a = "bountybook" -> With({"unfunded", "raises"}) \cup {Dollar(j3, 1, "unproven")}
    [] a = "agentpact"  -> With({"closed", "raises"}) \cup {Dollar(j3, 1, "unproven")}
    [] a = "moltjobs"   -> With({"unproven", "no_deadline", "record"})
    [] a = "freelancer" -> (Twice \ {Dollar(j2, 2, "")}) \cup
         {Dollar(j1, 1, "contested"), Dollar(j2, 1, "no_budget"), Card(j2, 2, "", Inr(50)),
          Card(j2, 1, "unread", Inr(50)), Card(j3, 1, "", Inr(5000)), Card(j3, 1, "closed", Usd(5))}
    [] a = "guru"       -> Twice \cup {Dollar(j1, 1, "contested"), Dollar(j2, 1, "raises")}
    [] a = "algora"     -> Twice \cup {Dollar(j1, 2, "contested")}
    [] a = "github"     -> Twice \cup
         {Dollar(j1, 1, "unread"), Dollar(j2, 1, "assigned"), Dollar(j2, 1, "raises")}
    [] a = "truelancer" -> {Dollar(j1, 1, ""), Dollar(j1, 1, "scope"), Dollar(j2, 1, "unread"),
                            Dollar(j2, 1, "budget"), Dollar(j3, 1, "closed")}
    [] OTHER            -> {Dollar(j1, 1, ""), Dollar(j1, 1, "fields"), Dollar(j2, 1, "unread"),
                            Dollar(j2, 1, ""), Dollar(j3, 1, "")}
MCMultiplier == ("$" :> 1) @@ ("r" :> 100)

(* Rows of the router: what one market file says of a listing another one also has. *)
Row(l, source, verdict, words, fit, humans) ==
  [listing |-> l, source |-> source, verdict |-> verdict, words |-> words, proof |-> 1,
   open |-> TRUE, sound |-> TRUE, fit |-> fit, effort |-> "short", humans |-> humans,
   worth |-> words]
MCRows(f) ==
  CASE f = "universal" -> {Row(k1, "guru", "capability_build", 1, FALSE, 0),
                           Row(k2, "guru", "executable_now", 1, FALSE, 0),
                           Row(k3, "guru", "rejected", 2, TRUE, 1)}
    [] f = "simple"    -> {Row(k1, "algora", "none", 2, TRUE, 0),
                           Row(k3, "algora", "none", 1, TRUE, 1),
                           Row(k2, "algora", "prepare_then_gate", 2, TRUE, 1)}
    [] OTHER           -> {[Row(k3, "taskforce", "none", 3, TRUE, 0) EXCEPT !.open = FALSE],
                           [Row(k1, "taskforce", "none", 3, TRUE, 1) EXCEPT !.effort = "long"],
                           [Row(k4, "taskforce", "none", 3, TRUE, 1) EXCEPT !.effort = "over"]}
MCFiles == <<"universal", "simple">>
MCSources == <<"algora", "guru", "taskforce">>
MCBanned == {k2}

(* Missions of the capability market, and what the file may say of a capability.    *)
Work(id, worth, caps, family, software, effort) ==
  [id |-> id, worth |-> worth, caps |-> caps, software |-> software, hours |-> 4,
   family |-> [c \in Capability |-> IF c = "lists" THEN family ELSE 1],
   outOfScope |-> FALSE, banned |-> FALSE, verified |-> TRUE, effort |-> effort, viable |-> 16,
   days |-> 10, competition |-> 20, cost |-> 10, accessibility |-> 80]
MCMissions ==
  {Work(1, 5, {"lists"}, 1, {"data"}, 40), Work(2, 6, {"lists"}, 2, {}, 4),
   Work(3, 9, {"lists", "data"}, 1, {"sites"}, 8), Work(6, 2, {"video"}, 1, {}, 8),
   [Work(4, 7, {"data"}, 1, {}, 4) EXCEPT !.banned = TRUE],
   [Work(5, 3, {"data"}, 1, {"sites"}, 4) EXCEPT !.outOfScope = TRUE]}
MCStatuses(c) ==
  CASE c = "video" -> {"forbidden"}
    [] c = "sites" -> {"validated"}
    [] c = "data"  -> {"unknown", "validated"}
    [] OTHER       -> {"experimental", "unavailable"}
MCRawScore(rows) == FoldSet(LAMBDA r, n : n + r.worth * 10, 20, rows)
MCPrecedes(c, d) ==
  LET place == [data |-> 1, lists |-> 2, sites |-> 3, video |-> 4] IN place[c] < place[d]

(* The best task has a budget outside the gate.                                     *)
MCFlaw  == (t1 :> "") @@ (t2 :> "") @@ (t3 :> "budget_outside_gate")
MCScore == (t1 :> 2) @@ (t2 :> 1) @@ (t3 :> 3)
MCDesired == <<"d1", "d2">>

(* Issues in two repositories: sound ones, and what each gate refuses.              *)
Issue(l, repository, worth, flaw, fit) ==
  [listing |-> l, repository |-> repository, worth |-> worth, flaw |-> flaw, fit |-> fit]
MCIssues ==
  {Issue("a", "r", 4, "", "exact"), Issue("b", "r", 3, "", "exact"),
   Issue("c", "s", 2, "", "matched"), Issue("d", "s", 1, "", "document"),
   Issue("e", "s", 5, "unsafe", "exact"), Issue("f", "r", 6, "exfiltrates", "exact"),
   Issue("g", "s", 6, "outsized", "none"), Issue("h", "s", 7, "reward", "exact"),
   Issue("i", "r", 8, "gated", "matched"), Issue("k", "s", 6, "attested", "document")}

(* Hits of the radar: pages that searches show, and pages that links lead to.       *)
Hit(url, title, score, gate, text) ==
  [url |-> url, title |-> title, score |-> score, money |-> IF title = "z" THEN "$9" ELSE "",
   gate |-> gate, text |-> text]
MCFound == {Hit("a", "x", 30, FALSE, "x"), Hit("a", "x", 50, TRUE, "y"),
            Hit("b", "x", 50, FALSE, "x"), Hit("p", "x", 40, FALSE, "x")}
MCSeeds == <<"s", "t">>
MCPlace == ("a" :> 1) @@ ("b" :> 3) @@ ("p" :> 5) @@ ("q" :> 7) @@ ("s" :> 9) @@ ("t" :> 11)
MCOrder == [u \in DOMAIN MCPlace |-> [t \in {"x", "z"} |-> MCPlace[u] + IF t = "z" THEN 1 ELSE 0]]
MCDomain ==
  ("a" :> "da") @@ ("b" :> "db") @@ ("p" :> "dp") @@ ("q" :> "dp") @@ ("s" :> "ds") @@ ("t" :> "dt")
MCLinks == ("s" :> <<"s", "p", "q", "t">>) @@ ("t" :> <<"b", "p", "a">>)
MCHits(url) ==
  CASE url = "p" -> {Hit("p", "z", 60, FALSE, "z")}
    [] url = "b" -> {Hit("b", "z", 50, FALSE, "z")}
    [] OTHER     -> {}
MCHitsOf == [u \in DOMAIN MCDomain |-> MCHits(u)]

vars == <<scanning, routing, capabilities, sniping, submitting, selling, prospecting, searching,
          focus>>

(* A program out of focus rests in one of its initial states.                       *)
Init ==
  /\ focus \in Focus
  /\ ScanInit /\ RouterInit /\ CapabilitiesInit /\ SniperInit /\ SubmissionInit /\ OffersInit
  /\ ProspectInit /\ RadarInit
  /\ focus # "scans" => scan.adapter = CHOOSE a \in Adapters : TRUE
  /\ focus # "capabilities" =>
       status = [c \in Capability |-> CHOOSE s \in MCStatuses(c) : TRUE]
  /\ focus # "submits" => envelope /\ artifact = CHOOSE a \in Artifacts : TRUE
  /\ focus # "sells" => offers = {}
  /\ focus # "prospects" => /\ prospect.kind = CHOOSE k \in Kinds : TRUE
                            /\ standing = [r \in Repositories |-> CHOOSE s \in Standings : TRUE]

Next ==
  /\ UNCHANGED focus
  /\ \/ /\ focus = "scans" /\ ScansNext
        /\ UNCHANGED <<routing, capabilities, sniping, submitting, selling, prospecting, searching>>
     \/ /\ focus = "routes" /\ RouterNext
        /\ UNCHANGED <<scanning, capabilities, sniping, submitting, selling, prospecting, searching>>
     \/ /\ focus = "capabilities" /\ CapabilitiesNext
        /\ UNCHANGED <<scanning, routing, sniping, submitting, selling, prospecting, searching>>
     \/ /\ focus = "snipes" /\ SniperNext
        /\ UNCHANGED <<scanning, routing, capabilities, submitting, selling, prospecting, searching>>
     \/ /\ focus = "submits" /\ SubmissionNext
        /\ UNCHANGED <<scanning, routing, capabilities, sniping, selling, prospecting, searching>>
     \/ /\ focus = "sells" /\ OffersNext
        /\ UNCHANGED <<scanning, routing, capabilities, sniping, submitting, prospecting, searching>>
     \/ /\ focus = "prospects" /\ ProspectNext
        /\ UNCHANGED <<scanning, routing, capabilities, sniping, submitting, selling, searching>>
     \/ /\ focus = "radar" /\ RadarNext
        /\ UNCHANGED <<scanning, routing, capabilities, sniping, submitting, selling, prospecting>>

Spec == Init /\ [][Next]_vars

(* Types of the variables of the program in focus; the others rest.                 *)
TypeOK ==
  CASE focus = "scans"        -> ScansTypeOK
    [] focus = "routes"       -> RouterTypeOK
    [] focus = "capabilities" -> CapabilitiesTypeOK
    [] focus = "snipes"       -> SniperTypeOK
    [] focus = "submits"      -> SubmissionTypeOK
    [] focus = "sells"        -> OffersTypeOK
    [] focus = "prospects"    -> ProspectTypeOK
    [] OTHER                  -> RadarTypeOK
===============================================================================
