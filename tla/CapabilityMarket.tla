--------------------------- MODULE CapabilityMarket ---------------------------
(* The capability market inside the market workflow: the engine's capability gaps    *)
(* start the backlog, the software missions are classified, the capability market     *)
(* clusters the missions, plans what to build and enriches the backlog, the           *)
(* postprocessor puts it in the order of the cash-first portfolio, and at most        *)
(* MaxIssues GitHub issues are created from it.                                        *)
(* The files reach the branch with the commit that ends the run, the issues exist      *)
(* at once. Simulations, templates, history and the text of issues are left out.       *)
EXTENDS Integers, Sequences, FiniteSets, FiniteSetsExt

CONSTANTS
  Missions,      \* the rows the market can hold
  Capability,
  Statuses(_),   \* capability -> the statuses the registry can give it
  RawScore(_),   \* cluster_opportunities: the score of a set of rows before its cost
  MaxGaps,       \* maximum_capability_gaps
  MaxPlans,      \* build_capability_plans.maximum
  MaxIssues,     \* MAX_ISSUES_PER_CYCLE
  Precedes(_, _),\* the order of two capability ids
  MaxRuns        \* bound: runs of the workflow

(* A mission: software is the capability of its software scope, if it has one, and      *)
(* hours the effort of that scope; viable the effort up to which the portfolio takes it. *)
Mission ==
  [id : Nat, worth : Nat, caps : SUBSET Capability, family : [Capability -> Int],
   software : SUBSET Capability, hours : Nat, outOfScope : BOOLEAN, banned : BOOLEAN,
   verified : BOOLEAN, effort : Nat, viable : Nat, days : Nat, competition : Nat,
   cost : Nat, accessibility : Nat]

(* classify_software_micro_missions.py: a software scope has one capability and its own  *)
(* effort, whatever its source asked for.                                              *)
Classified(r) ==
  IF r.software = {} THEN r ELSE [r EXCEPT !.caps = r.software, !.effort = r.hours]
Rows == Missions \cup {Classified(r) : r \in Missions}

(* A score may be any number; capability ids are in order.                             *)
ASSUME CapabilityAssumption ==
  /\ IsFiniteSet(Missions) /\ IsFiniteSet(Capability)
  /\ Missions \subseteq Mission
  /\ \A rows \in SUBSET Rows : RawScore(rows) \in Int
  /\ \A c \in Capability :
       Statuses(c) \subseteq {"validated", "experimental", "unavailable", "forbidden", "unknown"}
  /\ \A c, d \in Capability : c # d => (Precedes(c, d) <=> ~Precedes(d, c))
  /\ \A c \in Capability : ~Precedes(c, c)
  /\ \A c, d, e \in Capability : Precedes(c, d) /\ Precedes(d, e) => Precedes(c, e)
  /\ MaxGaps \in Nat /\ MaxPlans \in Nat /\ MaxIssues \in Nat /\ MaxRuns \in Nat

VARIABLES
  status,    \* universal_capabilities.json: capability -> status
  run,       \* the run on its checkout: where it is, its rows, plan, backlog, receipts
  receipts,  \* capability_issue_receipts.json on the branch: marker -> its status
  issues,    \* the issues on GitHub
  runs

capabilities == <<status, run, receipts, issues, runs>>

Markers == {"gap", "market"} \X Capability
NoRun   == [at |-> "idle", rows |-> {}, plan |-> <<>>, backlog |-> <<>>, receipts |-> {},
            next |-> 1, created |-> 0]

CapabilitiesInit ==
  /\ status \in [Capability -> {"validated", "experimental", "unavailable", "forbidden", "unknown"}]
  /\ \A c \in Capability : status[c] \in Statuses(c)
  /\ run = NoRun
  /\ receipts = {}
  /\ issues = <<>>
  /\ runs = 0

(* _decide and _build_capability_gaps, on the rows of the last source refresh.         *)
Missing(r) == {c \in r.caps : status[c] # "validated"}
Building(rows) == {r \in rows : r.verified /\ Missing(r) # {}}

Ids(rows) == {r.id : r \in rows}
Smaller(m, n) == IF m <= n THEN m ELSE n
Best(rows) == Max({r.worth : r \in rows} \cup {0})

Item(kind, c, origins, priority, lane, rank) ==
  [marker |-> <<kind, c>>, origins |-> origins, priority |-> priority, lane |-> lane,
   rank |-> rank, deferred |-> FALSE]

ByPriority(i, j) ==
  i.priority > j.priority \/ (i.priority = j.priority /\ Precedes(i.marker[2], j.marker[2]))

(* The place of an element in a sort follows from the number of those before it.        *)
Needing(rows, c) == {r \in Building(rows) : c \in Missing(r)}
Gap(rows, c) ==
  Item("gap", c, Ids(Needing(rows, c)),
       Best(Needing(rows, c)) + Smaller(20, 3 * Cardinality(Needing(rows, c))), "none", 0)
Wanted(rows) == {c \in Capability : status[c] # "forbidden" /\ Needing(rows, c) # {}}
GapsBefore(rows, c) == {d \in Wanted(rows) : ByPriority(Gap(rows, d), Gap(rows, c))}
Gaps(rows) ==
  [p \in 1 .. Smaller(MaxGaps, Cardinality(Wanted(rows))) |->
     Gap(rows, CHOOSE c \in Wanted(rows) : Cardinality(GapsBefore(rows, c)) = p - 1)]

(* The scan, the refresh of the bounty sources, the check of their issues and the       *)
(* refresh of the simple sources each write the market and the backlog anew; the run     *)
(* goes on with what the last of them leaves.                                          *)
StartRun ==
  /\ run.at = "idle" /\ runs < MaxRuns
  /\ \E rows \in SUBSET Missions :
       run' = [NoRun EXCEPT !.at = "classify", !.rows = rows, !.backlog = Gaps(rows),
                            !.receipts = receipts]
  /\ runs' = runs + 1
  /\ UNCHANGED <<status, receipts, issues>>

(* The market is written anew once more, without the software missions out of scope,    *)
(* and the gaps stay as they were.                                                     *)
InScope(rows) == {r \in rows : ~r.outOfScope}
ClassifyMissions ==
  /\ run.at = "classify"
  /\ run' = [run EXCEPT !.at = "market", !.rows = {Classified(r) : r \in InScope(@)}]
  /\ UNCHANGED <<status, receipts, issues, runs>>

(* enforce_delivery_compatibility.py and capability_market.py reject who prohibits     *)
(* automated delivery; the others are clustered by lane, capability and family of        *)
(* deliverable.                                                                      *)
RejectProhibited(rows) == {r \in rows : ~r.banned}
Lane(r) ==
  IF /\ r.effort <= 16 /\ r.days <= 30 /\ r.competition <= 65
     /\ r.cost <= 25 /\ r.accessibility >= 50
  THEN "cash_first" ELSE "strategic"

Cost(s) == CASE s = "validated" -> 5 [] s = "experimental" -> 35 [] s = "unavailable" -> 85
             [] s = "forbidden" -> 100 [] s = "unknown" -> 55
Clusters(rows) ==
  LET keys == UNION {{<<Lane(r), c, r.family[c]>> : c \in r.caps} :
                       r \in {x \in rows : x.verified}}
      of(k) == {r \in rows : r.verified /\ k[2] \in r.caps /\ <<Lane(r), k[2], r.family[k[2]]>> = k}
  IN {[lane |-> k[1], cap |-> k[2], family |-> k[3], rows |-> of(k),
       score |-> (RawScore(of(k)) * (10000 - 35 * Cost(status[k[2]]))) \div 10000] : k \in keys}

ClusterPrecedes(p, q) ==
  IF p.lane # q.lane THEN p.lane = "cash_first"
  ELSE IF p.score # q.score THEN p.score > q.score
  ELSE IF Cardinality(p.rows) # Cardinality(q.rows)
       THEN Cardinality(p.rows) > Cardinality(q.rows)
  ELSE IF p.cap # q.cap THEN Precedes(p.cap, q.cap) ELSE p.family < q.family

(* What may be built: a rank for the first cash-first clusters whose capability is    *)
(* neither there nor out of reach.                                                   *)
Plannable(k) == k.lane = "cash_first" /\ status[k.cap] \notin {"validated", "forbidden", "unavailable"}
PlansBefore(clusters, k) == {q \in clusters : Plannable(q) /\ ClusterPrecedes(q, k)}
Plan(clusters) ==
  LET plannable == {k \in clusters : Plannable(k)}
  IN [p \in 1 .. Smaller(MaxPlans, Cardinality(plannable)) |->
        CHOOSE k \in plannable : Cardinality(PlansBefore(clusters, k)) = p - 1]

(* The best cluster of a capability, of either lane, and the first of the best.         *)
BestCluster(clusters, c) ==
  CHOOSE k \in clusters :
    /\ k.cap = c
    /\ \A q \in clusters \ {k} :
         q.cap = c => k.score > q.score \/ (k.score = q.score /\ ClusterPrecedes(k, q))

(* A capability with two families has two ranks, of which the last is kept, and two    *)
(* items with one marker if the engine had none for it.                              *)
RankOf(plan, c) == Max({i \in DOMAIN plan : plan[i].cap = c} \cup {0})
InBacklog(backlog, c) == \E i \in DOMAIN backlog : backlog[i].marker[2] = c
Enriched(i, clusters, plan) ==
  IF \E k \in clusters : k.cap = i.marker[2]
  THEN [i EXCEPT !.lane = BestCluster(clusters, i.marker[2]).lane, !.rank = RankOf(plan, i.marker[2])]
  ELSE i
Fresh(backlog, plan) == {n \in DOMAIN plan : ~InBacklog(backlog, plan[n].cap)}
FreshBefore(backlog, plan, n) == {m \in Fresh(backlog, plan) : m < n}
MarketItem(clusters, plan, n) ==
  Item("market", plan[n].cap, Ids(BestCluster(clusters, plan[n].cap).rows), plan[n].score, plan[n].lane, n)
Enrich(backlog, clusters, plan) ==
  LET fresh    == Fresh(backlog, plan)
      place(p) == CHOOSE n \in fresh : Cardinality(FreshBefore(backlog, plan, n)) = p - 1
  IN [n \in DOMAIN backlog |-> Enriched(backlog[n], clusters, plan)]
       \o [p \in 1 .. Cardinality(fresh) |-> MarketItem(clusters, plan, place(p))]

RunCapabilityMarket ==
  /\ run.at = "market"
  /\ LET rows     == RejectProhibited(run.rows)
         clusters == Clusters(rows)
         plan     == Plan(clusters)
     IN run' = [run EXCEPT !.at = "postprocess", !.rows = rows, !.plan = plan,
                           !.backlog = Enrich(@, clusters, plan)]
  /\ UNCHANGED <<status, receipts, issues, runs>>

(* prioritize_capability_backlog: what no mission of the cash-first portfolio asked    *)
(* for waits; the portfolio takes only missions that miss no capability (any more).     *)
InPortfolio(r) == r.verified /\ Missing(r) = {} /\ r.effort <= r.viable
Deferring(i, rows) ==
  [i EXCEPT !.deferred = ~(\E r \in rows : r.id \in i.origins /\ InPortfolio(r))]
ItemBefore(items, p, q) ==
  IF items[p].deferred # items[q].deferred THEN items[q].deferred
  ELSE ByPriority(items[p], items[q]) \/ (~ByPriority(items[q], items[p]) /\ p < q)
ItemsBefore(items, q) == {p \in DOMAIN items : ItemBefore(items, p, q)}
Sorted(items) ==
  [p \in DOMAIN items |->
     items[CHOOSE q \in DOMAIN items : Cardinality(ItemsBefore(items, q)) = p - 1]]
Prioritize(backlog, rows) == Sorted([n \in DOMAIN backlog |-> Deferring(backlog[n], rows)])

Postprocess ==
  /\ run.at = "postprocess"
  /\ run' = [run EXCEPT !.at = "issues", !.backlog = Prioritize(@, run.rows)]
  /\ UNCHANGED <<status, receipts, issues, runs>>

(* create_capability_gap_issues.py: one item of the loop. A marker with a receipt of   *)
(* an earlier run, of whatever status, or with a success of this run is passed over.    *)
HasReceipt(marker) ==
  \/ \E x \in receipts : x.marker = marker
  \/ \E x \in run.receipts : x.marker = marker /\ x.status # "failed"
Receipt(marker, s) == run.receipts \cup {[marker |-> marker, status |-> s]}

(* existing_issue_url asks GitHub's search index for one hit, and no marker is part of  *)
(* another: a hit carries the marker, and an issue just created is not in the index yet. *)
SearchOpen(marker) ==
  \E i \in DOMAIN issues : issues[i].marker = marker /\ issues[i].indexed /\ issues[i].open
Search(marker) == \E i \in DOMAIN issues : issues[i].marker = marker /\ issues[i].indexed

(* An issue, with two facts for the property: where its creation is on record, and       *)
(* whether the index then showed no issue of its marker.                               *)
Hidden(marker) == \A i \in DOMAIN issues : issues[i].marker = marker => ~issues[i].indexed
NewIssue(marker, receipt) ==
  Append(issues, [marker |-> marker, open |-> TRUE, indexed |-> FALSE, receipt |-> receipt,
                  blind |-> Hidden(marker)])

Looping == run.at = "issues" /\ run.next <= Len(run.backlog) /\ run.created < MaxIssues
Step == [run EXCEPT !.next = @ + 1]

PassOver ==
  /\ Looping
  /\ run.backlog[run.next].deferred \/ HasReceipt(run.backlog[run.next].marker)
  /\ run' = Step
  /\ UNCHANGED <<status, receipts, issues, runs>>

CreateIssue ==
  /\ Looping
  /\ ~run.backlog[run.next].deferred
  /\ LET marker == run.backlog[run.next].marker
     IN /\ ~HasReceipt(marker)
        /\ \/ /\ Search(marker)
              /\ run' = [Step EXCEPT !.receipts = Receipt(marker, "already_exists")]
              /\ UNCHANGED issues
           \/ /\ ~Search(marker)
              /\ run' = [Step EXCEPT !.receipts = Receipt(marker, "created"), !.created = @ + 1]
              /\ issues' = NewIssue(marker, "checkout")
           \/ /\ run' = [Step EXCEPT !.receipts = Receipt(marker, "failed")]
              /\ \/ UNCHANGED issues
                 \/ ~Search(marker) /\ issues' = NewIssue(marker, "none")  \* created, the answer lost
  /\ UNCHANGED <<status, receipts, runs>>

(* The run ends with its commit, or is lost at any point with its checkout: a step      *)
(* fails, the job times out, the push is refused.                                     *)
Recorded(place) ==
  [i \in DOMAIN issues |->
     [issues[i] EXCEPT !.receipt = IF @ = "checkout" THEN place ELSE @]]

CommitRun ==
  /\ run.at = "issues" /\ ~Looping
  /\ receipts' = run.receipts
  /\ issues' = Recorded("branch")
  /\ run' = NoRun
  /\ UNCHANGED <<status, runs>>

LoseRun ==
  /\ run.at # "idle"
  /\ issues' = Recorded("none")
  /\ run' = NoRun
  /\ UNCHANGED <<status, receipts, runs>>

(* GitHub's search index gets to an issue, sooner or later.                            *)
IndexCatchesUp ==
  /\ \E i \in DOMAIN issues :
       ~issues[i].indexed /\ issues' = [issues EXCEPT ![i].indexed = TRUE]
  /\ UNCHANGED <<status, run, receipts, runs>>

(* Between runs: an issue is closed, a capability changes its status.                  *)
CloseIssue ==
  /\ run.at = "idle"
  /\ \E i \in DOMAIN issues : issues[i].open /\ issues' = [issues EXCEPT ![i].open = FALSE]
  /\ UNCHANGED <<status, run, receipts, runs>>

ChangeStatus ==
  /\ run.at = "idle"
  /\ \E c \in Capability : \E s \in Statuses(c) : status' = [status EXCEPT ![c] = s]
  /\ UNCHANGED <<run, receipts, issues, runs>>

CapabilitiesNext ==
  \/ StartRun \/ ClassifyMissions \/ RunCapabilityMarket \/ Postprocess
  \/ PassOver \/ CreateIssue \/ CommitRun \/ LoseRun
  \/ IndexCatchesUp \/ CloseIssue \/ ChangeStatus

CapabilitiesSpec == CapabilitiesInit /\ [][CapabilitiesNext]_capabilities

CapabilitiesTypeOK ==
  /\ \A c \in Capability : status[c] \in Statuses(c)
  /\ run.at \in {"idle", "classify", "market", "postprocess", "issues"}
  /\ run.rows \subseteq Rows
  /\ \A i \in DOMAIN run.backlog : run.backlog[i].marker \in Markers
  /\ Len(run.plan) <= MaxPlans /\ run.created <= MaxIssues
  /\ \A x \in receipts : x.marker \in Markers /\ x.status \in {"created", "already_exists", "failed"}
  /\ \A i \in DOMAIN issues : issues[i].marker \in Markers
  /\ runs \in 0 .. MaxRuns

(* A marker gets a second issue only when the receipt of the first was lost (with the     *)
(* answer to its creation, or with the run) and GitHub's index still showed no issue of  *)
(* the marker: never after a committed run, and never in the same run after an answer,   *)
(* although issues are closed, capabilities change and the backlog is made anew.        *)
OneIssuePerMarker ==
  \A i, j \in DOMAIN issues :
    i < j /\ issues[i].marker = issues[j].marker => issues[i].receipt = "none" /\ issues[j].blind
===============================================================================
