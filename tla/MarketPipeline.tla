---------------------------- MODULE MarketPipeline ----------------------------
(***************************************************************************)
(* The discovery of paid missions: four workflows, one run at a time, each a   *)
(* sequence of scripts over the files of results/.  A run works on a checkout   *)
(* and commits it at its end or not at all.  Every script that adds or checks    *)
(* rows of the market file decides all rows anew (UniversalMarketEngine), so a    *)
(* rejection lasts only as long as some later script repeats it.                 *)
(*                                                                         *)
(* Rows are listings with the few facts the decisions use; scores, ranks,        *)
(* counts, reports and the capability market (which rejects for the payer's text *)
(* again and writes files of its own) are left out.                              *)
(***************************************************************************)
EXTENDS Naturals, Sequences, FiniteSets

CONSTANTS
  Listing,
  Source,       \* [Listing -> {"github", "bounty", "simple", "expanded"}]
  Adapter,      \* the adapters of simple missions
  AdapterOf,    \* [Listing -> Adapter], for simple missions
  Payable,      \* verified reward, accessible, lawful
  Viable,       \* small, fast and worth its hours, or a microjob for agents
  Gated,        \* need an account or terms accepted
  Freelance,    \* public freelance listings: need a dossier before submission
  Oversized,    \* software listings beyond the bounded delivery policy
  Registered,   \* have verified artifacts in the registry of prepared artifacts
  Nothing,
  MaxChanges    \* bound: changes of the world and of the configuration

ASSUME MarketAssumption ==
  /\ UNION {Payable, Viable, Gated, Freelance, Oversized, Registered} \subseteq Listing
  /\ Oversized \subseteq Freelance /\ Nothing \notin Adapter /\ MaxChanges \in Nat
  /\ \A l \in Listing : Source[l] \in {"github", "bounty", "simple", "expanded"}

Workflows == {"full", "verify", "reward", "expanded"}

(* The scripts of a workflow that change what is modelled, in their order.   *)
Scripts == [w \in Workflows |->
  CASE w = "full"     -> <<"universal", "small", "verify", "simple", "classify", "enforce",
                           "dossiers", "postprocess", "commit", "alert">>
    [] w = "verify"   -> <<"verify", "postprocess", "commit">>
    [] w = "reward"   -> <<"small", "verify", "classify", "enforce", "dossiers",
                           "postprocess", "commit">>
    [] w = "expanded" -> <<"expand", "classify", "enforce", "dossiers", "postprocess", "commit">>]

Statuses == {"executable_now", "prepare_then_gate", "capability_build", "rejected"}
NoRow    == [status |-> "absent", bad |-> FALSE, refused |-> FALSE, prepared |-> FALSE]
Row      == [status   : Statuses,
             bad      : BOOLEAN,   \* the payer's text, as read, breaks the delivery policy
             refused  : BOOLEAN,   \* metadata["policy_rejection"]
             prepared : BOOLEAN]   \* metadata["submission_dossier_prepared"]
Item     == [id : Listing, status : Statuses, exact : BOOLEAN]
Results  == [market    : [Listing -> Row \cup {NoRow}],
             portfolio : SUBSET Listing,   \* cash_first_market.json
             human     : SUBSET Item,      \* human_action_required.json
             new       : SUBSET Item,      \* its new_items
             dossiers  : SUBSET Listing,   \* results/simple_mission_dossiers
             paused    : Adapter \cup {Nothing},  \* the source pause of the last receipt
             known     : SUBSET Adapter]       \* and the sources it knew
Config   == [adapters : SUBSET Adapter,    \* sources the code has
             capable  : SUBSET Listing,    \* whose required capability is validated
             registry : SUBSET Listing,    \* persistent_opportunity_rejections.json
             allowed  : SUBSET Listing]    \* which production_policy.json lets prepare

VARIABLES
  offered,  \* SUBSET Listing: what the payers offer
  bans,     \* SUBSET Listing: whose text prohibits automated delivery
  config,   \* Config: the configuration on the branch
  branch,   \* Results: results/ on the branch
  job,      \* [wf, at, config, disk]: the run under way
  told,     \* items the owner was told of while they are on the branch
  demoted,  \* history: a validated capability was demoted
  changes   \* how often the world has changed

pipeline == <<offered, bans, config, branch, job, told, demoted, changes>>

NoJob == [wf |-> Nothing, at |-> 0, config |-> Nothing, disk |-> Nothing]

MarketInit ==
  /\ offered = Listing /\ bans = {}
  /\ config \in [adapters : {A \in SUBSET Adapter : Cardinality(A) = 1},
                 capable : {Listing}, registry : {{}}, allowed : {Listing}]
  /\ branch = [market |-> [l \in Listing |-> NoRow], portfolio |-> {}, human |-> {},
               new |-> {}, dossiers |-> {}, paused |-> Nothing, known |-> {}]
  /\ job = NoJob
  /\ told = {} /\ demoted = FALSE /\ changes = 0

World == <<offered, bans, config, demoted, changes>>
Resting == job = NoJob
Here(script) == ~Resting /\ Scripts[job.wf][job.at] = script

Present(rows, l) == rows[l] # NoRow

(* One script has done its work and the next begins.                         *)
Leaves(disk) ==
  /\ job' = [job EXCEPT !.at = @ + 1, !.disk = disk]
  /\ UNCHANGED <<World, branch, told>>

-------------------------------------------------------------------------------
(* UniversalMarketEngine.                                                    *)

(* _decide                                                                   *)
Decide(l) ==
  IF l \notin Payable THEN "rejected"
  ELSE IF l \notin job.config.capable THEN "capability_build"
  ELSE IF l \in Gated THEN "prepare_then_gate"
  ELSE "executable_now"

(* evaluate: every row is decided, whatever was decided before.              *)
Evaluate(rows) ==
  [l \in Listing |-> IF Present(rows, l) THEN [rows[l] EXCEPT !.status = Decide(l)] ELSE NoRow]

Found(l) == [status |-> Decide(l), bad |-> l \in bans, refused |-> FALSE, prepared |-> FALSE]

(* Rows found join those that are there; of two rows of one listing the better *)
(* score stays, the older on a tie.                                            *)
Joined(rows, found, better) ==
  Evaluate([l \in Listing |->
              IF l \in found /\ (~Present(rows, l) \/ l \in better) THEN Found(l) ELSE rows[l]])

From(source) == {l \in offered : Source[l] = source}

-------------------------------------------------------------------------------
(* The scripts.                                                              *)

Checkout(w) ==
  /\ Resting
  /\ job' = [wf |-> w, at |-> 1, config |-> config, disk |-> [branch EXCEPT !.new = {}]]
  /\ UNCHANGED <<World, branch, told>>

(* universal_market_cycle: a new market file.                                *)
UniversalMarketCycle ==
  /\ Here("universal")
  /\ \E found \in SUBSET From("github") :
       Leaves([job.disk EXCEPT !.market = [l \in Listing |-> IF l \in found THEN Found(l) ELSE NoRow]])

(* refresh_small_bounty_sources: nothing is dropped.                         *)
RefreshSmallBountySources ==
  /\ Here("small")
  /\ \E found \in SUBSET From("bounty") : \E better \in SUBSET found :
       Leaves([job.disk EXCEPT !.market = Joined(@, found, better)])

(* verify_small_bounty_issue_state: rows of the platforms stay if GitHub shows *)
(* the issue open, with the text it has now.                                   *)
VerifySmallBountyIssueState ==
  /\ Here("verify")
  /\ \E open \in SUBSET From("bounty") :
       Leaves([job.disk EXCEPT !.market =
                 Evaluate([l \in Listing |->
                             IF Source[l] # "bounty" \/ ~Present(@, l) THEN @[l]
                             ELSE IF l \in open THEN [@[l] EXCEPT !.bad = l \in bans]
                             ELSE NoRow])])

(* collect_with_source_pivot: a pause holds until an adapter is there that the  *)
(* last receipt did not know; a new pause needs a source whose measured yield    *)
(* the router found to be zero.                                                 *)
Pause(target) ==
  LET adapters   == job.config.adapters
      paused     == job.disk.paused
      newcomers  == IF job.disk.known = {} THEN {} ELSE adapters \ job.disk.known
      unresolved == paused \in adapters /\ newcomers = {}
  IN CASE unresolved      -> target = paused
       [] newcomers # {}  -> target = Nothing
       [] OTHER           -> target \in adapters \cup {Nothing}

(* refresh_simple_mission_sources: the rows of its sources are dropped, those    *)
(* of a paused or failing one too, and replaced by what the others return.       *)
RefreshSimpleMissionSources ==
  /\ Here("simple")
  /\ \E target \in Adapter \cup {Nothing} :
       /\ Pause(target)
       /\ \E found \in SUBSET {l \in From("simple") :
                                 AdapterOf[l] \in job.config.adapters \ {target}} :
            LET own  == {l \in Listing : /\ Source[l] = "simple"
                                         /\ AdapterOf[l] \in job.config.adapters}
                kept == [l \in Listing |-> IF l \in own THEN NoRow ELSE job.disk.market[l]]
            IN Leaves([job.disk EXCEPT !.market = Joined(kept, found, {}),
                                       !.paused = target, !.known = job.config.adapters])

(* expanded_cash_first_cycle: nothing is dropped.                            *)
ExpandedCashFirstCycle ==
  /\ Here("expand")
  /\ \E found \in SUBSET From("expanded") : \E better \in SUBSET found :
       Leaves([job.disk EXCEPT !.market = Joined(@, found, better)])

(* assess_software_scope: a listing that is not software is left alone.       *)
WithinScope(l) == l \notin Oversized

(* classify_software_micro_missions: an oversized software listing is rejected. *)
ClassifySoftwareMicroMissions ==
  /\ Here("classify")
  /\ LET rows == Evaluate(job.disk.market)
     IN Leaves([job.disk EXCEPT !.market =
          [l \in Listing |-> IF Present(rows, l) /\ ~WithinScope(l)
                               THEN [rows[l] EXCEPT !.status = "rejected", !.refused = TRUE]
                               ELSE rows[l]]])

(* reject_incompatible_delivery_methods: the payer's text and the registry.  *)
RejectIncompatible(rows) ==
  [l \in Listing |->
     IF Present(rows, l) /\ (rows[l].bad \/ l \in job.config.registry)
       THEN [rows[l] EXCEPT !.status = "rejected", !.refused = TRUE, !.prepared = FALSE]
       ELSE rows[l]]

(* enforce_delivery_compatibility                                            *)
EnforceDeliveryCompatibility ==
  /\ Here("enforce")
  /\ Leaves([job.disk EXCEPT !.market = RejectIncompatible(@)])

ToPrepare(rows) == {l \in Freelance : rows[l].status = "prepare_then_gate"}

(* Mutant: a refused preparation leaves the row as it was.                   *)
MarkedPrepared(rows) ==
  [l \in Listing |->
     IF l \in ToPrepare(rows) \cap job.config.allowed
       THEN [rows[l] EXCEPT !.prepared = TRUE] ELSE rows[l]]

Prepared(rows) ==
  [l \in Listing |->
     IF l \in ToPrepare(rows)
       THEN [rows[l] EXCEPT !.prepared = l \in job.config.allowed] ELSE rows[l]]

(* The proposals that are written: what is to be prepared and passes the policy. *)
Proposals(rows) == ToPrepare(rows) \cap job.config.allowed

(* prepare_simple_mission_dossiers: all dossiers are removed and those of the    *)
(* listings that still need one and pass the policy are written again.           *)
PrepareSimpleMissionDossiers ==
  /\ Here("dossiers")
  /\ Leaves([job.disk EXCEPT !.market = Prepared(@),
                             !.dossiers = Proposals(job.disk.market)])

-------------------------------------------------------------------------------
(* cash_first_market_postprocess.                                            *)

(* attach_prepared_artifacts                                                 *)
Attached(rows) ==
  [l \in Listing |->
     IF Present(rows, l) /\ rows[l].status # "rejected" /\ l \in Registered
       THEN [rows[l] EXCEPT !.prepared = TRUE] ELSE rows[l]]

(* assess_cash_priority: the lane, and what is left for the owner to do.     *)
CashFirst(rows) ==
  {l \in Listing : /\ rows[l].status \in {"prepare_then_gate", "executable_now"}
                   /\ l \in Payable /\ l \in Viable \cup Registered}

HumanAction(row) == row.prepared \/ row.status = "prepare_then_gate"

ReadyForHuman(rows) ==
  {[id |-> l, status |-> rows[l].status, exact |-> rows[l].prepared] :
     l \in {k \in CashFirst(rows) : /\ HumanAction(rows[k])
                                    /\ k \notin Freelance \/ rows[k].prepared}}

(* Mutant: the rows are taken as the steps before left them.                  *)
TrustRows(rows) == Attached(rows)

SafeRows(rows) == Attached(RejectIncompatible(rows))

Postprocess ==
  /\ Here("postprocess")
  /\ LET rows  == SafeRows(job.disk.market)
         ready == ReadyForHuman(rows)
     IN Leaves([job.disk EXCEPT !.market = rows, !.portfolio = CashFirst(rows),
                                !.human = ready, !.new = ready \ job.disk.human])

(* The push of the workflow's files.                                         *)
Commit ==
  /\ Here("commit")
  /\ branch' = [job.disk EXCEPT !.new = {}]
  /\ told' = told \cap job.disk.human
  /\ job' = IF job.wf = "full" THEN [job EXCEPT !.at = @ + 1] ELSE NoJob
  /\ UNCHANGED World

(* "Alert owner only for a new exact human action"                           *)
Alert ==
  /\ Here("alert")
  /\ told' = told \cup job.disk.new
  /\ job' = NoJob
  /\ UNCHANGED <<World, branch>>

(* A step fails, the push is refused or the machine is lost.                 *)
JobFails ==
  /\ ~Resting
  /\ job' = NoJob
  /\ UNCHANGED <<World, branch, told>>

(* The payers, and the maintainers between runs.                             *)
Changes ==
  /\ changes < MaxChanges /\ changes' = changes + 1
  /\ UNCHANGED <<branch, job, told>>

Toggled(S, x) == IF x \in S THEN S \ {x} ELSE S \cup {x}

PayerChanges ==
  /\ Changes
  /\ \E l \in Listing :
       \/ /\ offered' = Toggled(offered, l)
          /\ UNCHANGED bans
       \/ /\ l \in offered \ bans
          /\ bans' = bans \cup {l}
          /\ UNCHANGED offered
  /\ UNCHANGED <<config, demoted>>

MaintainersChange ==
  /\ Changes
  /\ \/ \E a \in Adapter \ config.adapters : config' = [config EXCEPT !.adapters = @ \cup {a}]
     \/ \E l \in Listing \ config.registry : config' = [config EXCEPT !.registry = @ \cup {l}]
     \/ \E l \in Listing : config' = [config EXCEPT !.allowed = Toggled(@, l)]
     \/ \E l \in Listing : config' = [config EXCEPT !.capable = Toggled(@, l)]
  /\ demoted' = (demoted \/ ~(config.capable \subseteq config'.capable))
  /\ UNCHANGED <<offered, bans>>

MarketNext ==
  \/ \E w \in Workflows : Checkout(w)
  \/ UniversalMarketCycle \/ RefreshSmallBountySources \/ VerifySmallBountyIssueState
  \/ RefreshSimpleMissionSources \/ ExpandedCashFirstCycle
  \/ ClassifySoftwareMicroMissions \/ EnforceDeliveryCompatibility
  \/ PrepareSimpleMissionDossiers \/ Postprocess
  \/ Commit \/ Alert \/ JobFails
  \/ PayerChanges \/ MaintainersChange

MarketSpec == MarketInit /\ [][MarketNext]_pipeline

-------------------------------------------------------------------------------
MarketTypeOK ==
  /\ offered \subseteq Listing /\ bans \subseteq Listing
  /\ config \in Config
  /\ branch.market \in [Listing -> Row \cup {NoRow}]
  /\ branch.portfolio \subseteq Listing /\ branch.dossiers \subseteq Freelance
  /\ branch.human \subseteq Item /\ told \subseteq branch.human
  /\ ~Resting => job.disk.paused \in job.config.adapters \cup {Nothing, branch.paused}
  /\ demoted \in BOOLEAN /\ changes \in 0..MaxChanges

(* Whatever sequence of workflows ran and failed, what a run puts before the    *)
(* owner or into the portfolio breaks neither the delivery policy, as the text    *)
(* was read, nor the registry of rejections the run had.                          *)
NoIncompatibleMission ==
  [][\A l \in Listing :
       (branch'.portfolio # branch.portfolio \/ branch'.human # branch.human) =>
         (l \in branch'.portfolio \cup {i.id : i \in branch'.human} =>
            ~branch'.market[l].bad /\ l \notin job.config.registry)]_pipeline

(* The owner is asked to submit a prepared freelance dossier only when it is on   *)
(* the branch, whichever workflow asked, as long as no validated capability was   *)
(* demoted in the meantime.                                                       *)
HumanActionHasDossier ==
  demoted \/ \A i \in branch.human :
    i.id \in Freelance => i.id \in branch.dossiers \cup Registered

(* An opportunity rejected by policy is not among those to pursue.           *)
RejectionIsFinal == \A l \in branch.portfolio : ~branch.market[l].refused
===============================================================================
