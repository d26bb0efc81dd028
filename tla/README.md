# Louis OS (ATLAS) in TLA+

This directory holds TLA+ models of the parts of the repository in which state is
shared, decided upon and acted on, TLC configurations that check them on small
instances, and proofs, checked by TLAPS, of the properties that matter most.
`PROJECT.json` lists the components, the runs with their mutants, the source
lines behind every definition, the disagreements found, the hazards and the
theorems.

Checking: `tlc -config MCX_y.cfg MCX.tla` for a run, `tlapm XProofs.tla` for proofs.

## 1. The system

Louis OS is a Python program that looks for paid work, prepares it and submits
it, on its own within a policy and with its owner's approval beyond it. Its rule
of evidence: nothing counts as submitted, accepted or paid without an external
receipt. It runs in three places that share state: GitHub Actions workflows (state
in `results/`, committed to the branch), a virtual machine (containers and timers
under a supervisor, state in Firestore and in files), and an HTTP server with a
chat (Cloud Run, state in Firestore). There is no scheduler above them: they meet
in files, documents and GitHub issues.

### 1.1 Inventory

Modelled, wholly or in part (status and sources of each: `PROJECT.json`):

| Component | State it keeps | Operations | Talks to | What makes it correct |
|---|---|---|---|---|
| Runtime without a VM | `results/degraded/*.json` on `main`, a clone per run | prepare, checkpoint, submit, persist | GitHub as store and as target; the connected operator | one submission per candidate; the intent is durable first; the uncertain is held for reconciliation |
| Command API, VM command bus, worker | a record per command and key; Firestore documents; a lock file | create, delegate, wait; claim, execute, report; lock, exit, restart | each other | a command runs once; a delegated one is decided |
| Chat and approved action queue | `louis_action_queue`, dossiers, plans | approve, stop; list, claim, re-read, plan | each other through documents | one claim per action; an early stop holds; a claim is in somebody's hands |
| Owner approvals and executors | approvals, receipts, ledger in `results/` | read comments, open an issue, post, commit | GitHub issues | an approval is used once; one issue per candidate |
| Orchestrator and provider runtime | calls, failures, cooldown of each provider | route, fall back, specialist, validate, criticise, revise | model APIs | what is returned was reviewed; limits and cooldowns bound what is recorded |
| Mission bridge | one JSON file of requests | request, publish, answer, consume | GitHub comments, services of the VM | a consumer gets a stored reply to its request |
| MCP mentor bridge and chat sessions | pairings, notes, messages | pair, queue, list, reply; say, prompt, answer | the mentor, the user | an accepted reply is kept; a prompt holds its question |
| Outcome reconciliation | receipts, ledger, balances, health | probe, compare, save | counterparties, wallets | counted revenue was received |
| Tested submission and pull requests | registry, workspace, package, receipts | scout, build, package, submit, monitor | GitHub | one open pull request per change; what is rejected is not sent |
| Autonomous cycle of the VM (kernel) | three JSON files | observe, choose, act, learn | market files | the refresh of the market is not starved |
| Autonomous and initiative cycles | one document per cycle | look up, decide, write | the HTTP server | the answer is what is stored |
| Cash-first and self-healing deliverables | registry, manifest, receipt, artifact, ledger | narrow, pick, execute, restore | other commands, on the same files | a completed candidate is proven |
| Economic ledger, reallocator, scheduler | outcomes | sum up, divide, launch | their callers | the shares are covered by the budget |
| Market pipeline | market file, portfolio, dossiers, human actions | four workflows of scripts | the adapters, the owner | no incompatible mission; a human action has its dossier |
| Source adapters | nothing | `collect()` | public markets | a scan reported clean is complete |
| Opportunity router | merged rows, pivot, choice | merge, sample, decide, choose | seven catalogs | what was judged stays judged |
| Capability market | gaps, plans, backlog, issue receipts | cluster, plan, prioritise, create issues | GitHub issues | one issue per capability marker |
| Payable issue scouts | registry of candidates | search, read, gate, rank, cap | GitHub | only better candidates take a place |
| Opportunity radar | one ranked file | search, crawl, rank, publish | the web | the file shows the best hits |
| MoltJobs, TaskForce, BountyBook, AgentPact | a state file or receipt each | list, bid or claim, submit or offer | the platforms | nothing is bid for, claimed or offered twice |
| Production policy; HTTP server; workflow governance | configuration; none; none | partly: as the choices and threads the modules above need | everything | fail closed; requests are independent |

Not modelled: see section 7.

### 1.2 What is hard

* Effects on foreign systems (a pull request, a bid, a comment, an offer) cannot be
  undone and mostly are not idempotent, while the machine that makes them is a
  disposable runner whose disk disappears when any step fails.
* The branch is the database of the workflows: a checkpoint is a rebase and a push
  that can conflict, be refused, or be lost; a failing step loses the whole run.
* Files are read and rewritten without locks, by threads of one server and by
  processes of two machines; a file being written is empty to its readers.
* Firestore documents are read in one call and written in another; only the two
  claims use transactions.
* One decision is taken by several programs that each repeat a part of the gates:
  a later one can undo what an earlier one refused.
* Answers of an API are lost, delayed or wrong while its effect took place, and
  the next run must find out.
* The owner, payers and maintainers act at any time.

The hazards are listed one by one, at their lines, in `PROJECT.json`; each names the
properties that cover it, or says why none does.

## 2. Modules and the code

A module stands for one component, with its own `Init`, one action per step of the
program, `Next`, a type invariant and its properties. `history` variables record
what happened for the properties; no guard reads them.

### 2.1 Runs on the branch

**SubmissionLedger** is the abstract promise of the runtime without a VM, in three
actions (reserve, attempt, record). **DegradedRuntime** implements it: `main` is the
head of the branch, `disk[r]` the clone of a run and `base[r]` the commit it grew
from, which is what git compares in a rebase. The program counter follows the
workflow (prepare, checkpoint, submit, final persist); `Pull` and the pushes are the
halves of one iteration of the persist loop. `Rebased` merges field by field and
`Conflict` says when git refuses. `StepRaises`, `JobCancelled` and `RunnerLost` end a
run wherever the code can end. The operator's actions model the conversation that
docs/github-operator-mode.md describes and are marked external.

**ExternalActions**: `thread` is issue 77, `durable` the branch, `files` the checkout. A
failure loses the checkout and nothing else, so a script's saves are one action with
its post. `Resolve` is evaluated against the list the run has just written.

**TestedSubmission**: the five scripts of the workflow as five stages over the same
checkout; `pulls` is GitHub. The workspace, the package and the receipts are what
earlier runs left unless a stage replaces them, as in the code. A patch is its task
and its kind (only the target patch builder and the VM's own results set
`current_execution_workspace`). Four policies differ in what the gates look at.

**MarketPipeline**: `Scripts` is the order of the scripts of each of the four workflows;
every script is one action on the checkout's rows, `commit` and the alert end the run,
and any failure drops it. A row is a listing with the status, the flags and the
files the gates use. Every script that adds or checks rows decides all of them anew.

**Reconciliation**: one run reads receipts and wallets one by one, while payments arrive
and reads fail; the comparison with the last state decides whether anything is
written at all. `Follow` is the monitor of one wallet, whose last balance in the ledger is
the first baseline of the probe; without one the first total is (`Baseline`).

**CapabilityMarket**: gaps, clusters, plans and backlog are operators over the rows of the
run. Between the gaps and the clusters the software missions are classified, which
changes the rows and leaves the gaps as they were. Issues are created one after the other,
and the receipts reach the branch only with the commit. GitHub's search shows an issue
only when its index has got to it (`indexed`, `IndexCatchesUp`), which may be after the
next run. In the instance every issue has a "gap" marker: an item that the plans add
always waits, since the portfolio takes no mission whose capability is missing.

**OpportunityRadar**: search rounds, seeds and links are fetched in the code's order, any
of which may fail; `Ranks` keeps the best hit of an address, by score, then what needs no
person, then domain and title. `Fingerprint` (address, title, score, money and gate of the
first records) decides whether the file is rewritten.

**PayableScout**: five scouts that share the steps search, pool, read, gate, rank and cap,
with the order of these steps, and the caps, that each has: the narrow scout ranks bounded
changes of documents first, and the promoter keeps the `MaxBacklog` rows of its backlog that
the reward hint puts first. **OpportunityRouter**: seven
files written at their own times by others (`WriteFeed`); a cycle merges, samples,
decides and chooses in one action, because nothing else moves while it reads.

### 2.2 The virtual machine

**CommandBus**: a request is a thread of the server; `rpc` is where `create_command`
stands, `record` and `newer` the store (for each record, those saved since: the local store
looks at its last saves), `doc` the Firestore document. A worker is a
deployment with a lock file that outlives its process. `Claim` is one step because it
is a transaction. `Window` is the reach of the lookup by key: 100 in the local store.

**AutonomyKernel**: one cycle after the other observes, scores four actions in the code's
own numbers, runs one (any change of what is observed), measures the effect and saves
three files; a kill between or during the saves tears a file.

**MoltJobs**, **TaskForce**: a run from its reads to the save of its state file, with a second
process on the same file, lost answers, torn files and ended runs. **BountyBookSubmission**:
the workflow, the claim, the submission, the polls, the receipt and its commit, each of
which may be lost; the platform judges and reopens the job. **AgentPactOffers**: the
ladder of offers, its POSTs with retries, and offers made by hand. The platforms are
external, modelled from how the scripts use them.

**MissionBridge**: each command of the script is a process that reads the whole file and
saves it in the steps of `write_text`, `chmod` and `replace`. All commands write one
`requests.tmp`, so `handle` says what has become of the file a command opened: still the
temporary one, meanwhile `requests.json`, or no longer linked. A file belongs to whoever
created it: one that root created is unreadable to the VM's services (`Readable`), and
its temporary file is closed to them (`MayOpen`). Only pending, mark-published and answer are
run by the workflow, one after the other; requests and consumers are clients.

### 2.3 The HTTP server

**ActionQueue**: `status` is one queue document per action; a run's `pc` names the last
thing it has done with the action in hand, so every Firestore call is a step. `Raises`
is the `except` clause. `serial` tells whether the concurrency group keeps runs apart.

**ProviderRuntime** and **Missions** (which extends it): `available()` reads the table of
providers without the lock, in a step of its own, before the call and the record of
its outcome. A draft is a number; `valid` and `passed` name the last draft the contract
and the critic accepted.

**MentorChat**: one session, its messages, the notes for the mentor and the replies, whose
read and write are two steps. **Cycles**: look-up, decision, second look and write of both
document stores; the lane "local" is the initiative on a local file, which only tests call,
so `AnswerIsStored` is about the initiative on Firestore. **Deliverables**: the files of the
deliverable commands, where every write is a truncation and a write, for concurrent
commands. **Economics**: the chain of three pure functions in cents and hundredths, with the
rounding of each step.

**SourceScans**: one `collect()` of each of eleven adapters over pages, details and merges.
A card is a listing with the first thing that is wrong with it.

Wording, URLs, scores, dates and hashes are abstracted everywhere to the choices they
lead to. `map` names the lines of each definition.

### 2.4 Composition

`DegradedRuntime` composes run, branch and operator; `CommandBus` the server, the bus, the
worker and the supervisor; `ExternalActions` three scripts over one branch; `MarketPipeline`
four workflows over one branch; `Missions` the orchestrator over the providers. The
modules `MCLanes`, `MCOffices` and `MCScouts` put components side by side that share no
variable: `focus` picks the one a behaviour is about, so that their states add up
instead of multiplying, and one run explores each of them in full. Nothing is lost
by it: no property of one component mentions another's state.

## 3. Runs

| Run | Module and bounds | What it shows |
|---|---|---|
| `bus` | `MCCommandBus`: 2 requests of one key, 2 workers, 1 fault; 0.3 million states | a command runs once; every delegated command is decided, also beside a lost worker, unless that worker had claimed it |
| `bus_repeated` | 2 requests of one key, no fault | **violated**: an order repeated soon runs twice under one idempotency key |
| `bus_killed` | 1 request, 1 worker, 1 kill | **violated**: a stale lock file blocks the queue for ever |
| `degraded` | `MCDegradedRuntime`: 2 candidates, 2 overlapping runs, 1 configuration change, 2 tries per loop; 1.2 million states | unique, reserved, held and honestly recorded submissions; takeovers are respected; `SubmissionLedger` is implemented |
| `lanes` | `MCLanes`: eight components (below); 4.0 million states | bids, answers, dossiers, refreshes, revenue, call limits, reviews, issues and pull requests |
| `actions_repeated` | approvals alone | **violated**: an approval is used twice across a failed run |
| `market_scope` | the market pipeline alone | **violated**: a rejected software listing is in the portfolio again |
| `submission_rejected` | the tested submission alone | **violated**: a task rejected by the same run is sent |
| `offices` | `MCOffices`: six services; 1.6 million states | the action queue, deliverables, cycles, replies, prompts and budgets |
| `cash_window` | the deliverables alone | **violated**: a candidate outside the window is executed |
| `queue_stop` | 1 action, 1 run, 1 stop | **violated**: a confirmed stop is overwritten |
| `scouts` | `MCScouts`: eight programs; 2.1 million states | complete scans, judged copies, single issues, applications, submissions and offers, fair places, best hits |

The properties of `lanes`: `NoDoubleBid` (MoltJobs), `ConsumedWasReplied` (mission bridge),
`HumanActionHasDossier` and `NoIncompatibleMission` (market), `RefreshIsNotStarved`
(kernel), `RevenueIsReceived` (reconciliation), `LimitOvershoot`, `BreakerBoundsFailures`
and `AcceptedIsReviewed` (missions and providers), `OneIssuePerCandidate` (approvals),
`OneOpenPullRequest` (tested submission). Of `offices`: `ClaimedOnce`, `ClaimIsHeld`,
`EarlyStopPreventsDossier` (queue), `CompletedIsProven` (deliverables), `AnswerIsStored`
(cycles), `AcceptedReplyIsKept` and `PromptHoldsItsQuestion` (mentor and chat),
`PortfolioIsBounded` (economics). Of `scouts`: `CleanScanIsComplete` (adapters),
`UpstreamVerdictHolds` (router), `OneIssuePerMarker` (capability market),
`KnownTaskIsNotAppliedAgain`, `SubmittedOncePerOpening`, `OfferCapHolds` (submitters),
`PlaceIsEarned` (scouts), `FrontierShowsBestHits` (radar).

### 3.1 Bounds

*Actors.* Two runs, threads, clients or processes suffice for each race modelled: they are
between one and another that overtook it. Two candidates, jobs or tasks tell "the same" from
"another". The bus has two requests of one key, and a lookup that reaches one record, so
that a request is found, missed while the other is planned, and missed beyond the reach.
Where a proof exists (section 6), it covers any number.

*Faults.* One crash, fault or failing step (`MaxCrashes`, `MaxFaults`, `MaxFailures`) is
placed at every point of every behaviour, with one change of the environment
(`MaxChanges`) where the module has one. The submitters may lose any answer, and restart
`MaxRestarts` = 3 times, over `MaxAttempts` = 2 authorized attempts.

*Numbers.* Limits are shrunk to the smallest that is met and exceeded: a provider limit of 3
calls with a threshold of 2 failures and two requests; `Credits` 3 with `Reserve` 1; a page
of 1 comment, a scan of 1 issue (`LookBack`) beside 1 other issue (`MaxOthers`); a chat
window of 2 messages (`HistoryLimit`) and 1 note; a cooldown of 2 cycles (12 in the code)
over 7 decisions; 2 outcomes for a sample (5 in the code) of at most 3; 3 active offers; 2
pages of 2 listings, 2 results and 1 check per scan; 3 rows and 2 per source in the router;
4 capabilities, 6 missions, 2 gaps, 2 plans, 1 issue per run and 2 runs in the capability
market; 3 issues read of 10, 2 candidates, 1 per repository and 1 in the promoter's backlog
in the scouts; 3 domains, 2 links and 3 records with a fingerprint of 2 in the radar.
Payouts are one (`MaxPayouts`), wallets two, of which the monitor follows one, replies of
the tutor and comments two for the bridge's one request, whose record is where commands meet
(the proof has any number), with one command that dies (`MaxLost`), pull requests two
(`MaxPulls`). In the kernel only observations that files can show together are used, and in
the market one listing of each kind: a bounty, a simple mission and one of the expanded
sources. Four policies, one of them as committed, stand for the gates of the tested
submission, with one capability.

**Deadlock** is not checked: every modelled workflow, request or timer run ends, bounded
environments stop, and the state in which all are over has no successor.

### 3.2 Fairness

Only `bus` and `bus_killed` need it. The server runs its threads (weak fairness), a worker
process that is up executes what it holds, and it polls its queue at the start of each
cycle, before each action and at each heartbeat (`vm_monetization_worker.py` 289, 352, 378,
449), all before anything in that loop can raise; a claim can be made impossible again and
again by another worker's claim or by the process leaving, so claims are strongly fair.
Nothing is assumed of the owner, of clients, of the supervisor's restarts or of faults.
`DelegatedIsDecided` holds with a fault because the other worker goes on; `bus_killed` shows
that the same fairness does not help where the killed worker was the only one. The workflows
and timers promise nothing that a fair schedule would give: their runs may be lost, and
nothing retries but the next trigger. `RefreshIsNotStarved` is stated as a bound for that
reason.

## 4. Disagreements between code and documents

Each is a run with expectation "violation"; `PROJECT.json` quotes the sentence.

1. `bus_killed`: a killed worker is not healed, since its lock file outlives it.
2. `actions_repeated`: a foreign comment is posted twice on one approval if the run fails
   between the post and the push.
3. `market_scope`: the verify workflow decides a scope rejection anew and puts the
   listing back into the portfolio.
4. `submission_rejected`: the workspace of an earlier run stays in the ledger, and its
   task, rejected by this run, is packaged and sent (when the policy lets it through).
5. `cash_window`: the window is a file that other commands replace, so candidates outside
   it are executed.
6. `queue_stop`: "Arrêt confirmé" can be followed by `implementation_planning` or
   `retryable_error` (`autonomous_action_executor.py` 137, 161).
7. `bus_repeated`: the idempotency key does not prevent a duplicate execution, since the
   lookup and the save of the record are two steps.

## 5. What the models show beyond the runs

Consequences that no document contradicts, or that a run of its own would repeat. The
models contain each of them; the properties are stated so as to hold beside them.

*Commands and approvals.* Besides the repetition of `bus_repeated`, an order repeated beyond
the last 100 records of the local store runs twice. A command that a lost worker had
claimed, or whose outcome could not be reported, stays "running" (`Abandoned`). A command
that ends in `failed_validation` is reported as completed. An approval of external scope can
be spent by the internal executor, and when that run is lost, spent again: on the post, or,
since "top" stands for another candidate in the next list, on a second issue. An execution
issue older than the last 1000 issues is not found (`autonomous_opportunity_executor.py`
159-168), so a candidate whose receipt was lost gets another; `OneIssuePerCandidate` is
about the issues in reach. Commands beyond the first page of comments are never read, and
the first ready action blocks all later ones while it waits.

*Market.* Human actions first written by the verify, reward or expanded workflow are never
announced; an item that leaves and returns is announced again. After a demotion of a
capability the verify workflow shows a human action without its dossier. A full run drops the
items of an expanded one. A prohibition of automated delivery is searched as a substring in
one script and by word boundary in another.

*Submissions.* The package carries no payment path, so the submitter refuses everything
under the policy as committed. A lost receipt leads to a refused branch in the next run
(422), an edited issue to a second branch and pull request, and a closed pull request to
another submission in every run.

*Deliverables.* The cash lane never reports "completed" itself, although the ledger says so. A
torn ledger erases history and revenue at the next save; a torn first read skips the
window and the scaffold gate; a restore can persist the narrowed list; another command's
late manifest spoils the proof of a completed candidate, which is why
`CompletedIsProven` asks that all commands on it completed.

*Bridge, chat and cycles.* A queue file saved by root is unreadable to the VM's services, so
they can neither request nor consume, and save() raises where another command has moved or
owns `requests.tmp`. Overlapping commands undo each other's updates: a stored reply, already
acknowledged as ready to be consumed (.github/workflows/louis-mission-bridge.yml:148), can
be gone; a consumed request can be open again, so that its next consumer is given another
reply, where scripts/test_louis_mission_bridge.py expects the first one again; a text
written over another makes the queue count as empty. What remains is `ConsumedWasReplied`.
Two conflicting replies of the mentor can both be accepted when they race
(docs/LOUIS_CODEX_MCP_BRIDGE.md refuses the second), the limit of a listing applies before
the filter of pending notes, and v8 saves an answer twice. The autonomous lane overwrites a
cycle's document and tells each caller its own; neither approval nor `dry_run` is part of a
cycle's name. On a local file the initiative tells the loser of a race its own record, while
the first line is what counts.

*Providers.* A call that ends in a read timeout raises past the two exceptions that providers.py
catches: it is in no count, no other provider is tried, and a provider that only times out is
asked without bound. `LimitOvershoot` and `BreakerBoundsFailures` speak of the calls and
failures that are recorded.

*Kernel, reconciliation, economics.* A torn state makes the kernel forget the age of the
last refresh. A wallet added later counts its old balance as received, since wallets are a
constant of the model; so would another wallet than the monitor's that held something when
the first baseline is the monitor's balance (`ReconciliationAssumption`). The scheduler
launches what the reallocator holds; an outcome with the default probability 0 stops a
mission; a quote-to-order rate above one makes the reallocator raise;
`commercial_benchmark_runner.py`, the only chain of the three, is called from tests.

*Adapters, router, capabilities.* A GitHub scan whose comment fetches all failed reports
"empty", a failed Freelancer detail is not reported, one malformed Guru card loses its page,
listings beyond the limit are never checked, and an INR limit is multiplied twice
(`simple_mission_sources.py` 402). A stale copy with a longer description beats a fresh
rejected one; TaskForce rows are never removed; removing and adding an adapter counts as a
replacement. A failed issue creation is never retried. A marker gets a second issue where
the receipt of the first was lost and GitHub's index still shows none (`OneIssuePerMarker`
excuses that case alone).

*Platforms.* BountyBook: a run that fails after its claim blocks all later ones. TaskForce:
a refused application is retried first in every run, and the VM's timer uses its own copy of
the policy. AgentPact: an offer created by a POST that answered 503 is reported as "reused"
and not counted. Scouts: the registry is replaced by an empty one when all searches failed;
an issue's state is the search's, its comments are read later; in the final scout a row that
the last gate refuses has taken the place of another, which `PlaceIsEarned` says. Radar:
records and texts outside the fingerprint may be older than the run.

## 6. Proofs

Eight modules prove theorems for every value of the constants that the named ASSUMEs
allow. TLC evaluates these assumptions in every run, and checks each property that is
proved on a small instance. Each inductive invariant states what is not visible in
the property: who can still act, and what he knows. Bounds (`MaxRuns`, `MaxFaults`, ...)
are constants like any other, so the theorems hold whatever they are.

**DegradedRuntimeProofs** (any candidates, runs, tries, serial or not): `TypeCorrect`,
`Invariant`, `OneAttempt`, `AttemptsAreReserved`, `UnrecordedAttemptsAreHeld`,
`TrueEvidence`, `TakeoversAreRespected`, `ReservationsArePermanent`, `ImplementsLedger`.
`AtMostOneAttempt` says nothing of who may attempt next. The invariant adds (a) `Lineage`: a
clone holds the reservations of the commit it grew from and otherwise only the run's own,
and main only grows; (b) `Ownership`: only the holder of a reservation on main attempts the
candidate, and while that run has not sent, nobody has; (c) `RunState`: from the checkpoint
on a run's base holds its reservation, and it was allowed to submit; (d) `Evidence`: every
tree is honest, because a push makes any clone's claims main's; (e) `OperatorState`; and (f)
`Additions`: a clone adds one reservation or one receipt to its base at most, and nothing
before the intent is written and from the checkpoint to the receipt. Every step of a run has
one of four shapes (local, checkout, push, end); lemmas give the lineage from the shapes,
and the rest has one case per action. `ImplementsLedger` is the refinement of
`SubmissionLedger`: initial states map to initial states, and by (f) each push reserves one
candidate or none, each submission is an attempt of a reserved one, and every other step
stutters. `AttemptsAreReserved` and `ReservationsArePermanent` are proved and not properties
of a run.

**CommandBusProofs** (any requests, keys, workers, faults): `BusTypeCorrect`,
`RunsOnceHolds`. A thread that has not decided has started nothing, a queued command has not
run, and a worker's command is marked running, has no other owner and has not run before the
worker says so.

**MissionsProofs** (any finite set of threads, any order, limits and revisions):
`MissionTypeCorrect`, `LimitOvershootHolds`, `AcceptedIsReviewedHolds`,
`BreakerBoundsFailuresHolds`. For the limit: calls counted plus threads that have seen room
and are not counted yet stay below limit plus threads. For the review: between the phases of
the loop, the draft is one more than the revisions, and what the contract and the critic
passed is that draft. For the breaker: failures recorded plus threads that wait for an
answer stay below the threshold, one per thread, and what the elapsed rest periods allow;
once the threshold is reached, the failures recorded are bounded by the periods before the
end of the rest, since each failure then begins one. *MarketPipeline* (any listings, any
failing workflows): `MarketTypeCorrect`, `HumanActionHasDossierHolds`,
`NoIncompatibleMissionHolds`. Four workflows rewrite the same rows, so the invariant follows
the checkout through `Scripts`: what each script has established of rows, portfolio,
dossiers and human actions at each place, until the commit makes it the branch's. The second
theorem states an action property: a changed portfolio or list of human actions comes from a
checkout whose last gate held for all of it.

**LanesProofs** is about the eight lanes of `MCLanes`. *MissionBridge* (any requests,
clients, replies): `BridgeTypeCorrect`, `ConsumedWasRepliedHolds`. The file alone does not
carry it: the invariant says of every text there is (the file, the temporary file, the copy
each command has read) that its answers are stored replies to their requests, and that a
handle on the temporary file means there is one. *MoltJobs* (any finite jobs and runs):
`MoltTypeCorrect`, `NoDoubleBidHolds`. As long as no runs overlapped and no bid was
forgotten, the only run under way knows every bid beside those of the file, and what it is
about to bid for is none of them. *AutonomyKernel* (any observations and cooldown):
`KernelTypeCorrect`, `RefreshIsNotStarvedHolds`. The bound alone is not inductive: the
invariant bounds the decisions waited for plus those that may still pass the refresh over
(`Pot`: those of the rest of the cooldown, then an attempt, unless it has just had no
effect), a potential that falls with every decision that is not excused. It rests on the
code's numbers: after the cooldown only `execution_attempt` is worth more than the refresh,
and not after one without effect. *Reconciliation* (any receipts and wallets, whatever they
held): `OutcomeTypeCorrect`, `RevenueIsReceivedHolds`. Wallets are read at different
moments, so neither the total nor the baseline is what they ever held together. The
invariant follows each wallet through the more of what it holds and what the run has read of
it (`Most`): their sum exceeds a baseline by no more than has arrived, since a payment
raises one of them by 1 and spending and reading raise none (`Bounds`). A first baseline is
either a total, and what wallets have gained since they were read (`Gain`) has arrived, or
the balance of the wallet that the monitor follows, and what the others hold (`Others`) has
arrived. *TestedSubmission* (any tasks, capabilities, policies): `TestedTypeCorrect`,
`OneOpenPullRequestHolds`. The branch of a pull request is that of its patch (`PullsFit`),
and GitHub refuses a second open one of a branch; so whatever receipts, workspaces and
packages the runs have lost or kept does not matter. *ExternalActions* (any queue of
prepared actions): `ActionsTypeCorrect`, `OneIssuePerCandidateHolds`. Only GitHub's issues
matter, for the marker is looked up there, among the newest `LookBack`; the type needs that
the approvals read out of an issue's comments (folds) are those of its candidate.
`LanesTypeCorrect`: whichever lane is in focus, its specification implies that of its
component, and the others stand still; so `MCLanes` has its type.

**OfficesProofs** is about the five offices of `MCOffices`. *ActionQueue* (any actions,
stops, runs, crashes): `QueueTypeCorrect`, `ClaimedOnceHolds`, `ClaimIsHeldHolds`,
`EarlyStopPreventsDossierHolds`. A run holds an action exactly between the loop of its query
and the end of that action; what can still be claimed never has been, nor stopped; and an
action stopped early is listed by nobody, while the run that holds it still has its second
look ahead and will see the cancellation. *Deliverables* (any commands and candidates):
`DeliverablesTypeCorrect`, `CompletedIsProvenAlways`. The last of the commands on a
candidate to verify it finds the artifact whole, because nobody else is writing it; what it
then knows of the digest is in manifest and receipt. *Cycles* (any callers and cycles):
`CyclesTypeCorrect`, `AnswerIsStoredHolds`. A step either leaves an initiative's document
alone or writes the first one, so what was told remains what is stored; the local lane has a
document of its own. *MentorChat* (any requests, notes, calls): `MentorTypeCorrect`,
`PromptHoldsItsQuestionAlways`, `AcceptedReplyIsKeptAlways`. The messages behind a question
are counted as they arrive, so it is within the window as long as they are fewer; a call
that writes alone has read the message as it is. *Economics* (any missions, outcomes,
shares): `EconomicsTypeCorrect`, `PortfolioIsBoundedHolds`. With `d` for 100 times the sum
of the scores times the number of exploring missions, `d` times an amount exceeds the
mission's claim by half of `d` at most, and the claims sum up to `d` times the budget. It
uses that budgets are not negative (`reallocate` raises otherwise) and the missions finite.
The type rests on the ranks being 1 to the number of missions, each taken once, and on the
fold that launches by rank while slots are free. `OfficesTypeCorrect` is for `MCOffices`
what `LanesTypeCorrect` is for `MCLanes`.

**SelectionProofs** (any listings, scores, limits and histories): what three programs
select, in which the code sorts, merges and filters. *OpportunityRouter*:
`RouterTypeCorrect`, `UpstreamVerdictAlwaysHolds`. A decision is taken from the checks
recorded with it, and a merged record has failed what any copy of it has failed
(`RouterInv`). *PayableScout*: `ProspectTypeCorrect`, `PlaceAlwaysEarned`. The invariant
follows the prospects from the searches through groups and pool to what is written:
`GroupsFit`, `PoolFits`, `WrittenFits`, and `RegistryFits` for what the registry keeps from
earlier runs. *OpportunityRadar*: `RadarTypeCorrect`, `FrontierAlwaysShowsBestHits`. The
hits of the run under way are the best of those seen so far (`RunFits`, `BestOf`), which a
page read late must not undo.

**SumTheorems** holds the lemmas on data that the other modules cite. A property cannot be a
parameter of a lemma here, but a set can: `Climbs` says that a set of numbers with 0 and all
successors is Nat (from the library's `WFMin`), and `Grows` that a set of subsets with `{}`
and all additions of an element holds the whole. From these, three theories. *Sums* over
finite sets (`MapThenSumSet`), as a function `f` of their elements: the recursion has one
solution (`FoldExists`, `FoldsAgree`), it does not matter which element is taken first
(`SumTakes`), and sums compare, add up, scale, count and leave out zeros like their terms.
*Folds*: `FoldRuns` and `FoldTrace` give the intermediate results of a `FoldLeft`, so that
what holds of the first and is kept by each step holds of the last. *Ranks*: the number of
elements that a strict order puts before one is injective and takes each value below the
size of the set (`RanksClimb`, `RanksFill`). The models therefore state a sort as a rank by
count and a filter as a fold: what they return is the same, and it can be reasoned about,
whereas no lemma can take the comparison of `SortSeq` as a parameter.

**ScoutsProofs** is about five components of `MCScouts`. *SourceScans* (any listings, cards,
pages and failures): `ScansTypeCorrect`, `CleanScanAlwaysComplete`. That a clean scan
reports every acceptable card is known only at its end; the invariant (`ScanPhases`,
`ScanBounds`, `ScanComplete`) says that a scan that nothing disturbed has a row for each
acceptable card of the pages it has read, or has still to open a card of that card's listing
that is not refused. For Truelancer it needs `ScansAssumption`: cards of one listing agree
on what its detail page is missing. *BountyBookSubmission* (any attempts and restarts):
`SubmissionTypeCorrect`, `SubmittedOncePerOpeningHolds`. An open or claimed job has no
submission in its opening, a run past the preflight finds the job open or another's, and one
about to submit holds a claimed job. *AgentPactOffers* (any catalogue and limit):
`OffersTypeCorrect`, `OfferCapHoldsAlways`. What the ladder has counted plus what it could
not count is what the platform has, at most. *TaskForce* (any tasks, scores, runs):
`SniperTypeCorrect`, `KnownTaskIsNotAppliedAgainHolds`. A run that may still apply for a
task counts as an application to come; those and the applications made are no more than the
runs started, since a ranking names no task twice. A task with an application is excused, in
the file, or in the hands of the run that applied. *CapabilityMarket* (any missions, scores
and limits): `CapabilitiesTypeCorrect`, `OneIssuePerMarkerHolds`. The type needs that the
sorts of gaps, plans and backlog place each item they are given: `ByPriority`,
`ClusterPrecedes` within a lane and `ItemBefore` are strict orders (`GapsOrder`,
`PlansOrder`, `ItemsOrder`), so `RanksFill` applies. It uses that clusters of a lane differ
in capability or family. For the issues, `MarkedInv` says that an issue is either in a
receipt of the branch or of the run under way, or marked as without one (`OnRecord`), and
that a run holds the receipts of the branch: so an issue whose marker has another is created
only where that one has no receipt and is not in the index. `ScoutsTypeCorrect` is for
`MCScouts` what `LanesTypeCorrect` is for `MCLanes`, with the theorems of *SelectionProofs*.

What the theorems assume of the constants is named in the modules that declare them: sets
of listings, tasks, missions, capabilities and works are finite where the code counts or
sorts them; scores, worths and limits are numbers; capability ids and listings are in a
strict order; `Score`, `MaxApplies`, the slots of a portfolio and the like are what the code's
constants and parsers can give. 

Every invariant and every action property of the passing runs is thereby stated by a theorem.
Model-checked only:

* liveness: `DelegatedIsDecided`, because the prover does not handle fairness;
* that the properties of the seven other runs are violated: a counterexample is TLC's, and
  `QueuedIsClaimed` among them is a liveness property as well;
* that every action happens: the theorems say nothing of whether a guard can be met (no
  ENABLED), the runs show that each can.

## 7. Not modelled, and why

* *Controlled connector executor, action authorization*: nothing outside the tests calls
  them, so there is no adapter whose effects could be modelled.
* *Cash-first recovery, multi-model monetization, opportunity reports, learning and
  diagnosis, dashboards*: each rebuilds a report from other result files in one sequential
  run, with fixed weights; nothing reads it back into a decision that acts.
* *Engineering adapter, venture builder, live missions*: one process, a bounded plan or a
  subprocess, no state shared with anything.
* *Memory and experience*: independent inserts and token scoring.
* *Wallet identities*: keys and signatures are outside a behavioural model.
* *Earlier chats, tutor bridge, browser*: the deployed entry point is `louis_chat_v8`; the tutor
  bridge is one poll of an API, the browser a sequence of pages.
* *One-off deployments and probes*: run once, by hand.

In the modelled parts: rendering, sessions and read-only routes of the server; heartbeats
and capacity reports of the worker; the French wording of chat commands; rate limits of
MCP; repeated external ids of economic outcomes; the validator of the workflow files.

## 8. What could follow

The programs of each MC module share no variable: a file that one writes and another reads
is written by an action of the reader's environment (`WriteFeed` of the router), by any
value that the writer might have left. Composing writer and reader would let the theorems on
both be cited together.
