------------------------------ MODULE SourceScans ------------------------------
(* One collect() of a public market adapter: which fetches it makes, in which      *)
(* order, what one of them failing costs, and what the SourceState says of it all. *)
(* The feeds (Superteam, BountyBook, AgentPact, MoltJobs) are one document.        *)
(* Freelancer, Guru, Algora and GitHub read several pages and merge what they      *)
(* find; Opire and USA.gov read an index and then each page it links; Truelancer   *)
(* reads pages and then the details of what they list.                             *)
(*                                                                                 *)
(* An item is a card: the listing it is about, a rank (its bids, or its reward     *)
(* where the adapter compares rewards), the price it displays, and the first thing *)
(* that is wrong with it, "" when nothing is. An adapter that does not look at     *)
(* that thing takes the card. What comes out of regular expressions, and the text  *)
(* of evidence and metadata, is left out.                                          *)
EXTENDS Naturals, Sequences, FiniteSets, SequencesExt

CONSTANTS
  Adapters,        \* the adapters looked at, of the names below
  CardsOf(_),      \* adapter -> the cards its pages can show
  PageSize,        \* bound: cards on one page
  PageCount,       \* directory_urls, category_urls, handles, queries: pages of one scan
  MaximumResults,  \* maximum_results, maximum_details, maximum_challenges
  MaximumChecks,   \* FreelancerPublicJobsSource.maximum_detail_checks
  MaximumBudget,   \* FreelancerPublicJobsSource.maximum_budget
  Multiplier       \* _FREELANCER_BUDGET_LIMIT_MULTIPLIER, a function of the currency symbol

VARIABLES
  scan,   \* the collect() that runs
  shown   \* history: the pages as the market had them, reached or not

scanning == <<scan, shown>>

FeedNames == {"superteam", "bountybook", "agentpact", "moltjobs"}
PageNames == {"freelancer", "guru", "algora", "github", "truelancer"}
LinkNames == {"opire", "usagov"}

Pages(a) == UNION {[1 .. n -> CardsOf(a)] : n \in 0 .. PageSize}

ScanInit ==
  /\ scan \in [adapter : Adapters, phase : {"pages"}, rows : {<<>>}, todo : {<<>>},
               errors : {0}, unreadable : {0}, hidden : {FALSE}, cut : {FALSE}, status : {"none"}]
  /\ shown = <<>>

(* What each adapter looks at, in the order of its tests.                           *)
SuperteamRefuses  == {"ineligible", "closed", "bad_deadline", "expired", "fields", "unsafe"}
BountyBookRefuses == {"closed", "bad_deadline", "expired", "fields", "unsafe", "unfunded"}
AgentPactRefuses  == {"closed", "fields", "unsafe"}
MoltJobsRefuses   == {"closed", "bad_deadline", "no_deadline", "expired", "fields", "unsafe",
                      "unfunded", "unproven"}
GuruRefuses       == {"fields", "contested", "expired", "unproven", "unsafe", "scope", "budget"}
AlgoraRefuses     == {"fields", "budget", "contested", "unsafe"}
OpireRefuses      == {"fields", "closed", "budget", "contested", "unsafe"}
UsaGovRefuses     == {"fields"}
TruelancerLists   == {"fields", "budget", "contested", "stale", "unsafe", "scope", "forbidden"}
TruelancerDetail  == {"closed", "unproven"}
GitHubRefuses     == {"closed", "fields", "unsafe", "assigned", "unproven", "contested", "budget"}

(* Bounds are positive, and every card of a task that its own page closes or leaves   *)
(* unproven has that flaw, unless it has another one, or its page cannot be read.     *)
ASSUME ScansAssumption ==
  /\ Adapters \subseteq FeedNames \cup PageNames \cup LinkNames
  /\ PageCount \in Nat \ {0} /\ MaximumResults \in Nat \ {0} /\ MaximumChecks \in Nat
  /\ PageSize \in Nat
  /\ \A c, d \in CardsOf("truelancer") :
       c.listing = d.listing /\ d.flaw \in TruelancerDetail
         => c.flaw \in TruelancerLists \cup TruelancerDetail \cup {"unread"}

Accept(kept, c, refuses) == IF c.flaw \in refuses THEN kept ELSE Append(kept, c)
Accepted(cards, refuses) == FoldLeft(LAMBDA kept, c : Accept(kept, c, refuses), <<>>, cards)
HoldsListing(cards, c) == \E i \in DOMAIN cards : cards[i].listing = c.listing

(* A page that links a listing twice is read at the first link.                     *)
Link(kept, c) == IF HoldsListing(kept, c) THEN kept ELSE Append(kept, c)
FirstLinks(cards) == FoldLeft(Link, <<>>, cards)

(* One document: items that are no objects were dropped on the way, and one item    *)
(* that raises in its parser fails the scan with nothing.                           *)
FeedRows(cards, refuses) ==
  LET sound == Accepted(cards, refuses \cup {"record"})
      rows  == FirstLinks(sound)
  IN IF Len(rows) > MaximumResults THEN SubSeq(rows, 1, MaximumResults) ELSE rows

(* The items looked at before maximum_results rows were found.                      *)
ReadItems(cards, refuses) ==
  {i \in DOMAIN cards : Len(FeedRows(SubSeq(cards, 1, i - 1), refuses)) < MaximumResults}

Raises(cards, refuses) == \E i \in ReadItems(cards, refuses) : cards[i].flaw = "raises"

Full(rows) == Len(rows) >= MaximumResults

EndFeed(cards, rows, status) ==
  /\ shown' = Append(shown, cards)
  /\ scan' = [scan EXCEPT !.phase = "done", !.rows = rows, !.status = status, !.cut = Full(rows)]

FeedFails(cards) == EndFeed(cards, <<>>, "failed")

ReadFeed(name, refuses, Status(_, _)) ==
  /\ scan.adapter = name /\ scan.phase = "pages"
  /\ \E cards \in Pages(name) :
       \/ FeedFails(cards)
       \/ /\ Raises(cards, refuses)
          /\ FeedFails(cards)
       \/ /\ ~Raises(cards, refuses)
          /\ LET rows == FeedRows(cards, refuses) IN EndFeed(cards, rows, Status(rows, cards))

OkOrEmpty(rows, cards) == IF rows = <<>> THEN "empty" ELSE "ok"

ScanSuperteam == ReadFeed("superteam", SuperteamRefuses, OkOrEmpty)

(* Without the key of the agent API nothing is fetched.                             *)
SuperteamGated ==
  /\ scan.adapter = "superteam" /\ scan.phase = "pages"
  /\ scan' = [scan EXCEPT !.phase = "done", !.status = "credential_gated"]
  /\ UNCHANGED shown

ScanBountyBook == ReadFeed("bountybook", BountyBookRefuses, OkOrEmpty)

(* Needs are leads without a funded escrow, so a scan that finds some is partial.   *)
ScanAgentPact ==
  ReadFeed("agentpact", AgentPactRefuses,
           LAMBDA rows, cards : IF rows = <<>> THEN "empty" ELSE "partial")

(* Only MoltJobs counts what it could not read.                                     *)
Unreadable == {"record", "bad_deadline", "no_deadline", "fields"}
MoltJobsStatus(rows, cards) ==
  CASE \A i \in ReadItems(cards, MoltJobsRefuses) : cards[i].flaw \notin Unreadable ->
         OkOrEmpty(rows, cards)
    [] OTHER -> IF rows = <<>> THEN "failed" ELSE "partial"
ScanMoltJobs == ReadFeed("moltjobs", MoltJobsRefuses, MoltJobsStatus)

(* Which card of a listing is kept: the one with fewer bids, with the larger reward,   *)
(* the last one read or the first.                                                  *)
Better(order, new, old) ==
  CASE order = "competition" -> new.rank < old.rank
    [] order = "reward"      -> new.rank > old.rank
    [] order = "latest"      -> TRUE
    [] order = "earliest"    -> FALSE

Merge(rows, c, order) ==
  IF HoldsListing(rows, c)
  THEN [i \in DOMAIN rows |->
          IF rows[i].listing = c.listing /\ Better(order, c, rows[i]) THEN c ELSE rows[i]]
  ELSE Append(rows, c)

(* The loop over a page's items breaks when the limit is reached, after the item    *)
(* that it has just put: a later page still puts one.                               *)
Put(acc, c, order) ==
  IF acc.full THEN acc
  ELSE [rows |-> Merge(acc.rows, c, order), full |-> Full(Merge(acc.rows, c, order))]
MergePage(rows, cards, order) ==
  FoldLeft(LAMBDA acc, c : Put(acc, c, order), [rows |-> rows, full |-> FALSE], cards).rows

MergeAll(rows, cards, order) == FoldLeft(LAMBDA acc, c : Merge(acc, c, order), rows, cards)

(* One page of several: it is lost as a whole, or its items are put.                *)
NextPage(name, cards) ==
  /\ scan.adapter = name /\ scan.phase = "pages"
  /\ Len(shown) < PageCount
  /\ shown' = Append(shown, cards)

PageFails == scan' = [scan EXCEPT !.errors = @ + 1]

(* FreelancerPublicJobsSource: the card, and the page of a listing whose card does  *)
(* not show an acceptable budget but shows days left and few bids.                  *)
FitsCard(c) == c.price.maximum <= MaximumBudget
FreelancerCard(c) == c.flaw \in {"", "unread", "closed"} /\ FitsCard(c)
DetailGate(c) == c.flaw \in {"", "no_budget", "unread", "closed"}
FitsDetail(c) ==
  c.price.maximum <= MaximumBudget * Multiplier[c.price.symbol] * Multiplier[c.price.symbol]
FreelancerDetail(c) == c.flaw \in {"", "no_budget"} /\ FitsDetail(c)

LookAt(acc, c) ==
  IF FreelancerCard(c) THEN [acc EXCEPT !.rows = Append(@, c)]
  ELSE IF ~DetailGate(c) THEN acc
  ELSE IF acc.checks >= MaximumChecks THEN [acc EXCEPT !.cut = TRUE]
  ELSE [rows   |-> IF FreelancerDetail(c) THEN Append(acc.rows, c) ELSE acc.rows,
        checks |-> acc.checks + 1,
        hidden |-> acc.hidden \/ c.flaw = "unread",
        cut    |-> acc.cut]
FreelancerPage(cards) ==
  FoldLeft(LookAt, [rows |-> <<>>, checks |-> 0, hidden |-> FALSE, cut |-> FALSE],
           FirstLinks(cards))

ScanFreelancer ==
  \E cards \in Pages("freelancer") :
    /\ NextPage("freelancer", cards)
    /\ \/ PageFails
       \/ LET page == FreelancerPage(cards)
              rows == MergePage(scan.rows, page.rows, "competition")
          IN scan' = [scan EXCEPT !.rows = rows, !.hidden = @ \/ page.hidden,
                                  !.cut = @ \/ page.cut \/ Full(rows)]

(* GuruPublicJobsSource: one card with a date that does not exist raises, and its   *)
(* page is lost although the other cards were read.                                 *)
GuruPage(cards) == Accepted(FirstLinks(cards), GuruRefuses)
ScanGuru ==
  \E cards \in Pages("guru") :
    /\ NextPage("guru", cards)
    /\ \/ PageFails
       \/ \E i \in DOMAIN FirstLinks(cards) : FirstLinks(cards)[i].flaw = "raises" /\ PageFails
       \/ /\ \A i \in DOMAIN FirstLinks(cards) : FirstLinks(cards)[i].flaw # "raises"
          /\ LET rows == MergePage(scan.rows, GuruPage(cards), "competition")
             IN scan' = [scan EXCEPT !.rows = rows, !.cut = @ \/ Full(rows)]

(* AlgoraPublicSource: a board per reviewed handle; the larger reward is kept.      *)
ScanAlgora ==
  \E cards \in Pages("algora") :
    /\ NextPage("algora", cards)
    /\ \/ PageFails
       \/ scan' = [scan EXCEPT !.rows = MergeAll(@, Accepted(cards, AlgoraRefuses), "reward")]

(* GitHubRewardIssueSource: the comments of every open issue are fetched; an issue   *)
(* whose comments cannot be read is not a reward, and nothing says so. An item that  *)
(* raises ends its query, and keeps what the query had already put.                  *)
IssuesRead(cards) == {i \in DOMAIN cards : \A j \in 1 .. i : cards[j].flaw # "raises"}
GitHubIssue(cards) ==
  Accepted(SubSeq(cards, 1, Cardinality(IssuesRead(cards))), GitHubRefuses \cup {"unread"})
ScanGitHub ==
  \E cards \in Pages("github") :
    /\ NextPage("github", cards)
    /\ ~Full(scan.rows)
    /\ \/ PageFails
       \/ LET rows == MergePage(scan.rows, GitHubIssue(cards), "latest")
          IN scan' = [scan EXCEPT
               !.rows = rows,
               !.hidden = @ \/ \E i \in IssuesRead(cards) : cards[i].flaw = "unread",
               !.errors = IF IssuesRead(cards) # DOMAIN cards /\ ~Full(rows) THEN @ + 1 ELSE @,
               !.cut = @ \/ Full(rows)]

(* TruelancerPublicJobsSource: the pages give candidates, the first maximum_details *)
(* of them are opened.                                                              *)
TruelancerPage(cards) == Accepted(FirstLinks(cards), TruelancerLists)
ScanTruelancer ==
  \E cards \in Pages("truelancer") :
    /\ NextPage("truelancer", cards)
    /\ \/ PageFails
       \/ scan' = [scan EXCEPT !.todo = MergeAll(@, TruelancerPage(cards), "earliest")]

Limited(cards) == IF Len(cards) > MaximumResults THEN SubSeq(cards, 1, MaximumResults) ELSE cards

OpenTruelancer ==
  /\ scan.adapter = "truelancer" /\ scan.phase = "pages" /\ Len(shown) = PageCount
  /\ scan' = [scan EXCEPT !.phase = "details", !.todo = Limited(@),
                          !.cut = Len(scan.todo) > MaximumResults]
  /\ UNCHANGED shown

(* OpirePublicSource and USAGovChallengeSource: without the index there is nothing   *)
(* to open, and the scan fails at once.                                              *)
IndexFails == scan' = [scan EXCEPT !.phase = "done", !.status = "failed"]
ScanIndex(name) ==
  \E cards \in Pages(name) :
    /\ NextPage(name, cards) /\ shown = <<>>
    /\ \/ IndexFails
       \/ LET links == FirstLinks(cards)
          IN scan' = [scan EXCEPT !.phase = "details", !.todo = Limited(links),
                                  !.cut = Len(links) > MaximumResults]
ScanOpire  == ScanIndex("opire")
ScanUsaGov == ScanIndex("usagov")

OpenDetail(name, refuses) ==
  /\ scan.adapter = name /\ scan.phase = "details" /\ scan.todo # <<>>
  /\ LET c == Head(scan.todo)
     IN scan' = [scan EXCEPT
          !.todo = Tail(@),
          !.errors = IF c.flaw = "unread" THEN @ + 1 ELSE @,
          !.rows = IF c.flaw \in refuses \cup {"unread"} THEN @ ELSE Append(@, c)]
  /\ UNCHANGED shown
OpireDetail  == OpenDetail("opire", OpireRefuses)
UsaGovDetail == OpenDetail("usagov", UsaGovRefuses)
CheckTruelancer == OpenDetail("truelancer", TruelancerLists \cup TruelancerDetail)

(* The SourceState of the adapters that collect errors.                              *)
AllPagesRead ==
  \/ Len(shown) = PageCount
  \/ scan.adapter = "github" /\ Full(scan.rows)
StatusIgnoresErrors(rows, errors) ==
  IF rows # <<>> THEN "ok" ELSE IF errors > 0 THEN "failed" ELSE "empty"
StatusOf(rows, errors) ==
  CASE errors > 0 /\ rows # <<>> -> "partial"
    [] errors > 0 /\ rows = <<>> -> "failed"
    [] errors = 0 /\ rows # <<>> -> "ok"
    [] errors = 0 /\ rows = <<>> -> "empty"
Kept(a, rows) == IF a = "algora" THEN rows ELSE Limited(rows)
Finish ==
  /\ \/ /\ scan.adapter \in PageNames \ {"truelancer"} /\ scan.phase = "pages" /\ AllPagesRead
     \/ scan.phase = "details" /\ scan.todo = <<>>
  /\ scan' = [scan EXCEPT !.phase = "done", !.rows = Kept(scan.adapter, @),
                          !.status = StatusOf(Kept(scan.adapter, scan.rows), scan.errors)]
  /\ UNCHANGED shown

ScansNext ==
  \/ ScanSuperteam \/ SuperteamGated \/ ScanBountyBook \/ ScanAgentPact \/ ScanMoltJobs
  \/ ScanFreelancer \/ ScanGuru \/ ScanAlgora \/ ScanGitHub
  \/ ScanTruelancer \/ OpenTruelancer \/ CheckTruelancer
  \/ ScanOpire \/ ScanUsaGov \/ OpireDetail \/ UsaGovDetail
  \/ Finish

ScanStates == {"ok", "empty", "partial", "failed", "credential_gated"}
ScansTypeOK ==
  /\ scan.adapter \in Adapters
  /\ scan.phase \in {"pages", "details", "done"}
  /\ \A i \in DOMAIN scan.rows : scan.rows[i] \in CardsOf(scan.adapter)
  /\ \A i \in DOMAIN scan.todo : scan.todo[i] \in CardsOf(scan.adapter)
  /\ scan.errors \in 0 .. PageCount + MaximumResults
  /\ scan.hidden \in BOOLEAN /\ scan.cut \in BOOLEAN
  /\ scan.status \in ScanStates \cup {"none"}
  /\ (scan.status # "none") <=> (scan.phase = "done")
  /\ Len(shown) <= PageCount

Finished(states) == scan.phase = "done" /\ scan.status \in states

(* The cards of a page that its adapter would take, had it read them. A page of      *)
(* links is judged by the first link to each listing, a document by every item.      *)
Refuses ==
  [superteam |-> SuperteamRefuses, bountybook |-> BountyBookRefuses, agentpact |-> AgentPactRefuses,
   moltjobs |-> MoltJobsRefuses, guru |-> GuruRefuses, algora |-> AlgoraRefuses,
   opire |-> OpireRefuses, usagov |-> UsaGovRefuses, github |-> GitHubRefuses,
   truelancer |-> TruelancerLists \cup TruelancerDetail]
Takes(a, c) ==
  IF a = "freelancer" THEN FreelancerCard(c) \/ (DetailGate(c) /\ FreelancerDetail(c))
  ELSE c.flaw \notin Refuses[a] \cup {"record", "raises", "unread"}
Judged(a, cards) == IF a \in FeedNames \cup {"algora", "github"} THEN cards ELSE FirstLinks(cards)
Acceptable(p) == {c \in Range(Judged(scan.adapter, shown[p])) : Takes(scan.adapter, c)}

(* A scan that reports neither a failure nor a partial result has missed nothing:   *)
(* every listing that its pages showed and that it accepts has a row, unless a       *)
(* limit stopped it or a detail page could not be read (of which the state says      *)
(* nothing). The states decide which sources are paused and replaced.               *)
CleanScanIsComplete ==
  Finished({"ok", "empty"}) /\ ~scan.hidden /\ ~scan.cut =>
    \A p \in DOMAIN shown : \A c \in Acceptable(p) : HoldsListing(scan.rows, c)
===============================================================================
