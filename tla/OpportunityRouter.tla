--------------------------- MODULE OpportunityRouter ---------------------------
(* The router of internet opportunities: seven result files, which other workflows *)
(* write each in its own time, hold several copies of one listing, raw and          *)
(* classified; the router keeps the best copy of each, samples the sources, applies *)
(* the registry of rejections, decides each copy and selects one. The bridge puts   *)
(* TaskForce's rows into the universal file before it.                              *)
(*                                                                                 *)
(* A copy is a listing (its source_url without the last slash, which every copy of   *)
(* a catalog carries) and the facts the decisions use; domains, lanes, scores of      *)
(* rejected rows and the report's counts are left out.                               *)
EXTENDS Naturals, Sequences, FiniteSets, SequencesExt

CONSTANTS
  Files,         \* INPUT_PATHS: a sequence of file names, "universal" among them
  RowsIn(_),   \* file -> the copies it can hold
  FileSize,      \* bound: copies in one file
  MaxRewrites,   \* bound: how often a file is written
  SourceOrder,   \* the source ids, sorted
  MaxItems,      \* MAX_ITEMS_TOTAL
  MaxPerSource,  \* MAX_ITEMS_PER_SOURCE
  PauseAt,       \* 50 results of sources without an eligible row
  ShiftAt,       \* 30 rejected rows and no candidate
  Banned         \* listings in persistent_opportunity_rejections.json

VARIABLES
  feeds,     \* file -> its copies
  taskforce, \* the copies of taskforce_market.json
  routed,    \* what the last cycle wrote: the rows it saw, its choice, its pivot
  rewrites

routing == <<feeds, taskforce, routed, rewrites>>

Verdicts  == {"none", "capability_build", "prepare_then_gate", "executable_now", "rejected"}
Decisions == {"execute_now", "prepare_then_gate", "capability_build", "reject"}
Nothing   == [listing |-> "nothing"]

ASSUME RouterAssumption ==
  /\ Files \in Seq(STRING) /\ "universal" \in Range(Files) /\ SourceOrder \in Seq(STRING)
  /\ {FileSize, MaxRewrites, MaxItems, MaxPerSource} \subseteq Nat
  /\ \A f \in Range(Files) \cup {"taskforce"} : \A c \in RowsIn(f) :
       {"listing", "verdict", "open"} \subseteq DOMAIN c /\ c.verdict \in Verdicts

Contents(S) == UNION {[1 .. n -> S] : n \in 0 .. FileSize}
TaskForceRows == RowsIn("taskforce")
NotRouted == [rows |-> <<>>, pool |-> <<>>, selected |-> Nothing, pivot |-> "none"]

RouterInit ==
  /\ feeds = [f \in Range(Files) |-> <<>>]
  /\ taskforce = <<>>
  /\ routed = NotRouted
  /\ rewrites = 0

(* Another workflow writes one of the files, whole.                                 *)
WriteFeed ==
  /\ rewrites < MaxRewrites
  /\ rewrites' = rewrites + 1
  /\ \/ \E f \in Range(Files) : \E copies \in Contents(RowsIn(f)) :
          feeds' = [feeds EXCEPT ![f] = copies] /\ UNCHANGED taskforce
     \/ taskforce' \in Contents(TaskForceRows) /\ UNCHANGED feeds
  /\ routed' = NotRouted

Known(rows, c) == \E i \in DOMAIN rows : rows[i].listing = c.listing

(* The bridge: rows are added once by their id, taken as open, never removed or      *)
(* renewed by it.                                                                   *)
Bridged(rows, c) == IF Known(rows, c) THEN rows ELSE Append(rows, [c EXCEPT !.open = TRUE])
Bridge(rows, tasks) == FoldLeft(LAMBDA acc, c : Bridged(acc, c), rows, tasks)
BridgeTaskForce ==
  /\ routed' = NotRouted
  /\ feeds' = [feeds EXCEPT !["universal"] = Bridge(@, taskforce)]
  /\ UNCHANGED <<taskforce, rewrites>>

(* extract_items: which of two copies of a listing is kept.                          *)
Decided(c) == IF c.verdict = "none" THEN 0 ELSE 1
LongerCopy(new, old) ==
  \/ new.words > old.words
  \/ new.words = old.words /\ new.proof > old.proof
BetterCopy(new, old) ==
  \/ Decided(new) > Decided(old)
  \/ Decided(new) = Decided(old) /\ LongerCopy(new, old)

(* A dictionary of listings: a better copy takes the place of the one that is there.  *)
PutCopy(kept, c) ==
  IF Known(kept, c)
  THEN [k \in DOMAIN kept |->
          IF kept[k].listing = c.listing /\ BetterCopy(c, kept[k]) THEN c ELSE kept[k]]
  ELSE Append(kept, c)
Dedupe(rows) == FoldLeft(LAMBDA kept, c : PutCopy(kept, c), <<>>, rows)

Walked(files) == FoldLeft(LAMBDA all, f : all \o files[f], <<>>, Files)
Copies == Walked(feeds)

(* One row of each source in turn, until there are enough, a source has given its     *)
(* share or all have given what they have.                                          *)
Grouped(pool, s) ==
  FoldLeft(LAMBDA of, c : IF c.source = s THEN Append(of, c) ELSE of, <<>>, pool)
Round(selected, pool, n) ==
  FoldLeft(LAMBDA acc, s :
             IF n <= Len(Grouped(pool, s)) /\ Len(acc) < MaxItems
             THEN Append(acc, Grouped(pool, s)[n]) ELSE acc, selected, SourceOrder)
RoundRobin(pool) ==
  FoldLeft(LAMBDA selected, n : Round(selected, pool, n), <<>>, [n \in 1 .. MaxPerSource |-> n])

PersistentlyRejected(c) == IF c.listing \in Banned THEN [c EXCEPT !.verdict = "rejected"] ELSE c

(* normalize_candidate: a row the universal engine found executable or ready for a    *)
(* gate keeps that fit; another one's fit is read off its words.                     *)
Fits(c) == c.verdict \in {"executable_now", "prepare_then_gate"} \/ c.fit

Route(c) ==
  LET blocked == ~c.open \/ ~c.sound \/ c.verdict = "rejected"
      wanted  == CASE blocked -> "reject"
                   [] ~blocked /\ Fits(c) /\ c.effort = "short" /\ c.humans = 0 -> "execute_now"
                   [] ~blocked /\ Fits(c) /\ c.effort = "short" /\ c.humans = 1 -> "prepare_then_gate"
                   [] OTHER -> IF c.effort = "over" THEN "reject" ELSE "capability_build"
  IN IF c.verdict = "capability_build" /\ wanted \in {"execute_now", "prepare_then_gate"}
     THEN "capability_build" ELSE wanted

Rank(d) == CASE d = "execute_now" -> 3 [] d = "prepare_then_gate" -> 2
             [] d = "capability_build" -> 1 [] d = "reject" -> 0
Eligible(d) == d \in {"execute_now", "prepare_then_gate"}

(* route_all and the choice: the row of the cash-first portfolio's top if it is       *)
(* eligible, or else the first of the best decision and, within it, the best score.  *)
Outranks(rows, i, j) ==
  LET p == Rank(rows[i].decision)
      q == Rank(rows[j].decision)
      s == rows[i].copy.worth
      t == rows[j].copy.worth
  IN p > q \/ (p = q /\ s > t) \/ (p = q /\ s = t /\ i < j)

Select(rows, top) ==
  LET eligible  == {i \in DOMAIN rows : Eligible(rows[i].decision)}
      canonical == {i \in eligible : rows[i].copy.listing = top}
      first(S)  == CHOOSE i \in S : \A j \in S \ {i} : Outranks(rows, i, j)
  IN CASE canonical # {} -> rows[first(canonical)].copy
       [] canonical = {} /\ eligible # {} -> rows[first(eligible)].copy
       [] OTHER -> Nothing

(* next_pivot, on what the market and the receipt of the simple missions say.         *)
Signals == {"paid", "unanswered", "unconverted", "unreplaced"}
Pivot(rows, signals) ==
  LET eligibleSources == {rows[i].copy.source : i \in {j \in DOMAIN rows : Eligible(rows[j].decision)}}
      idle  == Cardinality({i \in DOMAIN rows : rows[i].copy.source \notin eligibleSources})
      dead  == IF eligibleSources = {}
               THEN Cardinality({i \in DOMAIN rows : rows[i].decision = "reject"}) ELSE 0
  IN CASE "unreplaced" \in signals -> "activate_authorized_replacement_source"
       [] "unreplaced" \notin signals /\ "paid" \in signals -> "expand_similar_searches"
       [] signals \cap {"unreplaced", "paid"} = {} /\ "unanswered" \in signals ->
            "change_offer_or_message"
       [] signals = {"unconverted"} -> "change_scope_price_or_acceptance_terms"
       [] OTHER -> IF idle >= PauseAt THEN "pause_source_and_replace"
                   ELSE IF dead >= ShiftAt THEN "regenerate_queries_and_shift_domain"
                   ELSE "continue_measured_search"

RoutedRows(pool) ==
  LET judged == [i \in DOMAIN pool |-> PersistentlyRejected(pool[i])]
  IN [i \in DOMAIN judged |-> [copy |-> judged[i], decision |-> Route(judged[i])]]

RouteCycle ==
  /\ \E pool \in {Dedupe(Copies)} : \E rows \in {RoutedRows(RoundRobin(pool))} :
       \E top \in {pool[i].listing : i \in DOMAIN pool} \cup {"nothing"}, signals \in SUBSET Signals :
         routed' = [rows |-> rows, pool |-> pool, selected |-> Select(rows, top),
                    pivot |-> Pivot(rows, signals)]
  /\ UNCHANGED <<feeds, taskforce, rewrites>>

RouterNext == WriteFeed \/ BridgeTaskForce \/ RouteCycle
RouterSpec == RouterInit /\ [][RouterNext]_routing

RouterTypeOK ==
  /\ \A f \in Range(Files) : \A i \in DOMAIN feeds[f] :
       feeds[f][i] \in RowsIn(f) \cup {[c EXCEPT !.open = TRUE] : c \in TaskForceRows}
  /\ \A i \in DOMAIN routed.rows : routed.rows[i].decision \in Decisions
  /\ \A i \in DOMAIN routed.rows : routed.rows[i].copy.verdict \in Verdicts
  /\ Len(routed.rows) <= MaxItems
  /\ rewrites \in 0 .. MaxRewrites

(* internet_opportunity_router_cycle.py:238 and :290: a listing that the market has   *)
(* classified, and never as ready, is not presented as executable or ready for its    *)
(* gate because a raw catalog holds another copy of it that looks better; and one in  *)
(* the registry of rejections is not, whatever the catalogs say.                     *)
Ready(c) == c.verdict \in {"executable_now", "prepare_then_gate"}
UpstreamVerdictHolds ==
  \A i \in DOMAIN routed.rows :
    LET l      == routed.rows[i].copy.listing
        judged == {j \in DOMAIN Copies : Copies[j].listing = l /\ Copies[j].verdict # "none"}
    IN \/ ~Eligible(routed.rows[i].decision)
       \/ /\ l \notin Banned
          /\ judged = {} \/ \E j \in judged : Ready(Copies[j])
===============================================================================
