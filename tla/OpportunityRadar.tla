---------------------------- MODULE OpportunityRadar ----------------------------
(* global_opportunity_radar.py: a run asks GitHub and Hacker News, crawls seed pages,  *)
(* opens one linked page of each new domain, and ranks the best hit of every URL. Its  *)
(* workflow commits the file, which is rewritten only when a fingerprint of its first   *)
(* records differs from that of the file in the checkout.                              *)
(* A hit is [url, title, score, money, gate, text]: its score, the sum that its text    *)
(* names, whether a person may be asked for, and its excerpt. What add_record refuses    *)
(* (no sign of paid work, unsafe, a low score) is no hit, and scores are data.          *)
EXTENDS Naturals, Sequences, FiniteSets, SequencesExt

CONSTANTS
  Found,           \* the hits that a search can return
  Rounds,          \* the number of GitHub and Hacker News queries
  PerRound,        \* bound: hits of one query
  Seeds,           \* SEED_URLS, a sequence
  Titles,          \* the titles of hits
  Order,           \* [url -> [title -> place]]: by domain, then by title
  DomainOf,        \* [url -> domain]
  LinksOf,         \* [seed -> the links of its page], a sequence
  Suggests,        \* urls that hold a term of paid work
  HitsOf,          \* [page -> the hits its text can make]
  MaxDomains,      \* MAX_DISCOVERED_DOMAINS
  MaxExpanded,     \* MAX_EXPANDED_PAGES
  MaxRecords,      \* MAX_RECORDS
  FingerprintSize, \* the 80 records that fingerprint looks at
  MaxRadarRuns     \* bound: runs

VARIABLES
  radar,     \* the run
  frontier,  \* global_opportunity_radar.json on the branch: the ranked hits
  radarRuns

searching == <<radar, frontier, radarRuns>>

(* The urls and the hits there can be. No two urls share a domain and a title: rows that  *)
(* tie keep the order of their discovery, which is not kept here.                       *)
Urls == DOMAIN DomainOf
Hits == [url : Urls, title : Titles, score : Nat, money : STRING, gate : BOOLEAN, text : STRING]
ASSUME RadarAssumption ==
  /\ {PerRound, MaxDomains, MaxExpanded, MaxRecords, FingerprintSize, MaxRadarRuns} \subseteq Nat
  /\ Rounds \in Nat \ {0}
  /\ Order \in [Urls -> [Titles -> Nat]]
  /\ \A u, v \in Urls, s, t \in Titles : Order[u][s] = Order[v][t] => u = v
  /\ Found \subseteq Hits /\ HitsOf \in [Urls -> SUBSET Hits]
  /\ Seeds \in Seq(Urls) /\ \A s \in Range(Seeds) : LinksOf[s] \in Seq(Urls)

NoRadar == [phase |-> "idle", round |-> 0, seed |-> 0, records |-> {}, heard |-> {},
            domains |-> <<>>, queue |-> <<>>, opened |-> <<>>]

RadarInit == radar = NoRadar /\ frontier = <<>> /\ radarRuns = 0

StartRadar ==
  /\ radar.phase = "idle" /\ radarRuns < MaxRadarRuns
  /\ radar' = [NoRadar EXCEPT !.phase = "search"]
  /\ radarRuns' = radarRuns + 1
  /\ UNCHANGED frontier

(* add_record: one record of each url.                                              *)
LastHit(new, old) == TRUE
BetterHit(new, old) == new.score > old.score
AddRecord(records, hit) ==
  LET old == {r \in records : r.url = hit.url}
  IN IF \A r \in old : BetterHit(hit, r) THEN (records \ old) \cup {hit} ELSE records
AddAll(records, hits) == FoldLeft(LAMBDA acc, h : AddRecord(acc, h), records, hits)

(* One query, of which nothing is heard when it fails.                               *)
SearchRound ==
  /\ radar.phase = "search"
  /\ \E n \in 0 .. PerRound : \E hits \in [1 .. n -> Found] :
       radar' = [radar EXCEPT !.round = @ + 1, !.records = AddAll(@, hits), !.heard = @ \cup Range(hits),
                              !.phase = IF radar.round + 1 = Rounds THEN "seeds" ELSE @]
  /\ UNCHANGED <<frontier, radarRuns>>

(* web_discovery: the links of a page that are of a domain not met before, and not its  *)
(* own; those beyond the limit are counted, not opened.                              *)
Meets(acc, seed, u) ==
  IF DomainOf[u] = DomainOf[seed] \/ Contains(acc.domains, DomainOf[u]) THEN acc
  ELSE [domains |-> Append(acc.domains, DomainOf[u]),
        queue   |-> IF Len(acc.domains) < MaxDomains THEN Append(acc.queue, u) ELSE acc.queue]

MeetAll(acc, seed) == FoldLeft(LAMBDA a, u : Meets(a, seed, u), acc, LinksOf[seed])

Hears(hits) == [radar EXCEPT !.records = AddAll(@, hits), !.heard = @ \cup Range(hits)]

CrawlSeed ==
  /\ radar.phase = "seeds" /\ radar.seed < Len(Seeds)
  /\ LET seed == Seeds[radar.seed + 1]
         met  == MeetAll([domains |-> radar.domains, queue |-> radar.queue], seed)
     IN \/ radar' = [radar EXCEPT !.seed = @ + 1]
        \/ \E hits \in {<<>>} \cup {<<h>> : h \in HitsOf[seed]} :
             radar' = [Hears(hits) EXCEPT !.seed = @ + 1, !.domains = met.domains, !.queue = met.queue]
  /\ UNCHANGED <<frontier, radarRuns>>

(* Pages whose address suggests paid work are opened first (shorter ones before longer   *)
(* ones, which is left open here).                                                   *)
Among(queue, urls) == FoldLeft(LAMBDA kept, u : IF u \in urls THEN Append(kept, u) ELSE kept, <<>>, queue)
SortQueue ==
  /\ radar.phase = "seeds" /\ radar.seed = Len(Seeds)
  /\ radar' = [radar EXCEPT !.phase = "expand",
                 !.queue = Among(@, Suggests) \o Among(@, Urls \ Suggests)]
  /\ UNCHANGED <<frontier, radarRuns>>

Seen(u) == u \in Range(Seeds) \/ Contains(radar.opened, u)
ExpandPage ==
  /\ radar.phase = "expand" /\ radar.queue # <<>> /\ Len(radar.opened) < MaxExpanded
  /\ LET u    == Head(radar.queue)
         next == [radar EXCEPT !.queue = Tail(@)]
     IN IF Seen(u) THEN radar' = next
        ELSE \E hits \in {<<>>} \cup {<<h>> : h \in HitsOf[u]} :
               radar' = [Hears(hits) EXCEPT !.queue = Tail(@), !.opened = Append(@, u)]
  /\ UNCHANGED <<frontier, radarRuns>>

(* By score, what needs no person first, then by domain and title.                       *)
Ahead(h, g) ==
  \/ h.score > g.score
  \/ h.score = g.score /\ ~h.gate /\ g.gate
  \/ h.score = g.score /\ h.gate = g.gate /\ Order[h.url][h.title] < Order[g.url][g.title]
Leading(hits, h) == {g \in hits : Ahead(g, h)}
Ranks(hits) ==
  LET most == IF Cardinality(hits) > MaxRecords THEN MaxRecords ELSE Cardinality(hits)
  IN [p \in 1 .. most |-> CHOOSE h \in hits : Cardinality(Leading(hits, h)) = p - 1]

(* fingerprint: all of the first records but their excerpts.                           *)
Traits(h) == <<h.url, h.title, h.score, h.money, h.gate>>
Fingerprint(ranked) ==
  LET n == IF Len(ranked) > FingerprintSize THEN FingerprintSize ELSE Len(ranked)
  IN [i \in 1 .. n |-> Traits(ranked[i])]

(* The run's last step and the push of its commit, which may fail.                     *)
Publish ==
  /\ radar.phase = "expand" /\ (radar.queue = <<>> \/ Len(radar.opened) >= MaxExpanded)
  /\ LET ranked == Ranks(radar.records)
     IN IF Fingerprint(ranked) = Fingerprint(frontier)
        THEN UNCHANGED frontier /\ radar' = [radar EXCEPT !.phase = "done"]
        ELSE \/ frontier' = ranked /\ radar' = [radar EXCEPT !.phase = "done"]
             \/ UNCHANGED frontier /\ radar' = NoRadar
  /\ UNCHANGED radarRuns

RadarRests == radar.phase = "done" /\ radar' = NoRadar /\ UNCHANGED <<frontier, radarRuns>>

RadarNext ==
  StartRadar \/ SearchRound \/ CrawlSeed \/ SortQueue \/ ExpandPage \/ Publish \/ RadarRests

RadarSpec == RadarInit /\ [][RadarNext]_searching

RadarTypeOK ==
  /\ radar.phase \in {"idle", "search", "seeds", "expand", "done"}
  /\ radar.records \subseteq radar.heard
  /\ radar.round \in 0 .. Rounds /\ radar.seed \in 0 .. Len(Seeds)
  /\ Len(radar.opened) <= MaxExpanded /\ Len(frontier) <= MaxRecords
  /\ radarRuns \in 0 .. MaxRadarRuns

(* After a run that was published the file is in order throughout, and its first records  *)
(* are those that the run's hits call for: of every address a hit of the best score with   *)
(* the title, sum and gate of that hit, whichever source brought it first and although     *)
(* the file is left alone while the fingerprint agrees. The excerpts may be an earlier     *)
(* run's, and so may all of the records that follow the fingerprint's.                   *)
FrontierShowsBestHits ==
  radar.phase = "done" =>
    /\ \A i, j \in DOMAIN frontier : i < j => Ahead(frontier[i], frontier[j])
    /\ \E kept \in SUBSET {h \in radar.heard :
                           \A g \in radar.heard : g.url = h.url => g.score <= h.score} :
         /\ \A h \in radar.heard : \E k \in kept : k.url = h.url
         /\ \A h, k \in kept : h.url = k.url => h = k
         /\ Fingerprint(frontier) = Fingerprint(Ranks(kept))
===============================================================================
