------------------------------ MODULE PayableScout ------------------------------
(* The scouts of GitHub issues that a bounty platform pays for, one kind per module:   *)
(* narrow_payable_scout, safe_convertible_bounty_scout, final_bounty_safety_gate, which *)
(* filters what the safe scout chose, capability_first_payable_scout, the one that the   *)
(* scheduled script and the degraded cycle use, and global_cash_promoter, with a file    *)
(* of its own. A scan searches, builds a pool, reads each issue's comments and (but the  *)
(* promoter) its repository, and writes a ranked, capped registry.                       *)
(*                                                                                      *)
(* An issue is [listing, repository, worth, flaw, fit]: its rank, the first gate that    *)
(* it fails ("" for none) and which patch it calls for. Patterns, scores and evidence    *)
(* texts are left out.                                                                  *)
EXTENDS Naturals, Sequences, FiniteSets, SequencesExt

CONSTANTS
  Kinds,                   \* the scouts looked at
  Issues,
  Queries,                 \* the number of queries
  PerPage,                 \* bound: issues that one search returns
  MaxInspected,            \* max_inspected
  MaxCandidates,           \* max_candidates
  MaxPerRepository,        \* max_candidates_per_repository
  MaxBacklog,              \* the rows that the promoter keeps of its backlog
  MaxScans                 \* bound: scans

VARIABLES
  prospect,    \* the scan under way
  standing,    \* GitHub: repository -> sound, archived, or below the trust threshold
  candidates,  \* monetization_candidates.json, or global_cash_shortlist.json
  firestore,   \* the copy that persist_firestore_registry keeps
  scans

prospecting == <<prospect, standing, candidates, firestore, scans>>

ASSUME ProspectAssumption ==
  /\ {Queries, PerPage, MaxInspected, MaxCandidates, MaxPerRepository, MaxBacklog, MaxScans}
       \subseteq Nat
  /\ Kinds \subseteq {"narrow", "safe", "final", "capability", "promoter"}
  /\ \A i \in Issues : i.worth \in Nat

Repositories == {i.repository : i \in Issues}
Standings    == {"sound", "archived", "untrusted"}
NoRegistry   == [candidates |-> <<>>, backlog |-> <<>>]
NoProspect(kind) ==
  [kind |-> kind, phase |-> "idle", groups |-> <<>>, pool |-> <<>>,
   seen |-> [r \in Repositories |-> "unread"],
   qualified |-> <<>>, backlog |-> <<>>, rejected |-> {}]

ProspectInit ==
  /\ \E kind \in Kinds : prospect = NoProspect(kind)
  /\ standing \in [Repositories -> Standings]
  /\ candidates = NoRegistry /\ firestore = NoRegistry /\ scans = 0

StartScan ==
  /\ prospect.phase \in {"idle", "done"} /\ scans < MaxScans
  /\ prospect' = [NoProspect(prospect.kind) EXCEPT !.phase = "search"]
  /\ scans' = scans + 1
  /\ UNCHANGED <<standing, candidates, firestore>>

(* One query: a search that fails leaves an empty group.                                *)
SearchIssues ==
  /\ prospect.phase = "search" /\ Len(prospect.groups) < Queries
  /\ \E n \in 0 .. PerPage : \E page \in [1 .. n -> Issues] :
       prospect' = [prospect EXCEPT !.groups = Append(@, page)]
  /\ UNCHANGED <<standing, candidates, firestore, scans>>

Holds(rows, l) == \E k \in DOMAIN rows : rows[k].listing = l
Distinct(rows) ==
  FoldLeft(LAMBDA kept, i : IF Holds(kept, i.listing) THEN kept ELSE Append(kept, i), <<>>, rows)
UpTo(rows, n) == IF Len(rows) > n THEN SubSeq(rows, 1, n) ELSE rows

(* The narrow scout and the promoter empty one query after the other, the promoter to    *)
(* the end; the others take one of each in turn. Only the promoter takes a pull request. *)
NoPulls(rows) ==
  FoldLeft(LAMBDA kept, i : IF i.flaw = "pull_request" THEN kept ELSE Append(kept, i), <<>>, rows)
Joined(groups) == FoldLeft(LAMBDA all, page : all \o page, <<>>, groups)
Turn(groups, n) ==
  FoldLeft(LAMBDA row, page : IF n <= Len(page) THEN Append(row, page[n]) ELSE row, <<>>, groups)
Turns == [n \in 1 .. PerPage |-> n]
InTurn(groups) == FoldLeft(LAMBDA all, n : all \o Turn(groups, n), <<>>, Turns)
InOrder(groups) == UpTo(Distinct(NoPulls(Joined(groups))), MaxInspected)
AllInOrder(groups) == Distinct(Joined(groups))
RoundRobinPool(groups) == UpTo(Distinct(NoPulls(InTurn(groups))), MaxInspected)
BuildPool ==
  /\ prospect.phase = "search" /\ Len(prospect.groups) = Queries
  /\ prospect' = [prospect EXCEPT !.phase = "inspect", !.groups = <<>>,
                    !.pool = CASE prospect.kind = "narrow"   -> InOrder(prospect.groups)
                               [] prospect.kind = "promoter" -> AllInOrder(prospect.groups)
                               [] OTHER -> RoundRobinPool(prospect.groups)]
  /\ UNCHANGED <<standing, candidates, firestore, scans>>

(* The gates. A qualifier asks for the comment of a platform's bot; "attested" is a        *)
(* maintainer's link to the platform, which only the capability scout's adapter takes.   *)
(* "gated" asks for an account or an identity. The promoter takes a reward outside its    *)
(* band for no evidence at all in a platform's comment ("outsized"), and refuses it in    *)
(* the one board that states its price in the issue ("reward").                          *)
ProviderRefuses == {"unfunded", "attested"}
AdapterRefuses  == {"unfunded"}
ScopeRefuses    == {"broad"}
QualifierRefuses == {"unavailable"} \cup ScopeRefuses
PromoterRefuses == {"unavailable", "unsafe", "unfit", "reward", "crowded"}
PromoterHolds   == ProviderRefuses \cup {"outsized", "gated"}
Refused(kind) ==
  CASE kind = "narrow"            -> QualifierRefuses \cup ProviderRefuses
    [] kind \in {"safe", "final"} -> QualifierRefuses \cup ProviderRefuses \cup {"unsafe", "crowded"}
    [] kind = "capability"        -> QualifierRefuses \cup AdapterRefuses
                                       \cup {"unsafe", "crowded", "exfiltrates"}
    [] kind = "promoter"          -> PromoterRefuses
RefusedStanding(kind) ==
  CASE kind = "narrow" -> {"archived"} [] kind = "promoter" -> {}
    [] OTHER -> {"archived", "untrusted"}

(* What a patch can be built for: an exact replacement, or one of the capabilities.      *)
TextReplacement(i) == i.fit = "exact"
PatchCapability(i) == i.fit \in {"exact", "matched"}
Convertible(kind, i) ==
  CASE kind = "narrow"            -> TRUE
    [] kind \in {"safe", "final"} -> TextReplacement(i)
    [] kind = "capability"        -> PatchCapability(i)
    [] kind = "promoter"          -> i.flaw \notin PromoterHolds

(* The safe and the capability scouts read a repository once in a scan.                  *)
Reads(i, reading) ==
  IF prospect.kind = "narrow" \/ prospect.seen[i.repository] = "unread"
  THEN reading = standing[i.repository]
  ELSE reading = prospect.seen[i.repository]

(* A fetch that fails, of the comments or of the repository, rejects its issue only; a   *)
(* gate that needs the comments alone is before the repository in the capability scout. *)
FetchFails(i) == prospect' = [prospect EXCEPT !.pool = Tail(@), !.rejected = @ \cup {i}]
Inspect ==
  /\ prospect.phase = "inspect" /\ prospect.pool # <<>>
  /\ LET i == Head(prospect.pool)
     IN \/ FetchFails(i)
        \/ /\ prospect.kind = "capability" /\ i.flaw \in {"unfunded", "unsafe"}
           /\ prospect' = [prospect EXCEPT !.pool = Tail(@), !.rejected = @ \cup {i}]
        \/ /\ prospect.kind = "capability" => i.flaw \notin {"unfunded", "unsafe"}
           /\ \E reading \in Standings :
                /\ Reads(i, reading)
                /\ LET read    == [prospect EXCEPT !.pool = Tail(@), !.seen[i.repository] = reading]
                       refused == \/ i.flaw \in Refused(prospect.kind)
                                  \/ reading \in RefusedStanding(prospect.kind)
                   IN prospect' =
                        IF refused THEN [read EXCEPT !.rejected = @ \cup {i}]
                        ELSE IF Convertible(prospect.kind, i)
                        THEN [read EXCEPT !.qualified = Append(@, i)]
                        ELSE [read EXCEPT !.backlog = Append(@, i)]
  /\ UNCHANGED <<standing, candidates, firestore, scans>>

(* The narrow scout puts an exact replacement and a bounded change of a document first. *)
(* A row that the promoter holds back for want of evidence has no reward to go by ("hint"). *)
Bounded(i) == i.fit \in {"exact", "document"}
Hint(i)    == IF i.flaw = "gated" THEN i.worth ELSE 0
Before(kind, i, j) ==
  CASE kind = "narrow" /\ Bounded(i) # Bounded(j) -> Bounded(i)
    [] kind = "hint" -> Hint(i) > Hint(j)
    [] OTHER         -> i.worth > j.worth

(* A stable sort: the place of a row follows from the number of rows before it.          *)
Earlier(kind, rows, i) ==
  {j \in DOMAIN rows : \/ Before(kind, rows[j], rows[i])
                       \/ ~Before(kind, rows[i], rows[j]) /\ j < i}
Ranking(kind, rows) ==
  [p \in DOMAIN rows |->
     rows[CHOOSE i \in DOMAIN rows : Cardinality(Earlier(kind, rows, i)) = p - 1]]

(* cap_by_repository: walk down the ranking.                                            *)
PassesShare(chosen, i) ==
  Cardinality({k \in DOMAIN chosen : chosen[k].repository = i.repository}) < MaxPerRepository
OneTooMany(kind, rows) ==
  IF kind = "narrow" THEN UpTo(rows, MaxCandidates + 1)
  ELSE FoldLeft(LAMBDA chosen, i :
                  IF Len(chosen) <= MaxCandidates /\ PassesShare(chosen, i)
                  THEN Append(chosen, i) ELSE chosen, <<>>, rows)
Shared(rows) ==
  FoldLeft(LAMBDA chosen, i :
             IF Len(chosen) < MaxCandidates /\ PassesShare(chosen, i)
             THEN Append(chosen, i) ELSE chosen, <<>>, rows)
Cap(kind, rows) ==
  IF kind = "narrow" THEN UpTo(rows, MaxCandidates) ELSE Shared(rows)
CappedBeforeRanking(kind, rows) == Ranking(kind, Cap(kind, rows))
Chosen(kind, rows) == Cap(kind, Ranking(kind, rows))

(* discover_final_safe_registry filters what the safe scout has chosen.                  *)
Contained(rows) ==
  FoldLeft(LAMBDA kept, i : IF i.flaw = "exfiltrates" THEN kept ELSE Append(kept, i), <<>>, rows)
FinalGate(kind, rows) == IF kind = "final" THEN Contained(rows) ELSE rows

(* The script writes the registry whatever the searches said, and then the copy, which   *)
(* the promoter's shortlist has not.                                                     *)
WriteRegistry ==
  /\ prospect.phase = "inspect" /\ prospect.pool = <<>>
  /\ LET kind == prospect.kind
         new  == [candidates |-> FinalGate(kind, Chosen(kind, prospect.qualified)),
                  backlog    |-> IF kind = "promoter"
                                THEN UpTo(Ranking("hint", prospect.backlog), MaxBacklog)
                                 ELSE FinalGate(kind, Chosen(kind, prospect.backlog))]
     IN /\ candidates' = new
        /\ prospect' = [prospect EXCEPT !.phase = "done"]
        /\ firestore' \in IF kind = "promoter" THEN {firestore} ELSE {firestore, new}
  /\ UNCHANGED <<standing, scans>>

RepositoryChanges ==
  /\ prospect.phase = "inspect"
  /\ \E r \in Repositories : standing' = [standing EXCEPT ![r] = "archived"]
  /\ UNCHANGED <<prospect, candidates, firestore, scans>>

ProspectNext ==
  \/ StartScan \/ SearchIssues \/ BuildPool \/ Inspect \/ WriteRegistry \/ RepositoryChanges
ProspectSpec == ProspectInit /\ [][ProspectNext]_prospecting

ProspectTypeOK ==
  /\ prospect.kind \in Kinds /\ prospect.phase \in {"idle", "search", "inspect", "done"}
  /\ prospect.seen \in [Repositories -> Standings \cup {"unread"}]
  /\ Len(prospect.pool) <= Queries * PerPage /\ prospect.rejected \subseteq Issues
  /\ Range(prospect.qualified) \cup Range(prospect.backlog) \subseteq Issues
  /\ standing \in [Repositories -> Standings]
  /\ Len(candidates.candidates) <= MaxCandidates /\ Len(firestore.candidates) <= MaxCandidates
  /\ scans \in 0 .. MaxScans

(* An issue that qualified is missing from the registry only when better ones took the    *)
(* list, or its repository's share: the worst issue of a crowded repository pushes        *)
(* nothing out. It is not said that they are in the file: the final gate filters after    *)
(* the cap, so there an issue that it refuses has taken a place, and what that place cost *)
(* does not come back (`lost'). The narrow scout has no share and is left out.           *)
LastRefused ==
  {i \in Range(prospect.qualified) : prospect.kind = "final" /\ i.flaw = "exfiltrates"}
PlaceIsEarned ==
  prospect.phase = "done" /\ prospect.kind # "narrow" =>
    \E lost \in SUBSET LastRefused :
      LET took == Range(candidates.candidates) \cup lost
      IN \A i \in Range(prospect.qualified) \ took :
           /\ \A j \in took : j.worth < i.worth => Cardinality({k \in took :
                  k.repository = i.repository /\ k.worth >= i.worth}) >= MaxPerRepository
           /\ \/ Cardinality(took) = MaxCandidates
              \/ Cardinality({k \in took : k.repository = i.repository}) = MaxPerRepository
===============================================================================
