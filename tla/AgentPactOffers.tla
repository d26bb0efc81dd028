---------------------------- MODULE AgentPactOffers ----------------------------
(* agentpact_offer_ladder.py: a timer keeps the seller's ladder of offers up. A run      *)
(* sends a heartbeat, reads the inventory, and creates what is missing of the desired    *)
(* offers, one POST each, sent again while the answer is an error that may pass. The     *)
(* platform refuses a second offer of a title, as the code's handling of 409 has it.      *)
EXTENDS Naturals, FiniteSets, Sequences

CONSTANTS
  DesiredOffers,   \* DESIRED_OFFERS: a sequence of titles
  OtherOffers,     \* titles that the owner may offer by hand
  MaxActiveOffers, \* MAX_ACTIVE_OFFERS
  MaxLadders,      \* bound: runs
  MaxUncounted     \* bound: offers by hand are made while fewer were not counted

ASSUME OffersAssumption ==
  /\ DesiredOffers \in Seq(STRING) /\ IsFiniteSet(OtherOffers)
  /\ MaxActiveOffers \in Nat /\ MaxLadders \in Nat

VARIABLES
  offers,    \* the titles of the seller's offers
  uncounted, \* history: offers made that a run does not count: by hand, or met as a conflict
  ladder,    \* the run: the titles it read, where it is, what it created
  snapshot,  \* offer_ladder.json
  ladders

selling == <<offers, uncounted, ladder, snapshot, ladders>>

NoLadder == [at |-> "idle", existing |-> {}, next |-> 1, created |-> 0, errors |-> FALSE]
Endings == {"active", "partial", "temporarily_unavailable", "authentication_blocked",
             "inventory_blocked", "identity_invalid"}

OffersInit ==
  /\ offers \in SUBSET OtherOffers /\ Cardinality(offers) <= MaxActiveOffers
  /\ uncounted = 0 /\ ladder = NoLadder /\ snapshot = "none" /\ ladders = 0

Ends(status) == ladder' = NoLadder /\ snapshot' = status

ReadInventory ==
  /\ ladder.at = "idle" /\ ladders < MaxLadders
  /\ ladders' = ladders + 1
  /\ \/ ladder' = [NoLadder EXCEPT !.at = "create", !.existing = offers] /\ UNCHANGED snapshot
     \/ \E status \in Endings \ {"active", "partial"} : Ends(status)
  /\ UNCHANGED <<offers, uncounted>>

CountsExisting == Cardinality(ladder.existing)
CountsAll == Cardinality(ladder.existing) + ladder.created

(* One desired offer; a retried POST that had already been taken is answered by 409.      *)
CreateOffer ==
  /\ ladder.at = "create" /\ ladder.next <= Len(DesiredOffers)
  /\ LET title == DesiredOffers[ladder.next]
         goes  == ladder' = [ladder EXCEPT !.next = @ + 1] /\ UNCHANGED snapshot
     IN IF title \in ladder.existing THEN goes /\ UNCHANGED offers
        ELSE IF CountsAll >= MaxActiveOffers
        THEN /\ ladder' = [ladder EXCEPT !.next = Len(DesiredOffers) + 1, !.errors = TRUE]
             /\ UNCHANGED <<offers, snapshot>>
        ELSE \/ /\ title \notin offers
                /\ offers' = offers \cup {title}
                /\ ladder' = [ladder EXCEPT !.next = @ + 1, !.created = @ + 1]
                /\ UNCHANGED snapshot
             \/ offers' = offers \cup {title} /\ goes             \* 409: reused, not counted
             \/ offers' \in {offers, offers \cup {title}} /\ Ends("temporarily_unavailable")
             \/ UNCHANGED offers /\ Ends("authentication_blocked")
             \/ /\ ladder' = [ladder EXCEPT !.next = @ + 1, !.errors = TRUE]
                /\ UNCHANGED <<offers, snapshot>>
  /\ uncounted' = IF /\ Cardinality(offers') > Cardinality(offers)
                     /\ ladder'.at = "create" /\ ladder'.created = ladder.created
                  THEN uncounted + 1 ELSE uncounted
  /\ UNCHANGED ladders

EndLadder ==
  /\ ladder.at = "create" /\ ladder.next > Len(DesiredOffers)
  /\ Ends(IF ladder.errors THEN "partial" ELSE "active")
  /\ UNCHANGED <<offers, uncounted, ladders>>

OfferByHand ==
  /\ \E title \in OtherOffers \ offers : offers' = offers \cup {title}
  /\ uncounted < MaxUncounted
  /\ uncounted' = uncounted + 1
  /\ UNCHANGED <<ladder, snapshot, ladders>>
Withdraw ==
  /\ \E title \in offers : offers' = offers \ {title}
  /\ UNCHANGED <<uncounted, ladder, snapshot, ladders>>

OffersNext == ReadInventory \/ CreateOffer \/ EndLadder \/ OfferByHand \/ Withdraw

OffersSpec == OffersInit /\ [][OffersNext]_selling

OffersTypeOK ==
  /\ offers \subseteq OtherOffers \cup {DesiredOffers[i] : i \in DOMAIN DesiredOffers}
  /\ ladder.at \in {"idle", "create"} /\ ladder.existing \subseteq OtherOffers \cup {DesiredOffers[i] : i \in DOMAIN DesiredOffers}
  /\ ladder.next \in 1 .. Len(DesiredOffers) + 1 /\ ladder.created <= Len(DesiredOffers)
  /\ snapshot \in Endings \cup {"none"} /\ ladders \in 0 .. MaxLadders

(* The ladder does not lift the seller above its limit of offers by more than what it did   *)
(* not count: offers made by hand, and its own that a conflict with the first attempt of   *)
(* the same POST reports as reused. However often it runs, whatever is withdrawn in        *)
(* between, and whichever of its last answers are lost, all else it created is counted.     *)
OfferCapHolds == Cardinality(offers) <= MaxActiveOffers + uncounted
===============================================================================
