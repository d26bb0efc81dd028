---------------------------- MODULE Reconciliation ----------------------------
(***************************************************************************)
(* scripts/reconcile_external_outcomes.py and its workflow: what counterparties *)
(* and the wallets say about submitted work, entered in the ledger.  Runs follow *)
(* one another; each works on a checkout, reads its sources one by one while the *)
(* world goes on, any of which may fail, and pushes at its end only what a         *)
(* transition or a change of its health asks for.  Of the comments on a receipt   *)
(* the latest verdict counts; evidence, references and counters are left out.     *)
(***************************************************************************)
EXTENDS Integers, FiniteSets, FiniteSetsExt

CONSTANTS
  Receipt,    \* submitted work; each claims a reward of 1
  Wallet,     \* the payout wallets of the receipts
  Followed,   \* the one that monitor-rustchain-13953.yml follows
  Held,       \* [Wallet -> Nat]: what the wallets hold at first
  Unknown,
  MaxPayouts  \* bound: payments that reach a wallet

(* The monitor knows of no wallet but its own: the receipts of the repository name no *)
(* other of this currency, and here the others are empty at first.                   *)
ASSUME ReconciliationAssumption ==
  /\ IsFiniteSet(Receipt) /\ IsFiniteSet(Wallet) /\ Followed \in Wallet
  /\ \A w \in Wallet \ {Followed} : Held[w] = 0
  /\ Held \in [Wallet -> Nat] /\ MaxPayouts \in Nat /\ Unknown \notin Nat

Verdict  == {"none", "queued", "paid", "voided"}
Amount   == Nat \cup {Unknown}
Balances == [Wallet -> Amount]
Ledger   == [baseline : Amount,    \* rustchain_wallet_baseline_rtc
             balance  : Amount,    \* rustchain_wallet_balance_rtc
             last     : Amount,    \* last_external_wallet_balance_rtc
             received : Nat,       \* revenue_received_rtc
             settled  : BOOLEAN]   \* rustchain_aggregate_wallet_settlement_verified
Semantic == [verdicts : [Receipt -> Verdict], balances : Balances,
             received : Nat, settled : BOOLEAN]
Files    == [receipts : [Receipt -> Verdict],     \* external_action_receipts.json
             ledger   : Ledger,                   \* monetization.json
             semantic : Semantic \cup {Unknown},     \* external_outcome_reconciliation.json
             failed   : SUBSET (Receipt \cup Wallet)]  \* external_outcome_health.json

VARIABLES
  said,    \* [Receipt -> Verdict]: the latest verdict on GitHub
  funds,   \* [Wallet -> Nat]
  arrived, \* history: payments that reached a wallet
  repo,  \* Files
  probe    \* [pc, asked, verdicts, balances, disk]: the run under way

outcome == <<said, funds, arrived, repo, probe>>

Silent  == [r \in Receipt |-> "none"]
Unread  == [w \in Wallet |-> Unknown]
NoProbe == [pc |-> "off", asked |-> {}, verdicts |-> Silent, balances |-> Unread,
            failed |-> {}, disk |-> Unknown]

OutcomeInit ==
  /\ said = Silent /\ funds = Held /\ arrived = 0
  /\ repo = [receipts |-> Silent, semantic |-> Unknown, failed |-> {},
               ledger   |-> [baseline |-> Unknown, balance |-> Unknown, last |-> Unknown,
                             received |-> 0, settled |-> FALSE]]
  /\ probe = NoProbe

-------------------------------------------------------------------------------
(* Counterparties and payers.                                                *)

(* A comment of a trusted maintainer: the work is queued, paid or voided.  (A     *)
(* bound: none goes back from paid or voided.)                                    *)
Later == [v \in Verdict |-> CASE v = "none"   -> {"queued", "paid", "voided"}
                              [] v = "queued" -> {"paid", "voided"}
                              [] v = "paid"   -> {"voided"}
                              [] v = "voided" -> {}]

Comment(r) ==
  /\ \E v \in Later[said[r]] : said' = [said EXCEPT ![r] = v]
  /\ UNCHANGED <<funds, arrived, repo, probe>>

Payout(w) ==
  /\ arrived < MaxPayouts
  /\ funds' = [funds EXCEPT ![w] = @ + 1] /\ arrived' = arrived + 1
  /\ UNCHANGED <<said, repo, probe>>

Spend(w) ==
  /\ funds[w] > 0
  /\ funds' = [funds EXCEPT ![w] = @ - 1]
  /\ UNCHANGED <<said, arrived, repo, probe>>

(* The monitor enters what it reads of its wallet, or that it could not; it shares the  *)
(* concurrency group of the probe.                                                    *)
Follow ==
  /\ probe.pc = "off"
  /\ \E last \in {funds[Followed], Unknown} : repo' = [repo EXCEPT !.ledger.last = last]
  /\ UNCHANGED <<said, funds, arrived, probe>>

-------------------------------------------------------------------------------
(* The probe.                                                                *)

StartProbe ==
  /\ probe.pc = "off"
  /\ probe' = [NoProbe EXCEPT !.pc = "comments", !.disk = repo]
  /\ UNCHANGED <<said, funds, arrived, repo>>

(* The repository cannot be read: neither can the comments on any target.      *)
RepositoryFails ==
  /\ probe.pc = "comments" /\ probe.asked = {}
  /\ probe' = [probe EXCEPT !.asked = Receipt, !.failed = Receipt]
  /\ UNCHANGED <<said, funds, arrived, repo>>

ReadComments(r) ==
  /\ probe.pc = "comments" /\ r \notin probe.asked
  /\ \/ probe' = [probe EXCEPT !.asked = @ \cup {r}, !.verdicts[r] = said[r]]
     \/ probe' = [probe EXCEPT !.asked = @ \cup {r}, !.failed = @ \cup {r}]
  /\ UNCHANGED <<said, funds, arrived, repo>>

CommentsRead ==
  /\ probe.pc = "comments" /\ probe.asked = Receipt
  /\ probe' = [probe EXCEPT !.pc = "wallets", !.asked = {}]
  /\ UNCHANGED <<said, funds, arrived, repo>>

ReadWallet(w) ==
  /\ probe.pc = "wallets" /\ w \notin probe.asked
  /\ \/ probe' = [probe EXCEPT !.asked = @ \cup {w}, !.balances[w] = funds[w]]
     \/ probe' = [probe EXCEPT !.asked = @ \cup {w}, !.failed = @ \cup {w}]
  /\ UNCHANGED <<said, funds, arrived, repo>>

-------------------------------------------------------------------------------
(* What the probe makes of its reads.                                        *)

Complete == probe.failed \cap Wallet = {}

Total(balances) ==
  MapThenSumSet(LAMBDA w : balances[w], {w \in Wallet : balances[w] # Unknown})

(* An outage of a wallet keeps its last balance.                             *)
WithCached(read, semantic) ==
  [w \in Wallet |-> IF read[w] = Unknown /\ semantic # Unknown
                      THEN semantic.balances[w] ELSE read[w]]

(* reconcile_receipts: a receipt without a verdict to read keeps its own.      *)
Reconciled(receipts, read) ==
  [r \in Receipt |-> IF read[r] = "none" THEN receipts[r] ELSE read[r]]

Expected(receipts) == Cardinality({r \in Receipt : receipts[r] \in {"queued", "paid"}})

(* Without a baseline, the balance last known, and without that what is there.   *)
Baseline(ledger, total) ==
  CASE ledger.baseline # Unknown                           -> ledger.baseline
    [] ledger.baseline = Unknown /\ ledger.last # Unknown -> ledger.last
    [] OTHER                                               -> total

(* Mutant: what was spent counts as received below zero.                     *)
SettlementSigned(ledger, receipts, balances) ==
  LET total    == Total(balances)
      baseline == Baseline(ledger, total)
      received == total - baseline
  IN [total |-> total, baseline |-> baseline, received |-> received,
      settled |-> Expected(receipts) > 0 /\ received >= Expected(receipts)]

(* wallet_settlement_view                                                    *)
Settlement(ledger, receipts, balances) ==
  LET total    == Total(balances)
      baseline == Baseline(ledger, total)
      received == IF total > baseline THEN total - baseline ELSE 0
  IN [total |-> total, baseline |-> baseline, received |-> received,
      settled |-> Expected(receipts) > 0 /\ received >= Expected(receipts)]

(* Mutant: wallets that could not be read count with their last balance, or not *)
(* at all.                                                                      *)
AppliedToAny(ledger, view, complete) ==
  [baseline |-> view.baseline, balance |-> view.total, last |-> view.total,
   received |-> Max({ledger.received, view.received}), settled |-> view.settled]

(* apply_summary_to_ledger: a complete read of the wallets enters the ledger.    *)
Applied(ledger, view, complete) ==
  IF ~complete THEN ledger
  ELSE [baseline |-> view.baseline, balance |-> view.total, last |-> view.total,
        received |-> Max({ledger.received, view.received}), settled |-> view.settled]

Changed(disk, semantic, ledger, complete) ==
  semantic # disk.semantic \/ (complete /\ ledger # [disk.ledger EXCEPT !.baseline = ledger.baseline])

Reconcile ==
  /\ probe.pc = "wallets" /\ probe.asked = Wallet
  /\ LET disk     == probe.disk
         receipts == Reconciled(disk.receipts, probe.verdicts)
         balances == WithCached(probe.balances, disk.semantic)
         view     == Settlement(disk.ledger, receipts, balances)
         semantic == [verdicts |-> receipts, balances |-> balances,
                      received |-> view.received, settled |-> view.settled]
         ledger   == Applied(disk.ledger, view, Complete)
     IN probe' = [probe EXCEPT !.pc = "persist", !.verdicts = Silent, !.disk =
          IF Changed(disk, semantic, ledger, Complete)
            THEN [receipts |-> receipts, ledger |-> ledger, semantic |-> semantic,
                  failed |-> probe.failed]
            ELSE [disk EXCEPT !.failed = probe.failed]]
  /\ UNCHANGED <<said, funds, arrived, repo>>

(* The push; without a transition or a change of health there is none.         *)
Persist ==
  /\ probe.pc = "persist"
  /\ repo' = probe.disk
  /\ probe' = NoProbe
  /\ UNCHANGED <<said, funds, arrived>>

RunFails ==
  /\ probe.pc # "off"
  /\ probe' = NoProbe
  /\ UNCHANGED <<said, funds, arrived, repo>>

OutcomeNext ==
  \/ \E r \in Receipt : Comment(r) \/ ReadComments(r)
  \/ \E w \in Wallet : Payout(w) \/ Spend(w) \/ ReadWallet(w)
  \/ Follow \/ StartProbe \/ RepositoryFails \/ CommentsRead \/ Reconcile \/ Persist \/ RunFails

OutcomeSpec == OutcomeInit /\ [][OutcomeNext]_outcome

-------------------------------------------------------------------------------
OutcomeTypeOK ==
  /\ said \in [Receipt -> Verdict] /\ funds \in [Wallet -> Nat] /\ arrived \in 0..MaxPayouts
  /\ repo.receipts \in [Receipt -> Verdict] /\ repo.ledger \in Ledger
  /\ repo.semantic = Unknown \/ repo.semantic \in Semantic
  /\ repo.failed \subseteq Receipt \cup Wallet
  /\ probe.asked \subseteq Receipt \cup Wallet /\ probe.failed \subseteq Receipt \cup Wallet
  /\ probe.balances \in Balances /\ probe.verdicts \in [Receipt -> Verdict]

(* Revenue is never invented: what the ledger counts as received has reached a     *)
(* wallet since the system runs, although wallets are read at different moments,    *)
(* some not at all, and one held something before; whether the baseline is the       *)
(* monitor's last balance or the first one that the probe found. (Were there another *)
(* wallet that held something, the monitor's baseline would count it as received.)   *)
RevenueIsReceived == repo.ledger.received <= arrived
===============================================================================
