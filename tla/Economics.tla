------------------------------- MODULE Economics -------------------------------
(***************************************************************************)
(* atlas/economic_outcome_ledger.py, economic_feedback_reallocator.py and          *)
(* autonomous_mission_scheduler.py, chained as commercial_benchmark_runner.py does:  *)
(* outcomes of the market are summed up per mission, the budget is divided by what     *)
(* they say, and the next missions are launched.  All three are pure; the callers      *)
(* keep the outcomes.  Money is in cents, rates are in percent, and a score is in        *)
(* units fine enough for the divisions below; a tie is rounded up.                        *)
(***************************************************************************)
EXTENDS Integers, Sequences, FiniteSets, FiniteSetsExt, SequencesExt

CONSTANTS
  Venture,      \* missions with outcomes of their own
  Kind,         \* outcomes: [stage, revenue, cost, chance]
  Fit,          \* [Venture -> 0..2]: strategic fit in halves; also the priority
  Id,           \* [Venture -> Nat]: order of the mission ids
  MaxOutcomes,  \* bound: outcomes of a mission
  MinSample,    \* minimum_observations, minimum_sample_size (5)
  Budgets,      \* total budgets
  Slots,        \* maximum_concurrent_missions
  Share,        \* maximum_mission_share, in percent
  Explore,      \* exploration_share, in percent
  Unit,         \* a common multiple of the possible numbers of quotes
  NoPlan

ASSUME EconomicsAssumption ==
  /\ Kind \subseteq [stage : {"lead", "quote", "order", "lost"}, revenue : Nat, cost : Nat,
                     chance : {0, 50, 100}]
  /\ \A k \in Kind : /\ k.stage = "order" => k.revenue > 0
                     /\ k.stage = "lost" => k.chance = 0
                     /\ k.revenue % 2 = 0 /\ k.cost % 2 = 0
  /\ Fit \in [Venture -> 0..2]
  /\ Id \in [Venture -> Nat] /\ \A v, w \in Venture : Id[v] = Id[w] => v = w
  /\ IsFiniteSet(Venture) /\ IsFiniteSet(Kind) /\ Budgets \subseteq Nat
  /\ MaxOutcomes \in Nat /\ Unit \in Nat \ {0} /\ \A n \in 1..MaxOutcomes : Unit % n = 0
  /\ Slots \in Nat \ {0} /\ Share \in 0..100 /\ Explore \in 0..100

VARIABLES
  book,  \* [Venture -> [Kind -> Nat]]: the outcomes
  plan   \* what the last run of the chain said

economy == <<book, plan>>

EconomicsInit ==
  /\ book = [v \in Venture |-> [k \in Kind |-> 0]]
  /\ plan = NoPlan

Record(v, k) ==
  /\ SumFunction(book[v]) < MaxOutcomes
  /\ book' = [book EXCEPT ![v][k] = @ + 1]
  /\ plan' = NoPlan

-------------------------------------------------------------------------------
(* EconomicOutcomeLedger.summarize.                                          *)

Count(v, stage) == MapThenSumSet(LAMBDA k : book[v][k], {k \in Kind : k.stage = stage})

Booked(v, amount(_)) ==
  MapThenSumSet(LAMBDA k : book[v][k] * amount(k), {k \in Kind : k.stage = "order"})
Expected(v, amount(_)) ==
  SumFunction([k \in Kind |-> (book[v][k] * amount(k) * k.chance) \div 100])

Revenue(k) == k.revenue
Profit(k)  == k.revenue - k.cost

Summary(v) ==
  [size     |-> SumFunction(book[v]),
   quotes   |-> Count(v, "quote"), orders |-> Count(v, "order"),
   revenue  |-> Booked(v, Revenue),   profit |-> Booked(v, Profit),
   expected |-> Expected(v, Revenue), hope   |-> Expected(v, Profit)]

(* A rate of at least percent; a rate without a base is 0.                        *)
AtLeast(part, base, percent) ==
  IF base = 0 THEN percent = 0 ELSE 100 * part >= percent * base

LedgerDecision(m) ==
  CASE m.size < MinSample -> "continue"
    [] m.size >= MinSample /\ m.revenue > 0 /\ AtLeast(m.profit, m.revenue, 25)
         /\ AtLeast(m.orders, m.quotes, 10) -> "accelerate"
    [] OTHER ->
         IF AtLeast(m.hope, m.expected, 15) /\ (m.quotes > 0 => AtLeast(m.orders, m.quotes, 10))
         THEN "continue"
         ELSE IF m.revenue = 0 /\ (m.expected = 0 \/ m.hope <= 0) THEN "stop" ELSE "revise"

(* decision_map of commercial_benchmark_runner.                                   *)
EconomicDecision(m) == IF LedgerDecision(m) = "revise" THEN "hold" ELSE LedgerDecision(m)

-------------------------------------------------------------------------------
(* EconomicFeedbackReallocator.                                              *)

(* MissionEconomics.validate: a conversion rate is between 0 and 1.               *)
Acceptable(m) == m.quotes = 0 \/ m.orders <= m.quotes

Conversion(m) == IF m.quotes = 0 THEN 0 ELSE (Unit * m.orders) \div m.quotes
Positive(n)   == IF n > 0 THEN n ELSE 0

(* 800 * Unit times the code's score, of which Classify takes the double or the    *)
(* treble; the floor of an unknown mission is its fit, 800 * Unit for each half.    *)
Score(m, fit) == Positive(m.hope) * (2 + fit) * (Unit + 2 * Conversion(m))

Classify(m, fit) ==
  LET known == m.size >= MinSample IN
  CASE known /\ m.hope <= 0 -> [decision |-> "stop", score |-> 0]
    [] known /\ m.hope > 0 /\ m.revenue > 0 /\ ~AtLeast(m.profit, m.revenue, 10)
                            -> [decision |-> "hold", score |-> 0]
    [] known /\ m.hope > 0 /\ m.profit > 0 /\ AtLeast(m.profit, m.revenue, 25)
         /\ 5 * Conversion(m) >= Unit
                            -> [decision |-> "accelerate", score |-> 3 * Score(m, fit)]
    [] ~known               -> [decision |-> "continue",
                                score |-> Max({2 * Score(m, fit), 800 * Unit * fit})]
    [] OTHER                -> [decision |-> "continue", score |-> 2 * Score(m, fit)]

Rounded(a, b) == (2 * a + b) \div (2 * b)

(* A mutant: exploration comes on top of the budget.                               *)
WholeBudget(total) == 100 * total

Exploitation(total) == (100 - Explore) * total

(* The amount of each mission of a portfolio, capped.                             *)
Allocation(ventures, total) ==
  LET class  == [v \in ventures |-> Classify(Summary(v), Fit[v])]
      shared == {v \in ventures : class[v].decision \in {"continue", "accelerate"}}
      new    == {v \in shared : Summary(v).size < MinSample}
      scores == SumFunction([v \in shared |-> class[v].score])
      weight == IF scores = 0 THEN 1 ELSE scores
      each   == IF new = {} THEN 1 ELSE Cardinality(new)
      amount(v) ==
        Rounded((Exploitation(total) * class[v].score * each)
                  + (IF v \in new THEN total * Explore * weight ELSE 0),
                100 * weight * each)
  IN [v \in ventures |->
        IF v \in shared THEN Min({amount(v), Rounded(total * Share, 100)}) ELSE 0]

-------------------------------------------------------------------------------
(* AutonomousMissionScheduler.schedule.                                      *)

(* Accelerated missions first, then by expected profit and by priority.           *)
Before(v, w) ==
  LET urgent(u) == EconomicDecision(Summary(u)) = "accelerate"
      hope(u)   == Positive(Summary(u).hope)
  IN
  \/ urgent(v) /\ ~urgent(w)
  \/ urgent(v) = urgent(w) /\ \/ hope(v) > hope(w)
                              \/ hope(v) = hope(w) /\ Fit[v] > Fit[w]
                              \/ hope(v) = hope(w) /\ Fit[v] = Fit[w] /\ Id[v] < Id[w]

Leaders(ventures, v) == {w \in ventures : Before(w, v)}
Ranking(ventures) ==
  [p \in 1 .. Cardinality(ventures) |->
     CHOOSE v \in ventures : Cardinality(Leaders(ventures, v)) = p - 1]

(* A mission in turn is launched if it may, within the slots and the budget left.   *)
Launch(state, v, amount, held) ==
  IF v \in held \/ EconomicDecision(Summary(v)) = "stop"
       \/ state.slots <= 0
       \/ amount <= 0 \/ amount > state.left
  THEN state
  ELSE [slots |-> state.slots - 1, left |-> state.left - amount,
        launched |-> state.launched \cup {v}]

(* active: still running; idle: too many cycles without progress, or cooling down.  *)
Schedule(ventures, amounts, total, active, idle) ==
  FoldLeft(LAMBDA state, v : Launch(state, v, amounts[v], active \cup idle),
           [slots |-> Slots - Cardinality(active), left |-> total, launched |-> {}],
           Ranking(ventures)).launched

(* A run of the chain over a portfolio: the benchmark's are of one mission.       *)
RunChain(ventures, total, active, idle) ==
  LET amounts == Allocation(ventures, total) IN
  /\ plan' =
       IF \A v \in ventures : Acceptable(Summary(v))
       THEN [ventures |-> ventures, total |-> total, amounts |-> amounts,
             held |-> active \cup idle, failed |-> FALSE,
             launched |-> Schedule(ventures, amounts, total, active, idle)]
       ELSE [ventures |-> ventures, total |-> total, amounts |-> [v \in ventures |-> 0],
             held |-> active \cup idle, failed |-> TRUE, launched |-> {}]
  /\ UNCHANGED book

EconomicsNext ==
  \/ \E v \in Venture, k \in Kind : Record(v, k)
  \/ /\ plan = NoPlan
     /\ \E ventures \in SUBSET Venture \ {{}}, total \in Budgets :
          \E active \in SUBSET ventures : \E idle \in SUBSET (ventures \ active) :
            RunChain(ventures, total, active, idle)

EconomicsSpec == EconomicsInit /\ [][EconomicsNext]_economy

-------------------------------------------------------------------------------
EconomicsTypeOK ==
  /\ book \in [Venture -> [Kind -> 0..MaxOutcomes]]
  /\ plan = NoPlan \/
       /\ plan.ventures \subseteq Venture /\ plan.total \in Budgets /\ plan.failed \in BOOLEAN
       /\ plan.amounts \in [plan.ventures -> Nat]
       /\ plan.launched \subseteq plan.ventures /\ plan.held \subseteq plan.ventures

(* A portfolio is never promised more than there is, but for half a cent for each  *)
(* mission that rounding may add, however many of its missions explore.            *)
PortfolioIsBounded ==
  plan # NoPlan =>
    2 * MapThenSumSet(LAMBDA v : plan.amounts[v], plan.ventures)
      <= 2 * plan.total + Cardinality(plan.ventures)
===============================================================================
