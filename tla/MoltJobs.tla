------------------------------- MODULE MoltJobs -------------------------------
(***************************************************************************)
(* scripts/moltjobs_cash_sniper.py: bids on a market of paid jobs, from a     *)
(* timer of the VM and from a workflow that nothing keeps apart.  A run reads   *)
(* its state file, the allowance of bids, the market and its own jobs, asks the *)
(* tutor for the work of assigned jobs, places bids and writes its state at the *)
(* end.  Its questions to the tutor are requests of MissionBridge: it ignores    *)
(* whether they were filed, so they are steps without an effect here.            *)
(***************************************************************************)
EXTENDS Naturals, FiniteSets

CONSTANTS
  Job,
  Run,          \* runs of the script; each may run once
  Targeted,     \* the runs with MOLTJOBS_TARGET_TITLE
  Credits,      \* bids the allowance has at first
  Reserve,      \* MOLTJOBS_MIN_CREDIT_RESERVE
  MaxBids,      \* MOLTJOBS_MAX_BIDS_PER_RUN
  Target,       \* MOLTJOBS_TARGET_PORTFOLIO
  MaxPortfolio  \* MOLTJOBS_MAX_PORTFOLIO

ASSUME MoltAssumption ==
  /\ Targeted \subseteq Run /\ IsFiniteSet(Run) /\ IsFiniteSet(Job)
  /\ {Credits, Reserve, MaxBids, Target, MaxPortfolio} \subseteq Nat

VARIABLES
  market,   \* [Job -> Markets]
  credits,  \* bids left
  placed,   \* history: [Job -> Nat]: bids the market has taken
  disk,     \* [bids : SUBSET Job, torn : BOOLEAN]: the state file
  run,      \* [Run -> RunState]
  overlap,  \* history: two runs were under way together
  forgotten \* history: a bid the market took is in no state file

molt == <<market, credits, placed, disk, run, overlap, forgotten>>

Markets == {"open", "assigned", "done", "lapsed"}
RunPC   == {"off", "loaded", "allowed", "listed", "deliver", "bid", "escalate",
            "save", "over"}

RunState ==
  [pc        : RunPC,
   bids      : SUBSET Job,  \* state["bids"] in memory
   remaining : Nat,         \* the allowance it has read
   listed    : SUBSET Job,  \* the open jobs it has read
   todo      : SUBSET Job,  \* ranked: what is left of them to bid for
   capacity  : Nat]

MoltInit ==
  /\ market = [j \in Job |-> "open"]
  /\ credits = Credits
  /\ placed = [j \in Job |-> 0]
  /\ disk = [bids |-> {}, torn |-> FALSE]
  /\ run = [r \in Run |-> [pc |-> "off", bids |-> {}, remaining |-> 0, todo |-> {},
                           listed |-> {}, capacity |-> 0]]
  /\ overlap = FALSE /\ forgotten = FALSE

Under(a, b)    == IF a > b THEN a - b ELSE 0
Least(S)       == CHOOSE n \in S : \A k \in S : n <= k
Active         == {r \in Run : run[r].pc \notin {"off", "over"}}
Goes(r, state) == run' = [run EXCEPT ![r] = state]

-------------------------------------------------------------------------------
(* One run of main().                                                        *)

LoadState(r) ==
  /\ run[r].pc = "off"
  /\ Goes(r, [run[r] EXCEPT !.pc = "loaded", !.bids = IF disk.torn THEN {} ELSE disk.bids])
  /\ overlap' = (overlap \/ Active # {})
  /\ UNCHANGED <<market, credits, placed, disk, forgotten>>

ReadAllowance(r) ==
  /\ run[r].pc = "loaded"
  /\ Goes(r, [run[r] EXCEPT !.pc = "allowed", !.remaining = credits])
  /\ UNCHANGED <<market, credits, placed, disk, overlap, forgotten>>

ListJobs(r) ==
  /\ run[r].pc = "allowed"
  /\ Goes(r, [run[r] EXCEPT !.pc = "listed", !.listed = {j \in Job : market[j] = "open"}])
  /\ UNCHANGED <<market, credits, placed, disk, overlap, forgotten>>

(* The bids of the state file that may still be won, beside the jobs it sees   *)
(* as its own.                                                                *)
RecentBids(r, mine) ==
  {j \in run[r].bids \ mine : market[j] # "lapsed"}

Capacity(r, occupied) ==
  LET spare == Under(run[r].remaining, Reserve) IN
  IF r \in Targeted THEN Least({MaxBids, spare, 1})
  ELSE Least({MaxBids, spare, Under(Target, occupied), Under(MaxPortfolio, occupied)})

(* portfolio_snapshot(): the probe of its own jobs may fail and then counts     *)
(* as empty.                                                                   *)
Snapshot(r) ==
  /\ run[r].pc = "listed"
  /\ \E mine \in {{}, {j \in Job : market[j] \in {"assigned", "done"} /\ placed[j] > 0}} :
       LET active   == {j \in mine : market[j] = "assigned"}
           recent   == RecentBids(r, mine)
           occupied == Least({MaxPortfolio, Cardinality(active) + Cardinality(recent)})
       IN Goes(r, [run[r] EXCEPT !.pc = "deliver",
                                 !.capacity = Capacity(r, occupied)])
  /\ UNCHANGED <<market, credits, placed, disk, overlap, forgotten>>

(* escalate_to_tutor() for every assigned job, then ranked: the listed jobs    *)
(* that are not in the state.                                                  *)
Ranked(r) ==
  /\ run[r].pc = "deliver"
  /\ Goes(r, [run[r] EXCEPT !.pc = "bid", !.todo = run[r].listed \ run[r].bids])
  /\ UNCHANGED <<market, credits, placed, disk, overlap, forgotten>>

Market(r, j, taken) ==
  IF taken
    THEN /\ market[j] = "open" /\ credits > 0
         /\ credits' = credits - 1
         /\ placed' = [placed EXCEPT ![j] = @ + 1]
    ELSE UNCHANGED <<credits, placed>>

BidPlaced(r) ==
  /\ run[r].pc = "bid" /\ run[r].capacity > 0
  /\ \E j \in run[r].todo :
       /\ Market(r, j, TRUE)
       /\ Goes(r, [run[r] EXCEPT !.bids = @ \cup {j}, !.todo = @ \ {j}, !.capacity = @ - 1])
  /\ UNCHANGED <<market, disk, overlap, forgotten>>

(* The production policy refuses the job: it has used up its slot.             *)
BidRefused(r) ==
  /\ run[r].pc = "bid" /\ run[r].capacity > 0
  /\ \E j \in run[r].todo :
       Goes(r, [run[r] EXCEPT !.todo = @ \ {j}, !.capacity = @ - 1])
  /\ UNCHANGED <<market, credits, placed, disk, overlap, forgotten>>

(* A bid that failed for this script may have been taken all the same.        *)
BidFailed(r) ==
  /\ run[r].pc = "bid" /\ run[r].capacity > 0
  /\ \E j \in run[r].todo, taken \in BOOLEAN :
       /\ Market(r, j, taken)
       /\ forgotten' = (forgotten \/ taken)
       /\ \/ Goes(r, [run[r] EXCEPT !.pc = "escalate", !.todo = @ \ {j}, !.capacity = @ - 1])
          \/ Goes(r, [run[r] EXCEPT !.pc = "save"])  \* an eligibility error
  /\ UNCHANGED <<market, disk, overlap>>

EscalateBid(r) ==
  /\ run[r].pc = "escalate"
  /\ Goes(r, [run[r] EXCEPT !.pc = "bid"])
  /\ UNCHANGED <<market, credits, placed, disk, overlap, forgotten>>

BidsDone(r) ==
  /\ run[r].pc = "bid"
  /\ run[r].capacity = 0 \/ run[r].todo = {}
  /\ Goes(r, [run[r] EXCEPT !.pc = "save"])
  /\ UNCHANGED <<market, credits, placed, disk, overlap, forgotten>>

Over(r) == [run[r] EXCEPT !.pc = "over", !.todo = {}, !.listed = {},
                          !.bids = {}, !.remaining = 0, !.capacity = 0]

(* Mutant: the state file gets the bids of this run's start.                  *)
SaveOldState(r) ==
  /\ run[r].pc = "save"
  /\ disk' = [bids |-> disk.bids, torn |-> FALSE]
  /\ Goes(r, Over(r))
  /\ UNCHANGED <<market, credits, placed, overlap, forgotten>>

SaveState(r) ==
  /\ run[r].pc = "save"
  /\ disk' = [bids |-> run[r].bids, torn |-> FALSE]
  /\ Goes(r, Over(r))
  /\ UNCHANGED <<market, credits, placed, overlap, forgotten>>

(* The file is written in place: a run that dies then leaves no JSON.          *)
SaveTorn(r) ==
  /\ run[r].pc = "save"
  /\ disk' = [bids |-> {}, torn |-> TRUE]
  /\ forgotten' = TRUE
  /\ Goes(r, Over(r))
  /\ UNCHANGED <<market, credits, placed, overlap>>

(* An exception or a kill anywhere before: what was bid is in no file.         *)
RunLost(r) ==
  /\ run[r].pc \notin {"off", "over"}
  /\ forgotten' = (forgotten \/ ~(run[r].bids \subseteq disk.bids))
  /\ Goes(r, Over(r))
  /\ UNCHANGED <<market, credits, placed, disk, overlap>>

MoltStep(r) ==
  \/ LoadState(r) \/ ReadAllowance(r) \/ ListJobs(r) \/ Snapshot(r)
  \/ Ranked(r) \/ BidPlaced(r) \/ BidRefused(r) \/ BidFailed(r)
  \/ EscalateBid(r) \/ BidsDone(r) \/ SaveState(r) \/ SaveTorn(r) \/ RunLost(r)

(* The market awards a job to a bidder, closes it, or its deadline passes.     *)
MarketMoves(j) ==
  /\ \/ market[j] = "open" /\ placed[j] > 0 /\ market' = [market EXCEPT ![j] = "assigned"]
     \/ market[j] = "open" /\ market' = [market EXCEPT ![j] = "lapsed"]
     \/ market[j] = "assigned" /\ market' = [market EXCEPT ![j] = "done"]
  /\ UNCHANGED <<credits, placed, disk, run, overlap, forgotten>>

MoltNext ==
  \/ \E r \in Run : MoltStep(r)
  \/ \E j \in Job : MarketMoves(j)

MoltSpec == MoltInit /\ [][MoltNext]_molt

-------------------------------------------------------------------------------
MoltTypeOK ==
  /\ market \in [Job -> Markets] /\ credits \in Nat /\ placed \in [Job -> Nat]
  /\ disk \in [bids : SUBSET Job, torn : BOOLEAN]
  /\ run \in [Run -> RunState]
  /\ overlap \in BOOLEAN /\ forgotten \in BOOLEAN

(* A job is bid for twice only if two runs overlapped or the first bid was      *)
(* never written to the state file (a lost run or answer, a torn file).          *)
NoDoubleBid == \A j \in Job : placed[j] <= 1 \/ overlap \/ forgotten
===============================================================================
