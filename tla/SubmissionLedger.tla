--------------------------- MODULE SubmissionLedger ---------------------------
(***************************************************************************)
(* What the runtime without a VM promises about external submissions:      *)
(* "Prepare persists an intent BEFORE submit is allowed.  Uncertain         *)
(* submissions are never automatically repeated."                          *)
(*                                                                         *)
(* A candidate is first reserved, once and for ever, by one holder; only a  *)
(* reserved candidate is attempted, and at most once; only what was         *)
(* attempted can be recorded as submitted.                                 *)
(***************************************************************************)
CONSTANTS
  Cand,   \* candidate opportunities
  Holder  \* who may reserve one: the runs and the operator

VARIABLES
  holders,  \* [Cand -> SUBSET Holder]: who durably reserved the candidate
  attempts, \* [Cand -> Nat]: external submissions started for it
  recorded  \* the candidates with a durable receipt

vars == <<holders, attempts, recorded>>

Init ==
  /\ holders = [c \in Cand |-> {}]
  /\ attempts = [c \in Cand |-> 0]
  /\ recorded = {}

Reserve(c, h) ==
  /\ holders[c] = {}
  /\ holders' = [holders EXCEPT ![c] = {h}]
  /\ UNCHANGED <<attempts, recorded>>

Attempt(c) ==
  /\ holders[c] # {}
  /\ attempts[c] = 0
  /\ attempts' = [attempts EXCEPT ![c] = 1]
  /\ UNCHANGED <<holders, recorded>>

Record(c) ==
  /\ attempts[c] = 1
  /\ recorded' = recorded \cup {c}
  /\ UNCHANGED <<holders, attempts>>

Next ==
  \E c \in Cand :
    \/ \E h \in Holder : Reserve(c, h)
    \/ Attempt(c)
    \/ Record(c)

Spec == Init /\ [][Next]_vars
===============================================================================
