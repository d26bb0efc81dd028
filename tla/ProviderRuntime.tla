---------------------------- MODULE ProviderRuntime ----------------------------
(***************************************************************************)
(* Calls to language models: atlas/providers.py walks the configured order   *)
(* of providers, atlas/provider_runtime.py keeps per provider how often it   *)
(* was called, how often it failed since its last success and until when it   *)
(* rests, and atlas/adaptive_model_router.py tries one reasoning provider     *)
(* first when a prompt is hard.                                               *)
(*                                                                           *)
(* Every caller is a thread of the HTTP server.  The table of states is       *)
(* written under a lock and read without one.                                 *)
(***************************************************************************)
EXTENDS Naturals, FiniteSets, Sequences

CONSTANTS
  Caller,      \* threads of the server
  Provider,
  Order,       \* LLM_PROVIDER_ORDER without repetitions
  Configured,  \* the providers with a key, an address and a model
  Reasoner,    \* LLM_REASONING_PROVIDER
  Limit,       \* <PROVIDER>_MAX_CALLS_PER_INSTANCE, 0 for none
  Threshold,   \* LLM_FAILURES_BEFORE_COOLDOWN
  Rest,        \* LLM_PROVIDER_COOLDOWN_SECONDS
  MaxTime      \* bound: clock readings

ASSUME OrderAssumption ==
  /\ Order \in Seq(Provider)
  /\ Configured \subseteq Provider
  /\ Reasoner \in Provider
ASSUME LimitAssumption ==
  /\ Limit \in [Provider -> Nat]
  /\ Threshold \in Nat \ {0}
  /\ Rest \in Nat \ {0}
  /\ MaxTime \in Nat
ASSUME CallerAssumption == IsFiniteSet(Caller) /\ Caller # {}

VARIABLES
  providers,  \* [Provider -> [calls, failures, blocked]]: _STATES
  now,        \* time.time()
  stage,      \* [Caller -> Stages]: where complete() or routed_complete() stands
  at,         \* [Caller -> Nat]: the position in Order
  clock       \* [Caller -> Nat]: the time `available' has read

routing == <<providers, now, stage, at, clock>>

Stages == {"out", "limit", "cooldown", "asking", "direct", "answered", "raised"}

RoutingInit ==
  /\ providers = [p \in Provider |-> [calls |-> 0, failures |-> 0, blocked |-> 0]]
  /\ now = 0
  /\ stage = [c \in Caller |-> "out"]
  /\ at = [c \in Caller |-> 1]
  /\ clock = [c \in Caller |-> 0]

Current(c) == Order[at[c]]

(* Who has answered: the reasoning provider if the walk was not started.     *)
Answering(c) == IF at[c] = 0 THEN Reasoner ELSE Current(c)

-------------------------------------------------------------------------------
(* complete(): the next provider of the order, or the aggregated error.      *)

Begin(c) ==
  /\ stage' = [stage EXCEPT ![c] = "limit"]
  /\ at' = [at EXCEPT ![c] = 1]

(* routed_complete() on a hard prompt.                                       *)
BeginDirect(c) ==
  /\ stage' = [stage EXCEPT ![c] = "direct"]
  /\ at' = [at EXCEPT ![c] = 0]

Advance(c) ==
  /\ at' = [at EXCEPT ![c] = @ + 1]
  /\ stage' = [stage EXCEPT ![c] = "limit"]

AllFailed(c) ==
  /\ stage[c] = "limit" /\ at[c] > Len(Order)
  /\ stage' = [stage EXCEPT ![c] = "raised"]
  /\ UNCHANGED <<providers, now, at, clock>>

Exhausted(p) == Limit[p] # 0 /\ providers[p].calls >= Limit[p]

(* Mutant: the call count is not looked at.                                  *)
CheckNoLimit(c) ==
  /\ stage[c] = "limit" /\ at[c] <= Len(Order)
  /\ stage' = [stage EXCEPT ![c] = "cooldown"]
  /\ clock' = [clock EXCEPT ![c] = now]
  /\ UNCHANGED <<providers, now, at>>

(* available(): the clock and the call count are read first ...              *)
CheckLimit(c) ==
  /\ stage[c] = "limit" /\ at[c] <= Len(Order)
  /\ IF Exhausted(Current(c))
       THEN Advance(c) /\ UNCHANGED clock
       ELSE /\ stage' = [stage EXCEPT ![c] = "cooldown"]
            /\ clock' = [clock EXCEPT ![c] = now]
            /\ UNCHANGED at
  /\ UNCHANGED <<providers, now>>

(* ... the end of the rest after, neither under the lock.                    *)
CheckCooldown(c) ==
  /\ stage[c] = "cooldown"
  /\ IF providers[Current(c)].blocked <= clock[c] /\ Current(c) \in Configured
       THEN stage' = [stage EXCEPT ![c] = "asking"] /\ UNCHANGED at
       ELSE Advance(c)
  /\ clock' = [clock EXCEPT ![c] = 0]
  /\ UNCHANGED <<providers, now>>

(* record_success() clears the rest whoever began it.                        *)
Succeeds(c) ==
  /\ stage[c] = "asking"
  /\ providers' = [providers EXCEPT ![Current(c)] =
                     [calls |-> @.calls + 1, failures |-> 0, blocked |-> 0]]
  /\ stage' = [stage EXCEPT ![c] = "answered"]
  /\ UNCHANGED <<now, at, clock>>

(* Mutant: the rest starts at the threshold and is not renewed beyond it.    *)
RecordFailureOnce(s) ==
  [calls |-> s.calls + 1, failures |-> s.failures + 1,
   blocked |-> IF s.failures + 1 = Threshold THEN now + Rest ELSE s.blocked]

RecordFailure(s) ==
  [calls |-> s.calls + 1, failures |-> s.failures + 1,
   blocked |-> IF s.failures + 1 >= Threshold THEN now + Rest ELSE s.blocked]

(* An HTTP error, no connection, an empty or malformed answer.               *)
Fails(c) ==
  /\ stage[c] = "asking"
  /\ providers' = [providers EXCEPT ![Current(c)] = RecordFailure(@)]
  /\ Advance(c)
  /\ UNCHANGED <<now, clock>>

(* The socket times out or closes after the request was sent: the exception  *)
(* is neither a RuntimeError nor a ValueError, nothing is recorded and no     *)
(* other provider is tried.                                                   *)
Drops(c) ==
  /\ stage[c] \in {"asking", "direct"}
  /\ stage' = [stage EXCEPT ![c] = "raised"]
  /\ UNCHANGED <<providers, now, at, clock>>

(* complete_with() reads and writes no state.                                *)
DirectSucceeds(c) ==
  /\ stage[c] = "direct" /\ Reasoner \in Configured
  /\ stage' = [stage EXCEPT ![c] = "answered"]
  /\ UNCHANGED <<providers, now, at, clock>>

DirectFails(c) ==
  /\ stage[c] = "direct"
  /\ Begin(c)
  /\ UNCHANGED <<providers, now, clock>>

Tick ==
  /\ now < MaxTime
  /\ now' = now + 1
  /\ UNCHANGED <<providers, stage, at, clock>>

RoutingStep(c) ==
  \/ AllFailed(c) \/ CheckLimit(c) \/ CheckCooldown(c)
  \/ Succeeds(c) \/ Fails(c) \/ Drops(c)
  \/ DirectSucceeds(c) \/ DirectFails(c)

-------------------------------------------------------------------------------
(* The calls and failures of a provider, what its threads and the clock are.  *)
RoutingTypeOK ==
  /\ providers \in [Provider -> [calls : Nat, failures : Nat, blocked : Nat]]
  /\ now \in Nat
  /\ stage \in [Caller -> Stages]
  /\ at \in [Caller -> 0..Len(Order) + 1]
  /\ clock \in [Caller -> Nat]

(* A call limit is exceeded by the other threads at most: available() reads   *)
(* the count before the calls under way are in it.  A call that the socket      *)
(* ends is in no count (Drops).                                               *)
LimitOvershoot ==
  \A p \in Provider :
    Limit[p] # 0 => providers[p].calls < Limit[p] + Cardinality(Caller)

(* The circuit breaker bounds the failures in a row that are recorded of a     *)
(* provider: below the threshold, then once per thread and rest period, however *)
(* checks, failures and late answers interleave.  It is no bound on the calls:  *)
(* one that ends in a read timeout is recorded nowhere (Drops), so a provider   *)
(* that only times out is asked again without bound.                           *)
BreakerBoundsFailures ==
  \A p \in Provider :
    providers[p].failures < Threshold + Cardinality(Caller) * (1 + now \div Rest)
===============================================================================
