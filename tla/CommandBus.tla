------------------------------ MODULE CommandBus ------------------------------
(***************************************************************************)
(* Orders sent to POST /commands and the Firestore queue that carries some  *)
(* of them to the VM: atlas/commands.py, atlas/vm_command_bus.py and the    *)
(* queue handling, lock and supervision of scripts/vm_monetization_worker.  *)
(*                                                                         *)
(* Each request is a thread of the HTTP server with a fresh command id; a   *)
(* client that retries an order sends another request with the same         *)
(* idempotency key.  A worker process claims queued commands by a Firestore *)
(* transaction, runs them and writes the outcome back.                      *)
(***************************************************************************)
EXTENDS Naturals, FiniteSets

CONSTANTS
  Request,    \* POST /commands, and the id of the command each creates
  Key,        \* idempotency keys
  Worker,     \* deployments of the worker, each with its own lock file
  Window,     \* commands a lookup by key reaches: 100 in the local store, in
              \* Firestore all
  MaxFaults   \* bound: kills of workers and lost outcome reports

ASSUME RequestAssumption   == Request # {}
ASSUME WindowAssumption    == Window \in Nat \ {0}
ASSUME FaultsAssumption    == MaxFaults \in Nat

TERMINAL  == {"completed", "blocked", "failed"}
Answers   == TERMINAL
Records   == {"none", "received", "approval_required", "running"} \cup TERMINAL
Documents == {"none", "queued", "running"} \cup TERMINAL
RequestPC == {"new", "planning", "received", "running", "waiting", "decided", "done"}
WorkerPC  == {"off", "idle", "claimed", "executed"}

VARIABLES
  key,     \* [Request -> Key]: chosen by the clients
  rpc,     \* [Request -> RequestPC]: the server's thread
  record,  \* [Request -> Records]: the status of the stored CommandRecord
  newer,   \* [Request -> SUBSET Request]: the records saved after this one's last save
  answer,  \* [Request -> Answers]: the outcome the thread is about to store
  doc,     \* [Request -> Documents]: the status of the louis_vm_commands document
  wpc,     \* [Worker -> WorkerPC]
  job,     \* [Worker -> [command, outcome]]: the command in hand
  lock,    \* [Worker -> BOOLEAN]: its lock file exists
  runs,    \* [Request -> Nat]: executions started for the command
  faults   \* kills and lost reports so far

vars    == <<key, rpc, record, newer, answer, doc, wpc, job, lock, runs, faults>>
server  == <<key, rpc, record, newer, answer>>
workers == <<wpc, job, lock, faults>>

Init ==
  /\ key \in [Request -> Key]
  /\ rpc = [r \in Request |-> "new"]
  /\ record = [r \in Request |-> "none"]
  /\ newer = [r \in Request |-> {}]
  /\ answer = [r \in Request |-> "failed"]
  /\ doc = [r \in Request |-> "none"]
  /\ wpc = [w \in Worker |-> "off"]
  /\ job \in [Worker -> [command : {CHOOSE r \in Request : TRUE}, outcome : {"failed"}]]
  /\ lock = [w \in Worker |-> FALSE]
  /\ runs = [r \in Request |-> 0]
  /\ faults = 0

-------------------------------------------------------------------------------
(* The thread of one request: create_command().                             *)

Step(r, from, to) == rpc[r] = from /\ rpc' = [rpc EXCEPT ![r] = to]

Save(r, status) ==
  /\ record' = [record EXCEPT ![r] = status]
  /\ newer' = [q \in Request |->
                 IF q # r /\ record[q] # "none" THEN newer[q] \cup {r} ELSE {}]

FindByKey(k) ==
  {q \in Request : record[q] # "none" /\ Cardinality(newer[q]) < Window /\ key[q] = k}

(* Nothing keeps two requests of one key from both looking it up in vain.     *)
Lookup(r) ==
  /\ IF FindByKey(key[r]) = {} THEN Step(r, "new", "planning")
                               ELSE Step(r, "new", "done")
  /\ UNCHANGED <<key, record, newer, answer, doc, runs, workers>>

Receive(r) ==
  /\ Step(r, "planning", "received")
  /\ Save(r, "received")
  /\ UNCHANGED <<key, answer, doc, runs, workers>>

(* An invalid plan, an external action without a route, missing evidence.    *)
Refuse(r) ==
  /\ Step(r, "received", "done")
  /\ \E s \in {"failed", "approval_required", "blocked"} : Save(r, s)
  /\ UNCHANGED <<key, answer, doc, runs, workers>>

Start(r) ==
  /\ Step(r, "received", "running")
  /\ Save(r, "running")
  /\ UNCHANGED <<key, answer, doc, runs, workers>>

(* The routes that execute in the thread; an exception is a "failed".        *)
ExecuteHere(r) ==
  /\ Step(r, "running", "decided")
  /\ runs' = [runs EXCEPT ![r] = @ + 1]
  /\ \E a \in Answers : answer' = [answer EXCEPT ![r] = a]
  /\ UNCHANGED <<key, record, newer, doc, workers>>

(* The Superteam route: enqueue_vm_command, then wait_for_vm_outcome.        *)
Enqueue(r) ==
  /\ Step(r, "running", "waiting")
  /\ doc' = [doc EXCEPT ![r] = "queued"]
  /\ UNCHANGED <<key, record, newer, answer, runs, workers>>

(* Mutant: the waiter returns whatever status it polls.                      *)
ObserveAny(r) ==
  /\ Step(r, "waiting", "decided")
  /\ answer' = [answer EXCEPT ![r] = doc[r]]
  /\ UNCHANGED <<key, record, newer, doc, runs, workers>>

Observe(r) ==
  /\ Step(r, "waiting", "decided")
  /\ doc[r] \in TERMINAL
  /\ answer' = [answer EXCEPT ![r] = doc[r]]
  /\ UNCHANGED <<key, record, newer, doc, runs, workers>>

(* The deadline passes, or enqueueing or a poll raises.                      *)
GiveUp(r) ==
  /\ \/ Step(r, "waiting", "decided") /\ answer' = [answer EXCEPT ![r] = "blocked"]
     \/ /\ Step(r, "running", "decided") \/ Step(r, "waiting", "decided")
        /\ answer' = [answer EXCEPT ![r] = "failed"]
  /\ UNCHANGED <<key, record, newer, doc, runs, workers>>

Finish(r) ==
  /\ Step(r, "decided", "done")
  /\ Save(r, answer[r])
  /\ UNCHANGED <<key, answer, doc, runs, workers>>

(* The instance that serves the request goes away.                           *)
ServerStops(r) ==
  /\ rpc[r] \notin {"new", "done"}
  /\ rpc' = [rpc EXCEPT ![r] = "done"]
  /\ UNCHANGED <<key, record, newer, answer, doc, runs, workers>>

-------------------------------------------------------------------------------
(* A worker deployment: the process main() and its queue.                   *)

Move(w, from, to) == wpc[w] = from /\ wpc' = [wpc EXCEPT ![w] = to]

AcquireLock(w) ==
  /\ Move(w, "off", "idle")
  /\ ~lock[w]
  /\ lock' = [lock EXCEPT ![w] = TRUE]
  /\ UNCHANGED <<server, doc, job, runs, faults>>

(* Mutant: the claim takes whatever has not finished.                        *)
ClaimUnfinished(w, c) ==
  /\ Move(w, "idle", "claimed")
  /\ doc[c] \in {"queued", "running"}
  /\ doc' = [doc EXCEPT ![c] = "running"]
  /\ job' = [job EXCEPT ![w].command = c]
  /\ UNCHANGED <<server, lock, runs, faults>>

(* _claim(): a transaction reads the status and writes "running".            *)
Claim(w, c) ==
  /\ Move(w, "idle", "claimed")
  /\ doc[c] = "queued"
  /\ doc' = [doc EXCEPT ![c] = "running"]
  /\ job' = [job EXCEPT ![w].command = c]
  /\ UNCHANGED <<server, lock, runs, faults>>

(* The executor runs; what it raises or returns outside TERMINAL is "failed".*)
Execute(w) ==
  /\ Move(w, "claimed", "executed")
  /\ runs' = [runs EXCEPT ![job[w].command] = @ + 1]
  /\ \E o \in TERMINAL : job' = [job EXCEPT ![w].outcome = o]
  /\ UNCHANGED <<server, doc, lock, faults>>

Report(w) ==
  /\ Move(w, "executed", "idle")
  /\ doc' = [doc EXCEPT ![job[w].command] = job[w].outcome]
  /\ UNCHANGED <<server, job, lock, runs, faults>>

(* ref.update raises; process_vm_queue() swallows it and the loop goes on.   *)
ReportFails(w) ==
  /\ Move(w, "executed", "idle")
  /\ faults < MaxFaults /\ faults' = faults + 1
  /\ UNCHANGED <<server, doc, job, lock, runs>>

(* Mutant: an exit leaves the lock file behind.                              *)
ExitsLocked(w) ==
  /\ Move(w, "idle", "off")
  /\ UNCHANGED <<server, doc, job, lock, runs, faults>>

(* An exception leaves main() through its finally clause.                    *)
Exits(w) ==
  /\ Move(w, "idle", "off")
  /\ lock' = [lock EXCEPT ![w] = FALSE]
  /\ UNCHANGED <<server, doc, job, runs, faults>>

(* SIGKILL, or SIGTERM for which there is no handler: no finally clause.     *)
Killed(w) ==
  /\ wpc[w] # "off"
  /\ wpc' = [wpc EXCEPT ![w] = "off"]
  /\ faults < MaxFaults /\ faults' = faults + 1
  /\ UNCHANGED <<server, doc, job, lock, runs>>

(* restart_container: docker rm -f, and a container with a fresh disk.  The  *)
(* supervisor does it when it starts (a reboot); a container that docker     *)
(* restarts by itself keeps its disk and counts as running.                  *)
Recreated(w) ==
  /\ wpc' = [wpc EXCEPT ![w] = "off"]
  /\ lock' = [lock EXCEPT ![w] = FALSE]
  /\ wpc[w] # "off" => faults < MaxFaults
  /\ faults' = IF wpc[w] # "off" THEN faults + 1 ELSE faults
  /\ UNCHANGED <<server, doc, job, runs>>

-------------------------------------------------------------------------------
ThreadStep(r) ==
  \/ Lookup(r) \/ Receive(r) \/ Refuse(r) \/ Start(r) \/ ExecuteHere(r)
  \/ Enqueue(r) \/ Observe(r) \/ GiveUp(r) \/ Finish(r)

WorkerStep(w) ==
  \/ AcquireLock(w) \/ (\E c \in Request : Claim(w, c)) \/ Execute(w) \/ Report(w)

Next ==
  \/ \E r \in Request : ThreadStep(r) \/ ServerStops(r)
  \/ \E w \in Worker : \/ WorkerStep(w) \/ ReportFails(w) \/ Exits(w)
                       \/ Killed(w) \/ Recreated(w)

Spec == Init /\ [][Next]_vars

(* The server runs its threads, and a worker polls its queue at least every  *)
(* heartbeat.  Claims compete with other workers' claims and with exits.     *)
Fairness ==
  /\ \A r \in Request : WF_vars(ThreadStep(r))
  /\ \A w \in Worker : /\ WF_vars(AcquireLock(w))
                       /\ WF_vars(Execute(w) \/ Report(w))
                       /\ SF_vars(\E c \in Request : Claim(w, c))
FairSpec == Spec /\ Fairness

-------------------------------------------------------------------------------
TypeOK ==
  /\ key \in [Request -> Key]
  /\ rpc \in [Request -> RequestPC]
  /\ record \in [Request -> Records]
  /\ newer \in [Request -> SUBSET Request]
  /\ answer \in [Request -> Answers]
  /\ doc \in [Request -> Documents]
  /\ wpc \in [Worker -> WorkerPC]
  /\ job \in [Worker -> [command : Request, outcome : TERMINAL]]
  /\ lock \in [Worker -> BOOLEAN]
  /\ runs \in [Request -> Nat]
  /\ faults \in 0..MaxFaults

(* A command is executed at most once, whatever is killed, recreated or      *)
(* retried, by however many workers: a Superteam submission is not           *)
(* idempotent.                                                              *)
RunsOnce == \A r \in Request : runs[r] <= 1

(* "Idempotency key to prevent duplicate execution"                          *)
(* (docs/AUTONOMY_ROADMAP.md): an order is executed once per key, however      *)
(* often and soon the client repeats it.                                     *)
OneExecutionPerKey ==
  \A q, r \in Request : (key[q] = key[r] /\ runs[q] > 0 /\ runs[r] > 0) => q = r

(* A command is marked running by a worker that no longer has it: it was      *)
(* killed after its claim, or its report failed.                             *)
Abandoned(r) ==
  /\ faults > 0 /\ doc[r] = "running"
  /\ \A w \in Worker : ~(wpc[w] \in {"claimed", "executed"} /\ job[w].command = r)

(* A delegated order is decided by a worker, also when another worker is      *)
(* killed, recreated, or leaves its loop: its stale lock file blocks itself   *)
(* only.  Left without an outcome is just the command that a lost worker had  *)
(* claimed, or whose report was lost; nothing ever queues it again.           *)
DelegatedIsDecided ==
  \A r \in Request : doc[r] = "queued" ~> doc[r] \in TERMINAL \/ Abandoned(r)

(* "Container self-healing" (docs/vm-first-runtime.md): whatever is killed,  *)
(* a queued command is eventually picked up.                                 *)
QueuedIsClaimed ==
  \A r \in Request : doc[r] = "queued" ~> doc[r] # "queued"
===============================================================================
