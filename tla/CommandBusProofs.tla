---------------------------- MODULE CommandBusProofs ----------------------------
(***************************************************************************)
(* Proofs about CommandBus, for every set of requests, keys and workers,    *)
(* whatever is killed, recreated, retried or not reported.                  *)
(***************************************************************************)
EXTENDS CommandBus, TLAPS

Undelegated == {"new", "planning", "received", "running"}
Busy        == {"claimed", "executed"}
Job         == [command : Request, outcome : TERMINAL]

(* The part of TypeOK that the executions depend on.                         *)
BusTypeOK ==
  /\ rpc \in [Request -> RequestPC]
  /\ doc \in [Request -> Documents]
  /\ wpc \in [Worker -> WorkerPC]
  /\ job \in [Worker -> Job]
  /\ runs \in [Request -> Nat]

(* A thread that has not decided yet has started nothing.                    *)
NothingStarted == \A r \in Request : rpc[r] \in Undelegated => doc[r] = "none" /\ runs[r] = 0

(* A queued command has not been executed.                                   *)
QueuedIsFresh == \A r \in Request : doc[r] = "queued" => runs[r] = 0

(* A worker's command is marked running, it is not executed before the        *)
(* worker says so, and no other worker has it.                               *)
OneOwner ==
  \A w \in Worker : wpc[w] \in Busy =>
    /\ doc[job[w].command] = "running"
    /\ wpc[w] = "claimed" => runs[job[w].command] = 0
    /\ \A v \in Worker : wpc[v] \in Busy /\ job[v].command = job[w].command => v = w

BusInv == BusTypeOK /\ NothingStarted /\ QueuedIsFresh /\ OneOwner /\ RunsOnce

LEMMA BusInit == Init => BusInv
<1> SUFFICES ASSUME Init PROVE BusInv
  OBVIOUS
<1>1. \A w \in Worker : job[w].command \in Request
  BY RequestAssumption DEF Init
<1> QED
  BY <1>1, RequestAssumption
  DEF Init, BusInv, BusTypeOK, NothingStarted, QueuedIsFresh, OneOwner, RunsOnce, Busy,
      Undelegated, RequestPC, Documents, WorkerPC, Job, TERMINAL

(* What one request's thread does to the executions.                         *)
LEMMA ThreadNext ==
  ASSUME BusInv, NEW r \in Request, ThreadStep(r) \/ ServerStops(r)
  PROVE  BusInv'
<1> USE DEF BusInv, BusTypeOK, NothingStarted, QueuedIsFresh, OneOwner, RunsOnce,
            Step, workers, RequestPC, Undelegated
<1>1. CASE \/ Lookup(r) \/ Receive(r) \/ Refuse(r) \/ Start(r)
           \/ Observe(r) \/ Finish(r) \/ GiveUp(r) \/ ServerStops(r)
  <2>1. UNCHANGED <<doc, wpc, job, runs>>
    BY <1>1 DEF Lookup, Receive, Refuse, Start, Observe, Finish, GiveUp, ServerStops
  <2>2. \E to \in RequestPC : rpc' = [rpc EXCEPT ![r] = to]
                              /\ (to \in Undelegated => rpc[r] \in Undelegated)
    BY <1>1 DEF Lookup, Receive, Refuse, Start, Observe, Finish, GiveUp, ServerStops
  <2> QED
    BY <2>1, <2>2
<1>2. CASE ExecuteHere(r)
  <2>1. runs[r] = 0 /\ doc[r] = "none"
    BY <1>2 DEF ExecuteHere
  <2>2. \A w \in Worker : wpc[w] \in Busy => job[w].command # r
    BY <2>1
  <2>3. \A q \in Request : runs'[q] = IF q = r THEN 1 ELSE runs[q]
    BY <1>2, <2>1 DEF ExecuteHere
  <2>4. UNCHANGED <<doc, wpc, job>> /\ rpc' = [rpc EXCEPT ![r] = "decided"]
    BY <1>2 DEF ExecuteHere
  <2>5. runs' \in [Request -> Nat]
    BY <1>2 DEF ExecuteHere
  <2>6. OneOwner'
    <3> SUFFICES ASSUME NEW w \in Worker, wpc[w] \in Busy
                 PROVE  /\ doc[job[w].command] = "running"
                        /\ wpc[w] = "claimed" => runs'[job[w].command] = 0
                        /\ \A v \in Worker :
                             wpc[v] \in Busy /\ job[v].command = job[w].command => v = w
      BY <2>4
    <3> QED
      BY <2>2, <2>3 DEF Job
  <2>7. BusTypeOK'
    BY <2>4, <2>5
  <2>8. NothingStarted' /\ QueuedIsFresh' /\ RunsOnce'
    BY <2>1, <2>3, <2>4
  <2> QED
    BY <2>6, <2>7, <2>8
<1>3. CASE Enqueue(r)
  <2>1. runs[r] = 0 /\ doc[r] = "none"
    BY <1>3 DEF Enqueue
  <2>2. \A w \in Worker : wpc[w] \in Busy => job[w].command # r
    BY <2>1
  <2>3. UNCHANGED <<runs, wpc, job>> /\ rpc' = [rpc EXCEPT ![r] = "waiting"]
        /\ doc' = [doc EXCEPT ![r] = "queued"]
    BY <1>3 DEF Enqueue
  <2> QED
    BY <2>1, <2>2, <2>3 DEF Documents, Job
<1> QED
  BY <1>1, <1>2, <1>3 DEF ThreadStep

(* What one worker does to the executions.                                   *)
LEMMA WorkerNext ==
  ASSUME BusInv, NEW w \in Worker,
         WorkerStep(w) \/ ReportFails(w) \/ Exits(w) \/ Killed(w) \/ Recreated(w)
  PROVE  BusInv'
<1> USE DEF BusInv, BusTypeOK, NothingStarted, QueuedIsFresh, OneOwner, RunsOnce,
            Move, server, WorkerPC, Busy
<1>1. CASE AcquireLock(w) \/ ReportFails(w) \/ Exits(w) \/ Killed(w) \/ Recreated(w)
  <2>1. UNCHANGED <<doc, rpc, job, runs>>
    BY <1>1 DEF AcquireLock, ReportFails, Exits, Killed, Recreated
  <2>2. \E to \in {"idle", "off"} : wpc' = [wpc EXCEPT ![w] = to]
    BY <1>1 DEF AcquireLock, ReportFails, Exits, Killed, Recreated
  <2> QED
    BY <2>1, <2>2
<1>2. ASSUME NEW c \in Request, Claim(w, c) PROVE BusInv'
  <2>1. UNCHANGED <<rpc, runs>> /\ wpc' = [wpc EXCEPT ![w] = "claimed"]
        /\ doc' = [doc EXCEPT ![c] = "running"] /\ doc[c] = "queued"
    BY <1>2 DEF Claim
  <2>2. /\ job' \in [Worker -> Job] /\ job'[w].command = c
        /\ \A v \in Worker \ {w} : job'[v] = job[v]
    BY <1>2 DEF Claim, Job
  <2>3. \A v \in Worker \ {w} : wpc[v] \in Busy => job[v].command # c
    BY <2>1
  <2>4. runs[c] = 0 /\ rpc[c] \notin Undelegated
    BY <2>1
  <2>5. \A v \in Worker : job[v].command \in Request
    BY DEF Job
  <2>6. BusTypeOK'
    BY <2>1, <2>2 DEF Documents
  <2>7. NothingStarted' /\ QueuedIsFresh' /\ RunsOnce'
    BY <2>1, <2>4
  <2>8. /\ \A q \in Request : doc'[q] = IF q = c THEN "running" ELSE doc[q]
        /\ \A v \in Worker : wpc'[v] = IF v = w THEN "claimed" ELSE wpc[v]
    BY <2>1
  <2>9. OneOwner'
    <3> SUFFICES ASSUME NEW v \in Worker, wpc'[v] \in Busy
                 PROVE  /\ doc'[job'[v].command] = "running"
                        /\ wpc'[v] = "claimed" => runs'[job'[v].command] = 0
                        /\ \A u \in Worker :
                             wpc'[u] \in Busy /\ job'[u].command = job'[v].command => u = v
      OBVIOUS
    <3>1. CASE v = w
      BY <2>1, <2>2, <2>3, <2>4, <2>8, <3>1
    <3>2. CASE v # w
      BY <2>1, <2>2, <2>3, <2>5, <2>8, <3>2
    <3> QED
      BY <3>1, <3>2
  <2> QED
    BY <2>6, <2>7, <2>9
<1>3. CASE Execute(w)
  <2> DEFINE c == job[w].command
  <2>1. c \in Request /\ runs[c] = 0 /\ doc[c] = "running"
    BY <1>3 DEF Execute, Job
  <2>2. UNCHANGED <<rpc, doc>> /\ wpc' = [wpc EXCEPT ![w] = "executed"]
    BY <1>3 DEF Execute
  <2>3. /\ job' \in [Worker -> Job] /\ job'[w].command = c
        /\ \A v \in Worker \ {w} : job'[v] = job[v]
    BY <1>3 DEF Execute, Job
  <2>4. /\ \A q \in Request : runs'[q] = IF q = c THEN 1 ELSE runs[q]
        /\ runs' \in [Request -> Nat]
    BY <1>3, <2>1 DEF Execute
  <2>5. \A v \in Worker : job[v].command \in Request
    BY DEF Job
  <2>6. \A v \in Worker \ {w} : wpc[v] \in Busy => job[v].command # c
    BY <1>3 DEF Execute
  <2>7. rpc[c] \notin Undelegated
    BY <2>1
  <2> HIDE DEF c
  <2>8. OneOwner'
    BY <2>1, <2>2, <2>3, <2>4, <2>5, <2>6
  <2>9. BusTypeOK'
    BY <2>2, <2>3, <2>4
  <2>10. NothingStarted' /\ QueuedIsFresh' /\ RunsOnce'
    BY <2>1, <2>2, <2>4, <2>7
  <2> QED
    BY <2>8, <2>9, <2>10
<1>4. CASE Report(w)
  <2> DEFINE c == job[w].command
  <2>1. c \in Request /\ job[w].outcome \in TERMINAL /\ doc[c] = "running"
    BY <1>4 DEF Report, Job
  <2>2. UNCHANGED <<rpc, runs, job>> /\ wpc' = [wpc EXCEPT ![w] = "idle"]
        /\ doc' = [doc EXCEPT ![c] = job[w].outcome]
    BY <1>4 DEF Report
  <2>3. \A v \in Worker : job[v].command \in Request
    BY DEF Job
  <2>4. \A v \in Worker \ {w} : wpc[v] \in Busy => job[v].command # c
    BY <1>4 DEF Report
  <2>5. rpc[c] \notin Undelegated
    BY <2>1
  <2> HIDE DEF c
  <2> QED
    BY <2>1, <2>2, <2>3, <2>4, <2>5 DEF Documents, TERMINAL
<1> QED
  BY <1>1, <1>2, <1>3, <1>4 DEF WorkerStep

LEMMA BusNext == BusInv /\ [Next]_vars => BusInv'
<1>1. BusInv /\ UNCHANGED vars => BusInv'
  BY DEF BusInv, BusTypeOK, NothingStarted, QueuedIsFresh, OneOwner, RunsOnce, vars
<1> QED
  BY <1>1, ThreadNext, WorkerNext DEF Next

(* A command is executed at most once: whoever retries or dies, the thread    *)
(* that may still start it has not delegated it, a queued command is fresh,   *)
(* and a claimed one has a single owner.                                     *)
THEOREM RunsOnceHolds == Spec => []RunsOnce
<1>1. Init => BusInv
  BY BusInit
<1>2. BusInv /\ [Next]_vars => BusInv'
  BY BusNext
<1>3. BusInv => RunsOnce
  BY DEF BusInv
<1> QED
  BY <1>1, <1>2, <1>3, PTL DEF Spec

-------------------------------------------------------------------------------
(* The records, which the executions do not depend on, and the whole TypeOK.   *)
RecordTypeOK ==
  /\ key \in [Request -> Key]
  /\ record \in [Request -> Records]
  /\ newer \in [Request -> SUBSET Request]
  /\ answer \in [Request -> Answers]
  /\ lock \in [Worker -> BOOLEAN]
  /\ faults \in 0..MaxFaults

(* Saving a record is well typed, and stores nothing else.                     *)
LEMMA SaveType ==
  ASSUME RecordTypeOK, NEW r \in Request, NEW status \in Records \ {"none"},
         Save(r, status)
  PROVE  /\ record' \in [Request -> Records] /\ newer' \in [Request -> SUBSET Request]
         /\ \A q \in Request : record'[q] # "none" <=> q = r \/ record[q] # "none"
  BY DEF Save, RecordTypeOK

LEMMA RecordTypeNext ==
  ASSUME BusTypeOK, RecordTypeOK, [Next]_vars
  PROVE  RecordTypeOK'
<1> USE DEF RecordTypeOK
<1>f. MaxFaults \in Nat
  BY FaultsAssumption
<1>1. ASSUME NEW r \in Request, ThreadStep(r) \/ ServerStops(r) PROVE RecordTypeOK'
  <2> USE DEF workers
  <2>s. ASSUME NEW status \in Records \ {"none"}, Save(r, status),
               UNCHANGED <<key, answer, lock, faults>>
        PROVE  RecordTypeOK'
    BY <2>s, SaveType
  <2>1. CASE Lookup(r) \/ Enqueue(r) \/ ServerStops(r)
    BY <2>1 DEF Lookup, Enqueue, ServerStops
  <2>2. CASE Receive(r) \/ Refuse(r) \/ Start(r)
    BY <2>2, <2>s DEF Receive, Refuse, Start, Records, TERMINAL
  <2>3. CASE Finish(r)
    <3>1. answer[r] \in Records \ {"none"}
      BY DEF Answers, TERMINAL, Records
    <3> QED
      BY <2>3, <2>s, <3>1 DEF Finish
  <2>4. CASE ExecuteHere(r)
    BY <2>4 DEF ExecuteHere
  <2>5. CASE Observe(r)
    BY <2>5 DEF Observe, Answers
  <2>6. CASE GiveUp(r)
    BY <2>6 DEF GiveUp, Answers, TERMINAL
  <2> QED
    BY <1>1, <2>1, <2>2, <2>3, <2>4, <2>5, <2>6 DEF ThreadStep
<1>2. ASSUME NEW w \in Worker,
             WorkerStep(w) \/ ReportFails(w) \/ Exits(w) \/ Killed(w) \/ Recreated(w)
      PROVE  RecordTypeOK'
  <2>1. UNCHANGED <<key, record, newer, answer>>
    BY <1>2 DEF WorkerStep, AcquireLock, Claim, Execute, Report, ReportFails, Exits,
       Killed, Recreated, server
  <2>2. lock' \in [Worker -> BOOLEAN]
    BY <1>2 DEF WorkerStep, AcquireLock, Claim, Execute, Report, ReportFails, Exits,
       Killed, Recreated
  <2>3. faults' \in 0..MaxFaults
    BY <1>2, <1>f DEF WorkerStep, AcquireLock, Claim, Execute, Report, ReportFails, Exits,
       Killed, Recreated
  <2> QED
    BY <2>1, <2>2, <2>3
<1>3. CASE UNCHANGED vars
  BY <1>3 DEF vars
<1> QED
  BY <1>1, <1>2, <1>3 DEF Next

(* The server's threads, the records, the documents and the workers keep their  *)
(* shape.                                                                     *)
THEOREM BusTypeCorrect == Spec => []TypeOK
<1>1. Init => RecordTypeOK
  BY FaultsAssumption DEF Init, RecordTypeOK, Records, Answers, TERMINAL
<1>2. Spec => [](BusInv /\ RecordTypeOK)
  <2>1. Init => BusInv /\ RecordTypeOK
    BY <1>1, BusInit
  <2>2. BusInv /\ RecordTypeOK /\ [Next]_vars => (BusInv /\ RecordTypeOK)'
    BY BusNext, RecordTypeNext DEF BusInv
  <2> QED
    BY <2>1, <2>2, PTL DEF Spec
<1>3. BusInv /\ RecordTypeOK => TypeOK
  BY DEF BusInv, BusTypeOK, RecordTypeOK, TypeOK, Job
<1> QED
  BY <1>2, <1>3, PTL

===============================================================================
