-------------------------- MODULE WriteTasksProofs --------------------------
(***************************************************************************)
(* The append for any number of tasks, any Dataset and any remote          *)
(* arguments: no batch is written twice, errors that claim to know what    *)
(* was written are right, a receipt is exact, and the whole implements     *)
(* AppendWrite.                                                            *)
(***************************************************************************)
EXTENDS WriteTasks, TLAPS

\* What the driver has decided so far.
DriverInv ==
    /\ driver \in {"call", "ready"} => \A t \in Tasks : task[t].pc = "idle"
    /\ driver \in {"ready", "running"} =>
           remote.max_retries = 0 /\ ~remote.retry_exceptions
    /\ driver # "done" => outcome = "pending"
    /\ outcome = "receipt" =>
           /\ \A t \in Active : task[t].pc = "returned"
           /\ receipt = [rows    |-> SumFunction([t \in Active |-> task[t].rows]),
                         batches |-> SumFunction([t \in Active |-> task[t].batches])]

\* Only asynchronous inserts are queued, and a request is in one place.
NetInv ==
    /\ net \cap buffered = {}
    /\ buffered # {} => InsertSettings(insert).async

\* In what follows u is the state of task t.

\* No task is ever repeated, and a failure is recorded when it happens.
Once(t, u) ==
    /\ u.attempt = IF u.pc = "idle" THEN 0 ELSE 1
    /\ u.pc # "idle" => t \in Active
    /\ u.pc \notin {"close", "failed"} => u.failure = "none"
    /\ u.pc = "failed" => u.failure # "none"

\* Between two inserts, with nothing gone wrong so far.
Clean(u) ==
    /\ u.pc \in {"idle", "start", "block", "slice", "close", "returned"}
    /\ u.failure = "none"

\* The index of the last batch of the first b blocks.
LastOf(t, b) == IF b = 0 THEN 0 ELSE ds[t].blocks[b].last

\* Where the two loops of write are.
Position(t, u) ==
    /\ u.block <= NumBlocks(t)
    /\ u.drawn <= LastOf(t, u.block)
    /\ u.pc \in {"idle", "start"} => u.block = 0
    /\ u.pc \in {"slice", "waiting"} => u.block > 0
    /\ u.pc = "block" => u.drawn = LastOf(t, u.block)
    /\ u.pc \in {"close", "returned"} /\ Clean(u) =>
           u.block = NumBlocks(t) /\ u.drawn = NumBatches(t)

\* The table holds the first n batches of t and no other.
Exactly(t, n) == \A b \in 1..NumBatches(t) : applied[t][b] = IF b <= n THEN 1 ELSE 0

\* The task knows which of its batches are in the table.
Certain(u) == Clean(u) \/ (u.pc \in {"close", "failed"} /\ u.failure \in Definite)

\* What the counters of a task say about the table and the network.
Ledger(t, u) ==
    /\ u.drawn \in {u.batches, u.batches + 1}
    /\ u.rows = ds[t].rowEnd[u.batches]
    /\ Exactly(t, u.batches) \/ Exactly(t, u.drawn)
    /\ \A r \in Outstanding(t) :
           /\ r.attempt = 1 /\ r.batch = u.drawn
           /\ u.drawn = u.batches + 1 /\ Exactly(t, u.batches)
    /\ Certain(u) => Outstanding(t) = {} /\ Exactly(t, u.batches)
    /\ Clean(u) => u.drawn = u.batches
    /\ u.pc = "waiting" =>
           /\ u.drawn = u.batches + 1
           /\ u.reply = "ok" => Outstanding(t) = {} /\ Exactly(t, u.drawn)
           /\ u.reply \in Kinds => Outstanding(t) = {} /\ Exactly(t, u.batches)

TaskInv(t, u) == Once(t, u) /\ Position(t, u) /\ Ledger(t, u)

\* The inductive invariant.
IInv == TypeOK /\ DriverInv /\ NetInv /\ \A t \in Tasks : TaskInv(t, task[t])
-----------------------------------------------------------------------------
(* The inputs *)

LEMMA InputFacts ==
    ASSUME ds \in Datasets, NEW t \in Tasks
    PROVE  /\ NumBlocks(t) \in Nat /\ NumBatches(t) \in Nat
           /\ LastOf(t, NumBlocks(t)) = NumBatches(t)
           /\ LastOf(t, 0) = 0
           /\ \A b \in 0..NumBlocks(t) : LastOf(t, b) \in Nat /\ LastOf(t, b) <= NumBatches(t)
           /\ \A b \in 1..NumBlocks(t) : LastOf(t, b) = ds[t].blocks[b].last
           /\ \A b \in 0..NumBlocks(t) : b # NumBlocks(t) => LastOf(t, b) <= LastOf(t, b + 1)
           /\ \A b \in 1..NumBlocks(t) : ds[t].blocks[b].schema \in Schemas
           /\ ds[t].rowEnd[0] = 0
           /\ \A b \in 0..NumBatches(t) : ds[t].rowEnd[b] \in Nat
<1>1. IsInput(ds[t])
  BY DatasetsAssumption
<1> DEFINE blocks == ds[t].blocks
<1>2. /\ blocks \in Seq([schema : Schemas, clean : BOOLEAN, last : Nat])
      /\ \A i, j \in DOMAIN blocks : i <= j => blocks[i].last <= blocks[j].last
      /\ ds[t].rowEnd[0] = 0
  BY <1>1 DEF IsInput
<1>3. NumBlocks(t) \in Nat /\ DOMAIN blocks = 1..NumBlocks(t) /\ Len(blocks) = NumBlocks(t)
  BY <1>2 DEF NumBlocks
<1>4. \A b \in 1..NumBlocks(t) : blocks[b] \in [schema : Schemas, clean : BOOLEAN, last : Nat]
  <2> DEFINE BlockSet == [schema : Schemas, clean : BOOLEAN, last : Nat]
  <2>1. blocks \in Seq(BlockSet) /\ NumBlocks(t) = Len(blocks)
    BY <1>2, <1>3
  <2> HIDE DEF BlockSet, blocks
  <2>2. \A b \in 1..NumBlocks(t) : blocks[b] \in BlockSet
    BY <2>1
  <2> QED BY <2>2 DEF BlockSet
<1>5. (blocks = << >>) <=> (NumBlocks(t) = 0)
  BY <1>2, <1>3
<1>6. ds[t].rowEnd \in [0..NumBatches(t) -> Nat]
  <2>1. ds[t].rowEnd \in [0..(IF blocks = << >> THEN 0 ELSE blocks[Len(blocks)].last) -> Nat]
    BY <1>1 DEF IsInput
  <2>2. NumBatches(t) = IF blocks = << >> THEN 0 ELSE blocks[Len(blocks)].last
    BY <1>3, <1>5 DEF NumBatches
  <2> QED BY <2>1, <2>2
<1>7. \A b \in 1..NumBlocks(t) : LastOf(t, b) = blocks[b].last
  BY <1>3 DEF LastOf
<1>8. NumBatches(t) \in Nat /\ LastOf(t, NumBlocks(t)) = NumBatches(t) /\ LastOf(t, 0) = 0
  BY <1>3, <1>4 DEF NumBatches, LastOf
<1>9. \A b \in 0..NumBlocks(t) : LastOf(t, b) \in Nat /\ LastOf(t, b) <= NumBatches(t)
  <2> TAKE b \in 0..NumBlocks(t)
  <2>1. CASE b = 0
    BY <2>1, <1>8
  <2>2. CASE b # 0
    <3>1. b \in DOMAIN blocks /\ NumBlocks(t) \in DOMAIN blocks /\ b <= NumBlocks(t)
      BY <2>2, <1>3
    <3>2. blocks[b].last <= blocks[NumBlocks(t)].last
      BY <3>1, <1>2
    <3> QED BY <3>1, <3>2, <1>3, <1>4, <1>7, <1>8
  <2> QED BY <2>1, <2>2
<1>10. ASSUME NEW b \in 0..NumBlocks(t), b # NumBlocks(t) PROVE LastOf(t, b) <= LastOf(t, b + 1)
  <2>1. b + 1 \in 1..NumBlocks(t)
    BY <1>10, <1>3
  <2>2. CASE b = 0
    BY <2>1, <2>2, <1>9, <1>8, <1>3
  <2>3. CASE b # 0
    <3>1. b \in DOMAIN blocks /\ b + 1 \in DOMAIN blocks /\ b <= b + 1
      BY <2>1, <2>3, <1>3
    <3> QED BY <3>1, <1>2, <1>3, <1>7
  <2> QED BY <2>2, <2>3
<1>11. ds[t].rowEnd[0] = 0 /\ \A b \in 0..NumBatches(t) : ds[t].rowEnd[b] \in Nat
  BY <1>2, <1>6
<1> HIDE DEF blocks
<1>12. \A b \in 1..NumBlocks(t) : blocks[b].schema \in Schemas
  BY <1>4
<1> QED BY <1>3, <1>7, <1>8, <1>9, <1>10, <1>11, <1>12 DEF blocks

LEMMA ErrorFacts ==
    /\ \A k \in Kinds : InsertError(k) \in Failures /\ InsertError(k) # "none"
    /\ \A k \in Kinds :
           TransportTranslate(k, "write client initialization") \in Definite
    /\ \A k \in LostKinds : InsertError(k) = "AmbiguousWriteError"
    /\ {"TransportError", "WriteError", "SchemaError"} \subseteq Definite
    /\ {"none", "AmbiguousWriteError", "Interrupt", "WorkerCrashed"} \cap Definite = {}
    /\ Failures = Definite \cup {"AmbiguousWriteError", "Interrupt", "WorkerCrashed"}
    /\ "none" \notin Failures
    /\ Kinds \cap {"none", "ok"} = {}
BY DEF InsertError, TransportTranslate, Kinds, LostKinds, Failures, Definite, TranslatedErrors
-----------------------------------------------------------------------------
(* The initial states *)

LEMMA InitIInv == Init => IInv
<1> SUFFICES ASSUME Init PROVE IInv
  OBVIOUS
<1>1. TypeOK
  <2>1. remote \in [max_retries : Nat \cup {Absent}, retry_exceptions : BOOLEAN]
    BY UserArgsAssumption DEF Init
  <2>2. NewTask \in TaskStates
    BY DEF NewTask, TaskStates
  <2>3. \A t \in Tasks : applied[t] \in [1..NumBatches(t) -> Nat]
    BY DEF Init
  <2>4. applied = [t \in Tasks |-> applied[t]]
    BY DEF Init
  <2> QED BY <2>1, <2>2, <2>3, <2>4 DEF Init, TypeOK
<1>2. DriverInv /\ NetInv
  BY DEF Init, DriverInv, NetInv, NewTask
<1>3. ASSUME NEW t \in Tasks PROVE TaskInv(t, task[t])
  <2>1. /\ task[t] = NewTask /\ Outstanding(t) = {}
        /\ applied[t] = [b \in 1..NumBatches(t) |-> 0]
    BY DEF Init, Outstanding
  <2>2. Exactly(t, 0)
    BY <2>1, InputFacts DEF Exactly, Init
  <2>3. Once(t, task[t])
    BY <2>1 DEF Once, NewTask
  <2>4. Position(t, task[t])
    BY <2>1, InputFacts DEF Position, Init, NewTask, Clean
  <2>5. Ledger(t, task[t])
    BY <2>1, <2>2, InputFacts, ErrorFacts DEF Ledger, Init, NewTask, Clean, Certain
  <2> QED BY <2>3, <2>4, <2>5 DEF TaskInv
<1> QED BY <1>1, <1>2, <1>3 DEF IInv
-----------------------------------------------------------------------------
(* Steps of the driver leave the tasks and the server alone *)

LEMMA TasksFramed ==
    ASSUME UNCHANGED <<inputs, task, serverVars>>, NEW t \in Tasks, TaskInv(t, task[t])
    PROVE  TaskInv(t, task[t])'
BY DEF inputs, serverVars, TaskInv, Once, Position, Ledger, Active, NumBlocks, NumBatches,
       LastOf, Clean, Certain, Exactly, Outstanding

\* A task that is running keeps the driver from a receipt and from starting.
LEMMA Busy ==
    ASSUME IInv, NEW t \in Tasks, task[t].pc \notin {"idle", "returned"}
    PROVE  driver \notin {"call", "ready"} /\ outcome # "receipt"
BY DEF IInv, DriverInv, TaskInv, Once

LEMMA DriverKeepsIInv == IInv /\ DriverStep => IInv'
<1> SUFFICES ASSUME IInv, DriverStep PROVE IInv'
  OBVIOUS
<1> USE DEF Raise
<1>1. UNCHANGED <<inputs, task, serverVars>>
  BY DEF DriverStep, PrepareArgs, DiscoveryFails, OnWriteComplete, OnWriteStart, OnWriteFailed
<1>2. \A t \in Tasks : TaskInv(t, task[t])'
  BY <1>1, TasksFramed DEF IInv
<1>3. NetInv'
  BY <1>1 DEF IInv, NetInv, inputs, serverVars, InsertSettings
<1>4. TypeOK' /\ DriverInv'
  <2> USE DEF IInv, TypeOK
  <2>1. /\ \A t \in Tasks : NumBatches(t)' = NumBatches(t)
        /\ Active' = Active
    BY <1>1 DEF inputs, NumBatches, NumBlocks, Active
  <2>2. /\ ds' \in Datasets /\ args' \in UserArgs
        /\ insert' \in [mode : {"sync", "async"}, wait : BOOLEAN]
        /\ task' \in [Tasks -> TaskStates]
        /\ net' \cup buffered' \subseteq [task : Tasks, attempt : Nat, batch : Nat]
        /\ applied' = [t \in Tasks |-> applied'[t]]
    BY <1>1 DEF inputs, serverVars
  <2>3. \A r \in net' \cup buffered' : r.batch \in 1..NumBatches(r.task)'
    BY <1>1, <2>1 DEF serverVars
  <2>4. \A t \in Tasks : applied'[t] \in [1..NumBatches(t)' -> Nat]
    BY <1>1, <2>1 DEF serverVars
  <2>5. CASE PrepareArgs
    <3>1. PrepareRemoteArgs(args) \in [max_retries : Nat \cup {Absent}, retry_exceptions : BOOLEAN]
      BY UserArgsAssumption DEF PrepareRemoteArgs
    <3>2. TypeOK'
      BY <2>5, <2>2, <2>3, <2>4, <3>1 DEF PrepareArgs
    <3>3. DriverInv'
      BY <2>5, <1>1, UserArgsAssumption
      DEF PrepareArgs, DriverInv, ArgsRejected, PrepareRemoteArgs, inputs
    <3> QED BY <3>2, <3>3
  <2>6. ASSUME NEW s \in StartSchemas, OnWriteStart(s) PROVE TypeOK' /\ DriverInv'
    <3>1. s \in Schemas \cup {NoSchema}
      <4>1. \A t \in Active : t \in Tasks /\ 1 \in 1..NumBlocks(t)
        BY InputFacts DEF Active
      <4>2. \A t \in Active : ds[t].blocks[1].schema \in Schemas
        BY <4>1, InputFacts
      <4> QED BY <4>2 DEF StartSchemas
    <3>2. TypeOK'
      BY <2>6, <3>1, <2>2, <2>3, <2>4, ErrorFacts DEF OnWriteStart
    <3>3. DriverInv'
      BY <2>6, <1>1 DEF OnWriteStart, DriverInv, inputs
    <3> QED BY <3>2, <3>3
  <2>7. CASE DiscoveryFails
    <3>1. TypeOK'
      BY <2>7, <2>2, <2>3, <2>4 DEF DiscoveryFails
    <3>2. DriverInv'
      BY <2>7, <1>1 DEF DiscoveryFails, DriverInv
    <3> QED BY <3>1, <3>2
  <2>8. CASE OnWriteComplete
    <3>1. TypeOK'
      BY <2>8, <2>2, <2>3, <2>4 DEF OnWriteComplete
    <3>2. receipt' = [rows    |-> SumFunction([t \in Active' |-> task'[t].rows]),
                      batches |-> SumFunction([t \in Active' |-> task'[t].batches])]
      BY <2>8, <2>1 DEF OnWriteComplete
    <3>3. \A t \in Active' : task'[t].pc = "returned"
      BY <2>8, <2>1 DEF OnWriteComplete
    <3>4. driver' = "done"
      BY <2>8 DEF OnWriteComplete
    <3> QED BY <3>1, <3>2, <3>3, <3>4 DEF DriverInv
  <2>9. ASSUME NEW t \in Tasks, OnWriteFailed(t) PROVE TypeOK' /\ DriverInv'
    <3>1. task[t].failure \in Failures
      BY <2>9 DEF OnWriteFailed, TaskStates, TaskInv, Once
    <3>2. task[t].failure # "receipt"
      BY <3>1 DEF Failures, Definite, TranslatedErrors
    <3>3. TypeOK'
      BY <2>9, <3>1, <2>2, <2>3, <2>4 DEF OnWriteFailed
    <3>4. DriverInv'
      BY <2>9, <3>2 DEF OnWriteFailed, DriverInv
    <3> QED BY <3>3, <3>4
  <2> QED BY <2>5, <2>6, <2>7, <2>8, <2>9 DEF DriverStep
<1> QED BY <1>2, <1>3, <1>4 DEF IInv
-----------------------------------------------------------------------------
(* Steps of a task *)

\* A step of task t to state u that leaves the server alone.
LEMMA LocalStep ==
    ASSUME IInv, NEW t \in Tasks, NEW u \in TaskStates, TaskInv(t, u),
           task' = [task EXCEPT ![t] = u],
           UNCHANGED <<inputs, driverVars, serverVars>>,
           driver \notin {"call", "ready"}, outcome # "receipt"
    PROVE  IInv'
<1> USE DEF IInv
<1>1. /\ \A s \in Tasks : NumBatches(s)' = NumBatches(s)
      /\ Active' = Active
  BY DEF inputs, NumBatches, NumBlocks, Active
<1>2. TypeOK'
  BY <1>1 DEF TypeOK, inputs, driverVars, serverVars
<1>3. DriverInv' /\ NetInv'
  BY <1>1 DEF DriverInv, NetInv, InsertSettings, inputs, driverVars, serverVars
<1>4. ASSUME NEW s \in Tasks PROVE TaskInv(s, task[s])'
  <2>1. TaskInv(s, task'[s])
    BY DEF TypeOK
  <2> USE DEF inputs, serverVars, NumBlocks, NumBatches
  <2>2. Once(s, task[s])'
    BY <2>1 DEF TaskInv, Once, Active
  <2>3. Position(s, task[s])'
    BY <2>1 DEF TaskInv, Position, LastOf, Clean
  <2>4. Ledger(s, task[s])'
    <3>1. Outstanding(s)' = Outstanding(s) /\ ds' = ds
      BY DEF Outstanding
    <3>2. \A n : Exactly(s, n)' <=> Exactly(s, n)
      BY DEF Exactly
    <3> HIDE DEF IInv
    <3>3. Ledger(s, task'[s])
      BY <2>1 DEF TaskInv
    <3> QED BY <3>1, <3>2, <3>3 DEF Ledger, Clean, Certain
  <2> QED BY <2>2, <2>3, <2>4 DEF TaskInv
<1> QED BY <1>2, <1>3, <1>4

\* The no-replay gate: while the write runs, only a task that has never been
\* started is runnable.
LEMMA NoRetry ==
    ASSUME IInv, NEW t \in Tasks, driver = "running", Runnable(t) PROVE task[t].pc = "idle"
<1> SUFFICES ASSUME task[t].pc = "failed", CanRetry(t) PROVE FALSE
  BY DEF Runnable
<1>1. task[t].attempt = 1
  BY DEF IInv, TaskInv, Once
<1>2. remote.max_retries = 0
  BY DEF IInv, DriverInv
<1>3. RayRetries(remote) = 0
  BY <1>2, UserArgsAssumption DEF RayRetries
<1> QED BY <1>1, <1>3 DEF CanRetry

\* What LocalStep needs of an action: the state u that it takes the task to.
LEMMA LaunchKeepsIInv ==
    ASSUME IInv, NEW t \in Tasks, Launch(t) PROVE IInv'
<1> DEFINE u == [NewTask EXCEPT !.pc = "start", !.attempt = task[t].attempt + 1, !.schema = schema]
<1>1. task[t] \in TaskStates /\ TaskInv(t, task[t]) /\ ds \in Datasets
  BY DEF IInv, TypeOK
<1>2. u \in TaskStates
  <2>1. NewTask \in TaskStates
    BY DEF TaskStates, NewTask
  <2>2. schema \in Schemas \cup {NoSchema} /\ task[t].attempt + 1 \in Nat
    BY <1>1 DEF IInv, TypeOK, TaskStates
  <2> QED BY <2>1, <2>2 DEF TaskStates
<1>3. Clean(task[t]) /\ task[t].block = 0 /\ task[t].drawn = 0 /\ task[t].batches = 0
  <2>1. task[t].pc = "idle"
    BY NoRetry DEF Launch
  <2> QED BY <1>1, <2>1, InputFacts DEF Clean, TaskInv, Once, Position, Ledger, TaskStates
<1>4. TaskInv(t, u)
  <2>1. Once(t, u)
    BY <1>1, NoRetry DEF Launch, TaskInv, Once, NewTask
  <2>2. Position(t, u)
    BY <1>1, <1>3, InputFacts DEF Position, NewTask
  <2>3. Outstanding(t) = {} /\ Exactly(t, 0)
    BY <1>1, <1>3 DEF TaskInv, Ledger, Certain
  <2>4. Ledger(t, u)
    BY <1>1, <2>3, InputFacts DEF Ledger, NewTask
  <2> QED BY <2>1, <2>2, <2>4 DEF TaskInv
<1>5. driver \notin {"call", "ready"} /\ outcome # "receipt"
  BY DEF Launch, IInv, DriverInv
<1>6. task' = [task EXCEPT ![t] = u] /\ UNCHANGED <<inputs, driverVars, serverVars>>
  BY DEF Launch
<1> HIDE DEF u
<1> QED BY <1>2, <1>4, <1>5, <1>6, LocalStep

LEMMA SessionKeepsIInv ==
    ASSUME IInv, NEW t \in Tasks,
           SessionStart(t) \/ \E kind \in Kinds : SessionStartFails(t, kind)
    PROVE  IInv'
<1>1. task[t] \in TaskStates /\ TaskInv(t, task[t]) /\ ds \in Datasets
  BY DEF IInv, TypeOK
<1>2. task[t].pc = "start"
  BY DEF SessionStart, SessionStartFails
<1>3. driver \notin {"call", "ready"} /\ outcome # "receipt"
  BY <1>2, Busy
<1>4. CASE SessionStart(t)
  <2> DEFINE u == [task[t] EXCEPT !.client = TRUE, !.pc = "block"]
  <2>1. u \in TaskStates
    BY <1>1 DEF TaskStates
  <2>2. Once(t, u) /\ Ledger(t, u)
    BY <1>1, <1>2 DEF TaskInv, Once, Ledger, Clean, Certain, TaskStates
  <2>3. Position(t, u)
    BY <1>1, <1>2, InputFacts DEF TaskInv, Position, TaskStates
  <2>4. TaskInv(t, u)
    BY <2>2, <2>3 DEF TaskInv
  <2>5. task' = [task EXCEPT ![t] = u] /\ UNCHANGED <<inputs, driverVars, serverVars>>
    BY <1>4 DEF SessionStart
  <2> HIDE DEF u
  <2> QED BY <1>3, <2>1, <2>4, <2>5, LocalStep
<1>5. ASSUME NEW kind \in Kinds, SessionStartFails(t, kind) PROVE IInv'
  <2> DEFINE error == TransportTranslate(kind, "write client initialization")
             u == [task[t] EXCEPT !.failure = error, !.pc = "close"]
  <2>1. error \in Definite /\ error \in Failures /\ error # "none"
    BY ErrorFacts
  <2>2. u \in TaskStates
    BY <1>1, <2>1 DEF TaskStates
  <2>3. TaskInv(t, u)
    BY <1>1, <1>2, <2>1, InputFacts, ErrorFacts
    DEF TaskInv, Once, Position, Ledger, Clean, Certain, TaskStates
  <2>4. task' = [task EXCEPT ![t] = u] /\ UNCHANGED <<inputs, driverVars, serverVars>>
    BY <1>5 DEF SessionStartFails, FailWith
  <2> HIDE DEF u
  <2> QED BY <1>3, <2>2, <2>3, <2>4, LocalStep
<1> QED BY <1>4, <1>5

\* A failure of t that says nothing false about what has been written.
LEMMA FailKeepsIInv ==
    ASSUME IInv, NEW t \in Tasks, NEW error \in Failures, FailWith(t, error),
           task[t].pc \in {"block", "waiting"},
           error \in Definite => Outstanding(t) = {} /\ Exactly(t, task[t].batches),
           UNCHANGED <<inputs, driverVars, serverVars>>
    PROVE  IInv'
<1> DEFINE u == [task[t] EXCEPT !.failure = error, !.pc = "close"]
<1>1. task[t] \in TaskStates /\ TaskInv(t, task[t]) /\ ds \in Datasets
  BY DEF IInv, TypeOK
<1>2. driver \notin {"call", "ready"} /\ outcome # "receipt"
  BY Busy
<1>3. error # "none"
  BY ErrorFacts
<1>4. u \in TaskStates
  BY <1>1 DEF TaskStates
<1>5. TaskInv(t, u)
  <2>1. Once(t, u)
    BY <1>1, <1>3 DEF TaskInv, Once, TaskStates
  <2>2. Position(t, u)
    BY <1>1, <1>3 DEF TaskInv, Position, Clean, TaskStates
  <2>3. Ledger(t, u)
    BY <1>1, <1>3 DEF TaskInv, Ledger, Clean, Certain, TaskStates
  <2> QED BY <2>1, <2>2, <2>3 DEF TaskInv
<1>6. task' = [task EXCEPT ![t] = u]
  BY DEF FailWith
<1> HIDE DEF u
<1> QED BY <1>2, <1>4, <1>5, <1>6, LocalStep

LEMMA BlockKeepsIInv ==
    ASSUME IInv, NEW t \in Tasks, NextBlock(t) \/ NoMoreBlocks(t) \/ EndBlock(t) PROVE IInv'
<1>1. task[t] \in TaskStates /\ TaskInv(t, task[t]) /\ ds \in Datasets
  BY DEF IInv, TypeOK
<1>2. driver \notin {"call", "ready"} /\ outcome # "receipt"
  BY Busy DEF NextBlock, NoMoreBlocks, EndBlock
<1>3. UNCHANGED <<inputs, driverVars, serverVars>>
  BY DEF NextBlock, NoMoreBlocks, EndBlock
<1>4. CASE NextBlock(t)
  <2> DEFINE b == ds[t].blocks[task[t].block + 1]
             error == IF SourceSchema(t, b) \in Accepted THEN "WriteError" ELSE "SchemaError"
             source == SourceSchema(t, b)
             u == [task[t] EXCEPT !.block = task[t].block + 1, !.schema = source,
                                  !.pc = "slice"]
  <2>1. task[t].pc = "block" /\ task[t].block < NumBlocks(t)
    BY <1>4 DEF NextBlock
  <2>2. CASE BlockAccepted(t, b)
    <3>1. b.schema \in Schemas
      BY <1>1, <2>1, InputFacts DEF TaskStates
    <3>2. source \in Schemas \cup {NoSchema}
      BY <1>1, <3>1 DEF SourceSchema, TaskStates
    <3>7. task' = [task EXCEPT ![t] = u]
      BY <1>4, <2>2 DEF NextBlock
    <3> HIDE DEF source
    <3>3. u \in TaskStates
      <4>1. task[t].block + 1 \in Nat
        BY <1>1 DEF TaskStates
      <4> QED BY <1>1, <3>2, <4>1 DEF TaskStates
    <3>4. Once(t, u) /\ Ledger(t, u)
      BY <1>1, <2>1, InputFacts DEF TaskInv, Once, Ledger, Clean, Certain, TaskStates
    <3>5. Position(t, u)
      <4>1. LastOf(t, task[t].block) <= LastOf(t, task[t].block + 1)
        BY <1>1, <2>1, InputFacts DEF TaskStates
      <4>2. task[t].drawn = LastOf(t, task[t].block)
        BY <1>1, <2>1 DEF TaskInv, Position
      <4> QED BY <1>1, <2>1, <4>1, <4>2, InputFacts DEF Position, TaskStates
    <3>6. TaskInv(t, u)
      BY <3>4, <3>5 DEF TaskInv
    <3> HIDE DEF u
    <3> QED BY <1>2, <1>3, <3>3, <3>6, <3>7, LocalStep
  <2>3. CASE ~BlockAccepted(t, b)
    <3>1. FailWith(t, error)
      BY <1>4, <2>3 DEF NextBlock
    <3>2. Outstanding(t) = {} /\ Exactly(t, task[t].batches)
      BY <1>1, <2>1 DEF TaskInv, Once, Ledger, Certain, Clean
    <3>3. error \in Failures
      BY ErrorFacts
    <3> HIDE DEF error
    <3> QED BY <1>3, <2>1, <3>1, <3>2, <3>3, FailKeepsIInv
  <2> QED BY <2>2, <2>3
<1>5. CASE NoMoreBlocks(t)
  <2> DEFINE u == [task[t] EXCEPT !.pc = "close"]
  <2>1. u \in TaskStates
    BY <1>1 DEF TaskStates
  <2>2. TaskInv(t, u)
    BY <1>1, <1>5, InputFacts
    DEF NoMoreBlocks, TaskInv, Once, Position, Ledger, Clean, Certain, TaskStates
  <2>3. task' = [task EXCEPT ![t] = u]
    BY <1>1, <1>5 DEF NoMoreBlocks, IInv, TypeOK
  <2> HIDE DEF u
  <2> QED BY <1>2, <1>3, <2>1, <2>2, <2>3, LocalStep
<1>6. CASE EndBlock(t)
  <2> DEFINE u == [task[t] EXCEPT !.pc = "block"]
  <2>1. u \in TaskStates
    BY <1>1 DEF TaskStates
  <2>2. Block(t).last = LastOf(t, task[t].block)
    BY <1>1, <1>6, InputFacts DEF EndBlock, Block, TaskInv, Position, TaskStates
  <2>3. TaskInv(t, u)
    BY <1>1, <1>6, <2>2, InputFacts
    DEF EndBlock, TaskInv, Once, Position, Ledger, Clean, Certain, TaskStates
  <2>4. task' = [task EXCEPT ![t] = u]
    BY <1>1, <1>6 DEF EndBlock, IInv, TypeOK
  <2> HIDE DEF u
  <2> QED BY <1>2, <1>3, <2>1, <2>3, <2>4, LocalStep
<1> QED BY <1>4, <1>5, <1>6

LEMMA ConfirmedKeepsIInv ==
    ASSUME IInv, NEW t \in Tasks, Confirmed(t) PROVE IInv'
<1> DEFINE w == task[t]
           u == [task[t] EXCEPT !.batches = w.batches + 1, !.rows = w.rows + Rows(t, w.drawn),
                                !.pc = "slice"]
<1>1. w \in TaskStates /\ TaskInv(t, w) /\ ds \in Datasets
  BY DEF IInv, TypeOK
<1>2. w.pc = "waiting" /\ w.reply = "ok"
  BY DEF Confirmed
<1>3. driver \notin {"call", "ready"} /\ outcome # "receipt"
  BY <1>2, Busy
<1>4. /\ w.drawn = w.batches + 1 /\ Outstanding(t) = {} /\ Exactly(t, w.drawn)
      /\ w.rows = ds[t].rowEnd[w.batches] /\ w.batches \in Nat /\ w.drawn \in Nat
  BY <1>1, <1>2 DEF TaskInv, Ledger, TaskStates
<1>5. w.drawn <= NumBatches(t)
  BY <1>1, <1>4, InputFacts DEF TaskInv, Position, TaskStates
<1>6. /\ Rows(t, w.drawn) = ds[t].rowEnd[w.drawn] - ds[t].rowEnd[w.batches]
      /\ ds[t].rowEnd[w.drawn] \in Nat /\ ds[t].rowEnd[w.batches] \in Nat
  <2>1. NumBatches(t) \in Nat /\ w.drawn \in 0..NumBatches(t) /\ w.batches \in 0..NumBatches(t)
        /\ w.drawn - 1 = w.batches
    BY <1>1, <1>4, <1>5, InputFacts
  <2> QED BY <1>1, <2>1, InputFacts DEF Rows
<1>7. w.rows + Rows(t, w.drawn) = ds[t].rowEnd[w.drawn]
  BY <1>4, <1>6
<1>8. u \in TaskStates
  <2>1. w.batches + 1 \in Nat /\ w.rows + Rows(t, w.drawn) \in Int
    BY <1>4, <1>6, <1>7
  <2> QED BY <1>1, <2>1 DEF TaskStates
<1>9. TaskInv(t, u)
  <2>1. Once(t, u) /\ Position(t, u)
    BY <1>1, <1>2 DEF TaskInv, Once, Position, Clean, TaskStates
  <2>2. u.batches = w.drawn /\ u.drawn = w.drawn /\ u.rows = ds[t].rowEnd[w.drawn]
        /\ u.pc = "slice"
    BY <1>1, <1>4, <1>7 DEF TaskStates
  <2>3. Ledger(t, u)
    BY <1>4, <2>2 DEF Ledger
  <2> QED BY <2>1, <2>3 DEF TaskInv
<1>10. task' = [task EXCEPT ![t] = u] /\ UNCHANGED <<inputs, driverVars, serverVars>>
  BY DEF Confirmed
<1> HIDE DEF u
<1> QED BY <1>3, <1>8, <1>9, <1>10, LocalStep

LEMMA AnswerKeepsIInv ==
    ASSUME IInv, NEW t \in Tasks,
           Rejected(t) \/ Interrupted(t) \/ \E kind \in LostKinds : GiveUp(t, kind)
    PROVE  IInv'
<1>1. task[t] \in TaskStates /\ TaskInv(t, task[t])
  BY DEF IInv, TypeOK
<1>2. task[t].pc = "waiting" /\ UNCHANGED <<inputs, driverVars, serverVars>>
  BY DEF Rejected, Interrupted, GiveUp
<1>3. CASE Rejected(t)
  <2>1. Outstanding(t) = {} /\ Exactly(t, task[t].batches)
    BY <1>1, <1>2, <1>3 DEF Rejected, TaskInv, Ledger
  <2>2. FailWith(t, InsertError(task[t].reply)) /\ InsertError(task[t].reply) \in Failures
    BY <1>3, ErrorFacts DEF Rejected
  <2> QED BY <1>2, <2>1, <2>2, FailKeepsIInv
<1>4. CASE Interrupted(t)
  BY <1>2, <1>4, ErrorFacts, FailKeepsIInv DEF Interrupted
<1>5. ASSUME NEW kind \in LostKinds, GiveUp(t, kind) PROVE IInv'
  <2>1. /\ InsertError(kind) = "AmbiguousWriteError"
        /\ "AmbiguousWriteError" \in Failures /\ "AmbiguousWriteError" \notin Definite
    BY ErrorFacts
  <2>2. FailWith(t, "AmbiguousWriteError")
    BY <1>5, <2>1 DEF GiveUp
  <2> QED BY <1>2, <2>1, <2>2, FailKeepsIInv
<1> QED BY <1>3, <1>4, <1>5

LEMMA EndKeepsIInv ==
    ASSUME IInv, NEW t \in Tasks, Close(t) \/ CloseFails(t) \/ WorkerCrash(t) PROVE IInv'
<1>1. task[t] \in TaskStates /\ TaskInv(t, task[t])
  BY DEF IInv, TypeOK
<1>2. task[t].pc \in {"start", "block", "slice", "waiting", "close"}
  BY DEF Close, CloseFails, WorkerCrash
<1>3. driver \notin {"call", "ready"} /\ outcome # "receipt"
  BY <1>2, Busy
<1>4. CASE Close(t)
  <2> DEFINE u == [task[t] EXCEPT !.client = FALSE,
                      !.pc = IF task[t].failure = "none" THEN "returned" ELSE "failed"]
  <2>1. u \in TaskStates
    BY <1>1 DEF TaskStates
  <2>2. TaskInv(t, u)
    BY <1>1, <1>4, ErrorFacts
    DEF Close, TaskInv, Once, Position, Ledger, Clean, Certain, TaskStates
  <2>3. task' = [task EXCEPT ![t] = u] /\ UNCHANGED <<inputs, driverVars, serverVars>>
    BY <1>4 DEF Close
  <2> HIDE DEF u
  <2> QED BY <1>3, <2>1, <2>2, <2>3, LocalStep
<1>5. CASE CloseFails(t)
  <2> DEFINE error == IF task[t].failure = "none" THEN "TransportError" ELSE task[t].failure
             u == [task[t] EXCEPT !.client = FALSE, !.pc = "failed", !.failure = error]
  <2>1. error \in Failures /\ error # "none"
    BY <1>1, ErrorFacts DEF TaskStates
  <2>2. u \in TaskStates
    BY <1>1, <2>1 DEF TaskStates
  <2>3. Once(t, u) /\ Position(t, u)
    BY <1>1, <1>2, <2>1 DEF TaskInv, Once, Position, Clean, TaskStates
  <2>4. Certain(u) => Certain(task[t])
    BY <1>1, <1>5 DEF CloseFails, Certain, Clean, TaskStates
  <2>5. Ledger(t, u)
    BY <1>1, <2>4, ErrorFacts DEF TaskInv, Ledger, Clean, TaskStates
  <2>6. task' = [task EXCEPT ![t] = u] /\ UNCHANGED <<inputs, driverVars, serverVars>>
    BY <1>5 DEF CloseFails
  <2>7. TaskInv(t, u)
    BY <2>3, <2>5 DEF TaskInv
  <2> HIDE DEF u
  <2> QED BY <1>3, <2>2, <2>6, <2>7, LocalStep
<1>6. CASE WorkerCrash(t)
  <2> DEFINE u == [task[t] EXCEPT !.client = FALSE, !.failure = "WorkerCrashed", !.pc = "failed"]
  <2>1. u \in TaskStates
    BY <1>1, ErrorFacts DEF TaskStates
  <2>2. TaskInv(t, u)
    BY <1>1, <1>2, ErrorFacts
    DEF TaskInv, Once, Position, Ledger, Clean, Certain, TaskStates
  <2>3. task' = [task EXCEPT ![t] = u] /\ UNCHANGED <<inputs, driverVars, serverVars>>
    BY <1>6 DEF WorkerCrash
  <2> HIDE DEF u
  <2> QED BY <1>3, <2>1, <2>2, <2>3, LocalStep
<1> QED BY <1>4, <1>5, <1>6
-----------------------------------------------------------------------------
(* Requests *)

LEMMA InsertKeepsIInv ==
    ASSUME IInv, NEW t \in Tasks, Insert(t) PROVE IInv'
<1> DEFINE w == task[t]
           u == [task[t] EXCEPT !.drawn = w.drawn + 1, !.reply = "none", !.pc = "waiting"]
           q == [task |-> t, attempt |-> w.attempt, batch |-> w.drawn + 1]
<1>1. /\ w \in TaskStates /\ TaskInv(t, w) /\ ds \in Datasets
      /\ w.pc = "slice" /\ w.drawn < Block(t).last
  BY DEF IInv, TypeOK, Insert
<1>2. /\ task' = [task EXCEPT ![t] = u] /\ net' = net \cup {q}
      /\ UNCHANGED <<inputs, driverVars, buffered, applied>>
  BY DEF Insert
<1>3. /\ w.attempt = 1 /\ w.drawn = w.batches /\ Outstanding(t) = {} /\ Exactly(t, w.drawn)
      /\ w.failure = "none" /\ w.drawn \in Nat /\ w.rows = ds[t].rowEnd[w.batches]
  BY <1>1 DEF TaskInv, Once, Ledger, Clean, Certain, TaskStates
<1>4. w.block \in 1..NumBlocks(t) /\ Block(t).last = LastOf(t, w.block)
  BY <1>1, InputFacts DEF TaskInv, Position, Block, TaskStates
<1>5. w.drawn + 1 <= LastOf(t, w.block) /\ w.drawn + 1 \in 1..NumBatches(t)
  BY <1>1, <1>3, <1>4, InputFacts
<1>6. u \in TaskStates
  <2>1. w.drawn + 1 \in Nat
    BY <1>3
  <2> QED BY <1>1, <2>1 DEF TaskStates
<1>7. /\ \A s \in Tasks : NumBatches(s)' = NumBatches(s)
      /\ \A s \in Tasks : s # t => task'[s] = task[s]
      /\ task'[t] = u /\ Active' = Active
      /\ net' \cup buffered' = (net \cup buffered) \cup {q}
  BY <1>2 DEF inputs, NumBatches, NumBlocks, Active, IInv, TypeOK
<1>8. q \in [task : Tasks, attempt : Nat, batch : Nat] /\ q.task = t /\ q.batch = w.drawn + 1
      /\ q.attempt = 1
  BY <1>3
<1> HIDE DEF q
<1>9. TypeOK'
  <2>1. task' \in [Tasks -> TaskStates]
    BY <1>2, <1>6 DEF IInv, TypeOK
  <2>2. /\ net' \cup buffered' \subseteq [task : Tasks, attempt : Nat, batch : Nat]
        /\ \A r \in net' \cup buffered' : r.batch \in 1..NumBatches(r.task)'
    BY <1>5, <1>7, <1>8 DEF IInv, TypeOK
  <2>3. /\ applied' = [s \in Tasks |-> applied'[s]]
        /\ \A s \in Tasks : applied'[s] \in [1..NumBatches(s)' -> Nat]
    BY <1>2, <1>7 DEF IInv, TypeOK
  <2> QED BY <1>2, <2>1, <2>2, <2>3 DEF IInv, TypeOK, inputs, driverVars
<1>10. DriverInv'
  <2>1. driver \notin {"call", "ready"} /\ outcome # "receipt"
    BY <1>1, Busy
  <2> QED BY <1>2, <2>1 DEF IInv, DriverInv, inputs, driverVars
<1>11. NetInv'
  <2>1. q \notin buffered
    BY <1>3, <1>8 DEF Outstanding
  <2> QED BY <1>2, <2>1 DEF IInv, NetInv, InsertSettings, inputs
<1>12. ASSUME NEW s \in Tasks PROVE TaskInv(s, task[s])'
  <2>1. CASE s = t
    <3>1. Outstanding(t)' = {q} /\ (\A n : Exactly(t, n)' <=> Exactly(t, n))
      BY <1>2, <1>3, <1>7, <1>8 DEF Outstanding, Exactly
    <3>2. u.batches = w.drawn /\ u.drawn = w.drawn + 1 /\ u.rows = w.rows
          /\ u.pc = "waiting" /\ u.reply = "none" /\ u.failure = "none" /\ u.block = w.block
          /\ u.attempt = 1
      BY <1>1, <1>3 DEF TaskStates
    <3>3. Once(t, task[t])'
      BY <1>1, <1>7, <3>2 DEF Once, TaskInv
    <3>4. Position(t, task[t])'
      BY <1>1, <1>2, <1>4, <1>5, <1>7, <3>2
      DEF Position, LastOf, NumBlocks, TaskInv, inputs, Clean
    <3>5. Ledger(t, task[t])'
      <4>1. /\ task'[t] = u /\ ds' = ds /\ applied' = applied
            /\ NumBatches(t)' = NumBatches(t) /\ w.drawn = w.batches
        BY <1>2, <1>3, <1>7 DEF inputs
      <4>2. Exactly(t, w.batches)'
        BY <1>3, <4>1 DEF Exactly
      <4>3. ~Clean(u) /\ ~Certain(u)
        BY <3>2 DEF Clean, Certain
      <4> HIDE DEF u, w
      <4>4. \A r \in Outstanding(t)' : r.attempt = 1 /\ r.batch = u.drawn
        BY <1>8, <3>1, <3>2
      <4> QED BY <1>3, <3>2, <4>1, <4>2, <4>3, <4>4, ErrorFacts
          DEF Ledger, Clean, Certain, Exactly
    <3> QED BY <2>1, <3>3, <3>4, <3>5 DEF TaskInv
  <2>2. CASE s # t
    <3>1. TaskInv(s, task[s]) /\ task'[s] = task[s]
      BY <1>7, <2>2 DEF IInv
    <3>2. Outstanding(s)' = Outstanding(s)
      BY <1>7, <1>8, <2>2 DEF Outstanding
    <3> QED BY <1>2, <3>1, <3>2, ZenonT(30)
        DEF TaskInv, Once, Position, Ledger, Clean, Certain, Exactly, inputs, Active,
            NumBatches, NumBlocks, LastOf
  <2> QED BY <2>1, <2>2
<1> QED BY <1>9, <1>10, <1>11, <1>12 DEF IInv

\* The server has done with request r: it has added the batch and perhaps said
\* so, or has not added it and perhaps reported an error.
LEMMA Processed ==
    ASSUME IInv, NEW r \in net \cup buffered, UNCHANGED <<inputs, driverVars>>,
           net' = net \ {r}, buffered' = buffered \ {r},
           \/ Apply(r) /\ Reply(r, "ok")
           \/ applied' = applied /\ (task' = task \/ \E kind \in Kinds : Reply(r, kind))
    PROVE  IInv'
<1> DEFINE t == r.task
           w == task[t]
<1>1. /\ t \in Tasks /\ r \in Outstanding(t) /\ w \in TaskStates /\ TaskInv(t, w)
      /\ r.batch \in 1..NumBatches(t) /\ ds \in Datasets
  BY DEF IInv, TypeOK, Outstanding
<1>2. /\ r.attempt = 1 /\ r.batch = w.drawn /\ w.drawn = w.batches + 1
      /\ Exactly(t, w.batches) /\ ~Certain(w) /\ w.batches \in Nat
  BY <1>1 DEF TaskInv, Ledger, TaskStates
<1>3. w.pc \in {"waiting", "close", "failed"} /\ w.attempt = 1
  BY <1>1, <1>2 DEF TaskInv, Once, Certain, Clean, TaskStates
<1>4. driver \notin {"call", "ready"} /\ outcome # "receipt"
  BY <1>1, <1>3, Busy
<1>5. Outstanding(t) = {r}
  <2>1. ASSUME NEW q \in Outstanding(t) PROVE q = r
    <3>1. q.attempt = r.attempt /\ q.batch = r.batch /\ q.task = r.task
      BY <1>1, <1>2 DEF TaskInv, Ledger, Outstanding
    <3>2. /\ q \in [task : Tasks, attempt : Nat, batch : Nat]
          /\ r \in [task : Tasks, attempt : Nat, batch : Nat]
      BY DEF Outstanding, IInv, TypeOK
    <3> QED BY <3>1, <3>2
  <2> QED BY <1>1, <2>1
<1>6. /\ Outstanding(t)' = {}
      /\ \A s \in Tasks : s # t => Outstanding(s)' = Outstanding(s)
  BY <1>1, <1>5 DEF Outstanding
<1>7. \A s \in Tasks : s # t => applied'[s] = applied[s]
  BY <1>1 DEF Apply, IInv, TypeOK
<1>8. w.pc = "waiting" => w.reply = "none"
  BY <1>1, <1>5 DEF TaskInv, Ledger, TaskStates
<1> DEFINE Answered(u, a) ==
             /\ u \in TaskStates /\ u.pc = w.pc /\ u.attempt = w.attempt /\ u.block = w.block
             /\ u.drawn = w.drawn /\ u.batches = w.batches /\ u.rows = w.rows
             /\ u.failure = w.failure /\ (u.pc = "waiting" => u.reply = a)
<1>9. ASSUME NEW a \in {"none", "ok"} \cup Kinds,
             Reply(r, a) \/ (a = "none" /\ task' = task)
      PROVE  /\ task' \in [Tasks -> TaskStates] /\ Answered(task'[t], a)
             /\ \A s \in Tasks : s # t => task'[s] = task[s]
  <2>1. task \in [Tasks -> TaskStates]
    BY DEF IInv, TypeOK
  <2>2. CASE w.pc = "waiting" /\ Reply(r, a)
    <3>1. task' = [task EXCEPT ![t].reply = a]
      BY <1>2, <1>3, <2>2 DEF Reply
    <3> QED BY <1>1, <2>1, <3>1 DEF TaskStates
  <2>3. CASE w.pc # "waiting" \/ ~Reply(r, a)
    <3>1. task' = task
      BY <1>9, <2>3 DEF Reply
    <3> QED BY <1>1, <1>8, <1>9, <2>1, <2>3, <3>1
  <2> QED BY <2>2, <2>3
<1>10. ASSUME NEW a \in {"none", "ok"} \cup Kinds, NEW n \in Nat,
              n = IF a = "ok" THEN w.drawn ELSE w.batches,
              \A b \in 1..NumBatches(t) : applied'[t][b] = IF b <= n THEN 1 ELSE 0,
              applied'[t] \in [1..NumBatches(t) -> Nat],
              applied' = [s \in Tasks |-> applied'[s]],
              task' \in [Tasks -> TaskStates], Answered(task'[t], a),
              \A s \in Tasks : s # t => task'[s] = task[s]
       PROVE  IInv'
  <2>1. \A s \in Tasks : NumBatches(s)' = NumBatches(s)
    BY DEF inputs, NumBatches, NumBlocks
  <2>2. TypeOK'
    <3>1. \A s \in Tasks : applied'[s] \in [1..NumBatches(s)' -> Nat]
      BY <1>7, <1>10, <2>1 DEF IInv, TypeOK
    <3>2. \A q \in net' \cup buffered' : q.batch \in 1..NumBatches(q.task)'
      BY <2>1 DEF IInv, TypeOK
    <3>3. net' \cup buffered' \subseteq [task : Tasks, attempt : Nat, batch : Nat]
      BY DEF IInv, TypeOK
    <3> QED BY <1>10, <3>1, <3>2, <3>3 DEF IInv, TypeOK, inputs, driverVars
  <2>3. DriverInv' /\ NetInv'
    BY <1>4 DEF IInv, DriverInv, NetInv, InsertSettings, inputs, driverVars
  <2>4. ASSUME NEW s \in Tasks PROVE TaskInv(s, task[s])'
    <3> USE DEF inputs, NumBlocks, NumBatches
    <3>1. CASE s = t
      <4>1. Once(t, task[t])'
        BY <1>1, <1>10 DEF Once, TaskInv, Active
      <4>2. Position(t, task[t])'
        BY <1>1, <1>3, <1>10 DEF Position, LastOf, TaskInv, Clean
      <4>3. ~Certain(task'[t]) /\ ~Clean(task'[t])
        BY <1>2, <1>10 DEF Certain, Clean
      <4>4. Ledger(t, task[t])'
        <5> DEFINE u == task'[t]
        <5>1. /\ u.drawn = w.batches + 1 /\ u.batches = w.batches
              /\ u.rows = ds'[t].rowEnd[u.batches] /\ (u.pc = "waiting" => u.reply = a)
          BY <1>1, <1>2, <1>10 DEF TaskInv, Ledger
        <5>2. n \in {u.batches, u.drawn} /\ (a = "ok" => n = u.drawn)
              /\ (a \in Kinds => n = u.batches)
          BY <1>2, <1>10, <5>1, ErrorFacts
        <5> HIDE DEF u
        <5>3. \A b \in 1..NumBatches(t)' : applied'[t][b] = IF b <= n THEN 1 ELSE 0
          BY <1>1, <1>10, <2>1
        <5> QED BY <1>6, <4>3, <5>1, <5>2, <5>3 DEF u, Ledger, Certain, Clean, Exactly
      <4> QED BY <3>1, <4>1, <4>2, <4>4 DEF TaskInv
    <3>2. CASE s # t
      <4>1. /\ TaskInv(s, task[s]) /\ task'[s] = task[s]
            /\ applied'[s] = applied[s] /\ Outstanding(s)' = Outstanding(s)
        BY <1>6, <1>7, <1>10, <3>2 DEF IInv
      <4> QED BY <4>1
          DEF TaskInv, Once, Position, Ledger, Clean, Certain, Exactly, Active, LastOf
    <3> QED BY <3>1, <3>2
  <2> QED BY <2>2, <2>3, <2>4 DEF IInv
<1>11. CASE Apply(r) /\ Reply(r, "ok")
  <2>1. /\ applied'[t] = [applied[t] EXCEPT ![r.batch] = applied[t][r.batch] + 1]
        /\ applied' = [s \in Tasks |-> applied'[s]]
    BY <1>1, <1>11 DEF Apply, IInv, TypeOK
  <2>2. applied[t] \in [1..NumBatches(t) -> Nat]
    BY <1>1 DEF IInv, TypeOK
  <2> DEFINE f == applied[t]
             g == applied'[t]
             last == NumBatches(t)
             c == r.batch
  <2>3. /\ f \in [1..last -> Nat] /\ c \in 1..last /\ g = [f EXCEPT ![c] = f[c] + 1]
        /\ last \in Nat /\ c = w.drawn /\ w.drawn = w.batches + 1 /\ w.batches \in Nat
        /\ \A b \in 1..last : f[b] = IF b <= w.batches THEN 1 ELSE 0
    BY <1>1, <1>2, <2>1, <2>2, InputFacts DEF Exactly
  <2> HIDE DEF f, g, c, last, w
  <2>4. g \in [1..last -> Nat]
    <3>1. f[c] + 1 \in Nat
      BY <2>3
    <3> QED BY <2>3, <3>1
  <2>5. \A b \in 1..last : g[b] = IF b <= w.drawn THEN 1 ELSE 0
    BY <2>3
  <2>6. w.drawn \in Nat /\ "ok" \in {"none", "ok"} \cup Kinds
    BY <2>3
  <2> USE DEF f, g, last, w
  <2>7. /\ task' \in [Tasks -> TaskStates] /\ Answered(task'[t], "ok")
        /\ \A s \in Tasks : s # t => task'[s] = task[s]
    BY <1>9, <1>11, <2>6
  <2> HIDE DEF w, Answered
  <2> QED BY <1>10, <2>1, <2>4, <2>5, <2>6, <2>7
<1>12. CASE applied' = applied /\ (task' = task \/ \E kind \in Kinds : Reply(r, kind))
  <2>1. /\ \A b \in 1..NumBatches(t) : applied'[t][b] = IF b <= w.batches THEN 1 ELSE 0
        /\ applied'[t] \in [1..NumBatches(t) -> Nat]
        /\ applied' = [s \in Tasks |-> applied'[s]]
    BY <1>1, <1>2, <1>12 DEF Exactly, IInv, TypeOK
  <2>2. PICK a \in {"none", "ok"} \cup Kinds :
            a # "ok" /\ (Reply(r, a) \/ (a = "none" /\ task' = task))
    BY <1>12, ErrorFacts
  <2>3. /\ task' \in [Tasks -> TaskStates] /\ Answered(task'[t], a)
        /\ \A s \in Tasks : s # t => task'[s] = task[s]
    BY <1>9, <2>2
  <2> QED BY <1>2, <1>10, <2>1, <2>2, <2>3
<1> QED BY <1>11, <1>12

\* An asynchronous request is queued; since the call waits, nobody is told.
LEMMA QueuedKeepsIInv ==
    ASSUME IInv, NEW r \in net \cup buffered, ServerBuffer(r) PROVE IInv'
<1>1. /\ r \in net /\ net' = net \ {r} /\ buffered' = buffered \cup {r}
      /\ task' = task /\ applied' = applied /\ UNCHANGED <<inputs, driverVars>>
      /\ InsertSettings(insert).async
  BY DEF ServerBuffer, InsertSettings
<1>2. net' \cup buffered' = net \cup buffered
  BY <1>1
<1>3. \A s \in Tasks : NumBatches(s)' = NumBatches(s)
  BY <1>1 DEF inputs, NumBatches, NumBlocks
<1>4. TypeOK'
  <2>1. /\ \A q \in net' \cup buffered' : q.batch \in 1..NumBatches(q.task)'
        /\ net' \cup buffered' \subseteq [task : Tasks, attempt : Nat, batch : Nat]
    BY <1>2, <1>3 DEF IInv, TypeOK
  <2>2. \A s \in Tasks : applied'[s] \in [1..NumBatches(s)' -> Nat]
    BY <1>1, <1>3 DEF IInv, TypeOK
  <2> QED BY <1>1, <2>1, <2>2 DEF IInv, TypeOK, inputs, driverVars
<1>5. DriverInv' /\ NetInv'
  BY <1>1 DEF IInv, DriverInv, NetInv, InsertSettings, inputs, driverVars, Active, NumBlocks
<1>6. ASSUME NEW s \in Tasks PROVE TaskInv(s, task[s])'
  <2>1. Outstanding(s)' = Outstanding(s)
    BY <1>2 DEF Outstanding
  <2> QED BY <1>1, <2>1
      DEF IInv, TaskInv, Once, Position, Ledger, Clean, Certain, Exactly, Active, LastOf,
          inputs, NumBlocks, NumBatches
<1> QED BY <1>4, <1>5, <1>6 DEF IInv

LEMMA ServerKeepsIInv == IInv /\ ServerStep => IInv'
<1> SUFFICES ASSUME IInv, NEW r \in net \cup buffered,
                    \/ ServerInsert(r) \/ ServerBuffer(r) \/ ServerFlush(r) \/ Lose(r)
                    \/ \E kind \in Kinds : ServerReject(r, kind)
             PROVE  IInv'
  BY DEF ServerStep
<1>1. /\ net \cap buffered = {}
      /\ buffered # {} => InsertSettings(insert).async
  BY DEF IInv, NetInv
<1>2. InsertSettings(insert).async => InsertSettings(insert).wait
  BY DEF InsertSettings
<1>3. CASE ServerInsert(r)
  <2>1. net' = net \ {r} /\ buffered' = buffered \ {r}
    BY <1>1, <1>3 DEF ServerInsert
  <2> QED BY <1>3, <2>1, Processed DEF ServerInsert
<1>4. CASE ServerBuffer(r)
  BY <1>4, QueuedKeepsIInv
<1>5. CASE ServerFlush(r)
  <2>1. net' = net \ {r} /\ buffered' = buffered \ {r} /\ Reply(r, "ok")
    BY <1>1, <1>2, <1>5 DEF ServerFlush
  <2> QED BY <1>5, <2>1, Processed DEF ServerFlush
<1>6. CASE Lose(r)
  BY <1>6, Processed DEF Lose
<1>7. ASSUME NEW kind \in Kinds, ServerReject(r, kind) PROVE IInv'
  <2>1. Reply(r, kind)
    BY <1>1, <1>2, <1>7 DEF ServerReject
  <2> QED BY <1>7, <2>1, Processed DEF ServerReject
<1> QED BY <1>3, <1>4, <1>5, <1>6, <1>7

LEMMA StutterKeepsIInv == IInv /\ UNCHANGED vars => IInv'
BY DEF vars, inputs, driverVars, serverVars, IInv, TypeOK, DriverInv, NetInv, InsertSettings,
       TaskInv, Once, Position, Ledger, Clean, Certain, Exactly, Active, LastOf, NumBlocks,
       NumBatches, Outstanding

LEMMA StepIInv == IInv /\ [Next]_vars => IInv'
<1> SUFFICES ASSUME IInv, [Next]_vars PROVE IInv'
  OBVIOUS
<1>1. CASE DriverStep
  BY <1>1, DriverKeepsIInv
<1>2. CASE ServerStep
  BY <1>2, ServerKeepsIInv
<1>3. CASE Quiet \/ UNCHANGED vars
  BY <1>3, StutterKeepsIInv DEF Quiet
<1>4. ASSUME NEW t \in Tasks, TaskStep(t) \/ TaskFault(t) PROVE IInv'
  BY <1>4, LaunchKeepsIInv, SessionKeepsIInv, BlockKeepsIInv, ConfirmedKeepsIInv,
     AnswerKeepsIInv, EndKeepsIInv, InsertKeepsIInv
  DEF TaskStep, TaskFault
<1> QED BY <1>1, <1>2, <1>3, <1>4 DEF Next

\* The ledger, the loops and the driver's decisions stay in step with the
\* table and the network (datasink.py and _transport.py as a whole).
THEOREM Invariance == Spec => []IInv
<1> QED BY InitIInv, StepIInv, PTL DEF Spec

\* Attempts, requests and counters keep their ranges: no task draws a batch
\* its blocks do not have, and no request names one (ClickHouseDataSink.write).
THEOREM TypeCorrect == Spec => []TypeOK
<1>1. IInv => TypeOK
  BY DEF IInv
<1> QED BY <1>1, Invariance, PTL
-----------------------------------------------------------------------------
(* What the invariant says of the properties *)

LEMMA LedgerPrefix ==
    ASSUME IInv, NEW t \in Tasks
    PROVE  \A b \in 1..NumBatches(t) :
               /\ applied[t][b] <= 1
               /\ b <= task[t].batches => applied[t][b] = 1
               /\ b > task[t].batches + 1 => applied[t][b] = 0
<1>1. /\ task[t].drawn \in {task[t].batches, task[t].batches + 1}
      /\ Exactly(t, task[t].batches) \/ Exactly(t, task[t].drawn)
      /\ task[t].batches \in Nat /\ NumBatches(t) \in Nat
  BY InputFacts DEF IInv, TypeOK, TaskInv, Ledger, TaskStates
<1> QED BY <1>1 DEF Exactly

\* No batch is inserted twice, whatever crashes, times out or arrives late,
\* for any number of tasks and batches (prepare_write_remote_args, write and
\* ClickHouseInsertSession.insert).
THEOREM WrittenOnce == Spec => []NoReplay
<1>1. IInv => NoReplay
  BY LedgerPrefix DEF NoReplay
<1> QED BY <1>1, Invariance, PTL

\* Each task leaves in the table the batches it confirmed and at most the
\* next one (the loop of ClickHouseDataSink.write).
THEOREM PrefixWritten == Spec => []ConfirmedPrefix
<1>1. IInv => ConfirmedPrefix
  BY LedgerPrefix DEF ConfirmedPrefix
<1> QED BY <1>1, Invariance, PTL

\* An error other than AmbiguousWriteError, an interrupt or a crash leaves no
\* doubt about what is in the table (the handlers of insert and of write).
THEOREM DefiniteErrors == Spec => []DefiniteFailure
<1>1. IInv => DefiniteFailure
  BY DEF IInv, DefiniteFailure, TaskInv, Ledger, Certain, Exactly
<1> QED BY <1>1, Invariance, PTL

\* A task of the Dataset that has returned has written all its batches.
LEMMA ReturnedAll ==
    ASSUME IInv, \A s \in Active : task[s].pc = "returned", NEW t \in Tasks
    PROVE  /\ Outstanding(t) = {}
           /\ \A b \in 1..NumBatches(t) : applied[t][b] = 1
           /\ t \in Active => /\ task[t].batches = NumBatches(t)
                              /\ task[t].rows = ds[t].rowEnd[NumBatches(t)]
<1>1. NumBatches(t) \in Nat
  BY InputFacts DEF IInv, TypeOK
<1>2. CASE t \in Active
  <2>1. task[t].pc = "returned" /\ task[t].failure = "none"
    BY <1>2 DEF IInv, TaskInv, Once
  <2>2. Clean(task[t])
    BY <2>1 DEF Clean
  <2>3. /\ task[t].drawn = NumBatches(t) /\ task[t].batches = NumBatches(t)
        /\ Outstanding(t) = {} /\ Exactly(t, task[t].batches)
        /\ task[t].rows = ds[t].rowEnd[task[t].batches]
    BY <2>1, <2>2 DEF IInv, TaskInv, Position, Ledger, Certain
  <2> QED BY <1>1, <2>3 DEF Exactly
<1>3. CASE t \notin Active
  <2>1. NumBlocks(t) = 0
    BY <1>3, InputFacts DEF Active, IInv, TypeOK
  <2>2. NumBatches(t) = 0
    BY <2>1 DEF NumBatches
  <2>3. Outstanding(t) = {}
    BY <2>2 DEF Outstanding, IInv, TypeOK
  <2> QED BY <1>3, <2>2, <2>3
<1> QED BY <1>2, <1>3

\* A receipt is returned only when every batch is in the table once, and its
\* totals are those of the Dataset (on_write_complete).
THEOREM ReceiptTrue == Spec => []ReceiptExact
<1>1. ASSUME IInv PROVE ReceiptExact
  <2> SUFFICES ASSUME outcome = "receipt"
               PROVE  /\ \A t \in Tasks : /\ \A b \in 1..NumBatches(t) : applied[t][b] = 1
                                          /\ Outstanding(t) = {}
                      /\ receipt = [rows |-> SumFunction([t \in Active |->
                                                 ds[t].rowEnd[NumBatches(t)]]),
                                    batches |-> SumFunction([t \in Active |-> NumBatches(t)])]
    BY DEF ReceiptExact
  <2>0. \A s \in Active : task[s].pc = "returned"
    BY <1>1 DEF IInv, DriverInv
  <2>1. /\ [t \in Active |-> task[t].rows] = [t \in Active |-> ds[t].rowEnd[NumBatches(t)]]
        /\ [t \in Active |-> task[t].batches] = [t \in Active |-> NumBatches(t)]
    BY <1>1, <2>0, ReturnedAll DEF Active
  <2>2. receipt = [rows    |-> SumFunction([t \in Active |-> task[t].rows]),
                   batches |-> SumFunction([t \in Active |-> task[t].batches])]
    BY <1>1 DEF IInv, DriverInv
  <2> QED BY <1>1, <2>0, <2>1, <2>2, ReturnedAll
<1> QED BY <1>1, Invariance, PTL
-----------------------------------------------------------------------------
(* The append implements AppendWrite *)

\* The server's steps are the only ones that change the table, and they add
\* one batch that was not there.
LEMMA TableSteps ==
    ASSUME IInv, [Next]_vars
    PROVE  /\ ds' = ds
           /\ \/ applied' = applied
              \/ /\ outcome' = outcome
                 /\ \E r \in net \cup buffered :
                        Apply(r) /\ r.task \in Tasks /\ r.batch \in 1..NumBatches(r.task)
                        /\ applied[r.task][r.batch] = 0
<1>1. ASSUME NEW r \in net \cup buffered, ServerInsert(r) \/ ServerFlush(r)
      PROVE  /\ Apply(r) /\ r.task \in Tasks /\ r.batch \in 1..NumBatches(r.task)
             /\ applied[r.task][r.batch] = 0 /\ ds' = ds /\ outcome' = outcome
  <2> DEFINE t == r.task
  <2>1. t \in Tasks /\ r \in Outstanding(t) /\ r.batch \in 1..NumBatches(t)
        /\ task[t] \in TaskStates /\ NumBatches(t) \in Nat
    BY InputFacts DEF IInv, TypeOK, Outstanding
  <2>2. r.batch = task[t].batches + 1 /\ Exactly(t, task[t].batches)
    BY <2>1 DEF IInv, TaskInv, Ledger
  <2>3. applied[t][r.batch] = 0
    BY <2>1, <2>2 DEF Exactly, TaskStates
  <2> QED BY <1>1, <2>1, <2>3 DEF ServerInsert, ServerFlush, inputs, driverVars
<1>2. CASE ServerStep
  <2>1. PICK r \in net \cup buffered :
            \/ ServerInsert(r) \/ ServerBuffer(r) \/ ServerFlush(r) \/ Lose(r)
            \/ \E kind \in Kinds : ServerReject(r, kind)
    BY <1>2 DEF ServerStep
  <2>2. CASE ServerInsert(r) \/ ServerFlush(r)
    BY <1>1, <2>2
  <2>3. CASE ServerBuffer(r) \/ Lose(r) \/ \E kind \in Kinds : ServerReject(r, kind)
    BY <2>3 DEF ServerBuffer, Lose, ServerReject, inputs
  <2> QED BY <2>1, <2>2, <2>3
<1>3. CASE DriverStep
  BY <1>3 DEF DriverStep, PrepareArgs, DiscoveryFails, OnWriteComplete, OnWriteStart,
              OnWriteFailed, inputs, serverVars
<1>4. ASSUME NEW t \in Tasks, TaskStep(t) \/ TaskFault(t) PROVE ds' = ds /\ applied' = applied
  BY <1>4 DEF TaskStep, TaskFault, Launch, SessionStart, NextBlock, NoMoreBlocks, Insert,
              EndBlock, Confirmed, Rejected, GiveUp, Close, SessionStartFails,
              Interrupted, CloseFails, WorkerCrash, inputs, serverVars
<1>5. CASE Quiet \/ UNCHANGED vars
  BY <1>5 DEF Quiet, vars, inputs, serverVars
<1> QED BY <1>2, <1>3, <1>4, <1>5 DEF Next

\* What changes the outcome changes nothing else of the abstract state.
LEMMA OutcomeSteps ==
    ASSUME IInv, [Next]_vars
    PROVE  \/ outcome' = outcome
           \/ /\ applied' = applied /\ outcome = "pending"
              /\ \/ outcome' \notin {"pending", "receipt"}
                 \/ outcome' = "receipt" /\ \A t \in Active : task[t].pc = "returned"
<1>1. CASE DriverStep
  <2>1. outcome = "pending" /\ applied' = applied
    BY <1>1 DEF DriverStep, PrepareArgs, DiscoveryFails, OnWriteComplete, OnWriteStart,
                OnWriteFailed, IInv, DriverInv, serverVars
  <2>2. ASSUME NEW t \in Tasks, OnWriteFailed(t) PROVE outcome' # "receipt"
    <3>1. outcome' = task[t].failure /\ task[t].failure \in {"none"} \cup Failures
      BY <2>2 DEF OnWriteFailed, Raise, IInv, TypeOK, TaskStates
    <3> QED BY <3>1 DEF Failures, Definite, TranslatedErrors
  <2>3. CASE PrepareArgs \/ DiscoveryFails \/ \E s \in StartSchemas : OnWriteStart(s)
    BY <2>1, <2>3 DEF PrepareArgs, DiscoveryFails, OnWriteStart, Raise
  <2>4. CASE OnWriteComplete
    BY <2>1, <2>4 DEF OnWriteComplete
  <2> QED BY <1>1, <2>1, <2>2, <2>3, <2>4 DEF DriverStep
<1>2. CASE ServerStep
  BY <1>2 DEF ServerStep, ServerInsert, ServerBuffer, ServerFlush, Lose, ServerReject, driverVars
<1>3. ASSUME NEW t \in Tasks, TaskStep(t) \/ TaskFault(t) PROVE outcome' = outcome
  BY <1>3 DEF TaskStep, TaskFault, Launch, SessionStart, NextBlock, NoMoreBlocks, Insert,
              EndBlock, Confirmed, Rejected, GiveUp, Close, SessionStartFails,
              Interrupted, CloseFails, WorkerCrash, driverVars
<1>4. CASE Quiet \/ UNCHANGED vars
  BY <1>4 DEF Quiet, vars, driverVars
<1> QED BY <1>1, <1>2, <1>3, <1>4 DEF Next

LEMMA PromiseInit == Init => Promise!Init
<1> SUFFICES ASSUME Init PROVE Promise!Init
  OBVIOUS
<1>1. ASSUME NEW p \in AllBatches PROVE applied[p[1]][p[2]] = 0
  BY DEF Init, AllBatches
<1> QED BY <1>1 DEF Init, Promise!Init, ContentBar, OutcomeBar

LEMMA PromiseStep == IInv /\ IInv' /\ [Next]_vars => [Promise!Next]_Promise!avars
<1> SUFFICES ASSUME IInv, IInv', [Next]_vars PROVE [Promise!Next]_Promise!avars
  OBVIOUS
<1>1. AllBatches' = AllBatches
  BY TableSteps DEF AllBatches, NumBatches, NumBlocks
<1>2. CASE applied' = applied
  <2>1. ContentBar' = ContentBar
    BY <1>1, <1>2 DEF ContentBar
  <2>2. CASE outcome' = outcome
    BY <1>1, <2>1, <2>2 DEF Promise!avars, OutcomeBar
  <2>3. CASE /\ outcome = "pending" /\ outcome' = "receipt"
             /\ \A t \in Active : task[t].pc = "returned"
    <3>1. ASSUME NEW p \in AllBatches PROVE ContentBar[p] = 1
      <4>0. PICK t \in Tasks : \E b \in 1..NumBatches(t) : p = <<t, b>>
        BY DEF AllBatches
      <4>1. PICK b \in 1..NumBatches(t) : p = <<t, b>>
        BY <4>0
      <4>2. applied[t][b] = 1
        BY <2>3, ReturnedAll
      <4> QED BY <4>1, <4>2 DEF ContentBar
    <3> QED BY <1>1, <2>1, <2>3, <3>1 DEF Promise!Next, Promise!Confirm, OutcomeBar
  <2>4. CASE outcome = "pending" /\ outcome' \notin {"pending", "receipt"}
    BY <1>1, <2>1, <2>4 DEF Promise!Next, Promise!Fail, OutcomeBar
  <2> QED BY <2>2, <2>3, <2>4, OutcomeSteps
<1>3. CASE applied' # applied
  <2>1. PICK r \in net \cup buffered :
            /\ Apply(r) /\ r.task \in Tasks /\ r.batch \in 1..NumBatches(r.task)
            /\ applied[r.task][r.batch] = 0 /\ outcome' = outcome
    BY <1>3, TableSteps
  <2> DEFINE q == <<r.task, r.batch>>
  <2>2. q \in AllBatches /\ ContentBar[q] = 0
    BY <2>1 DEF AllBatches, ContentBar
  <2>3. ContentBar' = [ContentBar EXCEPT ![q] = 1]
    <3>1. ASSUME NEW p \in AllBatches
          PROVE  applied'[p[1]][p[2]] = IF p = q THEN 1 ELSE applied[p[1]][p[2]]
      <4>0. PICK t \in Tasks : \E b \in 1..NumBatches(t) : p = <<t, b>>
        BY DEF AllBatches
      <4>1. PICK b \in 1..NumBatches(t) : p = <<t, b>>
        BY <4>0
      <4>2. /\ applied[r.task] \in [1..NumBatches(r.task) -> Nat]
            /\ applied[t] \in [1..NumBatches(t) -> Nat]
            /\ applied = [s \in Tasks |-> applied[s]]
        BY <2>1 DEF IInv, TypeOK
      <4>3. applied'[t] = IF t = r.task
                          THEN [applied[t] EXCEPT ![r.batch] = applied[t][r.batch] + 1]
                          ELSE applied[t]
        BY <2>1, <4>2 DEF Apply
      <4>4. applied'[t][b] = IF t = r.task /\ b = r.batch THEN 1 ELSE applied[t][b]
        <5>1. CASE t = r.task
          <6>1. applied'[t] = [applied[t] EXCEPT ![r.batch] = applied[t][r.batch] + 1]
            BY <4>3, <5>1
          <6>2. applied[t][r.batch] + 1 = 1
            BY <2>1, <5>1
          <6> QED BY <4>2, <5>1, <6>1, <6>2
        <5>2. CASE t # r.task
          BY <4>3, <5>2
        <5> QED BY <5>1, <5>2
      <4> QED BY <4>1, <4>4
    <3>2. ContentBar' = [p \in AllBatches |-> applied'[p[1]][p[2]]]
      BY <1>1 DEF ContentBar
    <3> QED BY <3>1, <3>2 DEF ContentBar
  <2>4. Promise!Append(q)
    BY <1>1, <2>1, <2>2, <2>3 DEF Promise!Append, OutcomeBar
  <2> QED BY <2>2, <2>4 DEF Promise!Next
<1> QED BY <1>2, <1>3

\* For any number of tasks and any Dataset the write path keeps the promise
\* of AppendWrite: a batch enters the table at most once, and a receipt is
\* given only for a table that has them all (write_clickhouse in append mode).
THEOREM PromiseKept == Spec => ImplementsPromise
<1>1. IInv /\ IInv' /\ [Next]_vars => [Promise!Next]_Promise!avars
  BY PromiseStep
<1> QED BY <1>1, PromiseInit, Invariance, PTL DEF Spec, ImplementsPromise, Promise!Spec
-----------------------------------------------------------------------------
(* How far the call is from its end.  Liveness is left to TLC, but that no    *)
(* behaviour goes on for ever can be said of its steps, and how many a task   *)
(* takes at most.                                                             *)

Labels == {"idle", "start", "block", "slice", "waiting", "close", "returned", "failed"}

Stage ==
    [at \in Labels |->
       CASE at \in {"idle", "waiting"} -> 4
         [] at \in {"start", "slice"} -> 3
         [] at = "block" -> 2
         [] at = "close" -> 1
         [] at \in {"returned", "failed"} -> 0]

\* The steps that task t still takes, if nothing fails.
StepsLeft(t) ==
    2 * (NumBlocks(t) - task[t].block) + 2 * (NumBatches(t) - task[t].drawn) + Stage[task[t].pc]

\* Task t alone has taken a step, and has sent requests of its own at most.
Advances(t) ==
    /\ StepsLeft(t)' < StepsLeft(t)
    /\ \A s \in Tasks \ {t} : task'[s] = task[s]
    /\ net \subseteq net' /\ \A r \in net' \ net : r.task = t
    /\ UNCHANGED <<driver, buffered>>

\* The driver has gone on.
DriverAdvances ==
    /\ <<driver, driver'>> \in {<<"call", "ready">>, <<"call", "done">>, <<"ready", "running">>,
                             <<"ready", "done">>, <<"running", "done">>}
    /\ UNCHANGED <<task, net, buffered>>

\* A request has gone from the network to the queue, or is done with; at most an
\* answer has reached its task.
Handled(r) ==
    /\ \/ r \in net /\ net' = net \ {r} /\ buffered' \in {buffered, buffered \cup {r}}
       \/ r \in buffered /\ net' = net /\ buffered' = buffered \ {r}
    /\ \A t \in Tasks : \E answer : task'[t] = [task[t] EXCEPT !.reply = answer]
    /\ UNCHANGED driver

Progress ==
    DriverAdvances \/ (\E t \in Tasks : Advances(t)) \/ (\E r \in net \cup buffered : Handled(r))

LEMMA Stages ==
    /\ Stage["idle"] = 4 /\ Stage["start"] = 3 /\ Stage["waiting"] = 4 /\ Stage["slice"] = 3
    /\ Stage["block"] = 2 /\ Stage["close"] = 1 /\ Stage["returned"] = 0 /\ Stage["failed"] = 0
<1>1. Stage["idle"] = 4
  BY DEF Stage, Labels
<1>2. Stage["start"] = 3
  BY DEF Stage, Labels
<1>3. Stage["waiting"] = 4
  BY DEF Stage, Labels
<1>4. Stage["slice"] = 3
  BY DEF Stage, Labels
<1>5. Stage["block"] = 2
  BY DEF Stage, Labels
<1>6. Stage["close"] = 1
  BY DEF Stage, Labels
<1>7. Stage["returned"] = 0
  BY DEF Stage, Labels
<1>8. Stage["failed"] = 0
  BY DEF Stage, Labels
<1> QED BY <1>1, <1>2, <1>3, <1>4, <1>5, <1>6, <1>7, <1>8

LEMMA StepsLeftNat ==
    ASSUME IInv, NEW t \in Tasks
    PROVE  StepsLeft(t) \in Nat
<1>1. task[t] \in TaskStates /\ TaskInv(t, task[t]) /\ ds \in Datasets
  BY DEF IInv, TypeOK
<1>2. task[t].block \in 0..NumBlocks(t) /\ task[t].drawn \in Nat /\ task[t].pc \in Labels
      /\ task[t].drawn <= LastOf(t, task[t].block) /\ NumBlocks(t) \in Nat /\ NumBatches(t) \in Nat
  BY <1>1, InputFacts DEF TaskInv, Position, TaskStates, Labels
<1>3. task[t].drawn <= NumBatches(t)
  BY <1>1, <1>2, InputFacts
<1>4. Stage[task[t].pc] \in Nat
  BY <1>2, Stages DEF Labels
<1>5. NumBlocks(t) - task[t].block \in Nat /\ NumBatches(t) - task[t].drawn \in Nat
  BY <1>2, <1>3
<1> QED BY <1>4, <1>5 DEF StepsLeft

\* A step of task t to state u.
LEMMA StepAdvances ==
    ASSUME IInv, NEW t \in Tasks, NEW u, task' = [task EXCEPT ![t] = u],
           UNCHANGED <<ds, driver, buffered>>, net \subseteq net', \A r \in net' \ net : r.task = t,
           u.block \in Nat, u.drawn \in Nat, u.pc \in Labels,
           2 * u.block + 2 * u.drawn + Stage[task[t].pc]
               > 2 * task[t].block + 2 * task[t].drawn + Stage[u.pc]
    PROVE  Advances(t)
<1>1. task[t] \in TaskStates /\ ds \in Datasets /\ task'[t] = u
      /\ \A s \in Tasks \ {t} : task'[s] = task[s]
  BY DEF IInv, TypeOK
<1>2. NumBlocks(t)' = NumBlocks(t) /\ NumBatches(t)' = NumBatches(t)
  BY DEF NumBlocks, NumBatches
<1>3. NumBlocks(t) \in Nat /\ NumBatches(t) \in Nat
  BY <1>1, InputFacts
<1>4. task[t].block \in Nat /\ task[t].drawn \in Nat /\ task[t].pc \in Labels
  BY <1>1 DEF TaskStates, Labels
<1>5. Stage[task[t].pc] \in Nat /\ Stage[u.pc] \in Nat
  BY <1>4, Stages DEF Labels
<1>6. Stage' = Stage
  BY DEF Stage
<1>7. StepsLeft(t)' = 2 * (NumBlocks(t) - u.block) + 2 * (NumBatches(t) - u.drawn) + Stage[u.pc]
  BY <1>1, <1>2, <1>6 DEF StepsLeft
<1>8. StepsLeft(t)' < StepsLeft(t)
  BY <1>3, <1>4, <1>5, <1>7 DEF StepsLeft
<1> QED BY <1>1, <1>8 DEF Advances

\* A step to a lower stage, at the same block and batch.
LEMMA StageAdvances ==
    ASSUME IInv, NEW t \in Tasks, NEW u \in TaskStates, task' = [task EXCEPT ![t] = u],
           UNCHANGED <<inputs, driverVars, serverVars>>,
           u.block = task[t].block, u.drawn = task[t].drawn,
           Stage[u.pc] < Stage[task[t].pc]
    PROVE  Advances(t)
<1>1. task[t] \in TaskStates
  BY DEF IInv, TypeOK
<1>2. u.block \in Nat /\ u.drawn \in Nat /\ u.pc \in Labels /\ task[t].pc \in Labels
  BY <1>1 DEF TaskStates, Labels
<1>3. Stage[u.pc] \in Nat /\ Stage[task[t].pc] \in Nat
  BY <1>2, Stages DEF Labels
<1>4. 2 * u.block + 2 * u.drawn + Stage[task[t].pc]
          > 2 * task[t].block + 2 * task[t].drawn + Stage[u.pc]
  BY <1>2, <1>3
<1> QED BY <1>2, <1>4, StepAdvances DEF inputs, driverVars, serverVars

LEMMA FailAdvances ==
    ASSUME IInv, NEW t \in Tasks, NEW error \in Failures, FailWith(t, error),
           task[t].pc \in {"start", "block", "waiting"},
           UNCHANGED <<inputs, driverVars, serverVars>>
    PROVE  Advances(t)
<1> DEFINE u == [task[t] EXCEPT !.failure = error, !.pc = "close"]
<1>1. task[t] \in TaskStates
  BY DEF IInv, TypeOK
<1>2. u \in TaskStates /\ u.block = task[t].block /\ u.drawn = task[t].drawn /\ u.pc = "close"
  BY <1>1 DEF TaskStates
<1>3. task' = [task EXCEPT ![t] = u]
  BY DEF FailWith
<1> HIDE DEF u
<1>4. Stage[u.pc] < Stage[task[t].pc]
  BY <1>2, Stages
<1> QED BY <1>2, <1>3, <1>4, StageAdvances

LEMMA TaskAdvances ==
    ASSUME IInv, NEW t \in Tasks, TaskStep(t) \/ TaskFault(t)
    PROVE  Advances(t)
<1>0. task[t] \in TaskStates /\ TaskInv(t, task[t]) /\ ds \in Datasets
  BY DEF IInv, TypeOK
<1>1. CASE Launch(t)
  <2> DEFINE u == [NewTask EXCEPT !.pc = "start", !.attempt = task[t].attempt + 1, !.schema = schema]
  <2>1. task[t].pc = "idle"
    BY <1>1, NoRetry DEF Launch
  <2>2. task[t].block = 0 /\ task[t].drawn = 0
    BY <1>0, <2>1, InputFacts DEF TaskInv, Position, TaskStates
  <2>3. u \in TaskStates /\ u.block = 0 /\ u.drawn = 0 /\ u.pc = "start"
    <3>1. schema \in Schemas \cup {NoSchema} /\ task[t].attempt + 1 \in Nat
      BY <1>0 DEF IInv, TypeOK, TaskStates
    <3>2. NewTask \in TaskStates /\ NewTask.block = 0 /\ NewTask.drawn = 0
      BY DEF NewTask, TaskStates
    <3> QED BY <3>1, <3>2 DEF TaskStates
  <2>4. task' = [task EXCEPT ![t] = u] /\ UNCHANGED <<inputs, driverVars, serverVars>>
    BY <1>1 DEF Launch
  <2> HIDE DEF u
  <2>5. Stage[u.pc] < Stage[task[t].pc] /\ u.block = task[t].block /\ u.drawn = task[t].drawn
    BY <2>1, <2>2, <2>3, Stages
  <2> QED BY <2>3, <2>4, <2>5, StageAdvances
<1>2. CASE SessionStart(t)
  <2> DEFINE u == [task[t] EXCEPT !.client = TRUE, !.pc = "block"]
  <2>1. u \in TaskStates /\ u.block = task[t].block /\ u.drawn = task[t].drawn /\ u.pc = "block"
    BY <1>0 DEF TaskStates
  <2>2. task' = [task EXCEPT ![t] = u] /\ UNCHANGED <<inputs, driverVars, serverVars>>
        /\ task[t].pc = "start"
    BY <1>2 DEF SessionStart
  <2> HIDE DEF u
  <2>3. Stage[u.pc] < Stage[task[t].pc]
    BY <2>1, <2>2, Stages
  <2> QED BY <2>1, <2>2, <2>3, StageAdvances
<1>3. CASE NextBlock(t)
  <2> DEFINE b == ds[t].blocks[task[t].block + 1]
             error == IF SourceSchema(t, b) \in Accepted THEN "WriteError" ELSE "SchemaError"
             source == SourceSchema(t, b)
             u == [task[t] EXCEPT !.block = task[t].block + 1, !.schema = source,
                                  !.pc = "slice"]
  <2>1. task[t].pc = "block" /\ UNCHANGED <<inputs, driverVars, serverVars>>
    BY <1>3 DEF NextBlock
  <2>2. CASE BlockAccepted(t, b)
    <3>1. task' = [task EXCEPT ![t] = u]
      BY <1>3, <2>2 DEF NextBlock
    <3> HIDE DEF source
    <3>2. /\ u.block = task[t].block + 1 /\ u.drawn = task[t].drawn /\ u.pc = "slice"
          /\ task[t].block \in Nat /\ task[t].drawn \in Nat
      BY <1>0 DEF TaskStates
    <3> HIDE DEF u
    <3>3. u.pc \in Labels /\ Stage[u.pc] = 3 /\ Stage[task[t].pc] = 2
      BY <2>1, <3>2, Stages DEF Labels
    <3>4. u.block \in Nat /\ u.drawn \in Nat
          /\ 2 * u.block + 2 * u.drawn + Stage[task[t].pc]
                 > 2 * task[t].block + 2 * task[t].drawn + Stage[u.pc]
      BY <3>2, <3>3
    <3> QED BY <2>1, <3>1, <3>3, <3>4, StepAdvances DEF inputs, driverVars, serverVars
  <2>3. CASE ~BlockAccepted(t, b)
    <3>1. FailWith(t, error)
      BY <1>3, <2>3 DEF NextBlock
    <3>2. error \in Failures
      BY ErrorFacts
    <3> HIDE DEF error
    <3> QED BY <2>1, <3>1, <3>2, FailAdvances
  <2> QED BY <2>2, <2>3
<1>4. CASE NoMoreBlocks(t)
  <2> DEFINE u == [task[t] EXCEPT !.pc = "close"]
  <2>1. u \in TaskStates /\ u.block = task[t].block /\ u.drawn = task[t].drawn /\ u.pc = "close"
    BY <1>0 DEF TaskStates
  <2>2. task' = [task EXCEPT ![t] = u] /\ UNCHANGED <<inputs, driverVars, serverVars>>
        /\ task[t].pc = "block"
    BY <1>4 DEF NoMoreBlocks, IInv, TypeOK
  <2> HIDE DEF u
  <2>3. Stage[u.pc] < Stage[task[t].pc]
    BY <2>1, <2>2, Stages
  <2> QED BY <2>1, <2>2, <2>3, StageAdvances
<1>5. CASE Insert(t)
  <2> DEFINE u == [task[t] EXCEPT !.drawn = task[t].drawn + 1, !.reply = "none", !.pc = "waiting"]
             q == [task |-> t, attempt |-> task[t].attempt, batch |-> task[t].drawn + 1]
  <2>1. /\ u.block = task[t].block /\ u.drawn = task[t].drawn + 1 /\ u.pc = "waiting"
        /\ task[t].block \in Nat /\ task[t].drawn \in Nat
    BY <1>0 DEF TaskStates
  <2>2. task' = [task EXCEPT ![t] = u] /\ UNCHANGED <<inputs, driverVars, buffered>>
        /\ task[t].pc = "slice" /\ net' = net \cup {q} /\ q.task = t
    BY <1>5 DEF Insert
  <2> HIDE DEF u, q
  <2>3. u.pc \in Labels /\ Stage[u.pc] = 4 /\ Stage[task[t].pc] = 3
    BY <2>1, <2>2, Stages DEF Labels
  <2>4. u.block \in Nat /\ u.drawn \in Nat
        /\ 2 * u.block + 2 * u.drawn + Stage[task[t].pc]
               > 2 * task[t].block + 2 * task[t].drawn + Stage[u.pc]
    BY <2>1, <2>3
  <2> QED BY <2>2, <2>3, <2>4, StepAdvances DEF inputs, driverVars
<1>6. CASE EndBlock(t)
  <2> DEFINE u == [task[t] EXCEPT !.pc = "block"]
  <2>1. u \in TaskStates /\ u.block = task[t].block /\ u.drawn = task[t].drawn /\ u.pc = "block"
    BY <1>0 DEF TaskStates
  <2>2. task' = [task EXCEPT ![t] = u] /\ UNCHANGED <<inputs, driverVars, serverVars>>
        /\ task[t].pc = "slice"
    BY <1>6 DEF EndBlock, IInv, TypeOK
  <2> HIDE DEF u
  <2>3. Stage[u.pc] < Stage[task[t].pc]
    BY <2>1, <2>2, Stages
  <2> QED BY <2>1, <2>2, <2>3, StageAdvances
<1>7. CASE Confirmed(t)
  <2> DEFINE rows == task[t].rows + Rows(t, task[t].drawn)
             u == [task[t] EXCEPT !.batches = task[t].batches + 1, !.rows = rows, !.pc = "slice"]
  <2>1. task' = [task EXCEPT ![t] = u] /\ UNCHANGED <<inputs, driverVars, serverVars>>
        /\ task[t].pc = "waiting"
    BY <1>7 DEF Confirmed
  <2> HIDE DEF rows
  <2>2. /\ u.block = task[t].block /\ u.drawn = task[t].drawn /\ u.pc = "slice"
        /\ task[t].block \in Nat /\ task[t].drawn \in Nat
    BY <1>0 DEF TaskStates
  <2> HIDE DEF u
  <2>3. u.pc \in Labels /\ Stage[u.pc] = 3 /\ Stage[task[t].pc] = 4
    BY <2>1, <2>2, Stages DEF Labels
  <2>4. u.block \in Nat /\ u.drawn \in Nat
        /\ 2 * u.block + 2 * u.drawn + Stage[task[t].pc]
               > 2 * task[t].block + 2 * task[t].drawn + Stage[u.pc]
    BY <2>2, <2>3
  <2> QED BY <2>1, <2>3, <2>4, StepAdvances DEF inputs, driverVars, serverVars
<1>8. CASE Rejected(t) \/ Interrupted(t) \/ (\E kind \in LostKinds : GiveUp(t, kind))
           \/ (\E kind \in Kinds : SessionStartFails(t, kind))
  <2>1. task[t].pc \in {"start", "waiting"} /\ UNCHANGED <<inputs, driverVars, serverVars>>
    BY <1>8 DEF Rejected, Interrupted, GiveUp, SessionStartFails
  <2>2. LostKinds \subseteq Kinds
    BY DEF LostKinds, Kinds
  <2>3. \E error \in Failures : FailWith(t, error)
    BY <1>8, <2>2, ErrorFacts DEF Rejected, Interrupted, GiveUp, SessionStartFails
  <2> QED BY <2>1, <2>3, FailAdvances
<1>9. CASE Close(t)
  <2> DEFINE u == [task[t] EXCEPT !.client = FALSE,
                      !.pc = IF task[t].failure = "none" THEN "returned" ELSE "failed"]
  <2>1. u \in TaskStates /\ u.block = task[t].block /\ u.drawn = task[t].drawn
        /\ u.pc \in {"returned", "failed"}
    BY <1>0 DEF TaskStates
  <2>2. task' = [task EXCEPT ![t] = u] /\ UNCHANGED <<inputs, driverVars, serverVars>>
        /\ task[t].pc = "close"
    BY <1>9 DEF Close
  <2> HIDE DEF u
  <2>3. Stage[u.pc] < Stage[task[t].pc]
    BY <2>1, <2>2, Stages
  <2> QED BY <2>1, <2>2, <2>3, StageAdvances
<1>10. CASE CloseFails(t)
  <2> DEFINE error == IF task[t].failure = "none" THEN "TransportError" ELSE task[t].failure
             u == [task[t] EXCEPT !.client = FALSE, !.pc = "failed", !.failure = error]
  <2>1. task' = [task EXCEPT ![t] = u] /\ UNCHANGED <<inputs, driverVars, serverVars>>
        /\ task[t].pc = "close"
    BY <1>10 DEF CloseFails
  <2>2. error \in Failures
    BY <1>0, ErrorFacts DEF TaskStates
  <2> HIDE DEF error
  <2>3. u \in TaskStates /\ u.block = task[t].block /\ u.drawn = task[t].drawn /\ u.pc = "failed"
    BY <1>0, <2>2 DEF TaskStates
  <2> HIDE DEF u
  <2>4. Stage[u.pc] < Stage[task[t].pc]
    BY <2>1, <2>3, Stages
  <2> QED BY <2>1, <2>3, <2>4, StageAdvances
<1>11. CASE WorkerCrash(t)
  <2> DEFINE u == [task[t] EXCEPT !.client = FALSE, !.failure = "WorkerCrashed", !.pc = "failed"]
  <2>1. u \in TaskStates /\ u.block = task[t].block /\ u.drawn = task[t].drawn /\ u.pc = "failed"
    BY <1>0, ErrorFacts DEF TaskStates
  <2>2. task' = [task EXCEPT ![t] = u] /\ UNCHANGED <<inputs, driverVars, serverVars>>
        /\ task[t].pc \in {"start", "block", "slice", "waiting", "close"}
    BY <1>11 DEF WorkerCrash
  <2> HIDE DEF u
  <2>3. Stage[u.pc] < Stage[task[t].pc]
    BY <2>1, <2>2, Stages
  <2> QED BY <2>1, <2>2, <2>3, StageAdvances
<1> QED
  BY <1>1, <1>2, <1>3, <1>4, <1>5, <1>6, <1>7, <1>8, <1>9, <1>10, <1>11
  DEF TaskStep, TaskFault

LEMMA DriverAdvancing ==
    ASSUME IInv, DriverStep
    PROVE  DriverAdvances
BY DEF DriverStep, PrepareArgs, DiscoveryFails, OnWriteComplete, OnWriteStart, OnWriteFailed,
       Raise, DriverAdvances, serverVars

LEMMA ServerHandles ==
    ASSUME IInv, ServerStep
    PROVE  \E r \in net \cup buffered : Handled(r)
<1>1. PICK r \in net \cup buffered :
           \/ ServerInsert(r) \/ ServerBuffer(r) \/ ServerFlush(r) \/ Lose(r)
           \/ \E kind \in Kinds : ServerReject(r, kind)
  BY DEF ServerStep
<1>2. net \cap buffered = {} /\ task \in [Tasks -> TaskStates]
  BY DEF IInv, NetInv, TypeOK
<1>3. \/ r \in net /\ net' = net \ {r} /\ buffered' \in {buffered, buffered \cup {r}}
      \/ r \in buffered /\ net' = net /\ buffered' = buffered \ {r}
  BY <1>1, <1>2 DEF ServerInsert, ServerBuffer, ServerFlush, Lose, ServerReject
<1>4. task' = task \/ \E a : Reply(r, a)
  BY <1>1 DEF ServerInsert, ServerBuffer, ServerFlush, Lose, ServerReject
<1>5. \A t \in Tasks : \E answer : task'[t] = [task[t] EXCEPT !.reply = answer]
  <2>1. \A t \in Tasks : task[t] = [task[t] EXCEPT !.reply = task[t].reply]
    BY <1>2 DEF TaskStates
  <2>2. ASSUME NEW a, Reply(r, a), NEW t \in Tasks
        PROVE  task'[t] = task[t] \/ task'[t] = [task[t] EXCEPT !.reply = a]
    BY <1>2, <2>2 DEF Reply
  <2> QED BY <1>4, <2>1, <2>2
<1>6. UNCHANGED driver
  BY <1>1 DEF ServerInsert, ServerBuffer, ServerFlush, Lose, ServerReject, driverVars
<1> QED BY <1>3, <1>5, <1>6 DEF Handled

\* Every step takes the driver, one task or one request further: whatever
\* crashes, is lost or comes late, nothing starts over or is sent again (what
\* CallReturns is about, for any Dataset and tasks), and a task takes no more steps than
\* its blocks and batches call for.
THEOREM Every_step_advances ==
    Spec => [](\A t \in Tasks : StepsLeft(t) \in Nat) /\ [][Progress]_vars
<1>1. IInv => \A t \in Tasks : StepsLeft(t) \in Nat
  BY StepsLeftNat
<1>2. IInv /\ [Next]_vars => [Progress]_vars
  BY TaskAdvances, DriverAdvancing, ServerHandles DEF Next, Quiet, Progress
<1> QED BY Invariance, <1>1, <1>2, PTL DEF Spec
=============================================================================
