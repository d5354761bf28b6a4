----------------------------- MODULE WriteTasks -----------------------------
(***************************************************************************)
(* write_clickhouse() in append mode: the driver callbacks and the worker  *)
(* tasks of ClickHouseDataSink (datasink.py), the ClickHouseInsertSession  *)
(* each task owns (_transport.py), the no-replay gate (_compat.py), and,   *)
(* as they are used by that code, Ray's scheduler and the ClickHouse       *)
(* server with its network.                                                *)
(*                                                                         *)
(* An insert call puts a request on the network and waits.  The server may *)
(* apply it, refuse it, or never see it, and may do so after the client    *)
(* has given up.  The server applies one insert request atomically.        *)
(*                                                                         *)
(* A batch is a slice of iter_batch_slices (module BatchSlicing); task t   *)
(* writes batches 1, 2, ... in order.  Blocks are given by the index of    *)
(* their last batch, row counts by the running row total after each batch. *)
(* Bytes are counted as rows are, and are left out.                        *)
(***************************************************************************)
EXTENDS Integers, Sequences, Functions, ClientErrors

CONSTANTS
    Tasks,      \* the write tasks Ray may create
    Schemas,    \* Arrow schemas of blocks
    Accepted,   \* those validate_source_schema accepts for the target
    NoSchema,   \* None
    Datasets,   \* the datasets that may be written: see DatasetsAssumption
    UserArgs,   \* values of ray_remote_args: [max_retries, retry_exceptions]
    Absent      \* a max_retries that the caller does not give

\* One block per entry of blocks: its schema, whether its values pass
\* prepare_arrow_table, and the index of its last batch.  rowEnd[b] is the
\* number of rows in batches 1..b.
IsInput(d) ==
    /\ d.blocks \in Seq([schema : Schemas, clean : BOOLEAN, last : Nat])
    /\ \A i, j \in DOMAIN d.blocks : i <= j => d.blocks[i].last <= d.blocks[j].last
    /\ d.rowEnd \in [0..(IF d.blocks = << >> THEN 0 ELSE d.blocks[Len(d.blocks)].last) -> Nat]
    /\ d.rowEnd[0] = 0

ASSUME SchemasAssumption == Accepted \subseteq Schemas /\ NoSchema \notin Schemas
ASSUME DatasetsAssumption == \A d \in Datasets : \A t \in Tasks : IsInput(d[t])
ASSUME UserArgsAssumption ==
    /\ Absent \notin Nat
    /\ UserArgs \subseteq [max_retries : Nat \cup {Absent}, retry_exceptions : BOOLEAN]

VARIABLES
    ds,        \* the Dataset
    args,      \* ray_remote_args as given
    insert,    \* insert_mode and the caller's wait_for_async_insert setting
    driver,    \* "call" | "ready" | "running" | "done"
    remote,    \* the remote arguments Ray works with
    schema,    \* the schema handed to on_write_start
    outcome,   \* "pending", "receipt" or the error raised
    receipt,   \* sink.receipt
    task,      \* the latest attempt of each task
    net,       \* insert requests not yet processed by the server
    buffered,  \* requests in the server's asynchronous insert queue
    applied    \* how often each batch was added to the table

inputs == <<ds, args, insert>>
driverVars == <<driver, remote, schema, outcome, receipt>>
serverVars == <<net, buffered, applied>>
vars == <<inputs, driverVars, task, serverVars>>

NumBlocks(t) == Len(ds[t].blocks)
NumBatches(t) == IF NumBlocks(t) = 0 THEN 0 ELSE ds[t].blocks[NumBlocks(t)].last
Rows(t, b) == ds[t].rowEnd[b] - ds[t].rowEnd[b - 1]
Active == {t \in Tasks : NumBlocks(t) > 0}
NoReceipt == [rows |-> -1, batches |-> -1]
-----------------------------------------------------------------------------
(* Errors *)

\* Mutant of InsertError: transport failures are not told apart.
InsertErrorPlain(kind) == TransportTranslate(kind, "Arrow insert")

\* What ClickHouseInsertSession.insert raises.
InsertError(kind) ==
    IF TransportTranslate(kind, "Arrow insert") = "TransportError" THEN "AmbiguousWriteError"
    ELSE TransportTranslate(kind, "Arrow insert")

\* Errors after which the connector claims to know what the task has written.
Definite == TranslatedErrors
Failures == Definite \cup {"AmbiguousWriteError", "Interrupt", "WorkerCrashed"}
-----------------------------------------------------------------------------
(* The no-replay gate *)

\* prepare_write_remote_args raises ConfigurationError.
ArgsRejected(a) == a.max_retries \notin {Absent, 0} \/ a.retry_exceptions

\* Ray's default when max_retries is not given is to retry.
RayRetries(a) == IF a.max_retries = Absent THEN 3 ELSE a.max_retries

\* Mutant of PrepareRemoteArgs: what the caller left open stays open.
PrepareRemoteArgsOpen(a) == a

PrepareRemoteArgs(a) == [a EXCEPT !.max_retries = 0]
-----------------------------------------------------------------------------
(* The insert settings *)

\* Mutant of InsertSettings: the caller's wait setting survives.
InsertSettingsUnforced(i) == [async |-> i.mode = "async", wait |-> i.wait]

\* async_insert follows insert_mode; an asynchronous insert always waits.
InsertSettings(i) ==
    [async |-> i.mode = "async", wait |-> IF i.mode = "async" THEN TRUE ELSE i.wait]
-----------------------------------------------------------------------------
(* Initial states: the call has been made, nothing has been sent. *)

NewTask == [pc |-> "idle", attempt |-> 0, client |-> FALSE, schema |-> NoSchema,
            block |-> 0, drawn |-> 0, reply |-> "none",
            batches |-> 0, rows |-> 0, failure |-> "none"]

Init ==
    /\ ds \in Datasets
    /\ args \in UserArgs
    /\ insert \in [mode : {"sync", "async"}, wait : BOOLEAN]
    /\ driver = "call"
    /\ remote = args
    /\ schema = NoSchema
    /\ outcome = "pending"
    /\ receipt = NoReceipt
    /\ task = [t \in Tasks |-> NewTask]
    /\ net = {} /\ buffered = {}
    /\ applied = [t \in Tasks |-> [b \in 1..NumBatches(t) |-> 0]]
-----------------------------------------------------------------------------
(* The driver: write_clickhouse, Dataset.write_datasink and its callbacks *)

Raise(error) ==
    /\ driver' = "done"
    /\ outcome' = error
    /\ receipt' = NoReceipt   \* on_write_failed, or no callback at all

\* validate_write_remote_args
PrepareArgs ==
    /\ driver = "call"
    /\ IF ArgsRejected(args)
       THEN Raise("ConfigurationError") /\ UNCHANGED remote
       ELSE /\ remote' = PrepareRemoteArgs(args)
            /\ driver' = "ready"
            /\ UNCHANGED <<outcome, receipt>>
    /\ UNCHANGED <<inputs, schema, task, serverVars>>

\* on_write_start: Ray passes the schema of the first input, or None; the
\* target is discovered and a known schema validated against it.
OnWriteStart(s) ==
    /\ driver = "ready"
    /\ Active # {}
    /\ schema' = s
    /\ IF s \in Accepted \cup {NoSchema}
       THEN driver' = "running" /\ UNCHANGED <<outcome, receipt>>
       ELSE Raise("SchemaError")
    /\ UNCHANGED <<inputs, remote, task, serverVars>>

\* discover_target fails.
DiscoveryFails ==
    /\ driver = "ready"
    /\ Active # {}
    /\ Raise("DiscoveryError")
    /\ UNCHANGED <<inputs, remote, schema, task, serverVars>>

\* Mutant of OnWriteComplete: tasks that have failed count as finished.
OnWriteCompleteLenient ==
    /\ driver \in {"ready", "running"}
    /\ driver = "ready" => Active = {}
    /\ \A t \in Active : task[t].pc \in {"returned", "failed"}
    /\ receipt' = [rows    |-> SumFunction([t \in Active |-> task[t].rows]),
                   batches |-> SumFunction([t \in Active |-> task[t].batches])]
    /\ outcome' = "receipt"
    /\ driver' = "done"
    /\ UNCHANGED <<inputs, remote, schema, task, serverVars>>

\* on_write_complete sums what the tasks returned; with no input there are
\* no tasks and on_write_start has not run.
OnWriteComplete ==
    /\ driver \in {"ready", "running"}
    /\ driver = "ready" => Active = {}
    /\ \A t \in Active : task[t].pc = "returned"
    /\ receipt' = [rows    |-> SumFunction([t \in Active |-> task[t].rows]),
                   batches |-> SumFunction([t \in Active |-> task[t].batches])]
    /\ outcome' = "receipt"
    /\ driver' = "done"
    /\ UNCHANGED <<inputs, remote, schema, task, serverVars>>

\* Ray repeats a task after a crash, or after an exception if asked to.
CanRetry(t) ==
    /\ task[t].attempt <= RayRetries(remote)
    /\ task[t].failure = "WorkerCrashed" \/ remote.retry_exceptions

\* The first failure Ray reports ends the call; on_write_failed clears the
\* receipt.  Tasks already running are not waited for.
OnWriteFailed(t) ==
    /\ driver = "running"
    /\ task[t].pc = "failed"
    /\ ~CanRetry(t)
    /\ Raise(task[t].failure)
    /\ UNCHANGED <<inputs, remote, schema, task, serverVars>>
-----------------------------------------------------------------------------
(* A worker: ClickHouseDataSink.write and its session *)

Block(t) == ds[t].blocks[task[t].block]

\* The exception handler of write: remember the failure, go to finally.
FailWith(t, error) ==
    task' = [task EXCEPT ![t] = [@ EXCEPT !.failure = error, !.pc = "close"]]

Runnable(t) == task[t].pc = "idle" \/ (task[t].pc = "failed" /\ CanRetry(t))

\* Ray starts the task, or repeats it, with its own copy of the sink.
Launch(t) ==
    /\ driver = "running"
    /\ t \in Active
    /\ Runnable(t)
    /\ task' = [task EXCEPT ![t] =
                  [NewTask EXCEPT !.pc = "start", !.attempt = task[t].attempt + 1,
                                  !.schema = schema]]
    /\ UNCHANGED <<inputs, driverVars, serverVars>>

\* ClickHouseInsertSession.start
SessionStart(t) ==
    /\ task[t].pc = "start"
    /\ task' = [task EXCEPT ![t] = [@ EXCEPT !.client = TRUE, !.pc = "block"]]
    /\ UNCHANGED <<inputs, driverVars, serverVars>>

SessionStartFails(t, kind) ==
    /\ task[t].pc = "start"
    /\ FailWith(t, TransportTranslate(kind, "write client initialization"))
    /\ UNCHANGED <<inputs, driverVars, serverVars>>

\* The schema the sink copy has when it prepares block b: its own, or that of
\* the first block when the driver had none.
SourceSchema(t, b) == IF task[t].schema = NoSchema THEN b.schema ELSE task[t].schema

\* validate_source_schema and prepare_arrow_table accept the block.
BlockAccepted(t, b) ==
    /\ SourceSchema(t, b) \in Accepted
    /\ b.schema = SourceSchema(t, b)
    /\ b.clean

NextBlock(t) ==
    /\ task[t].pc = "block"
    /\ task[t].block < NumBlocks(t)
    /\ LET b == ds[t].blocks[task[t].block + 1] IN
         IF BlockAccepted(t, b)
         THEN task' = [task EXCEPT ![t] =
                [task[t] EXCEPT !.block = @ + 1, !.schema = SourceSchema(t, b), !.pc = "slice"]]
         ELSE FailWith(t, IF SourceSchema(t, b) \in Accepted THEN "WriteError" ELSE "SchemaError")
    /\ UNCHANGED <<inputs, driverVars, serverVars>>

NoMoreBlocks(t) ==
    /\ task[t].pc = "block"
    /\ task[t].block = NumBlocks(t)
    /\ task' = [task EXCEPT ![t].pc = "close"]
    /\ UNCHANGED <<inputs, driverVars, serverVars>>

\* session.insert(batch): the request leaves the client.
Insert(t) ==
    /\ task[t].pc = "slice"
    /\ task[t].drawn < Block(t).last
    /\ task' = [task EXCEPT ![t] =
                  [task[t] EXCEPT !.drawn = @ + 1, !.reply = "none", !.pc = "waiting"]]
    /\ net' = net \cup {[task |-> t, attempt |-> task[t].attempt,
                         batch |-> task[t].drawn + 1]}
    /\ UNCHANGED <<inputs, driverVars, buffered, applied>>

EndBlock(t) ==
    /\ task[t].pc = "slice"
    /\ task[t].drawn = Block(t).last
    /\ task' = [task EXCEPT ![t].pc = "block"]
    /\ UNCHANGED <<inputs, driverVars, serverVars>>

\* insert returns, and only then are the batch and its rows counted.
Confirmed(t) ==
    /\ task[t].pc = "waiting"
    /\ task[t].reply = "ok"
    /\ task' = [task EXCEPT ![t] =
                  [task[t] EXCEPT !.batches = @ + 1, !.rows = @ + Rows(t, task[t].drawn),
                            !.pc = "slice"]]
    /\ UNCHANGED <<inputs, driverVars, serverVars>>

\* The server answered with an error.
Rejected(t) ==
    /\ task[t].pc = "waiting"
    /\ task[t].reply \in Kinds
    /\ FailWith(t, InsertError(task[t].reply))
    /\ UNCHANGED <<inputs, driverVars, serverVars>>

\* Mutant of GiveUp: the batch is skipped and the task goes on.
GiveUpContinues(t, kind) ==
    /\ task[t].pc = "waiting"
    /\ task' = [task EXCEPT ![t].pc = "slice"]
    /\ UNCHANGED <<inputs, driverVars, serverVars>>

\* No answer in time, or the connection broke; the request may be anywhere.
GiveUp(t, kind) ==
    /\ task[t].pc = "waiting"
    /\ FailWith(t, InsertError(kind))
    /\ UNCHANGED <<inputs, driverVars, serverVars>>

\* KeyboardInterrupt or SystemExit during the call passes untranslated.
Interrupted(t) ==
    /\ task[t].pc = "waiting"
    /\ FailWith(t, "Interrupt")
    /\ UNCHANGED <<inputs, driverVars, serverVars>>

\* Mutant of Close: the client that was never opened is waited for.
CloseNeedsClient(t) ==
    /\ task[t].pc = "close"
    /\ task[t].client
    /\ task' = [task EXCEPT ![t] =
                  [@ EXCEPT !.client = FALSE,
                            !.pc = IF task[t].failure = "none" THEN "returned" ELSE "failed"]]
    /\ UNCHANGED <<inputs, driverVars, serverVars>>

\* finally: session.close(); write returns its totals or re-raises.
Close(t) ==
    /\ task[t].pc = "close"
    /\ task' = [task EXCEPT ![t] =
                  [@ EXCEPT !.client = FALSE,
                            !.pc = IF task[t].failure = "none" THEN "returned" ELSE "failed"]]
    /\ UNCHANGED <<inputs, driverVars, serverVars>>

\* client.close() fails: an earlier failure is kept, otherwise the task fails
\* although every batch was confirmed.
CloseFails(t) ==
    /\ task[t].pc = "close"
    /\ task[t].client
    /\ task' = [task EXCEPT ![t] =
                  [task[t] EXCEPT !.client = FALSE, !.pc = "failed",
                            !.failure = IF @ = "none" THEN "TransportError" ELSE @]]
    /\ UNCHANGED <<inputs, driverVars, serverVars>>

\* The worker process dies (also: Ray kills a task of a failed write).
WorkerCrash(t) ==
    /\ task[t].pc \in {"start", "block", "slice", "waiting", "close"}
    /\ task' = [task EXCEPT ![t] =
                  [@ EXCEPT !.client = FALSE, !.failure = "WorkerCrashed", !.pc = "failed"]]
    /\ UNCHANGED <<inputs, driverVars, serverVars>>
-----------------------------------------------------------------------------
(* The ClickHouse server and the network *)

\* The answer reaches the call that is still waiting for it.
Reply(r, answer) ==
    task' = IF task[r.task].pc = "waiting" /\ task[r.task].attempt = r.attempt
            THEN [task EXCEPT ![r.task].reply = answer]
            ELSE task

Apply(r) == applied' = [applied EXCEPT ![r.task][r.batch] = @ + 1]

ServerInsert(r) ==
    /\ r \in net
    /\ ~InsertSettings(insert).async
    /\ net' = net \ {r}
    /\ Apply(r)
    /\ Reply(r, "ok")
    /\ UNCHANGED <<inputs, driverVars, buffered>>

\* An asynchronous insert is queued, and answered at once unless it waits.
ServerBuffer(r) ==
    /\ r \in net
    /\ InsertSettings(insert).async
    /\ net' = net \ {r}
    /\ buffered' = buffered \cup {r}
    /\ IF InsertSettings(insert).wait THEN UNCHANGED task ELSE Reply(r, "ok")
    /\ UNCHANGED <<inputs, driverVars, applied>>

ServerFlush(r) ==
    /\ r \in buffered
    /\ buffered' = buffered \ {r}
    /\ Apply(r)
    /\ IF InsertSettings(insert).wait THEN Reply(r, "ok") ELSE UNCHANGED task
    /\ UNCHANGED <<inputs, driverVars, net>>

\* The request is refused without effect, before or during the flush.
ServerReject(r, kind) ==
    /\ r \in net \cup buffered
    /\ net' = net \ {r} /\ buffered' = buffered \ {r}
    /\ IF r \in net \/ InsertSettings(insert).wait THEN Reply(r, kind) ELSE UNCHANGED task
    /\ UNCHANGED <<inputs, driverVars, applied>>

\* The request is lost without effect or answer.
Lose(r) ==
    /\ r \in net \cup buffered
    /\ net' = net \ {r} /\ buffered' = buffered \ {r}
    /\ UNCHANGED <<inputs, driverVars, task, applied>>
-----------------------------------------------------------------------------
StartSchemas == {NoSchema} \cup {ds[t].blocks[1].schema : t \in Active}

TaskStep(t) ==
    \/ Launch(t) \/ SessionStart(t) \/ NextBlock(t) \/ NoMoreBlocks(t)
    \/ Insert(t) \/ EndBlock(t) \/ Confirmed(t) \/ Rejected(t)
    \/ \E kind \in LostKinds : GiveUp(t, kind)
    \/ Close(t)

TaskFault(t) ==
    \/ \E kind \in Kinds : SessionStartFails(t, kind)
    \/ Interrupted(t) \/ CloseFails(t) \/ WorkerCrash(t)

DriverStep ==
    \/ PrepareArgs \/ DiscoveryFails \/ OnWriteComplete
    \/ \E s \in StartSchemas : OnWriteStart(s)
    \/ \E t \in Tasks : OnWriteFailed(t)

ServerStep ==
    \E r \in net \cup buffered :
        \/ ServerInsert(r) \/ ServerBuffer(r) \/ ServerFlush(r) \/ Lose(r)
        \/ \E kind \in Kinds : ServerReject(r, kind)

\* The call has ended and nothing is left running.
Quiet ==
    /\ driver = "done"
    /\ net \cup buffered = {}
    /\ \A t \in Tasks : task[t].pc \in {"idle", "returned", "failed"}
    /\ UNCHANGED vars

Next ==
    \/ DriverStep
    \/ \E t \in Tasks : TaskStep(t) \/ TaskFault(t)
    \/ ServerStep
    \/ Quiet

Spec == Init /\ [][Next]_vars

\* The driver loop and every worker run; a waiting call ends, at the latest
\* by query_timeout_seconds.  Nothing is assumed of the server.
FairSpec == Spec /\ WF_vars(DriverStep) /\ \A t \in Tasks : WF_vars(TaskStep(t))
-----------------------------------------------------------------------------
TaskStates ==
    [pc : {"idle", "start", "block", "slice", "waiting", "close", "returned", "failed"},
     attempt : Nat, client : BOOLEAN, schema : Schemas \cup {NoSchema},
     block : Nat, drawn : Nat, reply : {"none", "ok"} \cup Kinds,
     batches : Nat, rows : Int, failure : {"none"} \cup Failures]

TypeOK ==
    /\ ds \in Datasets /\ args \in UserArgs
    /\ insert \in [mode : {"sync", "async"}, wait : BOOLEAN]
    /\ driver \in {"call", "ready", "running", "done"}
    /\ remote \in [max_retries : Nat \cup {Absent}, retry_exceptions : BOOLEAN]
    /\ schema \in Schemas \cup {NoSchema}
    /\ outcome \in {"pending", "receipt", "ConfigurationError", "DiscoveryError"} \cup Failures
    /\ task \in [Tasks -> TaskStates]
    /\ net \cup buffered \subseteq [task : Tasks, attempt : Nat, batch : Nat]
    /\ \A r \in net \cup buffered : r.batch \in 1..NumBatches(r.task)
    /\ applied = [t \in Tasks |-> applied[t]]
    /\ \A t \in Tasks : applied[t] \in [1..NumBatches(t) -> Nat]

Outstanding(t) == {r \in net \cup buffered : r.task = t}

\* A receipt means success: every batch is in the table exactly once, nothing
\* is on its way, and the receipt's totals are those of the Dataset
\* (on_write_complete adds up what the tasks confirmed).
ReceiptExact ==
    outcome = "receipt" =>
        /\ \A t \in Tasks : /\ \A b \in 1..NumBatches(t) : applied[t][b] = 1
                            /\ Outstanding(t) = {}
        /\ receipt = [rows    |-> SumFunction([t \in Active |-> ds[t].rowEnd[NumBatches(t)]]),
                      batches |-> SumFunction([t \in Active |-> NumBatches(t)])]

\* No interleaving of crashes, lost answers and late requests writes a batch
\* twice (prepare_write_remote_args forces max_retries to 0).
NoReplay == \A t \in Tasks : \A b \in 1..NumBatches(t) : applied[t][b] <= 1

\* A task that fails with an error that does not admit an unknown outcome has
\* written exactly the batches it confirmed, and nothing more will arrive
\* (the outcome "rejected" that ClickHouseInsertSession.insert logs).
DefiniteFailure ==
    \A t \in Tasks :
        task[t].pc = "failed" /\ task[t].failure \in Definite =>
            /\ Outstanding(t) = {}
            /\ \A b \in 1..NumBatches(t) :
                   applied[t][b] = IF b <= task[t].batches THEN 1 ELSE 0

\* A task writes its batches in order and stops at the first whose fate is
\* unknown: behind the confirmed prefix there is at most one more batch.
ConfirmedPrefix ==
    \A t \in Tasks : \A b \in 1..NumBatches(t) :
        /\ b <= task[t].batches => applied[t][b] = 1
        /\ b > task[t].batches + 1 => applied[t][b] = 0

\* The append seen from outside: see AppendWrite.
AllBatches == UNION {{t} \X (1..NumBatches(t)) : t \in Tasks}
ContentBar == [p \in AllBatches |-> applied[p[1]][p[2]]]
OutcomeBar == IF outcome \in {"pending", "receipt"} THEN outcome ELSE "error"

Promise == INSTANCE AppendWrite
             WITH batches <- AllBatches, content <- ContentBar, outcome <- OutcomeBar

\* The tasks, the gate and the callbacks together keep what write_clickhouse
\* promises of an append.
ImplementsPromise == Promise!Spec

\* The call ends, with a receipt or an exception, whatever the server does.
CallReturns == <>(outcome # "pending")
=============================================================================
