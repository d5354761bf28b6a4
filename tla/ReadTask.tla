------------------------------ MODULE ReadTask ------------------------------
(***************************************************************************)
(* One read task of Ray: the scans that _group_read_tasks (datasource.py)  *)
(* runs one after the other under one row limit, each of them a            *)
(* stream_query (_transport.py) with a client of its own.  A task of one   *)
(* scan without a limit is what _make_task builds.                         *)
(*                                                                         *)
(* Ray drives the generator: it asks for the next block or closes it, at   *)
(* any block.  Every request to the server may fail, and an interrupt may  *)
(* come while one is waited for.  The hazards are in the way out: three    *)
(* nested generators, two clients, and an exception that cleanup must not  *)
(* replace.                                                                *)
(***************************************************************************)
EXTENDS Integers, Sequences, ClientErrors

CONSTANTS
    None,       \* Python's None
    Plans,      \* the scans of a task: for each, the rows of its batches
    Limits,     \* the per-task row limits: None or a number of rows
    BatchRows,  \* limits.batch_rows
    FlushLogs,  \* diagnostic_flush_logs
    Attempts    \* _QUERY_LOG_LOOKUP_ATTEMPTS

\* What may leave a generator.
Exceptions == TranslatedErrors \cup {"KeyboardInterrupt", "GeneratorExit"}

ASSUME ReadAssumption ==
    /\ Plans \subseteq Seq(Seq(Nat))
    /\ None \notin Exceptions
    /\ Limits \subseteq Nat \cup {None} /\ None \notin Nat
    /\ BatchRows \in Nat \ {0} /\ Attempts \in Nat \ {0}
    /\ FlushLogs \in BOOLEAN

VARIABLES
    plan, limit,  \* the arguments
    pc,
    pos,          \* [scan, batch, pending, row]: the scan, its batch, the rows
                  \* of the batch not sliced yet, the rows of the scan sliced
    exc,          \* the exception in flight, or None
    failure,      \* the variable of stream_query that finally looks at
    lookups,      \* queries sent to the query log
    clients,      \* the clients that are open
    delivered,    \* the rows Ray has received, each <<scan, number>>
    outcome       \* "running" | "returned" | "raised" | "closed"

vars == <<plan, limit, pc, pos, exc, failure, lookups, clients, delivered, outcome>>

\* What _translate makes of a failed read, and a batch that does not match the
\* planned schema.
ReadErrors == {TransportTranslate(k, "Arrow query") : k \in Kinds} \cup {"ReadError"}

Position(scan, batch, pending, row) ==
    [scan |-> scan, batch |-> batch, pending |-> pending, row |-> row]
Start(scan) == Position(scan, 0, 0, 0)

\* remaining <= 0
LimitReached == limit # None /\ Len(delivered) >= limit

Init ==
    /\ plan \in Plans /\ limit \in Limits
    /\ pc = "group"
    /\ pos = Start(1)
    /\ exc = None /\ failure = None
    /\ lookups = 0
    /\ clients = {}
    /\ delivered = << >>
    /\ outcome = "running"
-----------------------------------------------------------------------------
(* The loop over the scans *)

End(result) == pc' = "end" /\ outcome' = result

NextScan ==
    /\ pc = "group"
    /\ IF LimitReached \/ pos.scan > Len(plan)
       THEN End("returned")
       ELSE pc' = "open" /\ UNCHANGED outcome
    /\ UNCHANGED <<plan, limit, pos, exc, failure, lookups, clients, delivered>>

\* Ray asks for the next block.  When the limit is reached the loop returns,
\* which closes the stream of this scan.
Resume ==
    /\ pc = "consumer"
    /\ IF LimitReached
       THEN pc' = "close" /\ exc' = "GeneratorExit" /\ failure' = "GeneratorExit"
       ELSE pc' = "slice" /\ UNCHANGED <<exc, failure>>
    /\ UNCHANGED <<plan, limit, pos, lookups, clients, delivered, outcome>>

\* Ray closes the generator, and each generator closes the one inside it.
CloseEarly ==
    /\ pc = "consumer"
    /\ pc' = "close" /\ exc' = "GeneratorExit" /\ failure' = "GeneratorExit"
    /\ UNCHANGED <<plan, limit, pos, lookups, clients, delivered, outcome>>

\* What the end of one stream is for the task: the next scan, a return out of
\* the loop, or the exception.
Unwind ==
    /\ pc = "unwind"
    /\ IF exc = None
       THEN pc' = "group" /\ pos' = Start(pos.scan + 1) /\ UNCHANGED outcome
       ELSE /\ UNCHANGED pos
            /\ End(CASE exc # "GeneratorExit" -> "raised"
                      [] exc = "GeneratorExit" /\ LimitReached -> "returned"
                      [] OTHER -> "closed")
    /\ UNCHANGED <<plan, limit, exc, failure, lookups, clients, delivered>>
-----------------------------------------------------------------------------
(* stream_query *)

OpenClient ==
    /\ pc = "open"
    /\ clients' = clients \cup {"data"}
    /\ pc' = "setup"
    /\ UNCHANGED <<plan, limit, pos, exc, failure, lookups, delivered, outcome>>

\* No query was started, so the log is not searched.
OpenFails ==
    /\ pc = "open"
    /\ \E k \in Kinds : exc' = TransportTranslate(k, "read client initialization")
    /\ failure' = exc'
    /\ pc' = "close"
    /\ UNCHANGED <<plan, limit, pos, lookups, clients, delivered, outcome>>

SetUpStream ==
    /\ pc = "setup"
    /\ pc' = "fetch"
    /\ UNCHANGED <<plan, limit, pos, exc, failure, lookups, clients, delivered, outcome>>

Fetch ==
    /\ pc = "fetch" /\ pos.batch < Len(plan[pos.scan])
    /\ pos' = Position(pos.scan, pos.batch + 1, plan[pos.scan][pos.batch + 1], pos.row)
    /\ pc' = "slice"
    /\ UNCHANGED <<plan, limit, exc, failure, lookups, clients, delivered, outcome>>

EndOfStream ==
    /\ pc = "fetch" /\ pos.batch = Len(plan[pos.scan])
    /\ pc' = "close"
    /\ UNCHANGED <<plan, limit, pos, exc, failure, lookups, clients, delivered, outcome>>

\* The request, the next batch or its validation fails: before anything is
\* closed, the log is searched.
ReadFails ==
    /\ pc \in {"setup", "fetch"}
    /\ exc' \in ReadErrors
    /\ pc' = "diagnostic client"
    /\ UNCHANGED <<plan, limit, pos, failure, lookups, clients, delivered, outcome>>

Interrupted ==
    /\ pc \in {"open", "setup", "fetch"}
    /\ exc' = "KeyboardInterrupt" /\ failure' = "KeyboardInterrupt"
    /\ pc' = "close"
    /\ UNCHANGED <<plan, limit, pos, lookups, clients, delivered, outcome>>

\* How many rows the next slice may have (iter_batch_slices; of those that the
\* row limit allows, the bytes of the rows decide).
SliceSizes(pending) == {n \in 1..pending : n <= BatchRows}

Rows(n) == [i \in 1..n |-> <<pos.scan, pos.row + i>>]

\* What is left of the limit cuts a slice.
Remaining(n) ==
    IF limit # None /\ limit - Len(delivered) < n THEN limit - Len(delivered) ELSE n

\* A slice of n rows has been cut off, and yielded rows of it are handed on.
Yield(n, yielded) ==
    /\ delivered' = delivered \o Rows(yielded)
    /\ pos' = Position(pos.scan, pos.batch, pos.pending - n, pos.row + n)
    /\ pc' = "consumer"
    /\ UNCHANGED <<plan, limit, exc, failure, lookups, clients, outcome>>

\* Mutant of YieldBlock: the block is handed on as it came.
YieldWholeBlock == pc = "slice" /\ \E n \in SliceSizes(pos.pending) : Yield(n, n)

\* A slice passes through the generators to Ray; the limit cuts it.
YieldBlock == pc = "slice" /\ \E n \in SliceSizes(pos.pending) : Yield(n, Remaining(n))

EndOfBatch ==
    /\ pc = "slice" /\ pos.pending = 0
    /\ pc' = "fetch"
    /\ UNCHANGED <<plan, limit, pos, exc, failure, lookups, clients, delivered, outcome>>

CloseClient ==
    /\ pc = "close"
    /\ clients' = clients \ {"data"}
    /\ pc' = "unwind"
    /\ UNCHANGED <<plan, limit, pos, exc, failure, lookups, delivered, outcome>>

\* Mutant of CloseFails: the error of close() is always raised.
CloseFailsLoudly ==
    /\ pc = "close" /\ "data" \in clients
    /\ clients' = clients \ {"data"}
    /\ exc' = "TransportError"
    /\ pc' = "unwind"
    /\ UNCHANGED <<plan, limit, pos, failure, lookups, delivered, outcome>>

\* The error of close() is raised only when the stream did not fail.
CloseFails ==
    /\ pc = "close" /\ "data" \in clients
    /\ clients' = clients \ {"data"}
    /\ exc' = IF failure = None THEN "TransportError" ELSE exc
    /\ pc' = "unwind"
    /\ UNCHANGED <<plan, limit, pos, failure, lookups, delivered, outcome>>
-----------------------------------------------------------------------------
(* _lookup_query_diagnostic *)

OpenDiagnostic ==
    /\ pc = "diagnostic client"
    /\ clients' = clients \cup {"diagnostic"}
    /\ pc' = IF FlushLogs THEN "flush" ELSE "log table"
    /\ UNCHANGED <<plan, limit, pos, exc, failure, lookups, delivered, outcome>>

\* Refused, or answered: it makes no difference.
Flush ==
    /\ pc = "flush"
    /\ pc' = "log table"
    /\ UNCHANGED <<plan, limit, pos, exc, failure, lookups, clients, delivered, outcome>>

FindLogTable ==
    /\ pc = "log table"
    /\ pc' = "lookup"
    /\ UNCHANGED <<plan, limit, pos, exc, failure, lookups, clients, delivered, outcome>>

\* Mutant of LookUp: each attempt is made on a client of its own, and not
\* counted.
LookUpAfresh ==
    /\ pc = "lookup"
    /\ pc' \in {"diagnostic client", "diagnostic close"}
    /\ UNCHANGED <<plan, limit, pos, exc, failure, lookups, clients, delivered, outcome>>

\* The log has the query, or the lookup fails; or the log does not have the
\* query yet and is asked again, a bounded number of times.
LookUp ==
    /\ pc = "lookup"
    /\ lookups' = lookups + 1
    /\ \/ pc' = "diagnostic close"
       \/ lookups' < Attempts /\ pc' = "lookup"
    /\ UNCHANGED <<plan, limit, pos, exc, failure, clients, delivered, outcome>>

\* No client, no log table, or no permission to see one.
NoDiagnostic ==
    /\ pc \in {"diagnostic client", "log table"}
    /\ pc' = "diagnostic close"
    /\ UNCHANGED <<plan, limit, pos, exc, failure, lookups, clients, delivered, outcome>>

\* An interrupt is no Exception, so it takes the place of the error; failure
\* stays unset.
DiagnosticInterrupted ==
    /\ pc \in {"diagnostic client", "flush", "log table", "lookup"}
    /\ exc' = "KeyboardInterrupt"
    /\ pc' = "diagnostic close"
    /\ UNCHANGED <<plan, limit, pos, failure, lookups, clients, delivered, outcome>>

\* Mutant of CloseDiagnostic: the client is closed on the way to a result only.
CloseDiagnosticOnResult ==
    /\ pc = "diagnostic close"
    /\ clients' = IF lookups < Attempts THEN clients \ {"diagnostic"} ELSE clients
    /\ failure' = IF exc = "KeyboardInterrupt" THEN failure ELSE exc
    /\ pc' = "close"
    /\ UNCHANGED <<plan, limit, pos, exc, lookups, delivered, outcome>>

\* finally, and back in stream_query the error is kept as the failure.
CloseDiagnostic ==
    /\ pc = "diagnostic close"
    /\ clients' = clients \ {"diagnostic"}
    /\ failure' = IF exc = "KeyboardInterrupt" THEN failure ELSE exc
    /\ pc' = "close"
    /\ UNCHANGED <<plan, limit, pos, exc, lookups, delivered, outcome>>
-----------------------------------------------------------------------------
Ended == pc = "end" /\ UNCHANGED vars

Diagnose ==
    \/ OpenDiagnostic \/ Flush \/ FindLogTable \/ LookUp
    \/ NoDiagnostic \/ DiagnosticInterrupted \/ CloseDiagnostic

Step ==
    \/ NextScan \/ Unwind
    \/ OpenClient \/ OpenFails \/ SetUpStream \/ Fetch \/ EndOfStream
    \/ ReadFails \/ Interrupted
    \/ YieldBlock \/ EndOfBatch \/ CloseClient \/ CloseFails
    \/ Diagnose

\* What the generator waits for Ray to do.
Consumer == Resume \/ CloseEarly

Next == Step \/ Consumer \/ Ended

\* Requests are answered or time out (the client has timeouts), and Ray asks
\* for the next block or drops the generator.
FairSpec == Init /\ [][Next]_vars /\ WF_vars(Step) /\ WF_vars(Consumer)
-----------------------------------------------------------------------------
PCs == {"group", "open", "setup", "fetch", "slice", "consumer", "close", "unwind",
        "diagnostic client", "flush", "log table", "lookup", "diagnostic close", "end"}

\* The scans, the position in them and the rows of them that were delivered.
ScansOK ==
    /\ plan \in Plans /\ limit \in Limits
    /\ pos \in [scan : 1..(Len(plan) + 1), batch : Nat, pending : Nat, row : Nat]
    /\ delivered \in Seq((1..Len(plan)) \X (Nat \ {0}))

TypeOK ==
    /\ ScansOK
    /\ pc \in PCs
    /\ exc \in Exceptions \cup {None} /\ failure \in Exceptions \cup {None}
    /\ lookups \in 0..Attempts
    /\ clients \subseteq {"data", "diagnostic"}
    /\ outcome \in {"running", "returned", "raised", "closed"}

\* Whichever way the task ends, and between two scans, nothing is left open:
\* not the stream a limit cut short, not the second client a failed read
\* opened while it still held the first.
ClientsReleased ==
    /\ pc \in {"group", "unwind", "end"} => clients = {}
    /\ "diagnostic" \in clients => exc # None

\* An error on its way out is not replaced by one of cleanup or of the
\* diagnostics; only an interrupt takes its place.  Closing the generator
\* early raises nothing ("never replaces the original read exception").
FailureKept ==
    [][/\ exc \in ReadErrors => exc' \in {exc, "KeyboardInterrupt"}
       /\ exc = "GeneratorExit" => exc' = exc]_vars

\* The inductive invariant of the proofs: what is open, and what is in flight,
\* where the generators may be.
Reading == {"setup", "fetch", "slice", "consumer"}
Diagnosing == {"flush", "log table", "lookup"}

ClientsHeld ==
    /\ pc \in {"group", "open", "unwind", "end"} => clients = {}
    /\ pc \in Reading \cup {"diagnostic client"} => clients = {"data"}
    /\ pc \in Diagnosing => clients = {"data", "diagnostic"}
    /\ pc = "diagnostic close" => clients \subseteq {"data", "diagnostic"}
    /\ pc = "close" => clients \subseteq {"data"}

InFlight ==
    /\ pc \in {"group", "open"} \cup Reading => exc = None /\ failure = None
    /\ pc \in {"diagnostic client", "diagnostic close"} \cup Diagnosing =>
           exc \in ReadErrors \cup {"KeyboardInterrupt"} /\ failure = None
    /\ pc = "close" =>
           \/ exc \in Exceptions /\ failure = exc
           \/ exc \in {None, "KeyboardInterrupt"} /\ failure = None
    /\ pc = "unwind" /\ exc = None => failure = None

IInv == pc \in PCs /\ ClientsHeld /\ InFlight

\* The scan that is read is one of the plan.
InPlan == pos.scan \in 1..Len(plan)

\* The log is searched after the scan has failed, and no more than Attempts
\* times.
Searched ==
    /\ pc \in {"open"} \cup Reading => InPlan
    /\ pc \in {"close", "unwind"} /\ exc = None => InPlan
    /\ pc \in {"group", "open", "diagnostic client", "flush", "log table"} \cup Reading =>
           lookups = 0
    /\ pc \in {"close", "unwind"} /\ exc = None => lookups = 0
    /\ pc = "lookup" => lookups < Attempts

TypeInv == TypeOK /\ Searched

\* The rows of the scans, in the order of the scans: of the first batches of a
\* scan, and of the first scans of the plan.
RowsUpTo(scan) ==
    LET rows[b \in 0..Len(scan)] == IF b = 0 THEN 0 ELSE rows[b - 1] + scan[b] IN rows
RowCount(scan) == RowsUpTo(scan)[Len(scan)]

RowsOf(s) == [n \in 1..RowCount(plan[s]) |-> <<s, n>>]
ScansUpTo ==
    LET rows[s \in 0..Len(plan)] == IF s = 0 THEN << >> ELSE rows[s - 1] \o RowsOf(s) IN rows
AllRows == ScansUpTo[Len(plan)]

Promise == INSTANCE RowStream WITH rows <- AllRows

\* Ray gets the rows the task promises, in order: none skipped or repeated at
\* the joints of slices, batches and scans, none beyond the limit, and a task
\* that returns has delivered all it owes.
ImplementsRowStream == Promise!Spec

\* The inductive invariant of the refinement.  The rows delivered are the first
\* ones, as many as have been sliced, or as the limit allows.
Sliced == Len(ScansUpTo[pos.scan - 1]) + pos.row

FirstRows ==
    /\ delivered = SubSeq(AllRows, 1, Len(delivered))
    /\ Len(delivered) = IF limit # None /\ limit < Sliced THEN limit ELSE Sliced
    /\ Sliced <= Len(AllRows)

\* The stream is where the slices have brought it, and is not read past the
\* limit.
StreamPosition ==
    /\ pc \in {"group", "open", "setup"} => pos = Start(pos.scan)
    /\ pc \in Reading =>
           /\ pos.batch <= Len(plan[pos.scan])
           /\ pos.row + pos.pending = RowsUpTo(plan[pos.scan])[pos.batch]
    /\ pc = "fetch" => pos.pending = 0
    /\ pc \in {"close", "unwind"} /\ exc = None => pos.row = RowCount(plan[pos.scan])
    /\ pc \in {"open", "setup", "fetch", "slice"} => ~LimitReached

Progress ==
    /\ FirstRows /\ StreamPosition
    /\ pc = "end" <=> outcome # "running"

\* Every way out of the generators ends.
TaskEnds == <>(pc = "end")
=============================================================================
