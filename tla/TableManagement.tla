--------------------------- MODULE TableManagement ---------------------------
(***************************************************************************)
(* ClickHouseDataSink.on_write_start (datasink.py) by several writers of   *)
(* one table: create_or_replace_table (_ddl.py) for the modes create and   *)
(* overwrite, then discover_target (_discovery.py) and                     *)
(* validate_source_schema (_schema.py).                                    *)
(*                                                                         *)
(* A writer looks whether the table exists, drops it, creates it and       *)
(* discovers it, each with a request of its own, and other writers run in  *)
(* between.  A request may be carried out after its sender has given up.   *)
(*                                                                         *)
(* The catalog holds one incarnation of the table at a time.  A writer     *)
(* sends at most one CREATE, so its own name identifies the incarnation it *)
(* creates; Old is the table that was there before.                        *)
(***************************************************************************)
EXTENDS ClientErrors

CONSTANTS
    Writers,     \* concurrent calls of write_clickhouse for one table
    Old,         \* the incarnation that exists at the start, if any
    NoTable,     \* the table does not exist
    Schemas,     \* Arrow schemas
    Creatable,   \* those _create_sql can render
    Insertable,  \* those arrow_compatible accepts for the table made from them
    OldSchema,   \* the schema Old takes
    OldGoverned, \* whether the engine of Old is in WRITE_ENGINES
    Jobs         \* the arguments calls are made with: see JobsAssumption

ASSUME NamesAssumption ==
    Old \notin Writers /\ NoTable \notin Writers \cup {Old}
ASSUME SchemasAssumption ==
    /\ Creatable \subseteq Schemas /\ Insertable \subseteq Schemas
    /\ OldSchema \in Schemas /\ OldGoverned \in BOOLEAN

\* A call asks for a mode and brings a schema; "columns" is whether its columns
\* argument, if any, names columns of the source and of the target and omits
\* no required one.
ASSUME JobsAssumption ==
    Jobs \subseteq [mode : {"append", "create", "overwrite"}, schema : Schemas,
                    columns : BOOLEAN]

Incarnations == Writers \cup {Old}

VARIABLES
    job,      \* the arguments of each writer
    writer,   \* the state of each writer
    catalog,  \* the incarnation that exists now
    net,      \* commands on their way: [writer, op]
    made,     \* writers whose CREATE was carried out
    dropped   \* the incarnation each writer's DROP removed

serverVars == <<catalog, net, made, dropped>>
vars == <<job, writer, serverVars>>

Overwrites(w) == job[w].mode = "overwrite"

NewWriter == [pc |-> "start", dropStarted |-> FALSE, reply |-> "none",
              confirmed |-> FALSE, engineOf |-> NoTable, columnsOf |-> NoTable,
              failure |-> "none"]

Init ==
    /\ job \in [Writers -> Jobs]
    /\ writer = [w \in Writers |-> NewWriter]
    /\ catalog \in {Old, NoTable}
    /\ net = {}
    /\ made = {}
    /\ dropped = [w \in Writers |-> NoTable]

Goto(w, label) == writer' = [writer EXCEPT ![w].pc = label]
Fail(w, label, error) ==
    writer' = [writer EXCEPT ![w] = [@ EXCEPT !.pc = label, !.failure = error]]
-----------------------------------------------------------------------------
(* create_or_replace_table *)

\* The mode decides; _create_sql raises before anything is sent.
Start(w) ==
    /\ writer[w].pc = "start"
    /\ IF job[w].mode = "append" THEN Goto(w, "engine")
       ELSE IF job[w].schema \in Creatable THEN Goto(w, "check")
       ELSE Fail(w, "failed", "SchemaError")
    /\ UNCHANGED <<job, serverVars>>

\* The exception handlers: once the drop has been started, every error means
\* that the old table may be gone without a replacement.
TableError(w, kind) ==
    IF writer[w].dropStarted THEN "AmbiguousTableManagementError"
    ELSE DiscoveryTranslate(kind, "create table")

\* Opening the client or the query on system.tables fails.
CheckFails(w, kind) ==
    /\ writer[w].pc = "check"
    /\ Fail(w, "close", TableError(w, kind))
    /\ UNCHANGED <<job, serverVars>>

\* The query on system.tables.
Check(w) ==
    /\ writer[w].pc = "check"
    /\ CASE catalog # NoTable /\ ~Overwrites(w) -> Fail(w, "close", "ConfigurationError")
         [] catalog # NoTable /\ Overwrites(w)  -> Goto(w, "drop")
         [] catalog = NoTable                   -> Goto(w, "create")
    /\ UNCHANGED <<job, serverVars>>

\* Mutant of SendDrop: drop_started is not set before the command.
SendDropUnmarked(w) ==
    /\ writer[w].pc = "drop"
    /\ writer' = [writer EXCEPT ![w] =
                    [@ EXCEPT !.pc = "dropping", !.reply = "none"]]
    /\ net' = net \cup {[writer |-> w, op |-> "drop"]}
    /\ UNCHANGED <<job, catalog, made, dropped>>

\* drop_started = True; client.command("DROP TABLE ...")
SendDrop(w) ==
    /\ writer[w].pc = "drop"
    /\ writer' = [writer EXCEPT ![w] =
                    [@ EXCEPT !.pc = "dropping", !.dropStarted = TRUE, !.reply = "none"]]
    /\ net' = net \cup {[writer |-> w, op |-> "drop"]}
    /\ UNCHANGED <<job, catalog, made, dropped>>

DropConfirmed(w) ==
    /\ writer[w].pc = "dropping"
    /\ writer[w].reply = "ok"
    /\ Goto(w, "create")
    /\ UNCHANGED <<job, serverVars>>

\* client.command("CREATE TABLE ...")
SendCreate(w) ==
    /\ writer[w].pc = "create"
    /\ writer' = [writer EXCEPT ![w] = [@ EXCEPT !.pc = "creating", !.reply = "none"]]
    /\ net' = net \cup {[writer |-> w, op |-> "create"]}
    /\ UNCHANGED <<job, catalog, made, dropped>>

CreateConfirmed(w) ==
    /\ writer[w].pc = "creating"
    /\ writer[w].reply = "ok"
    /\ writer' = [writer EXCEPT ![w] = [@ EXCEPT !.pc = "close", !.confirmed = TRUE]]
    /\ UNCHANGED <<job, serverVars>>

Waiting(w) == writer[w].pc \in {"dropping", "creating"}

CommandRejected(w) ==
    /\ Waiting(w)
    /\ writer[w].reply \in Kinds
    /\ Fail(w, "close", TableError(w, writer[w].reply))
    /\ UNCHANGED <<job, serverVars>>

\* Mutant of GiveUp: a drop without an answer is taken for done.
GiveUpOnDrop(w, kind) ==
    /\ Waiting(w)
    /\ IF writer[w].pc = "dropping" THEN Goto(w, "create")
       ELSE Fail(w, "close", TableError(w, kind))
    /\ UNCHANGED <<job, serverVars>>

\* No answer within the time limit, or a broken connection.
GiveUp(w, kind) ==
    /\ Waiting(w)
    /\ Fail(w, "close", TableError(w, kind))
    /\ UNCHANGED <<job, serverVars>>

\* KeyboardInterrupt or SystemExit is re-raised as it is.
Interrupted(w) ==
    /\ Waiting(w)
    /\ Fail(w, "close", "Interrupt")
    /\ UNCHANGED <<job, serverVars>>

\* Mutant of Close: the failure is forgotten.
CloseSwallows(w) ==
    /\ writer[w].pc = "close"
    /\ Goto(w, "engine")
    /\ UNCHANGED <<job, serverVars>>

\* Mutant of Close: it is reached on success only.
CloseOnSuccess(w) ==
    /\ writer[w].pc = "close"
    /\ writer[w].failure = "none"
    /\ Goto(w, "engine")
    /\ UNCHANGED <<job, serverVars>>

\* finally: the client is closed; a failure to close is only logged.
Close(w) ==
    /\ writer[w].pc = "close"
    /\ Goto(w, IF writer[w].failure = "none" THEN "engine" ELSE "failed")
    /\ UNCHANGED <<job, serverVars>>
-----------------------------------------------------------------------------
(* discover_target: two queries, the engine and the columns *)

Governed(i) == i # Old \/ OldGoverned
SchemaOf(i) == IF i = Old THEN OldSchema ELSE job[i].schema

DiscoverEngine(w) ==
    /\ writer[w].pc = "engine"
    /\ CASE catalog = NoTable -> Fail(w, "failed", "ObjectNotFoundError")
         [] catalog # NoTable /\ ~Governed(catalog) -> Fail(w, "failed", "SchemaError")
         [] catalog # NoTable /\ Governed(catalog) ->
              writer' = [writer EXCEPT ![w] =
                           [@ EXCEPT !.pc = "columns", !.engineOf = catalog]]
    /\ UNCHANGED <<job, serverVars>>

\* No rows from system.columns are malformed metadata.
DiscoverColumns(w) ==
    /\ writer[w].pc = "columns"
    /\ IF catalog = NoTable THEN Fail(w, "failed", "SchemaError")
       ELSE writer' = [writer EXCEPT ![w] =
                         [@ EXCEPT !.pc = "plan", !.columnsOf = catalog]]
    /\ UNCHANGED <<job, serverVars>>

DiscoveryFails(w, kind) ==
    /\ writer[w].pc \in {"engine", "columns"}
    /\ Fail(w, "failed", DiscoveryTranslate(kind, "target discovery"))
    /\ UNCHANGED <<job, serverVars>>

\* validate_source_schema against the columns that were discovered.
SourceAccepted(w) ==
    /\ job[w].columns
    /\ job[w].schema \in Insertable
    /\ job[w].schema = SchemaOf(writer[w].columnsOf)

Plan(w) ==
    /\ writer[w].pc = "plan"
    /\ IF SourceAccepted(w) THEN Goto(w, "ready")
       ELSE Fail(w, "failed", IF job[w].columns THEN "WriteError" ELSE "SchemaError")
    /\ UNCHANGED <<job, serverVars>>

\* The driver process dies.
Crash(w) ==
    /\ writer[w].pc \notin {"ready", "failed", "dead"}
    /\ Goto(w, "dead")
    /\ UNCHANGED <<job, serverVars>>
-----------------------------------------------------------------------------
(* The ClickHouse server and the network *)

Reply(w, waitingAt, answer) ==
    writer' = IF writer[w].pc = waitingAt THEN [writer EXCEPT ![w].reply = answer]
              ELSE writer

\* DROP TABLE fails if there is no table.
ServerDrop(r) ==
    /\ r \in net /\ r.op = "drop"
    /\ net' = net \ {r}
    /\ IF catalog = NoTable
       THEN Reply(r.writer, "dropping", "missing") /\ UNCHANGED <<catalog, dropped>>
       ELSE /\ dropped' = [dropped EXCEPT ![r.writer] = catalog]
            /\ catalog' = NoTable
            /\ Reply(r.writer, "dropping", "ok")
    /\ UNCHANGED <<job, made>>

\* Mutant of ServerCreate: the statement says IF NOT EXISTS.
ServerCreateIfNotExists(r) ==
    /\ r \in net /\ r.op = "create"
    /\ net' = net \ {r}
    /\ IF catalog # NoTable
       THEN Reply(r.writer, "creating", "ok") /\ UNCHANGED <<catalog, made>>
       ELSE /\ catalog' = r.writer
            /\ made' = made \cup {r.writer}
            /\ Reply(r.writer, "creating", "ok")
    /\ UNCHANGED <<job, dropped>>

\* The statement of _create_sql is a plain CREATE TABLE, which fails if there
\* is a table.
ServerCreate(r) ==
    /\ r \in net /\ r.op = "create"
    /\ net' = net \ {r}
    /\ IF catalog # NoTable
       THEN Reply(r.writer, "creating", "other") /\ UNCHANGED <<catalog, made>>
       ELSE /\ catalog' = r.writer
            /\ made' = made \cup {r.writer}
            /\ Reply(r.writer, "creating", "ok")
    /\ UNCHANGED <<job, dropped>>

WaitingFor(r) == IF r.op = "drop" THEN "dropping" ELSE "creating"

\* Refused without effect, for any other reason.
ServerReject(r, kind) ==
    /\ r \in net
    /\ net' = net \ {r}
    /\ Reply(r.writer, WaitingFor(r), kind)
    /\ UNCHANGED <<job, catalog, made, dropped>>

\* Lost without effect or answer.
Lose(r) ==
    /\ r \in net
    /\ net' = net \ {r}
    /\ UNCHANGED <<job, writer, catalog, made, dropped>>
-----------------------------------------------------------------------------
WriterStep(w) ==
    \/ Start(w) \/ Check(w)
    \/ SendDrop(w) \/ DropConfirmed(w) \/ SendCreate(w) \/ CreateConfirmed(w)
    \/ CommandRejected(w) \/ (\E kind \in LostKinds : GiveUp(w, kind))
    \/ Close(w) \/ DiscoverEngine(w) \/ DiscoverColumns(w) \/ Plan(w)

WriterFault(w) ==
    \/ \E kind \in Kinds : CheckFails(w, kind) \/ DiscoveryFails(w, kind)
    \/ Interrupted(w) \/ Crash(w)

ServerStep ==
    \E r \in net :
        \/ ServerDrop(r) \/ ServerCreate(r) \/ Lose(r)
        \/ \E kind \in Kinds : ServerReject(r, kind)

Settled(w) == writer[w].pc \in {"ready", "failed", "dead"}

Quiet == net = {} /\ (\A w \in Writers : Settled(w)) /\ UNCHANGED vars

Next ==
    \/ \E w \in Writers : WriterStep(w) \/ WriterFault(w)
    \/ ServerStep
    \/ Quiet

Spec == Init /\ [][Next]_vars

\* Each driver runs on, and a waiting command ends by its time limit.
FairSpec == Spec /\ \A w \in Writers : WF_vars(WriterStep(w))
-----------------------------------------------------------------------------
Admits(error) == error \in {"AmbiguousTableManagementError", "Interrupt"}

\* The writer's DROP has removed a table or still may.
MayHaveDropped(w) ==
    dropped[w] # NoTable \/ [writer |-> w, op |-> "drop"] \in net

\* A table-management error other than the ambiguous one means that this call
\* has dropped nothing, and that no drop of its own is still on its way: the
\* order of drop_started = True and the command, and the two handlers.
DropsAdmitted ==
    \A w \in Writers :
        writer[w].pc = "failed" /\ ~writer[w].confirmed /\ ~Admits(writer[w].failure) =>
            ~MayHaveDropped(w)

\* A call whose CREATE was confirmed did create the table, whatever other
\* writers do between its look at system.tables and its CREATE: of two calls
\* that both found no table, only one gets past table management.
ConfirmedMeansMade == \A w \in Writers : writer[w].confirmed => w \in made

\* A DROP that is carried out late, after its call has failed, never hits the
\* table that the same call created: no CREATE follows an unanswered DROP.
NoSelfDestruct == \A w \in Writers : dropped[w] # w

\* In the modes create and overwrite a call goes on only with a table that is
\* newer than the one it found: it never writes into the old table.
PlansNewTable ==
    \A w \in Writers :
        job[w].mode # "append" => Old \notin {writer[w].engineOf, writer[w].columnsOf}

\* Every call gets to the start of its tasks or to an error.
EveryWriterSettles == \A w \in Writers : <>Settled(w)
-----------------------------------------------------------------------------
(* The inductive invariant of the safety properties: what each program     *)
(* counter says of the writer's own commands.                              *)

Labels == {"start", "check", "drop", "dropping", "create", "creating", "close",
           "engine", "columns", "plan", "ready", "failed", "dead"}
Errors == TranslatedErrors \cup {"AmbiguousTableManagementError", "ConfigurationError",
                                 "SchemaError", "Interrupt"}

TypeOK ==
    /\ job \in [Writers -> Jobs]
    /\ writer \in [Writers -> [pc : Labels, dropStarted : BOOLEAN,
                               reply : {"none", "ok"} \cup Kinds, confirmed : BOOLEAN,
                               engineOf : Incarnations \cup {NoTable},
                               columnsOf : Incarnations \cup {NoTable},
                               failure : {"none"} \cup Errors]]
    /\ catalog \in Incarnations \cup {NoTable}
    /\ net \subseteq [writer : Writers, op : {"drop", "create"}]
    /\ made \subseteq Writers
    /\ dropped \in [Writers -> Incarnations \cup {NoTable}]

Sent(w, op) == [writer |-> w, op |-> op] \in net

\* Old does not come back: what exists after a CREATE is somebody's new table.
OldStaysGone ==
    /\ catalog \in Writers => catalog \in made
    /\ made # {} => catalog # Old

\* drop_started is set before the DROP is sent, and decides the error.
DropMarked(w) ==
    /\ MayHaveDropped(w) => writer[w].dropStarted
    /\ writer[w].pc \in {"start", "check", "drop"} => ~writer[w].dropStarted
    /\ job[w].mode = "append" =>
          ~writer[w].dropStarted /\ writer[w].pc \notin {"check", "drop", "dropping",
                                                        "create", "creating", "close"}
    /\ writer[w].pc \in {"close", "failed"} /\ ~writer[w].confirmed =>
          /\ writer[w].pc = "close" => writer[w].failure # "none"
          /\ writer[w].dropStarted => Admits(writer[w].failure)

\* A writer goes on to discovery, its table made, with no DROP of its own left.
CreateOnce(w) ==
    /\ writer[w].confirmed \/ (writer[w].pc = "creating" /\ writer[w].reply = "ok") =>
          w \in made
    /\ writer[w].pc \in {"start", "check", "drop", "dropping", "create"} =>
          w \notin made /\ ~Sent(w, "create")
    /\ Sent(w, "drop") =>
          /\ w \notin made /\ ~Sent(w, "create")
          /\ writer[w].pc \in {"dropping", "close", "failed", "dead"}
          /\ writer[w].pc = "dropping" => writer[w].reply = "none"
    /\ writer[w].pc \in {"engine", "columns", "plan", "ready"} =>
          job[w].mode = "append" \/ writer[w].confirmed

IInv ==
    /\ TypeOK /\ OldStaysGone /\ NoSelfDestruct /\ PlansNewTable
    /\ \A w \in Writers : DropMarked(w) /\ CreateOnce(w)
-----------------------------------------------------------------------------
(* What the documentation says and the code does not do *)

\* "Generated overwrite validates inputs before destructive operations"
\* (doc/source/security.md): a table is dropped only for a schema and columns
\* that validate_source_schema accepts.  It runs after the drop.
ValidatedBeforeDrop ==
    \A w \in Writers :
        dropped[w] # NoTable => job[w].schema \in Insertable /\ job[w].columns

\* "... and reports table-management ambiguity when replacement status is
\* unknown": an overwrite that fails with any other error leaves no table of
\* its own behind.  A CREATE without an answer does, if no table was dropped.
AmbiguityReported ==
    \A w \in Writers :
        Overwrites(w) /\ writer[w].pc = "failed" /\ ~writer[w].confirmed
            /\ ~Admits(writer[w].failure) => w \notin made
=============================================================================
