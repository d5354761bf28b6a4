------------------------------ MODULE QueryRead ------------------------------
(***************************************************************************)
(* Reading the result of a query (ClickHouseQueryDatasource, _query.py):   *)
(* discover_query_schema (_discovery.py) plans from a DESCRIBE and a       *)
(* zero-row probe, the plan is kept, and one task, on another machine and  *)
(* later, runs the query again and checks every batch (strict_schema,      *)
(* stream_query in _transport.py).                                         *)
(*                                                                         *)
(* Nothing holds the tables still: between any two requests somebody may   *)
(* alter what the query returns.  Ray may run the task again.              *)
(*                                                                         *)
(* A column is [name, type, nullable], type without wrappers; a field of   *)
(* Arrow is [name, arrow, nullable].  Reading itself, slices, limits and   *)
(* the log of a failed query are ReadTask's.                               *)
(***************************************************************************)
EXTENDS Integers, Sequences, Functions, ClientErrors

CONSTANTS
    None,       \* Python's None
    Relations,  \* what the query may return: sequences of columns
    Simple,     \* the names that are simple aliases
    MaxAlters,  \* how often the relation is altered
    MaxRuns     \* how often Ray runs the task

Types == {"Int64", "UInt16", "Date", "Enum8", "Decimal32", "AggregateFunction"}

ASSUME QueryAssumption ==
    /\ Relations \subseteq Seq([name : STRING, type : Types, nullable : BOOLEAN])
    /\ MaxAlters \in Nat /\ MaxRuns \in Nat

VARIABLES
    relation, alters,  \* what the query returns now, how often that changed
    described,         \* what it returned when it was described
    plan,              \* _schema_plan: None or [columns, fields]
    pc,                \* where the call of _schema is
    client,            \* its client is open
    columns, found,    \* its DESCRIBE; the plan that it is to return, or None
    exc,               \* the exception in flight, or None
    told,              \* the schema that Ray has, or None
    task,              \* None or the read task: its projection and schema
    stream,            \* None or the fields of the result that a run reads
    started,           \* the runs of the task
    delivered          \* the blocks: [fields, nulls], nulls the names with a NULL

vars == <<relation, alters, described, plan, pc, client, columns, found, exc, told, task,
          stream, started, delivered>>
call == <<pc, client, columns, found, exc>>
world == <<relation, alters>>
reading == <<stream, started, delivered>>

Init ==
    /\ relation \in Relations /\ alters = 0 /\ described = {}
    /\ plan = None
    /\ pc = "idle" /\ client = FALSE /\ columns = << >> /\ found = None /\ exc = None
    /\ told = None /\ task = None
    /\ stream = None /\ started = 0 /\ delivered = {}

\* Somebody alters a table or a view of the query.
Alter ==
    /\ alters < MaxAlters /\ alters' = alters + 1
    /\ relation' \in Relations \ {relation}
    /\ UNCHANGED <<described, plan, call, told, task, reading>>
-----------------------------------------------------------------------------
(* Types *)

\* _transport_type_expression: None for a type that is not supported.
Transport(type) ==
    CASE type = "Date" -> "Date32" [] type = "Enum8" -> "String"
      [] type = "AggregateFunction" -> None [] OTHER -> type

\* What the Arrow format makes of a type.
ArrowOf(type) ==
    CASE type = "Int64" -> "int64" [] type = "UInt16" -> "uint16" [] type = "Date" -> "uint16"
      [] type = "Date32" -> "date32" [] type = "String" -> "string" [] type = "Enum8" -> "int8"
      [] OTHER -> "other"

\* arrow_compatible: the Arrow type that stands for a declared type.
Compatible(arrow, type) ==
    <<arrow, type>> \in {<<"int64", "Int64">>, <<"uint16", "UInt16">>, <<"date32", "Date">>,
                         <<"string", "Enum8">>}

Names(cs) == {cs[i].name : i \in DOMAIN cs}
ColumnOf(name, cs) == cs[CHOOSE i \in DOMAIN cs : cs[i].name = name]

\* The server runs SELECT render_read_projection(cs) FROM (query): columns by
\* name, those of a logical type cast to what their declaration says.
Select(cs, rel) ==
    IF ~(Names(cs) \subseteq Names(rel)) THEN None
    ELSE [i \in DOMAIN cs |->
           LET now == ColumnOf(cs[i].name, rel)
           IN IF Transport(cs[i].type) = cs[i].type
              THEN [name |-> now.name, arrow |-> ArrowOf(now.type), nullable |-> now.nullable]
              ELSE [name |-> now.name, arrow |-> ArrowOf(Transport(cs[i].type)),
                    nullable |-> cs[i].nullable]]
-----------------------------------------------------------------------------
(* discover_query_schema *)

\* arrow_schema or get_read_tasks needs the plan, and there is none.
Call ==
    /\ pc = "idle" /\ plan = None
    /\ pc' = "open" /\ columns' = << >> /\ found' = None /\ exc' = None
    /\ UNCHANGED <<client, world, described, plan, told, task, reading>>

Raise(error) == exc' = error /\ pc' = "close"

Open ==
    /\ pc = "open"
    /\ \/ client' = TRUE /\ pc' = "describe" /\ UNCHANGED exc
       \/ /\ \/ \E k \in Kinds : Raise(DiscoveryTranslate(k, "client initialization"))
             \/ Raise("KeyboardInterrupt")
          /\ UNCHANGED client
    /\ UNCHANGED <<columns, found, world, described, plan, told, task, reading>>

\* parse_describe_rows, the aliases, render_read_projection.
Plannable(cs) ==
    /\ cs # << >> /\ IsInjective([i \in DOMAIN cs |-> cs[i].name])
    /\ Names(cs) \subseteq Simple
    /\ \A i \in DOMAIN cs : Transport(cs[i].type) # None

Describe ==
    /\ pc = "describe"
    /\ columns' = relation /\ described' = described \cup {relation}
    /\ IF Plannable(relation) THEN pc' = "probe" /\ UNCHANGED exc ELSE Raise("SchemaError")
    /\ UNCHANGED <<client, found, world, plan, told, task, reading>>

\* Mutant of Agree: whether a column may be NULL is not compared.
AgreeInType(cs, fields) == \A i \in DOMAIN cs : Compatible(fields[i].arrow, cs[i].type)

\* The declaration and the probe say the same of every column.
Agree(cs, fields) ==
    \A i \in DOMAIN cs :
      Compatible(fields[i].arrow, cs[i].type) /\ fields[i].nullable = cs[i].nullable

Probe ==
    /\ pc = "probe"
    /\ LET fields == Select(columns, relation)
       IN IF fields = None THEN Raise("SchemaError") /\ UNCHANGED found
          ELSE IF ~Agree(columns, fields) THEN Raise("SchemaError") /\ UNCHANGED found
          ELSE /\ found' = [columns |-> columns, fields |-> fields]
               /\ pc' = "close" /\ UNCHANGED exc
    /\ UNCHANGED <<client, columns, world, described, plan, told, task, reading>>

\* No answer, an error of the server, or an interrupt.
RequestFails ==
    /\ pc \in {"describe", "probe"}
    /\ \/ \E k \in Kinds : Raise(DiscoveryTranslate(k, "schema discovery"))
       \/ Raise("KeyboardInterrupt")
    /\ UNCHANGED <<client, columns, found, world, described, plan, told, task, reading>>

\* finally; a plan that was found is kept, unless the client does not close.
Close ==
    /\ pc = "close"
    /\ pc' = "idle" /\ client' = FALSE
    /\ \/ /\ IF exc = None THEN plan' = found ELSE UNCHANGED plan
          /\ UNCHANGED exc
       \/ /\ client /\ exc' = IF exc = None THEN "TransportError" ELSE exc
          /\ UNCHANGED plan
    /\ UNCHANGED <<columns, found, world, described, told, task, reading>>
-----------------------------------------------------------------------------
(* The datasource and its task *)

\* Mutant of TellSchema: nothing is kept.
TellSchemaAfresh ==
    /\ pc = "idle" /\ plan # None /\ task = None
    /\ told' = plan.fields /\ plan' = None
    /\ UNCHANGED <<world, described, call, task, reading>>

\* arrow_schema
TellSchema ==
    /\ pc = "idle" /\ plan # None /\ told = None
    /\ told' = plan.fields
    /\ UNCHANGED <<world, described, plan, call, task, reading>>

\* get_read_tasks, before or after it; the task tells the schema as well.
GetReadTasks ==
    /\ pc = "idle" /\ plan # None /\ task = None
    /\ task' = [columns |-> plan.columns, fields |-> plan.fields]
    /\ told' = IF told = None THEN plan.fields ELSE told
    /\ UNCHANGED <<world, described, plan, call, reading>>

\* Ray runs the task, for the first time or again: read_fn sends the query.
\* When the server refuses it the run fails.
Run ==
    /\ task # None /\ stream = None /\ started < MaxRuns
    /\ started' = started + 1
    /\ stream' = Select(task.columns, relation)
    /\ UNCHANGED <<world, described, plan, call, told, task, delivered>>

\* Mutant of Accepted: what the batch was cast to is not compared.
AcceptedNames(fields, nulls) == [i \in DOMAIN fields |-> fields[i].name]
                                  = [i \in DOMAIN task.fields |-> task.fields[i].name]

\* strict_schema
Accepted(fields, nulls) ==
    /\ fields = task.fields
    /\ \A i \in DOMAIN fields : ~fields[i].nullable => fields[i].name \notin nulls

\* A batch, with NULLs wherever the server puts them.
Batch ==
    /\ stream # None
    /\ \E nulls \in SUBSET Names(stream) :
         IF Accepted(stream, nulls)
         THEN /\ delivered' = delivered \cup {[fields |-> stream, nulls |-> nulls]}
              /\ UNCHANGED stream
         ELSE stream' = None /\ UNCHANGED delivered  \* ReadError
    /\ UNCHANGED <<world, described, plan, call, told, task, started>>

\* The end of the result, or the read fails.
EndRun ==
    /\ stream # None /\ stream' = None
    /\ UNCHANGED <<world, described, plan, call, told, task, started, delivered>>

Next ==
    \/ Alter
    \/ Call \/ Open \/ Describe \/ Probe \/ RequestFails \/ Close
    \/ TellSchema \/ GetReadTasks
    \/ Run \/ Batch \/ EndRun

Spec == Init /\ [][Next]_vars
-----------------------------------------------------------------------------
(* Properties *)

\* Every block of every run has the schema that Ray was told first, and no NULL
\* where that schema has none, however the tables changed since and whatever
\* failed on the way ("query result schema changed since planning").
DeliveredAsTold ==
    \A block \in delivered :
      /\ told # None /\ block.fields = told
      /\ \A i \in DOMAIN told : told[i].name \in block.nulls => told[i].nullable

\* The fields are those of a result that was described and could be planned.
OfOneResult(fields) ==
    \E rel \in described :
      /\ Plannable(rel) /\ Len(fields) = Len(rel)
      /\ \A i \in DOMAIN rel :
           /\ fields[i].name = rel[i].name /\ fields[i].nullable = rel[i].nullable
           /\ Compatible(fields[i].arrow, rel[i].type)

\* The schema that Ray is told is the one of a result that the query had at one
\* moment, never half of one and half of another: DESCRIBE and the probe are
\* two requests.
ToldOfOneResult == told # None => OfOneResult(told)
-----------------------------------------------------------------------------
(* The inductive invariant of the proofs *)

\* A call plans from one DESCRIBE, and only where there is no plan yet.
Planning ==
    /\ relation \in Relations /\ described \subseteq Relations
    /\ pc # "idle" => plan = None
    /\ pc = "probe" => columns \in described /\ Plannable(columns)
    /\ \A p \in {found, plan} \ {None} : p.fields # None /\ OfOneResult(p.fields)

\* What Ray has, the task and its blocks all go back to that plan.
Told ==
    /\ plan = None => told = None /\ task = None
    /\ told # None => told = plan.fields
    /\ task # None => told # None /\ task.fields = told
    /\ stream # None => task # None

IInv == Planning /\ Told /\ DeliveredAsTold
=============================================================================
