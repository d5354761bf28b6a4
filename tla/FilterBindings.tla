---------------------------- MODULE FilterBindings ----------------------------
(***************************************************************************)
(* How the filter of a caller, a predicate pushed by Ray and the values    *)
(* of a split come to share one query (_sql.py, _query.py).                *)
(*                                                                         *)
(* The driver binds a query as a whole: with parameters and anything that  *)
(* looks like {name:Type} anywhere in the text, the server binds and the   *)
(* text stays as it is; with parameters and nothing of the kind, Python    *)
(* formats all of the text, quotes and comments included.  The caller      *)
(* chooses by the placeholders of the filter, and what the connector adds  *)
(* must not change the choice.                                             *)
(*                                                                         *)
(* A text is the set of the pieces that matter: where each is and what it  *)
(* holds.                                                                  *)
(***************************************************************************)
EXTENDS Integers, FiniteSets

CONSTANTS
    Unset,           \* Python's None
    ParameterNames,  \* of callers
    Filters,         \* the filters: Unset, or a set of pieces
    Queries          \* what get_read_tasks may send: "plain", "partition", "range"

Piece == [at: {"code", "quote", "comment"},
          holds: {"plain", "percent", "client", "server", "malformed"},
          name: ParameterNames \cup {"expr", "split"},  \* of a placeholder
          type: {"Int64", "String"}]                    \* of a server placeholder

ASSUME BindingAssumption ==
    /\ \A f \in Filters \ {Unset} : f \subseteq Piece
    /\ {"expr", "split"} \cap ParameterNames = {}
    /\ Unset \notin BOOLEAN
    /\ Queries \subseteq {"plain", "partition", "range"}

VARIABLES
    reads,           \* what is read: a "table" with a filter, or a "query"
    filter, values,  \* filter_sql or query_sql, and the names in query_parameters
    state,           \* "new" | "configured" | "rejected"
    pushed,          \* the protocol of the pushed predicate, or Unset
    sent             \* the latest query: Unset before, or a record

bindVars == <<reads, filter, values, state, pushed, sent>>

BindInit ==
    /\ reads \in {"table", "query"}
    /\ filter \in Filters /\ values \in SUBSET ParameterNames
    /\ state = "new" /\ pushed = Unset /\ sent = Unset
-----------------------------------------------------------------------------
(* _filter_bindings *)

Holding(text, where, what) == {x \in text : x.at \in where /\ x.holds = what}
NamesIn(text, where, what) == {x.name : x \in Holding(text, where, what)}

ServerNames(text) == NamesIn(text, {"code"}, "server")

\* Client formatting includes comments; server binding leaves them untouched.
ClientNames(text) ==
    NamesIn(text, IF ServerNames(text) = {} THEN {"code", "comment"} ELSE {"code"}, "client")

\* Something in a quote or a comment looks like a server placeholder.
Ambiguous(text) == Holding(text, {"quote", "comment"}, "server") # {}

\* Placeholders of no known form, and one name with two types.
Malformed(text) ==
    \/ Holding(text, {"code"}, "malformed") # {}
    \/ \E x, y \in Holding(text, {"code"}, "server") : x.name = y.name /\ x.type # y.type
-----------------------------------------------------------------------------
(* validate_filter_parameters and predicate_binding_protocol *)

Invalid(text, names, internal) ==
    IF text = Unset THEN names # {}
    ELSE \/ Malformed(text)
         \/ ClientNames(text) # {} /\ ServerNames(text) # {}
         \/ Ambiguous(text) /\ (names # {} \/ internal)
         \/ ClientNames(text) \cup ServerNames(text) # names

\* Mutant of InvalidQuery: text the driver formats may have any placeholders.
InvalidQueryAsFilter(text, names) == text = Unset \/ Invalid(text, names, FALSE)

\* A query read takes client placeholders only, and only in its code.
InvalidQuery(text, names) ==
    \/ text = Unset \/ ServerNames(text) # {}
    \/ Invalid(text, names, FALSE)
    \/ names # {} /\ Holding(text, {"quote", "comment"}, "client") # {}

\* Whether a valid filter is bound by the server.
ServerSide(text, internal) ==
    /\ text # Unset
    /\ ServerNames(text) # {} \/ (internal /\ ClientNames(text) = {})

\* Mutant of Pushable: look-alikes are taken for text.
PushableAmbiguous(text, names) == ~Invalid(text, names, FALSE)

\* A predicate may be added, in the protocol Native.
Pushable(text, names) ==
    ~Invalid(text, names, FALSE) /\ (text # Unset => ~Ambiguous(text))

Native(text) == text # Unset => ClientNames(text) = {}
-----------------------------------------------------------------------------
(* effective_filter and build_select *)

Placeholder(server, n) ==
    [at |-> "code", holds |-> IF server THEN "server" ELSE "client",
     name |-> n, type |-> "Int64"]

\* The predicate does not go with the filter.
Disagrees(text, names) ==
    pushed # Unset /\ (~Pushable(text, names) \/ Native(text) # pushed)

\* Mutant of SplitProtocol: the predicate's protocol is forgotten.
SplitProtocolOfFilter(internal) == ServerSide(filter, internal)

\* The protocol of the values of a split.
SplitProtocol(internal) ==
    IF pushed # Unset THEN Native(filter) ELSE ServerSide(filter, internal)

\* The text of a query and the names it is sent with.
Text(internal) ==
    (IF filter = Unset THEN {} ELSE filter)
    \cup (IF pushed = Unset THEN {} ELSE {Placeholder(pushed, "expr")})
    \cup (IF internal THEN {Placeholder(SplitProtocol(internal), "split")} ELSE {})

SentNames(internal) ==
    values \cup (IF pushed = Unset THEN {} ELSE {"expr"}) \cup (IF internal THEN {"split"} ELSE {})
-----------------------------------------------------------------------------
(* clickhouse-connect *)

Driver(text, names) ==
    CASE names = {} -> "verbatim"
      [] names # {} /\ Holding(text, {"code", "quote", "comment"}, "server") # {} -> "server"
      [] OTHER -> "client"
-----------------------------------------------------------------------------
(* Actions *)

\* ClickHouseReadConfig.__post_init__ and QueryReadConfig.__post_init__
Configure ==
    /\ state = "new"
    /\ state' = IF (reads = "table" /\ Invalid(filter, values, FALSE))
                   \/ (reads = "query" /\ InvalidQuery(filter, values))
                THEN "rejected" ELSE "configured"
    /\ UNCHANGED <<reads, filter, values, pushed, sent>>

\* apply_predicate, for an expression and a server that allow it.
PushPredicate ==
    /\ reads = "table" /\ state = "configured" /\ pushed = Unset
    /\ Pushable(filter, values)
    /\ pushed' = Native(filter)
    /\ UNCHANGED <<reads, filter, values, state, sent>>

\* build_select, for a single query, for discovery, or for a part of a split.
Send(query) ==
    LET internal == query # "plain"
    IN /\ state = "configured"
       /\ reads = "table"
       /\ sent' = IF Invalid(filter, values, internal) \/ Disagrees(filter, values)
                  THEN [query |-> query, text |-> {}, names |-> {}, how |-> "refused"]
                  ELSE [query |-> query, text |-> Text(internal), names |-> SentNames(internal),
                        how |-> Driver(Text(internal), SentNames(internal))]
       /\ UNCHANGED <<reads, filter, values, state, pushed>>

\* The DESCRIBE, the probe and the read of ClickHouseQueryDatasource.
SendQuery ==
    /\ reads = "query" /\ state = "configured"
    /\ sent' = [query |-> "plain", text |-> filter, names |-> values, how |-> Driver(filter, values)]
    /\ UNCHANGED <<reads, filter, values, state, pushed>>

BindNext ==
    \/ Configure \/ PushPredicate \/ SendQuery
    \/ \E query \in Queries : Send(query)

BindSpec == BindInit /\ [][BindNext]_bindVars
-----------------------------------------------------------------------------
(* Properties *)

Code(what) == NamesIn(sent.text, {"code"}, what)

\* Every query leaves the driver with all its placeholders bound, by one
\* protocol, and with no value that nothing uses, whichever of the filter, the
\* predicate and the split bring values (build_select, effective_filter).
EveryPlaceholderBound ==
    sent # Unset =>
      CASE sent.how = "server"   -> Code("client") = {} /\ Code("server") = sent.names
        [] sent.how = "client"   -> /\ Code("server") = {} /\ Code("client") \subseteq sent.names
                                    /\ sent.names \subseteq NamesIn(sent.text, {"code", "comment"}, "client")
        [] sent.how = "verbatim" -> Code("client") \cup Code("server") = {}
        [] sent.how = "refused"  -> TRUE

\* A filter without client placeholders is never formatted by Python, nor are
\* the quotes and comments of a query that look like one, so its
\* percent signs and whatever stands in its quotes remain as they are ("For a
\* filter without client-side placeholders, generated split constraints use
\* native bindings so literal percent signs and placeholder-looking strings
\* remain unchanged", README.md).
LiteralsUntouched ==
    sent # Unset /\ sent.how = "client" =>
      \/ filter = Unset
      \/ /\ ClientNames(filter) # {}
         /\ reads = "query" => Holding(filter, {"quote", "comment"}, "client") = {}

\* What was accepted when the read was configured or the predicate pushed is
\* not refused when a task is made of it; only a filter with look-alikes of
\* server placeholders cannot be split (apply_predicate, effective_filter).
RefusedEarly ==
    sent # Unset /\ sent.how = "refused" =>
      pushed = Unset /\ filter # Unset /\ Ambiguous(filter) /\ sent.query # "plain"
-----------------------------------------------------------------------------
(* The inductive invariant of the proofs *)

BindTypeOK ==
    /\ reads \in {"table", "query"}
    /\ filter \in Filters /\ values \subseteq ParameterNames
    /\ state \in {"new", "configured", "rejected"}
    /\ pushed \in BOOLEAN \cup {Unset}
    /\ sent \in {Unset} \cup
           [query : Queries \cup {"plain"}, text : SUBSET Piece,
            names : SUBSET (ParameterNames \cup {"expr", "split"}),
            how : {"refused", "verbatim", "client", "server"}]

\* What is configured is valid, and a predicate is pushed only where one goes
\* with the filter.
Validated ==
    /\ state = "configured" =>
           IF reads = "table" THEN ~Invalid(filter, values, FALSE) ELSE ~InvalidQuery(filter, values)
    /\ pushed # Unset =>
           /\ reads = "table" /\ state = "configured"
           /\ Pushable(filter, values) /\ pushed = Native(filter)

BindInv == BindTypeOK /\ Validated /\ EveryPlaceholderBound /\ LiteralsUntouched /\ RefusedEarly
=============================================================================
