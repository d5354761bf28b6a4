---------------------------- MODULE QueryProofs ----------------------------
(***************************************************************************)
(* What a read sends and what it tells.  For any results and any number of *)
(* alterations and runs, the schema that a query read tells Ray is the one *)
(* of a single result, and every block has it (QueryRead).  For any        *)
(* filters, placeholders and parameters, a query is bound as a whole, and  *)
(* its literals are left alone (FilterBindings).  For any columns, rows    *)
(* and literals, the SQL of an expression keeps the rows that the          *)
(* expression keeps (PredicateCompile).                                    *)
(***************************************************************************)
EXTENDS FilterBindings, PredicateCompile, QueryRead, FiniteSetTheorems, WellFoundedInduction,
        TLAPS

LEMMA RelationsAreSequences ==
    ASSUME NEW rel \in Relations
    PROVE  rel \in Seq([name : STRING, type : Types, nullable : BOOLEAN])
BY QueryAssumption

\* A projection of columns that the relation has keeps their names and order.
LEMMA SelectKeepsNames ==
    ASSUME NEW cs \in Relations, NEW rel \in Relations, Select(cs, rel) # None
    PROVE  /\ Len(Select(cs, rel)) = Len(cs)
           /\ \A i \in DOMAIN cs : Select(cs, rel)[i].name = cs[i].name
<1> DEFINE now(i) == ColumnOf(cs[i].name, rel)
           field(i) ==
             IF Transport(cs[i].type) = cs[i].type
             THEN [name |-> now(i).name, arrow |-> ArrowOf(now(i).type),
                   nullable |-> now(i).nullable]
             ELSE [name |-> now(i).name, arrow |-> ArrowOf(Transport(cs[i].type)),
                   nullable |-> cs[i].nullable]
<1>1. Names(cs) \subseteq Names(rel) /\ Select(cs, rel) = [i \in DOMAIN cs |-> field(i)]
  BY DEF Select
<1>2. DOMAIN cs = 1..Len(cs) /\ Len(cs) \in Nat
  BY RelationsAreSequences
<1>3. ASSUME NEW i \in DOMAIN cs PROVE now(i).name = cs[i].name
  <2>1. \E j \in DOMAIN rel : rel[j].name = cs[i].name
    BY <1>1 DEF Names
  <2> QED BY <2>1 DEF ColumnOf
<1>4. \A i : field(i).name = now(i).name
  OBVIOUS
<1> HIDE DEF now, field
<1> QED BY <1>1, <1>2, <1>3, <1>4

LEMMA InitIInv == Init => IInv
BY DEF Init, IInv, Planning, Told, DeliveredAsTold

\* A description is never forgotten.
LEMMA StillOfOneResult ==
    ASSUME NEW fields, described \subseteq described', OfOneResult(fields)
    PROVE  OfOneResult(fields)'
BY DEF OfOneResult

\* The steps of a call, before it has a plan to keep.
LEMMA CallIInv == IInv /\ (Call \/ Open \/ Describe \/ RequestFails) => IInv'
<1> SUFFICES ASSUME IInv, Call \/ Open \/ Describe \/ RequestFails PROVE IInv'
  OBVIOUS
<1> USE DEF world, reading
<1>1. /\ relation' = relation /\ plan' = plan /\ told' = told /\ task' = task
      /\ stream' = stream /\ delivered' = delivered
      /\ described \subseteq described' /\ described' \subseteq Relations
      /\ found' \in {found, None}
  BY DEF IInv, Planning, Call, Open, Describe, RequestFails
<1>2. /\ pc' # "idle" => plan = None
      /\ pc' = "probe" => columns' \in described' /\ Plannable(columns')
  BY DEF IInv, Planning, Call, Open, Describe, RequestFails, Raise
<1>3. Planning'
  BY <1>1, <1>2, StillOfOneResult DEF IInv, Planning
<1> QED BY <1>1, <1>3 DEF IInv, Told, DeliveredAsTold

\* The probe is compared with the DESCRIBE of the same call.
LEMMA ProbeIInv == IInv /\ Probe => IInv'
<1> SUFFICES ASSUME IInv, Probe PROVE IInv'
  OBVIOUS
<1> DEFINE fields == Select(columns, relation)
           p == [columns |-> columns, fields |-> fields]
<1>1. /\ pc = "probe" /\ plan = None /\ columns \in described /\ Plannable(columns)
      /\ relation' = relation /\ plan' = plan /\ told' = told /\ task' = task
      /\ stream' = stream /\ delivered' = delivered /\ described' = described
      /\ columns \in Relations /\ relation \in Relations /\ pc' = "close"
  BY DEF Probe, IInv, Planning, Raise, world, reading
<1>2. found' = found \/ (fields # None /\ Agree(columns, fields) /\ found' = p)
  BY DEF Probe
<1>3. fields # None /\ Agree(columns, fields) => OfOneResult(fields)
  BY <1>1, SelectKeepsNames DEF Agree, OfOneResult
<1>4. p.fields = fields
  OBVIOUS
<1> HIDE DEF fields, p
<1>5. Planning'
  BY <1>1, <1>2, <1>3, <1>4 DEF IInv, Planning, OfOneResult
<1> QED BY <1>1, <1>5 DEF IInv, Told, DeliveredAsTold

\* A plan is kept where there was none, so nobody has been told another.
LEMMA CloseIInv == IInv /\ Close => IInv'
<1> SUFFICES ASSUME IInv, Close PROVE IInv'
  OBVIOUS
<1>1. /\ plan = None /\ plan' \in {plan, found} /\ pc' = "idle" /\ found' = found
      /\ relation' = relation /\ told' = told /\ task' = task
      /\ stream' = stream /\ delivered' = delivered /\ described' = described
  BY DEF Close, IInv, Planning, world, reading
<1>2. told = None /\ task = None
  BY <1>1 DEF IInv, Told
<1> QED BY <1>1, <1>2 DEF IInv, Planning, Told, DeliveredAsTold, OfOneResult

\* Whichever of the two comes first, the second finds the same plan.
LEMMA TellIInv == IInv /\ (TellSchema \/ GetReadTasks) => IInv'
<1> SUFFICES ASSUME IInv, TellSchema \/ GetReadTasks PROVE IInv'
  OBVIOUS
<1>1. /\ plan # None /\ plan.fields # None /\ plan' = plan /\ pc' = pc /\ found' = found
      /\ relation' = relation /\ stream' = stream /\ delivered' = delivered
      /\ described' = described /\ columns' = columns
  BY DEF IInv, Planning, TellSchema, GetReadTasks, world, reading, call
<1>2. /\ told' = plan.fields
      /\ task' = task \/ task' = [columns |-> plan.columns, fields |-> plan.fields]
  BY DEF IInv, Told, TellSchema, GetReadTasks
<1>3. DeliveredAsTold'
  BY <1>1, <1>2 DEF IInv, Told, DeliveredAsTold
<1>4. Told'
  BY <1>1, <1>2 DEF IInv, Told, TellSchema, GetReadTasks
<1> QED BY <1>1, <1>3, <1>4 DEF IInv, Planning, OfOneResult

LEMMA RunIInv == IInv /\ (Run \/ EndRun) => IInv'
BY DEF IInv, Planning, Told, DeliveredAsTold, OfOneResult, Run, EndRun, world, call

\* strict_schema lets only batches of the task's schema through.
LEMMA BatchIInv == IInv /\ Batch => IInv'
<1> SUFFICES ASSUME IInv, Batch PROVE IInv'
  OBVIOUS
<1>1. /\ stream # None /\ task # None /\ told # None /\ task.fields = told
      /\ plan' = plan /\ pc' = pc /\ found' = found /\ relation' = relation
      /\ described' = described /\ columns' = columns /\ told' = told /\ task' = task
      /\ stream' \in {stream, None}
  BY DEF IInv, Told, Batch, world, call
<1>2. DeliveredAsTold'
  <2>1. delivered' = delivered
          \/ \E nulls : Accepted(stream, nulls)
                /\ delivered' = delivered \cup {[fields |-> stream, nulls |-> nulls]}
    BY DEF Batch
  <2> QED BY <1>1, <2>1 DEF IInv, DeliveredAsTold, Accepted
<1> QED BY <1>1, <1>2 DEF IInv, Planning, Told, OfOneResult

THEOREM Invariance == Spec => []IInv
<1>1. IInv /\ [Next]_vars => IInv'
  <2> SUFFICES ASSUME IInv, [Next]_vars PROVE IInv'
    OBVIOUS
  <2>1. CASE Alter
    BY <2>1 DEF Alter, call, reading, IInv, Planning, Told, DeliveredAsTold, OfOneResult
  <2>2. CASE UNCHANGED vars
    BY <2>2 DEF vars, IInv, Planning, Told, DeliveredAsTold, OfOneResult
  <2> QED
    BY <2>1, <2>2, CallIInv, ProbeIInv, CloseIInv, TellIInv, RunIInv, BatchIInv DEF Next
<1> QED BY InitIInv, <1>1, PTL DEF Spec

\* Every block of every run has the schema that Ray was told.
THEOREM Delivered_as_told == Spec => []DeliveredAsTold
<1>1. IInv => DeliveredAsTold
  BY DEF IInv
<1> QED BY Invariance, <1>1, PTL

\* The schema that Ray is told was that of the query at one moment.
THEOREM Told_of_one_result == Spec => []ToldOfOneResult
<1>1. IInv => ToldOfOneResult
  BY DEF IInv, Planning, Told, ToldOfOneResult
<1> QED BY Invariance, <1>1, PTL
-----------------------------------------------------------------------------
(* FilterBindings: the pieces of a text *)

LEMMA HeldByNone ==
    ASSUME NEW where, NEW what
    PROVE  Holding({}, where, what) = {} /\ NamesIn({}, where, what) = {}
BY DEF Holding, NamesIn

\* What a placeholder that the connector adds holds.
Kind(server) == IF server THEN "server" ELSE "client"

LEMMA HeldByPlaceholder ==
    ASSUME NEW n, NEW server \in BOOLEAN, NEW where, "code" \in where, NEW what
    PROVE  NamesIn({Placeholder(server, n)}, where, what) =
               IF what = Kind(server) THEN {n} ELSE {}
<1> DEFINE p == Placeholder(server, n)
<1>1. p.at = "code" /\ p.holds = Kind(server) /\ p.name = n
  BY DEF Placeholder, Kind
<1> HIDE DEF p
<1>2. CASE what = Kind(server)
  <2>1. Holding({p}, where, what) = {p}
    BY <1>1, <1>2, Zenon DEF Holding
  <2>2. {x.name : x \in {p}} = {n}
    BY <1>1, Zenon
  <2> QED BY <1>2, <2>1, <2>2, Zenon DEF NamesIn, p
<1>3. CASE what # Kind(server)
  <2>1. Holding({p}, where, what) = {}
    BY <1>1, <1>3, Zenon DEF Holding
  <2>2. {x.name : x \in {}} = {}
    OBVIOUS
  <2> QED BY <1>3, <2>1, <2>2, Zenon DEF NamesIn, p
<1> QED BY <1>2, <1>3

LEMMA HeldNames ==
    ASSUME NEW t, NEW where, NEW what
    PROVE  Holding(t, where, what) = {} <=> NamesIn(t, where, what) = {}
BY DEF NamesIn

\* Where a text is looked at in two ways, and what that makes of its names.
LEMMA HeldSomewhere ==
    ASSUME NEW t, NEW what
    PROVE  LET Of(where) == Holding(t, where, what)
           IN /\ Of({"code", "quote", "comment"}) = Of({"code"}) \cup Of({"quote", "comment"})
              /\ NamesIn(t, {"code", "comment"}, what)
                     \subseteq NamesIn(t, {"code"}, what) \cup NamesIn(t, {"quote", "comment"}, what)
              /\ NamesIn(t, {"code"}, what) \subseteq NamesIn(t, {"code", "comment"}, what)
BY DEF Holding, NamesIn

\* The names that are added to the filter, and those that it has itself.
Added(internal, what) ==
    (IF pushed # Unset /\ what = Kind(pushed) THEN {"expr"} ELSE {})
    \cup (IF internal /\ what = Kind(SplitProtocol(internal)) THEN {"split"} ELSE {})

OfFilter(where, what) == IF filter = Unset THEN {} ELSE NamesIn(filter, where, what)

\* What the names in the text of a query are: those of the filter, and those
\* that were added to it.
LEMMA NamesOfText ==
    ASSUME BindTypeOK, NEW internal \in BOOLEAN, NEW where, "code" \in where, NEW what
    PROVE  NamesIn(Text(internal), where, what) = OfFilter(where, what) \cup Added(internal, what)
<1> DEFINE F == IF filter = Unset THEN {} ELSE filter
           E == IF pushed = Unset THEN {} ELSE {Placeholder(pushed, "expr")}
           S == IF internal THEN {Placeholder(SplitProtocol(internal), "split")} ELSE {}
<1>1. Text(internal) = F \cup E \cup S
  BY DEF Text
<1>2. NamesIn(F, where, what) = OfFilter(where, what)
  BY HeldByNone DEF OfFilter
<1>3. NamesIn(E, where, what) = IF pushed # Unset /\ what = Kind(pushed) THEN {"expr"} ELSE {}
  <2>1. CASE pushed = Unset
    BY <2>1, HeldByNone
  <2>2. CASE pushed # Unset
    <3>1. pushed \in BOOLEAN
      BY <2>2 DEF BindTypeOK
    <3> QED BY <2>2, <3>1, HeldByPlaceholder
  <2> QED BY <2>1, <2>2
<1>4. NamesIn(S, where, what) =
          IF internal /\ what = Kind(SplitProtocol(internal)) THEN {"split"} ELSE {}
  <2>1. CASE ~internal
    BY <2>1, HeldByNone
  <2>2. CASE internal
    <3>1. SplitProtocol(internal) \in BOOLEAN
      BY DEF SplitProtocol, Native, ServerSide
    <3> QED BY <2>2, <3>1, HeldByPlaceholder
  <2> QED BY <2>1, <2>2
<1> HIDE DEF F, E, S
<1>5. NamesIn(F \cup E \cup S, where, what)
          = NamesIn(F, where, what) \cup NamesIn(E, where, what) \cup NamesIn(S, where, what)
  <2>1. NamesIn(F \cup E \cup S, where, what) = NamesIn(F \cup E, where, what) \cup NamesIn(S, where, what)
    BY DEF NamesIn, Holding
  <2>2. NamesIn(F \cup E, where, what) = NamesIn(F, where, what) \cup NamesIn(E, where, what)
    BY DEF NamesIn, Holding
  <2> QED BY <2>1, <2>2, Zenon
<1> QED BY <1>1, <1>2, <1>3, <1>4, <1>5, Zenon DEF Added

Everywhere == {"code", "quote", "comment"}

\* What a filter or a query that was accepted looks like.
LEMMA ValidText ==
    ASSUME filter # Unset, NEW internal \in BOOLEAN, ~Invalid(filter, values, internal)
    PROVE  /\ ClientNames(filter) = {} \/ ServerNames(filter) = {}
           /\ ClientNames(filter) \cup ServerNames(filter) = values
           /\ Ambiguous(filter) => values = {} /\ ~internal
           /\ OfFilter({"code"}, "server") = ServerNames(filter)
           /\ OfFilter({"code"}, "client") \subseteq ClientNames(filter)
           /\ ServerNames(filter) = {} => ClientNames(filter) = OfFilter({"code", "comment"}, "client")
           /\ ServerNames(filter) # {} => ClientNames(filter) = OfFilter({"code"}, "client")
           /\ ServerNames(filter) \subseteq OfFilter(Everywhere, "server")
           /\ ServerNames(filter) = {} /\ ~Ambiguous(filter) => OfFilter(Everywhere, "server") = {}
<1>1. /\ ClientNames(filter) = {} \/ ServerNames(filter) = {}
      /\ ClientNames(filter) \cup ServerNames(filter) = values
      /\ Ambiguous(filter) => values = {} /\ ~internal
  BY Zenon DEF Invalid
<1>2. /\ OfFilter({"code"}, "server") = ServerNames(filter)
      /\ ServerNames(filter) = {} => ClientNames(filter) = OfFilter({"code", "comment"}, "client")
      /\ ServerNames(filter) # {} => ClientNames(filter) = OfFilter({"code"}, "client")
  BY Zenon DEF OfFilter, ServerNames, ClientNames
<1>3. OfFilter({"code"}, "client") \subseteq OfFilter({"code", "comment"}, "client")
  BY DEF OfFilter, NamesIn, Holding
<1>4. ServerNames(filter) \subseteq OfFilter(Everywhere, "server")
  BY DEF OfFilter, NamesIn, Holding, ServerNames, Everywhere
<1>5. ASSUME ServerNames(filter) = {}, ~Ambiguous(filter) PROVE OfFilter(Everywhere, "server") = {}
  <2>1. Holding(filter, {"code"}, "server") = {}
    BY <1>5 DEF ServerNames, NamesIn
  <2>2. Holding(filter, {"quote", "comment"}, "server") = {}
    BY <1>5 DEF Ambiguous
  <2>3. Holding(filter, Everywhere, "server") = {}
    BY <2>1, <2>2 DEF Holding, Everywhere
  <2> QED BY <2>3 DEF OfFilter, NamesIn
<1> QED BY <1>1, <1>2, <1>3, <1>4, <1>5

\* The protocol that all the values of a query share.
OneProtocol == IF filter = Unset THEN pushed # Unset ELSE ClientNames(filter) = {}

LEMMA ProtocolShared ==
    ASSUME BindTypeOK, Validated, reads = "table", state = "configured",
           NEW internal \in BOOLEAN, ~Invalid(filter, values, internal)
    PROVE  /\ OneProtocol \in BOOLEAN
           /\ pushed # Unset => pushed = OneProtocol
           /\ internal => SplitProtocol(internal) = OneProtocol
           /\ OneProtocol => /\ OfFilter({"code"}, "client") = {}
                             /\ OfFilter({"code"}, "server") = values
                             /\ values \subseteq OfFilter(Everywhere, "server")
           /\ ~OneProtocol => /\ OfFilter(Everywhere, "server") = {}
                              /\ OfFilter({"code"}, "server") = {}
                              /\ OfFilter({"code"}, "client") \subseteq values
                              /\ values = OfFilter({"code", "comment"}, "client")
<1>1. CASE filter = Unset
  <2>1. values = {}
    BY <1>1 DEF Invalid
  <2>2. Native(filter) = TRUE /\ ServerSide(filter, internal) = FALSE
    BY <1>1 DEF Native, ServerSide
  <2>3. \A where, what : OfFilter(where, what) = {}
    BY <1>1 DEF OfFilter
  <2> QED BY <1>1, <2>1, <2>2, <2>3 DEF OneProtocol, Validated, SplitProtocol
<1>2. CASE filter # Unset
  <2>1. OneProtocol = (ClientNames(filter) = {}) /\ Native(filter) = OneProtocol
    BY <1>2 DEF OneProtocol, Native
  <2>2. pushed # Unset => pushed = OneProtocol
    BY <2>1 DEF Validated
  <2>3. internal => SplitProtocol(internal) = OneProtocol
    BY <1>2, <2>1, ValidText DEF SplitProtocol, ServerSide
  <2>4. CASE OneProtocol
    <3>1. ClientNames(filter) = {}
      BY <2>1, <2>4
    <3> QED BY <1>2, <2>1, <2>2, <2>3, <2>4, <3>1, ValidText
  <2>5. CASE ~OneProtocol
    <3>1. ClientNames(filter) # {} /\ ServerNames(filter) = {}
      BY <1>2, <2>1, <2>5, ValidText
    <3>2. values = ClientNames(filter) /\ ~Ambiguous(filter)
      BY <1>2, <3>1, ValidText
    <3> QED BY <1>2, <2>1, <2>2, <2>3, <2>5, <3>1, <3>2, ValidText
  <2> QED BY <2>1, <2>4, <2>5
<1> QED BY <1>1, <1>2

\* EveryPlaceholderBound, of one query.
Bound(r) ==
    CASE r.how = "server" ->
           /\ NamesIn(r.text, {"code"}, "client") = {}
           /\ NamesIn(r.text, {"code"}, "server") = r.names
      [] r.how = "client" ->
           /\ NamesIn(r.text, {"code"}, "server") = {}
           /\ NamesIn(r.text, {"code"}, "client") \subseteq r.names
           /\ r.names \subseteq NamesIn(r.text, {"code", "comment"}, "client")
      [] r.how = "verbatim" ->
           NamesIn(r.text, {"code"}, "client") \cup NamesIn(r.text, {"code"}, "server") = {}
      [] r.how = "refused" -> TRUE

LEMMA DriverChoice ==
    ASSUME NEW text, NEW names
    PROVE  /\ Driver(text, names) \in {"verbatim", "client", "server"}
           /\ Driver(text, names) = "verbatim" <=> names = {}
           /\ Driver(text, names) = "server" <=>
                  names # {} /\ NamesIn(text, Everywhere, "server") # {}
<1>1. Holding(text, Everywhere, "server") # {} <=> NamesIn(text, Everywhere, "server") # {}
  BY DEF NamesIn
<1> QED BY <1>1 DEF Driver, Everywhere

\* A query that build_select makes is bound as a whole.
LEMMA TableQueryBound ==
    ASSUME BindTypeOK, Validated, reads = "table", state = "configured",
           NEW query, NEW internal \in BOOLEAN, ~Invalid(filter, values, internal)
    PROVE  LET r == [query |-> query, text |-> Text(internal), names |-> SentNames(internal),
                     how |-> Driver(Text(internal), SentNames(internal))]
           IN /\ Bound(r) /\ r.how # "refused"
              /\ r.how = "client" => filter = Unset \/ ClientNames(filter) # {}
<1> DEFINE T == Text(internal)
           N == SentNames(internal)
           h == Driver(T, N)
           r == [query |-> query, text |-> T, names |-> N, how |-> h]
<1>1. \A where, what : "code" \in where =>
          NamesIn(T, where, what) = OfFilter(where, what) \cup Added(internal, what)
  BY NamesOfText
<1>2. N = values \cup Added(internal, Kind(OneProtocol)) /\ Added(internal, Kind(~OneProtocol)) = {}
  <2>1. Kind(OneProtocol) # Kind(~OneProtocol)
    BY ProtocolShared DEF Kind
  <2>2. /\ pushed # Unset => Kind(pushed) = Kind(OneProtocol)
        /\ internal => Kind(SplitProtocol(internal)) = Kind(OneProtocol)
    BY ProtocolShared
  <2> QED BY <2>1, <2>2 DEF Added, SentNames
<1>3. /\ h \in {"verbatim", "client", "server"}
      /\ h = "verbatim" <=> N = {}
      /\ h = "server" <=> N # {} /\ NamesIn(T, Everywhere, "server") # {}
  BY DriverChoice
<1> HIDE DEF T, N, h
<1>4. r.text = T /\ r.names = N /\ r.how = h
  OBVIOUS
<1> HIDE DEF r
<1>5. CASE OneProtocol
  <2>1. Kind(OneProtocol) = "server" /\ Kind(~OneProtocol) = "client"
    BY <1>5 DEF Kind
  <2>2. /\ OfFilter({"code"}, "client") = {} /\ OfFilter({"code"}, "server") = values
        /\ values \subseteq OfFilter(Everywhere, "server")
    BY <1>5, ProtocolShared
  <2>3. /\ N = values \cup Added(internal, "server") /\ Added(internal, "client") = {}
        /\ NamesIn(T, {"code"}, "client") = {} /\ NamesIn(T, {"code"}, "server") = N
    BY <1>1, <1>2, <2>1, <2>2
  <2>4. NamesIn(T, Everywhere, "server") = OfFilter(Everywhere, "server") \cup Added(internal, "server")
    BY <1>1 DEF Everywhere
  <2>5. h \in {"verbatim", "server"}
    BY <1>3, <2>2, <2>3, <2>4
  <2>6. Bound(r)
    BY <1>3, <1>4, <2>3, <2>5 DEF Bound
  <2> QED BY <1>4, <2>5, <2>6 DEF r, T, N, h
<1>6. CASE ~OneProtocol
  <2>1. Kind(OneProtocol) = "client" /\ Kind(~OneProtocol) = "server"
    BY <1>6 DEF Kind
  <2>2. NamesIn(T, {"code"}, "server") = {} /\ NamesIn(T, Everywhere, "server") = {}
    BY <1>1, <1>2, <1>6, <2>1, ProtocolShared DEF Everywhere
  <2>3. /\ NamesIn(T, {"code"}, "client") \subseteq N
        /\ N = NamesIn(T, {"code", "comment"}, "client")
    BY <1>1, <1>2, <1>6, <2>1, ProtocolShared
  <2>4. h \in {"verbatim", "client"} /\ (filter = Unset \/ ClientNames(filter) # {})
    BY <1>3, <1>6, <2>2 DEF OneProtocol
  <2>5. Bound(r)
    BY <1>3, <1>4, <2>2, <2>3, <2>4 DEF Bound
  <2> QED BY <1>4, <2>4, <2>5 DEF r, T, N, h
<1> QED BY <1>5, <1>6, ProtocolShared

\* So is a query of the caller.
LEMMA CallerQueryBound ==
    ASSUME ~InvalidQuery(filter, values)
    PROVE  LET r == [query |-> "plain", text |-> filter, names |-> values,
                     how |-> Driver(filter, values)]
           IN /\ Bound(r) /\ r.how # "refused"
              /\ r.how = "client" =>
                     /\ ClientNames(filter) # {}
                     /\ Holding(filter, {"quote", "comment"}, "client") = {}
<1> DEFINE h == Driver(filter, values)
           r == [query |-> "plain", text |-> filter, names |-> values, how |-> h]
<1>1. /\ filter # Unset /\ ServerNames(filter) = {} /\ ~Invalid(filter, values, FALSE)
      /\ values # {} => Holding(filter, {"quote", "comment"}, "client") = {}
  BY DEF InvalidQuery
<1>2. \A where, what : NamesIn(filter, where, what) = OfFilter(where, what)
  BY <1>1, Zenon DEF OfFilter
<1>3. /\ values = NamesIn(filter, {"code", "comment"}, "client") /\ values = ClientNames(filter)
      /\ NamesIn(filter, {"code"}, "client") \subseteq values
      /\ NamesIn(filter, {"code"}, "server") = {}
      /\ values # {} => NamesIn(filter, Everywhere, "server") = {}
  BY <1>1, <1>2, ValidText
<1>4. /\ h \in {"verbatim", "client", "server"}
      /\ h = "verbatim" <=> values = {}
      /\ h = "server" <=> values # {} /\ NamesIn(filter, Everywhere, "server") # {}
  BY DriverChoice
<1> HIDE DEF h
<1>5. r.text = filter /\ r.names = values /\ r.how = h
  OBVIOUS
<1> HIDE DEF r
<1>6. Bound(r) /\ r.how # "refused"
  BY <1>3, <1>4, <1>5 DEF Bound
<1> QED BY <1>1, <1>3, <1>4, <1>5, <1>6 DEF r, h


\* What was accepted is refused only for what a split adds to an ambiguous filter.
LEMMA RefusedText ==
    ASSUME Validated, reads = "table", state = "configured", NEW internal \in BOOLEAN,
           Invalid(filter, values, internal) \/ Disagrees(filter, values)
    PROVE  pushed = Unset /\ filter # Unset /\ Ambiguous(filter) /\ internal
<1>1. ~Invalid(filter, values, FALSE)
  BY DEF Validated
<1>2. ~Disagrees(filter, values)
  BY DEF Validated, Disagrees
<1>3. Invalid(filter, values, internal)
  BY <1>2
<1>4. filter # Unset /\ Ambiguous(filter) /\ internal
  BY <1>1, <1>3, Zenon DEF Invalid
<1>5. pushed = Unset
  BY <1>4 DEF Validated, Pushable
<1> QED BY <1>4, <1>5

LEMMA AddedPieces ==
    ASSUME BindTypeOK, NEW internal \in BOOLEAN
    PROVE  /\ Text(internal) \in SUBSET Piece
           /\ SentNames(internal) \in SUBSET (ParameterNames \cup {"expr", "split"})
<1>1. \A server \in BOOLEAN : Placeholder(server, "expr") \in Piece /\ Placeholder(server, "split") \in Piece
  BY DEF Placeholder, Piece
<1>2. SplitProtocol(internal) \in BOOLEAN /\ (pushed # Unset => pushed \in BOOLEAN)
  BY DEF BindTypeOK, SplitProtocol, Native, ServerSide
<1>3. filter # Unset => filter \subseteq Piece
  BY BindingAssumption DEF BindTypeOK
<1>4. Text(internal) \subseteq Piece
  BY <1>1, <1>2, <1>3 DEF Text
<1>5. SentNames(internal) \subseteq ParameterNames \cup {"expr", "split"}
  BY DEF SentNames, BindTypeOK
<1> QED BY <1>4, <1>5

LEMMA ConfigureBindInv == BindInv /\ Configure => BindInv'
<1> SUFFICES ASSUME BindInv, Configure PROVE BindInv'
  OBVIOUS
<1>1. /\ reads' = reads /\ filter' = filter /\ values' = values /\ pushed' = pushed /\ sent' = sent
      /\ state' \in {"configured", "rejected"} /\ pushed = Unset
  BY DEF Configure, BindInv, Validated
<1>2. BindTypeOK'
  BY <1>1 DEF BindInv, BindTypeOK
<1>3. Validated'
  <2>1. state' = "configured" =>
            IF reads = "table" THEN ~Invalid(filter, values, FALSE) ELSE ~InvalidQuery(filter, values)
    BY Zenon DEF Configure, BindInv, BindTypeOK
  <2> QED BY <1>1, <2>1 DEF Validated
<1>4. EveryPlaceholderBound' /\ LiteralsUntouched' /\ RefusedEarly'
  BY <1>1 DEF BindInv, EveryPlaceholderBound, Code, LiteralsUntouched, RefusedEarly
<1> QED BY <1>2, <1>3, <1>4 DEF BindInv

LEMMA PushBindInv == BindInv /\ PushPredicate => BindInv'
<1> SUFFICES ASSUME BindInv, PushPredicate PROVE BindInv'
  OBVIOUS
<1>1. /\ reads' = reads /\ filter' = filter /\ values' = values /\ state' = state /\ sent' = sent
      /\ reads = "table" /\ state = "configured" /\ pushed' = Native(filter)
      /\ Pushable(filter, values)
  BY DEF PushPredicate
<1>2. BindTypeOK'
  BY <1>1 DEF BindInv, BindTypeOK, Native
<1>3. Validated'
  BY <1>1 DEF BindInv, Validated
<1>4. EveryPlaceholderBound' /\ LiteralsUntouched'
  BY <1>1 DEF BindInv, EveryPlaceholderBound, Code, LiteralsUntouched
<1>5. RefusedEarly'
  BY <1>1 DEF BindInv, RefusedEarly, Pushable
<1> QED BY <1>2, <1>3, <1>4, <1>5 DEF BindInv

LEMMA SendBindInv == ASSUME BindInv, NEW query \in Queries, Send(query) PROVE BindInv'
<1> DEFINE internal == query # "plain"
           bad == Invalid(filter, values, internal) \/ Disagrees(filter, values)
           r == [query |-> query, text |-> Text(internal), names |-> SentNames(internal),
                 how |-> Driver(Text(internal), SentNames(internal))]
<1>1. /\ reads' = reads /\ filter' = filter /\ values' = values /\ state' = state
      /\ pushed' = pushed /\ reads = "table" /\ state = "configured"
      /\ sent' = IF bad THEN [query |-> query, text |-> {}, names |-> {}, how |-> "refused"] ELSE r
  BY Zenon DEF Send
<1>2. BindTypeOK /\ Validated /\ internal \in BOOLEAN
  BY DEF BindInv
<1>3. Validated'
  BY <1>1, <1>2 DEF Validated
<1>4. CASE bad
  <2>1. sent' = [query |-> query, text |-> {}, names |-> {}, how |-> "refused"]
    BY <1>1, <1>4
  <2>2. pushed = Unset /\ filter # Unset /\ Ambiguous(filter) /\ query # "plain"
    BY <1>1, <1>2, <1>4, RefusedText
  <2> HIDE DEF bad, r, internal
  <2>3. BindTypeOK'
    BY <1>1, <1>2, <2>1 DEF BindTypeOK
  <2>4. EveryPlaceholderBound' /\ LiteralsUntouched'
    BY <2>1 DEF EveryPlaceholderBound, LiteralsUntouched
  <2>5. RefusedEarly'
    BY <1>1, <2>1, <2>2 DEF RefusedEarly
  <2> QED BY <1>3, <2>3, <2>4, <2>5 DEF BindInv
<1>5. CASE ~bad
  <2>1. sent' = r
    BY <1>1, <1>5, Zenon
  <2>2. /\ Bound(r) /\ r.how # "refused"
        /\ r.how = "client" => filter = Unset \/ ClientNames(filter) # {}
    BY <1>1, <1>2, <1>5, TableQueryBound
  <2>3. /\ r.text \in SUBSET Piece /\ r.names \in SUBSET (ParameterNames \cup {"expr", "split"})
        /\ r \in [query : Queries \cup {"plain"}, text : SUBSET Piece,
                  names : SUBSET (ParameterNames \cup {"expr", "split"}),
                  how : {"refused", "verbatim", "client", "server"}]
    <3>1. Driver(Text(internal), SentNames(internal)) \in {"verbatim", "client", "server"}
      BY DriverChoice
    <3>2. Text(internal) \in SUBSET Piece
          /\ SentNames(internal) \in SUBSET (ParameterNames \cup {"expr", "split"})
      BY <1>2, AddedPieces
    <3> QED BY <3>1, <3>2
  <2> HIDE DEF bad, r, internal
  <2>4. BindTypeOK'
    BY <1>1, <1>2, <2>1, <2>3 DEF BindTypeOK
  <2>5. EveryPlaceholderBound'
    BY <2>1, <2>2 DEF EveryPlaceholderBound, Code, Bound
  <2>6. LiteralsUntouched' /\ RefusedEarly'
    BY <1>1, <2>1, <2>2 DEF LiteralsUntouched, RefusedEarly
  <2> QED BY <1>3, <2>4, <2>5, <2>6 DEF BindInv
<1> QED BY <1>4, <1>5

LEMMA SendQueryBindInv == BindInv /\ SendQuery => BindInv'
<1> SUFFICES ASSUME BindInv, SendQuery PROVE BindInv'
  OBVIOUS
<1> DEFINE r == [query |-> "plain", text |-> filter, names |-> values,
                 how |-> Driver(filter, values)]
<1>1. /\ reads' = reads /\ filter' = filter /\ values' = values /\ state' = state
      /\ pushed' = pushed /\ reads = "query" /\ state = "configured" /\ sent' = r
  BY DEF SendQuery
<1>2. ~InvalidQuery(filter, values) /\ BindTypeOK
  BY <1>1 DEF BindInv, Validated
<1>3. /\ Bound(r) /\ r.how # "refused"
      /\ r.how = "client" =>
             ClientNames(filter) # {} /\ Holding(filter, {"quote", "comment"}, "client") = {}
  BY <1>2, CallerQueryBound
<1>4. r \in [query : Queries \cup {"plain"}, text : SUBSET Piece,
             names : SUBSET (ParameterNames \cup {"expr", "split"}),
             how : {"refused", "verbatim", "client", "server"}]
  <2>1. Driver(filter, values) \in {"verbatim", "client", "server"}
    BY DriverChoice
  <2>2. filter \in SUBSET Piece /\ values \in SUBSET (ParameterNames \cup {"expr", "split"})
    BY <1>2, BindingAssumption DEF InvalidQuery, BindTypeOK
  <2> QED BY <2>1, <2>2
<1> HIDE DEF r
<1>5. BindTypeOK'
  BY <1>1, <1>2, <1>4 DEF BindTypeOK
<1>6. Validated'
  BY <1>1 DEF BindInv, Validated
<1>7. EveryPlaceholderBound'
  BY <1>1, <1>3 DEF EveryPlaceholderBound, Code, Bound
<1>8. LiteralsUntouched' /\ RefusedEarly'
  BY <1>1, <1>3 DEF LiteralsUntouched, RefusedEarly
<1> QED BY <1>5, <1>6, <1>7, <1>8 DEF BindInv

\* Every reachable state satisfies the inductive invariant.
THEOREM BindInvariance == BindSpec => []BindInv
<1>1. BindInit => BindInv
  BY DEF BindInit, BindInv, BindTypeOK, Validated, EveryPlaceholderBound, LiteralsUntouched,
         RefusedEarly
<1>2. BindInv /\ [BindNext]_bindVars => BindInv'
  <2> SUFFICES ASSUME BindInv, [BindNext]_bindVars PROVE BindInv'
    OBVIOUS
  <2>1. CASE UNCHANGED bindVars
    BY <2>1 DEF bindVars, BindInv, BindTypeOK, Validated, EveryPlaceholderBound, Code,
                LiteralsUntouched, RefusedEarly
  <2>2. CASE BindNext
    BY <2>2, ConfigureBindInv, PushBindInv, SendQueryBindInv, SendBindInv DEF BindNext
  <2> QED BY <2>1, <2>2
<1> QED BY <1>1, <1>2, PTL DEF BindSpec

\* Whatever the filter, the predicate and the split bring, a query leaves the
\* driver with every placeholder bound, by one protocol, and every value used
\* (build_select, effective_filter).
THEOREM Every_placeholder_bound == BindSpec => []EveryPlaceholderBound
<1>1. BindInv => EveryPlaceholderBound
  BY DEF BindInv
<1> QED BY <1>1, BindInvariance, PTL

\* Python formats a text only when its own placeholders ask for it, and then
\* nothing that is quoted in a caller's query (README.md).
THEOREM Literals_untouched == BindSpec => []LiteralsUntouched
<1>1. BindInv => LiteralsUntouched
  BY DEF BindInv
<1> QED BY <1>1, BindInvariance, PTL

\* What was accepted when a read was configured or a predicate pushed is not
\* refused when tasks are made of it (apply_predicate, effective_filter).
THEOREM Refused_early == BindSpec => []RefusedEarly
<1>1. BindInv => RefusedEarly
  BY DEF BindInv
<1> QED BY <1>1, BindInvariance, PTL
-----------------------------------------------------------------------------
(* PredicateCompile: the types of columns *)

\* Every non-empty set of natural numbers has a least element.
LEMMA LeastNat ==
    ASSUME NEW T, T \subseteq Nat, T # {}
    PROVE  \E x \in T : \A y \in T : x <= y
<1>1. PICK x \in T : \A y \in T : <<y, x>> \notin OpToRel(<, Nat)
  BY NatLessThanWellFounded, WFMin
<1>2. \A y \in T : ~(y < x)
  BY <1>1 DEF OpToRel
<1> QED BY <1>2

\* Induction, for the set of the numbers that have a property.
LEMMA InductNat ==
    ASSUME NEW S, 0 \in S, \A n \in Nat : n \in S => n + 1 \in S
    PROVE  \A n \in Nat : n \in S
<1> SUFFICES ASSUME Nat \ S # {} PROVE FALSE
  OBVIOUS
<1>1. PICK x \in Nat \ S : \A y \in Nat \ S : x <= y
  BY LeastNat
<1>2. x # 0 /\ x - 1 \in Nat /\ ~(x <= x - 1)
  BY <1>1
<1>3. x - 1 \in S
  BY <1>1, <1>2
<1>4. (x - 1) + 1 \in S
  BY <1>2, <1>3
<1> QED BY <1>1, <1>4

\* The powers of two are what their definition says.
LEMMA PowerDef ==
    /\ Power[0] = 1
    /\ \A n \in 1..LongBits : Power[n] = 2 * Power[n - 1]
<1> DEFINE Doubles(f, m) == f = [n \in 0..m |-> IF n = 0 THEN 1 ELSE 2 * f[n - 1]]
           Good == {m \in Nat : \E f : Doubles(f, m)}
<1>0. LongBits \in Nat \ {0}
  BY PredicateAssumption
<1>1. 0 \in Good
  <2> DEFINE f == [n \in 0..0 |-> 1]
  <2>1. Doubles(f, 0)
    OBVIOUS
  <2> QED BY <2>1
<1>2. ASSUME NEW m \in Nat, m \in Good PROVE m + 1 \in Good
  <2>1. PICK f : Doubles(f, m)
    BY <1>2
  <2> DEFINE g == [n \in 0..(m + 1) |-> IF n <= m THEN f[n] ELSE 2 * f[m]]
             h == [n \in 0..(m + 1) |-> IF n = 0 THEN 1 ELSE 2 * g[n - 1]]
  <2>2. ASSUME NEW n \in 0..(m + 1) PROVE g[n] = h[n]
    <3>1. CASE n = 0
      BY <2>1, <3>1
    <3>2. CASE n \in 1..m
      <4>1. n - 1 \in 0..m /\ g[n - 1] = f[n - 1] /\ g[n] = f[n] /\ n \in 0..m /\ n # 0
        BY <3>2
      <4>2. f[n] = 2 * f[n - 1]
        BY <2>1, <4>1
      <4> QED BY <4>1, <4>2
    <3>3. CASE n = m + 1
      <4>1. n - 1 = m /\ m \in 0..(m + 1) /\ n # 0 /\ ~(n <= m)
        BY <3>3
      <4>2. g[n - 1] = f[m] /\ g[n] = 2 * f[m]
        BY <4>1
      <4> QED BY <4>1, <4>2
    <3> QED BY <3>1, <3>2, <3>3
  <2>3. g = h
    BY <2>2
  <2>4. Doubles(g, m + 1)
    BY <2>3
  <2> HIDE DEF g, Doubles
  <2> QED BY <2>4
<1>3. \E f : Doubles(f, LongBits)
  <2> HIDE DEF Doubles
  <2>1. \A m \in Nat : m \in Good
    BY <1>1, <1>2, InductNat
  <2> QED BY <1>0, <2>1
<1>4. Doubles(Power, LongBits)
  BY <1>3 DEF Power
<1> QED BY <1>0, <1>4

LEMMA PowerPositive == \A n \in 0..LongBits : Power[n] \in Nat \ {0}
<1> DEFINE Good == {n \in Nat : n <= LongBits => Power[n] \in Nat \ {0}}
<1>0. LongBits \in Nat
  BY PredicateAssumption
<1>1. 0 \in Good
  BY PowerDef
<1>2. ASSUME NEW n \in Nat, n \in Good PROVE n + 1 \in Good
  <2> SUFFICES ASSUME n + 1 <= LongBits PROVE Power[n + 1] \in Nat \ {0}
    OBVIOUS
  <2>1. Power[n] \in Nat \ {0} /\ n + 1 \in 1..LongBits /\ (n + 1) - 1 = n
    BY <1>0, <1>2
  <2>2. Power[n + 1] = 2 * Power[n]
    BY <2>1, PowerDef
  <2> QED BY <2>1, <2>2
<1>3. \A n \in Nat : n \in Good
  <2> HIDE DEF Good
  <2> QED BY <1>1, <1>2, InductNat
<1> QED BY <1>0, <1>3

\* A wider type has no fewer values.
LEMMA PowerMonotone ==
    ASSUME NEW m \in Nat, NEW n \in Nat, m <= n, n <= LongBits
    PROVE  Power[m] <= Power[n]
<1> DEFINE Good == {k \in Nat : m + k <= LongBits => Power[m] <= Power[m + k]}
<1>0. LongBits \in Nat
  BY PredicateAssumption
<1>1. 0 \in Good
  BY <1>0, PowerPositive
<1>2. ASSUME NEW k \in Nat, k \in Good PROVE k + 1 \in Good
  <2> SUFFICES ASSUME m + (k + 1) <= LongBits PROVE Power[m] <= Power[m + (k + 1)]
    OBVIOUS
  <2>1. /\ m + (k + 1) \in 1..LongBits /\ (m + (k + 1)) - 1 = m + k
        /\ m + k \in 0..LongBits /\ m \in 0..LongBits
    BY <1>0
  <2>2. Power[m] <= Power[m + k] /\ Power[m + (k + 1)] = 2 * Power[m + k]
    BY <1>2, <2>1, PowerDef
  <2>3. Power[m] \in Nat /\ Power[m + k] \in Nat
    BY <2>1, PowerPositive
  <2> QED BY <2>2, <2>3
<1>3. \A k \in Nat : k \in Good
  <2> HIDE DEF Good
  <2> QED BY <1>1, <1>2, InductNat
<1>4. n - m \in Nat /\ m + (n - m) = n
  OBVIOUS
<1> QED BY <1>3, <1>4

LEMMA Remainder ==
    ASSUME NEW p \in Nat \ {0}, NEW x \in Nat, x < p
    PROVE  x % p = x
OBVIOUS

\* What an integer column holds, what bind accepts for it, and what the server
\* makes of that.
LEMMA IntegerFits ==
    ASSUME NEW c \in DOMAIN Columns, IsInteger(Columns[c]), NEW scalar, NEW op,
           Binds(scalar, Columns[c], op)
    PROVE  /\ scalar.type = "int" /\ scalar.value \in Long
           /\ ValuesOf(Columns[c]) \subseteq Long
           /\ Parameter(scalar, Columns[c]) = scalar.value
<1> DEFINE column == Columns[c]
           bits == column.bits
           p == Power[bits]
<1>1. /\ LongBits \in Nat \ {0} /\ bits \in 1..LongBits
      /\ column.declared \in {"Int", "UInt"}
  BY PredicateAssumption DEF IsInteger
<1>2. /\ p \in Nat \ {0} /\ Power[bits - 1] \in Nat \ {0} /\ p = 2 * Power[bits - 1]
      /\ Power[LongBits - 1] \in Nat \ {0}
  <2>1. bits \in 0..LongBits /\ bits - 1 \in 0..LongBits /\ LongBits - 1 \in 0..LongBits
    BY <1>1
  <2> QED BY <1>1, <2>1, PowerDef, PowerPositive
<1>3. /\ scalar.type = "int" /\ scalar.value \in Long
      /\ scalar.value >= Lower(column) /\ scalar.value < Upper(column)
      /\ ~(column.declared = "UInt" /\ bits = LongBits)
  BY DEF Binds
<1>4. /\ Lower(column) \in Int /\ Upper(column) \in Int
      /\ Upper(column) - Lower(column) = p
      /\ -Power[LongBits - 1] <= Lower(column) /\ Upper(column) <= Power[LongBits - 1]
  <2>1. CASE column.declared = "Int"
    <3>1. Lower(column) = -Power[bits - 1] /\ Upper(column) = Power[bits - 1]
      BY <2>1 DEF Lower, Upper
    <3>2. Power[bits - 1] <= Power[LongBits - 1]
      <4>1. bits - 1 \in Nat /\ LongBits - 1 \in Nat /\ bits - 1 <= LongBits - 1 /\ LongBits - 1 <= LongBits
        BY <1>1
      <4> QED BY <4>1, PowerMonotone
    <3> HIDE DEF p, bits, column
    <3> QED BY <1>2, <3>1, <3>2
  <2>2. CASE column.declared = "UInt"
    <3>1. Lower(column) = 0 /\ Upper(column) = p
      BY <2>2 DEF Lower, Upper
    <3>2. p <= Power[LongBits - 1]
      <4>1. bits \in Nat /\ LongBits - 1 \in Nat /\ bits <= LongBits - 1 /\ LongBits - 1 <= LongBits
        BY <1>1, <1>3, <2>2
      <4> QED BY <4>1, PowerMonotone
    <3> HIDE DEF p, bits, column
    <3> QED BY <1>2, <3>1, <3>2
  <2> QED BY <1>1, <2>1, <2>2
<1>5. ValuesOf(column) \subseteq Long
  <2>1. \A v \in ValuesOf(column) : v \in Int /\ Lower(column) <= v /\ v < Upper(column)
    BY DEF ValuesOf
  <2> HIDE DEF column
  <2> QED BY <1>2, <1>4, <2>1 DEF Long
<1>6. Parameter(scalar, column) = scalar.value
  <2>1. scalar.value \in Int
    BY <1>2, <1>3 DEF Long
  <2> DEFINE x == scalar.value - Lower(column)
  <2> HIDE DEF column, p, bits
  <2>2. x \in Nat /\ x < p
    BY <1>2, <1>3, <1>4, <2>1
  <2>3. x % p = x
    BY <1>2, <2>2, Remainder
  <2>4. x + Lower(column) = scalar.value
    BY <1>4, <2>1
  <2>5. Parameter(scalar, column) \in {(x % p) + Lower(column), scalar.value}
    BY DEF Parameter, p, bits
  <2> QED BY <2>3, <2>4, <2>5
<1> QED BY <1>3, <1>5, <1>6
-----------------------------------------------------------------------------
(* PredicateCompile: the value of a tree *)

\* What a node is worth, from what its operands are.
ValueStep(tree, condition, value, i) ==
    IF tree[i].op \in {"and", "or"}
    THEN Kleene(tree[i].op, value[Left(tree, i)], value[Right(tree, i)])
    ELSE IF tree[i].op = "not" THEN Negation(value[Left(tree, i)])
    ELSE condition[i]

IsValue(tree, condition, value) ==
    value = [i \in DOMAIN tree |-> ValueStep(tree, condition, value, i)]

\* The operands of a connective come before it.
Grounded(tree, n) ==
    /\ DOMAIN tree = 1..n
    /\ \A i \in 1..n :
         /\ tree[i].op \in Connectives => Left(tree, i) \in 1..(i - 1)
         /\ tree[i].op \in {"and", "or"} => Right(tree, i) \in 1..(i - 1)

LEMMA StepOfOperands ==
    ASSUME NEW tree, NEW condition, NEW n \in Nat, Grounded(tree, n), NEW i \in 1..n,
           NEW a, NEW b, \A j \in 1..(i - 1) : a[j] = b[j]
    PROVE  ValueStep(tree, condition, a, i) = ValueStep(tree, condition, b, i)
<1>1. CASE tree[i].op \in {"and", "or"}
  <2>1. Left(tree, i) \in 1..(i - 1) /\ Right(tree, i) \in 1..(i - 1)
    BY <1>1 DEF Grounded, Connectives
  <2> QED BY <2>1 DEF ValueStep
<1>2. CASE tree[i].op = "not"
  <2>1. Left(tree, i) \in 1..(i - 1)
    BY <1>2 DEF Grounded, Connectives
  <2> QED BY <1>2, <2>1 DEF ValueStep
<1>3. CASE tree[i].op \notin {"and", "or", "not"}
  BY <1>3 DEF ValueStep
<1> QED BY <1>1, <1>2, <1>3

\* The values of all nodes exist, and Value is that of the last.
LEMMA ValueDef ==
    ASSUME NEW tree, NEW condition, NEW n \in Nat, Grounded(tree, n)
    PROVE  \E value : IsValue(tree, condition, value) /\ Value(tree, condition) = value[Len(tree)]
<1> DEFINE Step(v, i) == ValueStep(tree, condition, v, i)
           Upto(v, m) == v = [i \in 1..m |-> Step(v, i)]
           Good == {m \in Nat : m <= n => \E v : Upto(v, m)}
<1>1. 0 \in Good
  <2> DEFINE v == [i \in 1..0 |-> 0]
  <2>1. v = [i \in 1..0 |-> Step(v, i)]
    OBVIOUS
  <2> HIDE DEF v, Step
  <2>2. Upto(v, 0)
    BY <2>1
  <2> HIDE DEF Upto
  <2> QED BY <2>2
<1>2. ASSUME NEW m \in Nat, m \in Good PROVE m + 1 \in Good
  <2> SUFFICES ASSUME m + 1 <= n PROVE \E v : Upto(v, m + 1)
    OBVIOUS
  <2>1. PICK v : Upto(v, m)
    BY <1>2
  <2> DEFINE w == [i \in 1..(m + 1) |-> IF i = m + 1 THEN Step(v, m + 1) ELSE v[i]]
             u == [i \in 1..(m + 1) |-> Step(w, i)]
  <2>2. ASSUME NEW i \in 1..(m + 1) PROVE w[i] = u[i]
    <3>1. i \in 1..n /\ \A j \in 1..(i - 1) : w[j] = v[j]
      OBVIOUS
    <3> HIDE DEF w, Step
    <3>2. Step(w, i) = Step(v, i)
      <4> HIDE DEF Upto
      <4> QED BY <3>1, StepOfOperands DEF Step
    <3>3. w[i] = Step(v, i)
      BY <2>1 DEF w
    <3> QED BY <3>2, <3>3 DEF w
  <2>3. w = u
    BY <2>2
  <2>4. Upto(w, m + 1)
    BY <2>3
  <2> HIDE DEF w, Upto
  <2> QED BY <2>4
<1>3. \E v : Upto(v, n)
  <2> HIDE DEF Upto
  <2>1. \A m \in Nat : m \in Good
    BY <1>1, <1>2, InductNat
  <2> QED BY <2>1
<1>4. \E v : IsValue(tree, condition, v)
  BY <1>3 DEF IsValue, Grounded
<1> DEFINE value == CHOOSE v : IsValue(tree, condition, v)
<1>5. IsValue(tree, condition, value)
  BY <1>4
<1>6. Value(tree, condition) = value[Len(tree)]
  BY DEF Value, IsValue, ValueStep
<1> QED BY <1>5, <1>6
-----------------------------------------------------------------------------
(* PredicateCompile: the conditions *)

LEMMA ExpressionFacts ==
    ASSUME NEW e, IsExpression(e)
    PROVE  /\ Len(e) \in Nat \ {0} /\ DOMAIN e = 1..Len(e)
           /\ \A i \in 1..Len(e) :
                /\ e[i].left \in 0..(i - 1) /\ e[i].right \in 0..(i - 1)
                /\ e[i].op \in Connectives \cup NullTests => e[i].left # 0
                /\ e[i].op \in Comparisons \cup {"and", "or"} => e[i].left # 0 /\ e[i].right # 0
                /\ \A j \in 1..Len(e) : i # j => OperandsOf(e, i) \cap OperandsOf(e, j) = {}
<1>1. e \in Seq(Range(e)) /\ e # << >>
  BY DEF IsExpression
<1>2. Len(e) \in Nat \ {0} /\ DOMAIN e = 1..Len(e)
  BY <1>1
<1> QED BY <1>2 DEF IsExpression

\* Operands come before their operator.
LEMMA Operands ==
    ASSUME NEW e, IsExpression(e), NEW i \in 1..Len(e)
    PROVE  /\ OperandsOf(e, i) \subseteq 1..(i - 1)
           /\ e[i].op \in Connectives \cup NullTests \cup Comparisons =>
                Left(e, i) \in 1..(i - 1) /\ Left(e, i) \in OperandsOf(e, i)
           /\ e[i].op \in Comparisons \cup {"and", "or"} =>
                Right(e, i) \in 1..(i - 1) /\ Right(e, i) \in OperandsOf(e, i)
<1>1. /\ e[i].left \in 0..(i - 1) /\ e[i].right \in 0..(i - 1)
      /\ e[i].op \in Connectives \cup NullTests \cup Comparisons => e[i].left # 0
      /\ e[i].op \in Comparisons \cup {"and", "or"} => e[i].right # 0
  BY ExpressionFacts
<1>2. /\ e[i].left # 0 => Left(e, i) \in 1..(i - 1)
      /\ e[i].right # 0 => Right(e, i) \in 1..(i - 1)
      /\ e[i].left = 0 => Left(e, i) = i
      /\ e[i].right = 0 => Right(e, i) = i
  BY <1>1 DEF Left, Right
<1>3. OperandsOf(e, i) \subseteq 1..(i - 1)
  BY <1>1, <1>2 DEF OperandsOf
<1>4. i \notin 1..(i - 1)
  OBVIOUS
<1> QED BY <1>1, <1>2, <1>3, <1>4 DEF OperandsOf

\* render visits the whole, and the operands of the connectives it visits.
LEMMA VisitedNodes ==
    ASSUME NEW e, IsExpression(e)
    PROVE  /\ Visited(e) \subseteq 1..Len(e)
           /\ Len(e) \in Visited(e)
           /\ \A i \in 1..Len(e) : e[i].op \in Connectives => OperandsOf(e, i) \subseteq Visited(e)
<1>1. DOMAIN e = 1..Len(e) /\ Len(e) \in 1..Len(e) /\ Len(e) \in Nat
  BY ExpressionFacts
<1>2. \A i \in 1..Len(e) : OperandsOf(e, i) \subseteq 1..(i - 1)
  BY Operands
<1>3. Len(e) \in Visited(e)
  <2>1. \A i \in 1..Len(e) : Len(e) \notin OperandsOf(e, i)
    BY <1>1, <1>2
  <2> QED BY <1>1, <2>1 DEF Visited
<1>4. ASSUME NEW i \in 1..Len(e), e[i].op \in Connectives, NEW k \in OperandsOf(e, i)
      PROVE  k \in Visited(e)
  <2>1. k \in 1..Len(e)
    BY <1>1, <1>2
  <2>2. ASSUME NEW j \in 1..Len(e), e[j].op \in Comparisons \cup NullTests
        PROVE  k \notin OperandsOf(e, j)
    <3>1. i # j
      BY <1>4, <2>2 DEF Connectives, Comparisons, NullTests
    <3> QED BY <3>1, ExpressionFacts
  <2> QED BY <1>1, <2>1, <2>2 DEF Visited
<1> QED BY <1>1, <1>3, <1>4 DEF Visited

\* Parameters are numbered one after the other.
LEMMA Numbered ==
    ASSUME NEW e, IsExpression(e), NEW i \in Binders(e)
    PROVE  /\ Number(e, i) \in 1..Cardinality(Binders(e))
           /\ \A j \in Binders(e) : Number(e, j) = Number(e, i) => j = i
<1> DEFINE B == Binders(e)
           First(j) == {k \in B : k <= j}
<1>1. B \subseteq 1..Len(e) /\ Len(e) \in Nat /\ IsFiniteSet(B)
  <2>1. B \subseteq 1..Len(e) /\ Len(e) \in Nat
    BY VisitedNodes, ExpressionFacts DEF Binders
  <2>2. IsFiniteSet(1..Len(e))
    BY <2>1, FS_Interval
  <2> HIDE DEF B
  <2> QED BY <2>1, <2>2, FS_Subset
<1>2. \A j : First(j) \subseteq B /\ IsFiniteSet(First(j)) /\ Cardinality(First(j)) \in Nat
  <2> HIDE DEF B
  <2> QED BY <1>1, FS_Subset, FS_CardinalityType
<1>3. ASSUME NEW j \in B, NEW k \in B, j < k
      PROVE  Cardinality(First(j)) # Cardinality(First(k))
  <2>1. First(j) \subseteq First(k) /\ k \in First(k) /\ k \notin First(j)
    BY <1>1, <1>3
  <2> HIDE DEF First
  <2> QED BY <1>2, <2>1, FS_Subset
<1>4. Cardinality(First(i)) \in 1..Cardinality(B)
  <2>1. i \in First(i) /\ First(i) \subseteq B
    BY <1>1
  <2>2. Cardinality(First(i)) # 0
    <3> HIDE DEF First
    <3> QED BY <1>2, <2>1, FS_EmptySet
  <2>3. Cardinality(First(i)) <= Cardinality(B) /\ Cardinality(B) \in Nat
    <3> HIDE DEF First, B
    <3> QED BY <1>1, <2>1, FS_Subset, FS_CardinalityType
  <2> HIDE DEF First, B
  <2> QED BY <1>2, <2>2, <2>3
<1>5. \A j : Number(e, j) = Cardinality(First(j))
  BY DEF Number
<1>6. ASSUME NEW j \in B, Number(e, j) = Number(e, i) PROVE j = i
  <2>1. j \in Nat /\ i \in Nat
    BY <1>1
  <2>2. ~(j < i) /\ ~(i < j)
    <3> HIDE DEF First, B
    <3> QED BY <1>3, <1>5, <1>6 DEF B
  <2> QED BY <2>1, <2>2
<1> QED BY <1>4, <1>5, <1>6

\* The parameter of a node is its literal.
ScalarOf(e, i) == IF e[i].op = "column" THEN True ELSE Condition(e, i).literal.scalar

LEMMA ParameterOf ==
    ASSUME NEW e, IsExpression(e), NEW i \in Binders(e)
    PROVE  Parameters(e)[Number(e, i)] = ScalarOf(e, i)
<1>1. Number(e, i) \in 1..Cardinality(Binders(e))
  BY Numbered
<1>2. (CHOOSE j \in Binders(e) : Number(e, j) = Number(e, i)) = i
  BY Numbered
<1> QED BY <1>1, <1>2 DEF Parameters, ScalarOf

\* What a row holds, and what a filter may be for it.
LEMMA RowValue ==
    ASSUME NEW row \in Rows, NEW c \in DOMAIN Columns
    PROVE  row[c] # Null => row[c] \in ValuesOf(Columns[c]) /\ row[c] \in Int
<1>1. row[c] \in ValuesOf(Columns[c]) \cup {Null}
  BY PredicateAssumption
<1>2. ValuesOf(Columns[c]) \subseteq Int
  BY DEF ValuesOf
<1> QED BY <1>1, <1>2

\* A comparison that is written the other way round.
LEMMA Reversed ==
    ASSUME NEW op \in Comparisons, NEW a, NEW b
    PROVE  /\ Reverse(op) \in Comparisons
           /\ (a \in Int /\ b \in Int) \/ op \in {"eq", "ne"} =>
                /\ Holds(op, a, b) \in BOOLEAN
                /\ Holds(Reverse(op), b, a) = Holds(op, a, b)
<1>1. CASE op = "eq"
  BY <1>1 DEF Reverse, Holds, Comparisons
<1>2. CASE op = "ne"
  BY <1>2 DEF Reverse, Holds, Comparisons
<1>3. CASE op = "lt"
  BY <1>3 DEF Reverse, Holds, Comparisons
<1>4. CASE op = "le"
  BY <1>4 DEF Reverse, Holds, Comparisons
<1>5. CASE op = "gt"
  BY <1>5 DEF Reverse, Holds, Comparisons
<1>6. CASE op = "ge"
  BY <1>6 DEF Reverse, Holds, Comparisons
<1> QED BY <1>1, <1>2, <1>3, <1>4, <1>5, <1>6 DEF Comparisons

\* A literal that bind accepts is compared with a column alike by both sides.
LEMMA SameComparison ==
    ASSUME NEW c \in DOMAIN Columns, NEW scalar, NEW op \in Comparisons, NEW row \in Rows,
           Columns[c].visible, Binds(scalar, Columns[c], op),
           \/ IsInteger(Columns[c]) /\ Columns[c].arrow \in {"int", "uint"}
           \/ Columns[c].declared = "Bool" /\ Columns[c].arrow = "bool"
           \/ Columns[c].declared = "String" /\ Columns[c].arrow \in {"string", "binary"}
    PROVE  /\ ArrowCompare(op, c, scalar, row, FALSE) \in BOOLEAN \cup {Null}
           /\ ArrowCompare(Reverse(op), c, scalar, row, TRUE) =
                ArrowCompare(op, c, scalar, row, FALSE)
           /\ ArrowCompare(op, c, scalar, row, FALSE) =
                IF row[c] = Null THEN Null
                ELSE Holds(op, row[c], Parameter(scalar, Columns[c]))
<1> DEFINE v == row[c]
           s == scalar.value
<1>1. CASE IsInteger(Columns[c])
  <2>1. /\ scalar.type = "int" /\ s \in Long /\ Parameter(scalar, Columns[c]) = s
        /\ v # Null => v \in Long
    BY <1>1, IntegerFits, RowValue
  <2>2. Columns[c].arrow \in {"int", "uint"}
    BY <1>1 DEF IsInteger
  <2>3. \A b \in BOOLEAN : \A o :
          ArrowCompare(o, c, scalar, row, b) =
            IF v = Null THEN Null ELSE IF b THEN Holds(o, s, v) ELSE Holds(o, v, s)
    BY <2>1, <2>2 DEF ArrowCompare
  <2>4. s \in Int /\ (v # Null => v \in Int)
    BY <2>1, RowValue DEF Long
  <2>5. v # Null => /\ Holds(op, v, s) \in BOOLEAN
                    /\ Holds(Reverse(op), s, v) = Holds(op, v, s)
    BY <2>4, Reversed
  <2> HIDE DEF v, s
  <2>6. /\ ArrowCompare(op, c, scalar, row, FALSE) = IF v = Null THEN Null ELSE Holds(op, v, s)
        /\ ArrowCompare(Reverse(op), c, scalar, row, TRUE) =
             IF v = Null THEN Null ELSE Holds(Reverse(op), s, v)
    BY <2>3
  <2>7. v = row[c] /\ Parameter(scalar, Columns[c]) = s
    BY <2>1 DEF v, s
  <2>8. CASE v = Null
    BY <2>6, <2>7, <2>8, Zenon
  <2>9. CASE v # Null
    BY <2>5, <2>6, <2>7, <2>9, Zenon
  <2> QED BY <2>8, <2>9
<1>2. CASE ~IsInteger(Columns[c])
  <2>1. op \in {"eq", "ne"} /\ Parameter(scalar, Columns[c]) = s
    BY <1>2 DEF Binds, Parameter
  <2>2. <<Columns[c].arrow, scalar.type>> \in
          {<<"bool", "bool">>, <<"string", "str">>, <<"binary", "bytes">>}
    BY <1>2 DEF Binds
  <2>3. \A b \in BOOLEAN : \A o :
          ArrowCompare(o, c, scalar, row, b) =
            IF v = Null THEN Null ELSE IF b THEN Holds(o, s, v) ELSE Holds(o, v, s)
    BY <2>2 DEF ArrowCompare
  <2>4. /\ Holds(op, v, s) \in BOOLEAN
        /\ Holds(Reverse(op), s, v) = Holds(op, v, s)
    BY <2>1, Reversed
  <2> HIDE DEF v, s
  <2>5. /\ ArrowCompare(op, c, scalar, row, FALSE) = IF v = Null THEN Null ELSE Holds(op, v, s)
        /\ ArrowCompare(Reverse(op), c, scalar, row, TRUE) =
             IF v = Null THEN Null ELSE Holds(Reverse(op), s, v)
    BY <2>3
  <2>6. v = row[c] /\ Parameter(scalar, Columns[c]) = s
    BY <2>1 DEF v, s
  <2>7. CASE v = Null
    BY <2>5, <2>6, <2>7, Zenon
  <2>8. CASE v # Null
    BY <2>4, <2>5, <2>6, <2>8, Zenon
  <2> QED BY <2>7, <2>8
<1> QED BY <1>1, <1>2

\* Columns of which SQL is made.
LEMMA TypedColumn ==
    ASSUME NEW node, Typed(node)
    PROVE  /\ node.op = "column" /\ node.name \in DOMAIN Columns /\ Columns[node.name].visible
           /\ \/ IsInteger(Columns[node.name]) /\ Columns[node.name].arrow \in {"int", "uint"}
              \/ Columns[node.name].declared = "Bool" /\ Columns[node.name].arrow = "bool"
              \/ /\ Columns[node.name].declared = "String"
                 /\ Columns[node.name].arrow \in {"string", "binary"}
BY DEF Typed, IsInteger

\* The server finds for every condition what Arrow finds.
LEMMA SameCondition ==
    ASSUME NEW e, IsExpression(e), NEW i \in Visited(e), Rendered(e, i),
           e[i].op \notin Connectives, NEW row \in Rows
    PROVE  /\ ArrowCondition(e, i, row) \in BOOLEAN \cup {Null}
           /\ ServerCondition(Render(e)[i], Parameters(e), row) = ArrowCondition(e, i, row)
<1> DEFINE sql == Render(e)[i]
           expected == ArrowCondition(e, i, row)
<1>1. i \in 1..Len(e) /\ i \in DOMAIN e
  BY VisitedNodes, ExpressionFacts
<1>2. CASE e[i].op \in NullTests
  <2> DEFINE name == e[Left(e, i)].name
  <2>1. Typed(e[Left(e, i)])
    BY <1>2 DEF Rendered, NullTests, Connectives, Comparisons
  <2>2. Columns[name].visible
    BY <2>1, TypedColumn
  <2>3. expected = ((e[i].op = "is_null") = (row[name] = Null))
    BY <1>2, <2>2 DEF ArrowCondition
  <2>4. sql = [op |-> e[i].op, column |-> name]
    BY <1>1, <1>2 DEF Render, NullTests, Connectives
  <2>5. ServerCondition(sql, Parameters(e), row) = ((e[i].op = "is_null") = (row[name] = Null))
    <3> HIDE DEF sql, name
    <3> QED BY <1>2, <2>4 DEF ServerCondition
  <2> HIDE DEF name
  <2>6. expected \in BOOLEAN
    BY <2>3
  <2> QED BY <2>3, <2>5, <2>6, Zenon
<1>3. CASE e[i].op = "column"
  <2> DEFINE name == e[i].name
  <2>1. Typed(e[i]) /\ Columns[name].declared = "Bool"
    BY <1>3 DEF Rendered, NullTests, Connectives, Comparisons
  <2>2. Columns[name].visible /\ Columns[name].arrow = "bool"
    BY <2>1, TypedColumn DEF IsInteger
  <2>3. expected = IF row[name] = Null THEN Null ELSE row[name] = 1
    BY <1>3, <2>2 DEF ArrowCondition, NullTests
  <2>4. sql = Compare(name, "eq", Number(e, i))
    BY <1>1, <1>3 DEF Render, NullTests, Connectives
  <2>5. Parameters(e)[Number(e, i)] = True
    BY <1>3, ParameterOf DEF ScalarOf, Binders
  <2>6. Parameter(True, Columns[name]) = 1
    BY <2>1 DEF Parameter, True, IsInteger
  <2>7. ServerCondition(sql, Parameters(e), row) = IF row[name] = Null THEN Null ELSE row[name] = 1
    <3> HIDE DEF sql, name
    <3>1. /\ sql.op = "compare" /\ sql.column = name /\ sql.with = "eq"
          /\ sql.parameter = Number(e, i) /\ sql.op \notin NullTests
      BY <2>4 DEF Compare, NullTests
    <3>2. \A a, b : Holds("eq", a, b) = (a = b)
      BY DEF Holds
    <3> QED BY <2>5, <2>6, <3>1, <3>2 DEF ServerCondition
  <2> HIDE DEF name
  <2>8. expected \in BOOLEAN \cup {Null}
    BY <2>3
  <2> QED BY <2>3, <2>7, <2>8, Zenon
<1>4. CASE e[i].op \in Comparisons
  <2> DEFINE condition == Condition(e, i)
             name == condition.column.name
             scalar == condition.literal.scalar
  <2>1. /\ Typed(condition.column) /\ condition.literal.op = "literal"
        /\ Binds(scalar, Columns[name], condition.op)
    BY <1>4 DEF Rendered, NullTests, Connectives, Comparisons
  <2>2. sql = Compare(name, condition.op, Number(e, i))
    BY <1>1, <1>4 DEF Render, NullTests, Connectives, Comparisons
  <2>3. Parameters(e)[Number(e, i)] = scalar
    BY <1>4, ParameterOf DEF ScalarOf, Binders, Comparisons
  <2>4. condition.op \in Comparisons /\ condition.column.op = "column"
    BY <1>4, <2>1, Reversed, TypedColumn DEF Condition
  <2> DEFINE compared == ArrowCompare(condition.op, name, scalar, row, FALSE)
  <2>5. /\ compared \in BOOLEAN \cup {Null}
        /\ ArrowCompare(Reverse(condition.op), name, scalar, row, TRUE) = compared
        /\ compared = IF row[name] = Null THEN Null
                      ELSE Holds(condition.op, row[name], Parameter(scalar, Columns[name]))
    <3> HIDE DEF condition, scalar, name
    <3>1. /\ name \in DOMAIN Columns /\ Columns[name].visible
          /\ \/ IsInteger(Columns[name]) /\ Columns[name].arrow \in {"int", "uint"}
             \/ Columns[name].declared = "Bool" /\ Columns[name].arrow = "bool"
             \/ Columns[name].declared = "String" /\ Columns[name].arrow \in {"string", "binary"}
      BY <2>1, TypedColumn DEF name
    <3> QED BY <2>1, <2>4, <3>1, SameComparison
  <2>6. expected = compared
    <3> DEFINE left == e[Left(e, i)]
               right == e[Right(e, i)]
    <3>1. expected = IF right.op = "literal"
                  THEN ArrowCompare(e[i].op, left.name, right.scalar, row, FALSE)
                  ELSE IF left.op = "literal"
                       THEN ArrowCompare(e[i].op, right.name, left.scalar, row, TRUE)
                  ELSE Error
      BY <1>4 DEF ArrowCondition, Comparisons, NullTests
    <3>2. CASE left.op = "literal" /\ right.op = "column"
      <4>1. /\ condition.op = Reverse(e[i].op) /\ name = right.name /\ scalar = left.scalar
        BY <3>2 DEF Condition
      <4>2. Reverse(condition.op) = e[i].op
        BY <1>4, <4>1 DEF Reverse, Comparisons
      <4>3. expected = ArrowCompare(e[i].op, right.name, left.scalar, row, TRUE)
        BY <3>1, <3>2
      <4> HIDE DEF expected, compared, condition, name, scalar
      <4> QED BY <2>5, <4>1, <4>2, <4>3
    <3>3. CASE ~(left.op = "literal" /\ right.op = "column")
      <4>1. condition = [column |-> left, literal |-> right, op |-> e[i].op]
        BY <3>3 DEF Condition
      <4>2. name = left.name /\ scalar = right.scalar /\ condition.op = e[i].op
        BY <4>1
      <4>3. right.op = "literal"
        BY <2>1, <4>1
      <4>4. expected = ArrowCompare(e[i].op, left.name, right.scalar, row, FALSE)
        BY <3>1, <4>3
      <4> HIDE DEF expected, condition, name, scalar
      <4> QED BY <4>2, <4>4
    <3> QED BY <3>2, <3>3
  <2>7. ServerCondition(sql, Parameters(e), row) = compared
    <3> HIDE DEF sql, name, scalar, condition, compared
    <3>1. /\ sql.op = "compare" /\ sql.column = name /\ sql.with = condition.op
          /\ sql.parameter = Number(e, i) /\ sql.op \notin NullTests
      BY <2>2 DEF Compare, NullTests
    <3> QED BY <2>3, <2>5, <3>1 DEF ServerCondition
  <2> HIDE DEF compared
  <2> QED BY <2>5, <2>6, <2>7, Zenon
<1> QED BY <1>2, <1>3, <1>4 DEF Rendered

\* Both trees have their operands before the operators, and the same connectives.
LEMMA SqlTree ==
    ASSUME NEW e, IsExpression(e)
    PROVE  /\ Grounded(e, Len(e)) /\ Grounded(Render(e), Len(e)) /\ Len(Render(e)) = Len(e)
           /\ \A i \in Visited(e) : e[i].op \in Connectives =>
                /\ Render(e)[i].op = e[i].op /\ Left(Render(e), i) = Left(e, i)
                /\ Right(Render(e), i) = Right(e, i)
           /\ \A i \in Visited(e) : Rendered(e, i) /\ e[i].op \notin Connectives =>
                Render(e)[i].op \notin Connectives
<1>1. Len(e) \in Nat /\ DOMAIN e = 1..Len(e) /\ Visited(e) \subseteq 1..Len(e)
  BY ExpressionFacts, VisitedNodes
<1>2. Grounded(e, Len(e))
  BY <1>1, Operands DEF Grounded, Connectives
<1>3. ASSUME NEW i \in Visited(e), e[i].op \in Connectives
      PROVE  /\ Render(e)[i].op = e[i].op /\ Left(Render(e), i) = Left(e, i)
             /\ Right(Render(e), i) = Right(e, i)
  <2>1. Render(e)[i] = [op |-> e[i].op, left |-> e[i].left, right |-> e[i].right]
    BY <1>1, <1>3 DEF Render
  <2> QED BY <2>1 DEF Left, Right
<1>4. ASSUME NEW i \in 1..Len(e), i \notin Visited(e) \/ e[i].op \notin Connectives
      PROVE  Render(e)[i].op \notin Connectives
  <2>1. CASE i \notin Visited(e)
    <3>1. Render(e)[i] = [op |-> "operand"]
      BY <1>1, <2>1 DEF Render
    <3> QED BY <3>1 DEF Connectives
  <2>2. CASE i \in Visited(e) /\ e[i].op \in NullTests
    <3>1. Render(e)[i] = [op |-> e[i].op, column |-> e[Left(e, i)].name]
      BY <1>1, <2>2 DEF Render, NullTests, Connectives
    <3> QED BY <2>2, <3>1 DEF Connectives, NullTests
  <2>3. CASE i \in Visited(e) /\ e[i].op \notin NullTests
    <3>1. \E name, op, number : Render(e)[i] = Compare(name, op, number)
      BY <1>1, <1>4, <2>3 DEF Render
    <3> QED BY <3>1 DEF Connectives, Compare
  <2> QED BY <2>1, <2>2, <2>3
<1>5. Len(Render(e)) = Len(e) /\ DOMAIN Render(e) = 1..Len(e)
  BY <1>1 DEF Render
<1>6. Grounded(Render(e), Len(e))
  <2> SUFFICES ASSUME NEW i \in 1..Len(e), Render(e)[i].op \in Connectives
               PROVE  /\ Left(Render(e), i) \in 1..(i - 1)
                      /\ Render(e)[i].op \in {"and", "or"} => Right(Render(e), i) \in 1..(i - 1)
    BY <1>5 DEF Grounded, Connectives
  <2>1. i \in Visited(e) /\ e[i].op \in Connectives
    BY <1>4
  <2> QED BY <1>2, <1>3, <2>1 DEF Grounded
<1> QED BY <1>1, <1>2, <1>3, <1>4, <1>5, <1>6

\* A connective of values that are no errors.
LEMMA Connected ==
    ASSUME NEW a \in BOOLEAN \cup {Null}, NEW b \in BOOLEAN \cup {Null}, NEW op
    PROVE  Kleene(op, a, b) \in BOOLEAN \cup {Null} /\ Negation(a) \in BOOLEAN \cup {Null}
<1>1. Null \notin BOOLEAN /\ Error \notin BOOLEAN \cup {Null}
  BY PredicateAssumption
<1>2. Negation(a) \in BOOLEAN \cup {Null}
  BY <1>1 DEF Negation
<1>3. (op = "or") \in BOOLEAN
  OBVIOUS
<1>4. Kleene(op, a, b) \in BOOLEAN \cup {Null}
  BY <1>1, <1>3 DEF Kleene
<1> QED BY <1>2, <1>4

\* SQL that is made of an expression keeps the rows that the expression keeps.
LEMMA SameTree ==
    ASSUME NEW e, IsExpression(e), Compiles(e), NEW row \in Rows
    PROVE  /\ Arrow(e, row) \in BOOLEAN \cup {Null}
           /\ ClickHouse(Render(e), Parameters(e), row) = Arrow(e, row)
<1> DEFINE sql == Render(e)
           n == Len(e)
           arrow == [i \in DOMAIN e |-> ArrowCondition(e, i, row)]
           server == [i \in DOMAIN sql |-> ServerCondition(sql[i], Parameters(e), row)]
<1>1. n \in Nat /\ DOMAIN e = 1..n /\ DOMAIN sql = 1..n /\ Visited(e) \subseteq 1..n
  BY ExpressionFacts, VisitedNodes, SqlTree DEF Grounded
<1>2. PICK v : IsValue(e, arrow, v) /\ Value(e, arrow) = v[Len(e)]
  <2> HIDE DEF arrow
  <2> QED BY <1>1, SqlTree, ValueDef
<1>3. PICK w : IsValue(sql, server, w) /\ Value(sql, server) = w[Len(sql)]
  <2> HIDE DEF server
  <2> QED BY <1>1, SqlTree, ValueDef
<1> DEFINE Same(i) == v[i] \in BOOLEAN \cup {Null} /\ w[i] = v[i]
<1>4. ASSUME NEW i \in Visited(e), \A j \in Visited(e) : j < i => Same(j)
      PROVE  Same(i)
  <2>1. /\ i \in 1..n /\ Rendered(e, i)
        /\ v[i] = ValueStep(e, arrow, v, i) /\ w[i] = ValueStep(sql, server, w, i)
    BY <1>1, <1>2, <1>3 DEF IsValue, Compiles
  <2>2. CASE e[i].op \notin Connectives
    <3>1. sql[i].op \notin Connectives
      BY <2>1, <2>2, SqlTree
    <3>2. v[i] = ArrowCondition(e, i, row) /\ w[i] = ServerCondition(sql[i], Parameters(e), row)
      <4> HIDE DEF sql
      <4> QED BY <1>1, <2>1, <2>2, <3>1 DEF ValueStep, Connectives
    <3> QED BY <2>1, <2>2, <3>2, SameCondition
  <2>3. CASE e[i].op \in Connectives
    <3> DEFINE l == Left(e, i)
               r == Right(e, i)
    <3>1. /\ sql[i].op = e[i].op /\ Left(sql, i) = l /\ Right(sql, i) = r
      BY <2>3, SqlTree
    <3>2. Same(l)
      <4>1. l \in 1..(i - 1) /\ l \in Visited(e)
        BY <2>1, <2>3, Operands, VisitedNodes
      <4> HIDE DEF Same, l
      <4> QED BY <1>4, <2>1, <4>1
    <3>3. e[i].op \in {"and", "or"} => Same(r)
      <4> SUFFICES ASSUME e[i].op \in {"and", "or"} PROVE Same(r)
        OBVIOUS
      <4>1. r \in 1..(i - 1) /\ r \in Visited(e)
        BY <2>1, <2>3, Operands, VisitedNodes
      <4> HIDE DEF Same, r
      <4> QED BY <1>4, <2>1, <4>1
    <3> HIDE DEF sql, arrow, server, l, r
    <3>4. CASE e[i].op \in {"and", "or"}
      <4>1. v[i] = Kleene(e[i].op, v[l], v[r]) /\ w[i] = Kleene(e[i].op, w[l], w[r])
        BY <2>1, <3>1, <3>4 DEF ValueStep, l, r
      <4> QED BY <3>2, <3>3, <3>4, <4>1, Connected
    <3>5. CASE e[i].op = "not"
      <4>1. v[i] = Negation(v[l]) /\ w[i] = Negation(w[l])
        BY <2>1, <3>1, <3>5 DEF ValueStep, l
      <4> QED BY <3>2, <4>1, Connected
    <3> QED BY <2>3, <3>4, <3>5 DEF Connectives
  <2> QED BY <2>2, <2>3
<1>5. \A i \in Visited(e) : Same(i)
  <2> HIDE DEF Same
  <2> DEFINE Differ == {i \in Visited(e) : ~Same(i)}
  <2> SUFFICES ASSUME Differ # {} PROVE FALSE
    OBVIOUS
  <2>1. Differ \subseteq Nat
    BY <1>1
  <2>2. PICK i \in Differ : \A j \in Differ : i <= j
    <3> HIDE DEF Differ
    <3> QED BY <2>1, LeastNat
  <2>3. ASSUME NEW j \in Visited(e), j < i PROVE Same(j)
    <3>1. j \in Nat /\ i \in Nat
      BY <1>1
    <3>2. j \notin Differ
      BY <2>2, <2>3, <3>1
    <3> QED BY <3>2
  <2> QED BY <1>4, <2>2, <2>3
<1>6. Same(n) /\ Len(sql) = n
  BY <1>5, VisitedNodes, SqlTree
<1>7. Arrow(e, row) = v[n] /\ ClickHouse(sql, Parameters(e), row) = w[n]
  BY <1>2, <1>3, <1>6 DEF Arrow, ClickHouse
<1> QED BY <1>6, <1>7
-----------------------------------------------------------------------------
(* PredicateCompile: the invariant *)

\* What IsExpression asks of a node, and of two.
Formed(e, i) ==
    /\ e[i].left \in 0..(i - 1) /\ e[i].right \in 0..(i - 1)
    /\ e[i].op \in Connectives \cup NullTests => e[i].left # 0
    /\ e[i].op \in Comparisons \cup {"and", "or"} => e[i].left # 0 /\ e[i].right # 0

Apart(e) ==
    \A i, j \in 1..Len(e) : i # j => OperandsOf(e, i) \cap OperandsOf(e, j) = {}

LEMMA ExpressionIf ==
    ASSUME NEW S, NEW e \in Seq(S), Len(e) # 0,
           \A i \in 1..Len(e) : Formed(e, i), Apart(e)
    PROVE  IsExpression(e)
<1>1. DOMAIN e = 1..Len(e) /\ Len(e) \in Nat /\ e # << >>
  OBVIOUS
<1>2. e = [i \in 1..Len(e) |-> e[i]] /\ \A i \in 1..Len(e) : e[i] \in Range(e)
  BY <1>1 DEF Range
<1>3. e \in [1..Len(e) -> Range(e)]
  BY <1>2
<1>4. e \in Seq(Range(e))
  BY <1>1, <1>3
<1>5. \A i \in DOMAIN e :
             /\ e[i].left \in 0..(i - 1) /\ e[i].right \in 0..(i - 1)
             /\ e[i].op \in Connectives \cup NullTests => e[i].left # 0
             /\ e[i].op \in Comparisons \cup {"and", "or"} => 0 \notin {e[i].left, e[i].right}
             /\ \A j \in DOMAIN e : i # j => OperandsOf(e, i) \cap OperandsOf(e, j) = {}
  BY <1>1 DEF Formed, Apart
<1> QED BY <1>1, <1>4, <1>5 DEF IsExpression

LEMMA Leaves ==
    /\ \A name : IsExpression(<<Column(name)>>)
    /\ \A scalar : IsExpression(<<Literal(scalar)>>)
<1>1. ASSUME NEW node, node.left = 0, node.right = 0, node.op \in {"column", "literal"}
      PROVE  IsExpression(<<node>>)
  <2> DEFINE e == <<node>>
             S == {node}
  <2>1. e \in Seq(S) /\ Len(e) = 1 /\ e[1] = node
    OBVIOUS
  <2>2. (\A i \in 1..Len(e) : Formed(e, i)) /\ Apart(e)
    BY <1>1, <2>1 DEF Formed, Apart, Connectives, NullTests, Comparisons
  <2> HIDE DEF e, S
  <2>3. Len(e) # 0
    BY <2>1
  <2>4. IsExpression(e)
    BY <2>1, <2>2, <2>3, ExpressionIf
  <2> QED BY <2>4 DEF e
<1>2. \A name : LET node == Column(name) IN
         node.left = 0 /\ node.right = 0 /\ node.op = "column"
  BY DEF Column, Node
<1>3. \A scalar : LET node == Literal(scalar) IN
         node.left = 0 /\ node.right = 0 /\ node.op = "literal"
  BY DEF Literal, Node
<1> QED BY <1>1, <1>2, <1>3

\* An expression of the nodes of e, then others.
LEMMA Prefixed ==
    ASSUME NEW e, IsExpression(e), NEW g, NEW i \in 1..Len(e), g[i] = e[i]
    PROVE  Formed(g, i) /\ OperandsOf(g, i) = OperandsOf(e, i)
<1>1. Formed(e, i)
  BY ExpressionFacts DEF Formed
<1> QED BY <1>1 DEF Formed, OperandsOf, Left, Right

LEMMA UnderExpression ==
    ASSUME NEW e, IsExpression(e), NEW op \in {"not", "is_null", "is_not_null", "is_in"}
    PROVE  IsExpression(Under(op, e))
<1> DEFINE node == Node(op, 1, 0)
           S == Range(e) \cup {node}
           n == Len(e)
           g == Append(e, node)
<1>1. e \in Seq(S) /\ n \in Nat \ {0}
  <2>1. e \in Seq(Range(e)) /\ Len(e) \in Nat \ {0}
    BY ExpressionFacts DEF IsExpression
  <2> HIDE DEF node
  <2> QED BY <2>1
<1>2. /\ g \in Seq(S) /\ Len(g) = n + 1 /\ g[n + 1] = node /\ \A i \in 1..n : g[i] = e[i]
  <2> HIDE DEF node
  <2> QED BY <1>1
<1>3. node.left = 1 /\ node.right = 0 /\ node.op = op
  BY DEF Node
<1> HIDE DEF g, node, S, n
<1>4. \A i \in 1..n : /\ Formed(g, i) /\ OperandsOf(g, i) = OperandsOf(e, i)
                      /\ OperandsOf(e, i) \subseteq 1..(i - 1)
  BY <1>2, Prefixed, Operands DEF n
<1>5. Formed(g, n + 1)
  BY <1>1, <1>2, <1>3 DEF Formed, Connectives, Comparisons
<1>6. OperandsOf(g, n + 1) = {n}
  BY <1>1, <1>2, <1>3 DEF OperandsOf, Left, Right
<1>7. Apart(g)
  <2>1. \A i, j \in 1..n : i # j => OperandsOf(g, i) \cap OperandsOf(g, j) = {}
    BY <1>4, ExpressionFacts DEF n
  <2>2. \A i \in 1..n : n \notin OperandsOf(g, i)
    BY <1>1, <1>4
  <2>3. 1..(n + 1) = 1..n \cup {n + 1}
    BY <1>1
  <2> QED BY <1>2, <1>6, <2>1, <2>2, <2>3 DEF Apart
<1>8. \A i \in 1..Len(g) : Formed(g, i)
  BY <1>1, <1>2, <1>4, <1>5
<1>9. IsExpression(g)
  BY <1>1, <1>2, <1>7, <1>8, ExpressionIf
<1> QED BY <1>9 DEF g, node, Under

LEMMA JoinExpression ==
    ASSUME NEW e, IsExpression(e), NEW f, IsExpression(f),
           NEW op \in Comparisons \cup {"and", "or"}
    PROVE  IsExpression(Join(op, e, f))
<1> DEFINE m == Len(e)
           n == Len(f)
           node == Node(op, n + 1, 1)
           S == Range(e) \cup Range(f) \cup {node}
           g == e \o f \o <<node>>
<1>1. e \in Seq(S) /\ f \in Seq(S) /\ m \in Nat \ {0} /\ n \in Nat \ {0}
  <2>1. /\ e \in Seq(Range(e)) /\ m \in Nat \ {0} /\ f \in Seq(Range(f)) /\ n \in Nat \ {0}
    BY ExpressionFacts DEF IsExpression
  <2> HIDE DEF node
  <2> QED BY <2>1
<1>2. /\ g \in Seq(S) /\ Len(g) = m + n + 1 /\ g[m + n + 1] = node
      /\ \A i \in 1..m : g[i] = e[i]
      /\ \A i \in 1..n : g[m + i] = f[i]
  <2>1. node \in S
    OBVIOUS
  <2> DEFINE h == e \o f
  <2> HIDE DEF node, S
  <2>2. h \in Seq(S) /\ Len(h) = m + n
        /\ (\A i \in 1..m : h[i] = e[i]) /\ \A i \in 1..n : h[m + i] = f[i]
    BY <1>1
  <2>3. g \in Seq(S) /\ Len(g) = m + n + 1
        /\ g[m + n + 1] = node /\ \A i \in 1..(m + n) : g[i] = h[i]
    <3> HIDE DEF h
    <3>1. h \o <<node>> \in Seq(S) /\ Len(h \o <<node>>) = Len(h) + 1
          /\ (h \o <<node>>)[Len(h) + 1] = node
          /\ \A i \in 1..Len(h) : (h \o <<node>>)[i] = h[i]
      BY <2>1, <2>2
    <3> QED BY <1>1, <2>2, <3>1 DEF h
  <2> HIDE DEF g, h
  <2> QED BY <1>1, <2>2, <2>3
<1>3. node.left = n + 1 /\ node.right = 1 /\ node.op = op
  BY DEF Node
<1> HIDE DEF g, node, S
<1>4. \A i \in 1..m : /\ Formed(g, i) /\ OperandsOf(g, i) = OperandsOf(e, i)
                      /\ OperandsOf(g, i) \subseteq 1..(m - 1)
  <2> TAKE i \in 1..m
  <2>1. OperandsOf(e, i) \subseteq 1..(i - 1)
    BY Operands
  <2> QED BY <1>1, <1>2, <2>1, Prefixed
<1>5. \A i \in 1..n : /\ Formed(g, m + i)
                      /\ OperandsOf(g, m + i) = {m + k : k \in OperandsOf(f, i)}
                      /\ OperandsOf(f, i) \subseteq 1..(n - 1)
  <2> TAKE i \in 1..n
  <2>1. Formed(f, i)
    BY ExpressionFacts DEF Formed
  <2>2. OperandsOf(f, i) \subseteq 1..(i - 1)
    BY Operands
  <2>3. g[m + i] = f[i]
    BY <1>2
  <2>4. Formed(g, m + i)
    BY <1>1, <2>1, <2>3 DEF Formed
  <2>5. Left(g, m + i) = m + Left(f, i) /\ Right(g, m + i) = m + Right(f, i)
        /\ Left(f, i) \in Int /\ Right(f, i) \in Int
    <3>1. f[i].left \in Int /\ f[i].right \in Int
      BY <2>1 DEF Formed
    <3>2. m \in Int /\ i \in Int
      BY <1>1
    <3> QED BY <2>3, <3>1, <3>2 DEF Left, Right
  <2>6. OperandsOf(g, m + i) = {m + k : k \in OperandsOf(f, i)}
    BY <1>1, <2>5 DEF OperandsOf
  <2> QED BY <1>1, <2>2, <2>4, <2>6
<1>6. /\ Formed(g, m + n + 1) /\ OperandsOf(g, m + n + 1) = {m, m + n}
  BY <1>1, <1>2, <1>3 DEF Formed, OperandsOf, Left, Right
<1>7. \A i \in 1..Len(g) : i \in 1..m \/ (\E k \in 1..n : i = m + k) \/ i = m + n + 1
  <2> TAKE i \in 1..Len(g)
  <2>1. CASE i \in (m + 1)..(m + n)
    <3>1. i - m \in 1..n /\ i = m + (i - m)
      BY <1>1, <2>1
    <3> QED BY <3>1
  <2>2. i \in 1..(m + n + 1) /\ m \in Nat /\ n \in Nat
    BY <1>1, <1>2
  <2>3. i \in 1..m \/ i \in (m + 1)..(m + n) \/ i = m + n + 1
    BY <2>2
  <2> QED BY <2>1, <2>3
<1>8. \A i \in 1..Len(g) : Formed(g, i)
  BY <1>4, <1>5, <1>6, <1>7
<1>9. Apart(g)
  <2>1. \A i, j \in 1..m : i # j => OperandsOf(g, i) \cap OperandsOf(g, j) = {}
    BY <1>4, ExpressionFacts
  <2>2. \A i, j \in 1..n : i # j => OperandsOf(g, m + i) \cap OperandsOf(g, m + j) = {}
    <3> TAKE i, j \in 1..n
    <3> HAVE i # j
    <3>1. OperandsOf(f, i) \cap OperandsOf(f, j) = {}
      BY ExpressionFacts
    <3>2. \A k \in OperandsOf(f, i), l \in OperandsOf(f, j) : k \in Int /\ l \in Int /\ k # l
      BY <1>1, <1>5, <3>1
    <3>3. \A k \in OperandsOf(f, i), l \in OperandsOf(f, j) : m + k # m + l
      BY <1>1, <3>2
    <3> QED BY <1>5, <3>3
  <2>3. \A i \in 1..n : OperandsOf(g, m + i) \subseteq (m + 1)..(m + n - 1)
    BY <1>1, <1>5
  <2>4. \A i \in 1..Len(g), j \in 1..Len(g) :
          i # j => OperandsOf(g, i) \cap OperandsOf(g, j) = {}
    <3> TAKE i \in 1..Len(g), j \in 1..Len(g)
    <3> HAVE i # j
    <3>1. CASE i \in 1..m /\ j \in 1..m
      BY <2>1, <3>1
    <3>2. ASSUME i \in 1..m, NEW k \in 1..n, j = m + k
          PROVE  OperandsOf(g, i) \cap OperandsOf(g, j) = {}
      BY <1>1, <1>4, <2>3, <3>2
    <3>3. ASSUME j \in 1..m, NEW k \in 1..n, i = m + k
          PROVE  OperandsOf(g, i) \cap OperandsOf(g, j) = {}
      BY <1>1, <1>4, <2>3, <3>3
    <3>4. ASSUME NEW k \in 1..n, i = m + k, NEW l \in 1..n, j = m + l
          PROVE  OperandsOf(g, i) \cap OperandsOf(g, j) = {}
      BY <1>1, <2>2, <3>4
    <3>5. CASE i = m + n + 1
      <4>1. j \in 1..m \/ \E k \in 1..n : j = m + k
        BY <1>7, <3>5
      <4> QED BY <1>1, <1>4, <1>6, <2>3, <3>5, <4>1
    <3>6. CASE j = m + n + 1
      <4>1. i \in 1..m \/ \E k \in 1..n : i = m + k
        BY <1>7, <3>6
      <4> QED BY <1>1, <1>4, <1>6, <2>3, <3>6, <4>1
    <3> QED BY <1>7, <3>1, <3>2, <3>3, <3>4, <3>5, <3>6
  <2> QED BY <2>4 DEF Apart
<1>10. IsExpression(g)
  BY <1>1, <1>2, <1>8, <1>9, ExpressionIf
<1> QED BY <1>10 DEF g, node, Join

LEMMA InitTree == CompileInit => TreeInv
<1> SUFFICES ASSUME CompileInit PROVE TreeInv
  OBVIOUS
<1>1. IsExpression(expression)
  <2>1. ASSUME NEW c, NEW s, NEW op \in Comparisons
        PROVE  /\ IsExpression(Join(op, <<Column(c)>>, <<Literal(s)>>))
               /\ IsExpression(Join(op, <<Literal(s)>>, <<Column(c)>>))
    BY Leaves, JoinExpression
  <2>2. ASSUME NEW c, NEW op \in NullTests \cup {"is_in"}
        PROVE  IsExpression(<<Column(c)>>) /\ IsExpression(Under(op, <<Column(c)>>))
    BY Leaves, UnderExpression DEF NullTests
  <2>3. \A c, d : IsExpression(Join("eq", <<Column(c)>>, <<Column(d)>>))
    BY Leaves, JoinExpression DEF Comparisons
  <2> QED BY <2>1, <2>2, <2>3 DEF CompileInit
<1> QED BY <1>1 DEF CompileInit, TreeInv

LEMMA NextTree == TreeInv /\ [CompileNext]_treeVars => TreeInv'
<1> SUFFICES ASSUME TreeInv, [CompileNext]_treeVars PROVE TreeInv'
  OBVIOUS
<1> USE DEF TreeInv
<1>1. \A p \in Partners : IsExpression(p)
  BY PredicateAssumption
<1>2. CASE Grow
  <2>1. IsExpression(expression')
    BY <1>1, <1>2, JoinExpression, UnderExpression DEF Grow
  <2> QED BY <1>2, <2>1 DEF Grow
<1>3. CASE ApplyPredicate
  <2> DEFINE combined == IF accepted = Null THEN expression ELSE Join("and", accepted, expression)
  <2>1. IsExpression(combined)
    BY JoinExpression
  <2>2. /\ Compiles(combined) /\ expression' \in Partners /\ accepted' = combined
        /\ compiled' = CompilePredicate(combined) /\ native' = native
    BY <1>3 DEF ApplyPredicate
  <2> HIDE DEF combined
  <2> QED BY <1>1, <2>1, <2>2
<1>4. CASE UNCHANGED treeVars
  BY <1>4 DEF treeVars
<1> QED BY <1>2, <1>3, <1>4 DEF CompileNext

THEOREM TreeInvariance == CompileSpec => []TreeInv
<1>1. TreeInv /\ [CompileNext]_treeVars => TreeInv'
  BY NextTree
<1> QED BY <1>1, InitTree, PTL DEF CompileSpec

\* For any columns, rows and literals, an expression of any shape that Ray gives
\* up keeps the same rows in ClickHouse (compile_predicate).
THEOREM Same_rows == CompileSpec => []SameRows
<1>1. TreeInv => SameRows
  <2> SUFFICES ASSUME TreeInv, compiled # Null, NEW row \in Rows
               PROVE  /\ Arrow(accepted, row) # Error
                      /\ ClickHouse(compiled.sql, compiled.parameters, row) = Arrow(accepted, row)
    BY DEF SameRows
  <2>1. /\ IsExpression(accepted) /\ Compiles(accepted)
        /\ compiled.sql = Render(accepted) /\ compiled.parameters = Parameters(accepted)
    BY DEF TreeInv, CompilePredicate
  <2>2. Error \notin BOOLEAN \cup {Null}
    BY PredicateAssumption
  <2> QED BY <2>1, <2>2, SameTree
<1> QED BY <1>1, TreeInvariance, PTL
=============================================================================
