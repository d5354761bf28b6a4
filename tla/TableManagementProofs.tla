------------------------ MODULE TableManagementProofs ------------------------
(***************************************************************************)
(* Concurrent calls that create or replace one table, for any number of    *)
(* writers and any arguments: what a call reports is true of the server,   *)
(* whatever the other writers and the network do in between.               *)
(***************************************************************************)
EXTENDS TableManagement, Naturals, TLAPS

WriterStates ==
    [pc : Labels, dropStarted : BOOLEAN, reply : {"none", "ok"} \cup Kinds,
     confirmed : BOOLEAN, engineOf : Incarnations \cup {NoTable},
     columnsOf : Incarnations \cup {NoTable}, failure : {"none"} \cup Errors]

\* What PlansNewTable says of one writer.
NewTable(w) == job[w].mode # "append" => Old \notin {writer[w].engineOf, writer[w].columnsOf}

\* The part of IInv that is about one writer.
Own(w) == DropMarked(w) /\ CreateOnce(w) /\ NewTable(w)

LEMMA ErrorsNamed ==
    /\ \A kind \in Kinds : \A operation : DiscoveryTranslate(kind, operation) \in TranslatedErrors
    /\ \A w \in Writers, kind \in Kinds : TableError(w, kind) \in Errors
    /\ "none" \notin Errors /\ LostKinds \subseteq Kinds
    /\ "none" \notin Kinds /\ "ok" \notin Kinds
<1>1. \A kind \in Kinds : \A operation : DiscoveryTranslate(kind, operation) \in TranslatedErrors
  BY DEF Kinds, DiscoveryTranslate, TranslatedErrors
<1>2. \A w \in Writers, kind \in Kinds : TableError(w, kind) \in Errors
  BY <1>1 DEF TableError, Errors
<1> QED BY <1>1, <1>2 DEF Errors, TranslatedErrors, LostKinds, Kinds

LEMMA InitIInv == Init => IInv
<1> SUFFICES ASSUME Init PROVE IInv
  OBVIOUS
<1>1. \A w \in Writers : writer[w] = NewWriter /\ dropped[w] = NoTable
  BY DEF Init
<1>2. TypeOK
  BY JobsAssumption DEF Init, TypeOK, NewWriter, Labels, Incarnations
<1>3. OldStaysGone
  BY NamesAssumption DEF Init, OldStaysGone
<1>4. NoSelfDestruct /\ PlansNewTable
  BY <1>1, NamesAssumption DEF NoSelfDestruct, PlansNewTable, NewWriter
<1>5. \A w \in Writers : DropMarked(w) /\ CreateOnce(w)
  BY <1>1 DEF Init, DropMarked, CreateOnce, MayHaveDropped, Sent, NewWriter
<1> QED BY <1>2, <1>3, <1>4, <1>5 DEF IInv

\* A step of writer w that leaves the server and the network alone.
LEMMA OwnStep ==
    ASSUME IInv, NEW w \in Writers, UNCHANGED <<job, serverVars>>,
           NEW u \in WriterStates, writer' = [writer EXCEPT ![w] = u], Own(w)'
    PROVE  IInv'
<1>1. /\ job' = job /\ catalog' = catalog /\ net' = net /\ made' = made /\ dropped' = dropped
      /\ \A x \in Writers : x # w => writer'[x] = writer[x]
  BY DEF serverVars, IInv, TypeOK
<1>2. TypeOK'
  BY <1>1 DEF IInv, TypeOK, WriterStates
<1>3. OldStaysGone' /\ NoSelfDestruct'
  BY <1>1 DEF IInv, OldStaysGone, NoSelfDestruct
<1>4. ASSUME NEW x \in Writers, x # w PROVE Own(x)'
  BY <1>1, <1>4
  DEF IInv, Own, DropMarked, CreateOnce, NewTable, PlansNewTable, MayHaveDropped, Sent
<1>5. PlansNewTable'
  BY <1>4 DEF Own, NewTable, PlansNewTable
<1> QED BY <1>2, <1>3, <1>4, <1>5 DEF IInv, Own

\* The same for a step that changes no more than the label and the failure.
LEMMA LabelStep ==
    ASSUME IInv, NEW w \in Writers, UNCHANGED <<job, serverVars>>,
           NEW label \in Labels \ {"start", "dropping", "creating"},
           NEW failure \in {"none"} \cup Errors,
           writer' = [writer EXCEPT ![w] = [@ EXCEPT !.pc = label, !.failure = failure]],
           label \in {"check", "drop"} => ~writer[w].dropStarted,
           label \in {"check", "drop", "create"} => w \notin made /\ ~Sent(w, "create"),
           label \in {"check", "drop", "create", "close"} => job[w].mode # "append",
           label \in {"close", "failed"} /\ ~writer[w].confirmed =>
             /\ label = "close" => failure # "none"
             /\ writer[w].dropStarted => Admits(failure),
           Sent(w, "drop") => label \in {"close", "failed", "dead"},
           label \in {"engine", "columns", "plan", "ready"} =>
             job[w].mode = "append" \/ writer[w].confirmed
    PROVE  IInv'
<1> DEFINE u == [writer[w] EXCEPT !.pc = label, !.failure = failure]
<1>1. u \in WriterStates /\ writer[w] \in WriterStates
  BY DEF IInv, TypeOK, WriterStates
<1>2. /\ u.pc = label /\ u.failure = failure /\ u.dropStarted = writer[w].dropStarted
      /\ u.reply = writer[w].reply /\ u.confirmed = writer[w].confirmed
      /\ u.engineOf = writer[w].engineOf /\ u.columnsOf = writer[w].columnsOf
  BY <1>1 DEF WriterStates
<1>3. /\ writer' = [writer EXCEPT ![w] = u] /\ writer'[w] = u
      /\ job' = job /\ catalog' = catalog /\ net' = net /\ made' = made /\ dropped' = dropped
  BY DEF IInv, TypeOK, serverVars
<1> HIDE DEF u
<1>4. DropMarked(w)'
  BY <1>2, <1>3 DEF IInv, DropMarked, MayHaveDropped
<1>5. CreateOnce(w)'
  BY <1>2, <1>3 DEF IInv, CreateOnce, Sent
<1>6. NewTable(w)'
  BY <1>2, <1>3 DEF IInv, PlansNewTable, NewTable
<1> QED BY <1>1, <1>3, <1>4, <1>5, <1>6, OwnStep DEF Own
-----------------------------------------------------------------------------
(* The writer's steps *)

\* What the invariant says of a writer, by the label it is at.
LEMMA At ==
    ASSUME IInv, NEW w \in Writers
    PROVE  /\ writer[w] \in WriterStates /\ job[w] \in Jobs
           /\ Own(w)
           /\ writer[w].confirmed => w \in made
           /\ writer[w].pc \in {"check", "drop", "dropping", "create", "creating", "close"} =>
                job[w].mode # "append"
           /\ writer[w].pc \in {"start", "check", "drop", "dropping", "create"} =>
                w \notin made /\ ~Sent(w, "create")
           /\ writer[w].pc \notin {"dropping", "close", "failed", "dead"} => ~Sent(w, "drop")
           /\ writer[w].pc = "dropping" /\ writer[w].reply # "none" => ~Sent(w, "drop")
BY DEF IInv, TypeOK, WriterStates, Own, DropMarked, CreateOnce, NewTable, PlansNewTable

\* A change of the label alone.
LEMMA GotoIsLabel ==
    ASSUME IInv, NEW w \in Writers, NEW label, Goto(w, label)
    PROVE  writer' = [writer EXCEPT ![w] =
                        [@ EXCEPT !.pc = label, !.failure = writer[w].failure]]
<1>1. writer[w] \in WriterStates /\ writer \in [Writers -> WriterStates]
  BY DEF IInv, TypeOK, WriterStates
<1>2. [writer[w] EXCEPT !.pc = label] =
        [writer[w] EXCEPT !.pc = label, !.failure = writer[w].failure]
  BY <1>1 DEF WriterStates
<1> QED BY <1>1, <1>2 DEF Goto

LEMMA GotoStep ==
    ASSUME IInv, NEW w \in Writers, UNCHANGED <<job, serverVars>>,
           NEW label \in Labels \ {"start", "dropping", "creating"}, Goto(w, label),
           label \in {"check", "drop"} => ~writer[w].dropStarted,
           label \in {"check", "drop", "create"} => w \notin made /\ ~Sent(w, "create"),
           label \in {"check", "drop", "create", "close"} => job[w].mode # "append",
           label \in {"close", "failed"} => writer[w].pc = "close",
           Sent(w, "drop") => label \in {"close", "failed", "dead"},
           label \in {"engine", "columns", "plan", "ready"} =>
             job[w].mode = "append" \/ writer[w].confirmed
    PROVE  IInv'
<1>1. writer[w].failure \in {"none"} \cup Errors
  BY At DEF WriterStates
<1>2. writer[w].pc = "close" /\ ~writer[w].confirmed =>
        /\ writer[w].failure # "none"
        /\ writer[w].dropStarted => Admits(writer[w].failure)
  BY At DEF Own, DropMarked
<1> QED BY <1>1, <1>2, GotoIsLabel, LabelStep, ZenonT(60)

LEMMA FailStep ==
    ASSUME IInv, NEW w \in Writers, UNCHANGED <<job, serverVars>>,
           NEW label \in {"close", "failed"}, NEW error \in Errors, Fail(w, label, error),
           label = "close" => job[w].mode # "append",
           ~writer[w].confirmed /\ writer[w].dropStarted => Admits(error)
    PROVE  IInv'
<1>1. label \in Labels \ {"start", "dropping", "creating"}
  BY DEF Labels
<1> QED BY <1>1, LabelStep, ErrorsNamed DEF Fail

LEMMA StartIInv == \A w \in Writers : IInv /\ Start(w) => IInv'
<1> SUFFICES ASSUME NEW w \in Writers, IInv, Start(w) PROVE IInv'
  OBVIOUS
<1>0. /\ writer[w].pc = "start" /\ UNCHANGED <<job, serverVars>>
      /\ ~writer[w].dropStarted /\ w \notin made /\ ~Sent(w, "create") /\ ~Sent(w, "drop")
  BY At DEF Start, Own, DropMarked
<1>1. CASE job[w].mode = "append"
  BY <1>0, <1>1, GotoStep DEF Start, Labels
<1>2. CASE job[w].mode # "append" /\ job[w].schema \in Creatable
  BY <1>0, <1>2, GotoStep DEF Start, Labels
<1>3. CASE job[w].mode # "append" /\ job[w].schema \notin Creatable
  <2>1. Fail(w, "failed", "SchemaError")
    BY <1>3 DEF Start
  <2> QED BY <1>0, <2>1, FailStep DEF Errors
<1> QED BY <1>1, <1>2, <1>3

\* The handlers name the ambiguity exactly when the drop was started.
LEMMA TableErrorAdmits ==
    ASSUME NEW w \in Writers, NEW kind, writer[w].dropStarted
    PROVE  Admits(TableError(w, kind))
BY DEF TableError, Admits

LEMMA CheckFailsIInv == \A w \in Writers, kind \in Kinds : IInv /\ CheckFails(w, kind) => IInv'
<1> SUFFICES ASSUME NEW w \in Writers, NEW kind \in Kinds, IInv, CheckFails(w, kind)
             PROVE  IInv'
  OBVIOUS
<1>1. writer[w].pc = "check" /\ Fail(w, "close", TableError(w, kind))
      /\ UNCHANGED <<job, serverVars>> /\ job[w].mode # "append"
  BY At DEF CheckFails
<1> QED BY <1>1, ErrorsNamed, TableErrorAdmits, FailStep

LEMMA CheckIInv == \A w \in Writers : IInv /\ Check(w) => IInv'
<1> SUFFICES ASSUME NEW w \in Writers, IInv, Check(w) PROVE IInv'
  OBVIOUS
<1>0. /\ writer[w].pc = "check" /\ UNCHANGED <<job, serverVars>>
      /\ ~writer[w].dropStarted /\ job[w].mode # "append"
      /\ w \notin made /\ ~Sent(w, "create") /\ ~Sent(w, "drop")
  BY At DEF Check, Own, DropMarked
<1>1. CASE Fail(w, "close", "ConfigurationError")
  BY <1>0, <1>1, FailStep DEF Errors
<1>2. CASE Goto(w, "drop")
  BY <1>0, <1>2, GotoStep DEF Labels
<1>3. CASE Goto(w, "create")
  BY <1>0, <1>3, GotoStep DEF Labels
<1> QED
  <2>1. \/ catalog # NoTable /\ ~Overwrites(w)
        \/ catalog # NoTable /\ Overwrites(w)
        \/ catalog = NoTable
    OBVIOUS
  <2> QED BY <1>1, <1>2, <1>3, <2>1 DEF Check

LEMMA DropConfirmedIInv == \A w \in Writers : IInv /\ DropConfirmed(w) => IInv'
<1> SUFFICES ASSUME NEW w \in Writers, IInv, DropConfirmed(w) PROVE IInv'
  OBVIOUS
<1>1. /\ writer[w].pc = "dropping" /\ UNCHANGED <<job, serverVars>> /\ Goto(w, "create")
      /\ job[w].mode # "append" /\ w \notin made /\ ~Sent(w, "create") /\ ~Sent(w, "drop")
  BY At DEF DropConfirmed
<1> QED BY <1>1, GotoStep DEF Labels

LEMMA EndsWaitIInv ==
    \A w \in Writers :
        IInv /\ (CommandRejected(w) \/ (\E kind \in Kinds : GiveUp(w, kind)) \/ Interrupted(w))
          => IInv'
<1> SUFFICES ASSUME NEW w \in Writers, IInv,
                    CommandRejected(w) \/ (\E kind \in Kinds : GiveUp(w, kind)) \/ Interrupted(w)
             PROVE  IInv'
  OBVIOUS
<1>1. PICK error \in Errors :
         Fail(w, "close", error) /\ (writer[w].dropStarted => Admits(error))
  <2>1. \A k \in Kinds : TableError(w, k) \in Errors
                           /\ (writer[w].dropStarted => Admits(TableError(w, k)))
    BY ErrorsNamed, TableErrorAdmits
  <2>2. "Interrupt" \in Errors /\ Admits("Interrupt")
    BY DEF Errors, Admits
  <2> QED BY <2>1, <2>2 DEF CommandRejected, GiveUp, Interrupted
<1>2. /\ UNCHANGED <<job, serverVars>> /\ writer[w].pc \in {"dropping", "creating"}
      /\ job[w].mode # "append"
  BY At DEF CommandRejected, GiveUp, Interrupted, Waiting
<1> QED BY <1>1, <1>2, FailStep

LEMMA CloseIInv == \A w \in Writers : IInv /\ Close(w) => IInv'
<1> SUFFICES ASSUME NEW w \in Writers, IInv, Close(w) PROVE IInv'
  OBVIOUS
<1>0. writer[w].pc = "close" /\ UNCHANGED <<job, serverVars>>
  BY DEF Close
<1>1. CASE writer[w].failure = "none"
  <2>1. writer[w].confirmed /\ w \in made
    BY <1>0, <1>1, At DEF Own, DropMarked
  <2>2. ~Sent(w, "drop")
    BY <2>1, At DEF Own, CreateOnce
  <2> QED BY <1>0, <1>1, <2>1, <2>2, GotoStep DEF Close, Labels
<1>2. CASE writer[w].failure # "none"
  BY <1>0, <1>2, GotoStep DEF Close, Labels
<1> QED BY <1>1, <1>2

LEMMA CrashIInv == \A w \in Writers : IInv /\ Crash(w) => IInv'
BY GotoStep DEF Crash, Labels

\* The marker is set by the step that sends the DROP.
LEMMA SendDropIInv == \A w \in Writers : IInv /\ SendDrop(w) => IInv'
<1> SUFFICES ASSUME NEW w \in Writers, IInv, SendDrop(w) PROVE IInv'
  OBVIOUS
<1> DEFINE r == [writer |-> w, op |-> "drop"]
           u == [writer[w] EXCEPT !.pc = "dropping", !.dropStarted = TRUE, !.reply = "none"]
<1>1. /\ writer[w].pc = "drop" /\ writer[w] \in WriterStates
      /\ job[w].mode # "append" /\ w \notin made /\ ~Sent(w, "create")
      /\ job' = job /\ catalog' = catalog /\ made' = made /\ dropped' = dropped
      /\ net' = net \cup {r} /\ writer' = [writer EXCEPT ![w] = u]
  BY At DEF SendDrop
<1>2. /\ u \in WriterStates /\ u.pc = "dropping" /\ u.dropStarted /\ u.reply = "none"
      /\ u.confirmed = writer[w].confirmed
      /\ u.engineOf = writer[w].engineOf /\ u.columnsOf = writer[w].columnsOf
  BY <1>1 DEF WriterStates, Labels
<1> HIDE DEF u
<1>3. writer'[w] = u /\ \A x \in Writers : x # w => writer'[x] = writer[x]
  BY <1>1 DEF IInv, TypeOK
<1>4. /\ ~Sent(w, "create")'
      /\ \A x \in Writers, op \in {"drop", "create"} : x # w => (Sent(x, op)' <=> Sent(x, op))
  BY <1>1 DEF Sent
<1>5. TypeOK'
  BY <1>1, <1>2 DEF IInv, TypeOK, WriterStates
<1>6. OldStaysGone' /\ NoSelfDestruct'
  BY <1>1 DEF IInv, OldStaysGone, NoSelfDestruct
<1>7. Own(w)'
  <2>1. DropMarked(w)'
    BY <1>1, <1>2, <1>3 DEF DropMarked
  <2>2. ~writer[w].confirmed
    BY <1>1, At
  <2>3. CreateOnce(w)'
    BY <1>1, <1>2, <1>3, <1>4, <2>2 DEF CreateOnce
  <2>4. NewTable(w)'
    BY <1>1, <1>2, <1>3 DEF IInv, PlansNewTable, NewTable
  <2> QED BY <2>1, <2>3, <2>4 DEF Own
<1>8. ASSUME NEW x \in Writers, x # w PROVE Own(x)'
  BY <1>1, <1>3, <1>4, <1>8
  DEF IInv, Own, DropMarked, CreateOnce, NewTable, PlansNewTable, MayHaveDropped, Sent
<1> QED BY <1>5, <1>6, <1>7, <1>8 DEF IInv, Own, NewTable, PlansNewTable

LEMMA SendCreateIInv == \A w \in Writers : IInv /\ SendCreate(w) => IInv'
<1> SUFFICES ASSUME NEW w \in Writers, IInv, SendCreate(w) PROVE IInv'
  OBVIOUS
<1> DEFINE r == [writer |-> w, op |-> "create"]
           u == [writer[w] EXCEPT !.pc = "creating", !.reply = "none"]
<1>1. /\ writer[w].pc = "create" /\ writer[w] \in WriterStates
      /\ job[w].mode # "append" /\ w \notin made /\ ~Sent(w, "drop")
      /\ job' = job /\ catalog' = catalog /\ made' = made /\ dropped' = dropped
      /\ net' = net \cup {r} /\ writer' = [writer EXCEPT ![w] = u]
  BY At DEF SendCreate
<1>2. /\ u \in WriterStates /\ u.pc = "creating" /\ u.reply = "none"
      /\ u.confirmed = writer[w].confirmed /\ u.dropStarted = writer[w].dropStarted
      /\ u.engineOf = writer[w].engineOf /\ u.columnsOf = writer[w].columnsOf
  BY <1>1 DEF WriterStates, Labels
<1> HIDE DEF u
<1>3. writer'[w] = u /\ \A x \in Writers : x # w => writer'[x] = writer[x]
  BY <1>1 DEF IInv, TypeOK
<1>4. /\ \A x \in Writers : Sent(x, "drop")' <=> Sent(x, "drop")
      /\ \A x \in Writers : x # w => (Sent(x, "create")' <=> Sent(x, "create"))
  BY <1>1 DEF Sent
<1>5. TypeOK'
  BY <1>1, <1>2 DEF IInv, TypeOK, WriterStates
<1>6. OldStaysGone' /\ NoSelfDestruct'
  BY <1>1 DEF IInv, OldStaysGone, NoSelfDestruct
<1>7. Own(w)'
  <2>1. DropMarked(w)'
    <3>1. MayHaveDropped(w)' => MayHaveDropped(w)
      BY <1>1, <1>4 DEF MayHaveDropped, Sent
    <3> QED BY <1>1, <1>2, <1>3, <3>1 DEF IInv, DropMarked
  <2>2. ~writer[w].confirmed
    BY <1>1, At
  <2>3. CreateOnce(w)'
    BY <1>1, <1>2, <1>3, <1>4, <2>2 DEF CreateOnce
  <2>4. NewTable(w)'
    BY <1>1, <1>2, <1>3 DEF IInv, PlansNewTable, NewTable
  <2> QED BY <2>1, <2>3, <2>4 DEF Own
<1>8. ASSUME NEW x \in Writers, x # w PROVE Own(x)'
  BY <1>1, <1>3, <1>4, <1>8
  DEF IInv, Own, DropMarked, CreateOnce, NewTable, PlansNewTable, MayHaveDropped, Sent
<1> QED BY <1>5, <1>6, <1>7, <1>8 DEF IInv, Own, NewTable, PlansNewTable

LEMMA CreateConfirmedIInv == \A w \in Writers : IInv /\ CreateConfirmed(w) => IInv'
<1> SUFFICES ASSUME NEW w \in Writers, IInv, CreateConfirmed(w) PROVE IInv'
  OBVIOUS
<1> DEFINE u == [writer[w] EXCEPT !.pc = "close", !.confirmed = TRUE]
<1>1. /\ writer[w].pc = "creating" /\ writer[w] \in WriterStates
      /\ job[w].mode # "append" /\ w \in made /\ UNCHANGED <<job, serverVars>>
      /\ writer' = [writer EXCEPT ![w] = u]
  BY At DEF CreateConfirmed, Own, CreateOnce
<1>2. /\ u \in WriterStates /\ u.pc = "close" /\ u.confirmed
      /\ u.dropStarted = writer[w].dropStarted
      /\ u.engineOf = writer[w].engineOf /\ u.columnsOf = writer[w].columnsOf
  BY <1>1 DEF WriterStates, Labels
<1> HIDE DEF u
<1>3. /\ writer'[w] = u /\ job' = job /\ net' = net /\ made' = made /\ dropped' = dropped
  BY <1>1 DEF IInv, TypeOK, serverVars
<1>4. ~Sent(w, "drop")
  BY <1>1, At
<1>5. DropMarked(w)'
  BY <1>1, <1>2, <1>3 DEF IInv, DropMarked, MayHaveDropped
<1>6. CreateOnce(w)'
  BY <1>1, <1>2, <1>3, <1>4 DEF CreateOnce, Sent
<1>7. NewTable(w)'
  BY <1>2, <1>3 DEF IInv, PlansNewTable, NewTable
<1> QED BY <1>1, <1>2, <1>5, <1>6, <1>7, OwnStep DEF Own

\* A call that has made its table, or any call after it, finds a new one.
LEMMA DiscoverEngineIInv == \A w \in Writers : IInv /\ DiscoverEngine(w) => IInv'
<1> SUFFICES ASSUME NEW w \in Writers, IInv, DiscoverEngine(w) PROVE IInv'
  OBVIOUS
<1>0. /\ writer[w].pc = "engine" /\ UNCHANGED <<job, serverVars>>
      /\ writer[w] \in WriterStates /\ ~Sent(w, "drop")
      /\ job[w].mode = "append" \/ writer[w].confirmed
      /\ ~writer[w].confirmed => ~writer[w].dropStarted
      /\ job[w].mode # "append" => catalog # Old
  BY At DEF DiscoverEngine, IInv, Own, DropMarked, CreateOnce, OldStaysGone
<1>1. CASE catalog = NoTable
  <2>1. Fail(w, "failed", "ObjectNotFoundError")
    BY <1>1 DEF DiscoverEngine
  <2> QED BY <1>0, <2>1, FailStep DEF Errors, TranslatedErrors
<1>2. CASE catalog # NoTable /\ ~Governed(catalog)
  <2>1. Fail(w, "failed", "SchemaError")
    BY <1>2 DEF DiscoverEngine
  <2> QED BY <1>0, <2>1, FailStep DEF Errors
<1>3. CASE catalog # NoTable /\ Governed(catalog)
  <2> DEFINE u == [writer[w] EXCEPT !.pc = "columns", !.engineOf = catalog]
  <2>1. writer' = [writer EXCEPT ![w] = u]
    BY <1>3 DEF DiscoverEngine
  <2>2. /\ u \in WriterStates /\ u.pc = "columns" /\ u.engineOf = catalog
        /\ u.columnsOf = writer[w].columnsOf /\ u.confirmed = writer[w].confirmed
        /\ u.dropStarted = writer[w].dropStarted
    BY <1>0 DEF IInv, TypeOK, WriterStates, Labels
  <2> HIDE DEF u
  <2>3. /\ writer'[w] = u /\ job' = job /\ net' = net /\ made' = made /\ dropped' = dropped
    BY <1>0, <2>1 DEF IInv, TypeOK, serverVars
  <2>4. DropMarked(w)'
    BY <1>0, <2>2, <2>3 DEF IInv, DropMarked, MayHaveDropped
  <2>5. CreateOnce(w)'
    BY <1>0, <2>2, <2>3 DEF IInv, CreateOnce, Sent
  <2>6. NewTable(w)'
    BY <1>0, <2>2, <2>3 DEF IInv, PlansNewTable, NewTable
  <2> QED BY <1>0, <2>1, <2>2, <2>4, <2>5, <2>6, OwnStep DEF Own
<1> QED BY <1>1, <1>2, <1>3

LEMMA DiscoverColumnsIInv == \A w \in Writers : IInv /\ DiscoverColumns(w) => IInv'
<1> SUFFICES ASSUME NEW w \in Writers, IInv, DiscoverColumns(w) PROVE IInv'
  OBVIOUS
<1>0. /\ writer[w].pc = "columns" /\ UNCHANGED <<job, serverVars>>
      /\ writer[w] \in WriterStates /\ ~Sent(w, "drop")
      /\ job[w].mode = "append" \/ writer[w].confirmed
      /\ ~writer[w].confirmed => ~writer[w].dropStarted
      /\ job[w].mode # "append" => catalog # Old
  BY At DEF DiscoverColumns, IInv, Own, DropMarked, CreateOnce, OldStaysGone
<1>1. CASE catalog = NoTable
  <2>1. Fail(w, "failed", "SchemaError")
    BY <1>1 DEF DiscoverColumns
  <2> QED BY <1>0, <2>1, FailStep DEF Errors
<1>2. CASE catalog # NoTable
  <2> DEFINE u == [writer[w] EXCEPT !.pc = "plan", !.columnsOf = catalog]
  <2>1. writer' = [writer EXCEPT ![w] = u]
    BY <1>2 DEF DiscoverColumns
  <2>2. /\ u \in WriterStates /\ u.pc = "plan" /\ u.columnsOf = catalog
        /\ u.engineOf = writer[w].engineOf /\ u.confirmed = writer[w].confirmed
        /\ u.dropStarted = writer[w].dropStarted
    BY <1>0 DEF IInv, TypeOK, WriterStates, Labels
  <2> HIDE DEF u
  <2>3. /\ writer'[w] = u /\ job' = job /\ net' = net /\ made' = made /\ dropped' = dropped
    BY <1>0, <2>1 DEF IInv, TypeOK, serverVars
  <2>4. DropMarked(w)'
    BY <1>0, <2>2, <2>3 DEF IInv, DropMarked, MayHaveDropped
  <2>5. CreateOnce(w)'
    BY <1>0, <2>2, <2>3 DEF IInv, CreateOnce, Sent
  <2>6. NewTable(w)'
    BY <1>0, <2>2, <2>3 DEF IInv, PlansNewTable, NewTable
  <2> QED BY <1>0, <2>1, <2>2, <2>4, <2>5, <2>6, OwnStep DEF Own
<1> QED BY <1>1, <1>2

LEMMA DiscoveryFailsIInv ==
    \A w \in Writers, kind \in Kinds : IInv /\ DiscoveryFails(w, kind) => IInv'
<1> SUFFICES ASSUME NEW w \in Writers, NEW kind \in Kinds, IInv, DiscoveryFails(w, kind)
             PROVE  IInv'
  OBVIOUS
<1>1. /\ UNCHANGED <<job, serverVars>> /\ writer[w].pc \in {"engine", "columns"}
      /\ Fail(w, "failed", DiscoveryTranslate(kind, "target discovery"))
      /\ ~writer[w].confirmed => ~writer[w].dropStarted
  BY At DEF DiscoveryFails, Own, DropMarked, CreateOnce
<1>2. DiscoveryTranslate(kind, "target discovery") \in Errors
  BY ErrorsNamed DEF Errors
<1> QED BY <1>1, <1>2, FailStep

LEMMA PlanIInv == \A w \in Writers : IInv /\ Plan(w) => IInv'
<1> SUFFICES ASSUME NEW w \in Writers, IInv, Plan(w) PROVE IInv'
  OBVIOUS
<1>0. /\ writer[w].pc = "plan" /\ UNCHANGED <<job, serverVars>> /\ ~Sent(w, "drop")
      /\ job[w].mode = "append" \/ writer[w].confirmed
      /\ ~writer[w].confirmed => ~writer[w].dropStarted
  BY At DEF Plan, Own, DropMarked, CreateOnce
<1>1. CASE Goto(w, "ready")
  BY <1>0, <1>1, GotoStep DEF Labels
<1>2. CASE Fail(w, "failed", IF job[w].columns THEN "WriteError" ELSE "SchemaError")
  <2>1. (IF job[w].columns THEN "WriteError" ELSE "SchemaError") \in Errors
    BY DEF Errors, TranslatedErrors
  <2> QED BY <1>0, <1>2, <2>1, FailStep
<1> QED BY <1>1, <1>2 DEF Plan
-----------------------------------------------------------------------------
(* The server's steps *)

\* Nothing of writer x but its reply changes, and that only as an answer to r.
Answered(x, r) ==
    /\ writer'[x].pc = writer[x].pc /\ writer'[x].confirmed = writer[x].confirmed
    /\ writer'[x].dropStarted = writer[x].dropStarted
    /\ writer'[x].failure = writer[x].failure
    /\ writer'[x].engineOf = writer[x].engineOf
    /\ writer'[x].columnsOf = writer[x].columnsOf
    /\ writer'[x].reply # writer[x].reply => x = r.writer /\ writer[x].pc = WaitingFor(r)

LEMMA ReplyChanges ==
    ASSUME IInv, NEW r \in net, NEW answer \in {"ok"} \cup Kinds,
           Reply(r.writer, WaitingFor(r), answer)
    PROVE  /\ writer' \in [Writers -> WriterStates]
           /\ \A x \in Writers : Answered(x, r)
           /\ \A x \in Writers : writer'[x].reply \in {writer[x].reply, answer}
<1>1. r.writer \in Writers /\ writer \in [Writers -> WriterStates]
  BY DEF IInv, TypeOK, WriterStates
<1>2. CASE writer[r.writer].pc = WaitingFor(r)
  <2> DEFINE u == [writer[r.writer] EXCEPT !.reply = answer]
  <2>1. writer' = [writer EXCEPT ![r.writer] = u]
    BY <1>2 DEF Reply
  <2>2. /\ u \in WriterStates /\ u.reply = answer
        /\ u.pc = writer[r.writer].pc /\ u.confirmed = writer[r.writer].confirmed
        /\ u.dropStarted = writer[r.writer].dropStarted
        /\ u.failure = writer[r.writer].failure
        /\ u.engineOf = writer[r.writer].engineOf
        /\ u.columnsOf = writer[r.writer].columnsOf
    BY <1>1 DEF WriterStates
  <2> HIDE DEF u
  <2>3. /\ writer'[r.writer] = u
        /\ \A x \in Writers : x # r.writer => writer'[x] = writer[x]
    BY <1>1, <2>1
  <2> QED BY <1>1, <1>2, <2>1, <2>2, <2>3 DEF Answered
<1>3. CASE writer[r.writer].pc # WaitingFor(r)
  BY <1>1, <1>3 DEF Reply, Answered
<1> QED BY <1>2, <1>3

\* A request leaves the network.  Only a CREATE makes a table, which is then
\* its sender's, and only a DROP removes one.
LEMMA ServerKeeps ==
    ASSUME IInv, NEW r \in net, job' = job, net' = net \ {r},
           writer' \in [Writers -> WriterStates], \A x \in Writers : Answered(x, r),
           r.op = "create" /\ writer'[r.writer].reply = "ok" =>
             r.writer \in made' \/ writer'[r.writer].reply = writer[r.writer].reply,
           \/ made' = made /\ catalog' \in {catalog, NoTable}
           \/ r.op = "create" /\ made' = made \cup {r.writer} /\ catalog' = r.writer,
           \/ dropped' = dropped
           \/ r.op = "drop" /\ catalog # NoTable
                /\ dropped' = [dropped EXCEPT ![r.writer] = catalog]
    PROVE  IInv'
<1>1. /\ r.writer \in Writers /\ r.op \in {"drop", "create"}
      /\ r = [writer |-> r.writer, op |-> r.op]
      /\ made \subseteq made' /\ made' \subseteq Writers
  BY DEF IInv, TypeOK
<1>2. TypeOK'
  BY <1>1 DEF IInv, TypeOK, WriterStates, Incarnations
<1>3. OldStaysGone'
  BY <1>1, NamesAssumption DEF IInv, TypeOK, OldStaysGone, Incarnations
<1>4. /\ \A x \in Writers, op \in {"drop", "create"} : Sent(x, op)' => Sent(x, op)
      /\ Sent(r.writer, r.op)
  BY <1>1 DEF Sent
<1>5. NoSelfDestruct'
  <2>1. r.op = "drop" => catalog # r.writer
    BY <1>1, <1>4 DEF IInv, CreateOnce, OldStaysGone
  <2> QED BY <1>1, <2>1 DEF IInv, TypeOK, NoSelfDestruct
<1>6. PlansNewTable'
  BY DEF IInv, PlansNewTable, Answered
<1>7. ASSUME NEW x \in Writers PROVE DropMarked(x)'
  <2>1. MayHaveDropped(x)' => MayHaveDropped(x)
    BY <1>1, <1>4 DEF IInv, TypeOK, MayHaveDropped, Sent
  <2> QED BY <2>1 DEF IInv, DropMarked, Answered
<1>8. ASSUME NEW x \in Writers PROVE CreateOnce(x)'
  <2>1. DropMarked(x) /\ CreateOnce(x) /\ Answered(x, r)
    BY DEF IInv
  <2>2. writer'[x].confirmed \/ (writer'[x].pc = "creating" /\ writer'[x].reply = "ok") =>
          x \in made'
    BY <1>1, <2>1 DEF CreateOnce, Answered, WaitingFor
  <2>3. x \in made' => x \in made \/ (x = r.writer /\ r.op = "create" /\ Sent(x, "create"))
    BY <1>1, <1>4
  <2>4. writer[x].pc \in {"start", "check", "drop", "dropping", "create"} =>
          x \notin made' /\ ~Sent(x, "create")'
    BY <1>4, <2>1, <2>3 DEF CreateOnce
  <2>5. Sent(x, "drop")' =>
          /\ x \notin made' /\ ~Sent(x, "create")'
          /\ writer[x].pc \in {"dropping", "close", "failed", "dead"}
          /\ writer[x].pc = "dropping" => writer[x].reply = "none"
    BY <1>4, <2>1, <2>3 DEF CreateOnce
  <2>6. Sent(x, "drop")' /\ writer[x].pc = "dropping" => writer'[x].reply = writer[x].reply
    BY <1>1, <2>1 DEF Answered, WaitingFor, Sent
  <2> QED BY <2>1, <2>2, <2>4, <2>5, <2>6 DEF CreateOnce, Answered
<1> QED BY <1>2, <1>3, <1>5, <1>6, <1>7, <1>8 DEF IInv

LEMMA ServerDropIInv == \A r \in net : IInv /\ ServerDrop(r) => IInv'
<1> SUFFICES ASSUME NEW r \in net, IInv, ServerDrop(r) PROVE IInv'
  OBVIOUS
<1>1. PICK answer \in {"ok", "missing"} : Reply(r.writer, WaitingFor(r), answer)
  BY DEF ServerDrop, WaitingFor
<1>2. /\ writer' \in [Writers -> WriterStates] /\ \A x \in Writers : Answered(x, r)
  BY <1>1, ReplyChanges DEF Kinds
<1> QED BY <1>2, ServerKeeps DEF ServerDrop

LEMMA ServerCreateIInv == \A r \in net : IInv /\ ServerCreate(r) => IInv'
<1> SUFFICES ASSUME NEW r \in net, IInv, ServerCreate(r) PROVE IInv'
  OBVIOUS
<1>0. r.writer \in Writers
  BY DEF IInv, TypeOK
<1>1. CASE catalog # NoTable
  <2>1. Reply(r.writer, WaitingFor(r), "other") /\ UNCHANGED <<job, catalog, made, dropped>>
        /\ net' = net \ {r}
    BY <1>1 DEF ServerCreate, WaitingFor
  <2>2. /\ writer' \in [Writers -> WriterStates] /\ \A x \in Writers : Answered(x, r)
        /\ \A x \in Writers : writer'[x].reply \in {writer[x].reply, "other"}
    BY <2>1, ReplyChanges DEF Kinds
  <2> QED BY <1>0, <2>1, <2>2, ServerKeeps
<1>2. CASE catalog = NoTable
  <2>1. Reply(r.writer, WaitingFor(r), "ok") /\ job' = job /\ dropped' = dropped
        /\ net' = net \ {r} /\ catalog' = r.writer /\ made' = made \cup {r.writer}
        /\ r.op = "create"
    BY <1>2 DEF ServerCreate, WaitingFor
  <2>2. /\ writer' \in [Writers -> WriterStates] /\ \A x \in Writers : Answered(x, r)
    BY <2>1, ReplyChanges
  <2> QED BY <2>1, <2>2, ServerKeeps
<1> QED BY <1>1, <1>2

LEMMA ServerRejectIInv ==
    \A r \in net, kind \in Kinds : IInv /\ ServerReject(r, kind) => IInv'
<1> SUFFICES ASSUME NEW r \in net, NEW kind \in Kinds, IInv, ServerReject(r, kind)
             PROVE  IInv'
  OBVIOUS
<1>0. r.writer \in Writers
  BY DEF IInv, TypeOK
<1>1. Reply(r.writer, WaitingFor(r), kind) /\ UNCHANGED <<job, catalog, made, dropped>>
      /\ net' = net \ {r}
  BY DEF ServerReject
<1>2. /\ writer' \in [Writers -> WriterStates] /\ \A x \in Writers : Answered(x, r)
      /\ \A x \in Writers : writer'[x].reply \in {writer[x].reply, kind}
  BY <1>1, ReplyChanges
<1> QED BY <1>0, <1>1, <1>2, ErrorsNamed, ServerKeeps

LEMMA LoseIInv == \A r \in net : IInv /\ Lose(r) => IInv'
<1> SUFFICES ASSUME NEW r \in net, IInv, Lose(r) PROVE IInv'
  OBVIOUS
<1>1. /\ writer' \in [Writers -> WriterStates] /\ \A x \in Writers : Answered(x, r)
  BY DEF IInv, TypeOK, WriterStates, Lose, Answered
<1> QED BY <1>1, ServerKeeps DEF Lose
-----------------------------------------------------------------------------
THEOREM Invariance == Spec => []IInv
<1>1. IInv /\ [Next]_vars => IInv'
  <2> SUFFICES ASSUME IInv, [Next]_vars PROVE IInv'
    OBVIOUS
  <2>1. CASE \E w \in Writers : WriterStep(w)
    BY <2>1, ErrorsNamed, StartIInv, CheckIInv, SendDropIInv, DropConfirmedIInv,
       SendCreateIInv, CreateConfirmedIInv, EndsWaitIInv, CloseIInv, DiscoverEngineIInv,
       DiscoverColumnsIInv, PlanIInv DEF WriterStep
  <2>2. CASE \E w \in Writers : WriterFault(w)
    BY <2>2, CheckFailsIInv, DiscoveryFailsIInv, EndsWaitIInv, CrashIInv
    DEF WriterFault
  <2>3. CASE ServerStep
    BY <2>3, ServerDropIInv, ServerCreateIInv, LoseIInv, ServerRejectIInv DEF ServerStep
  <2>4. CASE UNCHANGED vars
    BY <2>4 DEF vars, serverVars, IInv, TypeOK, OldStaysGone, NoSelfDestruct, PlansNewTable,
                DropMarked, CreateOnce, MayHaveDropped, Sent
  <2> QED BY <2>1, <2>2, <2>3, <2>4 DEF Next, Quiet
<1> QED BY InitIInv, <1>1, PTL DEF Spec

\* Any error but the ambiguous one and an interrupt says that the call has
\* dropped nothing and that nothing of it can drop a table later.
THEOREM Drops_admitted == Spec => []DropsAdmitted
<1>1. IInv => DropsAdmitted
  BY DEF IInv, DropsAdmitted, DropMarked
<1> QED BY Invariance, <1>1, PTL

\* A confirmed CREATE has made the table of this call.
THEOREM Confirmed_made == Spec => []ConfirmedMeansMade
<1>1. IInv => ConfirmedMeansMade
  BY DEF IInv, ConfirmedMeansMade, CreateOnce
<1> QED BY Invariance, <1>1, PTL

\* A late DROP never removes the table of its own call.
THEOREM No_self_destruct == Spec => []NoSelfDestruct
<1>1. IInv => NoSelfDestruct
  BY DEF IInv
<1> QED BY Invariance, <1>1, PTL

\* A call that creates or replaces never goes on with the old table.
THEOREM Plans_new_table == Spec => []PlansNewTable
<1>1. IInv => PlansNewTable
  BY DEF IInv
<1> QED BY Invariance, <1>1, PTL
-----------------------------------------------------------------------------
(* How far the calls are from their ends.  Liveness is left to TLC, but that  *)
(* no behaviour goes on for ever can be said of its steps.                    *)

Stage ==
    [at \in Labels |->
       CASE at = "start" -> 10
         [] at = "check" -> 9
         [] at = "drop" -> 8
         [] at = "dropping" -> 7
         [] at = "create" -> 6
         [] at = "creating" -> 5
         [] at = "close" -> 4
         [] at = "engine" -> 3
         [] at = "columns" -> 2
         [] at = "plan" -> 1
         [] OTHER -> 0]

\* Writer w has gone on to a later label, alone; it may have sent requests of
\* its own.
Advances(w) ==
    /\ Stage[writer'[w].pc] < Stage[writer[w].pc]
    /\ \A x \in Writers \ {w} : writer'[x] = writer[x]
    /\ net \subseteq net' /\ \A r \in net' \ net : r.writer = w

\* A request has left the network, and its sender may have an answer.
Handled(r) == net' = net \ {r} /\ \A x \in Writers : Answered(x, r)

Progress == (\E w \in Writers : Advances(w)) \/ (\E r \in net : Handled(r))

LEMMA Stages ==
    /\ Stage["start"] = 10 /\ Stage["check"] = 9 /\ Stage["drop"] = 8 /\ Stage["dropping"] = 7
    /\ Stage["create"] = 6 /\ Stage["creating"] = 5 /\ Stage["close"] = 4 /\ Stage["engine"] = 3
    /\ Stage["columns"] = 2 /\ Stage["plan"] = 1 /\ Stage["ready"] = 0 /\ Stage["failed"] = 0
    /\ Stage["dead"] = 0
<1>1. Stage["start"] = 10
  BY DEF Stage, Labels
<1>2. Stage["check"] = 9
  BY DEF Stage, Labels
<1>3. Stage["drop"] = 8
  BY DEF Stage, Labels
<1>4. Stage["dropping"] = 7
  BY DEF Stage, Labels
<1>5. Stage["create"] = 6
  BY DEF Stage, Labels
<1>6. Stage["creating"] = 5
  BY DEF Stage, Labels
<1>7. Stage["close"] = 4
  BY DEF Stage, Labels
<1>8. Stage["engine"] = 3
  BY DEF Stage, Labels
<1>9. Stage["columns"] = 2
  BY DEF Stage, Labels
<1>10. Stage["plan"] = 1
  BY DEF Stage, Labels
<1>11. Stage["ready"] = 0
  BY DEF Stage, Labels
<1>12. Stage["failed"] = 0
  BY DEF Stage, Labels
<1>13. Stage["dead"] = 0
  BY DEF Stage, Labels
<1> QED BY <1>1, <1>2, <1>3, <1>4, <1>5, <1>6, <1>7, <1>8, <1>9, <1>10, <1>11, <1>12, <1>13

\* A writer goes on to a label, alone.
Reaches(w, label) ==
    writer'[w].pc = label /\ \A x \in Writers \ {w} : writer'[x] = writer[x]

\* The ways the actions set a label.
LEMMA LabelReached ==
    ASSUME IInv, NEW w \in Writers, NEW label,
           \/ Goto(w, label)
           \/ \E error : Fail(w, label, error)
           \/ \E i : writer' = [writer EXCEPT ![w] = [@ EXCEPT !.pc = label, !.engineOf = i]]
           \/ \E i : writer' = [writer EXCEPT ![w] = [@ EXCEPT !.pc = label, !.columnsOf = i]]
           \/ \E c : writer' = [writer EXCEPT ![w] = [@ EXCEPT !.pc = label, !.confirmed = c]]
           \/ \E d : writer' = [writer EXCEPT ![w] =
                                 [@ EXCEPT !.pc = label, !.dropStarted = d, !.reply = "none"]]
           \/ writer' = [writer EXCEPT ![w] = [@ EXCEPT !.pc = label, !.reply = "none"]]
    PROVE  Reaches(w, label)
<1>1. writer \in [Writers -> WriterStates]
  BY DEF IInv, TypeOK, WriterStates
<1>2. CASE Goto(w, label)
  BY <1>1, <1>2 DEF Goto, WriterStates, Reaches
<1>3. CASE \E error : Fail(w, label, error)
  BY <1>1, <1>3 DEF Fail, WriterStates, Reaches
<1>4. CASE \E i : writer' = [writer EXCEPT ![w] = [@ EXCEPT !.pc = label, !.engineOf = i]]
  BY <1>1, <1>4 DEF WriterStates, Reaches
<1>5. CASE \E i : writer' = [writer EXCEPT ![w] = [@ EXCEPT !.pc = label, !.columnsOf = i]]
  BY <1>1, <1>5 DEF WriterStates, Reaches
<1>6. CASE \E c : writer' = [writer EXCEPT ![w] = [@ EXCEPT !.pc = label, !.confirmed = c]]
  BY <1>1, <1>6 DEF WriterStates, Reaches
<1>7. CASE \E d : writer' = [writer EXCEPT ![w] =
                            [@ EXCEPT !.pc = label, !.dropStarted = d, !.reply = "none"]]
  BY <1>1, <1>7 DEF WriterStates, Reaches
<1>8. CASE writer' = [writer EXCEPT ![w] = [@ EXCEPT !.pc = label, !.reply = "none"]]
  BY <1>1, <1>8 DEF WriterStates, Reaches
<1> QED BY <1>2, <1>3, <1>4, <1>5, <1>6, <1>7, <1>8

LEMMA WriterAdvances ==
    ASSUME IInv, NEW w \in Writers, WriterStep(w) \/ WriterFault(w)
    PROVE  Advances(w)
<1>0. writer[w].pc \in Labels
  BY DEF IInv, TypeOK
<1>1. ASSUME NEW label, Reaches(w, label), UNCHANGED net, Stage[label] < Stage[writer[w].pc]
      PROVE  Advances(w)
  BY <1>1 DEF Reaches, Advances
<1>2. CASE SendDrop(w)
  <2>1. net' = net \cup {[writer |-> w, op |-> "drop"]} /\ writer[w].pc = "drop"
        /\ Reaches(w, "dropping")
    BY <1>2, LabelReached DEF SendDrop
  <2> QED BY <2>1, Stages DEF Reaches, Advances
<1>3. CASE Start(w)
  <2>1. UNCHANGED net /\ writer[w].pc = "start" /\ \E l \in {"engine", "check", "failed"} : Reaches(w, l)
    BY <1>3, LabelReached DEF Start, serverVars
  <2> QED BY <1>1, <2>1, Stages DEF Labels
<1>4. CASE Check(w) \/ (\E kind \in Kinds : CheckFails(w, kind))
  <2>1. UNCHANGED net /\ writer[w].pc = "check" /\ \E l \in {"close", "drop", "create"} : Reaches(w, l)
    BY <1>4, LabelReached DEF Check, CheckFails, serverVars
  <2> QED BY <1>1, <2>1, Stages DEF Labels
<1>5. CASE DropConfirmed(w)
  <2>1. UNCHANGED net /\ writer[w].pc = "dropping" /\ Reaches(w, "create")
    BY <1>5, LabelReached DEF DropConfirmed, serverVars
  <2> QED BY <1>1, <2>1, Stages DEF Labels
<1>6. CASE CreateConfirmed(w)
  <2>1. UNCHANGED net /\ writer[w].pc = "creating" /\ Reaches(w, "close")
    BY <1>6, LabelReached DEF CreateConfirmed, serverVars
  <2> QED BY <1>1, <2>1, Stages DEF Labels
<1>7. CASE CommandRejected(w) \/ (\E kind \in LostKinds : GiveUp(w, kind)) \/ Interrupted(w)
  <2>1. UNCHANGED net /\ writer[w].pc \in {"dropping", "creating"} /\ Reaches(w, "close")
    BY <1>7, LabelReached DEF CommandRejected, GiveUp, Interrupted, Waiting, serverVars
  <2> QED BY <1>1, <2>1, Stages DEF Labels
<1>8. CASE Close(w)
  <2>1. UNCHANGED net /\ writer[w].pc = "close" /\ \E l \in {"engine", "failed"} : Reaches(w, l)
    BY <1>8, LabelReached DEF Close, serverVars
  <2> QED BY <1>1, <2>1, Stages DEF Labels
<1>9. CASE DiscoverEngine(w)
  <2>1. UNCHANGED net /\ writer[w].pc = "engine" /\ \E l \in {"failed", "columns"} : Reaches(w, l)
    BY <1>9, LabelReached DEF DiscoverEngine, serverVars
  <2> QED BY <1>1, <2>1, Stages DEF Labels
<1>10. CASE DiscoverColumns(w)
  <2>1. UNCHANGED net /\ writer[w].pc = "columns" /\ \E l \in {"failed", "plan"} : Reaches(w, l)
    BY <1>10, LabelReached DEF DiscoverColumns, serverVars
  <2> QED BY <1>1, <2>1, Stages DEF Labels
<1>11. CASE \E kind \in Kinds : DiscoveryFails(w, kind)
  <2>1. UNCHANGED net /\ writer[w].pc \in {"engine", "columns"} /\ Reaches(w, "failed")
    BY <1>11, LabelReached DEF DiscoveryFails, serverVars
  <2> QED BY <1>1, <2>1, Stages DEF Labels
<1>12. CASE Plan(w)
  <2>1. UNCHANGED net /\ writer[w].pc = "plan" /\ \E l \in {"ready", "failed"} : Reaches(w, l)
    BY <1>12, LabelReached DEF Plan, serverVars
  <2> QED BY <1>1, <2>1, Stages DEF Labels
<1>13. CASE Crash(w)
  <2>1. UNCHANGED net /\ writer[w].pc \notin {"ready", "failed", "dead"} /\ Reaches(w, "dead")
    BY <1>13, LabelReached DEF Crash, serverVars
  <2>2. 0 < Stage[writer[w].pc]
    BY <1>0, <2>1, Stages DEF Labels
  <2> QED BY <1>1, <2>1, <2>2, Stages DEF Labels
<1>14. CASE SendCreate(w)
  <2>1. net' = net \cup {[writer |-> w, op |-> "create"]} /\ writer[w].pc = "create"
        /\ Reaches(w, "creating")
    BY <1>14, LabelReached DEF SendCreate
  <2> QED BY <2>1, Stages DEF Reaches, Advances
<1> QED
  BY <1>2, <1>3, <1>4, <1>5, <1>6, <1>7, <1>8, <1>9, <1>10, <1>11, <1>12, <1>13,
     <1>14
  DEF WriterStep, WriterFault

LEMMA ServerHandles ==
    ASSUME IInv, ServerStep
    PROVE  \E r \in net : Handled(r)
<1>1. PICK r \in net : \/ ServerDrop(r) \/ ServerCreate(r) \/ Lose(r)
                      \/ \E kind \in Kinds : ServerReject(r, kind)
  BY DEF ServerStep
<1>2. net' = net \ {r}
  BY <1>1 DEF ServerDrop, ServerCreate, Lose, ServerReject
<1>3. CASE Lose(r)
  BY <1>2, <1>3 DEF Lose, Handled, Answered
<1>4. CASE ServerDrop(r) \/ ServerCreate(r) \/ \E kind \in Kinds : ServerReject(r, kind)
  <2>1. PICK answer \in {"ok"} \cup Kinds : Reply(r.writer, WaitingFor(r), answer)
    BY <1>4 DEF ServerDrop, ServerCreate, ServerReject, WaitingFor, Kinds
  <2> QED BY <1>2, <2>1, ReplyChanges DEF Handled
<1> QED BY <1>1, <1>3, <1>4

\* Every step takes one call further, or a request off the network: whatever
\* the calls do to one another, the server to their requests, and whatever fails,
\* no call goes back or sends a request twice (what EveryWriterSettles is about,
\* for any number of writers).
THEOREM Calls_advance == Spec => [][Progress]_vars
<1>1. IInv /\ [Next]_vars => [Progress]_vars
  BY WriterAdvances, ServerHandles DEF Next, Quiet, Progress
<1> QED BY Invariance, <1>1, PTL DEF Spec
=============================================================================
