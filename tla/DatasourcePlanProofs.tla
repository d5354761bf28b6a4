------------------------- MODULE DatasourcePlanProofs -------------------------
(***************************************************************************)
(* Proofs about DatasourcePlan for any configurations, definitions of the  *)
(* table and sets of predicates, and any number of datasource objects.     *)
(***************************************************************************)
EXTENDS DatasourcePlan, TLAPS

\* What holds of every datasource object: it has one predicate, compiled for
\* the schema the object declares or will declare, and everything it has
\* planned was planned under that predicate.
ObjectInv(d) ==
    /\ d.node = d.pushed /\ d.expr = d.pushed
    /\ d.pushed # {} => d.predSchema # None
    /\ d.snapshot = None => d.local = None /\ d.fallback = FALSE
    /\ d.snapshot # None /\ d.predSchema # None => d.snapshot.schema = d.predSchema
    /\ Known(d) = None => d.columns = config.columns
    /\ Known(d) # None =>
         /\ Selected(d.columns, Known(d)) \subseteq Names[Known(d)]
         /\ \A q \in d.pushed : ColumnOf[q] \in Filterable[Known(d)]
    /\ d.snapshot # None => d.snapshot.facts \in {None, d.pushed}
    /\ d.local # None => /\ d.local.pushed = d.pushed
                         /\ d.local.columns = d.columns
                         /\ d.local.facts \in {None, d.pushed}

\* A branch has the predicate and the projection of its object.
PlanInv(p) ==
    /\ ds[p.source].expr \cup p.kept = p.asked
    /\ p.columns = ds[p.source].columns

\* And a task those of the object that made it.
TaskInv(t) ==
    /\ ds[t.source] # None
    /\ t.filter = ds[t.source].pushed
    /\ t.bounds \in {None, t.filter}
    /\ t.columns = Selected(ds[t.source].columns, t.schema)
    /\ t.declared = t.columns

IInv ==
    /\ TypeOK
    /\ \A s \in Sources : ds[s] # None => ObjectInv(ds[s])
    /\ \A p \in plans : PlanInv(p)
    /\ \A t \in tasks : TaskInv(t)

\* All that planning may do to an object.
OnlyPlans(d, e) ==
    \/ e = d
    \/ /\ d.snapshot = None
       /\ d.predSchema \in {None, Known(e)}
       /\ [e EXCEPT !.snapshot = None, !.local = None, !.fallback = FALSE] = d
-----------------------------------------------------------------------------
\* A projection or the configured columns are columns of the schema.
LEMMA PlanSchemaFits ==
    ASSUME PlanAssumption, config \in Configs, table \in Schemas,
           NEW d \in Source, ObjectInv(d), d.snapshot = None, NEW v \in PlanSchemas(d)
    PROVE  /\ v \in Schemas
           /\ d.predSchema \in {None, v}
           /\ Selected(d.columns, v) \subseteq Names[v]
           /\ \A q \in d.pushed : ColumnOf[q] \in Filterable[v]
<1>1. CASE d.predSchema # None
  BY <1>1 DEF PlanSchemas, Source, ObjectInv, Known
<1>2. CASE d.predSchema = None
  <2>1. v \in Schemas /\ (config.columns = None \/ config.columns \subseteq Names[v])
    BY <1>2 DEF PlanSchemas, DiscoverSchema
  <2>2. d.columns = config.columns /\ d.pushed = {}
    BY <1>2 DEF ObjectInv, Known
  <2> QED BY <1>2, <2>1, <2>2 DEF Selected
<1> QED BY <1>1, <1>2

\* e is d with a snapshot of schema v, facts and shard sources under the
\* object's own predicate.
Publishes(d, e, v) ==
    \E f \in {None, d.pushed}, g \in {None, d.pushed}, b \in BOOLEAN :
      \E l \in {d.local, [pushed |-> d.pushed, columns |-> d.columns, facts |-> g]} :
        e = [d EXCEPT !.snapshot = [schema |-> v, facts |-> f],
                      !.local = l, !.fallback = b]

LEMMA PlannedForm ==
    ASSUME PlanAssumption, NEW d \in Source, NEW v \in Schemas,
           NEW e \in LocalPlans(d, v) \cup LogicalPlans(d, v) \cup DirectPlans(d, v)
    PROVE  Publishes(d, e, v)
<1> DEFINE Form(f, l, b) == [d EXCEPT !.snapshot = [schema |-> v, facts |-> f],
                                      !.local = l, !.fallback = b]
<1>0. d.fallback \in BOOLEAN /\ d = [d EXCEPT !.local = d.local, !.fallback = d.fallback]
  BY DEF Source
<1>1. CASE e \in LocalPlans(d, v)
  <2>1. PICK g \in {None, d.pushed} :
          e = [d EXCEPT !.snapshot = [schema |-> v, facts |-> None],
                        !.local = [pushed |-> d.pushed, columns |-> d.columns, facts |-> g]]
    BY <1>1 DEF LocalPlans, Facts
  <2>2. e = Form(None, [pushed |-> d.pushed, columns |-> d.columns, facts |-> g], d.fallback)
    BY <2>1 DEF Source
  <2> QED BY <1>0, <2>2 DEF Publishes
<1>2. CASE e \in LogicalPlans(d, v)
  <2>1. e = [d EXCEPT !.snapshot = [schema |-> v, facts |-> None], !.fallback = TRUE]
    BY <1>2 DEF LogicalPlans
  <2>2. e = Form(None, d.local, TRUE)
    BY <2>1 DEF Source
  <2> QED BY <2>2 DEF Publishes
<1>3. CASE e \in DirectPlans(d, v)
  <2>1. PICK f \in {None, d.pushed} : e = [d EXCEPT !.snapshot = [schema |-> v, facts |-> f]]
    BY <1>3 DEF DirectPlans, Facts
  <2>2. e = Form(f, d.local, d.fallback)
    BY <2>1 DEF Source
  <2> QED BY <1>0, <2>2 DEF Publishes
<1> QED BY <1>1, <1>2, <1>3

LEMMA PlannedKeeps ==
    ASSUME PlanAssumption, config \in Configs, table \in Schemas,
           NEW d \in Source, ObjectInv(d), NEW e \in Planned(d)
    PROVE  /\ e \in Source /\ ObjectInv(e) /\ e.snapshot # None
           /\ OnlyPlans(d, e)
           /\ e.columns = d.columns /\ e.pushed = d.pushed /\ e.expr = d.expr
<1>1. CASE d.snapshot # None
  BY <1>1 DEF Planned, OnlyPlans
<1>2. CASE d.snapshot = None
  <2>1. PICK v \in PlanSchemas(d) :
          e \in LocalPlans(d, v) \cup LogicalPlans(d, v) \cup DirectPlans(d, v)
    BY <1>2 DEF Planned
  <2>2. /\ v \in Schemas
        /\ d.predSchema \in {None, v}
        /\ Selected(d.columns, v) \subseteq Names[v]
        /\ \A q \in d.pushed : ColumnOf[q] \in Filterable[v]
    BY <1>2, <2>1, PlanSchemaFits
  <2>0. Publishes(d, e, v)
    BY <2>1, <2>2, PlannedForm
  <2>3. PICK f \in {None, d.pushed}, g \in {None, d.pushed}, b \in BOOLEAN :
          \E l \in {d.local, [pushed |-> d.pushed, columns |-> d.columns, facts |-> g]} :
            e = [d EXCEPT !.snapshot = [schema |-> v, facts |-> f], !.local = l, !.fallback = b]
    BY <2>0 DEF Publishes
  <2>4. PICK l \in {d.local, [pushed |-> d.pushed, columns |-> d.columns, facts |-> g]} :
          e = [d EXCEPT !.snapshot = [schema |-> v, facts |-> f], !.local = l, !.fallback = b]
    BY <2>3
  <2>5. d.pushed \in SUBSET Predicates /\ d.columns \in Projections
    BY DEF Source
  <2>6. [schema |-> v, facts |-> f] \in Snapshot /\ [schema |-> v, facts |-> f] # None
    BY <2>2, <2>5 DEF Snapshot, Conditions, PlanAssumption
  <2>7. e \in Source /\ e.snapshot = [schema |-> v, facts |-> f] /\ e.local = l
    <3>1. l \in {None} \cup Local
      <4>1. [pushed |-> d.pushed, columns |-> d.columns, facts |-> g] \in Local
        BY <2>5 DEF Local, Conditions
      <4> QED BY <4>1 DEF Source
    <3> QED BY <2>4, <2>6, <3>1 DEF Source
  <2>8. e.columns = d.columns /\ e.pushed = d.pushed /\ e.expr = d.expr
        /\ e.node = d.node /\ e.predSchema = d.predSchema
    BY <2>4 DEF Source
  <2>9. Known(e) = v /\ v # None
    BY <2>2, <2>6, <2>7 DEF Known, PlanAssumption
  <2>10. l # None => l.pushed = d.pushed /\ l.columns = d.columns /\ l.facts \in {None, d.pushed}
    BY <2>4 DEF ObjectInv
  <2>11. ObjectInv(e)
    BY <2>2, <2>6, <2>7, <2>8, <2>9, <2>10 DEF ObjectInv
  <2>12. OnlyPlans(d, e)
    <3>0. d.local = None /\ d.fallback = FALSE
      BY <1>2 DEF ObjectInv
    <3> QED BY <1>2, <2>2, <2>4, <2>9, <3>0 DEF OnlyPlans, Source
  <2> QED BY <2>6, <2>7, <2>8, <2>11, <2>12
<1> QED BY <1>1, <1>2
-----------------------------------------------------------------------------
LEMMA FreshObject ==
    ASSUME PlanAssumption, config \in Configs
    PROVE  Fresh(config.columns) \in Source /\ ObjectInv(Fresh(config.columns))
<1>1. config.columns \in Projections
  BY DEF PlanAssumption, Config
<1> QED BY <1>1, Zenon DEF Fresh, Source, ObjectInv, Known

LEMMA Initially == Init => IInv
<1> SUFFICES ASSUME Init PROVE IInv
  OBVIOUS
<1> USE PlanAssumption
<1>1. Fresh(config.columns) \in Source /\ ObjectInv(Fresh(config.columns))
  BY FreshObject DEF Init
<1>2. Fresh(config.columns).expr = {} /\ Fresh(config.columns).columns = config.columns
  BY DEF Fresh
<1>3. config.columns \in Projections /\ Fresh(config.columns) # None
  BY <1>1 DEF Init, PlanAssumption, Config
<1>4. ds[Root] = Fresh(config.columns) /\ \A s \in Sources : s # Root => ds[s] = None
  BY DEF Init, PlanAssumption
<1>5. TypeOK
  BY <1>1, <1>3, <1>4 DEF Init, TypeOK, Plan, PlanAssumption
<1>6. ASSUME NEW p \in plans PROVE PlanInv(p)
  <2>1. p.source = Root /\ p.asked = {} /\ p.kept = {} /\ p.columns = config.columns
    BY DEF Init
  <2> QED BY <1>2, <1>4, <2>1 DEF PlanInv
<1>7. tasks = {}
  BY DEF Init
<1> QED BY <1>1, <1>4, <1>5, <1>6, <1>7 DEF IInv

\* The objects there were have kept their predicates and projections.
Kept ==
    /\ ds' \in [Sources -> {None} \cup Source]
    /\ config' = config
    /\ \A s \in Sources :
         /\ ds'[s] # None => ObjectInv(ds[s])'
         /\ ds[s] # None => /\ ds'[s] # None
                            /\ ds'[s].columns = ds[s].columns
                            /\ ds'[s].pushed = ds[s].pushed
                            /\ ds'[s].expr = ds[s].expr

\* One object has planned, and nothing else has happened to the objects.
LEMMA PlanStep ==
    ASSUME PlanAssumption, IInv, NEW p \in plans, NEW d \in Planned(ds[p.source]),
           ds' = [ds EXCEPT ![p.source] = d], UNCHANGED <<config, table, plans>>
    PROVE  /\ Kept
           /\ \A s \in Sources : ds[s] # None => OnlyPlans(ds[s], ds'[s])
<1>1. p.source \in Sources /\ ds[p.source] # None /\ ds[p.source] \in Source
  BY DEF IInv, TypeOK, Plan
<1>2. /\ d \in Source /\ ObjectInv(d)
      /\ OnlyPlans(ds[p.source], d)
      /\ d.columns = ds[p.source].columns /\ d.pushed = ds[p.source].pushed
      /\ d.expr = ds[p.source].expr
  BY <1>1, PlannedKeeps DEF IInv, TypeOK
<1>3. d # None
  BY <1>2 DEF PlanAssumption
<1>4. ASSUME NEW x, ObjectInv(x) PROVE ObjectInv(x)'
  BY <1>4 DEF ObjectInv, Known, Selected
<1>5. ds' \in [Sources -> {None} \cup Source]
  BY <1>2 DEF IInv, TypeOK
<1>6. ASSUME NEW s \in Sources
      PROVE  /\ ds'[s] # None <=> ds[s] # None
             /\ ds[s] # None => /\ ObjectInv(ds[s])'
                                /\ OnlyPlans(ds[s], ds'[s])
                                /\ ds'[s].columns = ds[s].columns
                                /\ ds'[s].pushed = ds[s].pushed
                                /\ ds'[s].expr = ds[s].expr
  <2>1. CASE s = p.source
    <3>1. ds'[s] = d
      BY <1>1, <2>1 DEF IInv, TypeOK
    <3> QED BY <1>1, <1>2, <1>3, <1>4, <2>1, <3>1
  <2>2. CASE s # p.source
    <3>1. ds'[s] = ds[s]
      BY <1>1, <2>2 DEF IInv, TypeOK
    <3>2. ds[s] # None => ObjectInv(ds[s])'
      BY <1>4, <3>1 DEF IInv
    <3> QED BY <3>1, <3>2 DEF OnlyPlans
  <2> QED BY <2>1, <2>2
<1> QED BY <1>5, <1>6 DEF Kept
-----------------------------------------------------------------------------
\* Then their branches and tasks are as they were.
LEMMA KeptSuffices ==
    ASSUME IInv, Kept
    PROVE  /\ \A p \in plans : p \in Plan /\ ds'[p.source] # None /\ PlanInv(p)'
           /\ \A t \in tasks : t \in Task /\ TaskInv(t)'
<1>1. ASSUME NEW p \in plans PROVE p \in Plan /\ ds'[p.source] # None /\ PlanInv(p)'
  <2>1. p \in Plan /\ p.source \in Sources /\ ds[p.source] # None /\ PlanInv(p)
    BY DEF IInv, TypeOK, Plan
  <2> QED BY <2>1 DEF Kept, PlanInv
<1>2. ASSUME NEW t \in tasks PROVE t \in Task /\ TaskInv(t)'
  <2>1. t \in Task /\ t.source \in Sources /\ TaskInv(t)
    BY DEF IInv, TypeOK, Task
  <2>2. ASSUME NEW c PROVE Selected(c, t.schema)' = Selected(c, t.schema)
    BY DEF Selected, Kept
  <2> QED BY <2>1, <2>2 DEF Kept, TaskInv, Selected
<1> QED BY <1>1, <1>2

\* A clone joins the objects, and its branch the branches.
LEMMA CloneStep ==
    ASSUME PlanAssumption, IInv, NEW p \in plans, NEW n \in Sources, ds[n] = None,
           NEW d \in Planned(ds[p.source]) \cup {ds[p.source]},
           NEW c \in Source, ObjectInv(c), NEW r \in Plan,
           r.source = n, c.expr \cup r.kept = r.asked, r.columns = c.columns,
           ds' = [ds EXCEPT ![p.source] = d, ![n] = c],
           plans' = plans \cup {r}, UNCHANGED <<config, table, alters, tasks>>
    PROVE  IInv'
<1>1. p.source \in Sources /\ ds[p.source] # None /\ ds[p.source] \in Source
      /\ ObjectInv(ds[p.source]) /\ p.source # n
  BY DEF IInv, TypeOK, Plan
<1>2. /\ d \in Source /\ ObjectInv(d)
      /\ d.columns = ds[p.source].columns /\ d.pushed = ds[p.source].pushed
      /\ d.expr = ds[p.source].expr
  BY <1>1, PlannedKeeps DEF IInv, TypeOK
<1>3. c # None /\ d # None
  BY <1>2 DEF PlanAssumption
<1>4. ASSUME NEW x, ObjectInv(x) PROVE ObjectInv(x)'
  BY <1>4 DEF ObjectInv, Known, Selected
<1>5. ds' \in [Sources -> {None} \cup Source]
  BY <1>2 DEF IInv, TypeOK
<1>6. ds'[n] = c /\ ds'[p.source] = d
  BY <1>1 DEF IInv, TypeOK
<1>7. ASSUME NEW s \in Sources, s # n, s # p.source PROVE ds'[s] = ds[s]
  BY <1>7 DEF IInv, TypeOK
<1>8. ASSUME NEW s \in Sources, ds'[s] # None PROVE ObjectInv(ds[s])'
  <2>1. CASE s = n
    BY <1>4, <1>6, <2>1
  <2>2. CASE s = p.source
    BY <1>2, <1>4, <1>6, <2>2
  <2>3. CASE s # n /\ s # p.source
    <3>1. ObjectInv(ds[s]) /\ ds'[s] = ds[s]
      BY <1>7, <1>8, <2>3 DEF IInv
    <3> QED BY <1>4, <3>1
  <2> QED BY <2>1, <2>2, <2>3
<1>9. ASSUME NEW s \in Sources, ds[s] # None
      PROVE  /\ ds'[s] # None
             /\ ds'[s].columns = ds[s].columns
             /\ ds'[s].pushed = ds[s].pushed
             /\ ds'[s].expr = ds[s].expr
  BY <1>2, <1>3, <1>6, <1>7, <1>9
<1>10. Kept
  BY <1>5, <1>8, <1>9 DEF Kept
<1>11. PlanInv(r)'
  BY <1>6 DEF PlanInv
<1>12. \A q \in plans' : q \in Plan /\ ds'[q.source] # None /\ PlanInv(q)'
  BY <1>3, <1>6, <1>10, <1>11, KeptSuffices
<1>13. \A t \in tasks' : t \in Task /\ TaskInv(t)'
  BY <1>10, KeptSuffices
<1>14. TypeOK'
  BY <1>5, <1>12, <1>13 DEF TypeOK, IInv
<1> QED BY <1>8, <1>12, <1>13, <1>14 DEF IInv

\* A projection of columns the object delivers fits its schema.
LEMMA ProjectionKeeps ==
    ASSUME PlanAssumption, config \in Configs,
           NEW d \in Source, ObjectInv(d), d.snapshot # None,
           NEW wanted \in Projections,
           wanted # None => wanted \subseteq Selected(d.columns, d.snapshot.schema)
    PROVE  /\ ProjectedClone(d, Projection(d, wanted)) \in Source
           /\ ObjectInv(ProjectedClone(d, Projection(d, wanted)))
           /\ ProjectedClone(d, Projection(d, wanted)).columns = Projection(d, wanted)
           /\ ProjectedClone(d, Projection(d, wanted)).expr = d.expr
<1> DEFINE columns == Projection(d, wanted)
           c == ProjectedClone(d, columns)
<1>1. columns \in Projections
  BY DEF Projection, Source
<1>2. ProjectLocal(d.local, columns) \in {None} \cup Local
  BY <1>1 DEF ProjectLocal, Source, Local
<1>3. c \in Source
  BY <1>1, <1>2 DEF ProjectedClone, Source
<1>4. /\ c.columns = columns /\ c.node = d.node /\ c.pushed = d.pushed /\ c.expr = d.expr
      /\ c.predSchema = d.predSchema /\ c.snapshot = d.snapshot
      /\ c.local = ProjectLocal(d.local, columns) /\ c.fallback = d.fallback
  BY DEF ProjectedClone, Source
<1>5. Known(c) = d.snapshot.schema /\ Known(d) = d.snapshot.schema /\ Known(d) # None
  <2>1. d.snapshot \in Snapshot /\ d.snapshot.schema \in Schemas
    BY DEF Source, Snapshot
  <2> QED BY <1>4, <2>1 DEF Known, PlanAssumption
<1>6. Selected(columns, Known(c)) \subseteq Names[Known(c)]
  <2>1. CASE wanted = None
    BY <1>5, <2>1 DEF Projection, ObjectInv
  <2>2. CASE wanted # None
    <3>0. columns = wanted
      BY <2>2 DEF Projection
    <3>1. Selected(columns, Known(c)) = wanted
      <4> HIDE DEF columns
      <4> QED BY <2>2, <3>0 DEF Selected
    <3> QED BY <1>5, <2>2, <3>1 DEF ObjectInv
  <2> QED BY <2>1, <2>2
<1>7. c.local # None => /\ c.local.pushed = d.pushed /\ c.local.columns = columns
                        /\ c.local.facts \in {None, d.pushed}
  <2> SUFFICES ASSUME d.local # None
               PROVE  /\ [d.local EXCEPT !.columns = columns].pushed = d.pushed
                      /\ [d.local EXCEPT !.columns = columns].columns = columns
                      /\ [d.local EXCEPT !.columns = columns].facts \in {None, d.pushed}
    BY <1>4 DEF ProjectLocal
  <2>1. d.local \in Local
    BY DEF Source
  <2> QED BY <2>1 DEF Local, ObjectInv
<1>8. ObjectInv(c)
  <2> HIDE DEF c, columns
  <2> QED BY <1>4, <1>5, <1>6, <1>7 DEF ObjectInv
<1> QED BY <1>3, <1>4, <1>8
\* A clone with a compiled predicate fits the schema it was compiled for.
LEMMA PredicateKeeps ==
    ASSUME PlanAssumption, config \in Configs, table \in Schemas,
           NEW d \in Source, ObjectInv(d), NEW v \in PredicateSchemas(d),
           NEW node \in SUBSET Predicates, Compiles(node, Selected(d.columns, v), v)
    PROVE  /\ FilteredClone(d, node, v) \in Source
           /\ ObjectInv(FilteredClone(d, node, v))
           /\ FilteredClone(d, node, v).expr = node
           /\ FilteredClone(d, node, v).columns = d.columns
<1> DEFINE c == FilteredClone(d, node, v)
<1>1. v \in Schemas /\ v # None /\ Selected(d.columns, v) \subseteq Names[v]
  <2>1. CASE d.snapshot = None
    <3>1. v \in PlanSchemas(d)
      BY <2>1 DEF PredicateSchemas
    <3> QED BY <2>1, <3>1, PlanSchemaFits DEF PlanAssumption
  <2>2. CASE d.snapshot # None
    <3>1. v = d.snapshot.schema /\ v = Known(d)
      BY <2>2 DEF PredicateSchemas, Known
    <3>2. v \in Schemas /\ v # None
      BY <2>2, <3>1 DEF Source, Snapshot, PlanAssumption
    <3> QED BY <3>1, <3>2 DEF ObjectInv
  <2> QED BY <2>1, <2>2
<1>2. d.columns \in Projections
  BY DEF Source
<1>3. /\ c.columns = d.columns /\ c.node = node /\ c.pushed = node /\ c.expr = node
      /\ c.predSchema = v /\ c.snapshot = None /\ c.local = None /\ c.fallback = FALSE
  BY DEF FilteredClone, Fresh
<1>4. c \in Source
  BY <1>1, <1>2 DEF FilteredClone, Fresh, Source
<1>5. Known(c) = v
  BY <1>3 DEF Known
<1>6. \A q \in node : ColumnOf[q] \in Filterable[v]
  BY DEF Compiles
<1>7. ObjectInv(c)
  <2> HIDE DEF c
  <2> QED BY <1>1, <1>3, <1>5, <1>6 DEF ObjectInv
<1> QED BY <1>3, <1>4, <1>7

\* The tasks an object makes are its own.
LEMMA TasksOfObject ==
    ASSUME PlanAssumption, config \in Configs, NEW s \in Sources, NEW d \in Source,
           ObjectInv(d), d.snapshot # None, NEW t \in ReadTasks(s, d)
    PROVE  /\ t \in Task /\ t.source = s /\ t.filter = d.pushed
           /\ t.bounds \in {None, d.pushed}
           /\ t.columns = Selected(d.columns, t.schema) /\ t.declared = t.columns
<1>1. PICK f \in {None, d.pushed} : t = MakeTask(s, d, d.pushed, d.columns, f)
  BY DEF ReadTasks, ObjectInv
<1> DEFINE v == d.snapshot.schema
           scan == ScanColumns(Selected(d.columns, v), Selected(None, v))
<1>2. v \in Schemas /\ Known(d) = v /\ Known(d) # None /\ d.pushed \in SUBSET Predicates
  BY DEF Source, Snapshot, Known, PlanAssumption
<1>3. Selected(d.columns, v) \subseteq Columns
  BY <1>2 DEF ObjectInv, PlanAssumption
<1>4. Selected(None, v) \subseteq Columns /\ Selected(None, v) # {}
  BY <1>2 DEF Selected, PlanAssumption, Config, Projections
<1>5. scan \subseteq Columns
  BY <1>3, <1>4 DEF ScanColumns
<1>6. t = [source |-> s, schema |-> v, filter |-> d.pushed, bounds |-> f, scan |-> scan,
           columns |-> Selected(d.columns, v), declared |-> Selected(d.columns, v)]
  BY <1>1 DEF MakeTask
<1> HIDE DEF v, scan
<1> QED BY <1>2, <1>3, <1>5, <1>6 DEF Task, Conditions
-----------------------------------------------------------------------------
LEMMA Invariance == IInv /\ [Next]_vars => IInv'
<1> SUFFICES ASSUME IInv, [Next]_vars PROVE IInv'
  OBVIOUS
<1> USE PlanAssumption
<1>0. config \in Configs /\ table \in Schemas
  BY DEF IInv, TypeOK
<1>1. ASSUME NEW p \in plans
      PROVE  /\ p \in Plan /\ p.source \in Sources /\ ds[p.source] \in Source
             /\ ObjectInv(ds[p.source]) /\ PlanInv(p) /\ ds[p.source] # None
  BY DEF IInv, TypeOK, Plan
<1>2. ASSUME NEW p \in plans, NEW d \in Planned(ds[p.source]),
             ds' = [ds EXCEPT ![p.source] = d], UNCHANGED <<config, table, plans>>
      PROVE  Kept
  BY <1>2, PlanStep
<1>3. ASSUME Kept, UNCHANGED <<table, alters, plans>>,
             \A t \in tasks' : t \in Task /\ TaskInv(t)'
      PROVE  IInv'
  <2>1. \A p \in plans' : p \in Plan /\ ds'[p.source] # None /\ PlanInv(p)'
    BY <1>3, KeptSuffices
  <2>2. \A s \in Sources : ds'[s] # None => ObjectInv(ds[s])'
    BY <1>3 DEF Kept
  <2>3. TypeOK'
    BY <1>3, <2>1 DEF Kept, IInv, TypeOK
  <2> QED BY <1>3, <2>1, <2>2, <2>3 DEF IInv
<1>4. CASE ArrowSchema
  <2>1. Kept
    BY <1>2, <1>4 DEF ArrowSchema
  <2> QED BY <1>3, <1>4, <2>1, KeptSuffices DEF ArrowSchema
<1>5. CASE GetReadTasks
  <2>0. PICK p \in plans : \E d \in Planned(ds[p.source]) :
          ds' = [ds EXCEPT ![p.source] = d] /\ tasks' = ReadTasks(p.source, d)
    BY <1>5 DEF GetReadTasks
  <2>1. PICK d \in Planned(ds[p.source]) :
          ds' = [ds EXCEPT ![p.source] = d] /\ tasks' = ReadTasks(p.source, d)
    BY <2>0
  <2>2. Kept
    BY <1>2, <1>5, <2>1 DEF GetReadTasks
  <2>3. d \in Source /\ ObjectInv(d) /\ d.snapshot # None
    BY <1>0, <1>1, PlannedKeeps
  <2>4. ds'[p.source] = d /\ d # None
    BY <1>1, <2>1, <2>3 DEF IInv, TypeOK, PlanAssumption
  <2>5. ASSUME NEW t \in tasks' PROVE t \in Task /\ TaskInv(t)'
    <3>1. /\ t \in Task /\ t.source = p.source /\ t.filter = d.pushed
          /\ t.bounds \in {None, d.pushed}
          /\ t.columns = Selected(d.columns, t.schema) /\ t.declared = t.columns
      BY <1>0, <1>1, <2>1, <2>3, TasksOfObject
    <3> QED BY <2>2, <2>4, <3>1 DEF TaskInv, Selected, Kept
  <2> QED BY <1>3, <1>5, <2>2, <2>5 DEF GetReadTasks
<1>6. ASSUME NEW p \in plans, NEW n \in Sources, NEW wanted \in Projections,
             ApplyProjection(p, n, wanted)
      PROVE  IInv'
  <2>1. PICK d \in Planned(ds[p.source]) :
          /\ wanted # None => wanted \subseteq Selected(d.columns, d.snapshot.schema)
          /\ ds' = [ds EXCEPT ![p.source] = d,
                              ![n] = ProjectedClone(d, Projection(d, wanted))]
          /\ plans' = plans \cup {[p EXCEPT !.source = n, !.columns = Projection(d, wanted)]}
    BY <1>6 DEF ApplyProjection
  <2>a. PICK c : c = ProjectedClone(d, Projection(d, wanted))
    OBVIOUS
  <2>b. PICK r : r = [p EXCEPT !.source = n, !.columns = Projection(d, wanted)]
    OBVIOUS
  <2>2. d \in Source /\ ObjectInv(d) /\ d.snapshot # None /\ d.expr = ds[p.source].expr
    BY <1>0, <1>1, PlannedKeeps
  <2>3. c \in Source /\ ObjectInv(c) /\ c.columns = Projection(d, wanted) /\ c.expr = d.expr
    BY <1>0, <2>1, <2>2, <2>a, ProjectionKeeps
  <2>4. /\ r \in Plan /\ r.source = n /\ r.kept = p.kept /\ r.asked = p.asked
        /\ r.columns = Projection(d, wanted)
    BY <1>1, <2>2, <2>b DEF Plan, Projection, Source
  <2>5. c.expr \cup r.kept = r.asked
    BY <1>1, <2>2, <2>3, <2>4 DEF PlanInv
  <2>6. ds[n] = None /\ UNCHANGED <<config, table, alters, tasks>>
    BY <1>6 DEF ApplyProjection
  <2>7. ds' = [ds EXCEPT ![p.source] = d, ![n] = c] /\ plans' = plans \cup {r}
    BY <2>1, <2>a, <2>b
  <2>8. r.columns = c.columns /\ d \in Planned(ds[p.source]) \cup {ds[p.source]}
    BY <2>3, <2>4
  <2> QED BY <2>3, <2>4, <2>5, <2>6, <2>7, <2>8, CloneStep
<1>7. ASSUME NEW p \in plans, NEW n \in Sources, NEW q \in Predicates,
             ApplyPredicate(p, n, q)
      PROVE  IInv'
  <2>a. PICK d : d = ds[p.source]
    OBVIOUS
  <2>b. PICK combined : combined = d.node \cup {q}
    OBVIOUS
  <2>c. PICK r : r = [p EXCEPT !.source = n, !.asked = @ \cup {q}]
    OBVIOUS
  <2>1. PICK v \in PredicateSchemas(d) :
          /\ Compiles(combined, Selected(d.columns, v), v)
          /\ ds' = [ds EXCEPT ![n] = FilteredClone(d, combined, v)]
    BY <1>7, <2>a, <2>b DEF ApplyPredicate
  <2>d. PICK c : c = FilteredClone(d, combined, v)
    OBVIOUS
  <2>2. combined \in SUBSET Predicates /\ d.expr = d.node
    BY <1>1, <2>a, <2>b DEF Source, ObjectInv
  <2>3. c \in Source /\ ObjectInv(c) /\ c.expr = combined /\ c.columns = d.columns
    BY <1>0, <1>1, <2>1, <2>2, <2>a, <2>d, PredicateKeeps
  <2>4. /\ r \in Plan /\ r.source = n /\ r.kept = p.kept /\ r.asked = p.asked \cup {q}
        /\ r.columns = p.columns
    BY <1>1, <2>c DEF Plan
  <2>5. c.expr \cup r.kept = r.asked /\ r.columns = c.columns
    BY <1>1, <2>2, <2>3, <2>4, <2>a, <2>b DEF PlanInv
  <2>6. /\ ds[n] = None /\ UNCHANGED <<config, table, alters, tasks>>
        /\ plans' = plans \cup {r}
    BY <1>7, <2>c DEF ApplyPredicate
  <2>7. ds' = [ds EXCEPT ![p.source] = d, ![n] = c]
    BY <1>1, <2>1, <2>a, <2>d DEF IInv, TypeOK
  <2> QED BY <2>3, <2>4, <2>5, <2>6, <2>7, <2>a, CloneStep
<1>8. ASSUME NEW p \in plans, NEW q \in Predicates, RefusePredicate(p, q)
      PROVE  IInv'
  <2> DEFINE r == [p EXCEPT !.asked = @ \cup {q}, !.kept = @ \cup {q}]
  <2>1. /\ r \in Plan /\ r.source = p.source /\ r.asked = p.asked \cup {q}
        /\ r.kept = p.kept \cup {q} /\ r.columns = p.columns
    BY <1>1 DEF Plan
  <2>2. plans' = (plans \ {p}) \cup {r} /\ UNCHANGED <<config, table, alters, ds, tasks>>
    BY <1>8 DEF RefusePredicate
  <2>3. Kept
    BY <2>2 DEF Kept, IInv, TypeOK, ObjectInv, Known, Selected
  <2>4. PlanInv(r)'
    BY <1>1, <2>1, <2>2 DEF PlanInv
  <2> HIDE DEF r
  <2>5. ASSUME NEW x \in plans' PROVE x \in Plan /\ ds'[x.source] # None /\ PlanInv(x)'
    <3>1. CASE x = r
      BY <1>1, <2>1, <2>2, <2>4, <3>1
    <3>2. CASE x \in plans
      BY <2>3, <3>2, KeptSuffices
    <3> QED BY <2>2, <3>1, <3>2
  <2>6. \A t \in tasks' : t \in Task /\ TaskInv(t)'
    BY <2>2, <2>3, KeptSuffices
  <2>7. \A s \in Sources : ds'[s] # None => ObjectInv(ds[s])'
    BY <2>3 DEF Kept
  <2>8. TypeOK'
    BY <2>2, <2>5, <2>6 DEF IInv, TypeOK
  <2> QED BY <2>5, <2>6, <2>7, <2>8 DEF IInv
<1>9. CASE Alter
  <2>1. Kept
    BY <1>9 DEF Alter, Kept, IInv, TypeOK, ObjectInv, Known, Selected
  <2>2. table' \in Schemas /\ alters' \in Nat /\ UNCHANGED <<ds, plans, tasks>>
    BY <1>9 DEF Alter, IInv, TypeOK
  <2>3. /\ \A p \in plans' : p \in Plan /\ ds'[p.source] # None /\ PlanInv(p)'
        /\ \A t \in tasks' : t \in Task /\ TaskInv(t)'
    BY <2>1, <2>2, KeptSuffices
  <2>4. \A s \in Sources : ds'[s] # None => ObjectInv(ds[s])'
    BY <2>1 DEF Kept
  <2>5. TypeOK'
    BY <2>1, <2>2, <2>3 DEF Kept, IInv, TypeOK
  <2> QED BY <2>3, <2>4, <2>5 DEF IInv
<1>10. CASE UNCHANGED vars
  <2>1. Kept
    BY <1>10 DEF vars, Kept, IInv, TypeOK, ObjectInv, Known, Selected
  <2> QED BY <1>3, <1>10, <2>1, KeptSuffices DEF vars
<1> QED BY <1>4, <1>5, <1>6, <1>7, <1>8, <1>9, <1>10 DEF Next
-----------------------------------------------------------------------------
(* Theorems *)

LEMMA Inductive == Spec => []IInv
<1> QED BY Initially, Invariance, PTL DEF Spec

\* Types are as declared.
THEOREM TypeCorrect == Spec => []TypeOK
<1>1. IInv => TypeOK
  BY DEF IInv
<1> QED BY <1>1, Inductive, PTL

\* Tasks apply and deliver what was asked of their branch, for any sequence of
\* pushdowns (apply_predicate, apply_projection, _make_task).
THEOREM Answers_as_asked == Spec => []AnswersAsAsked
<1>1. IInv => AnswersAsAsked
  <2> SUFFICES ASSUME IInv, NEW p \in plans
               PROVE  /\ ds[p.source].expr \cup p.kept = p.asked
                      /\ \A t \in tasks : t.source = p.source =>
                           /\ t.filter \cup p.kept = p.asked
                           /\ t.declared = Selected(p.columns, t.schema)
                           /\ t.columns = t.declared
    BY DEF AnswersAsAsked
  <2>1. PlanInv(p) /\ ds[p.source] # None /\ ObjectInv(ds[p.source])
    BY DEF IInv, TypeOK, Plan
  <2>2. \A t \in tasks : TaskInv(t)
    BY DEF IInv
  <2> QED BY <2>1, <2>2 DEF PlanInv, TaskInv, ObjectInv
<1> QED BY <1>1, Inductive, PTL

\* Range bounds come from facts about the rows the task selects
\* (_ensure_planning_snapshot).
THEOREM Bounds_of_own_rows == Spec => []BoundsOfOwnRows
<1>1. IInv => BoundsOfOwnRows
  BY DEF IInv, TaskInv, BoundsOfOwnRows
<1> QED BY <1>1, Inductive, PTL

\* Predicates and projections fit the schema an object declares, however the
\* table is altered between requests (_predicate_schema).
THEOREM Fits_declared_schema == Spec => []FitsDeclaredSchema
<1>1. IInv => FitsDeclaredSchema
  <2> SUFFICES ASSUME IInv, NEW s \in Sources, ds[s] # None
               PROVE  /\ ds[s].pushed # {} => Known(ds[s]) # None
                      /\ Known(ds[s]) # None =>
                           /\ Selected(ds[s].columns, Known(ds[s])) \subseteq Names[Known(ds[s])]
                           /\ \A q \in ds[s].pushed : ColumnOf[q] \in Filterable[Known(ds[s])]
    BY DEF FitsDeclaredSchema
  <2>1. ObjectInv(ds[s])
    BY DEF IInv
  <2>2. ds[s].pushed # {} => Known(ds[s]) # None
    <3>1. ds[s].snapshot # None => ds[s].snapshot.schema # None
      BY PlanAssumption DEF IInv, TypeOK, Source, Snapshot, PlanAssumption
    <3> QED BY <2>1, <3>1 DEF ObjectInv, Known
  <2> QED BY <2>1, <2>2 DEF ObjectInv
<1> QED BY <1>1, Inductive, PTL

\* What is asked of one branch never changes the object of another
\* (apply_projection, apply_predicate).
THEOREM Branches_independent == Spec => BranchesIndependent
<1> DEFINE Independent ==
      \A s \in Sources : ds[s] # None =>
         \/ ds'[s] = ds[s]
         \/ /\ ds[s].snapshot = None
            /\ ds[s].predSchema \in {None, Known(ds'[s])}
            /\ [ds'[s] EXCEPT !.snapshot = None, !.local = None, !.fallback = FALSE] = ds[s]
<1>1. IInv /\ [Next]_vars => [Independent]_vars
  <2> SUFFICES ASSUME IInv, Next PROVE Independent
    BY DEF vars
  <2> USE PlanAssumption
  <2>1. ASSUME NEW p \in plans
        PROVE  /\ p.source \in Sources /\ ds[p.source] # None /\ ds[p.source] \in Source
               /\ ObjectInv(ds[p.source])
               /\ config \in Configs /\ table \in Schemas
    BY DEF IInv, TypeOK, Plan
  <2>2. ASSUME NEW p \in plans, NEW d \in Planned(ds[p.source]), NEW n \in Sources, NEW c,
               \/ ds' = [ds EXCEPT ![p.source] = d]
               \/ ds[n] = None /\ ds' = [ds EXCEPT ![p.source] = d, ![n] = c]
        PROVE  Independent
    <3>1. OnlyPlans(ds[p.source], d)
      BY <2>1, PlannedKeeps
    <3>2. ASSUME NEW s \in Sources, ds[s] # None
          PROVE  OnlyPlans(ds[s], ds'[s])
      <4>1. CASE s = p.source
        BY <2>1, <2>2, <3>1, <3>2, <4>1 DEF IInv, TypeOK
      <4>2. CASE s # p.source
        <5>1. ds'[s] = ds[s]
          BY <2>1, <2>2, <3>2, <4>2 DEF IInv, TypeOK
        <5> QED BY <5>1 DEF OnlyPlans
      <4> QED BY <4>1, <4>2
    <3> QED BY <3>2 DEF OnlyPlans
  <2>3. CASE ArrowSchema
    BY <2>2, <2>3 DEF ArrowSchema, PlanAssumption
  <2>4. CASE GetReadTasks
    BY <2>2, <2>4 DEF GetReadTasks, PlanAssumption
  <2>5. ASSUME NEW p \in plans, NEW n \in Sources, NEW wanted \in Projections,
               ApplyProjection(p, n, wanted)
        PROVE  Independent
    BY <2>2, <2>5 DEF ApplyProjection
  <2>6. ASSUME NEW p \in plans, NEW n \in Sources, NEW q \in Predicates,
               ApplyPredicate(p, n, q)
        PROVE  Independent
    BY <2>6 DEF ApplyPredicate, IInv, TypeOK
  <2>7. CASE UNCHANGED ds
    BY <2>7
  <2> QED BY <2>3, <2>4, <2>5, <2>6, <2>7 DEF Next, RefusePredicate, Alter
<1> QED BY <1>1, Inductive, PTL DEF Spec, BranchesIndependent
=============================================================================
