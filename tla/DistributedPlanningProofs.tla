--------------------- MODULE DistributedPlanningProofs ---------------------
(***************************************************************************)
(* Proofs about DistributedPlanning: clients, errors, and the promise of   *)
(* LocalReadPlan, for any clusters, configurations and number of calls.    *)
(***************************************************************************)
EXTENDS DistributedPlanning, TLAPS

\* Which readers are open at each place.
ClientInv ==
    /\ pc \in Places
    /\ clients = IF pc \in {"target", "closeTarget"} THEN {"source", "target"}
                 ELSE IF pc \in {"source", "shard", "open", "closeSource"} THEN {"source"}
                 ELSE {}

\* At most one error is raised before the local sources are prepared, and it
\* is in flight while readers are closed.
ErrorInv ==
    /\ pc \notin {"closeTarget", "closeSource"} => exc = "none"
    /\ pc \in {"discover", "connect", "source", "shard", "open", "target"} => raised = {}
    /\ pc \in {"closeTarget", "closeSource"} =>
           \/ exc = "none" /\ raised = {}
           \/ /\ exc \in Errors \cup Gap
              /\ \E place \in Places \ {"prepare"} : raised = {[at |-> place, error |-> exc]}
    /\ pc = "prepare" =>
           \A r \in raised : r.error = "DiscoveryError" /\ Absorbed(r)
    /\ pc = "idle" => ErrorsRemainErrors

\* What has been resolved so far.
TargetInv ==
    /\ topology \in Topologies \/ (topology = {} /\ targets = << >>)
    /\ targets \in Seq([row : topology, known : BOOLEAN])
    /\ known \in BOOLEAN
    /\ \A i, j \in DOMAIN targets : i # j =>
           /\ targets[i].row.shard # targets[j].row.shard
           /\ targets[i].row.host # targets[j].row.host

PlanInv ==
    /\ TargetInv
    /\ pc # "idle" => plan = Unplanned
    /\ pc \in {"idle", "discover", "connect", "source"} => targets = << >>
    /\ pc \in {"shard", "open", "target"} => topology \in Topologies
    /\ pc = "closeTarget" => topology \in Topologies
    /\ pc \in {"open", "target"} => node \in Remaining /\ node.host \notin Resolved("host")
    /\ pc = "prepare" \/ (pc = "closeSource" /\ exc = "none") =>
           topology \in Topologies /\ Remaining = {}

IInv == config \in Configs /\ ClientInv /\ ErrorInv /\ PlanInv
-----------------------------------------------------------------------------
LEMMA InitIInv == Init => IInv
<1> SUFFICES ASSUME Init PROVE IInv
  OBVIOUS
<1>1. config \in Configs /\ ClientInv
  BY DEF Init, ClientInv, Places
<1>2. ErrorInv
  BY DEF Init, ErrorInv, ErrorsRemainErrors
<1>3. PlanInv
  BY DEF Init, PlanInv, TargetInv
<1> QED BY <1>1, <1>2, <1>3 DEF IInv

\* The invariant does not depend on the counters asked and prepared.
LEMMA KeepsIInv ==
    ASSUME IInv,
           UNCHANGED <<config, plan, result, raised, pc, clients, topology, node, targets, exc>>,
           known' \in BOOLEAN
    PROVE  IInv'
<1>1. ClientInv' /\ config' \in Configs
  BY DEF IInv, ClientInv
<1>2. ErrorInv'
  BY DEF IInv, ErrorInv, ErrorsRemainErrors, Absorbed
<1>3. PlanInv'
  BY DEF IInv, PlanInv, TargetInv, Remaining, Resolved
<1> QED BY <1>1, <1>2, <1>3 DEF IInv

\* After the call nothing is left of the resolution.
LEMMA ReturnKeeps ==
    ASSUME NEW p, NEW r, Return(p, r), UNCHANGED config, config \in Configs,
           clients' = {}, ErrorsRemainErrors'
    PROVE  IInv'
<1>1. ClientInv'
  BY DEF Return, ClientInv, Places
<1>2. ErrorInv'
  BY DEF Return, ErrorInv
<1>3. PlanInv'
  BY DEF Return, PlanInv, TargetInv
<1> QED BY <1>1, <1>2, <1>3 DEF IInv

\* An exception leaves the innermost open reader first.
LEMMA RaiseKeeps ==
    ASSUME IInv, NEW error \in Errors \cup Gap, Raise(error),
           pc \in {"source", "shard", "open", "target"},
           UNCHANGED <<config, plan, result, clients, topology, targets, known>>
    PROVE  IInv'
<1>1. exc' # "none" /\ exc' = error
  BY DEF Raise, Errors, Gap
<1>2. pc' = IF pc = "target" THEN "closeTarget" ELSE "closeSource"
  BY DEF Raise, Unwind, IInv, ClientInv
<1>3. ClientInv'
  BY <1>2 DEF IInv, ClientInv, Places
<1>4. raised' = {[at |-> pc, error |-> exc']}
  BY <1>1 DEF Raise, Record, IInv, ErrorInv
<1>5. ErrorInv'
  BY <1>1, <1>2, <1>4 DEF ErrorInv, Places
<1>6. PlanInv'
  BY <1>1, <1>2 DEF IInv, PlanInv, TargetInv
<1> QED BY <1>3, <1>5, <1>6 DEF IInv
-----------------------------------------------------------------------------
(* Before resolution *)

LEMMA CallKeeps == ASSUME IInv, Call PROVE IInv'
<1>1. ClientInv' /\ config' \in Configs
  BY DEF IInv, ClientInv, Call, Places
<1>2. ErrorInv'
  <2>1. raised' = {} /\ pc' \in {"idle", "discover"}
    BY DEF Call
  <2>2. pc' \notin {"closeTarget", "closeSource"} /\ exc' = "none"
    BY DEF Call, resolution, IInv, ErrorInv
  <2> QED BY <2>1, <2>2 DEF ErrorInv, ErrorsRemainErrors
<1>3. PlanInv'
  BY DEF IInv, PlanInv, TargetInv, Call, resolution
<1> QED BY <1>1, <1>2, <1>3 DEF IInv

LEMMA DiscoverKeeps ==
    ASSUME IInv,
           \/ \E engine \in {"View", "Distributed"} : DiscoverSource(engine)
           \/ \E error \in Errors : DiscoverSourceFails(error) \/ OpenSourceFails(error)
    PROVE  IInv'
<1>1. raised = {} /\ clients = {} /\ pc \in {"discover", "connect"}
  BY DEF IInv, ErrorInv, ClientInv, DiscoverSource, DiscoverSourceFails, OpenSourceFails
<1>2. ASSUME NEW engine \in {"View", "Distributed"}, DiscoverSource(engine) PROVE IInv'
  <2>1. CASE Convertible(engine) /\ config.eligible
    <3>1. pc' = "connect" /\ UNCHANGED <<config, plan, result, raised, clients, resolution>>
      BY <1>2, <2>1 DEF DiscoverSource
    <3>2. pc = "discover"
      BY <1>2 DEF DiscoverSource
    <3>3. ClientInv' /\ ErrorInv'
      BY <1>1, <3>1, <3>2 DEF IInv, ClientInv, ErrorInv, Places, resolution
    <3>4. PlanInv'
      BY <3>1, <3>2 DEF IInv, PlanInv, TargetInv, resolution
    <3> QED BY <3>1, <3>3, <3>4 DEF IInv
  <2>2. CASE ~(Convertible(engine) /\ config.eligible)
    <3>1. Return(Logical, "planned") /\ UNCHANGED <<config, clients>>
      BY <1>2, <2>2 DEF DiscoverSource
    <3>2. raised' \subseteq {[at |-> pc, error |-> "NotApplicable"]}
      BY <1>1, <1>2, <2>2 DEF DiscoverSource, Record
    <3>3. ErrorsRemainErrors'
      BY <3>1, <3>2 DEF ErrorsRemainErrors, Absorbed, Return
    <3> QED BY <1>1, <3>1, <3>3, ReturnKeeps DEF IInv
  <2> QED BY <2>1, <2>2
<1>3. ASSUME NEW error \in Errors, DiscoverSourceFails(error) \/ OpenSourceFails(error)
      PROVE  IInv'
  <2>1. Return(Unplanned, "error") /\ UNCHANGED <<config, clients>>
    BY <1>3 DEF DiscoverSourceFails, OpenSourceFails
  <2>2. raised' = {[at |-> pc, error |-> error]}
    BY <1>1, <1>3 DEF DiscoverSourceFails, OpenSourceFails, Record
  <2>3. ErrorsRemainErrors'
    BY <1>1, <2>1, <2>2 DEF ErrorsRemainErrors, Absorbed, Return, Errors
  <2> QED BY <1>1, <2>1, <2>3, ReturnKeeps DEF IInv
<1> QED BY <1>2, <1>3

LEMMA OpenKeeps == ASSUME IInv, OpenSource \/ OpenTarget PROVE IInv'
<1>1. /\ pc' = IF pc = "connect" THEN "source" ELSE "target"
      /\ pc \in {"connect", "open"} /\ known' \in BOOLEAN
      /\ UNCHANGED <<config, plan, result, raised, topology, node, targets, exc>>
  BY DEF OpenSource, OpenTarget, resolution, IInv, PlanInv, TargetInv
<1>2. clients' = IF pc = "connect" THEN {"source"} ELSE {"source", "target"}
  BY DEF OpenSource, OpenTarget, IInv, ClientInv
<1>3. ClientInv' /\ ErrorInv'
  BY <1>1, <1>2 DEF IInv, ClientInv, ErrorInv, Places
<1>4. pc = "connect" => targets = << >>
  BY DEF IInv, PlanInv
<1>5. PlanInv'
  BY <1>1, <1>4 DEF IInv, PlanInv, TargetInv, Remaining, Resolved
<1> QED BY <1>1, <1>3, <1>5 DEF IInv
-----------------------------------------------------------------------------
(* Questions *)

LEMMA QuestionKeeps ==
    ASSUME IInv,
           \/ Answered \/ Missing \/ \E rows \in Topologies : TopologyRead(rows)
           \/ \E error \in Errors \cup Gap : Unanswered(error) \/ OpenTargetFails(error)
    PROVE  IInv'
<1>1. CASE Answered \/ Missing
  <2>1. known' \in BOOLEAN
    BY <1>1 DEF Answered, Missing, IInv, PlanInv, TargetInv
  <2>2. UNCHANGED <<config, plan, result, raised, pc, clients, topology, node, targets, exc>>
    BY <1>1 DEF Answered, Missing
  <2> QED BY <2>1, <2>2, KeepsIInv
<1>2. ASSUME NEW error \in Errors \cup Gap, Unanswered(error) \/ OpenTargetFails(error)
      PROVE  IInv'
  <2>1. Raise(error) /\ pc \in {"source", "target", "open"}
    BY <1>2 DEF Unanswered, OpenTargetFails, Asking
  <2>2. UNCHANGED <<config, plan, result, clients, topology, targets, known>>
    BY <1>2 DEF Unanswered, OpenTargetFails
  <2> QED BY <2>1, <2>2, RaiseKeeps
<1>3. ASSUME NEW rows \in Topologies, TopologyRead(rows) PROVE IInv'
  <2>1. CASE Malformed(rows)
    <3>1. Raise("DiscoveryError") /\ pc = "source"
      BY <1>3, <2>1 DEF TopologyRead
    <3>2. UNCHANGED <<config, plan, result, clients, topology, targets, known>>
      BY <1>3, <2>1 DEF TopologyRead
    <3> QED BY <3>1, <3>2, RaiseKeeps DEF Errors
  <2>2. CASE ~Malformed(rows)
    <3>1. /\ pc = "source" /\ pc' = "shard" /\ topology' = rows
          /\ UNCHANGED <<config, plan, result, raised, clients, node, targets, known, exc>>
      BY <1>3, <2>2 DEF TopologyRead
    <3>2. ClientInv' /\ ErrorInv'
      BY <3>1 DEF IInv, ClientInv, ErrorInv, Places
    <3>3. targets = << >>
      BY <3>1 DEF IInv, PlanInv
    <3>4. TargetInv'
      BY <3>1, <3>3 DEF IInv, PlanInv, TargetInv
    <3>5. PlanInv'
      BY <3>1, <3>4 DEF IInv, PlanInv
    <3> QED BY <3>1, <3>2, <3>5 DEF IInv
  <2> QED BY <2>1, <2>2
<1> QED BY <1>1, <1>2, <1>3
-----------------------------------------------------------------------------
(* Shards *)

LEMMA SelectKeeps == ASSUME IInv, NEW r \in topology, SelectReplica(r) PROVE IInv'
<1>1. pc = "shard" /\ r \in Remaining /\ node' = r
  BY DEF SelectReplica
<1>2. UNCHANGED <<config, plan, result, clients, topology, targets, known>>
  BY DEF SelectReplica
<1>3. CASE r.host \in Resolved("host")
  <2>1. Raise("DiscoveryError")
    BY <1>3 DEF SelectReplica
  <2> QED BY <1>1, <1>2, <2>1, RaiseKeeps DEF Errors
<1>4. CASE r.host \notin Resolved("host")
  <2>1. pc' = "open" /\ UNCHANGED <<exc, raised>>
    BY <1>4 DEF SelectReplica
  <2>2. ClientInv' /\ ErrorInv'
    BY <1>1, <1>2, <2>1 DEF IInv, ClientInv, ErrorInv, Places
  <2>3. Remaining' = Remaining /\ Resolved("host")' = Resolved("host")
    BY <1>2 DEF Remaining, Resolved
  <2>4. TargetInv'
    BY <1>2 DEF IInv, PlanInv, TargetInv
  <2>5. PlanInv'
    BY <1>1, <1>2, <1>4, <2>1, <2>3, <2>4 DEF IInv, PlanInv
  <2> QED BY <1>2, <2>2, <2>5 DEF IInv
<1> QED BY <1>3, <1>4

\* A resolved target has a shard and a server of its own.
LEMMA ResolvedKeeps == ASSUME IInv, TargetResolved PROVE IInv'
<1>1. /\ pc = "target" /\ pc' = "closeTarget"
      /\ targets' = Append(targets, [row |-> node, known |-> known])
      /\ UNCHANGED <<config, plan, result, raised, clients, topology, node, known, exc>>
  BY DEF TargetResolved
<1>2. ClientInv' /\ ErrorInv'
  BY <1>1 DEF IInv, ClientInv, ErrorInv, Places
<1>3. topology \in Topologies /\ node \in topology /\ TargetInv
  BY <1>1 DEF IInv, PlanInv, Remaining
<1>4. \A i \in DOMAIN targets :
          targets[i].row.shard # node.shard /\ targets[i].row.host # node.host
  BY <1>1 DEF IInv, PlanInv, Remaining, Resolved
<1>5. targets' \in Seq([row : topology', known : BOOLEAN])
  BY <1>1, <1>3 DEF TargetInv
<1>6. /\ DOMAIN targets = 1..Len(targets) /\ Len(targets) \in Nat
      /\ DOMAIN targets' = 1..(Len(targets) + 1)
      /\ \A i \in DOMAIN targets : targets'[i] = targets[i]
      /\ targets'[Len(targets) + 1].row = node
  BY <1>1, <1>3 DEF TargetInv
<1>7. ASSUME NEW i \in DOMAIN targets', NEW j \in DOMAIN targets', i # j
      PROVE  /\ targets'[i].row.shard # targets'[j].row.shard
             /\ targets'[i].row.host # targets'[j].row.host
  <2>1. CASE i \in DOMAIN targets /\ j \in DOMAIN targets
    BY <1>3, <1>6, <1>7, <2>1 DEF TargetInv
  <2>2. CASE i \in DOMAIN targets /\ j = Len(targets) + 1
    BY <1>4, <1>6, <2>2
  <2>3. CASE i = Len(targets) + 1 /\ j \in DOMAIN targets
    BY <1>4, <1>6, <2>3
  <2>4. \A k \in DOMAIN targets' : k \in DOMAIN targets \/ k = Len(targets) + 1
    BY <1>6
  <2> QED BY <1>7, <2>1, <2>2, <2>3, <2>4
<1>8. TargetInv'
  BY <1>1, <1>3, <1>5, <1>7 DEF TargetInv
<1>9. PlanInv'
  BY <1>1, <1>3, <1>8 DEF IInv, PlanInv, ErrorInv
<1> QED BY <1>1, <1>2, <1>9 DEF IInv

LEMMA AllShardsKeeps == ASSUME IInv, AllShards PROVE IInv'
<1>1. /\ pc = "shard" /\ Remaining = {} /\ pc' = "closeSource"
      /\ UNCHANGED <<config, plan, result, raised, clients, topology, node, targets, known, exc>>
  BY DEF AllShards, resolution
<1>2. ClientInv' /\ ErrorInv'
  BY <1>1 DEF IInv, ClientInv, ErrorInv, Places
<1>3. Remaining' = {} /\ TargetInv'
  BY <1>1 DEF Remaining, Resolved, IInv, PlanInv, TargetInv
<1>4. PlanInv'
  BY <1>1, <1>3 DEF IInv, PlanInv
<1> QED BY <1>1, <1>2, <1>4 DEF IInv
-----------------------------------------------------------------------------
(* Closing *)

\* An error of close() is new only if no exception is in flight.
LEMMA CloseError ==
    ASSUME IInv, NEW closes \in BOOLEAN, RecordClose(closes),
           pc \in {"closeTarget", "closeSource"}
    PROVE  \/ AfterClose(closes) = "none" /\ exc = "none" /\ raised' = {}
           \/ /\ AfterClose(closes) \in Errors \cup Gap
              /\ \E place \in Places \ {"prepare"} :
                     raised' = {[at |-> place, error |-> AfterClose(closes)]}
<1>1. "none" \notin Errors \cup Gap /\ "OtherError" \in Errors
  BY DEF Errors, Gap
<1>2. CASE AfterClose(closes) = exc
  <2>1. raised' = raised
    BY <1>2 DEF RecordClose
  <2> QED BY <1>2, <2>1 DEF IInv, ErrorInv
<1>3. CASE AfterClose(closes) # exc
  <2>1. exc = "none" /\ AfterClose(closes) = "OtherError"
    BY <1>3 DEF AfterClose
  <2>2. raised = {}
    BY <1>1, <2>1 DEF IInv, ErrorInv
  <2>3. raised' = {[at |-> pc, error |-> "OtherError"]}
    BY <1>3, <2>2 DEF RecordClose, Record
  <2> QED BY <1>1, <2>1, <2>3 DEF Places
<1> QED BY <1>2, <1>3

LEMMA CloseTargetKeeps ==
    ASSUME IInv, NEW closes \in BOOLEAN, CloseTarget(closes) PROVE IInv'
<1>1. /\ pc = "closeTarget" /\ clients' = clients \ {"target"}
      /\ exc' = AfterClose(closes) /\ RecordClose(closes)
      /\ pc' = IF exc' = "none" THEN "shard" ELSE "closeSource"
      /\ UNCHANGED <<config, plan, result, topology, node, targets, known>>
  BY DEF CloseTarget
<1>2. ClientInv'
  BY <1>1 DEF IInv, ClientInv, Places
<1>3. ErrorInv'
  <2>1. "none" \notin Errors \cup Gap
    BY DEF Errors, Gap
  <2>2. \/ exc' = "none" /\ raised' = {}
        \/ /\ exc' \in Errors \cup Gap
           /\ \E place \in Places \ {"prepare"} : raised' = {[at |-> place, error |-> exc']}
    BY <1>1, CloseError
  <2> QED BY <1>1, <2>1, <2>2 DEF ErrorInv
<1>4. TargetInv' /\ topology' \in Topologies
  BY <1>1 DEF IInv, PlanInv, TargetInv
<1>5. PlanInv'
  BY <1>1, <1>4 DEF IInv, PlanInv
<1> QED BY <1>1, <1>2, <1>3, <1>5 DEF IInv

LEMMA CloseSourceKeeps ==
    ASSUME IInv, NEW closes \in BOOLEAN, CloseSource(closes) PROVE IInv'
<1>1. /\ pc = "closeSource" /\ clients' = clients \ {"source"}
      /\ RecordClose(closes) /\ UNCHANGED config
  BY DEF CloseSource
<1>2. clients' = {}
  BY <1>1 DEF IInv, ClientInv
<1>3. CASE AfterClose(closes) = "none"
  <2>1. pc' = "prepare" /\ UNCHANGED <<plan, result, resolution>>
    BY <1>3 DEF CloseSource
  <2>2. exc = "none" /\ raised' = {}
    BY <1>1, <1>3, CloseError DEF Errors, Gap
  <2>3. ClientInv' /\ ErrorInv'
    BY <1>2, <2>1, <2>2 DEF ClientInv, ErrorInv, Places, resolution
  <2>4. Remaining' = {} /\ topology' \in Topologies /\ TargetInv'
    BY <1>1, <2>1, <2>2 DEF IInv, PlanInv, TargetInv, Remaining, Resolved, resolution
  <2>5. PlanInv'
    BY <1>1, <2>1, <2>4 DEF IInv, PlanInv
  <2> QED BY <1>1, <2>3, <2>5 DEF IInv
<1>4. CASE AfterClose(closes) # "none"
  <2>1. PICK place \in Places \ {"prepare"} :
            raised' = {[at |-> place, error |-> AfterClose(closes)]}
    BY <1>1, <1>4, CloseError
  <2>2. CASE AfterClose(closes) = "NotApplicable"
    <3>1. Return(Logical, "planned")
      BY <2>2 DEF CloseSource
    <3>2. ErrorsRemainErrors'
      BY <2>1, <2>2, <3>1 DEF ErrorsRemainErrors, Absorbed, Return
    <3> QED BY <1>1, <1>2, <3>1, <3>2, ReturnKeeps DEF IInv
  <2>3. CASE AfterClose(closes) # "NotApplicable"
    <3>1. Return(Unplanned, "error")
      BY <1>4, <2>3 DEF CloseSource
    <3>2. ErrorsRemainErrors'
      BY <2>1, <2>3, <3>1 DEF ErrorsRemainErrors, Absorbed, Return
    <3> QED BY <1>1, <1>2, <3>1, <3>2, ReturnKeeps DEF IInv
  <2> QED BY <2>2, <2>3
<1> QED BY <1>3, <1>4
-----------------------------------------------------------------------------
(* Local sources *)

\* A local source more, and perhaps an error that is absorbed.
LEMMA PreparedKeeps ==
    ASSUME IInv, pc = "prepare", Prepared, UNCHANGED <<config, clients>>,
           \A r \in raised' : r \in raised \/ (r.error = "DiscoveryError" /\ Absorbed(r))
    PROVE  IInv'
<1>1. UNCHANGED <<plan, result, pc, topology, node, targets, known, exc>>
  BY DEF Prepared
<1>2. ClientInv'
  BY <1>1 DEF IInv, ClientInv
<1>3. ErrorInv'
  BY <1>1 DEF IInv, ErrorInv, Absorbed
<1>4. Remaining' = Remaining /\ TargetInv'
  BY <1>1 DEF IInv, PlanInv, TargetInv, Remaining, Resolved
<1>5. PlanInv'
  BY <1>1, <1>4 DEF IInv, PlanInv
<1> QED BY <1>2, <1>3, <1>5 DEF IInv

LEMMA PrepareKeeps ==
    ASSUME IInv, \/ PrepareSource \/ SplitUnavailable \/ Publish
                 \/ \E error \in Errors \cup Gap : PrepareFails(error)
    PROVE  IInv'
<1>1. /\ pc = "prepare" /\ UNCHANGED <<config, clients>> /\ clients = {}
      /\ \A r \in raised : r.error = "DiscoveryError" /\ Absorbed(r)
  BY DEF PrepareSource, SplitUnavailable, Publish, PrepareFails, Preparing, IInv, ClientInv,
         ErrorInv
<1>2. config.policy \in {"single", "error"}
  BY PlanningAssumption DEF IInv
<1>3. CASE PrepareSource
  BY <1>1, <1>3, PreparedKeeps DEF PrepareSource
<1>4. CASE SplitUnavailable
  <2>1. raised' = raised \cup {[at |-> "prepare", error |-> "DiscoveryError"]}
    BY <1>1, <1>4 DEF SplitUnavailable, Record
  <2>2. CASE config.policy = "error"
    <3>1. Return(Unplanned, "error")
      BY <1>4, <2>2 DEF SplitUnavailable
    <3>2. ErrorsRemainErrors'
      BY <1>1, <2>1, <2>2, <3>1 DEF ErrorsRemainErrors, Absorbed, Return
    <3> QED BY <1>1, <3>1, <3>2, ReturnKeeps DEF IInv
  <2>3. CASE config.policy = "single"
    <3>1. Prepared
      BY <1>4, <2>3 DEF SplitUnavailable
    <3>2. Absorbed([at |-> "prepare", error |-> "DiscoveryError"])
      BY <2>3 DEF Absorbed
    <3> QED BY <1>1, <2>1, <3>1, <3>2, PreparedKeeps
  <2> QED BY <1>2, <2>2, <2>3
<1>5. CASE Publish
  <2>1. Return([i \in DOMAIN targets |-> targets[i].row], "planned") /\ raised' = raised
    BY <1>5 DEF Publish
  <2>2. ErrorsRemainErrors'
    BY <1>1, <2>1 DEF ErrorsRemainErrors, Absorbed, Return
  <2> QED BY <1>1, <2>1, <2>2, ReturnKeeps DEF IInv
<1>6. ASSUME NEW error \in Errors \cup Gap, PrepareFails(error) PROVE IInv'
  <2>1. Return(Unplanned, "error") /\ error \in {"OtherError", "Interrupt"}
    BY <1>6 DEF PrepareFails, Errors
  <2>2. [at |-> "prepare", error |-> error] \in raised'
    BY <1>1, <1>6 DEF PrepareFails, Record
  <2>3. ErrorsRemainErrors'
    BY <2>1, <2>2 DEF ErrorsRemainErrors, Absorbed, Return
  <2> QED BY <1>1, <2>1, <2>3, ReturnKeeps DEF IInv
<1> QED BY <1>3, <1>4, <1>5, <1>6
-----------------------------------------------------------------------------
LEMMA StepIInv == IInv /\ [Next]_vars => IInv'
<1> SUFFICES ASSUME IInv, [Next]_vars PROVE IInv'
  OBVIOUS
<1>1. CASE Call
  BY <1>1, CallKeeps
<1>2. CASE Step
  <2>1. CASE \E engine \in {"View", "Distributed"} : DiscoverSource(engine)
    BY <2>1, DiscoverKeeps
  <2>2. CASE OpenSource \/ OpenTarget
    BY <2>2, OpenKeeps
  <2>3. CASE Answered \/ Missing \/ \E rows \in Topologies : TopologyRead(rows)
    BY <2>3, QuestionKeeps
  <2>4. CASE \E r \in topology : SelectReplica(r)
    BY <2>4, SelectKeeps
  <2>5. CASE TargetResolved
    BY <2>5, ResolvedKeeps
  <2>6. CASE AllShards
    BY <2>6, AllShardsKeeps
  <2>7. CASE \E closes \in BOOLEAN : CloseTarget(closes) \/ CloseSource(closes)
    BY <2>7, CloseTargetKeeps, CloseSourceKeeps
  <2>8. CASE PrepareSource \/ SplitUnavailable \/ Publish
    BY <2>8, PrepareKeeps
  <2> QED BY <1>2, <2>1, <2>2, <2>3, <2>4, <2>5, <2>6, <2>7, <2>8 DEF Step
<1>3. CASE Fault
  <2>1. PICK error \in Errors \cup Gap :
            \/ Unanswered(error) \/ PrepareFails(error)
            \/ error \in Errors /\ (\/ DiscoverSourceFails(error) \/ OpenSourceFails(error)
                                    \/ OpenTargetFails(error))
    BY <1>3 DEF Fault, Gap
  <2>2. CASE Unanswered(error) \/ OpenTargetFails(error)
    BY <2>2, QuestionKeeps
  <2>3. CASE PrepareFails(error)
    BY <2>3, PrepareKeeps
  <2>4. CASE error \in Errors /\ (DiscoverSourceFails(error) \/ OpenSourceFails(error))
    BY <2>4, DiscoverKeeps
  <2> QED BY <2>1, <2>2, <2>3, <2>4
<1>4. CASE UNCHANGED vars
  <2>1. known \in BOOLEAN
    BY DEF IInv, PlanInv, TargetInv
  <2>2. /\ UNCHANGED <<config, plan, result, raised, pc, clients, topology, node, targets, exc>>
        /\ known' = known
    BY <1>4 DEF vars, resolution
  <2> QED BY <2>1, <2>2, KeepsIInv
<1> QED BY <1>1, <1>2, <1>3, <1>4 DEF Next, Ended

\* The inductive invariant holds throughout planning: the readers open, the
\* error in flight and the shards resolved are what each place in
\* resolve_distributed and _ensure_planning_snapshot needs them to be.
THEOREM Invariance == Spec => []IInv
<1> QED BY InitIInv, StepIInv, PTL DEF Spec

LEMMA SeqElement == ASSUME NEW S, NEW s \in Seq(S), NEW i \in DOMAIN s PROVE s[i] \in S
  OBVIOUS

\* What of TypeOK the inductive invariant does not say.
Counted ==
    /\ calls \in 0..Calls /\ asked \in Nat /\ prepared \in 0..Len(targets)
    /\ result \in {"none", "planned", "error"}
    /\ plan \in {Unplanned, Logical} \cup Seq(Replicas)
    /\ raised \subseteq [at : Places, error : Errors \cup Gap]
    /\ node \in Replicas \cup {NoNode}

LEMMA ReturnCounted ==
    ASSUME Counted, NEW p \in {Unplanned, Logical} \cup Seq(Replicas), NEW r \in {"planned", "error"},
           Return(p, r), calls' = calls,
           raised' \subseteq [at : Places, error : Errors \cup Gap]
    PROVE  Counted'
  BY DEF Counted, Return

LEMMA RecordCounted ==
    ASSUME IInv, Counted, NEW error \in Errors \cup Gap, Record(error)
    PROVE  raised' \subseteq [at : Places, error : Errors \cup Gap]
  BY DEF Counted, Record, IInv, ClientInv

LEMMA StepCounted == IInv /\ Counted /\ [Next]_vars => Counted'
<1> SUFFICES ASSUME IInv, Counted, [Next]_vars PROVE Counted'
  OBVIOUS
<1>1. /\ topology \subseteq Replicas /\ Len(targets) \in Nat /\ Calls \in Nat
      /\ targets \in Seq([row : topology, known : BOOLEAN])
      /\ pc \in Places
  BY PlanningAssumption DEF IInv, ClientInv, PlanInv, TargetInv
<1>2. "OtherError" \in Errors /\ "DiscoveryError" \in Errors /\ "NotApplicable" \in Gap
  BY DEF Errors, Gap
<1>3. CASE Call
  BY <1>1, <1>3 DEF Call, Counted, resolution
<1>4. ASSUME NEW error \in Errors \cup Gap,
             \/ Unanswered(error) \/ OpenTargetFails(error) \/ PrepareFails(error)
             \/ DiscoverSourceFails(error) \/ OpenSourceFails(error)
      PROVE  Counted'
  <2>1. Record(error) /\ calls' = calls
    BY <1>4 DEF Unanswered, OpenTargetFails, PrepareFails, DiscoverSourceFails,
                OpenSourceFails, Raise
  <2>2. \/ Return(Unplanned, "error")
        \/ UNCHANGED <<calls, asked, prepared, targets, result, plan, node>>
    BY <1>4 DEF Unanswered, OpenTargetFails, PrepareFails, DiscoverSourceFails,
                OpenSourceFails
  <2> QED BY <2>1, <2>2, RecordCounted, ReturnCounted DEF Counted
<1>5. ASSUME NEW engine \in {"View", "Distributed"}, DiscoverSource(engine) PROVE Counted'
  <2>1. \/ UNCHANGED <<calls, raised, plan, result, resolution>>
        \/ /\ Return(Logical, "planned") /\ calls' = calls
           /\ Record("NotApplicable") \/ UNCHANGED raised
    BY <1>5 DEF DiscoverSource
  <2> QED BY <1>2, <2>1, RecordCounted, ReturnCounted DEF Counted, resolution
<1>6. CASE \/ OpenSource \/ Answered \/ Missing \/ OpenTarget \/ AllShards
  BY <1>6 DEF OpenSource, Answered, Missing, OpenTarget, AllShards, Counted, resolution
<1>7. ASSUME NEW rows \in Topologies, TopologyRead(rows) PROVE Counted'
  <2>1. /\ UNCHANGED <<calls, asked, prepared, targets, result, plan, node>>
        /\ Record("DiscoveryError") \/ UNCHANGED raised
    BY <1>7 DEF TopologyRead, Raise
  <2> QED BY <1>2, <2>1, RecordCounted DEF Counted
<1>8. ASSUME NEW r \in topology, SelectReplica(r) PROVE Counted'
  <2>1. /\ UNCHANGED <<calls, asked, prepared, targets, result, plan>> /\ node' = r
        /\ Record("DiscoveryError") \/ UNCHANGED raised
    BY <1>8 DEF SelectReplica, Raise
  <2>2. node' \in Replicas
    BY <1>1, <2>1
  <2> QED BY <1>2, <2>1, <2>2, RecordCounted DEF Counted
<1>9. CASE TargetResolved
  <2>1. Len(targets') = Len(targets) + 1
    BY <1>1, <1>9 DEF TargetResolved
  <2> QED BY <1>1, <1>9, <2>1 DEF TargetResolved, Counted
<1>10. ASSUME NEW closes \in BOOLEAN, CloseTarget(closes) \/ CloseSource(closes) PROVE Counted'
  <2>1. RecordClose(closes) /\ calls' = calls
    BY <1>10 DEF CloseTarget, CloseSource
  <2>2. raised' \subseteq [at : Places, error : Errors \cup Gap]
    BY <1>2, <2>1, RecordCounted DEF RecordClose, Counted
  <2>3. \/ UNCHANGED <<asked, prepared, targets, result, plan, node>>
        \/ Return(Logical, "planned") \/ Return(Unplanned, "error")
    BY <1>10 DEF CloseTarget, CloseSource, resolution
  <2> QED BY <2>1, <2>2, <2>3, ReturnCounted DEF Counted
<1>11. CASE PrepareSource \/ SplitUnavailable
  <2>1. calls' = calls /\ (Record("DiscoveryError") \/ UNCHANGED raised) /\ Preparing
    BY <1>11 DEF PrepareSource, SplitUnavailable
  <2>2. raised' \subseteq [at : Places, error : Errors \cup Gap]
    BY <1>2, <2>1, RecordCounted DEF Counted
  <2>3. Return(Unplanned, "error") \/ Prepared
    BY <1>11 DEF PrepareSource, SplitUnavailable
  <2>4. CASE Prepared
    <3>1. prepared' \in 0..Len(targets)
      BY <1>1, <2>1, <2>4 DEF Prepared, Preparing, Counted
    <3> QED BY <2>1, <2>2, <2>4, <3>1 DEF Prepared, Counted
  <2> QED BY <2>1, <2>2, <2>3, <2>4, ReturnCounted
<1>12. CASE Publish
  <2>1. Return([i \in DOMAIN targets |-> targets[i].row], "planned")
        /\ calls' = calls /\ raised' = raised
    BY <1>12 DEF Publish
  <2>2. \A i \in DOMAIN targets : targets[i] \in [row : topology, known : BOOLEAN]
    BY <1>1, SeqElement
  <2>3. DOMAIN targets = 1..Len(targets)
    BY <1>1
  <2>4. [i \in DOMAIN targets |-> targets[i].row] \in Seq(Replicas)
    BY <1>1, <2>2, <2>3
  <2> QED BY <2>1, <2>4, ReturnCounted DEF Counted
<1>13. CASE UNCHANGED vars
  BY <1>13 DEF vars, resolution, Counted
<1> QED
  BY <1>3, <1>4, <1>5, <1>6, <1>7, <1>8, <1>9, <1>10, <1>11, <1>12, <1>13
  DEF Next, Step, Fault, Ended, Gap

\* The type invariant: what one call of resolve_distributed and
\* _ensure_planning_snapshot works with, and the plan it leaves.
THEOREM TypeCorrect == Spec => []TypeOK
<1>1. Init => Counted
  BY PlanningAssumption DEF Init, Counted
<1>2. IInv /\ Counted => TypeOK
  <2> SUFFICES ASSUME IInv, Counted PROVE TypeOK
    OBVIOUS
  <2>1. topology \in Topologies \cup {{}} /\ targets \in Seq([row : topology, known : BOOLEAN])
        /\ known \in BOOLEAN
    BY DEF IInv, PlanInv, TargetInv
  <2>2. exc \in {"none"} \cup Errors \cup Gap
    BY DEF IInv, ErrorInv
  <2>3. config \in Configs /\ pc \in Places /\ clients \subseteq {"source", "target"}
    BY DEF IInv, ClientInv
  <2> QED BY <2>1, <2>2, <2>3 DEF Counted, TypeOK
<1> QED BY InitIInv, StepIInv, StepCounted, <1>1, <1>2, PTL DEF Spec

\* The with blocks of metadata_reader leave no client open, whatever the
\* cluster and wherever planning stops.
THEOREM Closing == Spec => []ClientsClosed
<1>1. IInv => ClientsClosed
  BY DEF IInv, ClientInv, ClientsClosed
<1> QED BY <1>1, Invariance, PTL

\* _ensure_planning_snapshot turns a confirmed gap, and no other error of
\* resolve_distributed, into a plan.
THEOREM Errors_remain_errors == Spec => []ErrorsRemainErrors
<1>1. IInv => ErrorsRemainErrors
  BY DEF IInv, ErrorInv, ErrorsRemainErrors
<1> QED BY <1>1, Invariance, PTL
-----------------------------------------------------------------------------
(* The promise *)

LEMMA PublishReads == ASSUME IInv, Publish PROVE Promise!Succeed
<1>1. /\ pc = "prepare" /\ result' = "planned"
      /\ plan' = [i \in DOMAIN targets |-> targets[i].row]
  BY DEF Publish, Return
<1>2. plan = Unplanned /\ topology \in Topologies /\ Remaining = {} /\ TargetInv
  BY <1>1 DEF IInv, PlanInv
<1>3. /\ DOMAIN plan' = DOMAIN targets
      /\ \A i \in DOMAIN targets : plan'[i] = targets[i].row /\ targets[i].row \in topology
  <2>1. DOMAIN plan' = DOMAIN targets /\ \A i \in DOMAIN targets : plan'[i] = targets[i].row
    BY <1>1
  <2>2. targets \in Seq([row : topology, known : BOOLEAN])
    BY <1>2 DEF TargetInv
  <2>3. \A i \in DOMAIN targets : targets[i] \in [row : topology, known : BOOLEAN]
    BY <2>2, SeqElement
  <2> QED BY <2>1, <2>3
<1>4. plan' # Unplanned
  <2>1. topology \subseteq Replicas
    BY <1>2, PlanningAssumption
  <2>2. DOMAIN targets = 1..Len(targets) /\ Len(targets) \in Nat
    BY <1>2 DEF TargetInv
  <2>3. plan' \in Seq(Replicas)
    BY <1>1, <1>3, <2>1, <2>2
  <2> QED BY <2>3, PlanningAssumption
<1>5. Promise!ReadsOnce(plan', topology)
  <2>1. \A r \in topology : \E i \in DOMAIN plan' : plan'[i].shard = r.shard
    BY <1>2, <1>3 DEF Remaining, Resolved
  <2>2. \A i, j \in DOMAIN plan' : i # j => /\ plan'[i].shard # plan'[j].shard
                                          /\ plan'[i].host # plan'[j].host
    BY <1>2, <1>3 DEF TargetInv
  <2> QED BY <1>3, <2>1, <2>2 DEF Promise!ReadsOnce
<1> QED BY <1>1, <1>2, <1>4, <1>5 DEF Promise!Succeed

\* A call that planning ends without a plan of local sources.
LEMMA ReturnPromises ==
    ASSUME IInv, pc # "idle",
           Return(Unplanned, "error") \/ Return(Logical, "planned")
    PROVE  Promise!Succeed \/ Promise!Fail
  BY PlanningAssumption DEF IInv, PlanInv, Return, Promise!Succeed, Promise!Fail

LEMMA StepPromises ==
    ASSUME IInv, [Next]_vars
    PROVE  \/ Promise!Call \/ Promise!Succeed \/ Promise!Reuse \/ Promise!Fail
           \/ UNCHANGED <<plan, result>>
<1>1. CASE Call
  BY <1>1 DEF Call, Promise!Call, Promise!Reuse
<1>2. CASE Step
  <2>1. ASSUME NEW engine \in {"View", "Distributed"}, DiscoverSource(engine)
        PROVE  (Return(Logical, "planned") /\ pc # "idle") \/ UNCHANGED <<plan, result>>
    BY <2>1 DEF DiscoverSource
  <2>2. CASE \/ OpenSource \/ Answered \/ Missing \/ OpenTarget \/ TargetResolved \/ AllShards
             \/ PrepareSource
    BY <2>2 DEF OpenSource, Answered, Missing, OpenTarget, TargetResolved, AllShards,
                PrepareSource, Prepared
  <2>3. CASE \/ \E rows \in Topologies : TopologyRead(rows)
             \/ \E r \in topology : SelectReplica(r)
             \/ \E closes \in BOOLEAN : CloseTarget(closes)
    BY <2>3 DEF TopologyRead, SelectReplica, CloseTarget
  <2>4. ASSUME NEW closes \in BOOLEAN, CloseSource(closes)
        PROVE  \/ pc # "idle" /\ (Return(Unplanned, "error") \/ Return(Logical, "planned"))
               \/ UNCHANGED <<plan, result>>
    BY <2>4 DEF CloseSource
  <2>5. CASE SplitUnavailable
    <3>1. pc # "idle" /\ (Return(Unplanned, "error") \/ Prepared)
      BY <2>5 DEF SplitUnavailable, Preparing
    <3> QED BY <3>1, ReturnPromises DEF Prepared
  <2> QED BY <1>2, <2>1, <2>2, <2>3, <2>4, <2>5, PublishReads, ReturnPromises DEF Step
<1>3. CASE Fault
  <2>1. PICK error :
            \/ Unanswered(error) \/ PrepareFails(error) \/ OpenTargetFails(error)
            \/ DiscoverSourceFails(error) \/ OpenSourceFails(error)
    BY <1>3 DEF Fault
  <2>2. \/ UNCHANGED <<plan, result>>
        \/ pc # "idle" /\ Return(Unplanned, "error")
    BY <2>1 DEF Unanswered, OpenTargetFails, PrepareFails, DiscoverSourceFails,
                OpenSourceFails, Preparing
  <2> QED BY <2>2, ReturnPromises
<1>4. CASE UNCHANGED vars
  BY <1>4 DEF vars
<1> QED BY <1>1, <1>2, <1>3, <1>4 DEF Next, Ended

\* Resolving, preparing and publishing is one step to the reader: a plan that
\* is missing a shard, reads one twice, or changes later is never published.
THEOREM Implementation == Spec => ImplementsPlan
<1>1. Init => Promise!Init
  BY DEF Init, Promise!Init
<1>2. IInv /\ [Next]_vars =>
          [Promise!Call \/ Promise!Succeed \/ Promise!Reuse \/ Promise!Fail]_<<plan, result>>
  BY StepPromises
<1> QED BY <1>1, <1>2, Invariance, PTL DEF Spec, ImplementsPlan, Promise!Spec
=============================================================================
