------------------------ MODULE ReleasePromotionProofs ------------------------
(***************************************************************************)
(* For any number of candidates, runs, failures and things put in place by *)
(* hand: what reaches PyPI is what TestPyPI and the tag hold, and receipts *)
(* tell the truth and are chained.                                         *)
(*                                                                         *)
(* The argument is the chain itself: an operation other than the dry run   *)
(* started from a receipt, receipts are true when they are made, and       *)
(* nothing that one tells of is ever replaced.                             *)
(***************************************************************************)
EXTENDS ReleasePromotion, TLAPS

USE DEF Distributions, Names, Indexes, Operations

\* What an operation on c leaves behind.
Attained(op, c) ==
    /\ op # "dry-run" => OnIndex("testpypi", c)
    /\ op \in {"release-tag", "pypi", "github-release"} => Tagged(c)
    /\ op \in {"pypi", "github-release"} => OnIndex("pypi", c)
    /\ op = "github-release" =>
         /\ release # None /\ ~release.draft
         /\ \A n \in Names \ {"other"} : release.assets[n] = files[c][n]

Phases(op) ==
    CASE op = "dry-run"        -> {"absent"}
      [] op = "testpypi"       -> {"state", "publish", "verify"}
      [] op = "release-tag"    -> {"testpypi", "create-tag", "verify-tag"}
      [] op = "pypi"           -> {"testpypi", "tag", "state", "publish", "verify"}
      [] op = "github-release" -> {"pypi", "tag", "release", "assets", "download"}

PhasesOK ==
    \A r \in Runs : runs[r] # None =>
      runs[r].at \in Phases(runs[r].operation) \cup {"receipt", "record", "done", "failed"}

Ordered == \A r, s \in Runs : runs[r] # None /\ s < r => runs[s] # None

\* One run at a time adds assets, to a draft.
Writers ==
    \A r \in Runs : At(r, "assets") =>
      /\ release # None /\ release.draft
      /\ \A s \in Runs : At(s, "assets") => s = r

Founded(r) ==
    LET run == runs[r]
    IN IF run.operation = "dry-run" THEN run.predecessor = None
       ELSE /\ run.predecessor \in Runs /\ run.predecessor < r
            /\ At(run.predecessor, "done")
            /\ \E x \in receipts : /\ x.run = run.predecessor
                                   /\ x.operation = Predecessor(run.operation)
                                   /\ x.candidate = run.candidate

RunInv(r) ==
    /\ ValidCandidate(runs[r].candidate)
    /\ Founded(r)
    /\ At(r, "receipt") => Attained(runs[r].operation, runs[r].candidate)

RunsInv == \A r \in Runs : runs[r] # None => RunInv(r)

\* What a run goes on from is there.
SeenBy(r) ==
    /\ At(r, "absent") => runs[r].state = NoState
    /\ At(r, "verify") => \E n \in Names : index[runs[r].operation][n] # None
    /\ At(r, "verify-tag") => tag # None
    /\ At(r, "download") => ReleaseMade
    /\ At(r, "receipt") => ValidState(runs[r].operation, runs[r].state, runs[r].candidate)

Seen == \A r \in Runs : runs[r] # None => SeenBy(r)

StatesValid == \A x \in receipts : ValidState(x.operation, x.state, x.candidate)

AssetsOf(c) ==
    /\ Tagged(c) /\ release.assets["other"] = None
    /\ \A n \in Names \ {"other"} : \/ release.assets[n] = files[c][n]
                                    \/ release.draft /\ release.assets[n] = None

\* The assets of a release are those of the candidate that the tag names.
ReleaseInv ==
    ReleaseMade => \/ release.assets = Empty
                   \/ \E c \in Candidates : AssetsOf(c)

IInv ==
    /\ TypeOK /\ PhasesOK /\ Ordered /\ Writers /\ RunsInv
    /\ ReceiptsTrue /\ ReceiptsChained /\ PublishedAsTested
    /\ Seen /\ StatesValid /\ ReleaseInv
-----------------------------------------------------------------------------
(* Types *)

LEMMA FileTypes ==
    ASSUME NEW c \in Candidates, NEW n \in Names
    PROVE  files[c] \in Directory /\ files[c][n] \in Digests \cup {None, Stray}
BY PromotionAssumption DEF Directory

LEMMA EmptyType == Empty \in Directory /\ NoState \in State
BY DEF Empty, Directory, NoState, State

LEMMA TagType ==
    ASSUME NEW c \in Candidates \cup {Stray}, NEW b \in BOOLEAN
    PROVE  [target |-> c, annotated |-> b] \in [target: Candidates \cup {Stray}, annotated: BOOLEAN]
OBVIOUS

LEMMA ReleaseType ==
    ASSUME NEW b \in BOOLEAN
    PROVE  [assets |-> Empty, draft |-> b] \in [assets: Directory, draft: BOOLEAN]
BY EmptyType

LEMMA GotoType ==
    ASSUME TypeOK, NEW r \in Runs, runs[r] # None, NEW at,
           at \in {"absent", "testpypi", "tag", "pypi", "state", "publish", "verify",
                   "create-tag", "verify-tag", "release", "assets", "download", "receipt",
                   "record", "done", "failed"},
           Goto(r, at)
    PROVE  runs' \in [Runs -> Run \cup {None}]
<1>1. runs[r] \in Run
  BY DEF TypeOK
<1>2. [runs[r] EXCEPT !.at = at] \in Run
  BY <1>1 DEF Run
<1> QED
  BY <1>2 DEF Goto, TypeOK

LEMMA AssetAdded ==
    ASSUME TypeOK, NEW r \in Runs, AddAsset(r), runs[r].candidate \in Candidates
    PROVE  release' \in [assets: Directory, draft: BOOLEAN]
<1>1. release \in [assets: Directory, draft: BOOLEAN]
  BY DEF AddAsset, ReleaseMade, TypeOK
<1>2. CASE release' = [release EXCEPT !.draft = FALSE]
  BY <1>1, <1>2
<1>3. ASSUME NEW n \in Names,
             release' = [release EXCEPT !.assets[n] = files[runs[r].candidate][n]]
      PROVE  release' \in [assets: Directory, draft: BOOLEAN]
  BY <1>1, <1>3, FileTypes DEF Directory
<1> QED
  BY <1>2, <1>3 DEF AddAsset

LEMMA TypeStep == TypeOK /\ PhasesOK /\ [Next]_vars => TypeOK'
<1> SUFFICES ASSUME TypeOK, PhasesOK, [Next]_vars PROVE TypeOK'
  OBVIOUS
<1>0. ASSUME NEW r \in Runs, Active(r) \/ runs[r] # None
      PROVE  /\ runs[r] # None /\ runs[r] \in Run
             /\ runs[r].candidate \in Candidates /\ runs[r].operation \in Operations
             /\ runs[r].state \in State
  <2>1. runs[r] # None /\ runs[r] \in Run
    BY <1>0 DEF Active, TypeOK
  <2> QED
    BY <2>1 DEF Run
<1>1. CASE UNCHANGED vars
  BY <1>1 DEF vars, TypeOK
<1>2. ASSUME NEW r \in Runs, NEW c \in Candidates, NEW op \in Operations, Dispatch(r, c, op)
      PROVE  TypeOK'
  <2>1. PICK p \in Runs \cup {None} :
          runs' = [runs EXCEPT ![r] =
            [candidate |-> c, operation |-> op, predecessor |-> p,
             state |-> NoState, at |-> First(op)]]
    BY <1>2 DEF Dispatch
  <2>2. [candidate |-> c, operation |-> op, predecessor |-> p,
         state |-> NoState, at |-> First(op)] \in Run
    BY EmptyType DEF Run, First
  <2> QED
    BY <1>2, <2>1, <2>2 DEF Dispatch, TypeOK
<1>3. ASSUME NEW r \in Runs, CheckAbsent(r) PROVE TypeOK'
  BY <1>3, GotoType DEF CheckAbsent, At, TypeOK
<1>4. ASSUME NEW r \in Runs, Revalidate(r) PROVE TypeOK'
  BY <1>4, GotoType DEF Revalidate, At, TypeOK
<1>5. ASSUME NEW r \in Runs, CheckState(r) PROVE TypeOK'
  BY <1>5, GotoType DEF CheckState, At, TypeOK
<1>6. ASSUME NEW r \in Runs, Publish(r) PROVE TypeOK'
  <2>1. /\ runs[r] # None /\ runs[r].candidate \in Candidates
    BY <1>0, <1>6 DEF Publish, At
  <2>2. PICK n \in Distributions :
          index' = [index EXCEPT ![runs[r].operation][n] = files[runs[r].candidate][n]]
    BY <1>6 DEF Publish
  <2>3. index' \in [Indexes -> Directory]
    BY <2>1, <2>2, FileTypes, ZenonT(60) DEF TypeOK, Directory
  <2>4. runs' \in [Runs -> Run \cup {None}]
    BY <1>6, <2>1, GotoType DEF Publish
  <2> QED
    BY <1>6, <2>3, <2>4 DEF Publish, TypeOK
<1>7. ASSUME NEW r \in Runs, Verify(r) \/ VerifyTag(r) \/ Download(r) PROVE TypeOK'
  <2>1. runs[r] # None /\ runs[r] \in Run /\ runs[r].candidate \in Candidates
    BY <1>0, <1>7 DEF Verify, VerifyTag, Download, At
  <2>2. CASE Verify(r)
    <3>1. runs[r].operation \in Indexes
      BY <1>0, <2>1, <2>2 DEF Verify, At, PhasesOK, Phases
    <3> QED
      BY <2>1, <2>2, <3>1 DEF Verify, TypeOK, Run, State
  <2>3. CASE VerifyTag(r)
    BY <2>1, <2>3, EmptyType DEF VerifyTag, TypeOK, Run, State
  <2>4. CASE Download(r)
    BY <2>1, <2>4 DEF Download, AssetsMatch, ReleaseMade, TypeOK, Run, State
  <2> QED
    BY <1>7, <2>2, <2>3, <2>4
<1>8. ASSUME NEW r \in Runs, CreateTag(r) PROVE TypeOK'
  <2>1. runs[r] # None /\ runs[r].candidate \in Candidates
    BY <1>0, <1>8 DEF CreateTag, At
  <2>2. tag' \in [target: Candidates \cup {Stray}, annotated: BOOLEAN] \cup {None}
    <3>1. CASE tag' = tag
      BY <3>1 DEF TypeOK
    <3>2. CASE tag' = [target |-> runs[r].candidate, annotated |-> TRUE]
      BY <2>1, <3>2, TagType
    <3> QED
      BY <1>8, <3>1, <3>2 DEF CreateTag
  <2>3. runs' \in [Runs -> Run \cup {None}]
    BY <1>8, <2>1, GotoType DEF CreateTag
  <2> QED
    BY <1>8, <2>2, <2>3 DEF CreateTag, TypeOK
<1>9. ASSUME NEW r \in Runs, CreateRelease(r) PROVE TypeOK'
  <2>1. runs' \in [Runs -> Run \cup {None}]
    BY <1>9, GotoType DEF CreateRelease, At
  <2>2. release' \in [assets: Directory, draft: BOOLEAN] \cup {None}
    <3>1. CASE release' = release
      BY <3>1 DEF TypeOK
    <3>2. CASE release' = [assets |-> Empty, draft |-> TRUE]
      BY <3>2, ReleaseType
    <3> QED
      BY <1>9, <3>1, <3>2 DEF CreateRelease
  <2> QED
    BY <1>9, <2>1, <2>2 DEF CreateRelease, TypeOK
<1>10. ASSUME NEW r \in Runs, AddAsset(r) PROVE TypeOK'
  <2>1. runs[r] # None /\ runs[r].candidate \in Candidates
    BY <1>0, <1>10 DEF AddAsset, At
  <2>2. runs' \in [Runs -> Run \cup {None}]
    BY <1>10, <2>1, GotoType DEF AddAsset, TypeOK
  <2>3. release' \in [assets: Directory, draft: BOOLEAN]
    BY <1>10, <2>1, AssetAdded
  <2> QED
    BY <1>10, <2>2, <2>3 DEF AddAsset, TypeOK
<1>11. ASSUME NEW r \in Runs, CreateReceipt(r) PROVE TypeOK'
  <2>1. runs[r] # None /\ runs[r] \in Run
    BY <1>0, <1>11 DEF CreateReceipt, At
  <2>2. [operation |-> runs[r].operation, run |-> r, candidate |-> runs[r].candidate,
         predecessor |-> runs[r].predecessor, state |-> runs[r].state] \in Receipt
    BY <2>1 DEF Run, Receipt
  <2> QED
    BY <1>11, <2>1, <2>2, GotoType DEF CreateReceipt, TypeOK
<1>12. ASSUME NEW r \in Runs, Finish(r) \/ Fail(r) PROVE TypeOK'
  BY <1>12, GotoType DEF Finish, Fail, Active, At, TypeOK
<1>13. CASE PutByHand
  <2>1. strays' \in 0..MaxStrays
    BY <1>13, PromotionAssumption DEF PutByHand, TypeOK
  <2>2. index' \in [Indexes -> Directory]
    BY <1>13 DEF PutByHand, TypeOK, Directory
  <2>3. tag' \in [target: Candidates \cup {Stray}, annotated: BOOLEAN] \cup {None}
    BY <1>13 DEF PutByHand, TypeOK
  <2>4. release' \in [assets: Directory, draft: BOOLEAN] \cup {None}
    <3>1. CASE release' = release
      BY <3>1 DEF TypeOK
    <3>2. CASE release' = [assets |-> Empty, draft |-> FALSE]
      BY <3>2, ReleaseType
    <3> QED
      BY <1>13, <3>1, <3>2 DEF PutByHand
  <2> QED
    BY <1>13, <2>1, <2>2, <2>3, <2>4 DEF PutByHand, TypeOK
<1> QED
  BY <1>1, <1>2, <1>3, <1>4, <1>5, <1>6, <1>7, <1>8, <1>9, <1>10, <1>11, <1>12, <1>13
     DEF Next, Step
-----------------------------------------------------------------------------
(* What a step leaves alone *)

Ats == {"absent", "testpypi", "tag", "pypi", "state", "publish", "verify", "create-tag",
        "verify-tag", "release", "assets", "download", "receipt", "record", "done", "failed"}

\* A run goes to another step.
Moves(r, at) ==
    \/ runs' = [runs EXCEPT ![r].at = at]
    \/ \E state \in State : runs' = [runs EXCEPT ![r].at = at, ![r].state = state]

\* Runs only go on.
Kept ==
    \A s \in Runs : runs[s] # None =>
      /\ runs'[s] # None
      /\ runs'[s].candidate = runs[s].candidate
      /\ runs'[s].operation = runs[s].operation
      /\ runs'[s].predecessor = runs[s].predecessor

LEMMA Moved ==
    ASSUME TypeOK, NEW r \in Runs, runs[r] # None, NEW at \in Ats, Moves(r, at)
    PROVE  /\ runs'[r] # None
           /\ \A s \in Runs \ {r} : runs'[s] = runs[s]
           /\ runs'[r].at = at
           /\ runs'[r].candidate = runs[r].candidate
           /\ runs'[r].operation = runs[r].operation
           /\ runs'[r].predecessor = runs[r].predecessor
<1>1. runs[r] \in Run
  BY DEF TypeOK
<1>2. CASE runs' = [runs EXCEPT ![r].at = at]
  <2>1. runs'[r] = [runs[r] EXCEPT !.at = at]
    BY <1>2 DEF TypeOK
  <2>2. runs'[r] \in Run
    BY <1>1, <2>1 DEF Run, Ats
  <2> QED
    BY <1>1, <1>2, <2>2, PromotionAssumption DEF TypeOK, Run
<1>3. ASSUME NEW state \in State, runs' = [runs EXCEPT ![r].at = at, ![r].state = state]
      PROVE  /\ runs'[r] # None
             /\ \A s \in Runs \ {r} : runs'[s] = runs[s]
             /\ runs'[r].at = at
             /\ runs'[r].candidate = runs[r].candidate
             /\ runs'[r].operation = runs[r].operation
             /\ runs'[r].predecessor = runs[r].predecessor
  <2>1. runs'[r] = [runs[r] EXCEPT !.at = at, !.state = state]
    BY <1>3 DEF TypeOK
  <2>2. runs'[r] \in Run
    BY <1>1, <2>1 DEF Run, Ats
  <2>3. \A s \in Runs \ {r} : runs'[s] = runs[s]
    BY <1>3 DEF TypeOK
  <2>4. /\ runs'[r].at = at /\ runs'[r].candidate = runs[r].candidate
        /\ runs'[r].operation = runs[r].operation
        /\ runs'[r].predecessor = runs[r].predecessor
    BY <1>1, <2>1 DEF Run
  <2> QED
    BY <2>2, <2>3, <2>4, PromotionAssumption
<1> QED
  BY <1>2, <1>3 DEF Moves

\* A run that takes a step is at one of its phases, and goes to another one.
LEMMA StepMoves ==
    ASSUME TypeOK, PhasesOK, NEW r \in Runs, Step(r) \/ Fail(r)
    PROVE  /\ runs[r] # None /\ runs[r] \in Run /\ runs[r].at # "done"
           /\ runs[r].operation \in Operations /\ runs[r].candidate \in Candidates
           /\ \/ UNCHANGED runs
              \/ \E at \in Phases(runs[r].operation)
                          \cup {"receipt", "record", "done", "failed"} : Moves(r, at)
<1>1. runs[r] # None /\ runs[r] \in Run /\ runs[r].at # "done"
  BY DEF Step, CheckAbsent, Revalidate, CheckState, Publish, Verify, CreateTag, VerifyTag,
         CreateRelease, AddAsset, Download, CreateReceipt, Finish, Fail, Active, At, TypeOK
<1>2. runs[r].operation \in Operations /\ runs[r].candidate \in Candidates
  BY <1>1 DEF Run
<1>3. runs[r].at \in Phases(runs[r].operation) \cup {"receipt", "record", "done", "failed"}
  BY <1>1 DEF PhasesOK
<1> DEFINE Goes == \/ UNCHANGED runs
                   \/ \E at \in Phases(runs[r].operation)
                               \cup {"receipt", "record", "done", "failed"} : Moves(r, at)
<1>4. ASSUME CheckAbsent(r) \/ CreateReceipt(r) \/ Finish(r) \/ Fail(r) PROVE Goes
  BY <1>4 DEF CheckAbsent, CreateReceipt, Finish, Fail, Goto, Moves
<1>5. ASSUME Revalidate(r) PROVE Goes
  BY <1>2, <1>3, <1>5 DEF Revalidate, At, Goto, Moves, Phases
<1>6. ASSUME CheckState(r) \/ Publish(r) PROVE Goes
  BY <1>2, <1>3, <1>6 DEF CheckState, Publish, At, Goto, Moves, Phases
<1>7. ASSUME CreateTag(r) \/ CreateRelease(r) \/ AddAsset(r) PROVE Goes
  BY <1>2, <1>3, <1>7 DEF CreateTag, CreateRelease, AddAsset, At, Goto, Moves, Phases
<1>8. ASSUME Verify(r) PROVE Goes
  <2>1. runs[r].operation \in Indexes
    BY <1>2, <1>3, <1>8 DEF Verify, At, Phases
  <2>2. [files |-> index[runs[r].operation], target |-> None] \in State
    BY <2>1 DEF TypeOK, State
  <2> QED
    BY <1>1, <1>2, <1>8, <2>2 DEF Verify, Moves
<1>9. ASSUME VerifyTag(r) PROVE Goes
  <2>1. [files |-> Empty, target |-> runs[r].candidate] \in State
    BY <1>2, EmptyType DEF State
  <2> QED
    BY <1>1, <1>2, <1>9, <2>1 DEF VerifyTag, Moves
<1>10. ASSUME Download(r) PROVE Goes
  <2>1. [files |-> release.assets, target |-> runs[r].candidate] \in State
    BY <1>2, <1>10 DEF Download, AssetsMatch, ReleaseMade, TypeOK, State
  <2> QED
    BY <1>1, <1>2, <1>10, <2>1 DEF Download, Moves
<1> QED
  BY <1>1, <1>2, <1>4, <1>5, <1>6, <1>7, <1>8, <1>9, <1>10 DEF Step

LEMMA DispatchAdds ==
    ASSUME TypeOK, NEW r \in Runs, NEW c \in Candidates, NEW op \in Operations,
           Dispatch(r, c, op)
    PROVE  /\ runs[r] = None /\ runs' \in [Runs -> Run \cup {None}]
           /\ \A s \in Runs \ {r} : runs'[s] = runs[s]
           /\ runs'[r].candidate = c /\ runs'[r].operation = op
           /\ runs'[r].at = First(op) /\ runs'[r].state = NoState
           /\ ValidCandidate(c)
           /\ IF op = "dry-run" THEN runs'[r].predecessor = None
              ELSE /\ runs'[r].predecessor \in Runs
                   /\ At(runs'[r].predecessor, "done")
                   /\ Follows(runs'[r].predecessor, op, c)
           /\ UNCHANGED <<index, tag, release, receipts>>
<1>1. PICK p \in Runs \cup {None} :
        /\ IF op = "dry-run" THEN p = None
           ELSE p # None /\ At(p, "done") /\ Follows(p, op, c)
        /\ runs' = [runs EXCEPT ![r] =
            [candidate |-> c, operation |-> op, predecessor |-> p,
             state |-> NoState, at |-> First(op)]]
  BY DEF Dispatch
<1>2. [candidate |-> c, operation |-> op, predecessor |-> p,
       state |-> NoState, at |-> First(op)] \in Run
  BY EmptyType DEF Run, First
<1> QED
  BY <1>1, <1>2 DEF Dispatch, TypeOK

LEMMA PhaseStep == TypeOK /\ PhasesOK /\ [Next]_vars => PhasesOK'
<1> SUFFICES ASSUME TypeOK, PhasesOK, [Next]_vars PROVE PhasesOK'
  OBVIOUS
<1>1. CASE UNCHANGED runs
  BY <1>1 DEF PhasesOK
<1>2. ASSUME NEW r \in Runs, NEW c \in Candidates, NEW op \in Operations, Dispatch(r, c, op)
      PROVE  PhasesOK'
  <2>1. First(op) \in Phases(op)
    BY DEF First, Phases
  <2> QED
    BY <1>2, <2>1, DispatchAdds DEF PhasesOK
<1>3. ASSUME NEW r \in Runs, Step(r) \/ Fail(r) PROVE PhasesOK'
  <2>1. CASE UNCHANGED runs
    BY <2>1 DEF PhasesOK
  <2>2. ASSUME NEW at \in Phases(runs[r].operation) \cup {"receipt", "record", "done", "failed"},
               Moves(r, at)
        PROVE  PhasesOK'
    <3>1. at \in Ats
      BY <1>3, StepMoves DEF Phases, Ats
    <3> QED
      BY <1>3, <2>2, <3>1, StepMoves, Moved DEF PhasesOK
  <2> QED
    BY <1>3, <2>1, <2>2, StepMoves
<1> QED
  BY <1>1, <1>2, <1>3 DEF Next, vars, PutByHand

LEMMA RunsKept == TypeOK /\ PhasesOK /\ [Next]_vars => Kept /\ \A s \in Runs : At(s, "done") => At(s, "done")'
<1> SUFFICES ASSUME TypeOK, PhasesOK, [Next]_vars
             PROVE  Kept /\ \A s \in Runs : At(s, "done") => At(s, "done")'
  OBVIOUS
<1>1. CASE UNCHANGED runs
  BY <1>1 DEF Kept, At
<1>2. ASSUME NEW r \in Runs, NEW c \in Candidates, NEW op \in Operations, Dispatch(r, c, op)
      PROVE  Kept /\ \A s \in Runs : At(s, "done") => At(s, "done")'
  BY <1>2, DispatchAdds DEF Kept, At
<1>3. ASSUME NEW r \in Runs, Step(r) \/ Fail(r)
      PROVE  Kept /\ \A s \in Runs : At(s, "done") => At(s, "done")'
  <2>1. CASE UNCHANGED runs
    BY <2>1 DEF Kept, At
  <2>2. ASSUME NEW at \in Ats, Moves(r, at)
        PROVE  Kept /\ \A s \in Runs : At(s, "done") => At(s, "done")'
    BY <1>3, <2>2, StepMoves, Moved DEF Kept, At
  <2>3. Phases(runs[r].operation) \cup {"receipt", "record", "done", "failed"} \subseteq Ats
    BY <1>3, StepMoves DEF Phases, Ats
  <2> QED
    BY <1>3, <2>1, <2>2, <2>3, StepMoves
<1> QED
  BY <1>1, <1>2, <1>3 DEF Next, vars, PutByHand
\* A run stays as it is, takes a step of its own or is dispatched.
LEMMA OfRun ==
    ASSUME TypeOK, PhasesOK, [Next]_vars, NEW s \in Runs, runs'[s] # None
    PROVE  \/ runs[s] # None /\ runs'[s] = runs[s]
           \/ runs[s] # None /\ (Step(s) \/ Fail(s))
           \/ /\ runs[s] = None
              /\ \E c \in Candidates, op \in Operations : Dispatch(s, c, op)
<1>1. CASE UNCHANGED vars \/ PutByHand
  BY <1>1 DEF vars, PutByHand
<1>2. ASSUME NEW r \in Runs \ {s}, Step(r) \/ Fail(r) PROVE runs'[s] = runs[s]
  <2>1. Phases(runs[r].operation) \cup {"receipt", "record", "done", "failed"} \subseteq Ats
    BY <1>2, StepMoves DEF Phases, Ats
  <2> QED
    BY <1>2, <2>1, StepMoves, Moved
<1>3. ASSUME NEW r \in Runs \ {s}, NEW c \in Candidates, NEW op \in Operations, Dispatch(r, c, op)
      PROVE  runs'[s] = runs[s]
  BY <1>3, DispatchAdds
<1>4. ASSUME Step(s) \/ Fail(s) PROVE runs[s] # None
  BY <1>4, StepMoves
<1>5. ASSUME NEW c \in Candidates, NEW op \in Operations, Dispatch(s, c, op) PROVE runs[s] = None
  BY <1>5, DispatchAdds
<1> QED
  BY <1>1, <1>2, <1>3, <1>4, <1>5 DEF Next
-----------------------------------------------------------------------------
(* Nothing is replaced *)

Stable ==
    /\ \A i \in Indexes : \A n \in Names : index[i][n] # None => index'[i][n] = index[i][n]
    /\ tag # None => tag' = tag
    /\ receipts \subseteq receipts'
    /\ release # None /\ ~release.draft => release' = release

LEMMA StableStep == TypeOK /\ PhasesOK /\ Writers /\ [Next]_vars => Stable
<1> SUFFICES ASSUME TypeOK, PhasesOK, Writers, [Next]_vars PROVE Stable
  OBVIOUS
<1>1. CASE UNCHANGED <<index, tag, release, receipts>>
  BY <1>1 DEF Stable
<1>2. ASSUME NEW r \in Runs, Publish(r) PROVE Stable
  <2>1. runs[r].operation \in Indexes
    BY <1>2, StepMoves DEF Publish, Step, At, PhasesOK, Phases
  <2>2. PICK n \in Distributions :
          /\ index[runs[r].operation][n] \in {None, files[runs[r].candidate][n]}
          /\ index' = [index EXCEPT ![runs[r].operation][n] = files[runs[r].candidate][n]]
    BY <1>2 DEF Publish, Uploadable
  <2>3. \A i \in Indexes : \A m \in Names :
          index[i][m] # None => index'[i][m] = index[i][m]
    BY <2>1, <2>2 DEF TypeOK, Directory
  <2> QED
    BY <1>2, <2>3 DEF Publish, Stable
<1>3. ASSUME NEW r \in Runs, CreateTag(r) PROVE Stable
  BY <1>3 DEF CreateTag, Stable
<1>4. ASSUME NEW r \in Runs, CreateRelease(r) PROVE Stable
  BY <1>4 DEF CreateRelease, ReleaseMade, Stable
<1>5. ASSUME NEW r \in Runs, AddAsset(r) PROVE Stable
  <2>1. release # None /\ release.draft
    BY <1>5 DEF AddAsset, Writers
  <2> QED
    BY <1>5, <2>1 DEF AddAsset, Stable
<1>6. ASSUME NEW r \in Runs, CreateReceipt(r) PROVE Stable
  BY <1>6 DEF CreateReceipt, Stable
<1>7. CASE PutByHand
  <2>1. \A i \in Indexes : \A m \in Names :
          index[i][m] # None => index'[i][m] = index[i][m]
    BY <1>7 DEF PutByHand, TypeOK, Directory
  <2> QED
    BY <1>7, <2>1 DEF PutByHand, Stable
<1> QED
  BY <1>1, <1>2, <1>3, <1>4, <1>5, <1>6, <1>7
     DEF Next, Step, vars, Dispatch, CheckAbsent, Revalidate, CheckState, Verify, VerifyTag,
         Download, Finish, Fail

LEMMA ReleaseStays ==
    ASSUME TypeOK, PhasesOK, [Next]_vars, release # None
    PROVE  release' # None
<1> SUFFICES ASSUME ~UNCHANGED release PROVE release' # None
  OBVIOUS
<1>1. PICK r \in Runs : AddAsset(r)
  BY DEF Next, Step, vars, Dispatch, CheckAbsent, Revalidate, CheckState, Publish, Verify,
         CreateTag, VerifyTag, CreateRelease, ReleaseMade, Download, CreateReceipt, Finish,
         Fail, PutByHand
<1>2. release' \in [assets: Directory, draft: BOOLEAN]
  BY <1>1, AssetAdded, StepMoves DEF Step
<1> QED
  BY <1>2, PromotionAssumption

LEMMA AttainedStable ==
    ASSUME Stable, NEW op \in Operations, NEW c \in Candidates, Attained(op, c)
    PROVE  Attained(op, c)'
<1>1. \A i \in Indexes : OnIndex(i, c) => OnIndex(i, c)'
  <2>1. \A n \in Distributions : files[c][n] # None
    BY PromotionAssumption
  <2> QED
    BY <2>1 DEF OnIndex, Stable
<1>2. Tagged(c) => Tagged(c)'
  BY DEF Tagged, Stable
<1> QED
  BY <1>1, <1>2 DEF Attained, Stable

\* The operation before it left what a run of op builds on.
LEMMA Foundation ==
    ASSUME IInv, NEW r \in Runs, runs[r] # None, runs[r].operation # "dry-run"
    PROVE  /\ runs[r].operation \in Operations /\ runs[r].candidate \in Candidates
           /\ Attained(Predecessor(runs[r].operation), runs[r].candidate)
<1>1. runs[r].operation \in Operations /\ runs[r].candidate \in Candidates
  BY DEF IInv, TypeOK, Run
<1>2. PICK x \in receipts : /\ x.operation = Predecessor(runs[r].operation)
                            /\ x.candidate = runs[r].candidate
  BY DEF IInv, RunsInv, RunInv, Founded
<1> QED
  BY <1>1, <1>2 DEF IInv, ReceiptsTrue, Attained, Tagged
-----------------------------------------------------------------------------
(* The parts of the invariant *)

LEMMA OrderedStep == IInv /\ [Next]_vars => Ordered'
<1> SUFFICES ASSUME IInv, [Next]_vars PROVE Ordered'
  OBVIOUS
<1>1. Kept
  BY RunsKept DEF IInv
<1>2. CASE UNCHANGED runs
  BY <1>2 DEF IInv, Ordered
<1>3. ASSUME NEW r \in Runs, NEW c \in Candidates, NEW op \in Operations, Dispatch(r, c, op)
      PROVE  Ordered'
  <2>1. \A s \in Runs : s < r => runs[s] # None
    BY <1>3 DEF Dispatch
  <2> QED
    BY <1>1, <1>3, <2>1, DispatchAdds DEF IInv, Ordered, Kept
<1>4. ASSUME NEW r \in Runs, Step(r) \/ Fail(r), NEW at \in Ats, Moves(r, at) PROVE Ordered'
  BY <1>1, <1>4, StepMoves, Moved DEF IInv, Ordered, Kept
<1>5. ASSUME NEW r \in Runs, Step(r) \/ Fail(r) PROVE Ordered'
  <2>1. Phases(runs[r].operation) \cup {"receipt", "record", "done", "failed"} \subseteq Ats
    BY <1>5, StepMoves DEF IInv, Phases, Ats
  <2> QED
    BY <1>2, <1>4, <1>5, <2>1, StepMoves DEF IInv
<1> QED
  BY <1>2, <1>3, <1>5 DEF Next, vars, PutByHand

LEMMA WritersStep == IInv /\ [Next]_vars => Writers'
<1> SUFFICES ASSUME IInv, [Next]_vars PROVE Writers'
  OBVIOUS
<1>0. TypeOK /\ PhasesOK /\ Writers
  BY DEF IInv
<1>1. CASE UNCHANGED <<runs, release>>
  BY <1>0, <1>1 DEF Writers, At
<1>2. ASSUME NEW r \in Runs, NEW c \in Candidates, NEW op \in Operations, Dispatch(r, c, op)
      PROVE  Writers'
  <2>1. First(op) # "assets"
    BY DEF First
  <2> QED
    BY <1>0, <1>2, <2>1, DispatchAdds DEF Writers, At
<1>3. ASSUME NEW r \in Runs, Step(r) \/ Fail(r), UNCHANGED release,
             NEW at \in Ats \ {"assets"}, Moves(r, at)
      PROVE  Writers'
  BY <1>0, <1>3, StepMoves, Moved DEF Writers, At
<1>4. ASSUME NEW r \in Runs, CreateRelease(r) PROVE Writers'
  <2>1. CASE release # None
    BY <1>3, <1>4, <2>1 DEF CreateRelease, ReleaseMade, Step, Goto, Moves, Ats
  <2>2. CASE release = None
    <3>1. \A s \in Runs : ~At(s, "assets")
      BY <1>0, <2>2 DEF Writers
    <3>2. /\ release' = [assets |-> Empty, draft |-> TRUE]
          /\ Moves(r, "assets")
      BY <1>4, <2>2 DEF CreateRelease, ReleaseMade, Goto, Moves
    <3>3. release' # None /\ release'.draft
      BY <3>2, ReleaseType, PromotionAssumption
    <3>4. \A s \in Runs \ {r} : runs'[s] = runs[s]
      BY <1>0, <1>4, <3>2, StepMoves, Moved DEF Step, Ats
    <3> QED
      BY <3>1, <3>3, <3>4 DEF Writers, At
  <2> QED
    BY <2>1, <2>2
<1>5. ASSUME NEW r \in Runs, AddAsset(r) PROVE Writers'
  <2>1. release \in [assets: Directory, draft: BOOLEAN] /\ release.draft
    BY <1>0, <1>5 DEF AddAsset, TypeOK, Writers
  <2>2. CASE Goto(r, "download")
    <3>1. \A s \in Runs \ {r} : ~At(s, "assets") /\ runs'[s] = runs[s]
      BY <1>0, <1>5, <2>2 DEF AddAsset, Writers, At, Goto, TypeOK
    <3>2. runs'[r].at = "download"
      BY <1>0, <1>5, <2>2, StepMoves, Moved DEF Step, Goto, Moves, Ats
    <3> QED
      BY <3>1, <3>2 DEF Writers, At
  <2>3. ASSUME NEW n \in Names, UNCHANGED runs,
               release' = [release EXCEPT !.assets[n] = files[runs[r].candidate][n]]
        PROVE  Writers'
    <3>1. runs[r].candidate \in Candidates
      BY <1>0, <1>5, StepMoves DEF Step
    <3>2. release' \in [assets: Directory, draft: BOOLEAN] /\ release'.draft
      BY <2>1, <2>3, <3>1, FileTypes DEF Directory
    <3>3. release' # None
      BY <3>2, PromotionAssumption
    <3> QED
      BY <1>0, <2>3, <3>2, <3>3 DEF Writers, At
  <2> QED
    BY <1>5, <2>2, <2>3 DEF AddAsset
<1>6. CASE PutByHand
  BY <1>0, <1>1, <1>6 DEF PutByHand, Writers, At
<1>7. ASSUME NEW r \in Runs, Step(r) \/ Fail(r) PROVE Writers'
  <2>1. CASE CreateRelease(r) \/ AddAsset(r)
    BY <1>4, <1>5, <2>1
  <2>2. CASE Publish(r) /\ UNCHANGED runs
    BY <1>1, <2>2 DEF Publish
  <2>3. CASE CheckAbsent(r) \/ CreateReceipt(r) \/ Finish(r) \/ Fail(r)
    BY <1>3, <1>7, <2>3 DEF CheckAbsent, CreateReceipt, Finish, Fail, Goto, Moves, Ats
  <2>4. CASE Revalidate(r)
    BY <1>3, <1>7, <2>4 DEF Revalidate, Goto, Moves, Ats
  <2>5. CASE CheckState(r) \/ Publish(r) \/ CreateTag(r)
    BY <1>3, <1>7, <2>5 DEF CheckState, Publish, CreateTag, Goto, Moves, Ats
  <2>6. CASE Verify(r) \/ VerifyTag(r) \/ Download(r)
    <3>1. UNCHANGED release /\ runs'[r].at = "receipt" /\ \A s \in Runs \ {r} : runs'[s] = runs[s]
      <4>1. runs[r] \in Run
        BY <1>0, <1>7, StepMoves
      <4> QED
        BY <1>0, <2>6, <4>1 DEF Verify, VerifyTag, Download, TypeOK, Run
    <3> QED
      BY <1>0, <3>1 DEF Writers, At
  <2> QED
    BY <1>7, <2>1, <2>3, <2>4, <2>5, <2>6 DEF Step
<1> QED
  BY <1>1, <1>2, <1>6, <1>7 DEF Next, vars

\* A run that comes to make its receipt has seen what the receipt will say.
LEMMA Arrives ==
    ASSUME IInv, NEW r \in Runs, Step(r) \/ Fail(r), ~At(r, "receipt"), At(r, "receipt")'
    PROVE  Attained(runs[r].operation, runs[r].candidate)
<1>0. /\ TypeOK /\ PhasesOK /\ runs[r] # None /\ runs[r] \in Run
      /\ runs[r].operation \in Operations /\ runs[r].candidate \in Candidates
      /\ runs[r].at \in Phases(runs[r].operation) \cup {"receipt", "record", "done", "failed"}
  BY StepMoves DEF IInv, PhasesOK
<1>1. CASE CheckAbsent(r)
  <2>1. runs[r].operation = "dry-run"
    BY <1>0, <1>1 DEF CheckAbsent, At, Phases
  <2> QED
    BY <2>1 DEF Attained
<1>2. CASE Verify(r)
  <2>1. runs[r].operation \in Indexes /\ OnIndex(runs[r].operation, runs[r].candidate)
    BY <1>0, <1>2 DEF Verify, At, Phases, VerifyIndex, VerifyFiles, OnIndex
  <2>2. CASE runs[r].operation = "testpypi"
    BY <2>1, <2>2 DEF Attained
  <2>3. CASE runs[r].operation = "pypi"
    <3>1. Attained("release-tag", runs[r].candidate)
      BY <1>0, <2>3, Foundation DEF Predecessor
    <3> QED
      BY <2>1, <2>3, <3>1 DEF Attained
  <2> QED
    BY <2>1, <2>2, <2>3
<1>3. CASE VerifyTag(r)
  <2>1. runs[r].operation = "release-tag"
    BY <1>0, <1>3 DEF VerifyTag, At, Phases
  <2>2. Attained("testpypi", runs[r].candidate)
    BY <1>0, <2>1, Foundation DEF Predecessor
  <2>3. Tagged(runs[r].candidate)
    BY <1>0, <1>3 DEF VerifyTag, TagTargets, Tagged, TypeOK
  <2> QED
    BY <2>1, <2>2, <2>3 DEF Attained
<1>4. CASE Download(r)
  <2>1. runs[r].operation = "github-release"
    BY <1>0, <1>4 DEF Download, At, Phases
  <2>2. Attained("pypi", runs[r].candidate)
    BY <1>0, <2>1, Foundation DEF Predecessor
  <2>3. /\ release # None /\ ~release.draft
        /\ \A n \in Names \ {"other"} : release.assets[n] = files[runs[r].candidate][n]
    BY <1>4 DEF Download, AssetsMatch, ReleaseMade, VerifyFiles
  <2> QED
    BY <2>1, <2>2, <2>3 DEF Attained
<1>5. ASSUME UNCHANGED runs PROVE FALSE
  BY <1>5 DEF At
<1>6. ASSUME NEW at \in Ats \ {"receipt"}, Moves(r, at) PROVE FALSE
  BY <1>0, <1>6, Moved DEF At
<1>7. CASE Revalidate(r)
  BY <1>6, <1>7 DEF Revalidate, Goto, Moves, Ats
<1>8. CASE CheckState(r) \/ Publish(r) \/ CreateTag(r)
  BY <1>6, <1>8 DEF CheckState, Publish, CreateTag, Goto, Moves, Ats
<1>9. CASE CreateRelease(r) \/ AddAsset(r)
  BY <1>5, <1>6, <1>9 DEF CreateRelease, AddAsset, Goto, Moves, Ats
<1>10. CASE CreateReceipt(r) \/ Finish(r) \/ Fail(r)
  BY <1>6, <1>10 DEF CreateReceipt, Finish, Fail, Goto, Moves, Ats
<1> QED
  BY <1>1, <1>2, <1>3, <1>4, <1>7, <1>8, <1>9, <1>10 DEF Step

LEMMA RunsInvStep == IInv /\ [Next]_vars => RunsInv'
<1> SUFFICES ASSUME IInv, [Next]_vars, NEW s \in Runs, runs'[s] # None PROVE RunInv(s)'
  BY DEF RunsInv
<1>0. /\ TypeOK /\ PhasesOK /\ Stable /\ Kept
      /\ \A q \in Runs : At(q, "done") => At(q, "done")'
  BY StableStep, RunsKept DEF IInv
<1>1. CASE runs[s] # None
  <2>1. /\ RunInv(s) /\ runs'[s].candidate = runs[s].candidate
        /\ runs'[s].operation = runs[s].operation
        /\ runs'[s].predecessor = runs[s].predecessor
        /\ runs[s].operation \in Operations /\ runs[s].candidate \in Candidates
    BY <1>0, <1>1 DEF IInv, RunsInv, Kept, TypeOK, Run
  <2>2. ValidCandidate(runs[s].candidate)'
    BY <2>1 DEF RunInv, ValidCandidate
  <2>3. Founded(s)'
    BY <1>0, <2>1 DEF RunInv, Founded, Stable
  <2>4. ASSUME At(s, "receipt")' PROVE Attained(runs[s].operation, runs[s].candidate)'
    <3>1. Attained(runs[s].operation, runs[s].candidate)
      <4>1. CASE At(s, "receipt")
        BY <2>1, <4>1 DEF RunInv
      <4>2. CASE ~At(s, "receipt")
        <5>1. CASE runs'[s] = runs[s]
          BY <2>4, <4>2, <5>1 DEF At
        <5>2. CASE Step(s) \/ Fail(s)
          BY <2>4, <4>2, <5>2, Arrives
        <5> QED
          BY <1>0, <1>1, <5>1, <5>2, OfRun
      <4> QED
        BY <4>1, <4>2
    <3> QED
      BY <1>0, <2>1, <3>1, AttainedStable
  <2> QED
    BY <2>1, <2>2, <2>3, <2>4 DEF RunInv
<1>2. CASE runs[s] = None
  <2>1. PICK c \in Candidates, op \in Operations : Dispatch(s, c, op)
    BY <1>0, <1>2, OfRun
  <2>2. /\ runs'[s].candidate = c /\ runs'[s].operation = op /\ runs'[s].at = First(op)
        /\ ValidCandidate(c)
        /\ IF op = "dry-run" THEN runs'[s].predecessor = None
           ELSE /\ runs'[s].predecessor \in Runs
                /\ At(runs'[s].predecessor, "done")
                /\ Follows(runs'[s].predecessor, op, c)
        /\ UNCHANGED receipts
    BY <1>0, <2>1, DispatchAdds
  <2>3. op # "dry-run" => runs'[s].predecessor < s
    <3> SUFFICES ASSUME op # "dry-run" PROVE runs'[s].predecessor < s
      OBVIOUS
    <3> DEFINE p == runs'[s].predecessor
    <3>1. p \in Runs /\ runs[p] # None
      BY <2>2 DEF At
    <3>2. ~(s < p)
      BY <1>2, <3>1 DEF IInv, Ordered
    <3>3. p # s
      BY <1>2, <3>1
    <3>4. p \in Nat /\ s \in Nat
      BY <3>1, PromotionAssumption
    <3> HIDE DEF p
    <3>5. p < s
      BY <3>2, <3>3, <3>4
    <3> QED
      BY <3>5 DEF p
  <2>4. Founded(s)'
    <3>1. CASE op = "dry-run"
      BY <2>2, <3>1 DEF Founded
    <3>2. CASE op # "dry-run"
      BY <1>0, <2>2, <2>3, <3>2 DEF Founded, Follows, Accepts
    <3> QED
      BY <3>1, <3>2
  <2>5. First(op) # "receipt"
    BY DEF First
  <2> QED
    BY <2>2, <2>4, <2>5 DEF RunInv, At, ValidCandidate
<1> QED
  BY <1>1, <1>2

\* What a receipt says is what Attained says of its operation.
LEMMA ReceiptsAttained ==
    TypeOK => (ReceiptsTrue <=> \A x \in receipts : Attained(x.operation, x.candidate))
BY DEF ReceiptsTrue, Attained

\* The step that uploads a receipt, or none does.
LEMMA Uploads ==
    ASSUME TypeOK, [Next]_vars
    PROVE  \/ UNCHANGED receipts
           \/ \E r \in Runs :
                /\ CreateReceipt(r)
                /\ receipts' = receipts \cup
                     {[operation |-> runs[r].operation, run |-> r,
                       candidate |-> runs[r].candidate,
                       predecessor |-> runs[r].predecessor, state |-> runs[r].state]}
BY DEF Next, Step, vars, Dispatch, CheckAbsent, Revalidate, CheckState, Publish, Verify,
       CreateTag, VerifyTag, CreateRelease, AddAsset, Download, CreateReceipt, Finish, Fail,
       PutByHand

LEMMA ReceiptsTrueStep == IInv /\ [Next]_vars => ReceiptsTrue'
<1> SUFFICES ASSUME IInv, [Next]_vars PROVE ReceiptsTrue'
  OBVIOUS
<1>0. TypeOK /\ TypeOK' /\ Stable /\ RunsInv
  BY TypeStep, StableStep DEF IInv
<1>1. \A x \in receipts : /\ x.operation \in Operations /\ x.candidate \in Candidates
                           /\ Attained(x.operation, x.candidate)
  BY <1>0, ReceiptsAttained DEF IInv, TypeOK, Receipt
<1>2. ASSUME NEW x \in receipts' PROVE Attained(x.operation, x.candidate)'
  <2>1. CASE x \in receipts
    BY <1>0, <1>1, <2>1, AttainedStable
  <2>2. ASSUME NEW r \in Runs, CreateReceipt(r),
               x = [operation |-> runs[r].operation, run |-> r,
                    candidate |-> runs[r].candidate,
                    predecessor |-> runs[r].predecessor, state |-> runs[r].state]
        PROVE  Attained(x.operation, x.candidate)'
    <3>1. /\ x.operation = runs[r].operation /\ x.candidate = runs[r].candidate
          /\ runs[r].operation \in Operations /\ runs[r].candidate \in Candidates
      BY <1>0, <2>2, StepMoves DEF Step, IInv
    <3>2. Attained(runs[r].operation, runs[r].candidate)
      BY <1>0, <2>2 DEF CreateReceipt, At, RunsInv, RunInv
    <3> QED
      BY <1>0, <3>1, <3>2, AttainedStable
  <2> QED
    BY <1>0, <2>1, <2>2, Uploads
<1>3. (\A x \in receipts : Attained(x.operation, x.candidate))'
  BY <1>2
<1> QED
  BY <1>0, <1>3, ReceiptsAttained, PTL

LEMMA ReceiptsChainedStep == IInv /\ [Next]_vars => ReceiptsChained'
<1> SUFFICES ASSUME IInv, [Next]_vars, NEW x \in receipts'
             PROVE  IF x.operation = "dry-run" THEN x.predecessor = None
                    ELSE \E y \in receipts' :
                           /\ y.run = x.predecessor /\ y.operation = Predecessor(x.operation)
                           /\ y.candidate = x.candidate
                           /\ y.run < x.run /\ At(y.run, "done")'
  BY DEF ReceiptsChained
<1>0. TypeOK /\ Stable /\ RunsInv /\ \A q \in Runs : At(q, "done") => At(q, "done")'
  BY StableStep, RunsKept DEF IInv
<1>1. CASE x \in receipts
  <2>1. CASE x.operation = "dry-run"
    BY <1>1, <2>1 DEF IInv, ReceiptsChained
  <2>2. CASE x.operation # "dry-run"
    <3>1. PICK y \in receipts : /\ y.run = x.predecessor
                                /\ y.operation = Predecessor(x.operation)
                                /\ y.candidate = x.candidate
                                /\ y.run < x.run /\ At(y.run, "done")
      BY <1>1, <2>2 DEF IInv, ReceiptsChained
    <3>2. y.run \in Runs /\ y \in receipts'
      BY <1>0 DEF TypeOK, Receipt, Stable
    <3>3. At(y.run, "done")'
      BY <1>0, <3>1, <3>2
    <3> QED
      BY <2>2, <3>1, <3>2, <3>3
  <2> QED
    BY <2>1, <2>2
<1>2. ASSUME NEW r \in Runs, CreateReceipt(r),
             x = [operation |-> runs[r].operation, run |-> r,
                  candidate |-> runs[r].candidate,
                  predecessor |-> runs[r].predecessor, state |-> runs[r].state]
      PROVE  IF x.operation = "dry-run" THEN x.predecessor = None
             ELSE \E y \in receipts' :
                    /\ y.run = x.predecessor /\ y.operation = Predecessor(x.operation)
                    /\ y.candidate = x.candidate
                    /\ y.run < x.run /\ At(y.run, "done")'
  <2>1. Founded(r)
    BY <1>0, <1>2 DEF CreateReceipt, At, RunsInv, RunInv
  <2>2. /\ x.operation = runs[r].operation /\ x.candidate = runs[r].candidate
        /\ x.predecessor = runs[r].predecessor /\ x.run = r
    BY <1>2
  <2>3. CASE x.operation = "dry-run"
    BY <2>1, <2>2, <2>3 DEF Founded
  <2>4. CASE x.operation # "dry-run"
    <3>1. PICK y \in receipts : /\ y.run = x.predecessor
                                /\ y.operation = Predecessor(x.operation)
                                /\ y.candidate = x.candidate
      BY <2>1, <2>2, <2>4 DEF Founded
    <3>2. /\ y.run \in Runs /\ y.run < x.run /\ At(y.run, "done") /\ y \in receipts'
      BY <1>0, <2>1, <2>2, <2>4, <3>1 DEF Founded, Stable
    <3> QED
      BY <1>0, <2>4, <3>1, <3>2
  <2> QED
    BY <2>3, <2>4
<1> QED
  BY <1>0, <1>1, <1>2, Uploads

LEMMA PublishedStep == IInv /\ [Next]_vars => PublishedAsTested'
<1> SUFFICES ASSUME IInv, [Next]_vars, NEW n \in Distributions, index'["pypi"][n] \in Digests
             PROVE  \E c \in Candidates :
                      /\ index'["pypi"][n] = files[c][n]
                      /\ Tagged(c)' /\ OnIndex("testpypi", c)' /\ ValidCandidate(c)'
  BY DEF PublishedAsTested
<1>0. TypeOK /\ PhasesOK /\ Stable
  BY StableStep DEF IInv
<1>1. ASSUME NEW c \in Candidates, Tagged(c), OnIndex("testpypi", c)
      PROVE  Tagged(c)' /\ OnIndex("testpypi", c)'
  <2>1. Attained("release-tag", c)
    BY <1>1 DEF Attained
  <2> QED
    BY <1>0, <2>1, AttainedStable DEF Attained
<1>2. CASE index["pypi"][n] # None
  <2>1. index'["pypi"][n] = index["pypi"][n]
    BY <1>0, <1>2 DEF Stable
  <2>2. PICK c \in Candidates : /\ index["pypi"][n] = files[c][n] /\ Tagged(c)
                                /\ OnIndex("testpypi", c) /\ ValidCandidate(c)
    BY <2>1 DEF IInv, PublishedAsTested
  <2> QED
    BY <1>1, <2>1, <2>2 DEF ValidCandidate
<1>3. CASE index["pypi"][n] = None
  <2>1. index'["pypi"][n] # None /\ index'["pypi"][n] # Stray
    BY PromotionAssumption
  <2>2. ~PutByHand
    BY <1>0, <1>3, <2>1 DEF PutByHand, TypeOK, Directory
  <2>3. PICK r \in Runs : Publish(r)
    BY <1>3, <2>1, <2>2
       DEF Next, Step, vars, Dispatch, CheckAbsent, Revalidate, CheckState, Verify, CreateTag,
           VerifyTag, CreateRelease, AddAsset, Download, CreateReceipt, Finish, Fail
  <2>4. runs[r].operation \in Indexes /\ runs[r].candidate \in Candidates /\ runs[r] # None
    BY <1>0, <2>3, StepMoves DEF Publish, Step, At, PhasesOK, Phases
  <2>5. PICK m \in Distributions :
          index' = [index EXCEPT ![runs[r].operation][m] = files[runs[r].candidate][m]]
    BY <2>3 DEF Publish
  <2>6. runs[r].operation = "pypi" /\ m = n
    BY <1>0, <1>3, <2>1, <2>4, <2>5 DEF TypeOK, Directory
  <2>7. index'["pypi"][n] = files[runs[r].candidate][n]
    BY <1>0, <2>5, <2>6 DEF TypeOK, Directory
  <2>8. Attained("release-tag", runs[r].candidate)
    BY <2>4, <2>6, Foundation DEF Predecessor
  <2>9. ValidCandidate(runs[r].candidate)
    BY <2>4 DEF IInv, RunsInv, RunInv
  <2> QED
    BY <1>1, <2>4, <2>7, <2>8, <2>9 DEF Attained, ValidCandidate
<1> QED
  BY <1>2, <1>3

\* A run that takes a step has seen what it goes on from.
LEMMA Sees ==
    ASSUME IInv, NEW r \in Runs, Step(r) \/ Fail(r)
    PROVE  SeenBy(r)'
<1>0. /\ TypeOK /\ PhasesOK /\ runs[r] # None /\ runs[r] \in Run
      /\ runs[r].operation \in Operations /\ runs[r].candidate \in Candidates
      /\ runs[r].at \in Phases(runs[r].operation) \cup {"receipt", "record", "done", "failed"}
      /\ SeenBy(r)
  BY StepMoves DEF IInv, PhasesOK, Seen
<1>1. ASSUME NEW at \in Ats \ {"absent", "verify", "verify-tag", "download", "receipt"},
             Moves(r, at)
      PROVE  SeenBy(r)'
  BY <1>0, <1>1, Moved DEF SeenBy, At
<1>2. ASSUME NEW at \in Ats, Goto(r, at)
      PROVE  runs'[r] = [runs[r] EXCEPT !.at = at] /\ Moves(r, at)
  BY <1>0, <1>2 DEF Goto, Moves, TypeOK
<1>3. CASE CheckAbsent(r)
  <2>1. runs[r].operation = "dry-run" /\ runs[r].state = NoState
    BY <1>0, <1>3 DEF CheckAbsent, At, Phases, SeenBy
  <2>2. /\ runs'[r].at = "receipt" /\ runs'[r].operation = "dry-run"
        /\ runs'[r].state = NoState
    BY <1>0, <1>2, <1>3, <2>1 DEF CheckAbsent, Run, Ats
  <2> QED
    BY <2>2 DEF SeenBy, At, ValidState, NoState, Empty
<1>4. CASE Revalidate(r)
  BY <1>1, <1>4 DEF Revalidate, Goto, Moves, Ats
<1>5. CASE CheckState(r)
  <2>1. CASE index[runs[r].operation] = Empty
    <3>1. Goto(r, "publish")
      BY <1>5, <2>1 DEF CheckState
    <3> QED
      BY <1>1, <3>1 DEF Goto, Moves, Ats
  <2>2. CASE index[runs[r].operation] # Empty
    <3>1. runs[r].operation \in Indexes
      BY <1>0, <1>5 DEF CheckState, At, Phases
    <3>2. PICK n \in Names : index[runs[r].operation][n] # None
      BY <1>0, <2>2, <3>1 DEF TypeOK, Directory, Empty
    <3>3. /\ runs'[r].at = "verify" /\ runs'[r].operation = runs[r].operation
          /\ UNCHANGED index
      BY <1>0, <1>2, <1>5, <2>2, Moved DEF CheckState, Ats
    <3> QED
      BY <3>2, <3>3 DEF SeenBy, At
  <2> QED
    BY <2>1, <2>2
<1>6. CASE Publish(r)
  <2>1. CASE Goto(r, "publish")
    BY <1>1, <2>1 DEF Goto, Moves, Ats
  <2>2. CASE /\ Goto(r, "verify")
             /\ \A n \in Distributions :
                  index'[runs[r].operation][n] = files[runs[r].candidate][n]
    <3>1. runs'[r].at = "verify" /\ runs'[r].operation = runs[r].operation
      BY <1>0, <1>2, <2>2, Moved DEF Ats
    <3>2. index'[runs'[r].operation]["wheel"] # None
      BY <1>0, <2>2, <3>1, PromotionAssumption
    <3> QED
      BY <3>1, <3>2 DEF SeenBy, At
  <2> QED
    BY <1>6, <2>1, <2>2 DEF Publish
<1>7. CASE Verify(r)
  <2>1. /\ runs[r].operation \in Indexes
        /\ VerifyFiles(index[runs[r].operation], files[runs[r].candidate])
    BY <1>0, <1>7 DEF Verify, At, Phases, VerifyIndex
  <2>2. /\ runs'[r].at = "receipt" /\ runs'[r].operation = runs[r].operation
        /\ runs'[r].candidate = runs[r].candidate
        /\ runs'[r].state.files = index[runs[r].operation]
    BY <1>0, <1>7 DEF Verify, Run, TypeOK
  <2> QED
    BY <2>1, <2>2 DEF SeenBy, At, ValidState, VerifyFiles
<1>8. CASE CreateTag(r)
  <2>1. runs'[r].at = "verify-tag"
    BY <1>0, <1>2, <1>8, Moved DEF CreateTag, Ats
  <2>2. tag' # None
    <3>1. CASE tag = None
      <4>1. tag' = [target |-> runs[r].candidate, annotated |-> TRUE]
        BY <1>8, <3>1 DEF CreateTag
      <4>2. tag' \in [target: Candidates \cup {Stray}, annotated: BOOLEAN]
        BY <1>0, <4>1, TagType
      <4> QED
        BY <4>2, PromotionAssumption
    <3>2. CASE tag # None
      BY <1>8, <3>2 DEF CreateTag
    <3> QED
      BY <3>1, <3>2
  <2> QED
    BY <2>1, <2>2 DEF SeenBy, At
<1>9. CASE VerifyTag(r)
  <2>1. runs[r].operation = "release-tag"
    BY <1>0, <1>9 DEF VerifyTag, At, Phases
  <2>2. /\ runs'[r].at = "receipt" /\ runs'[r].operation = "release-tag"
        /\ runs'[r].state.target = runs'[r].candidate
    BY <1>0, <1>9, <2>1 DEF VerifyTag, Run, TypeOK
  <2> QED
    BY <2>2 DEF SeenBy, At, ValidState
<1>10. CASE CreateRelease(r)
  <2>1. CASE Goto(r, "assets")
    BY <1>1, <2>1 DEF Goto, Moves, Ats
  <2>2. CASE Goto(r, "download") /\ ReleaseMade /\ UNCHANGED release
    <3>1. runs'[r].at = "download"
      BY <1>0, <1>2, <2>2, Moved DEF Ats
    <3> QED
      BY <2>2, <3>1 DEF SeenBy, At, ReleaseMade
  <2> QED
    BY <1>10, <2>1, <2>2 DEF CreateRelease
<1>11. CASE AddAsset(r)
  <2>1. CASE UNCHANGED runs
    BY <1>0, <1>11, <2>1 DEF AddAsset, At, SeenBy
  <2>2. CASE Goto(r, "download") /\ release' = [release EXCEPT !.draft = FALSE]
    <3>1. runs'[r].at = "download"
      BY <1>0, <1>2, <2>2, Moved DEF Ats
    <3>2. release' # None
      BY <1>0, <1>11, AssetAdded, PromotionAssumption
    <3> QED
      BY <3>1, <3>2 DEF SeenBy, At, ReleaseMade
  <2> QED
    BY <1>11, <2>1, <2>2 DEF AddAsset
<1>12. CASE Download(r)
  <2>1. runs[r].operation = "github-release"
    BY <1>0, <1>12 DEF Download, At, Phases
  <2>2. VerifyFiles(release.assets, files[runs[r].candidate])
    BY <1>12 DEF Download, AssetsMatch
  <2>3. /\ runs'[r].at = "receipt" /\ runs'[r].operation = "github-release"
        /\ runs'[r].candidate = runs[r].candidate
        /\ runs'[r].state = [files |-> release.assets, target |-> runs[r].candidate]
    BY <1>0, <1>12, <2>1 DEF Download, Run, TypeOK
  <2> QED
    BY <2>2, <2>3 DEF SeenBy, At, ValidState, VerifyFiles
<1>13. CASE CreateReceipt(r) \/ Finish(r) \/ Fail(r)
  BY <1>1, <1>13 DEF CreateReceipt, Finish, Fail, Goto, Moves, Ats
<1> QED
  BY <1>3, <1>4, <1>5, <1>6, <1>7, <1>8, <1>9, <1>10, <1>11, <1>12, <1>13 DEF Step

LEMMA SeenStep == IInv /\ [Next]_vars => Seen'
<1> SUFFICES ASSUME IInv, [Next]_vars, NEW s \in Runs, runs'[s] # None PROVE SeenBy(s)'
  BY DEF Seen
<1>0. TypeOK /\ PhasesOK /\ Stable /\ Seen
  BY StableStep DEF IInv
<1>1. CASE runs[s] # None /\ runs'[s] = runs[s]
  <2>1. SeenBy(s)
    BY <1>0, <1>1 DEF Seen
  <2>2. At(s, "verify") => runs[s].operation \in Indexes
    BY <1>0, <1>1 DEF PhasesOK, Phases, At, TypeOK, Run
  <2>3. ReleaseMade => ReleaseMade'
    BY <1>0, ReleaseStays DEF ReleaseMade
  <2> QED
    BY <1>0, <1>1, <2>1, <2>2, <2>3 DEF SeenBy, At, Stable, ValidState, VerifyFiles, NoState, Empty
<1>2. CASE Step(s) \/ Fail(s)
  BY <1>2, Sees
<1>3. ASSUME NEW c \in Candidates, NEW op \in Operations, Dispatch(s, c, op) PROVE SeenBy(s)'
  <2>1. /\ runs'[s].at = First(op)
        /\ runs'[s].state = NoState
    BY <1>0, <1>3, DispatchAdds
  <2> QED
    BY <2>1 DEF SeenBy, At, First, NoState, Empty
<1> QED
  BY <1>0, <1>1, <1>2, <1>3, OfRun

LEMMA StatesValidStep == IInv /\ [Next]_vars => StatesValid'
<1> SUFFICES ASSUME IInv, [Next]_vars, NEW x \in receipts'
             PROVE  ValidState(x.operation, x.state, x.candidate)'
  BY DEF StatesValid
<1>1. ValidState(x.operation, x.state, x.candidate)
  <2>1. CASE x \in receipts
    BY <2>1 DEF IInv, StatesValid
  <2>2. ASSUME NEW r \in Runs, CreateReceipt(r),
               x = [operation |-> runs[r].operation, run |-> r,
                    candidate |-> runs[r].candidate,
                    predecessor |-> runs[r].predecessor, state |-> runs[r].state]
        PROVE  ValidState(x.operation, x.state, x.candidate)
    <3>1. /\ x.operation = runs[r].operation /\ x.state = runs[r].state
          /\ x.candidate = runs[r].candidate
      BY <2>2
    <3>2. ValidState(runs[r].operation, runs[r].state, runs[r].candidate)
      BY <2>2 DEF CreateReceipt, ReceiptAccepted
    <3> QED
      BY <3>1, <3>2
  <2> QED
    BY <2>1, <2>2, Uploads DEF IInv
<1> QED
  BY <1>1 DEF ValidState, VerifyFiles, NoState, Empty

LEMMA ReleaseStep == IInv /\ [Next]_vars => ReleaseInv'
<1> SUFFICES ASSUME IInv, [Next]_vars, ReleaseMade' PROVE ReleaseInv'
  BY DEF ReleaseInv
<1>0. TypeOK /\ PhasesOK /\ Writers /\ Stable /\ ReleaseInv
  BY StableStep DEF IInv
<1>1. ASSUME NEW c \in Candidates, Tagged(c) PROVE Tagged(c)'
  BY <1>0, <1>1 DEF Tagged, Stable
<1>2. CASE UNCHANGED release
  BY <1>0, <1>1, <1>2 DEF ReleaseInv, ReleaseMade, AssetsOf, Empty
<1>3. ASSUME NEW b \in BOOLEAN, release' = [assets |-> Empty, draft |-> b] PROVE ReleaseInv'
  BY <1>3 DEF ReleaseInv, Empty
<1>4. ASSUME NEW r \in Runs, AddAsset(r) PROVE ReleaseInv'
  <2>0. PICK c \in Candidates : c = runs[r].candidate
    BY <1>0, <1>4, StepMoves DEF Step
  <2>1. /\ runs[r] # None /\ runs[r].operation = "github-release"
        /\ release \in [assets: Directory, draft: BOOLEAN] /\ release.draft
    BY <1>0, <1>4, StepMoves DEF AddAsset, At, Step, PhasesOK, Phases, Writers, TypeOK
  <2>2. Tagged(c)
    BY <2>0, <2>1, Foundation DEF Predecessor, Attained
  <2>3. AssetsOf(c)
    <3>1. CASE release.assets = Empty
      BY <2>1, <2>2, <3>1 DEF AssetsOf, Empty
    <3>2. ASSUME NEW d \in Candidates, AssetsOf(d) PROVE AssetsOf(c)
      BY <2>2, <3>2 DEF AssetsOf, Tagged
    <3> QED
      BY <1>0, <1>4, <3>1, <3>2 DEF AddAsset, ReleaseInv
  <2>4. CASE release' = [release EXCEPT !.draft = FALSE]
             /\ {n \in Names \ {"other"} : release.assets[n] = None} = {}
    <3>1. AssetsOf(c)'
      BY <1>1, <2>1, <2>2, <2>3, <2>4 DEF AssetsOf
    <3> QED
      BY <2>1, <3>1 DEF ReleaseInv
  <2>5. ASSUME NEW n \in Names \ {"other"}, release' = [release EXCEPT !.assets[n] = files[c][n]]
        PROVE  ReleaseInv'
    <3>1. /\ release'.draft = release.draft
          /\ \A m \in Names : release'.assets[m] = IF m = n THEN files[c][n] ELSE release.assets[m]
      BY <2>1, <2>5 DEF Directory
    <3>2. AssetsOf(c)'
      BY <1>1, <2>1, <2>2, <2>3, <3>1 DEF AssetsOf
    <3> QED
      BY <2>1, <3>2 DEF ReleaseInv
  <2> QED
    BY <1>4, <2>0, <2>4, <2>5 DEF AddAsset
<1>5. CASE PutByHand
  BY <1>2, <1>3, <1>5 DEF PutByHand
<1>6. ASSUME NEW r \in Runs, CreateRelease(r) PROVE ReleaseInv'
  BY <1>2, <1>3, <1>6 DEF CreateRelease
<1> QED
  BY <1>2, <1>4, <1>5, <1>6
     DEF Next, Step, vars, Dispatch, CheckAbsent, Revalidate, CheckState, Publish, Verify,
         CreateTag, VerifyTag, Download, CreateReceipt, Finish, Fail

LEMMA Initially == Init => IInv
<1> SUFFICES ASSUME Init PROVE IInv
  OBVIOUS
<1>1. TypeOK
  BY EmptyType, PromotionAssumption DEF Init, TypeOK
<1>2. PhasesOK /\ Ordered /\ Writers /\ RunsInv
  BY DEF Init, PhasesOK, Ordered, Writers, At, RunsInv
<1>3. ReceiptsTrue /\ ReceiptsChained
  BY DEF Init, ReceiptsTrue, ReceiptsChained
<1>4. PublishedAsTested
  BY PromotionAssumption DEF Init, Empty, PublishedAsTested
<1>5. Seen /\ StatesValid /\ ReleaseInv
  BY DEF Init, Seen, StatesValid, ReleaseInv, ReleaseMade
<1> QED
  BY <1>1, <1>2, <1>3, <1>4, <1>5 DEF IInv

LEMMA Inductive == Spec => []IInv
<1>1. IInv /\ [Next]_vars => IInv'
  BY TypeStep, PhaseStep, OrderedStep, WritersStep, RunsInvStep, ReceiptsTrueStep,
     ReceiptsChainedStep, PublishedStep, SeenStep, StatesValidStep, ReleaseStep DEF IInv
<1> QED
  BY Initially, <1>1, PTL DEF Spec
-----------------------------------------------------------------------------
\* Every state of a promotion is of its type.
THEOREM TypeCorrect == Spec => []TypeOK
<1>1. IInv => TypeOK
  BY DEF IInv
<1> QED
  BY Inductive, <1>1, PTL

\* What the workflow put on PyPI is what the annotated tag and TestPyPI hold,
\* of a candidate that was tested, however many candidates are promoted at
\* once and whatever runs are repeated.
THEOREM Published_as_tested == Spec => []PublishedAsTested
<1>1. IInv => PublishedAsTested
  BY DEF IInv
<1> QED
  BY Inductive, <1>1, PTL

\* What a receipt says stays so, and so does what its predecessors said.
THEOREM Receipts_true == Spec => []ReceiptsTrue
<1>1. IInv => ReceiptsTrue
  BY DEF IInv
<1> QED
  BY Inductive, <1>1, PTL

\* A receipt follows, through runs that succeeded, from a dry run of the same
\* candidate.
THEOREM Receipts_chained == Spec => []ReceiptsChained
<1>1. IInv => ReceiptsChained
  BY DEF IInv
<1> QED
  BY Inductive, <1>1, PTL

\* An index that is not spoiled holds nothing of the version or the candidate.
LEMMA IndexMended ==
    ASSUME NEW i \in Indexes, NEW c \in Candidates, ~Spoiled(c),
           \E n \in Names : index[i][n] # None
    PROVE  VerifyIndex(i, c)
BY DEF Spoiled, Empty

LEMMA RepetitionPasses ==
    ASSUME IInv, NEW r \in Runs, runs[r] # None,
           runs[r].operation # "dry-run", ~Spoiled(runs[r].candidate)
    PROVE  Passes(r)
<1> DEFINE c == runs[r].candidate
           op == runs[r].operation
           before == Predecessor(op)
<1>1. /\ op \in Operations /\ c \in Candidates /\ Attained(before, c)
      /\ runs[r].at \in Phases(op) \cup {"receipt", "record", "done", "failed"}
      /\ SeenBy(r) /\ Founded(r)
  BY Foundation DEF IInv, PhasesOK, Seen, RunsInv, RunInv
<1>2. ASSUME NEW i \in Indexes, OnIndex(i, c) PROVE VerifyIndex(i, c)
  <2>1. index[i]["wheel"] # None
    BY <1>1, <1>2, PromotionAssumption DEF OnIndex
  <2> QED
    BY <1>1, <2>1, IndexMended
<1>3. tag # None => TagTargets(c)
  BY DEF Spoiled
<1>4. Tagged(c) => TagTargets(c)
  BY DEF Tagged, TagTargets
<1>5. ASSUME At(r, "testpypi") PROVE VerifyIndex("testpypi", c)
  BY <1>1, <1>2, <1>5 DEF At, Phases, Predecessor, Attained
<1>6. ASSUME At(r, "pypi") PROVE VerifyIndex("pypi", c)
  BY <1>1, <1>2, <1>6 DEF At, Phases, Predecessor, Attained
<1>7. ASSUME At(r, "tag") \/ At(r, "verify-tag") PROVE TagTargets(c)
  BY <1>1, <1>3, <1>4, <1>7 DEF At, Phases, Predecessor, Attained, SeenBy
<1>8. ASSUME At(r, "state") PROVE StateKnown(op, c)
  BY <1>1, <1>8 DEF At, Phases, StateKnown, Spoiled
<1>9. ASSUME At(r, "publish") PROVE \E n \in Distributions : Uploadable(op, n, c)
  <2>1. op \in Indexes
    BY <1>1, <1>9 DEF At, Phases
  <2>2. Uploadable(op, "wheel", c)
    BY <2>1 DEF Spoiled, Empty, VerifyIndex, VerifyFiles, Uploadable
  <2> QED
    BY <2>2
<1>10. ASSUME At(r, "verify") PROVE VerifyIndex(op, c)
  <2>1. op \in Indexes /\ \E n \in Names : index[op][n] # None
    BY <1>1, <1>10 DEF At, Phases, SeenBy
  <2> QED
    BY <1>1, <2>1, IndexMended
<1>11. ASSUME At(r, "create-tag") PROVE TagFree(c)
  BY <1>3 DEF TagFree
<1>12. ASSUME At(r, "release") PROVE Releasable
  BY <1>1, <1>12 DEF At, Phases, Predecessor, Attained, Tagged, Releasable
<1>13. ASSUME At(r, "assets") PROVE ReleaseMade
  BY <1>13 DEF IInv, Writers, ReleaseMade
<1>14. ASSUME At(r, "download") PROVE AssetsMatch(c)
  <2>1. ReleaseMade /\ ~release.draft /\ release.assets # Empty
    BY <1>1, <1>14 DEF SeenBy, Spoiled, ReleaseMade
  <2>2. PICK d \in Candidates : AssetsOf(d)
    BY <2>1 DEF IInv, ReleaseInv
  <2>3. Tagged(c)
    BY <1>1, <1>14 DEF At, Phases, Predecessor, Attained
  <2>4. d = c
    BY <2>2, <2>3 DEF AssetsOf, Tagged
  <2> QED
    BY <2>1, <2>2, <2>4 DEF AssetsOf, AssetsMatch, VerifyFiles
<1>15. ASSUME At(r, "receipt") PROVE ReceiptAccepted(runs[r])
  <2>1. ValidState(op, runs[r].state, c)
    BY <1>1, <1>15 DEF SeenBy
  <2>2. Follows(runs[r].predecessor, op, c)
    BY <1>1 DEF Founded, IInv, StatesValid, Follows, Accepts
  <2> QED
    BY <2>1, <2>2 DEF ReceiptAccepted
<1>16. ~At(r, "absent")
  BY <1>1 DEF At, Phases
<1> QED
  BY <1>5, <1>6, <1>7, <1>8, <1>9, <1>10, <1>11, <1>12, <1>13, <1>14, <1>15, <1>16 DEF Passes

\* A repeated operation never stops at what an earlier run of it did, whatever
\* answers and receipts were lost, unless a version, a release or a tag is there
\* that is not the candidate's as a whole.
THEOREM Repetition_continues == Spec => []Continues
<1>1. IInv => Continues
  BY RepetitionPasses DEF Continues, Active
<1> QED
  BY Inductive, <1>1, PTL
=============================================================================
