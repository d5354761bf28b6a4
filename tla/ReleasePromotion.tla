--------------------------- MODULE ReleasePromotion ---------------------------
(***************************************************************************)
(* The promotion of one version (tools/check_release.py, run by the steps  *)
(* of .github/workflows/release.yml): a candidate that CI recorded goes    *)
(* through a dry run, TestPyPI, the release tag, PyPI and the GitHub       *)
(* Release, each in a workflow run of its own.  A run leaves a receipt,    *)
(* and the next one starts from it.                                        *)
(*                                                                         *)
(* Every push of a version to master makes a candidate, and GitHub keeps   *)
(* apart only the runs of one candidate and one operation: runs of two     *)
(* candidates interleave.  A run may end at any step, its last request     *)
(* answered or not.  Maintainers may put files and tags in place by hand.  *)
(*                                                                         *)
(* A file is its name and its digest.                                      *)
(***************************************************************************)
EXTENDS Integers, FiniteSets

CONSTANTS
    None,        \* nothing there
    Stray,       \* the digest, or the target, of what was put there by hand
    Candidates,  \* the candidates CI recorded, each with its commit
    Runs,        \* the numbers of the workflow runs
    Digests,     \* of the files of candidates
    files,       \* files[c]: what the record of c says of each file
    downloaded,  \* downloaded[c]: the artifact that the record of c names
    evidence,    \* evidence[c]: the JUnit totals of its integration tests
    MaxStrays,   \* how many things are put there by hand
    MaxFailures, \* how many runs fail
    MaxRepeats   \* how many runs repeat an operation on a candidate

Distributions == {"wheel", "sdist"}
Names == Distributions \cup {"SHA256SUMS", "other"}
Directory == [Names -> Digests \cup {None, Stray}]
Empty == [n \in Names |-> None]

Operations == {"dry-run", "testpypi", "release-tag", "pypi", "github-release"}
Indexes == {"testpypi", "pypi"}

Predecessor(op) ==
    CASE op = "testpypi"       -> "dry-run"
      [] op = "release-tag"    -> "testpypi"
      [] op = "pypi"           -> "release-tag"
      [] op = "github-release" -> "pypi"
      [] OTHER                 -> None

VARIABLES
    index,     \* the files of the version on each index
    tag,       \* None, or the target of the tag and whether it is annotated
    release,   \* None, or the assets of the GitHub Release and whether it is a draft
    runs,      \* what each run does and where it is
    receipts,  \* the receipts that were uploaded
    strays     \* what was put there by hand, so far

vars == <<index, tag, release, runs, receipts, strays>>

State == [files: Directory, target: Candidates \cup {None}]
NoState == [files |-> Empty, target |-> None]
Receipt == [operation: Operations, run: Runs, candidate: Candidates,
            predecessor: Runs \cup {None}, state: State]
Run == [candidate: Candidates, operation: Operations, predecessor: Runs \cup {None},
        state: State, at: {"absent", "testpypi", "tag", "pypi",
                           "state", "publish", "verify", "create-tag", "verify-tag",
                           "release", "assets", "download", "receipt", "record",
                           "done", "failed"}]

ASSUME PromotionAssumption ==
    /\ Runs \subseteq Nat /\ None \notin Run \cup [assets: Directory, draft: BOOLEAN]
                                   \cup [target: Candidates \cup {Stray}, annotated: BOOLEAN]
    /\ None # Stray /\ {None, Stray} \cap (Digests \cup Candidates) = {}
    /\ files \in [Candidates -> Directory]
    /\ \A c \in Candidates : \A n \in Distributions : files[c][n] \in Digests
    /\ downloaded \in [Candidates -> Directory]
    /\ MaxStrays \in Nat
    /\ evidence \in [Candidates -> [tests: Nat, failures: Nat, errors: Nat]]

Init ==
    /\ index = [i \in Indexes |-> Empty]
    /\ tag = None /\ release = None
    /\ runs = [r \in Runs |-> None]
    /\ receipts = {} /\ strays = 0
-----------------------------------------------------------------------------
(* check_release.py *)

\* Mutant of VerifyFiles: whatever is there matches.
VerifyNamedFiles(directory, expected) ==
    \A n \in Distributions : directory[n] \in {None, expected[n]}

\* verify_files: these files, and no other but SHA256SUMS.
VerifyFiles(directory, expected) ==
    /\ \A n \in Distributions : directory[n] = expected[n]
    /\ directory["other"] = None

\* verify_clickhouse_evidence
VerifyEvidence(report) == report.tests >= 1 /\ report.failures = 0 /\ report.errors = 0

\* verify-candidate-record, verify-files and verify-clickhouse-evidence.
ValidCandidate(c) == VerifyFiles(downloaded[c], files[c]) /\ VerifyEvidence(evidence[c])

\* validate_index_data, of what the index holds now.
VerifyIndex(i, c) == VerifyFiles(index[i], files[c])

\* _validate_external_state
ValidState(op, state, c) ==
    CASE op = "dry-run"        -> state = NoState
      [] op \in Indexes        -> VerifyFiles(state.files, files[c])
      [] op = "release-tag"    -> state.target = c
      [] op = "github-release" -> state.target = c /\ VerifyFiles(state.files, files[c])

\* Mutant of Accepts: a receipt of any candidate will do.
AcceptsOperation(receipt, run, op, c) == receipt.operation = op /\ receipt.run = run

\* validate_promotion_receipt and validate_receipt_against_candidate.
Accepts(receipt, run, op, c) ==
    /\ receipt.operation = op /\ receipt.run = run
    /\ receipt.candidate = c
    /\ ValidState(op, receipt.state, c)

\* The run left a receipt that op may follow.
Follows(run, op, c) == \E x \in receipts : Accepts(x, run, Predecessor(op), c)

\* Mutant of TagTargets: a lightweight tag will do.
TagPointsAt(c) == tag # None /\ tag.target = c

\* The annotated tag of the version is on the commit of c.
TagTargets(c) == tag # None /\ tag.annotated /\ tag.target = c
-----------------------------------------------------------------------------
(* What the steps of a run check before they go on *)

NothingThere == tag = None /\ \A i \in Indexes : index[i] = Empty

\* Mutant of StateKnown: a version that is there already is never this one.
StateUnseen(i, c) == index[i] = Empty

\* 404, or 200 and the candidate.
StateKnown(i, c) == index[i] = Empty \/ VerifyIndex(i, c)

\* The index refuses another file of a name it has, and takes the same one as
\* done.
Uploadable(i, n, c) == index[i][n] \in {None, files[c][n]}

\* A tag that is there must be ours.
TagFree(c) == tag = None \/ TagTargets(c)

ReleaseMade == release # None

\* gh release view, or gh release create --verify-tag.
Releasable == ReleaseMade \/ tag # None

\* The assets, downloaded again.
AssetsMatch(c) ==
    /\ ReleaseMade /\ ~release.draft
    /\ VerifyFiles(release.assets, files[c])
    /\ release.assets["SHA256SUMS"] = files[c]["SHA256SUMS"]

ReceiptAccepted(run) ==
    /\ ValidState(run.operation, run.state, run.candidate)
    /\ run.predecessor # None => Follows(run.predecessor, run.operation, run.candidate)
-----------------------------------------------------------------------------
(* The workflow *)

First(op) ==
    CASE op = "dry-run"                      -> "absent"
      [] op = "testpypi"                     -> "state"
      [] op \in {"release-tag", "pypi"}      -> "testpypi"
      [] op = "github-release"               -> "pypi"

Active(r) == runs[r] # None /\ runs[r].at \notin {"done", "failed"}
At(r, step) == runs[r] # None /\ runs[r].at = step
Goto(r, step) == runs' = [runs EXCEPT ![r].at = step]

Same(r, c, op) == runs[r] # None /\ runs[r].candidate = c /\ runs[r].operation = op

Repeats ==
    LET dispatched == {r \in Runs : runs[r] # None}
    IN Cardinality(dispatched)
         - Cardinality({<<runs[r].candidate, runs[r].operation>> : r \in dispatched})

\* A dispatch that the job "validate" accepts.
Dispatch(r, c, op) ==
    /\ runs[r] = None /\ \A s \in Runs : s < r => runs[s] # None
    /\ \A s \in Runs : Same(s, c, op) => ~Active(s)
    /\ ValidCandidate(c)
    /\ \E predecessor \in Runs \cup {None} :
         /\ IF op = "dry-run" THEN predecessor = None
            ELSE predecessor # None /\ At(predecessor, "done") /\ Follows(predecessor, op, c)
         /\ runs' = [runs EXCEPT ![r] =
              [candidate |-> c, operation |-> op, predecessor |-> predecessor,
               state |-> NoState, at |-> First(op)]]
    /\ Repeats' <= MaxRepeats
    /\ UNCHANGED <<index, tag, release, receipts, strays>>

\* Verify pre-release external state: three questions, taken as one.
CheckAbsent(r) ==
    /\ At(r, "absent") /\ NothingThere
    /\ Goto(r, "receipt")
    /\ UNCHANGED <<index, tag, release, receipts, strays>>

\* Revalidate what the earlier operations left.
Revalidate(r) ==
    LET c == runs[r].candidate
        op == runs[r].operation
    IN /\ \/ At(r, "testpypi") /\ VerifyIndex("testpypi", c)
             /\ Goto(r, IF op = "pypi" THEN "tag" ELSE "create-tag")
          \/ At(r, "pypi") /\ VerifyIndex("pypi", c) /\ Goto(r, "tag")
          \/ At(r, "tag") /\ TagTargets(c) /\ Goto(r, IF op = "pypi" THEN "state" ELSE "release")
       /\ UNCHANGED <<index, tag, release, receipts, strays>>

\* Check TestPyPI state, check PyPI state: what is not there is published.
CheckState(r) ==
    LET c == runs[r].candidate
        op == runs[r].operation
    IN /\ At(r, "state") /\ StateKnown(op, c)
       /\ Goto(r, IF index[op] = Empty THEN "publish" ELSE "verify")
       /\ UNCHANGED <<index, tag, release, receipts, strays>>

\* One upload of the publishing action.
Publish(r) ==
    LET c == runs[r].candidate
        op == runs[r].operation
    IN /\ At(r, "publish")
       /\ \E n \in Distributions :
            /\ Uploadable(op, n, c)
            /\ index' = [index EXCEPT ![op][n] = files[c][n]]
       /\ Goto(r, IF \A n \in Distributions : index'[op][n] = files[c][n]
                  THEN "verify" ELSE "publish")
       /\ UNCHANGED <<tag, release, receipts, strays>>

\* Verify the identity on the index, and smoke the wheel of TestPyPI.
Verify(r) ==
    LET c == runs[r].candidate
        op == runs[r].operation
    IN /\ At(r, "verify") /\ VerifyIndex(op, c)
       /\ runs' = [runs EXCEPT ![r].at = "receipt",
                               ![r].state = [files |-> index[op], target |-> None]]
       /\ UNCHANGED <<index, tag, release, receipts, strays>>

\* Create or recover annotated tag.
CreateTag(r) ==
    LET c == runs[r].candidate
    IN /\ At(r, "create-tag") /\ TagFree(c)
       /\ tag' = IF tag = None THEN [target |-> c, annotated |-> TRUE] ELSE tag
       /\ Goto(r, "verify-tag")
       /\ UNCHANGED <<index, release, receipts, strays>>

VerifyTag(r) ==
    LET c == runs[r].candidate
    IN /\ At(r, "verify-tag") /\ TagTargets(c)
       /\ runs' = [runs EXCEPT ![r].at = "receipt",
                               ![r].state = [files |-> Empty, target |-> c]]
       /\ UNCHANGED <<index, tag, release, receipts, strays>>

\* Create or recover GitHub Release: gh makes a draft, then adds the assets,
\* then publishes it.
CreateRelease(r) ==
    /\ At(r, "release") /\ Releasable
    /\ IF ReleaseMade THEN release' = release /\ Goto(r, "download")
       ELSE release' = [assets |-> Empty, draft |-> TRUE] /\ Goto(r, "assets")
    /\ UNCHANGED <<index, tag, receipts, strays>>

AddAsset(r) ==
    LET c == runs[r].candidate
        missing == {n \in Names \ {"other"} : release.assets[n] = None}
    IN /\ At(r, "assets") /\ ReleaseMade
       /\ IF missing = {}
          THEN release' = [release EXCEPT !.draft = FALSE] /\ Goto(r, "download")
          ELSE /\ \E n \in missing : release' = [release EXCEPT !.assets[n] = files[c][n]]
               /\ UNCHANGED runs
       /\ UNCHANGED <<index, tag, receipts, strays>>

\* record-github-release-state
Download(r) ==
    LET c == runs[r].candidate
    IN /\ At(r, "download") /\ AssetsMatch(c)
       /\ runs' = [runs EXCEPT ![r].at = "receipt",
                               ![r].state = [files |-> release.assets, target |-> c]]
       /\ UNCHANGED <<index, tag, release, receipts, strays>>

\* create_promotion_receipt and the upload.
CreateReceipt(r) ==
    LET run == runs[r]
    IN /\ At(r, "receipt") /\ ReceiptAccepted(run)
       /\ receipts' = receipts \cup
            {[operation |-> run.operation, run |-> r, candidate |-> run.candidate,
              predecessor |-> run.predecessor, state |-> run.state]}
       /\ Goto(r, "record")
       /\ UNCHANGED <<index, tag, release, strays>>

\* Record promotion receipt identity: the last step of a run.
Finish(r) ==
    /\ At(r, "record") /\ Goto(r, "done")
    /\ UNCHANGED <<index, tag, release, receipts, strays>>

Failures == Cardinality({r \in Runs : At(r, "failed")})

\* A check that does not hold, a refused upload, a lost answer, a timeout or a
\* cancellation ends the run.
Fail(r) ==
    /\ Active(r) /\ Failures < MaxFailures /\ Goto(r, "failed")
    /\ UNCHANGED <<index, tag, release, receipts, strays>>

\* Something is put there by hand, where there is nothing.
PutByHand ==
    /\ strays < MaxStrays /\ strays' = strays + 1
    /\ \/ \E i \in Indexes : \E n \in Distributions \cup {"other"} :
            /\ index[i][n] = None
            /\ index' = [index EXCEPT ![i][n] = Stray] /\ UNCHANGED <<tag, release>>
       \/ /\ tag = None
          /\ \E target \in Candidates \cup {Stray} : \E annotated \in BOOLEAN :
               tag' = [target |-> target, annotated |-> annotated]
          /\ UNCHANGED <<index, release>>
       \/ /\ release = None /\ tag # None
          /\ release' = [assets |-> Empty, draft |-> FALSE] /\ UNCHANGED <<index, tag>>
    /\ UNCHANGED <<runs, receipts>>

Step(r) ==
    \/ CheckAbsent(r) \/ Revalidate(r) \/ CheckState(r) \/ Publish(r) \/ Verify(r)
    \/ CreateTag(r) \/ VerifyTag(r) \/ CreateRelease(r) \/ AddAsset(r) \/ Download(r)
    \/ CreateReceipt(r) \/ Finish(r)

Next ==
    \/ \E r \in Runs : \/ \E c \in Candidates : \E op \in Operations : Dispatch(r, c, op)
                       \/ Step(r) \/ Fail(r)
    \/ PutByHand

Spec == Init /\ [][Next]_vars
-----------------------------------------------------------------------------
(* Properties *)

Tagged(c) == tag # None /\ tag = [target |-> c, annotated |-> TRUE]
OnIndex(i, c) == \A n \in Distributions : index[i][n] = files[c][n]

TypeOK ==
    /\ index \in [Indexes -> Directory]
    /\ tag \in [target: Candidates \cup {Stray}, annotated: BOOLEAN] \cup {None}
    /\ release \in [assets: Directory, draft: BOOLEAN] \cup {None}
    /\ runs \in [Runs -> Run \cup {None}]
    /\ receipts \subseteq Receipt
    /\ strays \in 0..MaxStrays

\* A distribution that the workflow put on PyPI is the one of the candidate
\* that the annotated tag names, that candidate was tested, and TestPyPI holds
\* the same files, however the runs of several candidates interleave and
\* wherever they are interrupted (the operations in their fixed order).
PublishedAsTested ==
    \A n \in Distributions : index["pypi"][n] \in Digests =>
      \E c \in Candidates :
        /\ index["pypi"][n] = files[c][n]
        /\ Tagged(c) /\ OnIndex("testpypi", c) /\ ValidCandidate(c)

\* What the receipt of an operation says is so, and so is all that the
\* operations before it left; two candidates never both get past the tag
\* (create_promotion_receipt).
ReceiptsTrue ==
    \A x \in receipts :
      LET c == x.candidate
          op == x.operation
      IN /\ op # "dry-run" => OnIndex("testpypi", c)
         /\ op \in {"release-tag", "pypi", "github-release"} => Tagged(c)
         /\ op \in {"pypi", "github-release"} => OnIndex("pypi", c)
         /\ op = "github-release" =>
              /\ release # None /\ ~release.draft
              /\ \A n \in Names \ {"other"} : release.assets[n] = files[c][n]

\* Every receipt follows, through runs that succeeded, from a dry run of the
\* same candidate ("Each successful run records a receipt whose artifact ID and
\* digest are required by the next operation", CONTRIBUTING.md).
ReceiptsChained ==
    \A x \in receipts :
      IF x.operation = "dry-run" THEN x.predecessor = None
      ELSE \E y \in receipts :
             /\ y.run = x.predecessor /\ y.operation = Predecessor(x.operation)
             /\ y.candidate = x.candidate
             /\ y.run < x.run /\ At(y.run, "done")

\* What no repetition mends: a part of the version or something else on an
\* index, the tag of someone else, a release without its files or unpublished.
Spoiled(c) ==
    \/ \E i \in Indexes : index[i] # Empty /\ ~VerifyIndex(i, c)
    \/ tag # None /\ ~TagTargets(c)
    \/ release # None /\ (release.draft \/ release.assets = Empty)

\* The check of the step that run r is at holds: the step can be taken.
Passes(r) ==
    LET c == runs[r].candidate
        op == runs[r].operation
    IN /\ At(r, "absent")                  => NothingThere
       /\ At(r, "testpypi")                => VerifyIndex("testpypi", c)
       /\ At(r, "pypi")                    => VerifyIndex("pypi", c)
       /\ At(r, "tag") \/ At(r, "verify-tag") => TagTargets(c)
       /\ At(r, "state")                   => StateKnown(op, c)
       /\ At(r, "publish")                 => \E n \in Distributions : Uploadable(op, n, c)
       /\ At(r, "verify")                  => VerifyIndex(op, c)
       /\ At(r, "create-tag")              => TagFree(c)
       /\ At(r, "release")                 => Releasable
       /\ At(r, "assets")                  => ReleaseMade
       /\ At(r, "download")                => AssetsMatch(c)
       /\ At(r, "receipt")                 => ReceiptAccepted(runs[r])

\* An operation that is repeated never stops at what an earlier run of it did,
\* whatever answers and receipts were lost on the way, unless that run ended
\* between two files ("Create or recover annotated tag", "Create or recover
\* GitHub Release", and the branches for a version that is there already).
Continues ==
    \A r \in Runs :
      Active(r) /\ runs[r].operation # "dry-run" /\ ~Spoiled(runs[r].candidate) => Passes(r)
=============================================================================
