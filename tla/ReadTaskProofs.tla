--------------------------- MODULE ReadTaskProofs ---------------------------
(***************************************************************************)
(* A read task, for any scans, limit and settings.  The way out: every     *)
(* client is closed, and the error that ended the read is the one raised.  *)
(* The rows: the task implements RowStream.  And the loop that cuts its    *)
(* batches, BatchSlicing, for any table and limits; it shares no state     *)
(* with the task.                                                          *)
(***************************************************************************)
EXTENDS ReadTask, BatchSlicing, SequenceTheorems, WellFoundedInduction, TLAPS
-----------------------------------------------------------------------------
(* The way out of the generators *)

LEMMA ReadErrorsAreErrors ==
    /\ ReadErrors \subseteq TranslatedErrors
    /\ TranslatedErrors \subseteq Exceptions
    /\ "KeyboardInterrupt" \notin TranslatedErrors /\ "GeneratorExit" \notin TranslatedErrors
    /\ "KeyboardInterrupt" \in Exceptions /\ "GeneratorExit" \in Exceptions
    /\ \A k \in Kinds : TransportTranslate(k, "read client initialization") \in TranslatedErrors
    /\ "TransportError" \in TranslatedErrors
    /\ None \notin Exceptions
<1>1. /\ TranslatedErrors \subseteq Exceptions
      /\ "KeyboardInterrupt" \notin TranslatedErrors /\ "GeneratorExit" \notin TranslatedErrors
      /\ "KeyboardInterrupt" \in Exceptions /\ "GeneratorExit" \in Exceptions
      /\ "TransportError" \in TranslatedErrors /\ "ReadError" \in TranslatedErrors
      /\ None \notin Exceptions
  BY ReadAssumption DEF Exceptions, TranslatedErrors
<1>2. \A k \in Kinds : TransportTranslate(k, "read client initialization") \in TranslatedErrors
  BY DEF Kinds, TransportTranslate, TranslatedErrors
<1>3. \A k \in Kinds : TransportTranslate(k, "Arrow query") \in TranslatedErrors
  BY DEF Kinds, TransportTranslate, TranslatedErrors
<1> QED BY <1>1, <1>2, <1>3 DEF ReadErrors

LEMMA InitIInv == Init => IInv
BY DEF Init, IInv, PCs, ClientsHeld, InFlight, Reading, Diagnosing

\* Each action moves between the places of the generators as IInv has them.
LEMMA StepIInv == IInv /\ [Next]_vars => IInv'
<1> SUFFICES ASSUME IInv, [Next]_vars PROVE IInv'
  OBVIOUS
<1> USE ReadErrorsAreErrors
<1> USE DEF IInv, PCs, ClientsHeld, InFlight, Reading, Diagnosing
<1>1. CASE NextScan
  BY <1>1 DEF NextScan, End
<1>2. CASE Unwind
  <2>1. pc = "unwind" /\ clients' = clients /\ exc' = exc /\ failure' = failure
    BY <1>2 DEF Unwind
  <2>2. (exc = None /\ pc' = "group") \/ pc' = "end"
    BY <1>2 DEF Unwind, End
  <2>3. exc = None => failure = None
    BY <2>1
  <2> QED BY <2>1, <2>2, <2>3
<1>3. CASE OpenClient
  BY <1>3 DEF OpenClient
<1>4. CASE OpenFails
  BY <1>4 DEF OpenFails
<1>5. CASE SetUpStream
  BY <1>5 DEF SetUpStream
<1>6. CASE Fetch
  BY <1>6 DEF Fetch
<1>7. CASE EndOfStream
  BY <1>7 DEF EndOfStream
<1>8. CASE ReadFails
  BY <1>8 DEF ReadFails
<1>9. CASE Interrupted
  BY <1>9 DEF Interrupted
<1>10. CASE YieldBlock
  BY <1>10 DEF YieldBlock, Yield
<1>11. CASE EndOfBatch
  BY <1>11 DEF EndOfBatch
<1>12. CASE CloseClient
  BY <1>12 DEF CloseClient
<1>13. CASE CloseFails
  BY <1>13 DEF CloseFails
<1>14. CASE OpenDiagnostic
  BY <1>14 DEF OpenDiagnostic
<1>15. CASE Flush
  BY <1>15 DEF Flush
<1>16. CASE FindLogTable
  BY <1>16 DEF FindLogTable
<1>17. CASE LookUp
  BY <1>17 DEF LookUp
<1>18. CASE NoDiagnostic
  BY <1>18 DEF NoDiagnostic
<1>19. CASE DiagnosticInterrupted
  BY <1>19 DEF DiagnosticInterrupted
<1>20. CASE CloseDiagnostic
  BY <1>20 DEF CloseDiagnostic
<1>21. CASE Resume
  BY <1>21 DEF Resume
<1>22. CASE CloseEarly
  BY <1>22 DEF CloseEarly
<1>23. CASE UNCHANGED vars
  BY <1>23 DEF vars
<1> QED
  BY <1>1, <1>2, <1>3, <1>4, <1>5, <1>6, <1>7, <1>8, <1>9, <1>10, <1>11, <1>12,
     <1>13, <1>14, <1>15, <1>16, <1>17, <1>18, <1>19, <1>20, <1>21, <1>22, <1>23
  DEF Next, Step, Consumer, Diagnose, Ended

\* Every reachable state satisfies the inductive invariant.
THEOREM Invariance == FairSpec => []IInv
<1> QED BY InitIInv, StepIInv, PTL DEF FairSpec

\* What a slice adds to the rows delivered.
LEMMA RowsDelivered ==
    ASSUME ScansOK, InPlan, NEW n \in Int
    PROVE  delivered \o Rows(n) \in Seq((1..Len(plan)) \X (Nat \ {0}))
<1> DEFINE S == (1..Len(plan)) \X (Nat \ {0})
<1>1. pos.row \in Nat /\ delivered \in Seq(S)
  BY DEF ScansOK
<1>2. \A i \in 1..n : <<pos.scan, pos.row + i>> \in S
  BY <1>1 DEF InPlan
<1>3. Rows(n) \in Seq(S)
  <2> HIDE DEF S
  <2>1. CASE n >= 0
    BY <1>2, <2>1 DEF Rows
  <2>2. CASE n < 0
    <3>1. 1..n = {} /\ 1..0 = {}
      BY <2>2
    <3>2. Rows(n) = [i \in 1..0 |-> <<pos.scan, pos.row + i>>]
      BY <3>1 DEF Rows
    <3> QED BY <3>1, <3>2
  <2> QED BY <2>1, <2>2
<1> HIDE DEF S
<1>4. delivered \o Rows(n) \in Seq(S)
  BY <1>1, <1>3
<1> QED BY <1>4 DEF S

LEMMA InitTypeInv == Init => TypeInv
<1> SUFFICES ASSUME Init PROVE TypeInv
  OBVIOUS
<1>1. ScansOK
  <2>1. plan \in Seq(Seq(Nat)) /\ Len(plan) \in Nat
    BY ReadAssumption DEF Init
  <2> QED BY <2>1 DEF Init, ScansOK, Start, Position
<1> QED BY <1>1, ReadAssumption DEF Init, TypeInv, TypeOK, Searched, PCs, Reading

\* The scans move on by one where a stream ends without an error, and their
\* rows are delivered slice by slice.
LEMMA StepScansOK == TypeInv /\ [Next]_vars => ScansOK'
<1> SUFFICES ASSUME TypeInv, [Next]_vars PROVE ScansOK'
  OBVIOUS
<1>0. /\ ScansOK /\ Len(plan) \in Nat
      /\ \A i \in 1..Len(plan) : plan[i] \in Seq(Nat)
      /\ pos \in [scan : 1..(Len(plan) + 1), batch : Nat, pending : Nat, row : Nat]
  BY ReadAssumption DEF TypeInv, TypeOK, ScansOK
<1>1. CASE UNCHANGED <<plan, limit, pos, delivered>>
  BY <1>0, <1>1 DEF ScansOK
<1>2. CASE Fetch
  <2>1. InPlan /\ pos.batch < Len(plan[pos.scan])
    BY <1>2 DEF Fetch, TypeInv, Searched, Reading
  <2>2. plan[pos.scan][pos.batch + 1] \in Nat
    BY <1>0, <2>1 DEF InPlan
  <2>3. pos' = Position(pos.scan, pos.batch + 1, plan[pos.scan][pos.batch + 1], pos.row)
    BY <1>2 DEF Fetch
  <2>4. pos' \in [scan : 1..(Len(plan) + 1), batch : Nat, pending : Nat, row : Nat]
    BY <1>0, <2>2, <2>3 DEF Position
  <2> QED BY <1>0, <1>2, <2>4 DEF Fetch, ScansOK
<1>3. CASE Unwind
  <2>1. CASE exc = None
    <3>1. InPlan /\ pos' = Start(pos.scan + 1)
      BY <1>3, <2>1 DEF Unwind, TypeInv, Searched
    <3>2. pos' \in [scan : 1..(Len(plan) + 1), batch : Nat, pending : Nat, row : Nat]
      BY <1>0, <3>1 DEF InPlan, Start, Position
    <3> QED BY <1>0, <1>3, <3>2 DEF Unwind, ScansOK
  <2>2. CASE exc # None
    <3>1. UNCHANGED <<plan, limit, pos, delivered>>
      BY <1>3, <2>2 DEF Unwind
    <3> QED BY <1>0, <3>1 DEF ScansOK
  <2> QED BY <2>1, <2>2
<1>4. CASE YieldBlock
  <2>1. PICK n \in SliceSizes(pos.pending) : Yield(n, Remaining(n))
    BY <1>4 DEF YieldBlock
  <2>2. n \in Nat /\ n <= pos.pending /\ Remaining(n) \in Int
    BY <1>0, ReadAssumption DEF SliceSizes, Remaining, ScansOK
  <2>3. InPlan
    BY <1>4 DEF YieldBlock, TypeInv, Searched, Reading
  <2>4. delivered' \in Seq((1..Len(plan)) \X (Nat \ {0}))
    BY <1>0, <2>1, <2>2, <2>3, RowsDelivered DEF Yield
  <2>5. pos' \in [scan : 1..(Len(plan) + 1), batch : Nat, pending : Nat, row : Nat]
    BY <1>0, <2>1, <2>2 DEF Yield, Position
  <2> QED BY <1>0, <2>1, <2>4, <2>5 DEF Yield, ScansOK
<1>5. UNCHANGED <<plan, limit, pos, delivered>> \/ Fetch \/ Unwind \/ YieldBlock
  BY DEF Next, Step, Consumer, Diagnose, Ended, vars, NextScan, OpenClient, OpenFails,
     SetUpStream, EndOfStream, ReadFails, Interrupted, EndOfBatch, CloseClient, CloseFails,
     OpenDiagnostic, Flush, FindLogTable, LookUp, NoDiagnostic, DiagnosticInterrupted,
     CloseDiagnostic, Resume, CloseEarly
<1> QED BY <1>1, <1>2, <1>3, <1>4, <1>5

\* Each action keeps the types, and the places that the generators are at.
LEMMA StepTypeInv == IInv /\ TypeInv /\ [Next]_vars => TypeInv'
<1> SUFFICES ASSUME IInv, TypeInv, [Next]_vars PROVE TypeInv'
  OBVIOUS
<1>0. ScansOK'
  BY StepScansOK
<1>f. Attempts \in Nat /\ 0 < Attempts
  BY ReadAssumption
<1>a. pos.scan \in 1..(Len(plan) + 1) /\ Len(plan) \in Nat
  BY ReadAssumption DEF TypeInv, TypeOK, ScansOK
<1>b. /\ lookups \in 0..Attempts
      /\ pc = "log table" => lookups = 0
      /\ pc = "lookup" => lookups < Attempts
      /\ pc = "group" => lookups = 0
  BY DEF TypeInv, TypeOK, Searched
<1>c. FindLogTable => lookups' = 0 /\ lookups' < Attempts
  BY <1>f, <1>b DEF FindLogTable
<1>d. LookUp => lookups' \in 0..Attempts /\ (pc' = "lookup" => lookups' < Attempts)
  <2>1. LookUp => pc = "lookup" /\ lookups' = lookups + 1
                  /\ (pc' = "lookup" => lookups' < Attempts)
    BY DEF LookUp
  <2>2. pc = "lookup" => lookups + 1 \in 0..Attempts
    BY <1>f, <1>b
  <2> QED BY <2>1, <2>2
<1>e. ASSUME NextScan, pc' = "open" PROVE InPlan'
  BY <1>a, <1>e DEF NextScan, End, InPlan
<1> USE <1>0, <1>f, ReadErrorsAreErrors
<1> USE DEF TypeInv, TypeOK, Searched, PCs, Reading
<1>1. ASSUME UNCHANGED <<plan, pos>> PROVE InPlan' = InPlan
  BY <1>1 DEF InPlan
<1>2. CASE NextScan
  BY <1>2, <1>e DEF NextScan, End
<1>3. CASE OpenClient
  BY <1>1, <1>3 DEF OpenClient
<1>4. CASE OpenFails
  BY <1>1, <1>4 DEF OpenFails
<1>5. CASE SetUpStream
  BY <1>1, <1>5 DEF SetUpStream
<1>6. CASE Fetch
  BY <1>6 DEF Fetch, InPlan, Position
<1>7. CASE EndOfStream
  BY <1>1, <1>7 DEF EndOfStream
<1>8. CASE ReadFails
  BY <1>1, <1>8 DEF ReadFails
<1>9. CASE Interrupted
  BY <1>1, <1>9 DEF Interrupted
<1>10. CASE EndOfBatch
  BY <1>1, <1>10 DEF EndOfBatch
<1>11. CASE CloseClient
  BY <1>1, <1>11 DEF CloseClient
<1>12. CASE CloseFails
  BY <1>1, <1>12 DEF CloseFails
<1>13. CASE OpenDiagnostic
  BY <1>1, <1>13 DEF OpenDiagnostic
<1>14. CASE Flush
  BY <1>1, <1>14 DEF Flush
<1>15. CASE FindLogTable
  BY <1>15, <1>c DEF FindLogTable
<1>16. CASE LookUp
  <2>1. exc' = exc /\ exc # None
    BY <1>16 DEF LookUp, IInv, InFlight, Diagnosing
  <2> QED BY <1>16, <1>d, <2>1 DEF LookUp
<1>17. CASE NoDiagnostic
  BY <1>1, <1>17 DEF NoDiagnostic
<1>18. CASE DiagnosticInterrupted
  BY <1>1, <1>18 DEF DiagnosticInterrupted
<1>19. CASE CloseDiagnostic
  BY <1>19 DEF CloseDiagnostic, InPlan, IInv, InFlight
<1>20. CASE Resume
  BY <1>1, <1>20 DEF Resume
<1>21. CASE CloseEarly
  BY <1>1, <1>21 DEF CloseEarly
<1>22. CASE Unwind
  BY <1>1, <1>22 DEF Unwind, End
<1>23. CASE YieldBlock
  <2>1. PICK n \in SliceSizes(pos.pending) : pc = "slice" /\ Yield(n, Remaining(n))
    BY <1>23 DEF YieldBlock
  <2> QED BY <2>1 DEF Yield, InPlan, Position
<1>24. CASE UNCHANGED vars
  BY <1>1, <1>24 DEF vars
<1> QED
  BY <1>2, <1>3, <1>4, <1>5, <1>6, <1>7, <1>8, <1>9, <1>10, <1>11, <1>12, <1>13,
     <1>14, <1>15, <1>16, <1>17, <1>18, <1>19, <1>20, <1>21, <1>22, <1>23, <1>24
  DEF Next, Step, Consumer, Diagnose, Ended

\* The type invariant: positions, counters and the rows delivered keep their
\* ranges, whatever the scans are (ReadTask's account of the generators).
THEOREM TypeCorrect == FairSpec => []TypeOK
<1>1. IInv /\ TypeInv /\ [Next]_vars => (IInv /\ TypeInv)'
  BY StepIInv, StepTypeInv
<1>2. TypeInv => TypeOK
  BY DEF TypeInv
<1> QED BY InitIInv, InitTypeInv, <1>1, <1>2, PTL DEF FairSpec

\* Whichever way a task ends, every client it opened has been closed (the
\* finally clauses of stream_query and _lookup_query_diagnostic).
THEOREM NothingLeftOpen == FairSpec => []ClientsReleased
<1>1. IInv => ClientsReleased
  <2> SUFFICES ASSUME IInv PROVE ClientsReleased
    OBVIOUS
  <2>1. pc \in {"group", "unwind", "end"} => clients = {}
    BY DEF IInv, ClientsHeld
  <2>2. "diagnostic" \in clients => exc # None
    <3> SUFFICES ASSUME "diagnostic" \in clients PROVE exc # None
      OBVIOUS
    <3>1. pc \in {"diagnostic close"} \cup Diagnosing
      BY DEF IInv, PCs, ClientsHeld, Reading, Diagnosing
    <3> QED BY <3>1, ReadErrorsAreErrors DEF IInv, InFlight
  <2> QED BY <2>1, <2>2 DEF ClientsReleased
<1> QED BY <1>1, Invariance, PTL

\* Neither closing a client nor searching the query log replaces the error
\* that ended the read (stream_query, _annotate_read_error).
THEOREM ErrorSurvives == FairSpec => FailureKept
<1> DEFINE Kept == /\ exc \in ReadErrors => exc' \in {exc, "KeyboardInterrupt"}
                   /\ exc = "GeneratorExit" => exc' = exc
<1>1. IInv /\ [Next]_vars => [Kept]_vars
  <2> SUFFICES ASSUME IInv, [Next]_vars PROVE Kept
    OBVIOUS
  <2> USE ReadErrorsAreErrors
  <2>1. CASE exc' = exc
    BY <2>1
  <2>2. CASE DiagnosticInterrupted
    BY <2>2 DEF IInv, InFlight, Diagnosing, DiagnosticInterrupted
  <2>3. CASE CloseFails
    <3>1. pc = "close" /\ (failure # None => exc' = exc)
      BY <2>3 DEF CloseFails
    <3> QED BY <3>1 DEF IInv, InFlight
  <2>4. CASE OpenFails \/ ReadFails \/ Interrupted \/ Resume \/ CloseEarly
    <3>1. exc = None
      BY <2>4 DEF IInv, InFlight, Reading, OpenFails, ReadFails, Interrupted, Resume, CloseEarly
    <3> QED BY <3>1
  <2>5. \/ exc' = exc
        \/ DiagnosticInterrupted \/ CloseFails
        \/ OpenFails \/ ReadFails \/ Interrupted \/ Resume \/ CloseEarly
    BY DEF Next, Step, Consumer, Diagnose, Ended, vars, NextScan, Unwind, OpenClient,
           SetUpStream, Fetch, EndOfStream, YieldBlock, Yield, EndOfBatch, CloseClient,
           OpenDiagnostic, Flush, FindLogTable, LookUp, NoDiagnostic, CloseDiagnostic
  <2> QED BY <2>1, <2>2, <2>3, <2>4, <2>5
<1> QED BY <1>1, Invariance, PTL DEF FairSpec, FailureKept
-----------------------------------------------------------------------------
(* Lemmas on recursion and sequences *)

\* Every non-empty set of natural numbers has a least element.
LEMMA LeastNat ==
    ASSUME NEW T, T \subseteq Nat, T # {}
    PROVE  \E x \in T : \A y \in T : x <= y
<1>1. PICK x \in T : \A y \in T : <<y, x>> \notin OpToRel(<, Nat)
  BY NatLessThanWellFounded, WFMin
<1>2. \A y \in T : ~(y < x)
  BY <1>1 DEF OpToRel
<1> QED BY <1>2

\* Induction, for the set of the numbers that have a property.
LEMMA InductNat ==
    ASSUME NEW S, 0 \in S, \A n \in Nat : n \in S => n + 1 \in S
    PROVE  \A n \in Nat : n \in S
<1> SUFFICES ASSUME Nat \ S # {} PROVE FALSE
  OBVIOUS
<1>1. PICK x \in Nat \ S : \A y \in Nat \ S : x <= y
  BY LeastNat
<1>2. x # 0 /\ x - 1 \in Nat /\ ~(x <= x - 1)
  BY <1>1
<1>3. x - 1 \in S
  BY <1>1, <1>2
<1>4. (x - 1) + 1 \in S
  BY <1>2, <1>3
<1> QED BY <1>1, <1>4

\* The functions on 0..N that are defined by recursion: by their first value
\* and by how each of the others follows from the one before.
Recursions(N, S, zero, op) ==
    {f \in [0..N -> S] : f[0] = zero /\ \A i \in 1..N : f[i] = op[i][f[i - 1]]}

LEMMA RecursiveFunction ==
    ASSUME NEW N \in Nat, NEW S, NEW zero \in S, NEW op \in [1..N -> [S -> S]]
    PROVE  Recursions(N, S, zero, op) # {}
<1> DEFINE Upto(m, f) == f[0] = zero /\ \A i \in 1..m : f[i] = op[i][f[i - 1]]
           Good == {m \in Nat : m <= N => \E f \in [0..m -> S] : Upto(m, f)}
<1>1. 0 \in Good
  <2> DEFINE f == [i \in 0..0 |-> zero]
  <2>1. f \in [0..0 -> S] /\ Upto(0, f)
    OBVIOUS
  <2> QED BY <2>1
<1>2. ASSUME NEW m \in Nat, m \in Good PROVE m + 1 \in Good
  <2> SUFFICES ASSUME m + 1 <= N PROVE \E g \in [0..(m + 1) -> S] : Upto(m + 1, g)
    OBVIOUS
  <2>1. PICK f \in [0..m -> S] : Upto(m, f)
    BY <1>2
  <2> DEFINE g == [i \in 0..(m + 1) |-> IF i <= m THEN f[i] ELSE op[m + 1][f[m]]]
  <2>2. op[m + 1][f[m]] \in S
    BY <2>1
  <2>3. g \in [0..(m + 1) -> S]
    BY <2>1, <2>2
  <2>4. g[0] = zero
    BY <2>1
  <2>5. ASSUME NEW i \in 1..(m + 1) PROVE g[i] = op[i][g[i - 1]]
    <3>1. CASE i <= m
      BY <2>1, <3>1
    <3>2. CASE i = m + 1
      BY <2>1, <3>2
    <3> QED BY <3>1, <3>2
  <2> QED BY <2>3, <2>4, <2>5
<1> HIDE DEF Good
<1>3. N \in Good
  BY <1>1, <1>2, InductNat
<1> QED BY <1>3 DEF Good, Recursions

LEMMA RecursionStep ==
    ASSUME NEW N \in Nat, NEW S, NEW zero, NEW op, NEW f \in Recursions(N, S, zero, op)
    PROVE  /\ f \in [0..N -> S] /\ f[0] = zero
           /\ \A i \in 1..N : f[i - 1] \in S /\ f[i] = op[i][f[i - 1]]
BY DEF Recursions

\* The rows of the first batches of a scan.
LEMMA RowsUpToDef ==
    ASSUME NEW scan \in Seq(Nat)
    PROVE  /\ RowsUpTo(scan) \in [0..Len(scan) -> Nat]
           /\ RowsUpTo(scan)[0] = 0
           /\ \A b \in 1..Len(scan) : RowsUpTo(scan)[b] = RowsUpTo(scan)[b - 1] + scan[b]
<1> DEFINE S == Nat
           op == [b \in 1..Len(scan) |-> [x \in S |-> x + scan[b]]]
           IsRows(f) == f = [b \in 0..Len(scan) |-> IF b = 0 THEN 0 ELSE f[b - 1] + scan[b]]
<1>1. /\ Len(scan) \in Nat /\ 0 \in S
      /\ op \in [1..Len(scan) -> [S -> S]]
      /\ \A b \in 1..Len(scan), x \in S : op[b][x] = x + scan[b]
  OBVIOUS
<1> HIDE DEF op, S
<1>2. PICK f : f \in Recursions(Len(scan), S, 0, op)
  BY <1>1, RecursiveFunction, ZenonT(30)
<1>3. f \in [0..Len(scan) -> S] /\ f[0] = 0
  BY <1>1, <1>2, RecursionStep
<1>4. ASSUME NEW b \in 1..Len(scan) PROVE f[b] = f[b - 1] + scan[b]
  <2>1. f[b - 1] \in S /\ f[b] = op[b][f[b - 1]]
    BY <1>1, <1>2, RecursionStep
  <2> QED BY <1>1, <2>1
<1>5. IsRows(f)
  BY <1>3, <1>4
<1>6. IsRows(RowsUpTo(scan))
  BY <1>5 DEF RowsUpTo
<1> DEFINE r == RowsUpTo(scan)
<1>7. r[0] = 0 /\ \A b \in 1..Len(scan) : r[b] = r[b - 1] + scan[b]
  BY <1>6
<1>8. \A b \in 0..Len(scan) : r[b] \in Nat
  <2> DEFINE Good == {m \in Nat : m <= Len(scan) => r[m] \in Nat}
  <2> HIDE DEF r
  <2>1. 0 \in Good
    BY <1>7
  <2>2. ASSUME NEW m \in Nat, m \in Good PROVE m + 1 \in Good
    BY <1>7, <2>2, SMTT(30)
  <2> HIDE DEF Good
  <2>3. \A m \in Nat : m \in Good
    BY <2>1, <2>2, InductNat
  <2> QED BY <2>3 DEF Good
<1> QED BY <1>6, <1>7, <1>8

\* More batches have no fewer rows.
LEMMA RowsUpToGrow ==
    ASSUME NEW scan \in Seq(Nat), NEW b \in 0..Len(scan)
    PROVE  RowsUpTo(scan)[b] <= RowCount(scan)
<1> DEFINE r == RowsUpTo(scan)
           Good == {m \in Nat : b + m <= Len(scan) => r[b] <= r[b + m]}
<1>1. /\ r \in [0..Len(scan) -> Nat]
      /\ \A c \in 1..Len(scan) : r[c] = r[c - 1] + scan[c]
  BY RowsUpToDef
<1>2. 0 \in Good
  BY <1>1
<1>3. ASSUME NEW m \in Nat, m \in Good PROVE m + 1 \in Good
  <2> SUFFICES ASSUME b + m + 1 <= Len(scan) PROVE r[b] <= r[b + m + 1]
    OBVIOUS
  <2> HIDE DEF r
  <2>1. r[b] <= r[b + m]
    BY <1>3
  <2>2. b + m + 1 \in 1..Len(scan) /\ (b + m + 1) - 1 = b + m
    OBVIOUS
  <2>3. r[b + m + 1] = r[b + m] + scan[b + m + 1] /\ scan[b + m + 1] \in Nat
    BY <1>1, <2>2
  <2>4. b \in 0..Len(scan) /\ b + m \in 0..Len(scan)
    OBVIOUS
  <2>5. r[b] \in Nat /\ r[b + m] \in Nat
    BY <1>1, <2>4
  <2> QED BY <2>1, <2>3, <2>5
<1> HIDE DEF Good
<1>4. \A m \in Nat : m \in Good
  BY <1>2, <1>3, InductNat
<1>5. Len(scan) - b \in Nat /\ b + (Len(scan) - b) = Len(scan)
  OBVIOUS
<1> QED BY <1>4, <1>5 DEF Good, RowCount

LEMMA RowCountNat == ASSUME NEW scan \in Seq(Nat) PROVE RowCount(scan) \in Nat
<1>1. RowsUpTo(scan) \in [0..Len(scan) -> Nat] /\ Len(scan) \in 0..Len(scan)
  BY RowsUpToDef
<1> QED BY <1>1 DEF RowCount

LEMMA IsASequence ==
    ASSUME NEW S, NEW n \in Nat, NEW f \in [1..n -> S]
    PROVE  f \in Seq(S) /\ Len(f) = n
OBVIOUS

\* The numbers of the scan and of the row in it.
RowSet == Nat \X Nat

\* The rows of the first scans, and what each scan adds to them.
LEMMA RowsOfType ==
    ASSUME plan \in Seq(Seq(Nat)), NEW s \in 1..Len(plan)
    PROVE  RowsOf(s) \in Seq(RowSet) /\ Len(RowsOf(s)) = RowCount(plan[s])
<1>1. RowCount(plan[s]) \in Nat /\ s \in Nat
  BY RowCountNat
<1>2. \A n \in 1..RowCount(plan[s]) : <<s, n>> \in RowSet
  BY <1>1 DEF RowSet
<1>3. RowsOf(s) \in [1..RowCount(plan[s]) -> RowSet]
  BY <1>2 DEF RowsOf
<1> QED BY <1>1, <1>3, IsASequence

LEMMA ScansUpToDef ==
    ASSUME plan \in Seq(Seq(Nat))
    PROVE  /\ ScansUpTo \in [0..Len(plan) -> Seq(RowSet)]
           /\ ScansUpTo[0] = << >>
           /\ \A s \in 1..Len(plan) : ScansUpTo[s] = ScansUpTo[s - 1] \o RowsOf(s)
<1> DEFINE S == Seq(RowSet)
           op == [s \in 1..Len(plan) |-> [x \in S |-> x \o RowsOf(s)]]
           IsRows(f) == f = [s \in 0..Len(plan) |->
                                IF s = 0 THEN << >> ELSE f[s - 1] \o RowsOf(s)]
<1>0. \A s \in 1..Len(plan) : RowsOf(s) \in S
  BY RowsOfType
<1>1. /\ Len(plan) \in Nat /\ << >> \in S
      /\ \A s \in 1..Len(plan), x \in S : x \o RowsOf(s) \in S
  BY <1>0
<1> HIDE DEF S
<1>2. /\ op \in [1..Len(plan) -> [S -> S]]
      /\ \A s \in 1..Len(plan), x \in S : op[s][x] = x \o RowsOf(s)
  BY <1>1
<1> HIDE DEF op
<1> DEFINE F == Recursions(Len(plan), S, << >>, op)
<1>e. F # {}
  BY <1>1, <1>2, RecursiveFunction
<1>3. PICK f : f \in F
  BY <1>e
<1>4. f \in [0..Len(plan) -> S] /\ f[0] = << >>
  BY <1>1, <1>3, RecursionStep
<1>5. ASSUME NEW s \in 1..Len(plan) PROVE f[s] = f[s - 1] \o RowsOf(s)
  <2>1. f[s - 1] \in S /\ f[s] = op[s][f[s - 1]]
    BY <1>1, <1>3, RecursionStep
  <2> QED BY <1>2, <2>1
<1>6. IsRows(f)
  BY <1>4, <1>5
<1>7. IsRows(ScansUpTo)
  BY <1>6 DEF ScansUpTo
<1>8. /\ ScansUpTo[0] = << >>
      /\ \A s \in 1..Len(plan) : ScansUpTo[s] = ScansUpTo[s - 1] \o RowsOf(s)
  <2> DEFINE r == ScansUpTo
  <2> HIDE DEF r
  <2>1. r = [s \in 0..Len(plan) |-> IF s = 0 THEN << >> ELSE r[s - 1] \o RowsOf(s)]
    BY <1>7 DEF r
  <2>2. r[0] = << >>
    BY <1>1, <2>1
  <2>3. ASSUME NEW s \in 1..Len(plan) PROVE r[s] = r[s - 1] \o RowsOf(s)
    <3>1. s \in 0..Len(plan) /\ s # 0
      BY <1>1
    <3> QED BY <2>1, <3>1, Zenon
  <2> QED BY <2>2, <2>3 DEF r
<1>9. \A s \in 0..Len(plan) : ScansUpTo[s] \in S
  <2> DEFINE Good == {m \in Nat : m <= Len(plan) => ScansUpTo[m] \in S}
  <2>1. 0 \in Good
    BY <1>1, <1>8
  <2>2. ASSUME NEW m \in Nat, m \in Good PROVE m + 1 \in Good
    <3> SUFFICES ASSUME m + 1 <= Len(plan) PROVE ScansUpTo[m + 1] \in S
      OBVIOUS
    <3>1. m + 1 \in 1..Len(plan) /\ (m + 1) - 1 = m /\ ScansUpTo[m] \in S
      BY <1>1, <2>2
    <3> QED BY <1>1, <1>8, <3>1
  <2> HIDE DEF Good
  <2>3. \A m \in Nat : m \in Good
    BY <2>1, <2>2, InductNat
  <2> QED BY <2>3 DEF Good
<1> QED BY <1>7, <1>8, <1>9 DEF S

LEMMA Concatenated ==
    ASSUME NEW S, NEW a \in Seq(S), NEW b \in Seq(S)
    PROVE  /\ a \o b \in Seq(S) /\ Len(a) \in Nat
           /\ Len(a \o b) = Len(a) + Len(b)
           /\ \A i \in 1..Len(a) : (a \o b)[i] = a[i]
           /\ \A i \in 1..Len(b) : (a \o b)[Len(a) + i] = b[i]
OBVIOUS

LEMMA PrefixKept ==
    ASSUME NEW S, NEW a \in Seq(S), NEW b \in Seq(S), NEW c \in Seq(S),
           Len(a) <= Len(b), \A i \in 1..Len(a) : b[i] = a[i]
    PROVE  Len(a) <= Len(b \o c) /\ \A i \in 1..Len(a) : (b \o c)[i] = a[i]
OBVIOUS

\* The rows of the first scans stay where they are when scans are added.
LEMMA ScansUpToExtend ==
    ASSUME plan \in Seq(Seq(Nat)), NEW s \in 0..Len(plan)
    PROVE  /\ Len(ScansUpTo[s]) <= Len(AllRows)
           /\ \A i \in 1..Len(ScansUpTo[s]) : AllRows[i] = ScansUpTo[s][i]
<1> DEFINE r == ScansUpTo
           Extends(t) == /\ Len(r[s]) <= Len(r[t])
                         /\ \A i \in 1..Len(r[s]) : r[t][i] = r[s][i]
           Good == {m \in Nat : s + m <= Len(plan) => Extends(s + m)}
<1>0. Len(plan) \in Nat /\ s \in Nat
  OBVIOUS
<1>1. /\ \A t \in 0..Len(plan) : r[t] \in Seq(RowSet)
      /\ \A t \in 1..Len(plan) : r[t] = r[t - 1] \o RowsOf(t)
  BY ScansUpToDef
<1> HIDE DEF r
<1>2. 0 \in Good
  BY <1>0, <1>1
<1>3. ASSUME NEW m \in Nat, m \in Good PROVE m + 1 \in Good
  <2> SUFFICES ASSUME s + m + 1 <= Len(plan) PROVE Extends(s + m + 1)
    BY <1>0
  <2>1. Extends(s + m)
    BY <1>0, <1>3
  <2>2. s + m + 1 \in 1..Len(plan) /\ (s + m + 1) - 1 = s + m /\ s + m \in 0..Len(plan)
    BY <1>0
  <2>3. r[s + m + 1] = r[s + m] \o RowsOf(s + m + 1)
    BY <1>1, <2>2
  <2>4. RowsOf(s + m + 1) \in Seq(RowSet)
    BY <2>2, RowsOfType
  <2>5. r[s] \in Seq(RowSet) /\ r[s + m] \in Seq(RowSet)
    BY <1>1, <2>2
  <2> DEFINE a == r[s]
             b == r[s + m]
             c == RowsOf(s + m + 1)
  <2>t. a \in Seq(RowSet) /\ b \in Seq(RowSet) /\ c \in Seq(RowSet)
    BY <2>4, <2>5
  <2>6. Len(a) <= Len(b) /\ \A i \in 1..Len(a) : b[i] = a[i]
    BY <2>1
  <2> HIDE DEF a, b, c
  <2>7. Len(a) <= Len(b \o c) /\ \A i \in 1..Len(a) : (b \o c)[i] = a[i]
    BY <2>6, <2>t, PrefixKept
  <2> QED BY <2>3, <2>7 DEF a, b, c
<1> HIDE DEF Good
<1>4. \A m \in Nat : m \in Good
  BY <1>2, <1>3, InductNat
<1>5. Len(plan) - s \in Nat /\ s + (Len(plan) - s) = Len(plan)
  BY <1>0
<1>6. PICK m \in Nat : s + m = Len(plan) /\ m \in Good
  BY <1>4, <1>5
<1>7. Extends(Len(plan))
  <2>1. Extends(s + m)
    BY <1>0, <1>6 DEF Good
  <2> QED BY <1>6, <2>1
<1> QED BY <1>7 DEF AllRows, r

\* Where the rows of a scan are.
LEMMA RowsOfScan ==
    ASSUME plan \in Seq(Seq(Nat)), NEW s \in 1..Len(plan)
    PROVE  /\ Len(ScansUpTo[s - 1]) \in Nat /\ RowCount(plan[s]) \in Nat
           /\ Len(ScansUpTo[s]) = Len(ScansUpTo[s - 1]) + RowCount(plan[s])
           /\ \A i \in 1..RowCount(plan[s]) : AllRows[Len(ScansUpTo[s - 1]) + i] = <<s, i>>
<1> DEFINE a == ScansUpTo[s - 1]
           r == RowsOf(s)
<1>0. Len(plan) \in Nat /\ s - 1 \in 0..Len(plan) /\ s \in 0..Len(plan)
  OBVIOUS
<1>1. RowCount(plan[s]) \in Nat
  BY RowCountNat
<1>2. r \in Seq(RowSet) /\ Len(r) = RowCount(plan[s])
  BY RowsOfType
<1>3. a \in Seq(RowSet) /\ ScansUpTo[s] = a \o r
  BY <1>0, ScansUpToDef
<1>4. ASSUME NEW i \in 1..RowCount(plan[s]) PROVE r[i] = <<s, i>>
  BY DEF RowsOf
<1> HIDE DEF a, r
<1>5. Len(a) \in Nat /\ Len(a \o r) = Len(a) + RowCount(plan[s])
  BY <1>2, <1>3, Concatenated
<1>6. ASSUME NEW i \in 1..RowCount(plan[s])
      PROVE  AllRows[Len(a) + i] = <<s, i>>
  <2>1. Len(a) + i \in 1..Len(a \o r)
    BY <1>1, <1>5
  <2>2. (a \o r)[Len(a) + i] = r[i]
    BY <1>2, <1>3, Concatenated
  <2>3. AllRows[Len(a) + i] = (a \o r)[Len(a) + i]
    BY <1>0, <1>3, <2>1, ScansUpToExtend
  <2> QED BY <1>4, <2>2, <2>3
<1> QED BY <1>1, <1>3, <1>5, <1>6 DEF a

LEMMA PrefixExtended ==
    ASSUME NEW S, NEW all \in Seq(S), NEW d \in Nat, NEW r \in Seq(S), d + Len(r) <= Len(all),
           \A i \in 1..Len(r) : r[i] = all[d + i]
    PROVE  SubSeq(all, 1, d) \o r = SubSeq(all, 1, d + Len(r))
<1> DEFINE a == SubSeq(all, 1, d)
           b == SubSeq(all, 1, d + Len(r))
<1>0. Len(r) \in Nat
  OBVIOUS
<1>1. /\ a \in Seq(S) /\ Len(a) = d /\ \A i \in 1..d : a[i] = all[i]
      /\ b \in Seq(S) /\ Len(b) = d + Len(r) /\ \A i \in 1..(d + Len(r)) : b[i] = all[i]
  OBVIOUS
<1> HIDE DEF a, b
<1>a. /\ a \o r \in Seq(S) /\ Len(a \o r) = Len(a) + Len(r)
      /\ \A i \in 1..Len(a) : (a \o r)[i] = a[i]
      /\ \A i \in 1..Len(r) : (a \o r)[Len(a) + i] = r[i]
  <2>1. a \in Seq(S) /\ r \in Seq(S)
    BY <1>1
  <2> QED BY <2>1, Concatenated
<1>2. /\ a \o r \in Seq(S) /\ Len(a \o r) = d + Len(r)
      /\ \A i \in 1..d : (a \o r)[i] = a[i]
      /\ \A i \in 1..Len(r) : (a \o r)[d + i] = r[i]
  BY <1>1, <1>a, Zenon
<1>3. ASSUME NEW i \in 1..(d + Len(r)) PROVE (a \o r)[i] = b[i]
  <2>1. CASE i <= d
    BY <1>1, <1>2, <2>1
  <2>2. CASE i > d
    <3>1. PICK j \in 1..Len(r) : i = d + j
      <4>1. i - d \in 1..Len(r) /\ i = d + (i - d)
        BY <1>0, <2>2
      <4> QED BY <4>1
    <3>2. (a \o r)[i] = r[j] /\ r[j] = all[d + j]
      BY <1>2, <3>1
    <3>3. b[i] = all[i]
      BY <1>1
    <3> QED BY <3>1, <3>2, <3>3
  <2>3. i <= d \/ i > d
    BY <1>0
  <2> QED BY <2>1, <2>2, <2>3, Zenon
<1>4. a \o r = b
  BY <1>1, <1>2, <1>3, SeqEqual
<1> QED BY <1>4 DEF a, b

LEMMA AllRowsType == ASSUME plan \in Seq(Seq(Nat)) PROVE AllRows \in Seq(RowSet)
<1>1. Len(plan) \in 0..Len(plan)
  OBVIOUS
<1> QED BY <1>1, ScansUpToDef DEF AllRows

\* The next n rows of a scan follow the ones that were delivered.
LEMMA RowsFollow ==
    ASSUME plan \in Seq(Seq(Nat)), InPlan, pos.row \in Nat, NEW n \in Nat,
           pos.row + n <= RowCount(plan[pos.scan]),
           delivered = SubSeq(AllRows, 1, Len(delivered)), Len(delivered) = Sliced
    PROVE  /\ delivered \o Rows(n) = SubSeq(AllRows, 1, Sliced + n)
           /\ Sliced \in Nat /\ Sliced + n <= Len(AllRows)
<1> DEFINE s == pos.scan
           d == Len(ScansUpTo[s - 1])
           r == Rows(n)
<1>1. s \in 1..Len(plan) /\ Len(plan) \in Nat
  BY DEF InPlan
<1> DEFINE count == RowCount(plan[s])
<1>2. \A i \in 1..count : AllRows[d + i] = <<s, i>>
  BY <1>1, RowsOfScan
<1>2a. d \in Nat /\ count \in Nat /\ Len(ScansUpTo[s]) = d + count
  BY <1>1, RowsOfScan
<1>3. Len(ScansUpTo[s]) <= Len(AllRows)
  BY <1>1, ScansUpToExtend
<1>4. AllRows \in Seq(RowSet) /\ Len(AllRows) \in Nat
  BY AllRowsType
<1>5. Sliced = d + pos.row
  BY DEF Sliced
<1>6. r \in Seq(RowSet) /\ Len(r) = n
  <2>1. \A i \in 1..n : <<s, pos.row + i>> \in RowSet
    BY <1>1, SMTT(20) DEF RowSet
  <2>2. r \in [1..n -> RowSet]
    BY <2>1 DEF Rows
  <2> QED BY <2>2, IsASequence
<1>7. ASSUME NEW i \in 1..n PROVE r[i] = AllRows[Sliced + i]
  <2>1. r[i] = <<s, pos.row + i>>
    BY DEF Rows
  <2> DEFINE j == pos.row + i
  <2>2. j \in 1..count
    BY <1>2a, SMTT(30)
  <2> HIDE DEF s, d, count
  <2>3. AllRows[d + j] = <<s, j>>
    BY <1>2, <2>2
  <2>4. Sliced + i = d + j
    BY <1>2a, <1>5
  <2> QED BY <2>1, <2>3, <2>4
<1>8. Sliced \in Nat /\ Sliced + n <= Len(AllRows)
  <2> HIDE DEF d, count
  <2>1. pos.row + n <= count
    BY DEF count, s
  <2>2. d + count <= Len(AllRows) /\ Len(AllRows) \in Nat
    BY <1>2a, <1>3, <1>4
  <2> QED BY <1>2a, <1>5, <2>1, <2>2, SMTT(30)
<1> HIDE DEF r, d, s, count
<1>9. SubSeq(AllRows, 1, Sliced) \o r = SubSeq(AllRows, 1, Sliced + n)
  BY <1>4, <1>6, <1>7, <1>8, PrefixExtended
<1> QED BY <1>8, <1>9 DEF r

\* The plan of a task does not change, and neither does what it promises.
LEMMA PlanKept ==
    ASSUME plan' = plan
    PROVE  ScansUpTo' = ScansUpTo /\ AllRows' = AllRows
<1>1. ScansUpTo' = ScansUpTo
  BY DEF ScansUpTo, RowsOf
<1> QED BY <1>1 DEF AllRows
-----------------------------------------------------------------------------
(* The promise of a read task *)

LEMMA InitProgress == Init => Progress
<1> SUFFICES ASSUME Init PROVE Progress
  OBVIOUS
<1>1. plan \in Seq(Seq(Nat)) /\ (limit # None => limit \in Nat)
  BY ReadAssumption DEF Init
<1>2. AllRows \in Seq(RowSet) /\ Len(AllRows) \in Nat
  BY <1>1, AllRowsType
<1>3. pos.scan = 1 /\ pos.row = 0 /\ pos = Start(pos.scan)
  BY DEF Init, Start, Position
<1>4. Len(ScansUpTo[0]) = 0
  BY <1>1, ScansUpToDef
<1>5. Sliced = 0
  BY <1>3, <1>4 DEF Sliced
<1>6. delivered = << >> /\ Len(delivered) = 0
  BY DEF Init
<1>7. SubSeq(AllRows, 1, 0) = << >>
  BY <1>2
<1>8. FirstRows
  BY <1>1, <1>2, <1>5, <1>6, <1>7 DEF FirstRows
<1> QED BY <1>3, <1>8 DEF Init, Progress, StreamPosition, Reading

\* What the steps need to know of a state.
LEMMA TaskFacts ==
    ASSUME TypeInv, FirstRows
    PROVE  /\ plan \in Seq(Seq(Nat)) /\ Len(plan) \in Nat
           /\ pos.scan \in 1..(Len(plan) + 1)
           /\ pos.batch \in Nat /\ pos.pending \in Nat /\ pos.row \in Nat
           /\ limit # None => limit \in Nat
           /\ Len(delivered) \in Nat
           /\ AllRows \in Seq(RowSet) /\ Len(AllRows) \in Nat
           /\ Sliced \in Nat
           /\ ~LimitReached => Len(delivered) = Sliced
<1>1. /\ plan \in Seq(Seq(Nat)) /\ Len(plan) \in Nat
      /\ pos.scan \in 1..(Len(plan) + 1)
      /\ pos.batch \in Nat /\ pos.pending \in Nat /\ pos.row \in Nat
      /\ limit # None => limit \in Nat
      /\ Len(delivered) \in Nat
  BY ReadAssumption DEF TypeInv, TypeOK, ScansOK
<1>2. AllRows \in Seq(RowSet) /\ Len(AllRows) \in Nat
  BY <1>1, AllRowsType
<1>3. Sliced \in Nat
  <2>1. pos.scan - 1 \in 0..Len(plan)
    BY <1>1
  <2>2. ScansUpTo[pos.scan - 1] \in Seq(RowSet)
    BY <1>1, <2>1, ScansUpToDef
  <2>3. Len(ScansUpTo[pos.scan - 1]) \in Nat
    BY <2>2
  <2> QED BY <1>1, <2>3 DEF Sliced
<1>4. ~LimitReached => Len(delivered) = Sliced
  BY <1>1, <1>3 DEF FirstRows, LimitReached
<1> QED BY <1>1, <1>2, <1>3, <1>4

\* A slice is a part of the scan, and what is left of the limit cuts it.
LEMMA SliceBounds ==
    ASSUME IInv, TypeInv, Progress, pc = "slice", NEW n \in SliceSizes(pos.pending)
    PROVE  /\ n \in Nat \ {0} /\ n <= pos.pending
           /\ pos.row + n <= RowCount(plan[pos.scan])
           /\ Remaining(n) \in 1..n
           /\ InPlan
<1>1. FirstRows /\ StreamPosition
  BY DEF Progress
<1>2. n \in Nat \ {0} /\ n <= pos.pending
  BY <1>1, TaskFacts, ReadAssumption DEF SliceSizes
<1>3. InPlan
  BY DEF TypeInv, Searched, Reading
<1>4. plan[pos.scan] \in Seq(Nat)
  BY <1>1, <1>3, TaskFacts DEF InPlan
<1>5. pos.batch \in 0..Len(plan[pos.scan]) /\ pos.row + pos.pending = RowsUpTo(plan[pos.scan])[pos.batch]
  BY <1>1, <1>4, TaskFacts DEF StreamPosition, Reading
<1>6. RowsUpTo(plan[pos.scan])[pos.batch] <= RowCount(plan[pos.scan]) /\ RowCount(plan[pos.scan]) \in Nat
  BY <1>4, <1>5, RowsUpToGrow, RowCountNat
<1>7. pos.row + n <= RowCount(plan[pos.scan])
  BY <1>1, <1>2, <1>5, <1>6, TaskFacts
<1>8. limit # None => limit \in Nat /\ Len(delivered) < limit
  BY <1>1, TaskFacts DEF StreamPosition, LimitReached
<1>9. Remaining(n) \in 1..n
  BY <1>1, <1>2, <1>8, TaskFacts DEF Remaining
<1> QED BY <1>2, <1>3, <1>7, <1>9

\* A slice is handed on: the rows that follow the ones delivered, up to the
\* limit.
LEMMA YieldDelivers ==
    ASSUME IInv, TypeInv, Progress, pc = "slice", NEW n \in SliceSizes(pos.pending), Yield(n, Remaining(n))
    PROVE  /\ Len(delivered) = Sliced
           /\ delivered' = SubSeq(AllRows, 1, Sliced + Remaining(n))
           /\ Len(delivered') = Sliced + Remaining(n)
           /\ Sliced + n <= Len(AllRows)
           /\ Sliced' = Sliced + n
           /\ AllRows' = AllRows /\ limit' = limit
<1>1. /\ delivered' = delivered \o Rows(Remaining(n))
      /\ pos' = Position(pos.scan, pos.batch, pos.pending - n, pos.row + n)
      /\ plan' = plan /\ limit' = limit
  BY DEF Yield
<1>2. FirstRows /\ ~LimitReached
  BY <1>1 DEF Progress, StreamPosition
<1> DEFINE k == Remaining(n)
<1>3. /\ n \in Nat /\ pos.row + n <= RowCount(plan[pos.scan])
      /\ k \in Nat /\ k <= n /\ InPlan
  BY <1>1, SliceBounds
<1>t. /\ plan \in Seq(Seq(Nat)) /\ pos.row \in Nat /\ Sliced \in Nat
      /\ Len(delivered) = Sliced /\ delivered = SubSeq(AllRows, 1, Len(delivered))
      /\ AllRows \in Seq(RowSet) /\ Len(AllRows) \in Nat /\ pos.scan \in 1..(Len(plan) + 1)
  BY <1>2, TaskFacts DEF FirstRows
<1>n. RowCount(plan[pos.scan]) \in Nat
  <2>1. plan \in Seq(Seq(Nat)) /\ pos.scan \in 1..Len(plan)
    BY <1>3, <1>t DEF InPlan
  <2>2. plan[pos.scan] \in Seq(Nat)
    BY <2>1
  <2> QED BY <2>2, RowCountNat
<1> HIDE DEF k
<1>4. pos.row + k <= RowCount(plan[pos.scan])
  BY <1>3, <1>t, <1>n
<1>5. delivered \o Rows(k) = SubSeq(AllRows, 1, Sliced + k) /\ Sliced + k <= Len(AllRows)
  BY <1>3, <1>4, <1>t, RowsFollow
<1>6. Sliced + n <= Len(AllRows)
  BY <1>3, <1>t, RowsFollow
<1>7. Len(SubSeq(AllRows, 1, Sliced + k)) = Sliced + k
  BY <1>3, <1>5, <1>t
<1>8. pos'.scan = pos.scan /\ pos'.row = pos.row + n
  BY <1>1 DEF Position
<1>9. ScansUpTo' = ScansUpTo /\ AllRows' = AllRows
  BY <1>1, PlanKept
<1>10. Sliced' = Sliced + n
  <2>1. Len(ScansUpTo[pos.scan - 1]) \in Nat
    BY <1>3, <1>t, RowsOfScan DEF InPlan
  <2>2. Sliced' = Len(ScansUpTo[pos.scan - 1]) + (pos.row + n)
    BY <1>8, <1>9 DEF Sliced
  <2>3. Sliced = Len(ScansUpTo[pos.scan - 1]) + pos.row
    BY DEF Sliced
  <2>4. pos.row \in Int /\ n \in Int
    BY <1>3, <1>t
  <2>5. \A a, b, c \in Int : (a + b) + c = a + (b + c)
    OBVIOUS
  <2> QED BY <2>1, <2>2, <2>3, <2>4, <2>5
<1> QED BY <1>1, <1>5, <1>6, <1>7, <1>9, <1>10, <1>t DEF k

LEMMA StepFirstRows ==
    ASSUME IInv, TypeInv, Progress, [Next]_vars
    PROVE  FirstRows'
<1>0. FirstRows /\ StreamPosition
  BY DEF Progress
<1>1. ASSUME UNCHANGED <<plan, limit, delivered>>, Sliced' = Sliced PROVE FirstRows'
  <2>1. AllRows' = AllRows
    BY <1>1, PlanKept
  <2> QED BY <1>0, <1>1, <2>1 DEF FirstRows
<1>2. CASE UNCHANGED <<plan, limit, pos, delivered>>
  <2>1. Sliced' = Sliced
    BY <1>2, PlanKept DEF Sliced
  <2> QED BY <1>1, <1>2, <2>1
<1>3. CASE Fetch
  <2>1. pos'.scan = pos.scan /\ pos'.row = pos.row /\ UNCHANGED <<plan, limit, delivered>>
    BY <1>3 DEF Fetch, Position
  <2>2. Sliced' = Sliced
    BY <2>1, PlanKept DEF Sliced
  <2> QED BY <1>1, <2>1, <2>2
<1>4. CASE Unwind
  <2>1. CASE exc # None
    <3>1. UNCHANGED <<plan, limit, pos, delivered>>
      BY <1>4, <2>1 DEF Unwind
    <3> QED BY <1>2, <3>1
  <2>2. CASE exc = None
    <3>1. /\ InPlan /\ pos.row = RowCount(plan[pos.scan])
          /\ pos'.scan = pos.scan + 1 /\ pos'.row = 0 /\ UNCHANGED <<plan, limit, delivered>>
      BY <1>0, <1>4, <2>2 DEF Unwind, TypeInv, Searched, StreamPosition, Start, Position
    <3>2. Len(ScansUpTo[pos.scan]) = Len(ScansUpTo[pos.scan - 1]) + RowCount(plan[pos.scan])
      BY <1>0, <3>1, TaskFacts, RowsOfScan DEF InPlan
    <3>3. Sliced' = Len(ScansUpTo[(pos.scan + 1) - 1]) + 0
      BY <3>1, PlanKept DEF Sliced
    <3>4. (pos.scan + 1) - 1 = pos.scan /\ Len(ScansUpTo[pos.scan]) \in Nat
      <4>1. pos.scan \in 0..Len(plan)
        BY <3>1 DEF InPlan
      <4>2. ScansUpTo[pos.scan] \in Seq(RowSet)
        BY <1>0, <4>1, TaskFacts, ScansUpToDef
      <4> QED BY <4>1, <4>2
    <3>5. Sliced' = Sliced
      BY <3>1, <3>2, <3>3, <3>4 DEF Sliced
    <3> QED BY <1>1, <3>1, <3>5
  <2> QED BY <2>1, <2>2
<1>5. CASE YieldBlock
  <2>0. PICK n \in SliceSizes(pos.pending) : pc = "slice" /\ Yield(n, Remaining(n))
    BY <1>5 DEF YieldBlock
  <2> DEFINE k == Remaining(n)
             all == AllRows
  <2>1. /\ Len(delivered) = Sliced
        /\ delivered' = SubSeq(all, 1, Sliced + k) /\ Len(delivered') = Sliced + k
        /\ Sliced + n <= Len(all) /\ Sliced' = Sliced + n
        /\ AllRows' = all /\ limit' = limit
    BY <2>0, YieldDelivers
  <2>2. n \in Nat /\ k = IF limit # None /\ limit - Len(delivered) < n
                         THEN limit - Len(delivered) ELSE n
    BY <2>0, SliceBounds DEF Remaining
  <2>3. Sliced \in Nat /\ (limit # None => limit \in Nat)
    BY <1>0, TaskFacts
  <2> HIDE DEF k, all
  <2>4. Sliced + k = IF limit # None /\ limit < Sliced + n THEN limit ELSE Sliced + n
    BY <2>1, <2>2, <2>3
  <2> QED BY <2>1, <2>4 DEF FirstRows
<1>6. UNCHANGED <<plan, limit, pos, delivered>> \/ Fetch \/ Unwind \/ YieldBlock
  BY DEF Next, Step, Consumer, Diagnose, Ended, vars, NextScan, OpenClient, OpenFails,
     SetUpStream, EndOfStream, ReadFails, Interrupted, EndOfBatch, CloseClient, CloseFails,
     OpenDiagnostic, Flush, FindLogTable, LookUp, NoDiagnostic, DiagnosticInterrupted,
     CloseDiagnostic, Resume, CloseEarly
<1> QED BY <1>2, <1>3, <1>4, <1>5, <1>6

LEMMA StepStreamPosition ==
    ASSUME IInv, TypeInv, Progress, [Next]_vars
    PROVE  StreamPosition'
<1>0. FirstRows /\ StreamPosition
  BY DEF Progress
<1>l. ASSUME UNCHANGED <<limit, delivered>> PROVE LimitReached' = LimitReached
  BY <1>l DEF LimitReached
<1>p. ASSUME pc \in Reading PROVE InPlan /\ plan[pos.scan] \in Seq(Nat)
  BY <1>0, <1>p, TaskFacts DEF TypeInv, Searched, InPlan
<1> USE DEF StreamPosition, Reading
<1>1. CASE Fetch
  <2>1. /\ pc = "fetch" /\ pos.batch < Len(plan[pos.scan]) /\ pc' = "slice"
        /\ pos' = Position(pos.scan, pos.batch + 1, plan[pos.scan][pos.batch + 1], pos.row)
        /\ UNCHANGED <<plan, limit, delivered>>
    BY <1>1 DEF Fetch
  <2> DEFINE scan == plan[pos.scan]
             b == pos.batch
  <2>2. scan \in Seq(Nat) /\ b \in Nat /\ pos.row \in Nat
    BY <1>0, <1>p, <2>1, TaskFacts
  <2>3. b + 1 \in 1..Len(scan) /\ (b + 1) - 1 = b
    BY <2>1, <2>2
  <2>4. RowsUpTo(scan)[b + 1] = RowsUpTo(scan)[b] + scan[b + 1]
    BY <2>2, <2>3, RowsUpToDef
  <2>5. pos.row + 0 = RowsUpTo(scan)[b]
    BY <1>0, <2>1
  <2>6. pos.row + scan[b + 1] = RowsUpTo(scan)[b + 1] /\ b + 1 <= Len(scan)
    BY <2>2, <2>3, <2>4, <2>5
  <2>7. pos'.scan = pos.scan /\ pos'.batch = b + 1 /\ pos'.pending = scan[b + 1] /\ pos'.row = pos.row
    BY <2>1 DEF Position
  <2> QED BY <1>0, <1>l, <2>1, <2>6, <2>7
<1>2. CASE Unwind
  BY <1>0, <1>2 DEF Unwind, End, Start, Position
<1>3. CASE YieldBlock
  <2>0. PICK n \in SliceSizes(pos.pending) : pc = "slice" /\ Yield(n, Remaining(n))
    BY <1>3 DEF YieldBlock
  <2>1. /\ pc' = "consumer" /\ plan' = plan /\ pc = "slice"
        /\ pos' = Position(pos.scan, pos.batch, pos.pending - n, pos.row + n)
    BY <2>0 DEF Yield
  <2>2. n \in Nat
    BY <2>0, SliceBounds
  <2>3. pos'.scan = pos.scan /\ pos'.batch = pos.batch
        /\ pos'.pending = pos.pending - n /\ pos'.row = pos.row + n
    BY <2>1 DEF Position
  <2>4. pos'.row + pos'.pending = pos.row + pos.pending
    BY <1>0, <2>2, <2>3, TaskFacts
  <2> QED BY <1>0, <2>1, <2>3, <2>4
<1>4. CASE EndOfStream
  <2>1. pc = "fetch" /\ pos.batch = Len(plan[pos.scan]) /\ pc' = "close"
        /\ UNCHANGED <<plan, pos, limit, delivered, exc>>
    BY <1>4 DEF EndOfStream
  <2>2. pos.row + 0 = RowCount(plan[pos.scan])
    BY <1>0, <2>1 DEF RowCount
  <2>3. pos.row \in Nat
    BY <1>0, TaskFacts
  <2> QED BY <2>1, <2>2, <2>3
<1>5. CASE EndOfBatch
  BY <1>0, <1>l, <1>5 DEF EndOfBatch
<1>6. CASE NextScan
  BY <1>0, <1>l, <1>6 DEF NextScan, End
<1>7. CASE Resume
  <2>1. "GeneratorExit" # None
    BY ReadErrorsAreErrors
  <2>2. LimitReached' = LimitReached
    BY <1>l, <1>7 DEF Resume
  <2>3. CASE LimitReached
    BY <1>7, <2>1, <2>3 DEF Resume
  <2>4. CASE ~LimitReached
    BY <1>0, <1>7, <2>2, <2>4 DEF Resume
  <2> QED BY <2>3, <2>4
<1>8. CASE OpenClient
  <2>1. /\ pos = Start(pos.scan) /\ UNCHANGED <<plan, pos, limit, delivered>>
        /\ pc = "open" /\ pc' = "setup" /\ ~LimitReached
    BY <1>0, <1>8 DEF OpenClient
  <2>2. pos.batch = 0 /\ pos.pending = 0 /\ pos.row = 0
    BY <2>1 DEF Start, Position
  <2>3. plan[pos.scan] \in Seq(Nat)
    BY <1>0, <2>1, TaskFacts DEF TypeInv, Searched, InPlan
  <2>4. RowsUpTo(plan[pos.scan])[0] = 0 /\ 0 <= Len(plan[pos.scan])
    BY <2>3, RowsUpToDef
  <2>5. pos' = Start(pos'.scan)
    BY <2>1, Zenon
  <2> QED BY <1>l, <2>1, <2>2, <2>4, <2>5
<1>s. CASE SetUpStream
  BY <1>0, <1>l, <1>s DEF SetUpStream, Start, Position
<1>c. CASE CloseClient
  BY <1>0, <1>c DEF CloseClient
<1>9. CASE OpenFails \/ ReadFails \/ Interrupted \/ CloseEarly
  BY <1>0, <1>9, ReadErrorsAreErrors DEF OpenFails, ReadFails, Interrupted, CloseEarly
<1>10. CASE CloseFails
  BY <1>0, <1>10, ReadErrorsAreErrors DEF CloseFails
<1>11. CASE Diagnose
  <2>1. pc' \in {"diagnostic client", "flush", "log table", "lookup", "diagnostic close"}
        \/ CloseDiagnostic
    BY <1>11 DEF Diagnose, OpenDiagnostic, Flush, FindLogTable, LookUp, NoDiagnostic,
                DiagnosticInterrupted
  <2>2. CASE CloseDiagnostic
    <3>1. exc # None /\ exc' = exc /\ pc' = "close"
      BY <2>2, ReadErrorsAreErrors DEF CloseDiagnostic, IInv, InFlight
    <3> QED BY <3>1
  <2> QED BY <2>1, <2>2
<1>12. CASE UNCHANGED vars
  BY <1>0, <1>l, <1>12 DEF vars
<1> QED
  BY <1>1, <1>2, <1>3, <1>4, <1>5, <1>6, <1>7, <1>8, <1>9, <1>10, <1>11, <1>12, <1>c, <1>s
  DEF Next, Step, Consumer, Ended

LEMMA StepProgress == IInv /\ TypeInv /\ Progress /\ [Next]_vars => Progress'
<1> SUFFICES ASSUME IInv, TypeInv, Progress, [Next]_vars PROVE Progress'
  OBVIOUS
<1>1. FirstRows' /\ StreamPosition'
  BY StepFirstRows, StepStreamPosition
<1>2. (pc = "end" <=> outcome # "running")
  BY DEF Progress
<1>3. (pc' = "end" <=> outcome' # "running")
  BY <1>2 DEF Next, Step, Consumer, Diagnose, Ended, vars, NextScan, OpenClient, OpenFails,
     SetUpStream, EndOfStream, ReadFails, Interrupted, EndOfBatch, CloseClient, CloseFails,
     OpenDiagnostic, Flush, FindLogTable, LookUp, NoDiagnostic, DiagnosticInterrupted,
     CloseDiagnostic, Resume, CloseEarly, Fetch, Unwind, YieldBlock, Yield, End
<1> QED BY <1>1, <1>3 DEF Progress

\* Nothing is owed once the limit is reached, or the last scan is read.
LEMMA NothingOwed ==
    ASSUME TypeInv, Progress,
           LimitReached \/ (pc = "group" /\ pos.scan > Len(plan))
    PROVE  Len(delivered) = Promise!Owed
<1>1. FirstRows /\ StreamPosition
  BY DEF Progress
<1>2. /\ Sliced \in Nat /\ Len(AllRows) \in Nat /\ Len(delivered) \in Nat
      /\ limit # None => limit \in Nat
      /\ pos.scan \in 1..(Len(plan) + 1) /\ Len(plan) \in Nat
  BY <1>1, TaskFacts
<1>3. CASE LimitReached
  BY <1>1, <1>2, <1>3 DEF LimitReached, FirstRows, Promise!Owed
<1>4. CASE pc = "group" /\ pos.scan > Len(plan)
  <2>1. pos.scan - 1 = Len(plan) /\ pos.row = 0
    BY <1>1, <1>2, <1>4 DEF StreamPosition, Start, Position
  <2>2. Sliced = Len(AllRows) + 0
    BY <2>1 DEF Sliced, AllRows
  <2> QED BY <1>1, <1>2, <2>2 DEF FirstRows, Promise!Owed
<1> QED BY <1>3, <1>4

LEMMA StepPromise ==
    IInv /\ TypeInv /\ Progress /\ [Next]_vars =>
        [Promise!Deliver \/ Promise!Return \/ Promise!GiveUp]_(Promise!vars)
<1> SUFFICES ASSUME IInv, TypeInv, Progress, [Next]_vars
             PROVE  \/ Promise!Deliver \/ Promise!Return \/ Promise!GiveUp
                    \/ UNCHANGED Promise!vars
  OBVIOUS
<1>0. FirstRows /\ StreamPosition /\ (pc = "end" <=> outcome # "running")
  BY DEF Progress
<1>1. CASE UNCHANGED <<plan, limit, delivered, outcome>>
  BY <1>1, PlanKept DEF Promise!vars
<1>2. CASE YieldBlock
  <2>0. PICK n \in SliceSizes(pos.pending) : pc = "slice" /\ Yield(n, Remaining(n))
    BY <1>2 DEF YieldBlock
  <2> DEFINE k == Remaining(n)
  <2>1. /\ Len(delivered) = Sliced
        /\ delivered' = SubSeq(AllRows, 1, Sliced + k)
        /\ Sliced + n <= Len(AllRows)
        /\ AllRows' = AllRows /\ limit' = limit
    BY <2>0, YieldDelivers
  <2>2. k \in 1..n /\ n \in Nat /\ outcome' = outcome /\ outcome = "running"
    BY <1>0, <2>0, SliceBounds DEF Yield
  <2>3. limit # None => k <= limit - Len(delivered)
    BY <1>0, <2>2, TaskFacts DEF Remaining
  <2>4. Sliced \in Nat /\ Len(AllRows) \in Nat /\ (limit # None => limit \in Nat)
    BY <1>0, TaskFacts
  <2> HIDE DEF k
  <2>5. Sliced + k \in (Len(delivered) + 1)..Promise!Owed
    BY <2>1, <2>2, <2>3, <2>4 DEF Promise!Owed
  <2>6. Promise!Deliver
    BY <2>1, <2>2, <2>5 DEF Promise!Deliver
  <2> QED BY <2>6
<1>3. CASE NextScan
  <2>1. CASE LimitReached \/ pos.scan > Len(plan)
    <3>1. Len(delivered) = Promise!Owed
      BY <1>3, <2>1, NothingOwed DEF NextScan
    <3>2. outcome = "running" /\ outcome' = "returned" /\ UNCHANGED <<plan, limit, delivered>>
      BY <1>0, <1>3, <2>1 DEF NextScan, End
    <3>3. Promise!Return
      BY <3>1, <3>2, PlanKept DEF Promise!Return
    <3> QED BY <3>3
  <2>2. CASE ~(LimitReached \/ pos.scan > Len(plan))
    BY <1>1, <1>3, <2>2 DEF NextScan
  <2> QED BY <2>1, <2>2
<1>4. CASE Unwind
  <2>1. CASE exc = None
    BY <1>1, <1>4, <2>1 DEF Unwind
  <2>2. CASE exc = "GeneratorExit" /\ LimitReached
    <3>1. Len(delivered) = Promise!Owed
      BY <2>2, NothingOwed
    <3>2. outcome = "running" /\ outcome' = "returned" /\ UNCHANGED <<plan, limit, delivered>>
      BY <1>0, <1>4, <2>2, ReadErrorsAreErrors DEF Unwind, End
    <3>3. Promise!Return
      BY <3>1, <3>2, PlanKept DEF Promise!Return
    <3> QED BY <3>3
  <2>3. CASE exc # None /\ ~(exc = "GeneratorExit" /\ LimitReached)
    <3>1. outcome = "running" /\ outcome' \in {"raised", "closed"} /\ UNCHANGED <<plan, limit, delivered>>
      BY <1>0, <1>4, <2>3 DEF Unwind, End
    <3>2. Promise!GiveUp
      BY <3>1, PlanKept DEF Promise!GiveUp
    <3> QED BY <3>2
  <2> QED BY <2>1, <2>2, <2>3
<1>5. UNCHANGED <<plan, limit, delivered, outcome>> \/ NextScan \/ Unwind \/ YieldBlock
  BY DEF Next, Step, Consumer, Diagnose, Ended, vars, OpenClient, OpenFails, Fetch,
     SetUpStream, EndOfStream, ReadFails, Interrupted, EndOfBatch, CloseClient, CloseFails,
     OpenDiagnostic, Flush, FindLogTable, LookUp, NoDiagnostic, DiagnosticInterrupted,
     CloseDiagnostic, Resume, CloseEarly
<1> QED BY <1>1, <1>2, <1>3, <1>4, <1>5

\* A read task implements the promise of RowStream.
THEOREM TaskImplementsRowStream == FairSpec => ImplementsRowStream
<1>1. Init => Promise!Init
  BY DEF Init, Promise!Init
<1>2. IInv /\ TypeInv /\ Progress /\ [Next]_vars => (IInv /\ TypeInv /\ Progress)'
  BY StepIInv, StepTypeInv, StepProgress
<1> QED
  BY <1>1, <1>2, InitIInv, InitTypeInv, InitProgress, StepPromise, PTL
  DEF FairSpec, ImplementsRowStream, Promise!Spec
-----------------------------------------------------------------------------
(* How far the task is from its end.  Liveness is left to TLC, but that no    *)
(* behaviour goes on for ever can be said of its steps: each goes down in a   *)
(* lexicographic order of natural numbers.                                    *)

Stage ==
    [at \in PCs |->
       CASE at = "group" -> 13 [] at = "open" -> 12 [] at = "setup" -> 11
         [] at = "consumer" -> 10 [] at = "slice" -> 9 [] at = "fetch" -> 8
         [] at = "diagnostic client" -> 7 [] at = "flush" -> 6 [] at = "log table" -> 5
         [] at = "lookup" -> 4 [] at = "diagnostic close" -> 3 [] at = "close" -> 2
         [] at = "unwind" -> 1 [] at = "end" -> 0]

\* Scans, batches of the scan, rows of the batch, queries to the log, and the
\* steps in between.
ScansLeft == Len(plan) + 1 - pos.scan
BatchesLeft == IF InPlan THEN Len(plan[pos.scan]) - pos.batch ELSE 0
Left == <<ScansLeft, BatchesLeft, pos.pending, Attempts - lookups, Stage[pc]>>

\* a is before b in the lexicographic order.
Precedes(a, b) ==
    \E i \in 1..5 : a[i] < b[i] /\ \A j \in 1..(i - 1) : a[j] = b[j]

Tuples == [1..5 -> Nat]

LEMMA PrecedesAt ==
    ASSUME NEW a1, NEW a2, NEW a3, NEW a4, NEW a5, NEW b1, NEW b2, NEW b3, NEW b4, NEW b5,
           \/ a1 < b1
           \/ a1 = b1 /\ a2 < b2
           \/ a1 = b1 /\ a2 = b2 /\ a3 < b3
           \/ a1 = b1 /\ a2 = b2 /\ a3 = b3 /\ a4 < b4
           \/ a1 = b1 /\ a2 = b2 /\ a3 = b3 /\ a4 = b4 /\ a5 < b5
    PROVE  Precedes(<<a1, a2, a3, a4, a5>>, <<b1, b2, b3, b4, b5>>)
<1> DEFINE a == <<a1, a2, a3, a4, a5>>
           b == <<b1, b2, b3, b4, b5>>
<1>1. /\ a[1] = a1 /\ a[2] = a2 /\ a[3] = a3 /\ a[4] = a4 /\ a[5] = a5
      /\ b[1] = b1 /\ b[2] = b2 /\ b[3] = b3 /\ b[4] = b4 /\ b[5] = b5
  OBVIOUS
<1> HIDE DEF a, b
<1>2. \/ a[1] < b[1]
      \/ a[1] = b[1] /\ a[2] < b[2]
      \/ a[1] = b[1] /\ a[2] = b[2] /\ a[3] < b[3]
      \/ a[1] = b[1] /\ a[2] = b[2] /\ a[3] = b[3] /\ a[4] < b[4]
      \/ a[1] = b[1] /\ a[2] = b[2] /\ a[3] = b[3] /\ a[4] = b[4] /\ a[5] < b[5]
  BY <1>1
<1>3. Precedes(a, b)
  BY <1>2 DEF Precedes
<1> QED
  BY <1>3 DEF a, b

LEMMA Stages ==
    /\ Stage["group"] = 13 /\ Stage["open"] = 12 /\ Stage["setup"] = 11
    /\ Stage["consumer"] = 10 /\ Stage["slice"] = 9 /\ Stage["fetch"] = 8
    /\ Stage["diagnostic client"] = 7 /\ Stage["flush"] = 6 /\ Stage["log table"] = 5
    /\ Stage["lookup"] = 4 /\ Stage["diagnostic close"] = 3 /\ Stage["close"] = 2
    /\ Stage["unwind"] = 1 /\ Stage["end"] = 0
<1>1. Stage["group"] = 13
  BY DEF Stage, PCs
<1>2. Stage["open"] = 12
  BY DEF Stage, PCs
<1>3. Stage["setup"] = 11
  BY DEF Stage, PCs
<1>4. Stage["consumer"] = 10
  BY DEF Stage, PCs
<1>5. Stage["slice"] = 9
  BY DEF Stage, PCs
<1>6. Stage["fetch"] = 8
  BY DEF Stage, PCs
<1>7. Stage["diagnostic client"] = 7
  BY DEF Stage, PCs
<1>8. Stage["flush"] = 6
  BY DEF Stage, PCs
<1>9. Stage["log table"] = 5
  BY DEF Stage, PCs
<1>10. Stage["lookup"] = 4
  BY DEF Stage, PCs
<1>11. Stage["diagnostic close"] = 3
  BY DEF Stage, PCs
<1>12. Stage["close"] = 2
  BY DEF Stage, PCs
<1>13. Stage["unwind"] = 1
  BY DEF Stage, PCs
<1>14. Stage["end"] = 0
  BY DEF Stage, PCs
<1> QED
  BY <1>1, <1>2, <1>3, <1>4, <1>5, <1>6, <1>7, <1>8, <1>9, <1>10, <1>11, <1>12, <1>13, <1>14

\* No more batches have been read of a scan than it has.
BatchInScan == InPlan => pos.batch <= Len(plan[pos.scan])

LEMMA BatchesBounded ==
    /\ Init => BatchInScan
    /\ IInv /\ TypeInv /\ Progress /\ BatchInScan /\ [Next]_vars => BatchInScan'
<1>1. ASSUME Init PROVE BatchInScan
  <2>1. pos.batch = 0 /\ plan \in Seq(Seq(Nat))
    BY <1>1, ReadAssumption DEF Init, Start, Position
  <2> QED
    BY <2>1 DEF BatchInScan, InPlan
<1>2. ASSUME IInv, TypeInv, Progress, BatchInScan, [Next]_vars PROVE BatchInScan'
  <2>1. plan \in Seq(Seq(Nat)) /\ pos.scan \in Nat /\ pos.batch \in Nat
    BY <1>2, TaskFacts DEF Progress
  <2>2. UNCHANGED plan
    BY <1>2 DEF Next, Step, Consumer, Diagnose, Ended, vars, NextScan, Unwind, OpenClient, OpenFails,
       SetUpStream, Fetch, EndOfStream, ReadFails, Interrupted, YieldBlock, Yield, EndOfBatch,
       CloseClient, CloseFails, OpenDiagnostic, Flush, FindLogTable, LookUp, NoDiagnostic,
       DiagnosticInterrupted, CloseDiagnostic, Resume, CloseEarly
  <2>3. CASE UNCHANGED pos \/ YieldBlock
    BY <1>2, <2>2, <2>3 DEF BatchInScan, InPlan, YieldBlock, Yield, Position
  <2>4. CASE Fetch
    <3>1. InPlan => Len(plan[pos.scan]) \in Nat
      BY <2>1 DEF InPlan
    <3> QED
      BY <2>1, <2>2, <2>4, <3>1 DEF BatchInScan, InPlan, Fetch, Position
  <2>5. CASE Unwind /\ exc = None
    <3>1. pos'.batch = 0
      BY <2>5 DEF Unwind, Start, Position
    <3>2. InPlan' => Len(plan[pos'.scan]) \in Nat
      BY <2>1, <2>2 DEF InPlan
    <3> QED
      BY <2>2, <3>1, <3>2 DEF BatchInScan
  <2>6. UNCHANGED pos \/ YieldBlock \/ Fetch \/ (Unwind /\ exc = None)
    BY <1>2 DEF Next, Step, Consumer, Diagnose, Ended, vars, NextScan, Unwind, OpenClient, OpenFails,
       SetUpStream, EndOfStream, ReadFails, Interrupted, EndOfBatch,
       CloseClient, CloseFails, OpenDiagnostic, Flush, FindLogTable, LookUp, NoDiagnostic,
       DiagnosticInterrupted, CloseDiagnostic, Resume, CloseEarly
  <2> QED
    BY <2>3, <2>4, <2>5, <2>6
<1> QED
  BY <1>1, <1>2

LEMMA LeftType ==
    ASSUME IInv, TypeInv, Progress, BatchInScan
    PROVE  /\ ScansLeft \in Nat /\ BatchesLeft \in Nat /\ pos.pending \in Nat
           /\ Attempts - lookups \in Nat /\ Stage[pc] \in Nat
           /\ Left \in Tuples
<1>1. plan \in Seq(Seq(Nat)) /\ Len(plan) \in Nat /\ pos.scan \in 1..(Len(plan) + 1)
      /\ pos.batch \in Nat /\ pos.pending \in Nat /\ lookups \in 0..Attempts /\ pc \in PCs
  BY TaskFacts DEF Progress, TypeInv, TypeOK
<1>2. ScansLeft \in Nat
  BY <1>1 DEF ScansLeft
<1>3. BatchesLeft \in Nat
  <2>1. InPlan => Len(plan[pos.scan]) \in Nat
    BY <1>1 DEF InPlan
  <2> QED
    BY <1>1, <2>1 DEF BatchesLeft, BatchInScan
<1>4. Attempts - lookups \in Nat
  BY <1>1, ReadAssumption
<1>5. Stage[pc] \in Nat
  BY <1>1 DEF Stage, PCs
<1> QED
  BY <1>1, <1>2, <1>3, <1>4, <1>5, SMTT(20) DEF Left, Tuples

\* Where only the place changes.
LEMMA StageAdvances ==
    ASSUME UNCHANGED <<plan, pos, lookups>>, Stage[pc'] < Stage[pc]
    PROVE  Precedes(Left', Left)
<1>1. ScansLeft' = ScansLeft /\ BatchesLeft' = BatchesLeft
  BY DEF ScansLeft, BatchesLeft, InPlan
<1>2. Stage' = Stage
  BY DEF Stage
<1> QED
  BY <1>1, <1>2, PrecedesAt DEF Left

LEMMA StepAdvances ==
    ASSUME IInv, TypeInv, Progress, BatchInScan, [Next]_vars
    PROVE  Precedes(Left', Left) \/ UNCHANGED vars
<1>0. /\ pos.scan \in 1..(Len(plan) + 1) /\ Len(plan) \in Nat
      /\ pos.batch \in Nat /\ pos.pending \in Nat /\ lookups \in Nat /\ Attempts \in Nat
      /\ ScansLeft \in Nat /\ BatchesLeft \in Nat
  BY TaskFacts, LeftType, ReadAssumption DEF Progress, TypeInv, TypeOK
<1>1. \/ Fetch \/ YieldBlock \/ LookUp
      \/ Unwind /\ exc = None
      \/ UNCHANGED <<plan, pos, lookups>> /\ Stage[pc'] < Stage[pc]
      \/ UNCHANGED vars
  <2>1. ASSUME NextScan \/ Resume \/ CloseEarly \/ (Unwind /\ exc # None)
        PROVE  UNCHANGED <<plan, pos, lookups>> /\ Stage[pc'] < Stage[pc]
    <3>1. UNCHANGED <<plan, pos, lookups>>
      BY <2>1 DEF NextScan, Resume, CloseEarly, Unwind
    <3>2. \/ pc = "group" /\ pc' \in {"end", "open"}
          \/ pc = "consumer" /\ pc' \in {"slice", "close"}
          \/ pc = "unwind" /\ pc' = "end"
      BY <2>1 DEF NextScan, Resume, CloseEarly, Unwind, End
    <3>3. \/ Stage[pc] = 13 /\ Stage[pc'] \in {0, 12}
          \/ Stage[pc] = 10 /\ Stage[pc'] \in {9, 2}
          \/ Stage[pc] = 1 /\ Stage[pc'] = 0
      BY <3>2, Stages, Zenon
    <3> QED
      BY <3>1, <3>3
  <2>2. ASSUME OpenClient \/ OpenFails \/ SetUpStream \/ EndOfStream \/ ReadFails \/ Interrupted
        PROVE  UNCHANGED <<plan, pos, lookups>> /\ Stage[pc'] < Stage[pc]
    <3>1. UNCHANGED <<plan, pos, lookups>>
      BY <2>2 DEF OpenClient, OpenFails, SetUpStream, EndOfStream, ReadFails, Interrupted
    <3>2. \/ pc = "open" /\ pc' \in {"setup", "close"}
          \/ pc = "setup" /\ pc' \in {"fetch", "diagnostic client", "close"}
          \/ pc = "fetch" /\ pc' \in {"diagnostic client", "close"}
      BY <2>2 DEF OpenClient, OpenFails, SetUpStream, EndOfStream, ReadFails, Interrupted
    <3>3. \/ Stage[pc] = 12 /\ Stage[pc'] \in {11, 2}
          \/ Stage[pc] = 11 /\ Stage[pc'] \in {8, 7, 2}
          \/ Stage[pc] = 8 /\ Stage[pc'] \in {7, 2}
      BY <3>2, Stages, Zenon
    <3> QED
      BY <3>1, <3>3
  <2>3. ASSUME EndOfBatch \/ CloseClient \/ CloseFails \/ OpenDiagnostic \/ Flush \/ FindLogTable
               \/ NoDiagnostic \/ DiagnosticInterrupted \/ CloseDiagnostic
        PROVE  UNCHANGED <<plan, pos, lookups>> /\ Stage[pc'] < Stage[pc]
    <3>1. UNCHANGED <<plan, pos, lookups>>
      BY <2>3 DEF EndOfBatch, CloseClient, CloseFails, OpenDiagnostic, Flush, FindLogTable,
                  NoDiagnostic, DiagnosticInterrupted, CloseDiagnostic
    <3>2. \/ pc = "slice" /\ pc' = "fetch"
          \/ pc = "close" /\ pc' = "unwind"
          \/ pc = "diagnostic client" /\ pc' \in {"flush", "log table", "diagnostic close"}
          \/ pc = "flush" /\ pc' \in {"log table", "diagnostic close"}
          \/ pc = "log table" /\ pc' \in {"lookup", "diagnostic close"}
          \/ pc = "lookup" /\ pc' = "diagnostic close"
          \/ pc = "diagnostic close" /\ pc' = "close"
      BY <2>3 DEF EndOfBatch, CloseClient, CloseFails, OpenDiagnostic, Flush, FindLogTable,
                  NoDiagnostic, DiagnosticInterrupted, CloseDiagnostic
    <3>3. \/ Stage[pc] = 9 /\ Stage[pc'] = 8
          \/ Stage[pc] = 2 /\ Stage[pc'] = 1
          \/ Stage[pc] = 7 /\ Stage[pc'] \in {6, 5, 3}
          \/ Stage[pc] = 6 /\ Stage[pc'] \in {5, 3}
          \/ Stage[pc] = 5 /\ Stage[pc'] \in {4, 3}
          \/ Stage[pc] = 4 /\ Stage[pc'] = 3
          \/ Stage[pc] = 3 /\ Stage[pc'] = 2
      BY <3>2, Stages, Zenon
    <3> QED
      BY <3>1, <3>3
  <2> QED
    BY <2>1, <2>2, <2>3 DEF Next, Step, Consumer, Diagnose, Ended
<1>2. CASE Fetch
  <2>1. InPlan /\ InPlan' /\ pos' = Position(pos.scan, pos.batch + 1, plan[pos.scan][pos.batch + 1], pos.row)
        /\ UNCHANGED plan
    BY <1>2 DEF Fetch, TypeInv, Searched, Reading, InPlan, Position
  <2>2. Len(plan[pos.scan]) \in Nat
    BY <2>1, TaskFacts DEF InPlan, Progress
  <2>3. ScansLeft' = ScansLeft /\ BatchesLeft' < BatchesLeft
    BY <1>0, <2>1, <2>2, SMTT(20) DEF ScansLeft, BatchesLeft, Position
  <2> QED
    BY <2>3, PrecedesAt DEF Left
<1>3. CASE YieldBlock
  <2>1. PICK n \in SliceSizes(pos.pending) : Yield(n, Remaining(n))
    BY <1>3 DEF YieldBlock
  <2>2. ScansLeft' = ScansLeft /\ BatchesLeft' = BatchesLeft
    BY <2>1 DEF Yield, ScansLeft, BatchesLeft, InPlan, Position
  <2>3. pos'.pending < pos.pending
    BY <1>0, <2>1 DEF Yield, Position, SliceSizes
  <2> QED
    BY <2>2, <2>3, PrecedesAt DEF Left
<1>4. CASE LookUp
  <2>1. ScansLeft' = ScansLeft /\ BatchesLeft' = BatchesLeft /\ pos'.pending = pos.pending
    BY <1>4 DEF LookUp, ScansLeft, BatchesLeft, InPlan
  <2>2. Attempts - lookups' < Attempts - lookups
    <3>1. lookups' = lookups + 1
      BY <1>4 DEF LookUp
    <3> QED
      BY <1>0, <3>1
  <2> QED
    BY <2>1, <2>2, PrecedesAt DEF Left
<1>5. CASE Unwind /\ exc = None
  <2>1. ScansLeft' < ScansLeft
    BY <1>0, <1>5 DEF Unwind, Start, Position, ScansLeft
  <2> QED
    BY <2>1, PrecedesAt DEF Left
<1> QED
  BY <1>1, <1>2, <1>3, <1>4, <1>5, StageAdvances

\* Every step of a task, and of Ray with it, brings it nearer to its end: no
\* failure, retry of the diagnostics, limit or early close makes it go round
\* (what TaskEnds is about, for any plan).
THEOREM Every_step_advances ==
    FairSpec => [](Left \in Tuples) /\ [][Precedes(Left', Left)]_vars
<1>1. IInv /\ TypeInv /\ Progress /\ [Next]_vars => (IInv /\ TypeInv /\ Progress)'
  BY StepIInv, StepTypeInv, StepProgress
<1>2. IInv /\ TypeInv /\ Progress /\ BatchInScan => Left \in Tuples
  BY LeftType
<1>3. IInv /\ TypeInv /\ Progress /\ BatchInScan /\ [Next]_vars => [Precedes(Left', Left)]_vars
  BY StepAdvances
<1> QED
  BY <1>1, <1>2, <1>3, InitIInv, InitTypeInv, InitProgress, BatchesBounded, PTL DEF FairSpec
-----------------------------------------------------------------------------
(* BatchSlicing: any table, any size function that is monotone in the      *)
(* length of the slice, and any positive limits                            *)

\* The first candidate of a slice is a positive number of remaining rows.
LEMMA UpperBounds ==
    ASSUME table \in Tables, NEW o \in 0..NumRows(table), o < NumRows(table)
    PROVE  Upper(o) \in 1..MaxRows /\ o + Upper(o) <= NumRows(table)
BY LimitsAssumption, TablesAssumption DEF Upper

\* The candidate of the binary search lies in the interval that is left.
LEMMA CandidateInInterval ==
    ASSUME NEW l \in Nat, NEW h \in Nat, l <= h
    PROVE  (l + h) \div 2 \in l..h
OBVIOUS

\* The initial state satisfies the inductive invariant.
LEMMA InitSliceInv == SliceInit => SliceInv
BY TablesAssumption DEF SliceInit, SliceInv, SliceTypeOK, SearchInv, ExactCover, SlicesBounded

\* Every step of the loop preserves the inductive invariant.
LEMMA NextSliceInv == SliceInv /\ [SliceNext]_sliceVars => SliceInv'
<1> SUFFICES ASSUME SliceInv, [SliceNext]_sliceVars PROVE SliceInv'
  OBVIOUS
<1> USE DEF SliceInv
<1>0. /\ table \in Tables /\ NumRows(table) \in Nat
      /\ offset \in 0..NumRows(table)
  BY TablesAssumption DEF SliceTypeOK
<1>1. CASE Finish
  BY <1>0, <1>1, LimitsAssumption
  DEF Finish, SliceTypeOK, SearchInv, ExactCover, SlicesBounded, WithinLimits,
      Maximal, Fits
<1>2. CASE TakeUpper
  <2>1. Upper(offset) \in 1..MaxRows /\ offset + Upper(offset) <= NumRows(table)
    BY <1>0, <1>2, UpperBounds DEF TakeUpper
  <2>2. SliceTypeOK'
    BY <1>2, <2>1, LimitsAssumption DEF SliceTypeOK, TakeUpper
  <2>3. SearchInv'
    BY <1>2, <2>1, LimitsAssumption DEF SearchInv, TakeUpper, Fits, Upper
  <2>4. ExactCover' /\ SlicesBounded'
    BY <1>2 DEF TakeUpper, ExactCover, SlicesBounded, WithinLimits, Maximal, Fits
  <2> QED BY <2>2, <2>3, <2>4
<1>3. CASE StartSearch
  <2>1. Upper(offset) \in 1..MaxRows /\ offset + Upper(offset) <= NumRows(table)
    BY <1>0, <1>3, UpperBounds DEF StartSearch
  <2>2. SliceTypeOK'
    BY <1>3, <2>1, LimitsAssumption DEF SliceTypeOK, StartSearch
  <2>3. SearchInv'
    BY <1>3, <2>1, LimitsAssumption DEF SearchInv, StartSearch, Fits, Upper
  <2>4. ExactCover' /\ SlicesBounded'
    BY <1>3 DEF StartSearch, ExactCover, SlicesBounded, WithinLimits, Maximal, Fits
  <2> QED BY <2>2, <2>3, <2>4
<1>4. CASE SearchUp
  <2>1. Candidate \in low..high
    BY <1>4, CandidateInInterval DEF SearchUp, SliceTypeOK, Candidate
  <2>2. Upper(offset) \in 1..MaxRows
    BY <1>0, <1>4, UpperBounds DEF SearchUp, SearchInv
  <2>3. SliceTypeOK'
    BY <1>4, <2>1 DEF SliceTypeOK, SearchUp
  <2>4. SearchInv'
    BY <1>4, <2>1, <2>2, LimitsAssumption DEF SearchInv, SearchUp, Fits, Upper, SliceTypeOK
  <2>5. ExactCover' /\ SlicesBounded'
    BY <1>4 DEF SearchUp, ExactCover, SlicesBounded, WithinLimits, Maximal, Fits
  <2> QED BY <2>3, <2>4, <2>5
<1>5. CASE SearchDown
  <2>1. Candidate \in low..high
    BY <1>5, CandidateInInterval DEF SearchDown, SliceTypeOK, Candidate
  <2>2. Upper(offset) \in 1..MaxRows
    BY <1>0, <1>5, UpperBounds DEF SearchDown, SearchInv
  <2>3. SliceTypeOK'
    BY <1>5, <2>1 DEF SliceTypeOK, SearchDown
  <2>4. SearchInv'
    BY <1>5, <2>1, <2>2, LimitsAssumption DEF SearchInv, SearchDown, Fits, Upper, SliceTypeOK
  <2>5. ExactCover' /\ SlicesBounded'
    BY <1>5 DEF SearchDown, ExactCover, SlicesBounded, WithinLimits, Maximal, Fits
  <2> QED BY <2>3, <2>4, <2>5
<1>6. CASE EndSearch
  <2>1. /\ Upper(offset) \in 1..MaxRows
        /\ offset + Upper(offset) <= NumRows(table)
    BY <1>0, <1>6, UpperBounds DEF EndSearch, SearchInv
  <2>2. SliceTypeOK'
    BY <1>6 DEF SliceTypeOK, EndSearch
  <2>3. low = high + 1 /\ high < Upper(offset) /\ ~Fits(offset, high + 1)
    BY <1>6, <2>1 DEF EndSearch, SearchInv, SliceTypeOK
  <2>4. CASE low = 1
    \* No size fits: the single row is emitted, and two rows fit no better.
    <3>1. size = 1 /\ ~Fits(offset, 1)
      BY <1>6, <2>3, <2>4 DEF EndSearch, SearchInv, SliceTypeOK
    <3>2. size # Upper(offset) => ~Fits(offset, size + 1)
      <4> SUFFICES ASSUME size # Upper(offset) PROVE ~Fits(offset, 2)
        BY <3>1
      <4>1. 2 \in 0..(NumRows(table) - offset) /\ 1 \in 0..2
        BY <1>0, <2>1, <3>1
      <4>2. /\ SliceBytes(table, offset, 1) <= SliceBytes(table, offset, 2)
            /\ SliceBytes(table, offset, 2) \in Nat
            /\ SliceBytes(table, offset, 1) \in Nat
        BY <1>0, <4>1, TablesAssumption
      <4> QED BY <3>1, <4>2, LimitsAssumption DEF Fits
    <3>3. SearchInv'
      BY <1>0, <1>6, <2>1, <3>1, <3>2 DEF EndSearch, SearchInv, SliceTypeOK, Fits, Upper
    <3> QED BY <1>6, <2>2, <3>3
        DEF EndSearch, ExactCover, SlicesBounded, WithinLimits, Maximal, Fits
  <2>5. CASE low # 1
    \* The largest size that fits is the last one accepted.
    <3>1. size = high /\ Fits(offset, size) /\ size \in 1..Upper(offset)
      BY <1>6, <2>1, <2>3, <2>5 DEF EndSearch, SearchInv, SliceTypeOK
    <3>2. SearchInv'
      BY <1>0, <1>6, <2>1, <2>3, <3>1 DEF EndSearch, SearchInv, SliceTypeOK, Fits, Upper
    <3> QED BY <1>6, <2>2, <3>2
        DEF EndSearch, ExactCover, SlicesBounded, WithinLimits, Maximal, Fits
  <2> QED BY <2>4, <2>5
<1>7. CASE Emit
  <2> DEFINE s == [start |-> offset, rows |-> size]
  <2>1. /\ Upper(offset) \in 1..MaxRows
        /\ offset + Upper(offset) <= NumRows(table)
        /\ size \in 1..Upper(offset)
    BY <1>0, <1>7, UpperBounds DEF Emit, SearchInv
  <2>2. s \in [start : Nat, rows : Nat]
    BY <1>0, <2>1
  <2>3. SliceTypeOK'
    BY <1>0, <1>7, <2>1, <2>2 DEF SliceTypeOK, Emit
  <2>4. SearchInv'
    BY <1>7 DEF Emit, SearchInv
  <2>5. /\ Len(out') = Len(out) + 1 /\ out' # << >>
        /\ out'[Len(out')] = s
        /\ \A i \in DOMAIN out : out'[i] = out[i]
        /\ DOMAIN out = 1..Len(out) /\ DOMAIN out' = 1..(Len(out) + 1)
        /\ Len(out) \in Nat
    BY <1>7, <2>2 DEF Emit, SliceTypeOK
  <2>6. ExactCover'
    <3>1. ASSUME NEW i \in DOMAIN out'
          PROVE  out'[i].start =
                   IF i = 1 THEN 0 ELSE out'[i - 1].start + out'[i - 1].rows
      <4>1. CASE i = Len(out')
        BY <2>5, <4>1 DEF ExactCover
      <4>2. CASE i # Len(out')
        <5>1. i \in DOMAIN out /\ (i # 1 => i - 1 \in DOMAIN out)
          BY <2>5, <4>2
        <5> QED BY <2>5, <5>1 DEF ExactCover
      <4> QED BY <4>1, <4>2
    <3>2. offset' = out'[Len(out')].start + out'[Len(out')].rows
      BY <1>7, <2>5 DEF Emit
    <3> QED BY <1>7, <2>5, <3>1, <3>2 DEF ExactCover, Emit
  <2>7. WithinLimits(s) /\ Maximal(s)
    BY <1>0, <1>7, <2>1, LimitsAssumption
    DEF Emit, SearchInv, WithinLimits, Maximal, Fits, Upper
  <2>8. SlicesBounded'
    <3> SUFFICES ASSUME NEW i \in DOMAIN out'
                 PROVE  (WithinLimits(out[i]) /\ Maximal(out[i]))'
      BY DEF SlicesBounded
    <3>1. table' = table
      BY <1>7 DEF Emit
    <3>2. WithinLimits(out'[i]) /\ Maximal(out'[i])
      BY <2>5, <2>7 DEF SlicesBounded
    <3> QED BY <3>1, <3>2 DEF WithinLimits, Maximal, Fits
  <2> QED BY <2>3, <2>4, <2>6, <2>8
<1>8. CASE Exhausted \/ UNCHANGED sliceVars
  BY <1>8 DEF Exhausted, sliceVars, SliceTypeOK, SearchInv, ExactCover, SlicesBounded,
     WithinLimits, Maximal, Fits, Upper
<1> QED
  BY <1>1, <1>2, <1>3, <1>4, <1>5, <1>6, <1>7, <1>8 DEF SliceNext

\* Every reachable state of the loop satisfies the inductive invariant.
THEOREM SliceInvariance == SliceSpec => []SliceInv
<1>1. SliceInit => SliceInv
  BY InitSliceInv
<1>2. SliceInv /\ [SliceNext]_sliceVars => SliceInv'
  BY NextSliceInv
<1> QED BY <1>1, <1>2, PTL DEF SliceSpec

\* iter_batch_slices neither skips nor repeats a row.
THEOREM NoRowLost == SliceSpec => []ExactCover
<1>1. SliceInv => ExactCover
  BY DEF SliceInv
<1> QED BY <1>1, SliceInvariance, PTL

\* Each slice is the largest prefix of the remaining rows within the limits.
THEOREM LargestSlices == SliceSpec => []SlicesBounded
<1>1. SliceInv => SlicesBounded
  BY DEF SliceInv
<1> QED BY <1>1, SliceInvariance, PTL

\* The loop of iter_batch_slices cuts every table exactly, and into the largest
\* slices that the limits allow.
THEOREM ExactlySliced == SliceSpec => []ExactSlices
<1>1. SliceInv => ExactSlices
  BY DEF SliceInv, ExactSlices
<1> QED BY <1>1, SliceInvariance, PTL

\* What a step of iter_batch_slices is for a read task: a slice of a size that
\* the task allows, where the one before it ended, and no end before the batch's.
TakesSlice ==
    \/ /\ UNCHANGED <<table, offset, out>>
       /\ stage' = "done" => NumRows(table) - offset = 0
    \/ \E n \in SliceSizes(NumRows(table) - offset) :
          /\ out' = Append(out, [start |-> offset, rows |-> n])
          /\ offset' = offset + n
          /\ UNCHANGED table

\* ReadTask takes slices as iter_batch_slices yields them, whatever the rows of
\* a batch weigh (both get limits.batch_rows).
THEOREM Slices_as_taken == MaxRows = BatchRows /\ SliceSpec => [][TakesSlice]_sliceVars
<1> SUFFICES ASSUME MaxRows = BatchRows PROVE SliceSpec => [][TakesSlice]_sliceVars
  OBVIOUS
<1>1. ASSUME SliceInv, [SliceNext]_sliceVars PROVE TakesSlice \/ UNCHANGED sliceVars
  <2>1. NumRows(table) \in Nat /\ offset \in Nat /\ MaxRows \in Nat
    BY <1>1, TablesAssumption, LimitsAssumption DEF SliceInv, SliceTypeOK
  <2>2. CASE Emit
    <3>1. size \in SliceSizes(NumRows(table) - offset)
      BY <1>1, <2>1, <2>2 DEF Emit, SliceInv, SearchInv, Upper, SliceSizes
    <3> QED
      BY <2>2, <3>1 DEF Emit, TakesSlice
  <2>3. CASE Finish
    BY <1>1, <2>1, <2>3 DEF Finish, SliceInv, SliceTypeOK, TakesSlice
  <2>4. CASE TakeUpper \/ StartSearch \/ SearchUp \/ SearchDown \/ EndSearch
    BY <2>4 DEF TakeUpper, StartSearch, SearchUp, SearchDown, EndSearch, TakesSlice
  <2> QED
    BY <1>1, <2>2, <2>3, <2>4 DEF SliceNext, Exhausted
<1> QED
  BY <1>1, SliceInvariance, PTL DEF SliceSpec
=============================================================================
