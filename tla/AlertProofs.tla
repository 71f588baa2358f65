----------------------------- MODULE AlertProofs -----------------------------
(***************************************************************************)
(* Theorems about the lifecycle of alerts, for any number of alerts,       *)
(* evaluations, operators' calls and failing statements.                   *)
(***************************************************************************)
EXTENDS AlertLifecycle, FiniteSetTheorems, TLAPS

-----------------------------------------------------------------------------
(* The inductive invariant. *)

\* A call of UpsertAlert has an alert once it has begun, has read no count
\* before its select, and writes the history entry only for a count of one.
EvaluationShape ==
    \A e \in Evaluations :
        /\ epc[e] = "new" <=> ealert[e] = NoAlert
        /\ epc[e] \in {"new", "select"} => efired[e] = 0
        /\ epc[e] = "record" => efired[e] = 1
        /\ e \in firstFirings => epc[e] = "done" /\ efired[e] = 1

\* An operator's call that is about to write has an alert, and the move it is
\* going to make is in the table.
RequestShape ==
    \A r \in Requests :
        rpc[r] = "update" =>
            /\ ralert[r] \in Alerts
            /\ rto[r] \in Targets \cap AllowedFrom(rfrom[r])

\* A count of zero or one leaves no room for a second evaluation.
CountSeparates ==
    \A a \in Alerts :
        /\ firedCount[a] = 0 => \A e \in Evaluations : ealert[e] # a
        /\ firedCount[a] = 1 => \A d, e \in Evaluations :
                                   ealert[d] = a /\ ealert[e] = a => d = e

\* At most one evaluation of an alert ever reads a count of one.
OneReadsOne ==
    \A d, e \in Evaluations :
        ealert[d] = ealert[e] /\ efired[d] = 1 /\ efired[e] = 1 => d = e

IInv ==
    /\ TypeOK
    /\ EvaluationShape
    /\ RequestShape
    /\ CountSeparates
    /\ OneReadsOne
    /\ ResolvedAtAgrees

-----------------------------------------------------------------------------
(* Lemmas. *)

\* No operator's move starts from a row that does not exist or is resolved, and
\* none moves a row to where it is.
LEMMA MovesAreForward ==
    ASSUME NEW from, NEW to \in Targets \cap AllowedFrom(from),
           from \in {"absent", "firing"} \cup Targets
    PROVE  from \in {"firing", "acknowledged", "silenced"} /\ from # to
BY DEF Targets, AllowedFrom

\* The initial state satisfies the inductive invariant.
LEMMA InitIInv == Init => IInv
BY AlertAssumption DEF AlertAssumption, Init, IInv, TypeOK, EvaluationShape, RequestShape, CountSeparates, OneReadsOne,
   ResolvedAtAgrees, Targets

\* An upsert takes the count of its alert past every earlier evaluation.
LEMMA UpsertIInv == ASSUME IInv, NEW e \in Evaluations, Upsert(e) PROVE IInv'
<1> USE DEF IInv, Upsert, logVars, reqVars
<1>1. PICK a \in Alerts : UpsertRow(a) /\ ealert' = [ealert EXCEPT ![e] = a]
  OBVIOUS
<1>2. a # NoAlert /\ ealert[e] = NoAlert /\ epc[e] = "new" /\ efired[e] = 0
  BY AlertAssumption DEF AlertAssumption, EvaluationShape
<1>3. TypeOK'
  <2>1. /\ status' \in [Alerts -> {"absent", "firing"} \cup Targets]
        /\ firedCount' \in [Alerts -> Nat] /\ version' \in [Alerts -> Nat]
    BY <1>1 DEF TypeOK, UpsertRow
  <2>2. resolvedAt' \in [Alerts -> BOOLEAN]
    BY <1>1 DEF TypeOK, UpsertRow
  <2> QED
    BY <1>1, <2>1, <2>2 DEF TypeOK, EvalGoes
<1>4. EvaluationShape'
  BY <1>1, <1>2 DEF TypeOK, EvaluationShape, EvalGoes
<1>5. RequestShape'
  BY DEF RequestShape
<1>6. CountSeparates'
  BY <1>1, <1>2 DEF TypeOK, CountSeparates, UpsertRow
<1>7. OneReadsOne'
  BY <1>1, <1>2 DEF TypeOK, OneReadsOne
<1>8. ResolvedAtAgrees'
  BY <1>1 DEF TypeOK, ResolvedAtAgrees, UpsertRow, Reactivates
<1> QED
  BY <1>3, <1>4, <1>5, <1>6, <1>7, <1>8

\* A select that reads a count of one is of the only evaluation there has been.
LEMMA SelectIInv == ASSUME IInv, NEW e \in Evaluations, SelectUpserted(e) PROVE IInv'
<1> USE DEF IInv, SelectUpserted, EvalGoes, rowVars, logVars, reqVars
<1>1. ealert[e] \in Alerts /\ e \notin firstFirings
  BY DEF TypeOK, EvaluationShape
<1>2. TypeOK'
  BY <1>1 DEF TypeOK
<1>3. EvaluationShape'
  BY <1>1 DEF TypeOK, EvaluationShape
<1>4. RequestShape' /\ CountSeparates' /\ ResolvedAtAgrees'
  BY DEF RequestShape, CountSeparates, ResolvedAtAgrees
<1>5. OneReadsOne'
  BY <1>1 DEF TypeOK, OneReadsOne, CountSeparates
<1> QED
  BY <1>2, <1>3, <1>4, <1>5

\* The inserts of an evaluation, and its failures.
LEMMA EvaluationRestIInv ==
    ASSUME IInv, NEW e \in Evaluations,
           InsertObservation(e) \/ RecordFirstFiring(e) \/ EvaluationFails(e)
    PROVE  IInv'
<1> USE DEF IInv, EvalGoes, rowVars, logVars, reqVars
<1>1. RequestShape' /\ CountSeparates' /\ OneReadsOne' /\ ResolvedAtAgrees'
  BY DEF InsertObservation, RecordFirstFiring, EvaluationFails, RequestShape, CountSeparates,
     OneReadsOne, ResolvedAtAgrees
<1>2. CASE InsertObservation(e)
  <2>1. IsFirstFiring(estatus[e], efired[e]) => efired[e] = 1
    BY DEF IsFirstFiring, TypeOK, Targets
  <2>2. TypeOK'
    BY <1>2 DEF InsertObservation, TypeOK
  <2>3. EvaluationShape'
    BY <1>2, <2>1 DEF InsertObservation, TypeOK, EvaluationShape
  <2> QED
    BY <1>1, <2>2, <2>3
<1>3. CASE RecordFirstFiring(e)
  <2>1. TypeOK' /\ EvaluationShape'
    BY <1>3 DEF RecordFirstFiring, TypeOK, EvaluationShape
  <2> QED
    BY <1>1, <2>1
<1>4. CASE EvaluationFails(e)
  <2>1. TypeOK' /\ EvaluationShape'
    BY <1>4 DEF EvaluationFails, TypeOK, EvaluationShape
  <2> QED
    BY <1>1, <2>1
<1> QED
  BY <1>2, <1>3, <1>4

\* The UPDATE of an operator's call.
LEMMA UpdateIInv == ASSUME IInv, NEW r \in Requests, UpdateAlert(r) PROVE IInv'
<1> USE DEF IInv, UpdateAlert, RequestGoes, logVars, evalVars
<1>1. /\ ralert[r] \in Alerts
      /\ rto[r] \in Targets
      /\ status[ralert[r]] \in {"firing", "acknowledged", "silenced"}
      /\ MoveRow(ralert[r], rto[r])
  BY MovesAreForward DEF TypeOK, RequestShape, Matches
<1>2. TypeOK'
  <2>1. /\ status' \in [Alerts -> {"absent", "firing"} \cup Targets]
        /\ firedCount' \in [Alerts -> Nat] /\ version' \in [Alerts -> Nat]
    BY <1>1 DEF TypeOK, MoveRow
  <2>2. CASE rto[r] = "resolved"
    <3>1. resolvedAt' = [resolvedAt EXCEPT ![ralert[r]] = TRUE]
      BY <1>1, <2>2 DEF MoveRow
    <3> QED
      BY <2>1, <3>1 DEF TypeOK
  <2>3. CASE rto[r] # "resolved"
    <3>1. resolvedAt' = [resolvedAt EXCEPT ![ralert[r]] = resolvedAt[ralert[r]]]
      BY <1>1, <2>3 DEF MoveRow
    <3> QED
      BY <2>1, <3>1 DEF TypeOK
  <2> QED
    BY <1>1, <2>1, <2>2, <2>3 DEF TypeOK
<1>3. EvaluationShape' /\ CountSeparates' /\ OneReadsOne'
  BY <1>1 DEF EvaluationShape, CountSeparates, OneReadsOne, MoveRow
<1>4. RequestShape'
  BY DEF TypeOK, RequestShape
<1>5. ResolvedAtAgrees'
  BY <1>1 DEF TypeOK, ResolvedAtAgrees, MoveRow
<1> QED
  BY <1>2, <1>3, <1>4, <1>5

\* The other steps of an operator's call leave the row alone.
LEMMA RequestRestIInv ==
    ASSUME IInv, NEW r \in Requests,
           GetAlert(r) \/ Conflict(r) \/ RecordMove(r) \/ RequestFails(r)
    PROVE  IInv'
<1> USE DEF IInv, RequestGoes, rowVars, logVars, evalVars
<1>1. EvaluationShape' /\ CountSeparates' /\ OneReadsOne' /\ ResolvedAtAgrees'
  BY DEF GetAlert, Conflict, RecordMove, RequestFails, EvaluationShape, CountSeparates,
     OneReadsOne, ResolvedAtAgrees
<1>2. CASE GetAlert(r)
  <2>1. TypeOK'
    BY <1>2 DEF GetAlert, TypeOK, Targets
  <2>2. RequestShape'
    BY <1>2 DEF GetAlert, TypeOK, RequestShape, ValidTransition, Targets
  <2> QED
    BY <1>1, <2>1, <2>2
<1>3. CASE Conflict(r) \/ RecordMove(r) \/ RequestFails(r)
  <2>1. TypeOK' /\ RequestShape'
    BY <1>3 DEF Conflict, RecordMove, RequestFails, TypeOK, RequestShape
  <2> QED
    BY <1>1, <2>1
<1> QED
  BY <1>2, <1>3

\* Every step, and stuttering, preserves the inductive invariant.
LEMMA NextIInv == IInv /\ [Next]_vars => IInv'
<1> SUFFICES ASSUME IInv, [Next]_vars PROVE IInv'
  OBVIOUS
<1>1. CASE UNCHANGED vars
  BY <1>1 DEF vars, rowVars, logVars, evalVars, reqVars, IInv, TypeOK, EvaluationShape,
     RequestShape, CountSeparates, OneReadsOne, ResolvedAtAgrees
<1>2. ASSUME NEW e \in Evaluations, EvaluationStep(e) PROVE IInv'
  BY <1>2, UpsertIInv, SelectIInv, EvaluationRestIInv DEF EvaluationStep
<1>3. ASSUME NEW r \in Requests, RequestStep(r) PROVE IInv'
  BY <1>3, UpdateIInv, RequestRestIInv DEF RequestStep
<1> QED
  BY <1>1, <1>2, <1>3 DEF Next

-----------------------------------------------------------------------------
(* The theorems. *)

\* The inductive invariant holds throughout every behaviour.
THEOREM Invariant == Spec => []IInv
BY InitIInv, NextIInv, PTL DEF Spec

\* The types hold: among others no stored alert is ever "pending".
THEOREM TypeCorrect == Spec => []TypeOK
BY Invariant, PTL DEF IInv

\* resolved_at is set exactly while the alert is resolved.
THEOREM ResolutionDated == Spec => []ResolvedAtAgrees
BY Invariant, PTL DEF IInv

\* However many replicas evaluate at once, the first firing of an alert is put in
\* its history at most once.
THEOREM FirstFiringOnce == Spec => []OneFirstFiring
<1>1. IInv => OneFirstFiring
  BY DEF IInv, TypeOK, EvaluationShape, OneReadsOne, OneFirstFiring
<1> QED
  BY <1>1, Invariant, PTL

-----------------------------------------------------------------------------
(* The counters. *)

\* A request that has put its move in the history is over.
MovesDone == \A r \in moves : rpc[r] = "done"

\* The calls that changed a row are finitely many at any time, although there
\* may be no end of calls.
FinitelyMany == \A a \in Alerts : IsFiniteSet(Applied(a)) /\ IsFiniteSet(Moved(a))

CountInv == IInv /\ MovesDone /\ FinitelyMany /\ CountersExact

\* The requests that have moved a row are the same while every request is in the
\* same state of having done so.
LEMMA MovedSame ==
    ASSUME NEW a, \A r \in Requests : (r \in Moved(a))' <=> r \in Moved(a)
    PROVE  Moved(a)' = Moved(a)
BY DEF Moved

\* At first no call has changed a row.
LEMMA InitCount == Init => CountInv
<1> SUFFICES ASSUME Init PROVE CountInv
  OBVIOUS
<1>1. \A a \in Alerts : Applied(a) = {} /\ Moved(a) = {}
  BY AlertAssumption DEF AlertAssumption, Init, Applied, Moved
<1>2. FinitelyMany
  BY <1>1, FS_EmptySet DEF FinitelyMany
<1>3. CountersExact
  <2>1. \A a \in Alerts : Cardinality(Applied(a)) = 0 /\ Cardinality(Moved(a)) = 0
    BY <1>1, FS_EmptySet
  <2> QED
    BY <2>1 DEF Init, CountersExact
<1> QED
  BY <1>2, <1>3, InitIInv DEF Init, CountInv, MovesDone

\* An upsert is counted once, for its alert, and no request moves by it.
LEMMA UpsertCounts == ASSUME CountInv, NEW e \in Evaluations, Upsert(e) PROVE CountInv'
<1> USE DEF CountInv, IInv, TypeOK
<1>1. PICK a \in Alerts : UpsertRow(a) /\ ealert' = [ealert EXCEPT ![e] = a]
  BY DEF Upsert
<1>2. e \notin Applied(a) /\ ealert[e] = NoAlert
  BY AlertAssumption DEF AlertAssumption, EvaluationShape, Upsert, Applied
<1>3. Applied(a)' = Applied(a) \cup {e}
  BY <1>1 DEF Applied
<1>4. \A b \in Alerts \ {a} : Applied(b)' = Applied(b)
  BY <1>1, <1>2, AlertAssumption DEF AlertAssumption, Applied
<1>5. \A b \in Alerts : Moved(b)' = Moved(b)
  BY DEF Upsert, logVars, reqVars, Moved
<1>6. IsFiniteSet(Applied(a)') /\ Cardinality(Applied(a)') = Cardinality(Applied(a)) + 1
  BY <1>2, <1>3, FS_AddElement DEF FinitelyMany
<1>7. FinitelyMany'
  BY <1>4, <1>5, <1>6 DEF FinitelyMany
<1>8. CountersExact'
  <2> SUFFICES ASSUME NEW b \in Alerts
               PROVE  /\ firedCount'[b] = Cardinality(Applied(b)')
                      /\ version'[b] = firedCount'[b] + Cardinality(Moved(b)')
    BY DEF CountersExact
  <2>1. /\ firedCount[b] = Cardinality(Applied(b)) /\ firedCount[b] \in Nat
        /\ version[b] = firedCount[b] + Cardinality(Moved(b)) /\ version[b] \in Nat
        /\ Cardinality(Moved(b)) \in Nat
    BY FS_CardinalityType DEF CountersExact, FinitelyMany
  <2>2. CASE b = a
    BY <1>1, <1>5, <1>6, <2>1, <2>2 DEF UpsertRow
  <2>3. CASE b # a
    BY <1>1, <1>4, <1>5, <2>1, <2>3 DEF UpsertRow
  <2> QED
    BY <2>2, <2>3
<1>9. MovesDone'
  BY DEF Upsert, logVars, reqVars, MovesDone
<1> QED
  BY <1>7, <1>8, <1>9, UpsertIInv

\* The UPDATE of a request is counted once, as a version and not as a firing.
LEMMA UpdateCounts == ASSUME CountInv, NEW r \in Requests, UpdateAlert(r) PROVE CountInv'
<1> USE DEF CountInv, IInv, TypeOK
<1>1. PICK a \in Alerts : /\ ralert[r] = a /\ rpc[r] = "update" /\ r \notin moves
                          /\ MoveRow(a, rto[r])
  BY DEF UpdateAlert, RequestShape, MovesDone
<1>2. rpc' \in [Requests -> {"new", "update", "record", "done", "error", "conflict", "lost"}]
      /\ rpc'[r] \in {"record", "lost"} /\ \A q \in Requests \ {r} : rpc'[q] = rpc[q]
  BY DEF UpdateAlert, RequestGoes
<1>3. ralert' = ralert /\ moves' = moves /\ ealert' = ealert
  BY DEF UpdateAlert, logVars, evalVars
<1>4. Moved(a)' = Moved(a) \cup {r} /\ r \notin Moved(a)
  BY <1>1, <1>2, <1>3 DEF Moved
<1>5. \A b \in Alerts \ {a} : Moved(b)' = Moved(b)
  BY <1>1, <1>2, <1>3 DEF Moved
<1>6. \A b \in Alerts : Applied(b)' = Applied(b)
  BY <1>3 DEF Applied
<1>7. IsFiniteSet(Moved(a)') /\ Cardinality(Moved(a)') = Cardinality(Moved(a)) + 1
  BY <1>4, FS_AddElement DEF FinitelyMany
<1>8. FinitelyMany'
  BY <1>5, <1>6, <1>7 DEF FinitelyMany
<1>9. CountersExact'
  <2> SUFFICES ASSUME NEW b \in Alerts
               PROVE  /\ firedCount'[b] = Cardinality(Applied(b)')
                      /\ version'[b] = firedCount'[b] + Cardinality(Moved(b)')
    BY DEF CountersExact
  <2>1. /\ firedCount[b] = Cardinality(Applied(b)) /\ firedCount[b] \in Nat
        /\ version[b] = firedCount[b] + Cardinality(Moved(b)) /\ version[b] \in Nat
        /\ Cardinality(Moved(b)) \in Nat
    BY FS_CardinalityType DEF CountersExact, FinitelyMany
  <2>2. CASE b = a
    BY <1>1, <1>6, <1>7, <2>1, <2>2 DEF MoveRow
  <2>3. CASE b # a
    BY <1>1, <1>5, <1>6, <2>1, <2>3 DEF MoveRow
  <2> QED
    BY <2>2, <2>3
<1>10. MovesDone'
  BY <1>1, <1>2, <1>3 DEF MovesDone
<1> QED
  BY <1>8, <1>9, <1>10, UpdateIInv

\* No other step changes a counter, or what is counted.
LEMMA RestCounts ==
    ASSUME CountInv, IInv', UNCHANGED <<firedCount, version, ealert>>, MovesDone',
           \A a \in Alerts : \A q \in Requests : (q \in Moved(a))' <=> q \in Moved(a)
    PROVE  CountInv'
<1>1. \A a \in Alerts : Applied(a)' = Applied(a) /\ Moved(a)' = Moved(a)
  BY MovedSame DEF Applied
<1> QED
  BY <1>1 DEF CountInv, FinitelyMany, CountersExact

\* Every step, and stuttering, keeps the counters exact.
LEMMA NextCounts == CountInv /\ [Next]_vars => CountInv'
<1> SUFFICES ASSUME CountInv, [Next]_vars PROVE CountInv'
  OBVIOUS
<1>1. IInv'
  BY NextIInv DEF CountInv
<1>2. CASE UNCHANGED vars
  <2>1. /\ MovesDone' /\ UNCHANGED <<firedCount, version, ealert>>
        /\ \A a \in Alerts : \A q \in Requests : (q \in Moved(a))' <=> q \in Moved(a)
    BY <1>2 DEF vars, rowVars, logVars, evalVars, reqVars, CountInv, MovesDone, Moved
  <2> QED
    BY <1>1, <2>1, RestCounts
<1>3. ASSUME NEW e \in Evaluations, EvaluationStep(e) PROVE CountInv'
  <2>1. CASE Upsert(e)
    BY <2>1, UpsertCounts
  <2>2. CASE ~Upsert(e)
    <3>1. UNCHANGED <<rowVars, moves, ealert, reqVars>>
      BY <1>3, <2>2 DEF EvaluationStep, SelectUpserted, InsertObservation, RecordFirstFiring,
         EvaluationFails, logVars
    <3>2. /\ MovesDone' /\ UNCHANGED <<firedCount, version, ealert>>
          /\ \A a \in Alerts : \A q \in Requests : (q \in Moved(a))' <=> q \in Moved(a)
      BY <3>1 DEF rowVars, reqVars, CountInv, MovesDone, Moved
    <3> QED
      BY <1>1, <3>2, RestCounts
  <2> QED
    BY <2>1, <2>2
<1>4. ASSUME NEW r \in Requests, RequestStep(r) PROVE CountInv'
  <2>1. CASE UpdateAlert(r)
    BY <2>1, UpdateCounts
  <2>2. CASE GetAlert(r) \/ Conflict(r) \/ RecordMove(r) \/ RequestFails(r)
    <3> USE DEF CountInv, IInv, TypeOK, rowVars, logVars, evalVars, RequestGoes
    <3>1. UNCHANGED <<firedCount, version, ealert>>
      BY <2>2 DEF GetAlert, Conflict, RecordMove, RequestFails
    <3>2. MovesDone'
      BY <2>2 DEF GetAlert, Conflict, RecordMove, RequestFails, MovesDone
    <3>3. ASSUME NEW a \in Alerts, NEW q \in Requests
          PROVE  (q \in Moved(a))' <=> q \in Moved(a)
      BY <2>2, <3>2 DEF GetAlert, Conflict, RecordMove, RequestFails, MovesDone, Moved
    <3> QED
      BY <1>1, <3>1, <3>2, <3>3, RestCounts
  <2> QED
    BY <1>4, <2>1, <2>2 DEF RequestStep
<1> QED
  BY <1>2, <1>3, <1>4 DEF Next

\* The counters of a row are the calls that changed it, however the statements of
\* replicas and operators interleave and whichever answers are lost.
THEOREM CountersAreExact == Spec => []CountersExact
<1>1. CountInv => CountersExact
  BY DEF CountInv
<1> QED
  BY <1>1, InitCount, NextCounts, PTL DEF Spec

-----------------------------------------------------------------------------
(* Refinement. *)

\* An upsert is an evaluation of the abstract lifecycle.
LEMMA UpsertRefines ==
    ASSUME IInv, NEW e \in Evaluations, Upsert(e)
    PROVE  Lifecycle!Next
<1>1. PICK a \in Alerts : UpsertRow(a)
  BY DEF Upsert
<1>2. status[a] \in {"absent", "firing", "acknowledged"} => ~resolvedAt[a]
  BY DEF IInv, ResolvedAtAgrees
<1>3. Lifecycle!Evaluate(a)
  BY <1>1, <1>2 DEF IInv, TypeOK, UpsertRow, Reactivates, Targets, Lifecycle!Evaluate
<1> QED
  BY <1>3 DEF Lifecycle!Next

\* The UPDATE of an operator's call is an operation of it.
LEMMA UpdateRefines ==
    ASSUME IInv, NEW r \in Requests, UpdateAlert(r)
    PROVE  Lifecycle!Next
<1> DEFINE a == ralert[r]
<1>1. /\ a \in Alerts
      /\ rto[r] \in Targets
      /\ status[a] \in {"firing", "acknowledged", "silenced"} \ {rto[r]}
  BY MovesAreForward DEF IInv, TypeOK, RequestShape, UpdateAlert, Matches
<1>2. ~resolvedAt[a]
  BY <1>1 DEF IInv, ResolvedAtAgrees
<1>3. Lifecycle!Operate(a, rto[r])
  BY <1>1, <1>2 DEF IInv, TypeOK, UpdateAlert, MoveRow, Lifecycle!Operate
<1> QED
  BY <1>1, <1>3 DEF Lifecycle!Next, Targets

\* The concurrent statements of the repository, with all their failures,
\* implement the lifecycle the readers of an alert see.
THEOREM Refinement == Spec => ImplementsLifecycle
<1>1. Init => Lifecycle!Init
  BY DEF Init, Lifecycle!Init
<1>2. IInv /\ [Next]_vars => [Lifecycle!Next]_Lifecycle!vars
  <2> SUFFICES ASSUME IInv, [Next]_vars PROVE [Lifecycle!Next]_Lifecycle!vars
    OBVIOUS
  <2> USE DEF Lifecycle!vars, rowVars
  <2>1. CASE UNCHANGED vars
    BY <2>1 DEF vars
  <2>2. ASSUME NEW e \in Evaluations, EvaluationStep(e)
        PROVE  [Lifecycle!Next]_Lifecycle!vars
    BY <2>2, UpsertRefines DEF EvaluationStep, SelectUpserted, InsertObservation,
       RecordFirstFiring, EvaluationFails
  <2>3. ASSUME NEW r \in Requests, RequestStep(r)
        PROVE  [Lifecycle!Next]_Lifecycle!vars
    BY <2>3, UpdateRefines DEF RequestStep, GetAlert, Conflict, RecordMove, RequestFails
  <2> QED
    BY <2>1, <2>2, <2>3 DEF Next
<1> QED
  BY <1>1, <1>2, Invariant, PTL DEF Spec, ImplementsLifecycle, Lifecycle!Spec
=============================================================================
