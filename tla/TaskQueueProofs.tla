--------------------------- MODULE TaskQueueProofs ---------------------------
(***************************************************************************)
(* Theorems about the evaluation queue, for any number of tasks, workers,  *)
(* attempts and faults.                                                    *)
(***************************************************************************)
EXTENDS TaskQueue, TLAPS

-----------------------------------------------------------------------------
(* The inductive invariant. *)

\* A loop has one current task exactly while it works on it, and a batch only
\* between a poll and the end of its loop.
LoopShape ==
    \A w \in Workers :
        /\ pc[w] \in Busy => \E t \in Tasks : cur[w] = {t}
        /\ pc[w] \notin Busy => cur[w] = {}
        /\ pc[w] \notin Busy \cup {"loop"} => batch[w] = {}
        /\ batch[w] \cap cur[w] = {}

\* What a worker has not begun has not been counted, what it works on has been
\* begun once since the last counted failure.
CallsInHand ==
    \A w \in Workers :
        /\ \A t \in batch[w] : runs[t] = attempts[t]
        /\ \A t \in cur[w] : runs[t] = attempts[t] + 1

IInv ==
    /\ TypeOK
    /\ LoopShape
    /\ ExclusiveLease
    /\ LockFollowsStatus
    /\ CallsInHand
    /\ RunsAccounted
    /\ FreshBackoff

-----------------------------------------------------------------------------
(* Lemmas about the operators. *)

\* The backoff stays within its cap.
LEMMA RetryDelayType == \A n : RetryDelay(n) \in 0..MaxDelay
BY QueueAssumption DEF QueueAssumption, RetryDelay

\* Time never makes a countdown longer.
LEMMA LessType ==
    ASSUME NEW B \in Nat, NEW f \in [Tasks -> 0..B]
    PROVE  /\ Less(f) \in [Tasks -> 0..B]
           /\ \A t \in Tasks : Less(f)[t] <= f[t]
BY DEF Less

\* The initial state satisfies the inductive invariant.
LEMMA InitIInv == Init => IInv
BY QueueAssumption DEF QueueAssumption, Init, IInv, TypeOK, LoopShape, ExclusiveLease,
   LockFollowsStatus, CallsInHand, RunsAccounted, FreshBackoff, Statuses, Steps, Busy, Holding

-----------------------------------------------------------------------------
(* What the steps that share an effect do to the invariant. *)

\* Taking due rows: they were nobody's, so they are in no other worker's hands.
LEMMA LockRowsIInv ==
    ASSUME IInv, NEW w \in Workers, pc[w] = "idle",
           NEW S \in SUBSET {t \in Tasks : Due(t)}, LockRows(w, S),
           \/ pc' = [pc EXCEPT ![w] = "loop"] /\ batch' = [batch EXCEPT ![w] = S]
           \/ UNCHANGED <<pc, batch>>,
           UNCHANGED <<cur, seen, cancelled, runs>>, faults' \in 0..MaxFaults
    PROVE  IInv'
<1> USE QueueAssumption DEF IInv, TypeOK, Due, LockRows, Busy, Holding
<1>1. TypeOK'
  BY DEF QueueAssumption, Statuses, Steps
<1>2. LoopShape'
  BY DEF LoopShape
<1>3. ExclusiveLease'
  BY DEF LoopShape, ExclusiveLease
<1>4. LockFollowsStatus'
  BY DEF QueueAssumption, LockFollowsStatus
<1>5. CallsInHand'
  BY DEF LoopShape, CallsInHand, RunsAccounted
<1>6. RunsAccounted'
  BY DEF RunsAccounted, QueueAssumption
<1>7. FreshBackoff'
  BY DEF FreshBackoff
<1> QED
  BY <1>1, <1>2, <1>3, <1>4, <1>5, <1>6, <1>7

\* Dropping the current task without a write leaves it leased and unhandled.
LEMMA DropTaskIInv ==
    ASSUME IInv, NEW w \in Workers, pc[w] \in Busy, NextTask(w),
           UNCHANGED <<rowVars, cancelled, runs>>, faults' \in 0..MaxFaults
    PROVE  IInv'
<1> USE DEF IInv, TypeOK, NextTask, rowVars, Busy, Holding
<1>1. TypeOK'
  BY DEF Steps
<1>2. LoopShape' /\ ExclusiveLease' /\ LockFollowsStatus'
  BY DEF LoopShape, ExclusiveLease, LockFollowsStatus
<1>3. CallsInHand' /\ RunsAccounted' /\ FreshBackoff'
  BY DEF CallsInHand, RunsAccounted, FreshBackoff
<1> QED
  BY <1>1, <1>2, <1>3

\* Completing the current task.
LEMMA CompleteRowIInv ==
    ASSUME IInv, NEW w \in Workers, pc[w] = "complete",
           NEW t \in cur[w], CompleteRow(w, t), NextTask(w),
           UNCHANGED <<cancelled, runs>>, faults' \in 0..MaxFaults
    PROVE  IInv'
<1> USE DEF IInv, TypeOK, NextTask, CompleteRow, ClearLock, Busy, Holding
<1>1. t \in Tasks /\ cur[w] = {t} /\ status[t] = "running" /\ lockedBy[t] = w
  BY DEF LoopShape, ExclusiveLease
<1>2. TypeOK'
  BY <1>1, QueueAssumption DEF QueueAssumption, Statuses, Steps
<1>3. LoopShape'
  BY <1>1 DEF LoopShape
<1>4. ExclusiveLease'
  BY <1>1 DEF LoopShape, ExclusiveLease
<1>5. LockFollowsStatus'
  BY <1>1, QueueAssumption DEF LockFollowsStatus, QueueAssumption
<1>6. CallsInHand'
  BY <1>1 DEF LoopShape, CallsInHand
<1>7. RunsAccounted'
  BY <1>1, QueueAssumption DEF RunsAccounted, CallsInHand, QueueAssumption
<1>8. FreshBackoff'
  BY <1>1 DEF FreshBackoff
<1> QED
  BY <1>2, <1>3, <1>4, <1>5, <1>6, <1>7, <1>8

\* Recording a failure of the current task.  The task is leased to w alone, so
\* what other workers hold, count or have read is not touched.
LEMMA FailRowIInv ==
    ASSUME IInv, NEW w \in Workers, pc[w] = "fail",
           NEW t \in cur[w], FailRow(w, t, RetryDelay(seen[w])), NextTask(w),
           UNCHANGED <<cancelled, runs>>, faults' \in 0..MaxFaults
    PROVE  IInv'
<1> USE DEF IInv, TypeOK, NextTask, FailRow, FailTo, ClearLock, Busy, Holding
<1>1. t \in Tasks /\ cur[w] = {t} /\ status[t] = "running" /\ lockedBy[t] = w
  BY DEF LoopShape, ExclusiveLease
<1>2. attempts[t] + 1 \in 0..MaxAttempts /\ runs[t] = attempts[t] + 1
  BY <1>1, QueueAssumption DEF RunsAccounted, CallsInHand, QueueAssumption
<1>3. TypeOK'
  BY <1>1, <1>2, RetryDelayType, QueueAssumption DEF QueueAssumption, Statuses, Steps
<1>4. LoopShape'
  BY <1>1 DEF LoopShape
<1>5. ExclusiveLease'
  BY <1>1 DEF LoopShape, ExclusiveLease
<1>6. LockFollowsStatus'
  BY <1>1, QueueAssumption DEF LockFollowsStatus, QueueAssumption
<1>7. CallsInHand'
  BY <1>1 DEF LoopShape, CallsInHand, ExclusiveLease
<1>8. RunsAccounted'
  BY <1>1, <1>2, QueueAssumption DEF RunsAccounted, QueueAssumption
<1>9. FreshBackoff'
  BY <1>1 DEF FreshBackoff, LoopShape, ExclusiveLease
<1> QED
  BY <1>3, <1>4, <1>5, <1>6, <1>7, <1>8, <1>9

\* A worker that leaves drops everything it held.
LEMMA LeaveIInv ==
    ASSUME IInv, NEW w \in Workers, Leave(w)
    PROVE  IInv'
BY DEF Leave, IInv, TypeOK, LoopShape, ExclusiveLease, LockFollowsStatus, CallsInHand,
       RunsAccounted, FreshBackoff, Steps, Busy, Holding, rowVars

\* Both ways a statement may fail stay within the budget of faults.
LEMMA FaultsType ==
    ASSUME TypeOK, NEW w \in Workers, StatementFails(w) \/ AckLost
    PROVE  faults' \in 0..MaxFaults
BY QueueAssumption DEF TypeOK, StatementFails, AckLost, QueueAssumption

-----------------------------------------------------------------------------
(* Every step preserves the invariant. *)

\* Every step keeps the invariant.
LEMMA NextIInv == IInv /\ [Next]_vars => IInv'
<1> SUFFICES ASSUME IInv, [Next]_vars PROVE IInv'
  OBVIOUS
<1> USE DEF loopVars, rowVars
<1>1. ASSUME NEW t \in Tasks, Enqueue(t) PROVE IInv'
  BY <1>1, QueueAssumption DEF Enqueue, IInv, TypeOK, LoopShape, ExclusiveLease,
     LockFollowsStatus, CallsInHand, RunsAccounted, FreshBackoff, Statuses, Busy, Holding,
     QueueAssumption
<1>2. CASE Tick
  <2>1. wait' \in [Tasks -> 0..MaxDelay] /\ lease' \in [Tasks -> 0..LockTTL]
    BY <1>2, LessType, QueueAssumption DEF Tick, IInv, TypeOK, QueueAssumption
  <2>2. \A t \in Tasks : lease'[t] <= lease[t]
    BY <1>2, LessType, QueueAssumption DEF Tick, IInv, TypeOK, QueueAssumption
  <2>3. TypeOK' /\ LockFollowsStatus'
    BY <1>2, <2>1, <2>2, QueueAssumption DEF Tick, IInv, TypeOK, LockFollowsStatus, QueueAssumption
  <2>4. LoopShape' /\ ExclusiveLease' /\ CallsInHand' /\ RunsAccounted' /\ FreshBackoff'
    BY <1>2 DEF Tick, IInv, LoopShape, ExclusiveLease, CallsInHand, RunsAccounted,
       FreshBackoff, Holding
  <2> QED
    BY <2>3, <2>4 DEF IInv
<1>3. ASSUME NEW w \in Workers, Poll(w) PROVE IInv'
  <2>1. PICK S \in SUBSET {t \in Tasks : Due(t)} :
          LockRows(w, S) /\ batch' = [batch EXCEPT ![w] = S]
    BY <1>3 DEF Poll
  <2> QED
    BY <1>3, <2>1, LockRowsIInv DEF Poll, IInv, TypeOK
<1>4. ASSUME NEW w \in Workers, PollAckLost(w) PROVE IInv'
  <2>1. PICK S \in SUBSET {t \in Tasks : Due(t)} : LockRows(w, S)
    BY <1>4 DEF PollAckLost
  <2>2. faults' \in 0..MaxFaults
    BY <1>4, FaultsType DEF PollAckLost, IInv
  <2> QED
    BY <1>4, <2>1, <2>2, LockRowsIInv DEF PollAckLost
<1>5. ASSUME NEW w \in Workers, BatchDone(w) PROVE IInv'
  BY <1>5 DEF BatchDone, IInv, TypeOK, LoopShape, ExclusiveLease, LockFollowsStatus,
     CallsInHand, RunsAccounted, FreshBackoff, Steps, Busy, Holding
<1>6. ASSUME NEW w \in Workers, BeginTask(w) PROVE IInv'
  <2>1. PICK t \in batch[w] : /\ batch' = [batch EXCEPT ![w] = @ \ {t}]
                              /\ cur' = [cur EXCEPT ![w] = {t}]
                              /\ runs' = [runs EXCEPT ![t] = @ + 1]
    BY <1>6 DEF BeginTask
  <2> USE <1>6, <2>1 DEF BeginTask, IInv, TypeOK, Busy, Holding
  <2>2. t \in Tasks /\ status[t] = "running" /\ lockedBy[t] = w
    BY DEF ExclusiveLease
  <2>3. TypeOK'
    BY <2>2 DEF Steps
  <2>4. LoopShape' /\ ExclusiveLease' /\ LockFollowsStatus'
    BY <2>2 DEF LoopShape, ExclusiveLease, LockFollowsStatus
  <2>5. CallsInHand'
    BY <2>2 DEF LoopShape, CallsInHand, ExclusiveLease
  <2>6. RunsAccounted'
    BY <2>2, QueueAssumption DEF CallsInHand, RunsAccounted, QueueAssumption
  <2>7. FreshBackoff'
    BY DEF FreshBackoff
  <2> QED
    BY <2>3, <2>4, <2>5, <2>6, <2>7
<1>7. ASSUME NEW w \in Workers, HandlerReturns(w) PROVE IInv'
  BY <1>7 DEF HandlerReturns, IInv, TypeOK, LoopShape, ExclusiveLease, LockFollowsStatus,
     CallsInHand, RunsAccounted, FreshBackoff, Steps, Busy, Holding
<1>8. ASSUME NEW w \in Workers, Complete(w) PROVE IInv'
  BY <1>8, CompleteRowIInv DEF Complete, IInv, TypeOK
<1>9. ASSUME NEW w \in Workers, CompleteError(w) PROVE IInv'
  <2>1. faults' \in 0..MaxFaults
    BY <1>9, FaultsType DEF CompleteError, IInv
  <2> QED
    BY <1>9, <2>1, CompleteRowIInv, DropTaskIInv DEF CompleteError, Busy
<1>10. ASSUME NEW w \in Workers, LoadTask(w) PROVE IInv'
  BY <1>10 DEF LoadTask, IInv, TypeOK, LoopShape, ExclusiveLease, LockFollowsStatus,
     CallsInHand, RunsAccounted, FreshBackoff, Steps, Busy, Holding
<1>11. ASSUME NEW w \in Workers, LoadError(w) PROVE IInv'
  <2>1. faults' \in 0..MaxFaults
    BY <1>11, FaultsType DEF LoadError, IInv
  <2> QED
    BY <1>11, <2>1, DropTaskIInv DEF LoadError, Busy
<1>12. ASSUME NEW w \in Workers, Fail(w) PROVE IInv'
  BY <1>12, FailRowIInv DEF Fail, IInv, TypeOK
<1>13. ASSUME NEW w \in Workers, FailError(w) PROVE IInv'
  <2>1. faults' \in 0..MaxFaults
    BY <1>13, FaultsType DEF FailError, IInv
  <2> QED
    BY <1>13, <2>1, FailRowIInv, DropTaskIInv DEF FailError, Busy
<1>14. ASSUME NEW w \in Workers, Exit(w) \/ Crash(w) PROVE IInv'
  BY <1>14, LeaveIInv DEF Exit, Crash
<1>15. ASSUME NEW w \in Workers, Stop(w) PROVE IInv'
  BY <1>15 DEF Stop, IInv, TypeOK, LoopShape, ExclusiveLease, LockFollowsStatus,
     CallsInHand, RunsAccounted, FreshBackoff, Holding
<1>16. CASE UNCHANGED vars
  BY <1>16 DEF vars, IInv, TypeOK, LoopShape, ExclusiveLease, LockFollowsStatus,
     CallsInHand, RunsAccounted, FreshBackoff, Holding
<1> QED
  BY <1>1, <1>2, <1>3, <1>4, <1>5, <1>6, <1>7, <1>8, <1>9, <1>10, <1>11, <1>12, <1>13,
     <1>14, <1>15, <1>16 DEF Next, WorkerStep

-----------------------------------------------------------------------------
(* Theorems. *)

\* The inductive invariant holds in every reachable state.
THEOREM Invariant == Spec => []IInv
<1>1. Init => IInv
  BY InitIInv
<1>2. IInv /\ [Next]_vars => IInv'
  BY NextIInv
<1> QED
  BY <1>1, <1>2, PTL DEF Spec

\* The state keeps its type: in particular attempts never pass max_attempts.
THEOREM TypeCorrect == Spec => []TypeOK
<1>1. IInv => TypeOK
  BY DEF IInv
<1> QED
  BY <1>1, Invariant, PTL

\* Whatever a live worker still has to do is running and leased to it, however
\* long ago its lease expired.
THEOREM LeasesExclusive == Spec => []ExclusiveLease
<1>1. IInv => ExclusiveLease
  BY DEF IInv
<1> QED
  BY <1>1, Invariant, PTL

\* No task is ever in the hands of two workers.
THEOREM OneWorkerPerTask ==
    Spec => [](\A v, w \in Workers : v # w => Holding(v) \cap Holding(w) = {})
<1>1. IInv => \A v, w \in Workers : v # w => Holding(v) \cap Holding(w) = {}
  BY DEF IInv, ExclusiveLease
<1> QED
  BY <1>1, Invariant, PTL

\* Locks follow the status, so the locked_until condition of Poll is redundant.
THEOREM LocksFollowStatus == Spec => []LockFollowsStatus
<1>1. IInv => LockFollowsStatus
  BY DEF IInv
<1> QED
  BY <1>1, Invariant, PTL

\* Handler calls are bounded by max_attempts and accounted for by the row.
THEOREM HandlerCallsAccounted == Spec => []RunsAccounted
<1>1. IInv => RunsAccounted
  BY DEF IInv
<1> QED
  BY <1>1, Invariant, PTL

\* The attempts Service.Fail read are still those of the row when it writes.
THEOREM BackoffIsFresh == Spec => []FreshBackoff
<1>1. IInv => FreshBackoff
  BY DEF IInv
<1> QED
  BY <1>1, Invariant, PTL

\* A completed or failed task is never handled or changed again.
THEOREM SettledTasksStay == Spec => SettledStays
<1>1. ASSUME IInv, [Next]_vars, NEW t \in Tasks, Settled(t)
      PROVE  status'[t] = status[t] /\ attempts'[t] = attempts[t] /\ runs'[t] = runs[t]
  <2> USE <1>1 DEF Settled, rowVars, IInv, TypeOK
  <2>1. \A w \in Workers : t \notin Holding(w)
    BY DEF ExclusiveLease
  <2>2. CASE \E u \in Tasks : Enqueue(u)
    BY <2>2 DEF Enqueue
  <2>3. CASE Tick
    BY <2>3 DEF Tick
  <2>4. ASSUME NEW w \in Workers, Poll(w) \/ PollAckLost(w)
        PROVE  status'[t] = status[t] /\ attempts'[t] = attempts[t] /\ runs'[t] = runs[t]
    BY <2>4 DEF Poll, PollAckLost, LockRows, Due
  <2>5. ASSUME NEW w \in Workers, BatchDone(w) \/ BeginTask(w) \/ HandlerReturns(w)
        PROVE  status'[t] = status[t] /\ attempts'[t] = attempts[t] /\ runs'[t] = runs[t]
    BY <2>1, <2>5 DEF BatchDone, BeginTask, HandlerReturns, Holding
  <2>6. ASSUME NEW w \in Workers, Complete(w) \/ CompleteError(w)
        PROVE  status'[t] = status[t] /\ attempts'[t] = attempts[t] /\ runs'[t] = runs[t]
    BY <2>1, <2>6 DEF Complete, CompleteError, CompleteRow, Holding
  <2>7. ASSUME NEW w \in Workers, LoadTask(w) \/ LoadError(w)
        PROVE  status'[t] = status[t] /\ attempts'[t] = attempts[t] /\ runs'[t] = runs[t]
    BY <2>7 DEF LoadTask, LoadError
  <2>8. ASSUME NEW w \in Workers, Fail(w) \/ FailError(w)
        PROVE  status'[t] = status[t] /\ attempts'[t] = attempts[t] /\ runs'[t] = runs[t]
    BY <2>1, <2>8 DEF Fail, FailError, FailRow, FailTo, Holding
  <2>9. ASSUME NEW w \in Workers, Exit(w) \/ Stop(w) \/ Crash(w)
        PROVE  status'[t] = status[t] /\ attempts'[t] = attempts[t] /\ runs'[t] = runs[t]
    BY <2>9 DEF Exit, Stop, Crash, Leave
  <2>10. CASE UNCHANGED vars
    BY <2>10 DEF vars
  <2> QED
    BY <2>2, <2>3, <2>4, <2>5, <2>6, <2>7, <2>8, <2>9, <2>10 DEF Next, WorkerStep
<1>2. IInv /\ [Next]_vars =>
        [\A t \in Tasks : status[t] \in {"completed", "failed"} =>
           /\ status'[t] = status[t]
           /\ attempts'[t] = attempts[t]
           /\ runs'[t] = runs[t]]_vars
  BY <1>1 DEF Settled
<1> QED
  BY <1>2, Invariant, PTL DEF Spec, SettledStays

\* The weakness of the table, for every instance: once no live worker knows of
\* a running task, none ever will, and the task stays running for ever.
THEOREM OrphansAreNeverRecovered ==
    Spec => [][\A t \in Tasks : Orphaned(t) => Orphaned(t)']_vars
<1>1. ASSUME IInv, [Next]_vars, NEW t \in Tasks, Orphaned(t)
      PROVE  Orphaned(t)'
  <2> USE <1>1 DEF Orphaned, Holding, rowVars, loopVars, IInv, TypeOK
  <2>1. status[t] = "running" /\ \A w \in Workers : t \notin batch[w] \cup cur[w]
    OBVIOUS
  <2>2. SUFFICES status'[t] = "running" /\ \A w \in Workers : t \notin batch'[w] \cup cur'[w]
    OBVIOUS
  <2>3. CASE \E u \in Tasks : Enqueue(u)
    BY <2>1, <2>3 DEF Enqueue
  <2>4. CASE Tick
    BY <2>1, <2>4 DEF Tick
  <2>5. ASSUME NEW w \in Workers, Poll(w) \/ PollAckLost(w)
        PROVE  status'[t] = "running" /\ \A v \in Workers : t \notin batch'[v] \cup cur'[v]
    BY <2>1, <2>5 DEF Poll, PollAckLost, LockRows, Due
  <2>6. ASSUME NEW w \in Workers, BatchDone(w) \/ BeginTask(w) \/ HandlerReturns(w)
        PROVE  status'[t] = "running" /\ \A v \in Workers : t \notin batch'[v] \cup cur'[v]
    BY <2>1, <2>6 DEF BatchDone, BeginTask, HandlerReturns
  <2>7. ASSUME NEW w \in Workers, Complete(w) \/ CompleteError(w)
        PROVE  status'[t] = "running" /\ \A v \in Workers : t \notin batch'[v] \cup cur'[v]
    BY <2>1, <2>7 DEF Complete, CompleteError, CompleteRow, NextTask
  <2>8. ASSUME NEW w \in Workers, LoadTask(w) \/ LoadError(w)
        PROVE  status'[t] = "running" /\ \A v \in Workers : t \notin batch'[v] \cup cur'[v]
    BY <2>1, <2>8 DEF LoadTask, LoadError, NextTask
  <2>9. ASSUME NEW w \in Workers, Fail(w) \/ FailError(w)
        PROVE  status'[t] = "running" /\ \A v \in Workers : t \notin batch'[v] \cup cur'[v]
    BY <2>1, <2>9 DEF Fail, FailError, FailRow, FailTo, NextTask
  <2>10. ASSUME NEW w \in Workers, Exit(w) \/ Stop(w) \/ Crash(w)
        PROVE  status'[t] = "running" /\ \A v \in Workers : t \notin batch'[v] \cup cur'[v]
    BY <2>1, <2>10 DEF Exit, Stop, Crash, Leave
  <2>11. CASE UNCHANGED vars
    BY <2>1, <2>11 DEF vars
  <2> QED
    BY <2>3, <2>4, <2>5, <2>6, <2>7, <2>8, <2>9, <2>10, <2>11 DEF Next, WorkerStep
<1>2. IInv /\ [Next]_vars => [\A t \in Tasks : Orphaned(t) => Orphaned(t)']_vars
  BY <1>1
<1> QED
  BY <1>2, Invariant, PTL DEF Spec

\* The table and its workers implement the abstract lifecycle of a task.
THEOREM Refinement == Spec => ImplementsLifecycle
<1> USE DEF Lifecycle!vars, rowVars
<1>1. Init => Lifecycle!Init
  BY DEF Init, Lifecycle!Init
<1>2. IInv /\ [Next]_vars => [Lifecycle!Next]_(Lifecycle!vars)
  <2> SUFFICES ASSUME IInv, [Next]_vars PROVE [Lifecycle!Next]_(Lifecycle!vars)
    OBVIOUS
  <2> USE DEF IInv, TypeOK
  <2>1. ASSUME NEW t \in Tasks, Enqueue(t) PROVE Lifecycle!Submit(t)
    BY <2>1 DEF Enqueue, Lifecycle!Submit
  <2>2. ASSUME NEW w \in Workers, Poll(w) \/ PollAckLost(w)
        PROVE  \E S \in SUBSET Tasks : Lifecycle!Take(w, S)
    BY <2>2 DEF Poll, PollAckLost, LockRows, Due, Lifecycle!Take
  <2>3. ASSUME NEW w \in Workers, Complete(w) \/ CompleteError(w)
        PROVE  \/ \E t \in Tasks : Lifecycle!Finish(t)
               \/ UNCHANGED Lifecycle!vars
    BY <2>3 DEF Complete, CompleteError, CompleteRow, ClearLock, Lifecycle!Finish,
       ExclusiveLease, Holding
  <2>4. ASSUME NEW w \in Workers, Fail(w) \/ FailError(w)
        PROVE  \/ \E t \in Tasks : Lifecycle!Retry(t) \/ Lifecycle!GiveUp(t)
               \/ UNCHANGED Lifecycle!vars
    <3>1. CASE UNCHANGED rowVars
      BY <3>1
    <3>2. ASSUME NEW t \in cur[w], FailRow(w, t, RetryDelay(seen[w])), lockedBy[t] = w
          PROVE  Lifecycle!Retry(t) \/ Lifecycle!GiveUp(t)
      <4>1. t \in Tasks /\ status[t] = "running" /\ attempts[t] \in 0..MaxAttempts
            /\ attempts[t] # MaxAttempts
        BY DEF ExclusiveLease, Holding, RunsAccounted
      <4>2. attempts[t] + 1 < MaxAttempts \/ attempts[t] + 1 = MaxAttempts
        BY <4>1, QueueAssumption DEF QueueAssumption
      <4>3. CASE attempts[t] + 1 < MaxAttempts
        BY <3>2, <4>1, <4>3, QueueAssumption
           DEF FailRow, FailTo, ClearLock, Lifecycle!Retry, QueueAssumption
      <4>4. CASE attempts[t] + 1 = MaxAttempts
        BY <3>2, <4>1, <4>4, QueueAssumption
           DEF FailRow, FailTo, ClearLock, Lifecycle!GiveUp, QueueAssumption
      <4> QED
        BY <4>2, <4>3, <4>4
    <3>3. ASSUME NEW t \in cur[w], FailRow(w, t, RetryDelay(seen[w])), lockedBy[t] # w
          PROVE  UNCHANGED rowVars
      BY <3>3 DEF FailRow, FailTo
    <3> QED
      BY <2>4, <3>1, <3>2, <3>3 DEF Fail, FailError
  <2>5. ASSUME \/ Tick
               \/ \E w \in Workers : \/ BatchDone(w) \/ BeginTask(w) \/ HandlerReturns(w)
                                     \/ LoadTask(w) \/ LoadError(w)
                                     \/ Exit(w) \/ Stop(w) \/ Crash(w)
               \/ UNCHANGED vars
        PROVE  UNCHANGED Lifecycle!vars
    BY <2>5 DEF Tick, BatchDone, BeginTask, HandlerReturns, LoadTask, LoadError, Exit, Stop,
       Crash, Leave, vars
  <2> QED
    BY <2>1, <2>2, <2>3, <2>4, <2>5 DEF Next, WorkerStep, Lifecycle!Next
<1> QED
  BY <1>1, <1>2, Invariant, PTL DEF Spec, ImplementsLifecycle, Lifecycle!Spec
=============================================================================
