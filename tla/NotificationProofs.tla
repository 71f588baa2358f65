-------------------------- MODULE NotificationProofs --------------------------
(***************************************************************************)
(* Theorems about the delivery of notifications, for any number of tasks,  *)
(* channels, workers, attempts and faults.                                 *)
(***************************************************************************)
EXTENDS NotificationDelivery, TLAPS

-----------------------------------------------------------------------------
(* The inductive invariant. *)

Busy == {"check", "channel", "send", "complete", "fail"}

\* A loop has one current task exactly while it works on it, a batch only
\* between a poll and the end of its loop, and gives a task back only on its way
\* to FailTask.
LoopShape ==
    \A w \in Workers :
        /\ pc[w] \in Busy => \E t \in Tasks : cur[w] = {t}
        /\ pc[w] \notin Busy => cur[w] = {}
        /\ pc[w] \notin Busy \cup {"loop"} => batch[w] = {}
        /\ batch[w] \cap cur[w] = {}
        /\ gaveBack[w] => pc[w] = "fail"

\* Until Send is called for the attempt in hand, only counted attempts called it.
CallsInHand ==
    \A w \in Workers :
        /\ \A t \in batch[w] : calls[t] <= attempts[t]
        /\ pc[w] \in {"check", "channel", "send"} =>
             \A t \in cur[w] : calls[t] <= attempts[t]

\* The one delivery known to have succeeded is that of a task about to be
\* completed.
SendInHand ==
    \A w \in Workers :
        /\ \A t \in batch[w] : sent[t] = doubtful[t]
        /\ \A t \in cur[w] :
             /\ pc[w] # "complete" /\ ~gaveBack[w] => sent[t] = doubtful[t]
             /\ pc[w] = "complete" /\ ChannelOf[t] \in HttpChannels => sent[t] = doubtful[t] + 1

\* What GetChannel found is still so: channels do not change.
ChannelRead ==
    \A w \in Workers : pc[w] = "send" => \A t \in cur[w] : channel[ChannelOf[t]] = "enabled"

IInv ==
    /\ TypeOK
    /\ LoopShape
    /\ ExclusiveLease
    /\ LockFollowsStatus
    /\ CallsInHand
    /\ CallsAccounted
    /\ SendInHand
    /\ DeliveryAccounted
    /\ ChannelRead
    /\ OnlyEnabledReceive
    /\ FreshBackoff

-----------------------------------------------------------------------------
(* Lemmas about the operators. *)

\* The backoff stays within its cap.
LEMMA BackoffDelayType == \A n : BackoffDelay(n) \in 0..MaxDelay
BY DeliveryAssumption DEF DeliveryAssumption, BackoffDelay

\* Time never makes a countdown longer.
LEMMA LessType ==
    ASSUME NEW B \in Nat, NEW f \in [Tasks -> 0..B]
    PROVE  /\ Less(f) \in [Tasks -> 0..B]
           /\ \A t \in Tasks : Less(f)[t] <= f[t]
BY DEF Less

\* A column read for some rows keeps its type.
LEMMA OnRowsType ==
    ASSUME NEW S \in SUBSET Tasks, RowType
    PROVE  OnRows(S, attempts) \in [Tasks -> 0..MaxAttempts] /\ OnRows(S, step) \in [Tasks -> Nat]
BY DeliveryAssumption DEF OnRows, RowType, DeliveryAssumption

\* What one worker has read may be replaced.
LEMMA ReadType ==
    ASSUME NEW B, NEW f \in [Workers -> B], NEW w \in Workers, NEW x \in B
    PROVE  [f EXCEPT ![w] = x] \in [Workers -> B]
OBVIOUS

\* Both ways a statement may fail stay within the budget of faults.
LEMMA FaultsType ==
    ASSUME TypeOK, NEW w \in Workers, StatementFails(w) \/ AckLost
    PROVE  faults' \in 0..MaxFaults
BY DeliveryAssumption DEF TypeOK, StatementFails, AckLost, DeliveryAssumption

\* The initial state satisfies the inductive invariant.
LEMMA InitIInv == Init => IInv
BY DeliveryAssumption DEF DeliveryAssumption, Init, Statuses, Steps, IInv, TypeOK, RowType, LoopType, SendType, LoopShape, ExclusiveLease,
     LockFollowsStatus, CallsInHand, CallsAccounted, SendInHand, DeliveryAccounted,
     ChannelRead, OnlyEnabledReceive, FreshBackoff, Busy, Holding, Owned

-----------------------------------------------------------------------------
(* What the steps that share an effect do to the invariant. *)

\* Taking due rows: they were nobody's, so they are in no other worker's hands,
\* and nothing but counted attempts has called Send for them.
LEMMA LockRowsIInv ==
    ASSUME IInv, NEW w \in Workers, pc[w] = "idle",
           NEW S \in SUBSET {t \in Tasks : Due(t)}, LockRows(w, S),
           \/ /\ GoTo(w, "loop")
              /\ batch' = [batch EXCEPT ![w] = S]
              /\ seen' = [seen EXCEPT ![w] = OnRows(S, attempts)]
              /\ seenStep' = [seenStep EXCEPT ![w] = OnRows(S, step)]
           \/ UNCHANGED <<pc, batch, seen, seenStep>>,
           UNCHANGED <<channel, cur, gaveBack, cancelled, sendVars>>, faults' \in 0..MaxFaults
    PROVE  IInv'
<1> USE DEF IInv, GoTo, sendVars
<1>0. S \in SUBSET Tasks /\ \A t \in S : status[t] = "pending"
  BY DEF Due
<1>1. RowType'
  BY <1>0, DeliveryAssumption DEF TypeOK, RowType, LockRows, Statuses, DeliveryAssumption
<1>2. LoopType'
  <2>1. OnRows(S, attempts) \in [Tasks -> 0..MaxAttempts] /\ OnRows(S, step) \in [Tasks -> Nat]
    BY <1>0, OnRowsType DEF TypeOK
  <2>2. LoopType
    BY DEF TypeOK
  <2>3. pc' \in [Workers -> Steps]
    BY <2>2 DEF LoopType, Steps
  <2>4. batch' \in [Workers -> SUBSET Tasks]
    BY <1>0, <2>2 DEF LoopType
  <2>5. seen' \in [Workers -> [Tasks -> 0..MaxAttempts]] /\ seenStep' \in [Workers -> [Tasks -> Nat]]
    <3>1. /\ [seen EXCEPT ![w] = OnRows(S, attempts)] \in [Workers -> [Tasks -> 0..MaxAttempts]]
          /\ [seenStep EXCEPT ![w] = OnRows(S, step)] \in [Workers -> [Tasks -> Nat]]
      BY <2>1, <2>2, ReadType DEF LoopType
    <3> QED
      BY <2>2, <3>1 DEF LoopType
  <2> QED
    BY <2>2, <2>3, <2>4, <2>5 DEF LoopType
<1>3. SendType' /\ TypeOK'
  BY <1>1, <1>2 DEF TypeOK, SendType
<1>4. cur[w] = {} /\ batch[w] = {} /\ ~gaveBack[w]
  BY DEF LoopShape, Busy
<1>5. LoopShape'
  BY <1>0, <1>4 DEF TypeOK, LoopType, LoopShape, Busy
<1>6. ExclusiveLease'
  <2>1. \A v \in Workers : \A t \in Owned(v) : t \notin S
    BY <1>0 DEF ExclusiveLease
  <2>2. \A t \in Tasks : /\ status'[t] = IF t \in S THEN "running" ELSE status[t]
                         /\ lockedBy'[t] = IF t \in S THEN w ELSE lockedBy[t]
    BY DEF LockRows
  <2>3. \A v \in Workers : Owned(v) \subseteq Tasks /\ cur[v] \subseteq Tasks
    BY DEF TypeOK, LoopType, Owned
  <2>4. \A v \in Workers : v # w => Owned(v)' = Owned(v)
    BY DEF TypeOK, LoopType, Owned
  <2>5. Owned(w)' \subseteq S
    BY <1>4 DEF TypeOK, LoopType, Owned
  <2>6. \A v \in Workers : \A t \in Owned(v)' : status'[t] = "running" /\ lockedBy'[t] = v
    BY <1>0, <2>1, <2>2, <2>3, <2>4, <2>5 DEF ExclusiveLease
  <2>7. \A v \in Workers : gaveBack[v] => v # w /\ \A t \in cur[v] : lockedBy'[t] # v
    BY <1>4, <2>2, <2>3 DEF ExclusiveLease
  <2> QED
    BY <2>6, <2>7 DEF ExclusiveLease
<1>7. LockFollowsStatus'
  BY <1>0, DeliveryAssumption
     DEF LockRows, LockFollowsStatus, DeliveryAssumption, TypeOK, RowType
<1>8. CallsInHand' /\ CallsAccounted'
  BY <1>0, <1>4, DeliveryAssumption
     DEF LockRows, CallsInHand, CallsAccounted, TypeOK, RowType, LoopType, SendType,
         DeliveryAssumption
<1>9. SendInHand' /\ DeliveryAccounted'
  BY <1>0, <1>4 DEF LockRows, SendInHand, DeliveryAccounted, TypeOK, LoopType
<1>10. ChannelRead' /\ OnlyEnabledReceive'
  BY <1>4 DEF ChannelRead, OnlyEnabledReceive, TypeOK, LoopType
<1>11. FreshBackoff'
  <2>1. \A v \in Workers : v # w => Owned(v)' = Owned(v) /\ seen'[v] = seen[v]
                                   /\ seenStep'[v] = seenStep[v]
    BY DEF TypeOK, LoopType, Owned
  <2>2. Owned(w)' = {} \/ (/\ Owned(w)' = S
                           /\ seen'[w] = OnRows(S, attempts)
                           /\ seenStep'[w] = OnRows(S, step))
    BY <1>4 DEF TypeOK, LoopType, Owned
  <2>3. \A t \in S : OnRows(S, attempts)[t] = attempts[t] /\ OnRows(S, step)[t] = step[t]
    BY <1>0 DEF OnRows
  <2>4. UNCHANGED <<attempts, step>>
    BY DEF LockRows
  <2> QED
    BY <2>1, <2>2, <2>3, <2>4 DEF FreshBackoff
<1> QED
  BY <1>3, <1>5, <1>6, <1>7, <1>8, <1>9, <1>10, <1>11

\* Dropping the current task without a write leaves it as it is.
LEMMA DropTaskIInv ==
    ASSUME IInv, NEW w \in Workers, pc[w] \in Busy, NextTask(w),
           UNCHANGED <<channel, rowVars, cancelled, sendVars>>, faults' \in 0..MaxFaults
    PROVE  IInv'
<1> USE DEF IInv, TypeOK, LoopType, NextTask, GoTo, rowVars, sendVars
<1>1. TypeOK'
  BY DEF RowType, SendType, Steps
<1>2. LoopShape'
  BY DEF LoopShape, Busy
<1>3. ExclusiveLease' /\ LockFollowsStatus'
  BY DEF ExclusiveLease, LockFollowsStatus, Owned
<1>4. CallsInHand' /\ CallsAccounted'
  BY DEF CallsInHand, CallsAccounted
<1>5. SendInHand' /\ DeliveryAccounted'
  BY DEF SendInHand, DeliveryAccounted
<1>6. ChannelRead' /\ OnlyEnabledReceive' /\ FreshBackoff'
  BY DEF ChannelRead, OnlyEnabledReceive, FreshBackoff, Owned
<1> QED
  BY <1>1, <1>2, <1>3, <1>4, <1>5, <1>6

\* What Release writes when it matches, and that it then ends the lease of a
\* task that no other worker owns.
LEMMA ReleaseRows ==
    ASSUME IInv, NEW w \in Workers, NEW t \in Owned(w), NEW st, NEW n, NEW esc, NEW delay,
           Release(w, t, st, n, esc, delay)
    PROVE  /\ t \in Tasks /\ status[t] = "running" /\ lockedBy[t] = w /\ attempts[t] < MaxAttempts
           /\ \A v \in Workers : v # w => t \notin Owned(v)
           /\ status' = [status EXCEPT ![t] = st]
           /\ attempts' = [attempts EXCEPT ![t] = n]
           /\ step' = [step EXCEPT ![t] = esc]
           /\ wait' = [wait EXCEPT ![t] = delay]
           /\ lockedBy' = [lockedBy EXCEPT ![t] = NoWorker]
           /\ lease' = [lease EXCEPT ![t] = 0]
<1>1. t \in Tasks /\ status[t] = "running" /\ lockedBy[t] = w
  BY DEF IInv, TypeOK, LoopType, ExclusiveLease, Owned
<1>2. attempts[t] < MaxAttempts
  BY <1>1, DeliveryAssumption DEF IInv, TypeOK, RowType, CallsAccounted, DeliveryAssumption
<1>3. \A v \in Workers : v # w => t \notin Owned(v)
  BY <1>1 DEF IInv, ExclusiveLease
<1> QED
  BY <1>1, <1>2, <1>3 DEF Release

\* Ending the lease of the current task, by any of the three statements.
LEMMA ReleaseIInv ==
    ASSUME IInv, NEW w \in Workers, NEW t \in cur[w], ~gaveBack[w],
           NEW st \in {"completed", "pending", "failed"}, NEW n \in 0..MaxAttempts,
           NEW esc \in Nat, NEW delay \in 0..MaxDelay,
           Release(w, t, st, n, esc, delay),
           n = attempts[t] \/ n = attempts[t] + 1,
           st = "failed" <=> n = MaxAttempts,
           st # "completed" => calls[t] <= n /\ sent[t] = doubtful[t],
           st = "completed" /\ ChannelOf[t] \in HttpChannels => sent[t] = doubtful[t] + 1,
           \/ NextTask(w)
           \/ /\ GoTo(w, "fail")
              /\ gaveBack' = [gaveBack EXCEPT ![w] = TRUE]
              /\ pc[w] = "check"
              /\ UNCHANGED <<batch, cur, seen, seenStep>>,
           UNCHANGED <<channel, cancelled, sendVars>>, faults' \in 0..MaxFaults
    PROVE  IInv'
<1>1. t \in Owned(w) /\ cur[w] = {t} /\ t \notin batch[w]
  BY DEF IInv, LoopShape, Busy, Owned
<1>2. /\ t \in Tasks /\ status[t] = "running" /\ lockedBy[t] = w /\ attempts[t] < MaxAttempts
      /\ \A v \in Workers : v # w => t \notin Owned(v)
      /\ status' = [status EXCEPT ![t] = st]
      /\ attempts' = [attempts EXCEPT ![t] = n]
      /\ step' = [step EXCEPT ![t] = esc]
      /\ wait' = [wait EXCEPT ![t] = delay]
      /\ lockedBy' = [lockedBy EXCEPT ![t] = NoWorker]
      /\ lease' = [lease EXCEPT ![t] = 0]
  BY <1>1, ReleaseRows
<1>3. /\ \A v \in Workers : v # w => Owned(v)' = Owned(v)
      /\ Owned(w)' = batch[w]
      /\ UNCHANGED <<batch, seen, seenStep>>
      /\ \A v \in Workers : cur'[v] \subseteq cur[v]
      /\ \A v \in Workers : v # w => cur'[v] = cur[v] /\ pc'[v] = pc[v] /\ gaveBack'[v] = gaveBack[v]
      /\ pc'[w] \in {"loop", "fail"}
      /\ pc'[w] = "loop" => cur'[w] = {} /\ ~gaveBack'[w]
      /\ pc'[w] = "fail" => cur'[w] = {t} /\ gaveBack'[w]
  BY <1>1 DEF IInv, TypeOK, LoopType, NextTask, GoTo, Owned
<1>4. TypeOK'
  <2>1. RowType'
    BY <1>2, DeliveryAssumption DEF IInv, TypeOK, RowType, Statuses, DeliveryAssumption
  <2>2. LoopType'
    BY DEF IInv, TypeOK, LoopType, NextTask, GoTo, Steps
  <2> QED
    BY <2>1, <2>2 DEF IInv, TypeOK, SendType, sendVars
<1>5. LoopShape'
  BY <1>1, <1>2, <1>3 DEF IInv, LoopShape, Busy
<1>6. \A v \in Workers : \A u \in Owned(v)' : u \in Owned(v) /\ u # t
  BY <1>1, <1>2, <1>3 DEF Owned
<1>7. ExclusiveLease'
  <2>1. \A v \in Workers : \A u \in Owned(v)' : status'[u] = "running" /\ lockedBy'[u] = v
    BY <1>2, <1>6 DEF IInv, TypeOK, RowType, LoopType, ExclusiveLease, Owned
  <2>2. \A v \in Workers : gaveBack'[v] => \A u \in cur'[v] : lockedBy'[u] # v
    <3>1. \A v \in Workers : gaveBack'[v] /\ v # w => \A u \in cur'[v] : lockedBy[u] # v
      BY <1>3 DEF IInv, ExclusiveLease
    <3>2. \A u \in Tasks : lockedBy'[u] = IF u = t THEN NoWorker ELSE lockedBy[u]
      BY <1>2 DEF IInv, TypeOK, RowType
    <3>3. \A v \in Workers : cur'[v] \subseteq Tasks
      BY <1>3 DEF IInv, TypeOK, LoopType
    <3>4. gaveBack'[w] => cur'[w] = {t}
      BY <1>3
    <3> QED
      BY <3>1, <3>2, <3>3, <3>4, DeliveryAssumption DEF DeliveryAssumption
  <2> QED
    BY <2>1, <2>2 DEF ExclusiveLease
<1>8. LockFollowsStatus'
  BY <1>2, DeliveryAssumption DEF IInv, TypeOK, RowType, LockFollowsStatus, DeliveryAssumption
<1>9. CallsInHand'
  <2>1. \A u \in Tasks : u # t => attempts'[u] = attempts[u]
    BY <1>2 DEF IInv, TypeOK, RowType
  <2>2. \A v \in Workers : \A u \in batch[v] : u \in Tasks /\ u # t
    BY <1>1, <1>2 DEF IInv, TypeOK, LoopType, Owned
  <2>3. \A v \in Workers : pc'[v] \in {"check", "channel", "send"} =>
           v # w /\ pc'[v] = pc[v] /\ cur'[v] = cur[v]
    BY <1>3
  <2>4. \A v \in Workers : v # w /\ pc[v] \in {"check", "channel", "send"} =>
           \A u \in cur[v] : u \in Tasks /\ u # t
    BY <1>2 DEF IInv, TypeOK, LoopType, LoopShape, Owned
  <2> QED
    BY <1>3, <2>1, <2>2, <2>3, <2>4 DEF IInv, CallsInHand, sendVars
<1>10. CallsAccounted'
  BY <1>2, DeliveryAssumption
     DEF IInv, TypeOK, RowType, SendType, CallsAccounted, sendVars, DeliveryAssumption
<1>11. SendInHand'
  BY <1>3 DEF IInv, SendInHand, sendVars
<1>12. DeliveryAccounted'
  BY <1>2 DEF IInv, TypeOK, RowType, DeliveryAccounted, sendVars
<1>13. ChannelRead' /\ OnlyEnabledReceive'
  BY <1>3 DEF IInv, ChannelRead, OnlyEnabledReceive, sendVars
<1>14. FreshBackoff'
  BY <1>2, <1>3, <1>6 DEF IInv, TypeOK, RowType, LoopType, FreshBackoff, Owned
<1> QED
  BY <1>4, <1>5, <1>7, <1>8, <1>9, <1>10, <1>11, <1>12, <1>13, <1>14 DEF IInv

\* Completing the current task, just delivered.
LEMMA CompleteRowIInv ==
    ASSUME IInv, NEW w \in Workers, pc[w] = "complete",
           NEW t \in cur[w], CompleteRow(w, t), NextTask(w),
           UNCHANGED <<channel, cancelled, sendVars>>, faults' \in 0..MaxFaults
    PROVE  IInv'
<1>1. ~gaveBack[w] /\ t \in Owned(w) /\ t \in Tasks
  BY DEF IInv, TypeOK, LoopType, LoopShape, Owned
<1>2. attempts[t] \in 0..MaxAttempts /\ step[t] \in Nat /\ wait[t] \in 0..MaxDelay
  BY <1>1 DEF IInv, TypeOK, RowType
<1>3. attempts[t] # MaxAttempts
  BY <1>1 DEF IInv, ExclusiveLease, CallsAccounted
<1>4. ChannelOf[t] \in HttpChannels => sent[t] = doubtful[t] + 1
  BY DEF IInv, SendInHand
<1> QED
  BY <1>1, <1>2, <1>3, <1>4, ReleaseIInv DEF CompleteRow

\* Recording a failure of the current task.  When the task was given back, the
\* statement matches nothing and the worker only drops the task.
LEMMA FailPolledIInv ==
    ASSUME IInv, NEW w \in Workers, pc[w] = "fail", FailPolled(w), NextTask(w),
           UNCHANGED <<channel, cancelled, sendVars>>, faults' \in 0..MaxFaults
    PROVE  IInv'
<1>1. PICK t \in cur[w] : FailRow(w, t, BackoffDelay(seen[w][t]), seenStep[w][t])
  BY DEF FailPolled
<1>2. t \in Tasks
  BY DEF IInv, TypeOK, LoopType
<1>3. CASE gaveBack[w]
  <2>1. lockedBy[t] # w
    BY <1>3 DEF IInv, ExclusiveLease
  <2>2. UNCHANGED rowVars
    BY <1>1, <2>1 DEF FailRow, Release
  <2> QED
    BY <2>2, DropTaskIInv DEF Busy
<1>4. CASE ~gaveBack[w]
  <2>1. status[t] = "running" /\ attempts[t] \in 0..MaxAttempts /\ attempts[t] # MaxAttempts
    BY <1>2, <1>4 DEF IInv, TypeOK, RowType, ExclusiveLease, Owned, CallsAccounted
  <2>2. attempts[t] + 1 \in 0..MaxAttempts
    BY <2>1, DeliveryAssumption DEF DeliveryAssumption
  <2>3. calls[t] <= attempts[t] + 1 /\ sent[t] = doubtful[t]
    BY <1>2, <1>4, <2>1 DEF IInv, CallsAccounted, SendInHand
  <2>4. seenStep[w][t] \in Nat /\ BackoffDelay(seen[w][t]) \in 0..MaxDelay
    BY <1>2, BackoffDelayType DEF IInv, TypeOK, LoopType
  <2>5. /\ AfterFailure(t) \in {"pending", "failed"}
        /\ AfterFailure(t) = "failed" <=> attempts[t] + 1 = MaxAttempts
    BY <2>1, <2>2, DeliveryAssumption DEF AfterFailure, DeliveryAssumption
  <2> QED
    BY <1>1, <1>4, <2>2, <2>3, <2>4, <2>5, ReleaseIInv DEF FailRow
<1> QED
  BY <1>3, <1>4

\* Giving the current task back.
LEMMA RequeueRowIInv ==
    ASSUME IInv, NEW w \in Workers, RequeueEarly(w)
    PROVE  IInv'
<1>1. PICK t \in cur[w], delay \in 1..MaxDelay : RequeueRow(w, t, delay)
  BY DEF RequeueEarly
<1>2. pc[w] = "check" /\ ~gaveBack[w] /\ t \in Tasks /\ t \in Owned(w) /\ delay \in 0..MaxDelay
  BY DEF RequeueEarly, IInv, TypeOK, LoopType, LoopShape, Owned
<1>3. attempts[t] \in 0..MaxAttempts /\ step[t] \in Nat /\ attempts[t] # MaxAttempts
  BY <1>2 DEF IInv, TypeOK, RowType, ExclusiveLease, CallsAccounted
<1>4. calls[t] <= attempts[t] /\ sent[t] = doubtful[t]
  BY <1>2 DEF IInv, CallsInHand, SendInHand
<1>5. faults' \in 0..MaxFaults
  BY FaultsType DEF RequeueEarly, IInv
<1> QED
  BY <1>1, <1>2, <1>3, <1>4, <1>5, ReleaseIInv DEF RequeueRow, RequeueEarly

\* Calling Send for the current task.
LEMMA SendIInv ==
    ASSUME IInv, NEW w \in Workers, SendHttp(w) \/ SendLog(w)
    PROVE  IInv'
<1>1. PICK t \in cur[w], taken \in BOOLEAN, delivered \in BOOLEAN :
        /\ SendTo(w, t, taken, delivered)
        /\ ChannelOf[t] \in HttpChannels => (delivered => taken)
  BY DEF SendHttp, SendLog
<1>2. /\ pc[w] = "send"
      /\ UNCHANGED <<channel, rowVars, batch, cur, seen, seenStep, gaveBack, cancelled, faults>>
  BY DEF SendHttp, SendLog
<1>3. t \in Tasks /\ cur[w] = {t} /\ ~gaveBack[w] /\ t \in Owned(w) /\ t \notin batch[w]
  BY <1>2 DEF IInv, TypeOK, LoopType, LoopShape, Busy, Owned
<1>4. status[t] = "running" /\ \A v \in Workers : v # w => t \notin Owned(v)
  BY <1>3 DEF IInv, ExclusiveLease
<1>5. /\ calls[t] \in Nat /\ attempts[t] \in 0..MaxAttempts /\ attempts[t] # MaxAttempts
      /\ calls[t] <= attempts[t] /\ sent[t] = doubtful[t] /\ sent[t] \in Nat
      /\ channel[ChannelOf[t]] = "enabled"
  BY <1>2, <1>3, <1>4
     DEF IInv, TypeOK, RowType, SendType, CallsInHand, SendInHand, CallsAccounted, ChannelRead
<1>6. /\ calls' = [calls EXCEPT ![t] = calls[t] + 1]
      /\ sent' = [sent EXCEPT ![t] = IF taken THEN sent[t] + 1 ELSE sent[t]]
      /\ doubtful' = [doubtful EXCEPT ![t] = IF taken /\ ~delivered THEN doubtful[t] + 1
                                             ELSE doubtful[t]]
      /\ pc' = [pc EXCEPT ![w] = IF delivered THEN "complete" ELSE "fail"]
  BY <1>1 DEF SendTo, AfterSend, GoTo
<1>7. TypeOK'
  BY <1>2, <1>3, <1>5, <1>6 DEF IInv, TypeOK, RowType, LoopType, SendType, Steps, rowVars
<1>8. LoopShape'
  BY <1>2, <1>6 DEF IInv, TypeOK, LoopType, LoopShape, Busy
<1>9. ExclusiveLease' /\ LockFollowsStatus' /\ FreshBackoff'
  BY <1>2 DEF IInv, ExclusiveLease, LockFollowsStatus, FreshBackoff, Owned, rowVars
<1>10. CallsInHand'
  BY <1>2, <1>3, <1>4, <1>6
     DEF IInv, TypeOK, LoopType, SendType, LoopShape, CallsInHand, Owned, rowVars
<1>11. CallsAccounted'
  <2>1. calls[t] + 1 <= attempts[t] + 1 /\ calls[t] + 1 <= MaxAttempts
    BY <1>5, DeliveryAssumption DEF DeliveryAssumption
  <2> QED
    BY <1>2, <1>3, <1>4, <1>6, <2>1 DEF IInv, TypeOK, SendType, CallsAccounted, rowVars
<1>12. SendInHand'
  <2>1. \A v \in Workers : v # w => \A u \in batch[v] \cup cur[v] : u = t => gaveBack[v]
    BY <1>4 DEF Owned
  <2>2. \A v \in Workers : gaveBack[v] => pc[v] = "fail"
    BY DEF IInv, LoopShape
  <2>3. \A v \in Workers : \A u \in batch[v] : u # t
    BY <1>3, <1>4 DEF Owned
  <2> QED
    BY <1>1, <1>2, <1>3, <1>5, <1>6, <2>1, <2>2, <2>3
       DEF IInv, TypeOK, LoopType, SendType, SendInHand
<1>13. DeliveryAccounted'
  BY <1>2, <1>3, <1>4, <1>5, <1>6 DEF IInv, TypeOK, SendType, DeliveryAccounted, rowVars
<1>14. ChannelRead' /\ OnlyEnabledReceive'
  BY <1>2, <1>3, <1>5, <1>6 DEF IInv, TypeOK, LoopType, SendType, ChannelRead, OnlyEnabledReceive
<1> QED
  BY <1>7, <1>8, <1>9, <1>10, <1>11, <1>12, <1>13, <1>14 DEF IInv

\* Moving the current task forward without touching the table or the outside.
LEMMA MoveIInv ==
    ASSUME IInv, NEW w \in Workers,
           \/ pc[w] = "check" /\ GoTo(w, "channel")
           \/ pc[w] \in {"check", "channel"} /\ GoTo(w, "fail")
           \/ /\ pc[w] = "channel" /\ GoTo(w, "send")
              /\ \A t \in cur[w] : channel[ChannelOf[t]] = "enabled",
           UNCHANGED <<channel, rowVars, batch, cur, seen, seenStep, gaveBack, cancelled, sendVars>>,
           faults' \in 0..MaxFaults
    PROVE  IInv'
<1> USE DEF IInv, TypeOK, LoopType, GoTo, rowVars, sendVars
<1>1. TypeOK'
  BY DEF RowType, SendType, Steps
<1>2. LoopShape'
  <2>1. \A v \in Workers : v # w => pc'[v] = pc[v]
    OBVIOUS
  <2>2. pc[w] \in Busy /\ pc'[w] \in Busy /\ ~gaveBack[w]
    BY DEF LoopShape, Busy
  <2> QED
    BY <2>1, <2>2 DEF LoopShape
<1>3. ExclusiveLease' /\ LockFollowsStatus' /\ FreshBackoff'
  BY DEF ExclusiveLease, LockFollowsStatus, FreshBackoff, Owned
<1>4. CallsInHand' /\ CallsAccounted'
  BY DEF CallsInHand, CallsAccounted
<1>5. SendInHand' /\ DeliveryAccounted'
  BY DEF SendInHand, DeliveryAccounted
<1>6. ChannelRead' /\ OnlyEnabledReceive'
  BY DEF ChannelRead, OnlyEnabledReceive
<1> QED
  BY <1>1, <1>2, <1>3, <1>4, <1>5, <1>6

\* Starting the next task of the batch.
LEMMA BeginTaskIInv ==
    ASSUME IInv, NEW w \in Workers, BeginTask(w)
    PROVE  IInv'
<1>1. PICK t \in batch[w] : /\ batch' = [batch EXCEPT ![w] = @ \ {t}]
                            /\ cur' = [cur EXCEPT ![w] = {t}]
  BY DEF BeginTask
<1>2. /\ pc[w] = "loop" /\ pc' = [pc EXCEPT ![w] = "check"]
      /\ UNCHANGED <<channel, rowVars, seen, seenStep, gaveBack, cancelled, sendVars, faults>>
  BY DEF BeginTask, GoTo
<1>3. t \in Tasks /\ cur[w] = {} /\ ~gaveBack[w]
  BY <1>2 DEF IInv, TypeOK, LoopType, LoopShape, Busy
<1> USE <1>1, <1>2, <1>3 DEF IInv, TypeOK, LoopType, rowVars, sendVars
<1>4. TypeOK'
  BY DEF RowType, SendType, Steps
<1>5. LoopShape'
  BY DEF LoopShape, Busy
<1>6. ExclusiveLease' /\ LockFollowsStatus' /\ FreshBackoff'
  BY DEF ExclusiveLease, LockFollowsStatus, FreshBackoff, Owned
<1>7. CallsInHand' /\ CallsAccounted'
  BY DEF CallsInHand, CallsAccounted
<1>8. SendInHand' /\ DeliveryAccounted'
  BY DEF SendInHand, DeliveryAccounted
<1>9. ChannelRead' /\ OnlyEnabledReceive'
  BY DEF ChannelRead, OnlyEnabledReceive
<1> QED
  BY <1>4, <1>5, <1>6, <1>7, <1>8, <1>9

\* A worker that leaves, or ends its batch, holds nothing any more.
LEMMA LeaveIInv ==
    ASSUME IInv, NEW w \in Workers, Leave(w) \/ BatchDone(w)
    PROVE  IInv'
<1>1. /\ pc' = [pc EXCEPT ![w] = "gone"] \/ pc' = [pc EXCEPT ![w] = "idle"]
      /\ batch' = [batch EXCEPT ![w] = {}]
      /\ cur' = [cur EXCEPT ![w] = {}]
      /\ gaveBack' = [gaveBack EXCEPT ![w] = FALSE]
      /\ UNCHANGED <<channel, rowVars, seen, seenStep, cancelled, sendVars, faults>>
  <2>1. CASE BatchDone(w)
    <3>1. batch[w] = {} /\ cur[w] = {} /\ gaveBack[w] = FALSE
      BY <2>1 DEF BatchDone, IInv, TypeOK, LoopType, LoopShape, Busy
    <3> QED
      BY <2>1, <3>1 DEF BatchDone, GoTo, IInv, TypeOK, LoopType
  <2> QED
    BY <2>1 DEF Leave, GoTo
<1> USE <1>1 DEF IInv, TypeOK, LoopType, rowVars, sendVars
<1>2. TypeOK'
  BY DEF RowType, SendType, Steps
<1>3. LoopShape'
  BY DEF LoopShape, Busy
<1>4. ExclusiveLease' /\ LockFollowsStatus' /\ FreshBackoff'
  BY DEF ExclusiveLease, LockFollowsStatus, FreshBackoff, Owned
<1>5. CallsInHand' /\ CallsAccounted'
  BY DEF CallsInHand, CallsAccounted
<1>6. SendInHand' /\ DeliveryAccounted'
  BY DEF SendInHand, DeliveryAccounted
<1>7. ChannelRead' /\ OnlyEnabledReceive'
  BY DEF ChannelRead, OnlyEnabledReceive
<1> QED
  BY <1>2, <1>3, <1>4, <1>5, <1>6, <1>7

-----------------------------------------------------------------------------
(* Every step preserves the invariant. *)

\* Every step keeps the invariant.
LEMMA NextIInv == IInv /\ [Next]_vars => IInv'
<1> SUFFICES ASSUME IInv, [Next]_vars PROVE IInv'
  OBVIOUS
<1>1. ASSUME NEW c \in Channels, CreateChannel(c) PROVE IInv'
  <2> USE <1>1, DeliveryAssumption DEF CreateChannel, IInv, rowVars, loopVars, sendVars
  <2>1. TypeOK' /\ ChannelRead' /\ OnlyEnabledReceive'
    BY DEF TypeOK, RowType, LoopType, SendType, ChannelRead, OnlyEnabledReceive,
           DeliveryAssumption
  <2>2. LoopShape' /\ ExclusiveLease' /\ LockFollowsStatus' /\ CallsInHand' /\ CallsAccounted'
        /\ SendInHand' /\ DeliveryAccounted' /\ FreshBackoff'
    BY DEF LoopShape, ExclusiveLease, LockFollowsStatus, CallsInHand, CallsAccounted,
           SendInHand, DeliveryAccounted, FreshBackoff, Owned
  <2> QED
    BY <2>1, <2>2
<1>2. ASSUME NEW t \in Tasks, CreateTask(t) PROVE IInv'
  <2> USE <1>2 DEF CreateTask, IInv, loopVars, sendVars
  <2>1. TypeOK' /\ LockFollowsStatus' /\ CallsAccounted' /\ DeliveryAccounted'
    BY DEF TypeOK, RowType, LoopType, SendType, Statuses, LockFollowsStatus, CallsAccounted,
           DeliveryAccounted
  <2>2. ExclusiveLease' /\ FreshBackoff'
    BY DEF TypeOK, RowType, ExclusiveLease, FreshBackoff, Owned
  <2>3. LoopShape' /\ CallsInHand' /\ SendInHand' /\ ChannelRead' /\ OnlyEnabledReceive'
    BY DEF LoopShape, CallsInHand, SendInHand, ChannelRead, OnlyEnabledReceive
  <2> QED
    BY <2>1, <2>2, <2>3
<1>3. CASE Tick
  <2>1. wait' \in [Tasks -> 0..MaxDelay] /\ lease' \in [Tasks -> 0..LockTTL]
    BY <1>3, LessType, DeliveryAssumption DEF Tick, IInv, TypeOK, RowType, DeliveryAssumption
  <2>2. \A t \in Tasks : lease'[t] <= lease[t]
    BY <1>3, LessType, DeliveryAssumption DEF Tick, IInv, TypeOK, RowType, DeliveryAssumption
  <2> USE <1>3 DEF Tick, IInv, loopVars, sendVars
  <2>3. TypeOK'
    BY <2>1 DEF TypeOK, RowType, LoopType, SendType
  <2>4. LockFollowsStatus'
    BY <2>1, <2>2, DeliveryAssumption DEF TypeOK, RowType, LockFollowsStatus, DeliveryAssumption
  <2>5. LoopShape' /\ ExclusiveLease' /\ CallsInHand' /\ CallsAccounted' /\ SendInHand'
        /\ DeliveryAccounted' /\ ChannelRead' /\ OnlyEnabledReceive' /\ FreshBackoff'
    BY DEF LoopShape, ExclusiveLease, CallsInHand, CallsAccounted, SendInHand,
           DeliveryAccounted, ChannelRead, OnlyEnabledReceive, FreshBackoff, Owned
  <2> QED
    BY <2>3, <2>4, <2>5
<1>4. ASSUME NEW w \in Workers, Poll(w) PROVE IInv'
  <2>1. PICK S \in SUBSET {t \in Tasks : Due(t)} :
          /\ LockRows(w, S)
          /\ batch' = [batch EXCEPT ![w] = S]
          /\ seen' = [seen EXCEPT ![w] = OnRows(S, attempts)]
          /\ seenStep' = [seenStep EXCEPT ![w] = OnRows(S, step)]
    BY <1>4 DEF Poll
  <2> QED
    BY <1>4, <2>1, LockRowsIInv DEF Poll, IInv, TypeOK
<1>5. ASSUME NEW w \in Workers, PollAckLost(w) PROVE IInv'
  <2>1. PICK S \in SUBSET {t \in Tasks : Due(t)} : LockRows(w, S)
    BY <1>5 DEF PollAckLost
  <2>2. faults' \in 0..MaxFaults
    BY <1>5, FaultsType DEF PollAckLost, IInv
  <2> QED
    BY <1>5, <2>1, <2>2, LockRowsIInv DEF PollAckLost, loopVars
<1>6. ASSUME NEW w \in Workers,
             CheckAvailable(w) \/ RequeueError(w) \/ GetChannel(w) \/ GetChannelError(w)
      PROVE  IInv'
  <2>1. faults' \in 0..MaxFaults
    BY <1>6, FaultsType DEF CheckAvailable, RequeueError, GetChannel, GetChannelError, IInv, TypeOK
  <2>2. pc[w] = "channel" => \E t \in Tasks : cur[w] = {t}
    BY DEF IInv, LoopShape, Busy
  <2> QED
    BY <1>6, <2>1, <2>2, MoveIInv
       DEF CheckAvailable, RequeueError, GetChannel, GetChannelError, Enabled
<1>7. ASSUME NEW w \in Workers, Complete(w) \/ CompleteError(w) PROVE IInv'
  <2>1. faults' \in 0..MaxFaults
    BY <1>7, FaultsType DEF Complete, CompleteError, IInv, TypeOK
  <2> QED
    BY <1>7, <2>1, CompleteRowIInv, DropTaskIInv DEF Complete, CompleteError, Busy
<1>8. ASSUME NEW w \in Workers, Fail(w) \/ FailError(w) PROVE IInv'
  <2>1. faults' \in 0..MaxFaults
    BY <1>8, FaultsType DEF Fail, FailError, IInv, TypeOK
  <2> QED
    BY <1>8, <2>1, FailPolledIInv, DropTaskIInv DEF Fail, FailError, Busy
<1>9. ASSUME NEW w \in Workers, Exit(w) \/ Crash(w) \/ BatchDone(w) PROVE IInv'
  BY <1>9, LeaveIInv DEF Exit, Crash
<1>10. CASE UNCHANGED vars \/ \E w \in Workers : Stop(w)
  <2> USE <1>10 DEF Stop, vars, rowVars, loopVars, sendVars, IInv
  <2>1. TypeOK'
    BY DEF TypeOK, RowType, LoopType, SendType
  <2>2. LoopShape' /\ ExclusiveLease' /\ LockFollowsStatus' /\ CallsInHand' /\ CallsAccounted'
        /\ SendInHand' /\ DeliveryAccounted' /\ ChannelRead' /\ OnlyEnabledReceive'
        /\ FreshBackoff'
    BY DEF LoopShape, ExclusiveLease, LockFollowsStatus, CallsInHand, CallsAccounted,
           SendInHand, DeliveryAccounted, ChannelRead, OnlyEnabledReceive, FreshBackoff, Owned
  <2> QED
    BY <2>1, <2>2
<1> QED
  BY <1>1, <1>2, <1>3, <1>4, <1>5, <1>6, <1>7, <1>8, <1>9, <1>10, RequeueRowIInv, SendIInv,
     BeginTaskIInv DEF Next, WorkerStep

-----------------------------------------------------------------------------
(* Theorems. *)

\* The inductive invariant holds in every reachable state.
THEOREM Invariant == Spec => []IInv
<1>1. Init => IInv
  BY InitIInv
<1>2. IInv /\ [Next]_vars => IInv'
  BY NextIInv
<1> QED
  BY <1>1, <1>2, PTL DEF Spec

\* The state keeps its type: in particular attempts never pass max_attempts.
THEOREM TypeCorrect == Spec => []TypeOK
<1>1. IInv => TypeOK
  BY DEF IInv
<1> QED
  BY <1>1, Invariant, PTL

\* What a worker may still write to is leased to it and nobody else, and a task it
\* gave back is out of its reach.
THEOREM LeasesExclusive == Spec => []ExclusiveLease
<1>1. IInv => ExclusiveLease
  BY DEF IInv
<1> QED
  BY <1>1, Invariant, PTL

\* Locks follow the status, so the locked_until condition of PollTasks is redundant.
THEOREM LocksFollowStatus == Spec => []LockFollowsStatus
<1>1. IInv => LockFollowsStatus
  BY DEF IInv
<1> QED
  BY <1>1, Invariant, PTL

\* Send is called at most max_attempts times for a task, once per counted attempt.
THEOREM SendCallsAccounted == Spec => []CallsAccounted
<1>1. IInv => CallsAccounted
  BY DEF IInv
<1> QED
  BY <1>1, Invariant, PTL

\* A message is repeated only after an answer that hid its delivery, and a completed
\* webhook task has been delivered.
THEOREM DeliveriesAccounted == Spec => []DeliveryAccounted
<1>1. IInv => DeliveryAccounted
  BY DEF IInv
<1> QED
  BY <1>1, Invariant, PTL

\* Send is never called for a channel that is missing or disabled.
THEOREM DisabledChannelsSilent == Spec => []OnlyEnabledReceive
<1>1. IInv => OnlyEnabledReceive
  BY DEF IInv
<1> QED
  BY <1>1, Invariant, PTL

\* The attempts and escalation step read by the poll are those of the row whenever
\* the worker may still write to it.
THEOREM BackoffIsFresh == Spec => []FreshBackoff
<1>1. IInv => FreshBackoff
  BY DEF IInv
<1> QED
  BY <1>1, Invariant, PTL

\* A completed or failed notification is never sent again and never changes.
THEOREM SettledTasksStay == Spec => SettledStays
<1>1. ASSUME IInv, [Next]_vars, NEW t \in Tasks, Settled(t)
      PROVE  status'[t] = status[t] /\ attempts'[t] = attempts[t] /\ calls'[t] = calls[t]
  <2> DEFINE Same == status'[t] = status[t] /\ attempts'[t] = attempts[t] /\ calls'[t] = calls[t]
  <2> USE <1>1 DEF Settled, rowVars, sendVars
  <2>1. \A w \in Workers : t \notin Owned(w)
    BY DEF IInv, ExclusiveLease
  <2>2. ASSUME NEW c \in Channels, CreateChannel(c) PROVE Same
    BY <2>2 DEF CreateChannel
  <2>3. ASSUME NEW u \in Tasks, CreateTask(u) PROVE Same
    BY <2>3 DEF CreateTask, IInv, TypeOK, RowType
  <2>4. CASE Tick
    BY <2>4 DEF Tick
  <2>5. ASSUME NEW w \in Workers, Poll(w) \/ PollAckLost(w) PROVE Same
    BY <2>5 DEF Poll, PollAckLost, LockRows, Due
  <2>6. ASSUME NEW w \in Workers, BatchDone(w) \/ BeginTask(w) \/ CheckAvailable(w)
                 \/ RequeueError(w) \/ GetChannel(w) \/ GetChannelError(w)
        PROVE  Same
    BY <2>6 DEF BatchDone, BeginTask, CheckAvailable, RequeueError, GetChannel, GetChannelError
  <2>7. \A w \in Workers : t \in cur[w] => lockedBy[t] # w
    BY <2>1 DEF IInv, ExclusiveLease, Owned
  <2>8. ASSUME NEW w \in Workers, RequeueEarly(w) PROVE Same
    BY <2>7, <2>8 DEF RequeueEarly, RequeueRow, Release, IInv, TypeOK, RowType
  <2>9. ASSUME NEW w \in Workers, SendHttp(w) \/ SendLog(w) PROVE Same
    <3>1. t \notin cur[w]
      BY <2>1, <2>9 DEF SendHttp, SendLog, Owned, IInv, LoopShape
    <3> QED
      BY <2>9, <3>1 DEF SendHttp, SendLog, SendTo, IInv, TypeOK, SendType
  <2>10. ASSUME NEW w \in Workers, Complete(w) \/ CompleteError(w) PROVE Same
    BY <2>7, <2>10 DEF Complete, CompleteError, CompleteRow, Release, IInv, TypeOK, RowType
  <2>11. ASSUME NEW w \in Workers, Fail(w) \/ FailError(w) PROVE Same
    BY <2>7, <2>11 DEF Fail, FailError, FailPolled, FailRow, Release, IInv, TypeOK, RowType
  <2>12. ASSUME NEW w \in Workers, Exit(w) \/ Stop(w) \/ Crash(w) PROVE Same
    BY <2>12 DEF Exit, Stop, Crash, Leave
  <2>13. CASE UNCHANGED vars
    BY <2>13 DEF vars
  <2> QED
    BY <2>2, <2>3, <2>4, <2>5, <2>6, <2>8, <2>9, <2>10, <2>11, <2>12, <2>13
       DEF Next, WorkerStep
<1>2. IInv /\ [Next]_vars =>
        [\A t \in Tasks : status[t] \in {"completed", "failed"} =>
           /\ status'[t] = status[t]
           /\ attempts'[t] = attempts[t]
           /\ calls'[t] = calls[t]]_vars
  BY <1>1 DEF Settled
<1> QED
  BY <1>2, Invariant, PTL DEF Spec, SettledStays

\* The table and its workers implement the abstract lifecycle of a task.
THEOREM Refinement == Spec => ImplementsLifecycle
<1>1. Init => Lifecycle!Init
  BY DEF Init, Lifecycle!Init
<1>2. IInv /\ [Next]_vars => [Lifecycle!Next]_(Lifecycle!vars)
  <2> SUFFICES ASSUME IInv, [Next]_vars PROVE [Lifecycle!Next]_(Lifecycle!vars)
    OBVIOUS
  <2> USE DEF Lifecycle!vars, rowVars
  <2>1. ASSUME NEW t \in Tasks, CreateTask(t) PROVE Lifecycle!Submit(t)
    BY <2>1 DEF CreateTask, Lifecycle!Submit
  <2>2. ASSUME NEW w \in Workers, Poll(w) \/ PollAckLost(w)
        PROVE  \E S \in SUBSET Tasks : Lifecycle!Take(w, S)
    BY <2>2 DEF Poll, PollAckLost, LockRows, Due, Lifecycle!Take
  <2>3. ASSUME NEW w \in Workers, NEW t \in cur[w], lockedBy[t] = w
        PROVE  /\ t \in Owned(w) /\ t \in Tasks
               /\ status[t] = "running" /\ attempts[t] \in 0..MaxAttempts /\ attempts[t] < MaxAttempts
    <3>1. t \in Owned(w) /\ t \in Tasks
      BY <2>3 DEF IInv, TypeOK, LoopType, ExclusiveLease, Owned
    <3>2. status[t] = "running" /\ attempts[t] \in 0..MaxAttempts /\ attempts[t] # MaxAttempts
      BY <3>1 DEF IInv, TypeOK, RowType, ExclusiveLease, CallsAccounted
    <3> QED
      BY <3>1, <3>2, DeliveryAssumption DEF DeliveryAssumption
  <2>4. ASSUME NEW w \in Workers, Complete(w) \/ CompleteError(w)
        PROVE  \/ \E t \in Tasks : Lifecycle!Finish(t)
               \/ UNCHANGED Lifecycle!vars
    <3>1. ASSUME NEW t \in cur[w], CompleteRow(w, t), lockedBy[t] = w
          PROVE  Lifecycle!Finish(t)
      <4>1. attempts' = attempts
        BY <2>3, <3>1 DEF CompleteRow, Release, IInv, TypeOK, RowType
      <4> QED
        BY <2>3, <3>1, <4>1 DEF CompleteRow, Release, Lifecycle!Finish
    <3>2. ASSUME NEW t \in cur[w], CompleteRow(w, t), lockedBy[t] # w
          PROVE  UNCHANGED rowVars
      BY <3>2 DEF CompleteRow, Release
    <3> QED
      BY <2>3, <2>4, <3>1, <3>2 DEF Complete, CompleteError
  <2>5. ASSUME NEW w \in Workers, RequeueEarly(w)
        PROVE  \/ \E t \in Tasks : Lifecycle!Yield(t)
               \/ UNCHANGED Lifecycle!vars
    <3>1. PICK t \in cur[w], delay \in 1..MaxDelay : RequeueRow(w, t, delay)
      BY <2>5 DEF RequeueEarly
    <3>2. CASE lockedBy[t] = w
      <4>1. attempts' = attempts
        BY <2>3, <3>1, <3>2 DEF RequeueRow, Release, IInv, TypeOK, RowType
      <4> QED
        BY <2>3, <3>1, <3>2, <4>1 DEF RequeueRow, Release, Lifecycle!Yield
    <3>3. CASE lockedBy[t] # w
      BY <3>1, <3>3 DEF RequeueRow, Release
    <3> QED
      BY <3>2, <3>3
  <2>6. ASSUME NEW w \in Workers, Fail(w) \/ FailError(w)
        PROVE  \/ \E t \in Tasks : Lifecycle!Retry(t) \/ Lifecycle!GiveUp(t)
               \/ UNCHANGED Lifecycle!vars
    <3>1. CASE UNCHANGED rowVars
      BY <3>1
    <3>2. CASE FailPolled(w)
      <4>1. PICK t \in cur[w] : FailRow(w, t, BackoffDelay(seen[w][t]), seenStep[w][t])
        BY <3>2 DEF FailPolled
      <4>2. CASE lockedBy[t] # w
        BY <4>1, <4>2 DEF FailRow, Release
      <4>3. CASE lockedBy[t] = w
        <5>1. /\ t \in Tasks /\ status[t] = "running"
              /\ attempts[t] \in 0..MaxAttempts /\ attempts[t] < MaxAttempts
          BY <2>3, <4>3
        <5>2. CASE attempts[t] + 1 < MaxAttempts
          <6>1. AfterFailure(t) = "pending"
            BY <5>1, <5>2, DeliveryAssumption DEF AfterFailure, DeliveryAssumption
          <6> QED
            BY <4>1, <4>3, <5>1, <5>2, <6>1 DEF FailRow, Release, Lifecycle!Retry
        <5>3. CASE attempts[t] + 1 = MaxAttempts
          <6>1. AfterFailure(t) = "failed"
            BY <5>1, <5>3, DeliveryAssumption DEF AfterFailure, DeliveryAssumption
          <6> QED
            BY <4>1, <4>3, <5>1, <5>3, <6>1 DEF FailRow, Release, Lifecycle!GiveUp
        <5> QED
          BY <5>1, <5>2, <5>3, DeliveryAssumption DEF DeliveryAssumption
      <4> QED
        BY <4>2, <4>3
    <3> QED
      BY <2>6, <3>1, <3>2 DEF Fail, FailError
  <2>7. ASSUME \/ Tick
               \/ \E c \in Channels : CreateChannel(c)
               \/ \E w \in Workers : \/ BatchDone(w) \/ BeginTask(w) \/ CheckAvailable(w)
                                     \/ RequeueError(w) \/ GetChannel(w) \/ GetChannelError(w)
                                     \/ SendHttp(w) \/ SendLog(w)
                                     \/ Exit(w) \/ Stop(w) \/ Crash(w)
               \/ UNCHANGED vars
        PROVE  UNCHANGED Lifecycle!vars
    BY <2>7 DEF Tick, CreateChannel, BatchDone, BeginTask, CheckAvailable, RequeueError,
       GetChannel, GetChannelError, SendHttp, SendLog, Exit, Stop, Crash, Leave, vars
  <2> QED
    BY <2>1, <2>2, <2>4, <2>5, <2>6, <2>7 DEF Next, WorkerStep, Lifecycle!Next
<1> QED
  BY <1>1, <1>2, Invariant, PTL DEF Spec, ImplementsLifecycle, Lifecycle!Spec
=============================================================================
