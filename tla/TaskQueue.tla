------------------------------ MODULE TaskQueue ------------------------------
(***************************************************************************)
(* The evaluation queue: rows of queue_items (internal/queue) and the      *)
(* worker loops that poll them (queue.Handle, run by bootstrap's           *)
(* runEvaluationQueueWorker, one per process).                             *)
(*                                                                         *)
(* Every SQL statement is one atomic step, as PostgreSQL runs it; between  *)
(* two statements of a worker anything may happen: other workers, time,    *)
(* a database error, a shutdown signal, a crash.  A worker is an OWNER     *)
(* identity, drawn at random when a process starts, so a restarted process *)
(* is another element of Workers.                                          *)
(*                                                                         *)
(* Time is what is left of a delay: Tick takes one unit off every running  *)
(* countdown.  The payload, the topic (there is one, "evaluation") and the *)
(* order of due rows are left out: a poll takes any due rows up to its     *)
(* limit, which includes the choices SKIP LOCKED makes.                    *)
(***************************************************************************)
EXTENDS Naturals, FiniteSets

CONSTANTS
    Tasks,        \* rows that may be inserted
    Workers,      \* owner identities, one per process incarnation
    NoWorker,     \* locked_by = ''
    MaxAttempts,  \* max_attempts of every row (5 in the code)
    Limit,        \* LIMIT of a poll (10 in the code)
    LockTTL,      \* units a lease lasts
    MaxDelay,     \* cap on the backoff
    MayStop,      \* workers whose process may receive SIGTERM
    MayCrash,     \* workers whose process may die
    MaxFaults     \* bound on database errors in a behaviour

ASSUME QueueAssumption ==
    /\ NoWorker \notin Workers
    /\ MaxAttempts \in Nat \ {0}
    /\ Limit \in Nat
    /\ LockTTL \in Nat
    /\ MaxDelay \in Nat
    /\ MayStop \subseteq Workers
    /\ MayCrash \subseteq Workers
    /\ MaxFaults \in Nat

VARIABLES
    (* columns of queue_items *)
    status, attempts, lockedBy,
    wait,         \* units until available_at
    lease,        \* units until locked_until; 0 is also NULL
    (* a worker loop *)
    pc,           \* where the loop of a worker stands
    batch,        \* tasks it has polled and not begun
    cur,          \* tasks it is working on: at most one
    seen,         \* the attempts Service.Fail read for that task
    cancelled,    \* its context is cancelled
    (* bookkeeping of the model *)
    runs,         \* handler calls begun for a task
    faults        \* database errors so far

rowVars == <<status, attempts, lockedBy, wait, lease>>
loopVars == <<pc, batch, cur, seen>>
vars == <<rowVars, loopVars, cancelled, runs, faults>>

Statuses == {"absent", "pending", "running", "completed", "failed"}
Steps == {"idle", "loop", "handler", "complete", "load", "fail", "gone"}

Init ==
    /\ status = [t \in Tasks |-> "absent"]
    /\ attempts = [t \in Tasks |-> 0]
    /\ lockedBy = [t \in Tasks |-> NoWorker]
    /\ wait = [t \in Tasks |-> 0]
    /\ lease = [t \in Tasks |-> 0]
    /\ pc = [w \in Workers |-> "idle"]
    /\ batch = [w \in Workers |-> {}]
    /\ cur = [w \in Workers |-> {}]
    /\ seen = [w \in Workers |-> 0]
    /\ cancelled = [w \in Workers |-> FALSE]
    /\ runs = [t \in Tasks |-> 0]
    /\ faults = 0

-----------------------------------------------------------------------------
(* The statements of the repository. *)

Enqueue(t) ==
    /\ status[t] = "absent"
    /\ status' = [status EXCEPT ![t] = "pending"]
    /\ UNCHANGED <<attempts, lockedBy, wait, lease, loopVars, cancelled, runs, faults>>

\* (mutant) the status is not looked at: an expired lease is enough
DueAnyStatus(t) == status[t] # "absent" /\ wait[t] = 0 /\ lease[t] = 0

\* (mutant) off by one: a task is not polled for its last attempt
DueButLast(t) ==
    status[t] = "pending" /\ wait[t] = 0 /\ lease[t] = 0 /\ attempts[t] + 1 < MaxAttempts

\* The WHERE clause of Poll.
Due(t) == status[t] = "pending" /\ wait[t] = 0 /\ lease[t] = 0

\* The UPDATE of Poll: the selected rows are leased to the owner.
LockRows(w, S) ==
    /\ status' = [t \in Tasks |-> IF t \in S THEN "running" ELSE status[t]]
    /\ lockedBy' = [t \in Tasks |-> IF t \in S THEN w ELSE lockedBy[t]]
    /\ lease' = [t \in Tasks |-> IF t \in S THEN LockTTL ELSE lease[t]]
    /\ UNCHANGED <<attempts, wait>>

ClearLock(t) ==
    /\ lockedBy' = [lockedBy EXCEPT ![t] = NoWorker]
    /\ lease' = [lease EXCEPT ![t] = 0]

\* Complete: no row matches when the lock is not the owner's, and Handle takes
\* the ErrNotFound that results for success.
CompleteRow(w, t) ==
    \/ /\ lockedBy[t] = w
       /\ status' = [status EXCEPT ![t] = "completed"]
       /\ ClearLock(t)
       /\ UNCHANGED <<attempts, wait>>
    \/ /\ lockedBy[t] # w
       /\ UNCHANGED rowVars

\* The effect of Fail on a row, given the status it moves to.
FailTo(w, t, st, n, delay) ==
    \/ /\ lockedBy[t] = w
       /\ attempts' = [attempts EXCEPT ![t] = n]
       /\ status' = [status EXCEPT ![t] = st]
       /\ wait' = [wait EXCEPT ![t] = delay]
       /\ ClearLock(t)
    \/ /\ lockedBy[t] # w
       /\ UNCHANGED rowVars

\* (mutant) > for >= : one attempt too many
FailRowLate(w, t, delay) ==
    FailTo(w, t, IF attempts[t] + 1 > MaxAttempts THEN "failed" ELSE "pending",
           attempts[t] + 1, delay)

\* (mutant) the attempt is not counted
FailRowUncounted(w, t, delay) ==
    FailTo(w, t, IF attempts[t] + 1 >= MaxAttempts THEN "failed" ELSE "pending",
           attempts[t], delay)

\* Fail: the statement counts the attempt and decides by its own columns
\* whether the task is given up; the delay comes from the caller.
FailRow(w, t, delay) ==
    FailTo(w, t, IF attempts[t] + 1 >= MaxAttempts THEN "failed" ELSE "pending",
           attempts[t] + 1, delay)

\* The delay Service.Fail chooses: 1<<attempts, capped, and none for the last.
RetryDelay(n) ==
    IF n + 1 >= MaxAttempts THEN 0
    ELSE IF 2^n \in 0..MaxDelay THEN 2^n ELSE MaxDelay

-----------------------------------------------------------------------------
(* Time. *)

Less(f) == [t \in Tasks |-> IF f[t] > 0 THEN f[t] - 1 ELSE 0]

Tick ==
    /\ \E t \in Tasks : wait[t] > 0 \/ lease[t] > 0
    /\ wait' = Less(wait)
    /\ lease' = Less(lease)
    /\ UNCHANGED <<status, attempts, lockedBy, loopVars, cancelled, runs, faults>>

-----------------------------------------------------------------------------
(* The loop of a worker. *)

\* A statement may fail: always once the context is cancelled, and otherwise
\* as long as the budget of faults lasts.
StatementFails(w) ==
    \/ cancelled[w] /\ UNCHANGED faults
    \/ ~cancelled[w] /\ faults < MaxFaults /\ faults' = faults + 1

\* A failure the database reports only after it has applied the statement:
\* the acknowledgement is lost.
AckLost == faults < MaxFaults /\ faults' = faults + 1

\* The loop goes on with its next task.
NextTask(w) ==
    /\ pc' = [pc EXCEPT ![w] = "loop"]
    /\ cur' = [cur EXCEPT ![w] = {}]
    /\ UNCHANGED <<batch, seen>>

Poll(w) ==
    /\ pc[w] = "idle"
    /\ ~cancelled[w]
    /\ \E S \in SUBSET {t \in Tasks : Due(t)} :
         /\ S # {}
         /\ Cardinality(S) <= Limit
         /\ LockRows(w, S)
         /\ batch' = [batch EXCEPT ![w] = S]
    /\ pc' = [pc EXCEPT ![w] = "loop"]
    /\ UNCHANGED <<cur, seen, cancelled, runs, faults>>

\* The commit of Poll takes effect and returns an error: the rows are leased
\* and the worker does not know of them.
PollAckLost(w) ==
    /\ pc[w] = "idle"
    /\ ~cancelled[w]
    /\ AckLost
    /\ \E S \in SUBSET {t \in Tasks : Due(t)} :
         /\ S # {}
         /\ Cardinality(S) <= Limit
         /\ LockRows(w, S)
    /\ UNCHANGED <<loopVars, cancelled, runs>>

BatchDone(w) ==
    /\ pc[w] = "loop"
    /\ batch[w] = {}
    /\ pc' = [pc EXCEPT ![w] = "idle"]
    /\ UNCHANGED <<rowVars, batch, cur, seen, cancelled, runs, faults>>

BeginTask(w) ==
    /\ pc[w] = "loop"
    /\ \E t \in batch[w] :
         /\ batch' = [batch EXCEPT ![w] = @ \ {t}]
         /\ cur' = [cur EXCEPT ![w] = {t}]
         /\ runs' = [runs EXCEPT ![t] = @ + 1]
    /\ pc' = [pc EXCEPT ![w] = "handler"]
    /\ UNCHANGED <<rowVars, seen, cancelled, faults>>

HandlerReturns(w) ==
    /\ pc[w] = "handler"
    /\ \E next \in {"complete", "load"} : pc' = [pc EXCEPT ![w] = next]
    /\ UNCHANGED <<rowVars, batch, cur, seen, cancelled, runs, faults>>

Complete(w) ==
    /\ pc[w] = "complete"
    /\ ~cancelled[w]
    /\ \E t \in cur[w] : CompleteRow(w, t)
    /\ NextTask(w)
    /\ UNCHANGED <<cancelled, runs, faults>>

\* Handle drops the error and takes the next task.
CompleteError(w) ==
    /\ pc[w] = "complete"
    /\ \/ StatementFails(w) /\ UNCHANGED rowVars
       \/ AckLost /\ \E t \in cur[w] : CompleteRow(w, t)
    /\ NextTask(w)
    /\ UNCHANGED <<cancelled, runs>>

LoadTask(w) ==
    /\ pc[w] = "load"
    /\ ~cancelled[w]
    /\ \E t \in cur[w] : seen' = [seen EXCEPT ![w] = attempts[t]]
    /\ pc' = [pc EXCEPT ![w] = "fail"]
    /\ UNCHANGED <<rowVars, batch, cur, cancelled, runs, faults>>

\* PollByID fails: Fail returns before it has written anything, and Handle
\* ignores its error.
LoadError(w) ==
    /\ pc[w] = "load"
    /\ StatementFails(w)
    /\ NextTask(w)
    /\ UNCHANGED <<rowVars, cancelled, runs>>

Fail(w) ==
    /\ pc[w] = "fail"
    /\ ~cancelled[w]
    /\ \E t \in cur[w] : FailRow(w, t, RetryDelay(seen[w]))
    /\ NextTask(w)
    /\ UNCHANGED <<cancelled, runs, faults>>

FailError(w) ==
    /\ pc[w] = "fail"
    /\ \/ StatementFails(w) /\ UNCHANGED rowVars
       \/ AckLost /\ \E t \in cur[w] : FailRow(w, t, RetryDelay(seen[w]))
    /\ NextTask(w)
    /\ UNCHANGED <<cancelled, runs>>

\* SIGTERM cancels the context the loop passes to every statement; the loop
\* looks at it only between two batches.
Stop(w) ==
    /\ w \in MayStop
    /\ pc[w] # "gone"
    /\ ~cancelled[w]
    /\ cancelled' = [cancelled EXCEPT ![w] = TRUE]
    /\ UNCHANGED <<rowVars, loopVars, runs, faults>>

Leave(w) ==
    /\ pc' = [pc EXCEPT ![w] = "gone"]
    /\ batch' = [batch EXCEPT ![w] = {}]
    /\ cur' = [cur EXCEPT ![w] = {}]
    /\ UNCHANGED <<rowVars, seen, cancelled, runs, faults>>

Exit(w) == pc[w] = "idle" /\ cancelled[w] /\ Leave(w)

Crash(w) == w \in MayCrash /\ pc[w] # "gone" /\ Leave(w)

-----------------------------------------------------------------------------
\* What the code of a worker does; Stop and Crash come from outside.
WorkerStep(w) ==
    \/ Poll(w) \/ PollAckLost(w) \/ BatchDone(w) \/ BeginTask(w)
    \/ HandlerReturns(w)
    \/ Complete(w) \/ CompleteError(w)
    \/ LoadTask(w) \/ LoadError(w) \/ Fail(w) \/ FailError(w)
    \/ Exit(w)

Next ==
    \/ \E t \in Tasks : Enqueue(t)
    \/ Tick
    \/ \E w \in Workers : WorkerStep(w) \/ Stop(w) \/ Crash(w)

Spec == Init /\ [][Next]_vars

\* Time passes, and the ticker keeps a live loop running.
Fairness == WF_vars(Tick) /\ \A w \in Workers : WF_vars(WorkerStep(w))

FairSpec == Spec /\ Fairness

-----------------------------------------------------------------------------
(* Properties. *)

\* The type of the state.  It bounds attempts and allows one current task.
TypeOK ==
    /\ status \in [Tasks -> Statuses]
    /\ attempts \in [Tasks -> 0..MaxAttempts]
    /\ lockedBy \in [Tasks -> Workers \cup {NoWorker}]
    /\ wait \in [Tasks -> 0..MaxDelay]
    /\ lease \in [Tasks -> 0..LockTTL]
    /\ pc \in [Workers -> Steps]
    /\ batch \in [Workers -> SUBSET Tasks]
    /\ cur \in [Workers -> SUBSET Tasks]
    /\ seen \in [Workers -> 0..MaxAttempts]
    /\ cancelled \in [Workers -> BOOLEAN]
    /\ runs \in [Tasks -> Nat]
    /\ faults \in 0..MaxFaults

Busy == {"handler", "complete", "load", "fail"}

Holding(w) == batch[w] \cup cur[w]

\* Exclusive leases: what a worker still has to do is running and leased to it,
\* also when the lease has expired, so no two workers ever handle one task.
\* That is why Complete and Fail always match their row.
ExclusiveLease ==
    \A w \in Workers : \A t \in Holding(w) : status[t] = "running" /\ lockedBy[t] = w

\* A row has an owner exactly while it is running, and only then a lease: the
\* locked_until condition of Poll never decides anything.
LockFollowsStatus ==
    \A t \in Tasks :
        /\ lockedBy[t] # NoWorker <=> status[t] = "running"
        /\ lease[t] > 0 => status[t] = "running"

\* Handler calls are accounted for by the row: one per counted failure, one for
\* the success, and at most one more for a task that is running.  A task is
\* therefore handled at most max_attempts times, whatever fails in between.
RunsAccounted ==
    \A t \in Tasks :
        /\ status[t] \in {"absent", "pending", "failed"} => runs[t] = attempts[t]
        /\ status[t] = "completed" => runs[t] = attempts[t] + 1
        /\ status[t] = "running" => runs[t] \in attempts[t] .. attempts[t] + 1
        /\ status[t] = "failed" <=> attempts[t] = MaxAttempts
        /\ runs[t] <= MaxAttempts

\* Service.Fail decides on the delay from attempts it read in an earlier
\* statement; the UPDATE decides on the status from the column.  They agree:
\* the value read is never stale when it is used.
FreshBackoff ==
    \A w \in Workers : pc[w] = "fail" => \A t \in cur[w] : seen[w] = attempts[t]

\* A task that was completed or given up is never handled or changed again.
SettledStays ==
    [][\A t \in Tasks : status[t] \in {"completed", "failed"} =>
          /\ status'[t] = status[t]
          /\ attempts'[t] = attempts[t]
          /\ runs'[t] = runs[t]]_vars

\* The table implements the abstract task lifecycle.
Lifecycle == INSTANCE TaskLifecycle WITH Holders <- Workers, NoHolder <- NoWorker,
                                         holder <- lockedBy

ImplementsLifecycle == Lifecycle!Spec

Settled(t) == status[t] \in {"completed", "failed"}

\* Leased, and its owner will never come back to it.
Orphaned(t) == status[t] = "running" /\ t \notin UNION {Holding(w) : w \in Workers}

\* Every task that was queued is completed or given up.
EveryTaskSettles == \A t \in Tasks : status[t] = "pending" ~> Settled(t)

\* With faults, shutdowns and crashes, as long as one worker goes on, a queued
\* task is settled or it is orphaned: it is never left waiting.
SettlesOrOrphaned == \A t \in Tasks : status[t] = "pending" ~> Settled(t) \/ Orphaned(t)
=============================================================================
