------------------------ MODULE NotificationDelivery ------------------------
(***************************************************************************)
(* Delivery of notifications: rows of notification_tasks, the channels     *)
(* they go to, and the worker loops that send them (notification.Service,  *)
(* run by bootstrap's runNotificationWorker, one per process).             *)
(*                                                                         *)
(* As in TaskQueue every SQL statement is one atomic step and time is what *)
(* is left of a delay.  The HTTP call to a webhook has three outcomes: the *)
(* receiver took the message and says so, it did not take it, or it took   *)
(* it and the sender learns of an error all the same (a timeout, a reset,  *)
(* a cancelled context, an error status after the fact).  Email and        *)
(* PagerDuty channels write a log line and report success.  Templates and  *)
(* payloads are left out; so is cooldown_until, which nothing ever sets.   *)
(***************************************************************************)
EXTENDS Naturals, FiniteSets

CONSTANTS
    Tasks,        \* rows that may be inserted
    Workers,      \* worker identities, one per process incarnation
    NoWorker,     \* locked_by = ''
    Channels,     \* channel identities
    ChannelOf,    \* the channel_id of each task
    HttpChannels, \* channels of type webhook or slack
    MaxAttempts,  \* max_attempts of every row (5 in the code)
    Limit,        \* limit of a poll (20 in the code)
    LockTTL, MaxDelay,
    MayStop, MayCrash,
    MaxFaults     \* bound on database errors and clock steps in a behaviour

ASSUME DeliveryAssumption ==
    /\ NoWorker \notin Workers
    /\ ChannelOf \in [Tasks -> Channels]
    /\ HttpChannels \subseteq Channels
    /\ MaxAttempts \in Nat \ {0}
    /\ Limit \in Nat
    /\ LockTTL \in Nat
    /\ MaxDelay \in Nat
    /\ MayStop \subseteq Workers
    /\ MayCrash \subseteq Workers
    /\ MaxFaults \in Nat

VARIABLES
    channel,      \* notification_channels: absent, enabled or disabled
    (* columns of notification_tasks *)
    status, attempts, lockedBy,
    step,         \* escalation_step
    wait,         \* units until available_at
    lease,        \* units until locked_until; 0 is also NULL
    (* a worker loop *)
    pc, batch, cur,
    seen,         \* attempts of the rows it polled
    seenStep,     \* escalation_step of the rows it polled
    gaveBack,     \* it has requeued its current task
    cancelled,
    (* bookkeeping of the model *)
    calls,        \* calls of Send for a task
    sent,         \* messages the receiver took
    doubtful,     \* of these, the ones Send reported as an error
    faults

rowVars == <<status, attempts, lockedBy, step, wait, lease>>
loopVars == <<pc, batch, cur, seen, seenStep, gaveBack>>
sendVars == <<calls, sent, doubtful>>
vars == <<channel, rowVars, loopVars, cancelled, sendVars, faults>>

Statuses == {"absent", "pending", "running", "completed", "failed"}
Steps == {"idle", "loop", "check", "channel", "send", "complete", "fail", "gone"}

Init ==
    /\ channel = [c \in Channels |-> "absent"]
    /\ status = [t \in Tasks |-> "absent"]
    /\ attempts = [t \in Tasks |-> 0]
    /\ lockedBy = [t \in Tasks |-> NoWorker]
    /\ step = [t \in Tasks |-> 0]
    /\ wait = [t \in Tasks |-> 0]
    /\ lease = [t \in Tasks |-> 0]
    /\ pc = [w \in Workers |-> "idle"]
    /\ batch = [w \in Workers |-> {}]
    /\ cur = [w \in Workers |-> {}]
    /\ seen = [w \in Workers |-> [t \in Tasks |-> 0]]
    /\ seenStep = [w \in Workers |-> [t \in Tasks |-> 0]]
    /\ gaveBack = [w \in Workers |-> FALSE]
    /\ cancelled = [w \in Workers |-> FALSE]
    /\ calls = [t \in Tasks |-> 0]
    /\ sent = [t \in Tasks |-> 0]
    /\ doubtful = [t \in Tasks |-> 0]
    /\ faults = 0

-----------------------------------------------------------------------------
(* Statements of the repository. *)

\* A channel is created enabled or disabled and never changed afterwards:
\* UpdateChannel of the repository has no caller.
CreateChannel(c) ==
    /\ channel[c] = "absent"
    /\ \E s \in {"enabled", "disabled"} : channel' = [channel EXCEPT ![c] = s]
    /\ UNCHANGED <<rowVars, loopVars, cancelled, sendVars, faults>>

\* EnqueueAlert inserts one task per channel name of the rule; whether the
\* channel exists is not looked at.
CreateTask(t) ==
    /\ status[t] = "absent"
    /\ status' = [status EXCEPT ![t] = "pending"]
    /\ UNCHANGED <<channel, attempts, lockedBy, step, wait, lease, loopVars, cancelled,
                   sendVars, faults>>

\* (mutant) the status is not looked at: an expired lease is enough
DueAnyStatus(t) == status[t] # "absent" /\ wait[t] = 0 /\ lease[t] = 0

\* (mutant) the last attempt is never polled
DueButLast(t) ==
    status[t] = "pending" /\ wait[t] = 0 /\ lease[t] = 0 /\ attempts[t] + 1 < MaxAttempts

\* The WHERE clause of PollTasks.
Due(t) == status[t] = "pending" /\ wait[t] = 0 /\ lease[t] = 0

LockRows(w, S) ==
    /\ status' = [t \in Tasks |-> IF t \in S THEN "running" ELSE status[t]]
    /\ lockedBy' = [t \in Tasks |-> IF t \in S THEN w ELSE lockedBy[t]]
    /\ lease' = [t \in Tasks |-> IF t \in S THEN LockTTL ELSE lease[t]]
    /\ UNCHANGED <<attempts, step, wait>>

\* What the three statements that end a lease have in common: they match the
\* row by its owner, set its columns and clear the lock.
Release(w, t, st, n, esc, delay) ==
    \/ /\ lockedBy[t] = w
       /\ status' = [status EXCEPT ![t] = st]
       /\ attempts' = [attempts EXCEPT ![t] = n]
       /\ step' = [step EXCEPT ![t] = esc]
       /\ wait' = [wait EXCEPT ![t] = delay]
       /\ lockedBy' = [lockedBy EXCEPT ![t] = NoWorker]
       /\ lease' = [lease EXCEPT ![t] = 0]
    \/ /\ lockedBy[t] # w
       /\ UNCHANGED rowVars

CompleteRow(w, t) == Release(w, t, "completed", attempts[t], step[t], wait[t])

RequeueRow(w, t, delay) == Release(w, t, "pending", attempts[t], step[t], delay)

AfterFailure(t) == IF attempts[t] + 1 >= MaxAttempts THEN "failed" ELSE "pending"

\* (mutant) the attempt is not counted
FailRowUncounted(w, t, delay, esc) ==
    Release(w, t, AfterFailure(t), attempts[t], esc, delay)

\* (mutant) the owner is not looked at
FailRowAnyOwner(w, t, delay, esc) ==
    Release(lockedBy[t], t, AfterFailure(t), attempts[t] + 1, esc, delay)

FailRow(w, t, delay, esc) ==
    Release(w, t, AfterFailure(t), attempts[t] + 1, esc, delay)

\* backoffDelay: 1<<attempts, capped.
BackoffDelay(n) == IF 2^n \in 0..MaxDelay THEN 2^n ELSE MaxDelay

-----------------------------------------------------------------------------
(* Time. *)

Less(f) == [t \in Tasks |-> IF f[t] > 0 THEN f[t] - 1 ELSE 0]

Tick ==
    /\ \E t \in Tasks : wait[t] > 0 \/ lease[t] > 0
    /\ wait' = Less(wait)
    /\ lease' = Less(lease)
    /\ UNCHANGED <<channel, status, attempts, lockedBy, step, loopVars, cancelled, sendVars,
                   faults>>

-----------------------------------------------------------------------------
(* ProcessBatch and processTask. *)

StatementFails(w) ==
    \/ cancelled[w] /\ UNCHANGED faults
    \/ ~cancelled[w] /\ faults < MaxFaults /\ faults' = faults + 1

AckLost == faults < MaxFaults /\ faults' = faults + 1

GoTo(w, s) == pc' = [pc EXCEPT ![w] = s]

NextTask(w) ==
    /\ GoTo(w, "loop")
    /\ cur' = [cur EXCEPT ![w] = {}]
    /\ gaveBack' = [gaveBack EXCEPT ![w] = FALSE]
    /\ UNCHANGED <<batch, seen, seenStep>>

\* A column as read for the selected rows.
OnRows(S, column) == [t \in Tasks |-> IF t \in S THEN column[t] ELSE 0]

Poll(w) ==
    /\ pc[w] = "idle"
    /\ ~cancelled[w]
    /\ \E S \in SUBSET {t \in Tasks : Due(t)} :
         /\ S # {}
         /\ Cardinality(S) <= Limit
         /\ LockRows(w, S)
         /\ batch' = [batch EXCEPT ![w] = S]
         /\ seen' = [seen EXCEPT ![w] = OnRows(S, attempts)]
         /\ seenStep' = [seenStep EXCEPT ![w] = OnRows(S, step)]
    /\ GoTo(w, "loop")
    /\ UNCHANGED <<channel, cur, gaveBack, cancelled, sendVars, faults>>

\* The commit takes effect and its acknowledgement is lost.
PollAckLost(w) ==
    /\ pc[w] = "idle"
    /\ ~cancelled[w]
    /\ AckLost
    /\ \E S \in SUBSET {t \in Tasks : Due(t)} :
         /\ S # {}
         /\ Cardinality(S) <= Limit
         /\ LockRows(w, S)
    /\ UNCHANGED <<channel, loopVars, cancelled, sendVars>>

BatchDone(w) ==
    /\ pc[w] = "loop"
    /\ batch[w] = {}
    /\ GoTo(w, "idle")
    /\ UNCHANGED <<channel, rowVars, batch, cur, seen, seenStep, gaveBack, cancelled, sendVars, faults>>

BeginTask(w) ==
    /\ pc[w] = "loop"
    /\ \E t \in batch[w] :
         /\ batch' = [batch EXCEPT ![w] = @ \ {t}]
         /\ cur' = [cur EXCEPT ![w] = {t}]
    /\ GoTo(w, "check")
    /\ UNCHANGED <<channel, rowVars, seen, seenStep, gaveBack, cancelled, sendVars, faults>>

CheckAvailable(w) ==
    /\ pc[w] = "check"
    /\ GoTo(w, "channel")
    /\ UNCHANGED <<channel, rowVars, batch, cur, seen, seenStep, gaveBack, cancelled, sendVars, faults>>

\* The clock of the process was set back after the poll, so the task looks early:
\* it is requeued, and then failed like any other error of processTask.
RequeueEarly(w) ==
    /\ pc[w] = "check"
    /\ ~cancelled[w]
    /\ AckLost
    /\ \E t \in cur[w], delay \in 1..MaxDelay : RequeueRow(w, t, delay)
    /\ GoTo(w, "fail")
    /\ gaveBack' = [gaveBack EXCEPT ![w] = TRUE]
    /\ UNCHANGED <<channel, batch, cur, seen, seenStep, cancelled, sendVars>>

\* The same when the requeue itself fails: its error is ignored.
RequeueError(w) ==
    /\ pc[w] = "check"
    /\ AckLost
    /\ GoTo(w, "fail")
    /\ UNCHANGED <<channel, rowVars, batch, cur, seen, seenStep, gaveBack, cancelled, sendVars>>

Enabled(c) == channel[c] = "enabled"

\* GetChannel and the test of Enabled.
GetChannel(w) ==
    /\ pc[w] = "channel"
    /\ ~cancelled[w]
    /\ \E t \in cur[w] : GoTo(w, IF Enabled(ChannelOf[t]) THEN "send" ELSE "fail")
    /\ UNCHANGED <<channel, rowVars, batch, cur, seen, seenStep, gaveBack, cancelled, sendVars, faults>>

GetChannelError(w) ==
    /\ pc[w] = "channel"
    /\ StatementFails(w)
    /\ GoTo(w, "fail")
    /\ UNCHANGED <<channel, rowVars, batch, cur, seen, seenStep, gaveBack, cancelled, sendVars>>

\* What Send answers: "delivered" without an error, or anything else.
\* (mutant) a result that is not delivered is taken for success
AfterSendAlways(w, delivered) == GoTo(w, "complete")

AfterSend(w, delivered) == GoTo(w, IF delivered THEN "complete" ELSE "fail")

SendTo(w, t, taken, delivered) ==
    /\ calls' = [calls EXCEPT ![t] = @ + 1]
    /\ sent' = [sent EXCEPT ![t] = IF taken THEN @ + 1 ELSE @]
    /\ doubtful' = [doubtful EXCEPT ![t] = IF taken /\ ~delivered THEN @ + 1 ELSE @]
    /\ AfterSend(w, delivered)

\* A webhook takes the message or not; the answer may hide that it did.
SendHttp(w) ==
    /\ pc[w] = "send"
    /\ \E t \in cur[w] :
         /\ ChannelOf[t] \in HttpChannels
         /\ \/ ~cancelled[w] /\ SendTo(w, t, TRUE, TRUE)
            \/ SendTo(w, t, TRUE, FALSE)
            \/ SendTo(w, t, FALSE, FALSE)
    /\ UNCHANGED <<channel, rowVars, batch, cur, seen, seenStep, gaveBack, cancelled, faults>>

\* Any other channel is a log line.
SendLog(w) ==
    /\ pc[w] = "send"
    /\ \E t \in cur[w] :
         /\ ChannelOf[t] \notin HttpChannels
         /\ SendTo(w, t, FALSE, TRUE)
    /\ UNCHANGED <<channel, rowVars, batch, cur, seen, seenStep, gaveBack, cancelled, faults>>

Complete(w) ==
    /\ pc[w] = "complete"
    /\ ~cancelled[w]
    /\ \E t \in cur[w] : CompleteRow(w, t)
    /\ NextTask(w)
    /\ UNCHANGED <<channel, cancelled, sendVars, faults>>

\* The error is logged and the loop goes on.
CompleteError(w) ==
    /\ pc[w] = "complete"
    /\ \/ StatementFails(w) /\ UNCHANGED rowVars
       \/ AckLost /\ \E t \in cur[w] : CompleteRow(w, t)
    /\ NextTask(w)
    /\ UNCHANGED <<channel, cancelled, sendVars>>

\* FailTask with the backoff and the escalation step of the polled row.
FailPolled(w) ==
    \E t \in cur[w] : FailRow(w, t, BackoffDelay(seen[w][t]), seenStep[w][t])

Fail(w) ==
    /\ pc[w] = "fail"
    /\ ~cancelled[w]
    /\ FailPolled(w)
    /\ NextTask(w)
    /\ UNCHANGED <<channel, cancelled, sendVars, faults>>

\* The error is ignored.
FailError(w) ==
    /\ pc[w] = "fail"
    /\ \/ StatementFails(w) /\ UNCHANGED rowVars
       \/ AckLost /\ FailPolled(w)
    /\ NextTask(w)
    /\ UNCHANGED <<channel, cancelled, sendVars>>

\* SIGTERM; the loop looks at its context only between two batches.
Stop(w) ==
    /\ w \in MayStop
    /\ pc[w] # "gone"
    /\ ~cancelled[w]
    /\ cancelled' = [cancelled EXCEPT ![w] = TRUE]
    /\ UNCHANGED <<channel, rowVars, loopVars, sendVars, faults>>

Leave(w) ==
    /\ GoTo(w, "gone")
    /\ batch' = [batch EXCEPT ![w] = {}]
    /\ cur' = [cur EXCEPT ![w] = {}]
    /\ gaveBack' = [gaveBack EXCEPT ![w] = FALSE]
    /\ UNCHANGED <<channel, rowVars, seen, seenStep, cancelled, sendVars, faults>>

Exit(w) == pc[w] = "idle" /\ cancelled[w] /\ Leave(w)

Crash(w) == w \in MayCrash /\ pc[w] # "gone" /\ Leave(w)

-----------------------------------------------------------------------------
WorkerStep(w) ==
    \/ Poll(w) \/ PollAckLost(w) \/ BatchDone(w) \/ BeginTask(w)
    \/ CheckAvailable(w) \/ RequeueEarly(w) \/ RequeueError(w)
    \/ GetChannel(w) \/ GetChannelError(w) \/ SendHttp(w) \/ SendLog(w)
    \/ Complete(w) \/ CompleteError(w) \/ Fail(w) \/ FailError(w)
    \/ Exit(w)

Next ==
    \/ \E c \in Channels : CreateChannel(c)
    \/ \E t \in Tasks : CreateTask(t)
    \/ Tick
    \/ \E w \in Workers : WorkerStep(w) \/ Stop(w) \/ Crash(w)

Spec == Init /\ [][Next]_vars

Fairness == WF_vars(Tick) /\ \A w \in Workers : WF_vars(WorkerStep(w))

FairSpec == Spec /\ Fairness

-----------------------------------------------------------------------------
(* Properties. *)

RowType ==
    /\ status \in [Tasks -> Statuses]
    /\ attempts \in [Tasks -> 0..MaxAttempts]
    /\ lockedBy \in [Tasks -> Workers \cup {NoWorker}]
    /\ step \in [Tasks -> Nat]
    /\ wait \in [Tasks -> 0..MaxDelay]
    /\ lease \in [Tasks -> 0..LockTTL]

LoopType ==
    /\ pc \in [Workers -> Steps]
    /\ batch \in [Workers -> SUBSET Tasks]
    /\ cur \in [Workers -> SUBSET Tasks]
    /\ seen \in [Workers -> [Tasks -> 0..MaxAttempts]]
    /\ seenStep \in [Workers -> [Tasks -> Nat]]
    /\ gaveBack \in [Workers -> BOOLEAN]
    /\ cancelled \in [Workers -> BOOLEAN]

SendType ==
    /\ calls \in [Tasks -> Nat]
    /\ sent \in [Tasks -> Nat]
    /\ doubtful \in [Tasks -> Nat]

\* The type of the state: of the channels, the table, the loops and the calls.
TypeOK ==
    /\ channel \in [Channels -> {"absent", "enabled", "disabled"}]
    /\ RowType
    /\ LoopType
    /\ SendType
    /\ faults \in 0..MaxFaults

Holding(w) == batch[w] \cup cur[w]

\* The tasks a worker may still write to: all it holds, less the one it has
\* requeued and is about to fail.
Owned(w) == batch[w] \cup IF gaveBack[w] THEN {} ELSE cur[w]

\* Exclusive leases: what a worker may still write to is running and leased to
\* it, also when the lease has expired; a task it gave back is no longer leased
\* to it, so the FailTask that follows RequeueTask matches nothing, even when
\* another worker has taken the task in between.
ExclusiveLease ==
    \A w \in Workers :
        /\ \A t \in Owned(w) : status[t] = "running" /\ lockedBy[t] = w
        /\ gaveBack[w] => \A t \in cur[w] : lockedBy[t] # w

\* A row has an owner exactly while it is running, and only then a lease.
LockFollowsStatus ==
    \A t \in Tasks :
        /\ lockedBy[t] # NoWorker <=> status[t] = "running"
        /\ lease[t] > 0 => status[t] = "running"

\* Send is called at most once per counted attempt, and max_attempts times in
\* all, whatever fails in between.
CallsAccounted ==
    \A t \in Tasks :
        /\ status[t] \in {"absent", "pending", "failed"} => calls[t] <= attempts[t]
        /\ status[t] \in {"running", "completed"} => calls[t] <= attempts[t] + 1
        /\ status[t] = "failed" <=> attempts[t] = MaxAttempts
        /\ calls[t] <= MaxAttempts

\* A message is repeated only after a call of Send that hid a delivery behind an
\* error: a delivery known to have succeeded is never repeated, and a completed
\* task of a webhook has one.
DeliveryAccounted ==
    \A t \in Tasks :
        /\ status[t] \in {"absent", "pending", "failed"} => sent[t] = doubtful[t]
        /\ sent[t] \in doubtful[t] .. doubtful[t] + 1
        /\ status[t] = "completed" /\ ChannelOf[t] \in HttpChannels => sent[t] = doubtful[t] + 1

\* Only an enabled channel ever receives a message.
OnlyEnabledReceive == \A t \in Tasks : calls[t] > 0 => channel[ChannelOf[t]] = "enabled"

\* backoffDelay and FailTask use the attempts and the escalation step the poll
\* read, statements and an HTTP call earlier: the row still has them.
FreshBackoff ==
    \A w \in Workers : \A t \in Owned(w) :
        seen[w][t] = attempts[t] /\ seenStep[w][t] = step[t]

\* A delivered or abandoned notification is never sent again and never changes.
SettledStays ==
    [][\A t \in Tasks : status[t] \in {"completed", "failed"} =>
          /\ status'[t] = status[t]
          /\ attempts'[t] = attempts[t]
          /\ calls'[t] = calls[t]]_vars

\* The table implements the abstract task lifecycle.
Lifecycle == INSTANCE TaskLifecycle WITH Holders <- Workers, NoHolder <- NoWorker,
                                         holder <- lockedBy

ImplementsLifecycle == Lifecycle!Spec

Settled(t) == status[t] \in {"completed", "failed"}

\* Leased, and its owner will never come back to it.
Orphaned(t) == status[t] = "running" /\ t \notin UNION {Holding(w) : w \in Workers}

\* With faults, shutdowns and crashes, as long as one worker goes on, a queued
\* notification is settled or orphaned: it is never left waiting.
SettlesOrOrphaned == \A t \in Tasks : status[t] = "pending" ~> Settled(t) \/ Orphaned(t)

=============================================================================
