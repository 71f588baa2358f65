# A TLA+ model of the observability alerting and incident engine

The program (`src/`) is one Go binary, run in any number of replicas over one
PostgreSQL database.  It takes in events, evaluates rules on them at intervals,
raises alerts, queues and sends notifications, and lets operators handle alerts,
rules, silences and incidents over HTTP and gRPC.  Nothing is shared between
replicas but the tables, so nearly all that is hard about it is what happens
between two SQL statements.

The models here take a SQL statement (or a transaction, where the code opens one)
as one atomic step, and let everything else happen in between: other replicas,
operators, errors with and without effect, lost acknowledgements, timeouts,
SIGTERM, crashes.

- `PROJECT.json` lists the runs, the mutants that show what each property guards
  against, the map from definitions to source lines, the hazards, the theorems.
- Model-check a run with `tlc -config <cfg> <MC module>`, check a proof module with
  `tlapm <module>`.

## 1. The system's parts

| Part | State it keeps | Operations | Model |
|---|---|---|---|
| evaluation queue (`internal/queue`) | `queue_items`: status, attempts, available_at, locked_by, locked_until | Enqueue, Poll, Complete, PollByID + Fail, the loop Handle | `TaskQueue` |
| notification delivery (`internal/notification`) | `notification_channels`, `notification_tasks` (the same columns, and escalation_step) | CreateChannel, EnqueueAlert, PollTasks, RequeueTask, FailTask, CompleteTask, ProcessBatch, Send | `NotificationDelivery` |
| alert lifecycle (`internal/alert`) | `alerts`, `alert_observations`, `alert_transitions` | UpsertAlert; Resolve, Acknowledge, Silence | `AlertLifecycle` |
| ingestion (`internal/ingestion`) | `ingestion_events`, unique by dedupe_key | IngestBatch: dedupe with a goroutine per event, InsertBatch, one queued evaluation per event | `Ingestion` |
| rule evaluation (`internal/alert/application/evaluator.go`) | none of its own | EvaluateAll, EvaluateRule, conditions | `Evaluator`, `RuleCondition` |
| rule management (`internal/rule`) | `rules` | Create, Update, Pause, Enable, SetMode | `RuleControl`, `Changes` |
| incident response (`internal/incident`) | `incidents`, `incident_actions` | Create, Assign, Act, Close, Escalate | `Incidents`, `IncidentResponse`, `Changes` |
| silences (`internal/silence`) | `silences` | Create, Update, IsSilenced | `Silences`, composed into `Evaluator` |
| audit (`internal/audit`) | `audit_records` | Record | part of `Evaluator` |
| start and shutdown (`cmd/server`, `internal/bootstrap`, `Server.Start/Shutdown/Stop`, the systemd unit) | goroutines, a channel of errors, a context, the pool | main, Run, the restart | `AppRun`; the worker loops in the two task models |
| migrations (`internal/migration`) | the schema | Run | `AppRun` |
| configuration (`internal/config`) | none | Load, Validate | `Configuration`, used by `AppRun` |
| schedules (`internal/schedule`) | `schedules`, `schedule_shifts`, connections of the pool | Create, Update, Get, List, OnCall | `Schedules` |
| transport, utilities | - | - | in part, see section 8 |

How they interact:

    HTTP, gRPC --> ingestion --> queue_items ----> queue worker --+
                                                                  v
    scheduler (a ticker in every replica) ------------------> evaluator
                                                                  |
         rules, silences <-- operators                            |  upsert
                                                                  v
         operators --> alerts <-----------------------------------+
                                                                  |  one task per channel
                                                                  v
                                        notification_tasks --> notification worker --> webhook
         operators --> incidents

What is hard, and where it is modelled:

- *Leases.* Two tables hand tasks to workers of several processes with
  `FOR UPDATE SKIP LOCKED`, a lock owner and an expiry; a batch is worked off one
  task at a time, through a handler or HTTP call of any length (`TaskQueue`,
  `NotificationDelivery`).
- *At-least-once delivery.* A webhook may take a message and the sender learn of an
  error (`NotificationDelivery`).
- *Upserts and compare-and-set.* Replicas upsert the same alert while operators move
  it; UpsertAlert and Transition are several statements without a transaction
  (`AlertLifecycle`).
- *Goroutines and transactions.* Dedupe runs concurrently, then a transaction inserts
  in whatever order resulted, and may deadlock with another (`Ingestion`).
- *Read, change, write.* Rules and incidents are read, changed in memory and written
  back whole; the version is not compared (`RuleControl`, `IncidentResponse`).
- *Partial failure.* A run of the evaluator is a chain of statements, each of which
  may fail (`Evaluator`).
- *A pool that is asked twice.* Listing schedules holds a connection and asks for another
  one, per schedule; rows and shifts are read by statements of their own (`Schedules`).
- *Silences and time.* A run compares silences with one `now`, taken from a tick that may
  have waited; Create takes its own time before its INSERT; edits come in between
  (`Silences`, `Evaluator`).
- *Start.* Replicas migrate one database at once; file and environment decide what is
  started; systemd starts what failed again (`AppRun`, `Configuration`).
- *Shutdown.* The context of everything in progress is the one a signal cancels
  (`AppRun`, and Stop and Exit of the task models).

What makes each part correct: a task is held by one worker at a time, tried a bounded
number of times and never left waiting; a delivery known to have succeeded is not
repeated; resolution dates, counters and the first firing of an alert survive any
interleaving; a batch is stored as a whole or not at all and leaves nothing waiting;
audit rows and action trails tell the truth; a dry run raises nothing and a silence
suppresses but never reaches back; every enabled rule has its turn; a switch of a rule
holds; the process serves only what is migrated, and a signal ends it after everyone who
uses the pool; a schedule holds the shifts of one write.

## 2. Modules and what they stand for

**TaskLifecycle** and **AlertStatus** are abstract: what a task table promises to the
code around it (submitted once, held by one holder, moved on only while held, retried
at most MaxAttempts times), and what readers see of an alert (an evaluation makes it
fire unless acknowledged; operators move it forward; closed exactly while resolved).
Each has a handful of actions that are single steps. The detailed modules name them
in `ImplementsLifecycle`, with `holder <- lockedBy`, and `closed <- resolvedAt`,
`fired <- firedCount`.

**TaskQueue**: rows of `queue_items` and one loop per worker, with the position of the
loop in `pc`, the polled tasks not begun in `batch`, the current one in `cur`. `Poll`
is the transaction of the repository, `Complete`, `LoadTask` (the read in
`Service.Fail`) and `Fail` the other statements. Each has an error twin: without
effect (always once the context is cancelled), or with its effect and a lost
acknowledgement. `Handle` drops these errors, so the loop goes on. Time is what is left
of `available_at` and `locked_until`, counted down by `Tick`. The owner is a fresh
identity for each process, so a restart is another element of Workers.

**NotificationDelivery**: the same for notifications, with channels, the escalation
step, the copy of the row that the poll returned (`seen`, `seenStep`) and `Send`.
RequeueEarly is the branch of processTask for a task that is not yet due; it can be
reached only if the clock of the process is behind the one the row was compared with,
and then both RequeueTask and FailTask run.

**AlertLifecycle**: one row per fingerprint. An evaluation is upsert, read, observation
and history, an operator's call is read, compare-and-set and history, each a step;
any may be the last.

**Ingestion**: a goroutine per event (`gpc`), a transaction per call (`held` is what it
has inserted and not committed). PostgreSQL's part is external: an insert waits for an
open one of the same key (`WaitsFor`), a circle of waits is broken by a victim. `missed` is
an observer: the events that may stay without an evaluation, since it was for them that
queueing failed, or their call crashed or lost the answer of its commit.

**Silences**: the table, what Create has accepted and not yet inserted (`asked`), the
clock, the tick in the channel of each scheduler (`due`) and the `now` of each run (`at`).
A silence has a rule, a scope and matchers, each of which may match everything; labels are
a function of a few keys. Time 0 is Go's zero time. `edited`, `born` and `since` are
observers. The clocks of the replicas agree.

**Evaluator**: any number of runners, each with the rules it listed. Its `Sil == INSTANCE
Silences` shares the variables of the same names: starting, ending and losing a run are
Sil!Begin, Sil!End and Sil!Die, operators take the steps of Create and Update, and
CheckSilence asks Sil!IsSilenced with the time of the run. `ImplementsSilences` says that
every behaviour of Evaluator is one of Silences. The state of an alert is that it exists; a rule that is disabled
counts as paused. `Record` is the audit service, whose error the evaluator ignores.

**RuleCondition**: evaluateCondition with what it calls, and validateRule. The conditions
there are (`Conditions`) are any set with the parts of each; `Depth` says how deep one nests,
so that they are trees, and `Negation` what each becomes when it is turned round. The
recursion of evaluateCondition through evaluateCompound is the recursive function
`ChildOutcome`. A behaviour (`Evaluation`) takes a rule validateRule accepted and evaluates
it. Numbers are integers: a float that is not a number, which JSON cannot say, and the
tolerance of `eq` are left out.

**RuleControl**, **IncidentResponse**: one row, several calls, each a `Get` and an
`Update` (and an `AddAction`). A row is created as its request says: a rule with any mode and
version, known or not; an incident with any assignee, version and status, closed_at set or
not. Act records whatever text it is given, and only "resolve" and "close" change more than
the version: an action "assigned" assigns nobody, which is why no property reads the
assignee off the trail. `holds`, `modes`, `on`, and `original` and `changes`, or `created` and
`wrote`, are observers: they decide nothing. The tables of the incidents and what a reader may
conclude from them are a module of their own, **Incidents**, which IncidentResponse extends.
**Changes** is what both services have in common: a row that is read, changed and written
back by calls that do not compare its version, as the sequence of the changes that were made
of it. It says when a change was overwritten, and when two gave the row the same version.

**Schedules**: `row` and `shifts` are the tables as committed, `lock` the transaction that
has written the row of a schedule, `held` who has a connection of the pool, `call` the place
and the local variables of a handler. A transaction keeps what it deletes and inserts to
itself until `Commit`; `Fail` is an error, a refused body or the end of the request's time
(the middleware's WriteTimeout) at any point. loadShifts takes a connection and gives it
back in one step, which needs a free one; a List or OnCall holds another meanwhile, a Get
does not. Whether a shift covers a time is compared twice, by the query of FindActive
(`Joins`) and by OnCallAt (`Covers`). The query gets the time cut to microseconds, which
makes no difference, as stored times have no finer ones. `history` and `asof` are observers.

**Configuration**: Load as a function of a file and an environment: default, over it the
file, over that the environment, with what each parser does with text it cannot read; then
Validate. Only the settings that decide how the service starts are there, and of a duration
or a number only its sign.

**AppRun**: main, App.Run and systemd. `main` is the place in Run: load, connect, migrate
and applying (the migration `file`), listen; then select, http, grpc, wait, closing; then
returned, killed, or failed, from which systemd restarts. A signal cancels the context from
select to wait; before there is a handler, and in closing, when the deferred calls have
removed it, it kills the process. `schema` is what is applied in the
database, `rival` the migrations that other replicas are applying, `fresh` whether ours found
its objects missing. Exit takes goroutines, calls and connections with the process. `held`
counts the connections HTTP calls hold: Close of the pool waits for them. The wiring in
buildDependencies only constructs values and has no step.

The MC modules hold only the finite values of the constants.  Operators marked
*(mutant)* are plausible slips in the code, kept beside the definition they would
replace; no specification uses them.

## 3. Plan

Done: the modules above, in the order queue, notifications, alerts (with proofs),
ingestion, evaluator, rules, incidents, conditions and schedules; then silences composed
into the evaluator, the start and the end of the process with configuration and migrations,
and proofs for ingestion, rules, silences, evaluator and process; then those for the
counters of the alerts, the incidents and the schedules. With them every safety property
and every action property that a run checks is a theorem, those of the conditions of rules,
which are recursive, last. Left: an abstract specification of notification per alert (each
demanded notification is queued, and delivered, given up or orphaned) implemented by
evaluator and delivery together.

## 4. The runs

| Run | Shows | Bounds |
|---|---|---|
| `queue` | a lease is exclusive although it expires; every handler call is accounted for by the row, so at most max_attempts; the attempts Service.Fail read are never stale; the table implements TaskLifecycle; a queued task is settled or orphaned | 2 tasks, 2 workers, 3 attempts, poll of 2, lease of 1 and backoff up to 2 units, 2 database faults, 1 worker that may stop and crash |
| `notify` | the same for notifications, and: a message is repeated only after an answer that hid its delivery | 2 tasks (webhook, email), 2 workers, 2 attempts, 1 fault, 1 worker that may stop and crash |
| `alert` | resolved_at agrees with the status; at most one first firing in the history; fired_count and version lose no increment; implements AlertStatus | 1 alert, 3 evaluations, 2 operator calls, any statement may fail |
| `ingest` | one event per key kept in a batch; nothing lost; all or nothing; a stored event gets its evaluation, whatever happens to those of others in its batch; every call returns | 2 batches of 3 and 2 events on the same 2 keys, 1 fault |
| `eval` | audit rows about notifications are true; dry runs raise and notify nothing; a silence that matches and was stored before the time of a run suppresses; none reaches back to a run from before its request; every enabled rule has its turn; what stays demanded is notified | 2 rules, 1 group with 1 of 2 labels, 2 channels, 1 scheduler, 1 silence with 3 possible bodies, clock up to 2, 1 fault, 2 changes of rules, silences or data |
| `rule` | a switch acknowledged with no other call in flight holds against patches until the next, however later calls overlap; a change is overwritten only where two changes gave the rule the same version | 4 calls, 2 in flight, 1 fault, all modes, none and an unknown one, a version of its own or none |
| `incident` | the trail tells only of changes that were made, under any overlap; a change is overwritten only where two changes gave the incident the same version | 3 calls, all in flight, 2 faults, 2 incidents (one with the defaults, one resolved, assigned and with a version of its own), 2 assignees, 3 action texts |
| `shutdown` | whoever is up has its migrations and sound tickers; a process that can serve gets to serve; a signal ends it; the pool outlives its users, but for HTTP calls Shutdown gave up on | 3 files, 4 environments, 2 migrations, 1 other replica, 3 workers, 1 call per server, 2 faults |
| `condition` | a rule matches exactly where it does not with its operators and connectives turned round, whatever kinds of conditions it is of; the value of a match is one that breaches a simple condition | compounds of up to two levels, closed under negation; all operators with their aliases and one that is none; values 0..2 |
| `schedule` | a schedule holds the shifts of the last committed write; a reader shows the shifts of one version, no older than the row; OnCall leaves out no active schedule that stood still; a request is answered, or the pool has stalled on readers | 3 requests of any kind, 1 schedule, 2 connections, a body that hands over at the time asked for and a disabled one |
| `queue_shutdown` | *violated*: EveryTaskSettles | as `queue`, 1 shutdown, no faults |
| `eval_shard` | *violated*: EveryRuleEvaluated, if shardSkip refuses a rule | 2 rules, 1 runner |

Why the bounds are enough. Two workers and two tasks give every conflict of leases: a
batch of two, one task of it in progress while the other waits, an expired lease beside
a fresh poll. Three attempts have a first, a middle and a last, and two faults let a
statement fail on the way to recovering from another. Leases and backoffs of one or two
units run out before, during and after a handler call. Three evaluations are what it
takes to interleave a first, a second and a reopening one with two operators. Two
batches with two keys in opposite orders are the smallest deadlock, and the duplicate
in one of them the smallest race on the seen map. Two rules are needed so that one can
be left out, two channels so that one can be left without its task; the second runner
is missing from `eval` because the product of two was too large together with
liveness, and one scheduler is what it takes for a tick to wait while a run goes on (the
proofs are for any number of runners). Its clock goes from 1 to 2, so that a start can lie
before, at or after the time of a run, and three bodies are a silence with conditions, one
of everything that has a start of its own, and one that Create refuses and an edit uses to
lift it. In `shutdown` two migrations are a first that may be applied and a last that is
not, one rival is enough for every clash, and the configurations have a bad interval that is
kept, disabled, overridden or mistyped, one that cannot be read, a pool of size zero, and
the migrations left out. In `condition` two levels have every connective within every
other, before and after a simple condition; the proofs are for any depth. In `rule` two calls in flight suffice for a write that undoes another, and a
third and fourth for what is read after. In `schedule` three requests are two writers and
a reader, or two readers that fill the pool and a writer they keep waiting; a second
schedule would only add turns to the loop over the rows, and writers that do not meet.
Each bound is a constant, and the
budgets (`MaxFaults`, `MaxChanges`, `MaxInFlight`, `MaxCalls`) are guards of the
actions they bound.

Deadlock is not checked in runs whose behaviours end (everything settled, every call
answered, Run returned); `eval` has no such end and is checked for it. Symmetry is used only
in runs of safety properties alone (`rule`, `incident`) and in `alert`, whose refinement
property is a safety property that treats calls alike.

Fairness. A worker loop is a `select` on a ticker, so a live loop goes on: WF of its step as
a whole, never of the success of a statement, since the steps include its errors; faults are
bounded because a database that fails for ever owes nobody progress. Handlers may fail every
time: that is what attempts are for. Time passes (WF of Tick). In `Ingestion` a call that
has arrived goes on. In `Evaluator` runs start again and again and go on. In `Schedules`
some handler that can go on does; the pool and PostgreSQL serve those who wait in turn, and
with finitely many requests WF is enough. Nothing is assumed of `Fail`, so a stall that only
the timeout of the requests ends shows as one. In `AppRun` the main goroutine goes
on, calls of gRPC and batches end and connections are given back, as their contexts and
timeouts see to, and a worker's `select` between a ready tick and a cancelled context picks at
random, hence SF of Leave. HTTP calls may hang: Shutdown gives up on them. GracefulStop has no
timeout, so SignalEnds does depend on gRPC calls ending. A process that failed comes back, as
`Restart=on-failure` says. Nothing makes an operator act.

## 5. What the code does that its documents do not say

Two runs refute a sentence of the repository; the findings in `PROJECT.json` quote it.

- `queue_shutdown`: SIGTERM cancels the context that Complete and Fail of the batch in
  progress need; their errors are dropped and the rows stay `running`. Poll takes
  `pending` rows only, so the expiry of a lease (`locked_until`) never has an effect. A
  crash ends in the same way, and so does the notification worker. The positive side is
  proved: `OrphansAreNeverRecovered`.
- `eval_shard`: shardSkip refuses the same rules in every replica.

Others were met while modelling. They are stated here with the line, and no run
is claimed for them:

- `internal/bootstrap/app.go:145`: when a server fails, Run waits at line 155 for workers
  whose context is cancelled only when Run returns, so the process neither serves nor ends
  until a signal comes (`AppRun`: SignalEnds speaks of signals only). The same happens when
  the HTTP port is taken at the start.
- `internal/bootstrap/app.go:128`: notification.enabled decides about the worker of the
  evaluation queue, too; without it queued evaluations are left to the scheduler.
- `internal/config/config.go:196`: Validate accepts max_connections of 0, which the pool
  refuses: the process fails and is restarted for ever (GetsToServe excepts it).
- `internal/migration/migrate.go:42`: replicas that start together may fail with a unique
  violation although every statement says IF NOT EXISTS; they need the restart.
- `internal/bootstrap/app.go:255`: the now of a scheduled run is the time of its tick, which
  waits in the channel while the run before it goes on; a run that begins after a silence
  is in force may still notify.
- `internal/rule/infrastructure/pg_repository.go:114`: with more enabled rules than the
  limit, ORDER BY updated_at lists the same ones every time, since an evaluation does not
  touch updated_at (`Evaluator` with Limit = 1 and two rules).
- `internal/schedule/infrastructure/pg_repository.go:112` and `:138`: as many List or OnCall
  requests at once as the pool has connections (20) wait for each other, and the whole
  process waits with them, until the 20 seconds of WriteTimeout are up. AnsweredOrStalled
  says that nothing else stalls it; the stall itself is reachable in the model.
- `internal/schedule/infrastructure/pg_repository.go:138`: OnCall may name a shift of a
  write that came after the row was read, even one that disabled the schedule.
- `internal/silence/application/service.go:32`: Update does not call Normalize, so it takes
  a silence that ends before it starts; and a PUT replaces everything: one without `active`
  lifts the silence, one without matchers, rule and scope silences the whole tenant.
- `evaluator.go:105`: every replica that evaluates a rule queues its own notifications; only
  the alert row is shared.
- `evaluator.go:100`: a silence that comes into force during a run does not count for that
  run, whose `now` is older.
- `alert/infrastructure/pg_repository.go:83`: the first firing is recorded if the read after
  the upsert says fired_count = 1; when two replicas upsert before either reads, nobody
  records it. OneFirstFiring is therefore "at most", not "exactly".
- `alert/infrastructure/pg_repository.go:39`: the upsert reopens a resolved alert without a
  history entry.
- `notification/application/service.go:104`: the escalation step is written back as it was
  read; nothing raises it.
- `ingestion/infrastructure/pg_repository.go:52`: an event that the conflict clause drops is
  still counted as persisted, and `ingestion/application/service.go:60` queues an evaluation
  for it, although only the older event with its key is in the table; the unique index has no
  window, the check at `service.go:113` has one. The model contains this (`WindowPasses`);
  NothingLost is therefore about keys.
- `rule/infrastructure/pg_repository.go:54`: an update that read the rule before a pause
  writes the old mode back after it, and both return the same version. That is why
  SwitchHolds asks that a switch was alone in flight. A switch that was lost in this way can
  be told from the versions only (OverwritesShow), which nobody compares.
- `rule/application/service.go:51` and `rule/domain/types.go:112` and `:130`: a rule may be
  created, or patched, with a mode that nothing knows, and be created with any version.
- `rule/application/service.go:51`: a patch of the mode leaves `enabled` as Pause set it, so
  a rule may say active and not be listed (SwitchHolds allows it: only a patch that says
  enabled enables a paused rule).
- `incident/infrastructure/pg_repository.go:39`, `incident/application/service.go:72` and
  `:79`: overlapping calls undo one another, which shows only in versions that repeat
  (LossShows); the error of AddAction is dropped, so the trail may lack an action whose
  change was made; Close passes an action that Act does not know, and changes only the
  version; and Act records texts that sound like what other operations record.
- `evaluator.go:159`: a change condition computes its baseline from the current value;
  `:165`: a rule of the type suppress matches nothing; `:239`: neither does an operator that
  `compare` does not know, and `rule/application/service.go:172` only asks that there be one.
  Such a condition does not match when it is turned round either, so DeMorgan is about those
  whose operators are known.

## 6. What is proved

TLAPS checks the following for every value of the constants that satisfies the named
assumptions (`QueueAssumption`, `DeliveryAssumption`, `AlertAssumption`,
`EvaluatorAssumption` with `Admissible` of Silences, `RuleAssumption`, `AppRunAssumption`,
`SchedulesAssumption`, that of Ingestion, and `ConditionAssumption`, `NegationAssumption` and
`OperatorAssumption` of RuleCondition: the special values are not members, counts and
times are natural numbers, MaxAttempts is at least 1, every task has a channel, the body
of a schedule has a flag and a sequence of shifts, the parts of a condition nest less deep
than it, and the set of conditions has the negation of each). No theorem is about the bounds of the
runs, none assumes that a set of calls, tasks or replicas is finite, and those about the
incidents assume only what a draft of an incident has (`IncidentsAssumption`).

*TaskQueueProofs.* `TypeCorrect`, `LeasesExclusive`, `LocksFollowStatus`,
`HandlerCallsAccounted`, `BackoffIsFresh`, `OneWorkerPerTask`; the action properties
`SettledTasksStay` and `OrphansAreNeverRecovered`; and `Refinement`, that the queue
implements TaskLifecycle. ExclusiveLease is not inductive on its own. That
a polled row is in nobody's hands needs that rows with an owner are exactly the running
ones (LockFollowsStatus, which makes the `locked_until` condition of Poll vacuous);
that a worker's writes match its row needs the shape of its loop
(LoopShape: at most one current task, and that not in the batch); that a task is handled at
most MaxAttempts times needs to know, for a task in a worker's hands, whether its call
has been made (CallsInHand). The invariant is the conjunction

    TypeOK /\ LoopShape /\ ExclusiveLease /\ LockFollowsStatus
           /\ CallsInHand /\ RunsAccounted /\ FreshBackoff

It is preserved because only the owner of a row changes it while it runs. The lemmas are one
per *effect* that several actions share (taking rows, dropping a task, completing, failing),
so that a statement and its lost acknowledgement are one proof.

*NotificationProofs.* The same, and `SendCallsAccounted`, `DeliveriesAccounted` and
`DisabledChannelsSilent`. Two conjuncts are added: SendInHand says what has been sent for
the task in hand at each point of the loop, ChannelRead that a channel about to be sent
to is enabled (channels are never changed once created). ExclusiveLease here excepts a
task its worker has given back (RequeueEarly): the FailTask that follows it finds no
row. A row the worker gave back may be leased to another by then, so the proof of that
step is that the owner differs.

*AlertProofs.* `TypeCorrect`, `ResolutionDated`, `FirstFiringOnce`, `CountersAreExact` and
`Refinement`. FirstFiringOnce follows from CountSeparates (whoever has not read back yet will
read a count at least the one it made) and OneReadsOne (at most one evaluation of an
alert ever reads 1): fired_count only grows, so the second reader of 1
would have upserted before the first. ResolvedAtAgrees holds although Transition never
clears resolved_at, because RequestShape shows that a compare-and-set never starts from
"resolved". CountersExact compares a column with the number of calls that changed it; a
Cardinality means nothing until its set is known to be finite, so FinitelyMany is part of
the invariant and not an assumption about the callers: each step adds at most one call. That
a move is counted once needs MovesDone: a request whose history row is written is over, and
so is no longer among those counted by their place in the code.

*IngestionProofs.* `Typed`, `OneIsKept`, `NoneIsLost`, `WholeOrNot` and `EachIsEvaluated`, for
any number of calls and goroutines. AllOrNothing is about rows and follows from what a
transaction is: a call's events reach the table in one commit, before which its rows are
its own (`held`), and after which each of its keys has a row. NothingLost needs that a key
found stored stays stored. StoredAreEvaluated needs to know of a call that is still at it that
each row it has made is queued, missed or among what it has yet to queue (Evaluated), and so
that what its transaction inserts it has kept (HoldsKept): `todo` starts from that.

*OperatorProofs.* The two services with which operators change a copy of a row and write it
back. Of the rules: `SwitchStands`, `OverwritesAreSeen`, `Typed`. SwitchHolds speaks of the
row; what makes it inductive is the same statement about the copy of every call that is in
flight since the switch, which will become the row. Of the incidents, whose operations are
those of `Inc == INSTANCE IncidentResponse`, since both services have a Get, an Update and a
Spec: `TrailTellsTruth` and `LossesAreSeen`. The first needs WritesThenTells: an action is
added only after the update of its call took effect, which is what the early return on the
error of Update is for.

OverwritesShow and LossShows are one argument about a sequence of changes. While no two of
them have the same version, each was made of what the one before it left, so that the row
after i changes has the first version plus i (Counted); and every copy in flight is the row as
it was after some number of them (Known). The next change, of a copy that was current after
i, gives the row the first version plus i + 1: if i is not the last, that is the version
the change after i gave it already (`OneMoreChange`), and two have the same. This holds for
any first version, and needs that every operation counts the version up by one.

*EvaluatorProofs.* First about the silences on their own (`Sil!Spec`): `CreatedOpen`,
`NoReachBack`, `SilencesTyped`, and the operator fact `WiderSilencesMore`. NoReachBack rests
on the fact that a silence which Create gave its start, and nobody edited, starts when it
was asked for, and Matches compares strictly. Then `SilencesImplemented` shows that each step of the evaluator is a step of
Silences or leaves its variables alone, so `NoneReachBack` and the types are inherited.
`AuditIsTrue`, `DryRunStaysDry` and `SilencedStaysQuiet` come from an invariant about each
runner: it has listed the rule it is at (AtRule), handles one match at a time (Single) whose
alert is there and whose rule was not listed in dry run (Handled), has a notification in the
table for each channel it is done with (Queued), and, when it notifies, no silence that was
stored before its time matches (Unsilenced). The last survives Create and Update because
`since` is then the clock, which is at or past the time of every run.

Last about the conditions: `CompoundsAreLogic` and `MatchesAreExplained`, for any conditions
however deep they nest. Both go by induction over conditions: what is so of a condition
whenever it is so of its children is so of all of them (`EveryCondition`), since otherwise
there would be one of the least depth of which it is not. Stated of a set, that needs none
of the library's induction theorems. TLA+ defines a recursive function as *some* function
that satisfies the equation, so before anything else there has to be one: `Recursion` builds
it from functions on the conditions less deep than n (`ComputeOne`), which agree where they
overlap (`ComputeSame`); `OutcomeIs` and `LeavesAre` are then the equations of ChildOutcome
and ChildLeaves. `SimpleTurns` and `CompoundTurns` are the steps of De Morgan: "or", which
returns early, against "and", which evaluates all; and `RuleExplains` is that of the value,
which for "or" is that of the first child that matches and for "and" that of the last.

*AppRunProofs.* `UpSoundly`, `PoolIsLast`, `Typed`. The invariant: past Load there is a
configuration that Validate accepts (Configured); migrations are applied in order and those
before `file` are in the schema, whatever other replicas do (Migrated); there are goroutines
only in a process that is up, and only those that are enabled (Lively); each stage of the
shutdown leaves what it stopped stopped (Stopping).

*ScheduleProofs.* `OneWriteStands`, `OneVersionShown`, `OnCallForgetsNone` (an action
property) and `TypeCorrect`, for any number of requests, shifts, schedules and connections.
ShiftsOfOneWrite says what is committed; it needs to know what a transaction that has
committed nothing yet is about to: from its first statement on it owns the row (Owns), so
nobody commits in between; what its DELETE saw is then still all that is stored (DeletesAll);
and it has inserted exactly the first shifts of its body (InsertsInOrder), so that at Commit,
which comes when there is no next one, they are all of them. LoadShifts reads one committed
state, which by ShiftsOfOneWrite is one version; that this version is no older than the row
beside it is RowsCommitted and, for what has been shown, EntriesCommitted, since history
only grows. The proof of OnCallForgetsNone carries NotForgotten through the loop over the
rows: a schedule that stood still is either still to be loaded or was loaded as it is. The
places where a request fails or gives up are one lemma, IdleSound: it has forgotten
everything, so nothing is to be shown of it.

Refinement is proved step by step: the initial states map to initial states, and under
the invariant every action maps to one abstract action or to a stutter.

## 7. What is only model-checked

Liveness under fairness (SettlesOrOrphaned, EveryCallReturns, EveryRuleEvaluated,
BreachNotified, SignalEnds, GetsToServe, AnsweredOrStalled), since the prover does not reason
about fairness or ENABLED. Every invariant and every action property that a run checks is
also a theorem.

## 8. What is not modelled

- The wiring in bootstrap, which only constructs values, and the gRPC client.
- The statements of a migration file: they run in one implicit transaction and are one step.
- Settings that do not decide how the service starts; several (shard_count, worker_count,
  retention) are read by nobody.
- The HTTP and gRPC layers but for starting, stopping and the lifetime of calls: they decode
  and call the services. The rate limiter is a library; metrics are counters nothing depends
  on.
- Listing and counting, which change nothing (but for the connections they hold in
  `Schedules`); UpdateChannel and Requeue of the queue,
  which have no caller.
- Data that no property tells apart: messages, payloads, templates, values
  (except in `RuleCondition`), labels and scopes (except in `Silences`), pagination, identifiers, the order of due rows
  (any choice is allowed).
