------------------------------ MODULE Evaluator ------------------------------
(***************************************************************************)
(* The evaluation of rules (internal/alert/application/evaluator.go): a    *)
(* run lists the rules, aggregates the events of each, and for every group *)
(* of labels that breaches the condition upserts the alert, looks for a    *)
(* silence, queues one notification per channel and writes an audit row.   *)
(* Each of these is a statement of its own; none shares a transaction with *)
(* another.                                                                *)
(*                                                                         *)
(* A runner is whatever calls EvaluateAll: the scheduler and the queue     *)
(* worker of every process, and the handlers of HTTP and gRPC.  Meanwhile  *)
(* operators change rules and silences, and the data changes.  The table   *)
(* of silences and the time of each run are those of Silences.             *)
(*                                                                         *)
(* An alert stands for its fingerprint, a rule and a group of labels; its  *)
(* own states are in AlertLifecycle, and what becomes of a notification is *)
(* in NotificationDelivery.  A rule that is disabled counts as paused.     *)
(***************************************************************************)
EXTENDS Naturals, SequencesExt

CONSTANTS
    Rules, Channels, Runners, Schedulers,
    Ids, Scopes, Keys, Values, Bodies, MaxNow, Every, None,     \* of Silences
    Groups,         \* the labels of the aggregates
    ScopeOf,        \* the scope buildScope makes of a rule and its labels
    ShardSkipped,   \* rules whose identifier shardSkip refuses
    Limit,          \* how many rules a run lists
    MaxFaults,      \* bound on errors and crashes in a behaviour
    MaxChanges      \* bound on changes of rules, silences and data

Alerts == Rules \X Groups

Modes == {"active", "dry_run", "paused"}

VARIABLES
    (* the tables *)
    mode,       \* rules.mode
    order,      \* the rules by updated_at
    alerts,     \* fingerprints that have a row
    tasks,      \* notifications queued, each with the runner that did it
    audit,      \* audit rows about matches
    (* the world *)
    breached,   \* alerts whose group breaches the condition of the rule
    (* of Silences: the silences, the clock, and the now of each run *)
    stored, asked, now, due, at, edited, born, since,
    (* a runner *)
    pc,
    todo,       \* the rules it has listed and not finished, as they were then
    groups,     \* matching groups of the first of todo, not yet handled
    cur,        \* the group it is handling, if any
    chans,      \* channels it has yet to queue a notification for
    (* bookkeeping *)
    faults, changes

Sil == INSTANCE Silences

ASSUME EvaluatorAssumption ==
    /\ Sil!Admissible
    /\ Groups \subseteq Sil!Labels
    /\ ScopeOf \in [Alerts -> Scopes]
    /\ ShardSkipped \subseteq Rules
    /\ Limit \in Nat /\ MaxFaults \in Nat /\ MaxChanges \in Nat

tableVars == <<mode, order, alerts, tasks, audit>>
silenceVars == <<stored, asked, now, due, at, edited, born, since>>
worldVars == <<breached, silenceVars>>
runVars == <<pc, todo, groups, cur, chans>>
vars == <<tableVars, worldVars, runVars, faults, changes>>

Init ==
    /\ mode = [r \in Rules |-> "active"]
    /\ order = SetToSeq(Rules)
    /\ alerts = {} /\ tasks = {} /\ audit = {}
    /\ breached \in SUBSET Alerts
    /\ Sil!Init
    /\ pc = [w \in Runners |-> "idle"]
    /\ todo = [w \in Runners |-> <<>>]
    /\ groups = [w \in Runners |-> {}]
    /\ cur = [w \in Runners |-> {}]
    /\ chans = [w \in Runners |-> {}]
    /\ faults = 0 /\ changes = 0

-----------------------------------------------------------------------------
Fault == faults < MaxFaults /\ faults' = faults + 1

Change == changes < MaxChanges /\ changes' = changes + 1

Listed(r) == mode[r] # "paused"

\* ORDER BY updated_at LIMIT, then shardSkip.
ListForEvaluation ==
    LET eligible == SelectSeq(order, Listed)
        listed == SubSeq(eligible, 1, IF Len(eligible) < Limit THEN Len(eligible) ELSE Limit)
        Kept(r) == r \notin ShardSkipped
    IN  SelectSeq(listed, Kept)

\* The rule w is at, as it listed it, and the alert it is handling.
RuleOf(w) == Head(todo[w]).rule
ModeOf(w) == Head(todo[w]).mode
AlertOf(w, g) == <<RuleOf(w), g>>
IsCurrent(w, a) == \E g \in cur[w] : a = AlertOf(w, g)

-----------------------------------------------------------------------------
(* A run. *)

Start(w) ==
    /\ pc[w] = "idle"
    /\ \E rules \in BoundedSeq(Rules, Limit) :
         /\ rules = ListForEvaluation
         /\ todo' = [todo EXCEPT ![w] =
                       [i \in DOMAIN rules |-> [rule |-> rules[i], mode |-> mode[rules[i]]]]]
    /\ Sil!Begin(w)
    /\ pc' = [pc EXCEPT ![w] = "rules"]
    /\ UNCHANGED <<tableVars, breached, groups, cur, chans, faults, changes>>

\* The loop of EvaluateAll is over.
Finish(w) ==
    /\ pc[w] = "rules"
    /\ todo[w] = <<>>
    /\ pc' = [pc EXCEPT ![w] = "idle"]
    /\ Sil!End(w)
    /\ UNCHANGED <<tableVars, breached, todo, groups, cur, chans, faults, changes>>

\* (mutant) the loop ends with the first rule
LeaveAllRules(w) ==
    /\ pc' = [pc EXCEPT ![w] = "rules"]
    /\ todo' = [todo EXCEPT ![w] = <<>>]
    /\ groups' = [groups EXCEPT ![w] = {}]
    /\ cur' = [cur EXCEPT ![w] = {}]
    /\ chans' = [chans EXCEPT ![w] = {}]

\* EvaluateRule returns, with its matches or with an error: on to the next rule.
LeaveRule(w) ==
    /\ pc' = [pc EXCEPT ![w] = "rules"]
    /\ todo' = [todo EXCEPT ![w] = Tail(@)]
    /\ groups' = [groups EXCEPT ![w] = {}]
    /\ cur' = [cur EXCEPT ![w] = {}]
    /\ chans' = [chans EXCEPT ![w] = {}]

\* A call of EvaluateRule returns an error.
RuleError(w) == Fault /\ LeaveRule(w)

\* (mutant) a group that has an alert is not handled again
NewMatches(w) == {g \in Groups : AlertOf(w, g) \in breached \ alerts}

\* The condition on each aggregate.
Matches(w) == {g \in Groups : AlertOf(w, g) \in breached}

QueryAggregates(w) ==
    /\ pc[w] = "rules"
    /\ todo[w] # <<>>
    /\ \/ /\ pc' = [pc EXCEPT ![w] = "groups"]
          /\ groups' = [groups EXCEPT ![w] = Matches(w)]
          /\ UNCHANGED <<todo, cur, chans, faults>>
       \/ RuleError(w)
    /\ UNCHANGED <<tableVars, worldVars, changes>>

RuleDone(w) ==
    /\ pc[w] = "groups"
    /\ groups[w] = {}
    /\ LeaveRule(w)
    /\ UNCHANGED <<tableVars, worldVars, faults, changes>>

\* audit.Record, whose error is ignored.
Record(w, g, what) ==
    \/ audit' = audit \cup {[by |-> w, alert |-> AlertOf(w, g), what |-> what]} /\ UNCHANGED faults
    \/ Fault /\ UNCHANGED audit

\* A match of a rule in dry_run.
DryRunMatched(w) ==
    /\ pc[w] = "groups"
    /\ \E g \in groups[w] :
         /\ ModeOf(w) = "dry_run"
         /\ Record(w, g, "dry_run_matched")
         /\ groups' = [groups EXCEPT ![w] = @ \ {g}]
    /\ UNCHANGED <<mode, order, alerts, tasks, worldVars, pc, todo, cur, chans, changes>>

\* (mutant) the mode is looked at after the alert is there
ApplyEvaluationAnyMode(w) ==
    /\ pc[w] = "groups"
    /\ \E g \in groups[w] :
         /\ alerts' = alerts \cup {AlertOf(w, g)}
         /\ pc' = [pc EXCEPT ![w] = "silence"]
         /\ groups' = [groups EXCEPT ![w] = @ \ {g}]
         /\ cur' = [cur EXCEPT ![w] = {g}]
    /\ UNCHANGED <<mode, order, tasks, audit, worldVars, todo, chans, faults, changes>>

\* The upsert of the alert; it may take effect and still return an error.
ApplyEvaluation(w) ==
    /\ pc[w] = "groups"
    /\ ModeOf(w) # "dry_run"
    /\ \E g \in groups[w] :
         \/ /\ alerts' = alerts \cup {AlertOf(w, g)}
            /\ pc' = [pc EXCEPT ![w] = "silence"]
            /\ groups' = [groups EXCEPT ![w] = @ \ {g}]
            /\ cur' = [cur EXCEPT ![w] = {g}]
            /\ UNCHANGED <<todo, chans, faults>>
         \/ /\ alerts' \in {alerts, alerts \cup {AlertOf(w, g)}}
            /\ RuleError(w)
    /\ UNCHANGED <<mode, order, tasks, audit, worldVars, changes>>

\* What IsSilenced is asked about.
Subject(a) == [rule |-> a[1], scope |-> ScopeOf[a], labels |-> a[2]]

\* The silences are read now and compared with the now of the run.
IsSilenced(w) == \E g \in cur[w] : Sil!IsSilenced(Subject(AlertOf(w, g)), at[w])

\* (mutant) an error of the check counts as no silence
CheckSilenceFailsOpen(w) ==
    /\ pc[w] = "silence"
    /\ \/ /\ pc' = [pc EXCEPT ![w] = IF IsSilenced(w) THEN "suppress" ELSE "notify"]
          /\ chans' = [chans EXCEPT ![w] = IF IsSilenced(w) THEN {} ELSE Channels]
          /\ UNCHANGED faults
       \/ /\ Fault
          /\ pc' = [pc EXCEPT ![w] = "notify"]
          /\ chans' = [chans EXCEPT ![w] = Channels]
    /\ UNCHANGED <<tableVars, worldVars, todo, groups, cur, changes>>

CheckSilence(w) ==
    /\ pc[w] = "silence"
    /\ \/ /\ pc' = [pc EXCEPT ![w] = IF IsSilenced(w) THEN "suppress" ELSE "notify"]
          /\ chans' = [chans EXCEPT ![w] = IF IsSilenced(w) THEN {} ELSE Channels]
          /\ UNCHANGED <<todo, groups, cur, faults>>
       \/ RuleError(w)
    /\ UNCHANGED <<tableVars, worldVars, changes>>

\* (mutant) an error of a channel is passed over
EnqueueAlertSkips(w) ==
    /\ pc[w] = "notify"
    /\ \E ch \in chans[w], g \in cur[w] :
         /\ chans' = [chans EXCEPT ![w] = @ \ {ch}]
         /\ \/ tasks' = tasks \cup {[by |-> w, alert |-> AlertOf(w, g), channel |-> ch]}
               /\ UNCHANGED faults
            \/ Fault /\ UNCHANGED tasks
    /\ UNCHANGED <<mode, order, alerts, audit, worldVars, pc, todo, groups, cur, changes>>

\* EnqueueAlert, one channel: the task may be there although an error is returned.
EnqueueAlert(w) ==
    /\ pc[w] = "notify"
    /\ \E ch \in chans[w], g \in cur[w] :
         LET task == [by |-> w, alert |-> AlertOf(w, g), channel |-> ch]
         IN  \/ /\ tasks' = tasks \cup {task}
                /\ chans' = [chans EXCEPT ![w] = @ \ {ch}]
                /\ UNCHANGED <<pc, todo, groups, cur, faults>>
             \/ /\ tasks' \in {tasks, tasks \cup {task}}
                /\ RuleError(w)
    /\ UNCHANGED <<mode, order, alerts, audit, worldVars, changes>>

\* The audit row of the match.
EvaluationMatched(w) ==
    /\ pc[w] \in {"suppress", "notify"}
    /\ chans[w] = {}
    /\ \E g \in cur[w] : Record(w, g, IF pc[w] = "suppress" THEN "silenced" ELSE "notified")
    /\ pc' = [pc EXCEPT ![w] = "groups"]
    /\ cur' = [cur EXCEPT ![w] = {}]
    /\ UNCHANGED <<mode, order, alerts, tasks, worldVars, todo, groups, chans, changes>>

\* The process dies, or a SIGTERM cancels the context of all its calls.
Crash(w) ==
    /\ pc[w] # "idle"
    /\ Fault
    /\ pc' = [pc EXCEPT ![w] = "idle"]
    /\ todo' = [todo EXCEPT ![w] = <<>>]
    /\ groups' = [groups EXCEPT ![w] = {}]
    /\ cur' = [cur EXCEPT ![w] = {}]
    /\ chans' = [chans EXCEPT ![w] = {}]
    /\ Sil!Die(w)
    /\ UNCHANGED <<tableVars, breached, changes>>

-----------------------------------------------------------------------------
(* Operators and data. *)

\* Pause, Enable, SetMode and Update write updated_at.
ChangeRule(r) ==
    /\ Change
    /\ \E m \in Modes : mode' = [mode EXCEPT ![r] = m]
    /\ order' = Append(Remove(order, r), r)
    /\ UNCHANGED <<alerts, tasks, audit, worldVars, runVars, faults>>

DataChanges(a) ==
    /\ Change
    /\ breached' = IF a \in breached THEN breached \ {a} ELSE breached \cup {a}
    /\ UNCHANGED <<tableVars, silenceVars, runVars, faults>>

\* A silence is asked for or edited.
SilenceChanges(i) ==
    /\ Change
    /\ \E body \in Bodies : Sil!Ask(i, body) \/ Sil!Update(i, body)
    /\ UNCHANGED <<tableVars, breached, runVars, faults>>

\* The INSERT of a silence, which may fail.
SilenceStored(i) ==
    /\ \/ Sil!Create(i) /\ UNCHANGED faults
       \/ Sil!CreateFails(i) /\ Fault
    /\ UNCHANGED <<tableVars, breached, runVars, changes>>

\* Time passes, a ticker fires.
TimePasses ==
    /\ Sil!Tick
    /\ UNCHANGED <<tableVars, breached, runVars, faults, changes>>

TickerFires(w) ==
    /\ Sil!Fires(w)
    /\ UNCHANGED <<tableVars, breached, runVars, faults, changes>>

-----------------------------------------------------------------------------
RunStep(w) ==
    \/ Finish(w) \/ QueryAggregates(w) \/ RuleDone(w) \/ DryRunMatched(w) \/ ApplyEvaluation(w)
    \/ CheckSilence(w) \/ EnqueueAlert(w) \/ EvaluationMatched(w)

Next ==
    \/ \E w \in Runners : TickerFires(w) \/ Start(w) \/ RunStep(w) \/ Crash(w)
    \/ \E r \in Rules : ChangeRule(r)
    \/ \E a \in Alerts : DataChanges(a)
    \/ \E i \in Ids : SilenceChanges(i) \/ SilenceStored(i)
    \/ TimePasses

Spec == Init /\ [][Next]_vars

\* Tickers fire, a tick starts a run, and a run goes on.
FairSpec ==
    Spec /\ \A w \in Runners : WF_vars(TickerFires(w) \/ Start(w) \/ RunStep(w))

-----------------------------------------------------------------------------
(* Properties. *)

\* The type of the state: a runner that is at a rule has listed it, with no more rules
\* than the limit.
TypeOK ==
    /\ mode \in [Rules -> Modes]
    /\ Sil!TypeOK
    /\ pc \in [Runners -> {"idle", "rules", "groups", "silence", "suppress", "notify"}]
    /\ todo \in [Runners -> Seq([rule : Rules, mode : Modes])]
    /\ \A w \in Runners : /\ Len(todo[w]) <= Limit
                         /\ pc[w] \notin {"idle", "rules"} => todo[w] # <<>>
    /\ groups \in [Runners -> SUBSET Groups]
    /\ cur \in [Runners -> SUBSET Groups]
    /\ chans \in [Runners -> SUBSET Channels]

\* An audit row tells what happened: a match that was notified has its alert and
\* a notification for every channel, queued by the same runner, whatever failed.
AuditTellsTruth ==
    \A x \in audit : x.what = "notified" =>
        /\ x.alert \in alerts
        /\ \A ch \in Channels : [by |-> x.by, alert |-> x.alert, channel |-> ch] \in tasks

\* While a rule is in dry_run, and no run under way listed it otherwise, nothing
\* is raised and nobody is notified for it.
DryRunIsDry ==
    [][\A r \in Rules :
         /\ mode[r] = "dry_run"
         /\ \A w \in Runners, i \in 1..Limit :
              i \in DOMAIN todo[w] /\ todo[w][i].rule = r => todo[w][i].mode = "dry_run"
         => \A g \in Groups :
              /\ <<r, g>> \in alerts' => <<r, g>> \in alerts
              /\ \A t \in tasks' \ tasks : t.alert # <<r, g>>]_vars

\* A run notifies nobody of what a silence matches that was in force at its time
\* and was in the table by then, as it still is.
SilencedRunsAreQuiet ==
    [][\A t \in tasks' \ tasks, i \in Ids :
         stored[i] # None /\ since[i] < at[t.by] => ~Sil!Matches(stored[i], Subject(t.alert), at[t.by])]_vars

Evaluating(r) == \E w \in Runners : pc[w] = "groups" /\ RuleOf(w) = r

\* Rules are evaluated at intervals: a rule that stays enabled has its turn, again
\* and again.
EveryRuleEvaluated == \A r \in Rules : Listed(r) ~> (~Listed(r) \/ Evaluating(r))

Demanded(a) == mode[a[1]] = "active" /\ a \in breached /\ ~Sil!IsSilenced(Subject(a), now)

\* Evaluation continues during a silence, and an alert that stays due is notified
\* on every channel, though runs fail or crash half way.
BreachNotified ==
    \A a \in Alerts :
        Demanded(a) ~> (~Demanded(a) \/ \A ch \in Channels : \E t \in tasks : t.alert = a /\ t.channel = ch)

\* A silence that was created without a start does not reach a run whose time is from
\* before the request, however late that run asks.
NeverReachesBack == Sil!NeverReachesBack

\* Whatever runs, operators and faults do, the silences and the times of the runs are
\* those of Silences.
ImplementsSilences == Sil!Spec
=============================================================================
