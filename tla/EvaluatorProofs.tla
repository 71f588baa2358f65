-------------------------- MODULE EvaluatorProofs --------------------------
(***************************************************************************)
(* Proofs about Evaluator and about Silences as Evaluator uses it, for any *)
(* rules, groups, channels, silences, bodies, labels and number of         *)
(* runners, faults and changes; and about RuleCondition, the conditions    *)
(* that Evaluator takes the outcome of, for any conditions however deep    *)
(* they nest.  Evaluator and RuleCondition share no state.                 *)
(***************************************************************************)
EXTENDS Evaluator, RuleCondition, WellFoundedInduction, TLAPS

-----------------------------------------------------------------------------
(* The silences on their own. *)

\* A silence whose start Create filled in, stored or not, starts then.
BornIsStart ==
    \A i \in Ids :
        born[i] # 0 => /\ stored[i] # None => stored[i].starts = born[i]
                       /\ asked[i] # None => asked[i].starts = born[i]

\* What Create is about to insert has a window that is open.
AskedOpen ==
    \A i \in Ids : asked[i] # None => asked[i].active /\ asked[i].starts < asked[i].ends

SilInv == Sil!TypeOK /\ Sil!CreatedWindowsOpen /\ AskedOpen /\ BornIsStart

-----------------------------------------------------------------------------
\* Normalize refuses an empty window, whatever is left out, and fills in the start.
LEMMA NormalizeOpens ==
    ASSUME NEW body \in Sil!Silence, now \in Nat \ {0}, Sil!Normalize(body) # None
    PROVE  /\ Sil!Normalize(body) \in Sil!Silence
           /\ Sil!Normalize(body).active
           /\ Sil!Normalize(body).starts < Sil!Normalize(body).ends
           /\ body.starts = 0 => Sil!Normalize(body).starts = now
  <1> DEFINE starts == IF body.starts = 0 THEN now ELSE body.starts
             made == [body EXCEPT !.starts = starts, !.active = TRUE]
  <1>1. starts \in Nat \ {0} /\ (body.starts = 0 => starts = now)
    BY DEF Sil!Silence
  <1>2. ~(body.ends = 0 \/ body.ends <= starts) /\ Sil!Normalize(body) = made
    BY DEF Sil!Normalize
  <1> HIDE DEF starts
  <1>3. made \in Sil!Silence /\ made.starts = starts /\ made.ends = body.ends /\ made.active
    BY <1>1 DEF Sil!Silence
  <1>4. starts < body.ends
    BY <1>1, <1>2 DEF Sil!Silence
  <1>q. QED BY <1>1, <1>2, <1>3, <1>4

\* A silence with fewer conditions matches whatever one with more does.
THEOREM WiderSilencesMore ==
    ASSUME NEW a, NEW b, NEW subject, NEW time,
           a.active = b.active, a.starts = b.starts, a.ends = b.ends,
           a.rule \in {Every, b.rule}, a.scope \in {Every, b.scope},
           \A k \in Keys : a.matchers[k] \in {None, b.matchers[k]},
           Sil!Matches(b, subject, time)
    PROVE  Sil!Matches(a, subject, time)
  <1>1. Sil!Match(subject.labels, a.matchers)
    BY DEF Sil!Matches, Sil!Match
  <1>q. QED BY <1>1 DEF Sil!Matches

-----------------------------------------------------------------------------
\* At first there are no silences and no runs.
LEMMA SilencesInit == Sil!Init /\ Sil!Admissible => SilInv
  BY DEF Sil!Init, Sil!Admissible, SilInv, Sil!TypeOK, Sil!CreatedWindowsOpen, AskedOpen, BornIsStart

\* Create has accepted a silence.
LEMMA AskKeeps ==
    ASSUME SilInv, Sil!Admissible, NEW i \in Ids, NEW body \in Bodies, Sil!Ask(i, body)
    PROVE  SilInv'
  <1> USE DEF SilInv, Sil!TypeOK, Sil!Ask
  <1> DEFINE made == Sil!Normalize(body)
  <1>1. body \in Sil!Silence /\ None \notin Sil!Silence
    BY DEF Sil!Admissible
  <1>2. /\ made \in Sil!Silence /\ made.active /\ made.starts < made.ends
        /\ body.starts = 0 => made.starts = now
    BY <1>1, NormalizeOpens
  <1>3. asked' = [asked EXCEPT ![i] = made] /\ stored[i] = None
    OBVIOUS
  <1> HIDE DEF made
  <1>4. Sil!TypeOK'
    <2>1. asked' \in [Ids -> Sil!Silence \cup {None}] /\ born' \in [Ids -> 0..now]
      BY <1>2, <1>3
    <2>2. \A j \in Ids : stored'[j] # None => asked'[j] = None
      BY <1>3
    <2>3. \A j \in Ids : born'[j] # 0 => j \notin edited'
      BY <1>3
    <2>q. QED BY <2>1, <2>2, <2>3
  <1>5. Sil!CreatedWindowsOpen'
    BY DEF Sil!CreatedWindowsOpen
  <1>6. AskedOpen'
    BY <1>2, <1>3 DEF AskedOpen
  <1>7. BornIsStart'
    BY <1>2, <1>3 DEF BornIsStart
  <1>q. QED BY <1>4, <1>5, <1>6, <1>7

\* The INSERT, made or failed.
LEMMA InsertKeeps ==
    ASSUME SilInv, Sil!Admissible, NEW i \in Ids, Sil!Create(i) \/ Sil!CreateFails(i)
    PROVE  SilInv'
  <1> USE DEF SilInv, Sil!TypeOK, Sil!Create, Sil!CreateFails
  <1>1. None \notin Sil!Silence
    BY DEF Sil!Admissible
  <1>2. Sil!TypeOK'
    BY <1>1
  <1>3. Sil!CreatedWindowsOpen'
    BY <1>1 DEF Sil!CreatedWindowsOpen, AskedOpen
  <1>4. AskedOpen'
    BY DEF AskedOpen
  <1>5. BornIsStart'
    BY <1>1 DEF BornIsStart
  <1>q. QED BY <1>2, <1>3, <1>4, <1>5

\* An edit.
LEMMA EditKeeps ==
    ASSUME SilInv, Sil!Admissible, NEW i \in Ids, NEW body \in Bodies, Sil!Update(i, body)
    PROVE  SilInv'
  <1> USE DEF SilInv, Sil!TypeOK, Sil!Update
  <1>1. body \in Sil!Silence /\ None \notin Sil!Silence
    BY DEF Sil!Admissible
  <1>2. Sil!TypeOK'
    BY <1>1
  <1>3. Sil!CreatedWindowsOpen'
    BY DEF Sil!CreatedWindowsOpen
  <1>4. AskedOpen' /\ BornIsStart'
    BY DEF AskedOpen, BornIsStart
  <1>q. QED BY <1>2, <1>3, <1>4

\* The clock and the times of the runs leave the silences alone.
LEMMA TimeKeeps ==
    ASSUME SilInv,
           \/ Sil!Tick
           \/ \E c \in Runners : Sil!Fires(c) \/ Sil!Begin(c) \/ Sil!End(c) \/ Sil!Die(c)
    PROVE  SilInv'
  <1>1. UNCHANGED <<stored, asked, edited, born, since>>
    BY DEF Sil!Tick, Sil!Fires, Sil!Begin, Sil!End, Sil!Die, Sil!observers
  <1>2. Sil!CreatedWindowsOpen' /\ AskedOpen' /\ BornIsStart'
    BY <1>1 DEF SilInv, Sil!CreatedWindowsOpen, AskedOpen, BornIsStart
  <1>3. /\ now' \in Nat \ {0} /\ now' >= now
        /\ due' \in [Runners -> 0..now'] /\ at' \in [Runners -> 0..now']
    BY DEF SilInv, Sil!TypeOK, Sil!Tick, Sil!Fires, Sil!Begin, Sil!End, Sil!Die
  <1>4. born \in [Ids -> 0..now'] /\ since \in [Ids -> 0..now']
    BY <1>3 DEF SilInv, Sil!TypeOK
  <1>q. QED BY <1>1, <1>2, <1>3, <1>4 DEF SilInv, Sil!TypeOK

\* Every step of Silences keeps the invariant.
LEMMA SilencesNext == Sil!Admissible /\ SilInv /\ [Sil!Next]_(Sil!vars) => SilInv'
  <1> SUFFICES ASSUME Sil!Admissible, SilInv, [Sil!Next]_(Sil!vars) PROVE SilInv'
    OBVIOUS
  <1>1. CASE UNCHANGED Sil!vars
    BY <1>1 DEF Sil!vars, Sil!observers, SilInv, Sil!TypeOK, Sil!CreatedWindowsOpen, AskedOpen, BornIsStart
  <1>2. ASSUME NEW i \in Ids, NEW body \in Bodies, Sil!Ask(i, body) PROVE SilInv'
    BY <1>2, AskKeeps
  <1>3. ASSUME NEW i \in Ids, NEW body \in Bodies, Sil!Update(i, body) PROVE SilInv'
    BY <1>3, EditKeeps
  <1>4. ASSUME NEW i \in Ids, Sil!Create(i) \/ Sil!CreateFails(i) PROVE SilInv'
    BY <1>4, InsertKeeps
  <1>5. CASE \/ Sil!Tick
             \/ \E c \in Runners : Sil!Fires(c) \/ Sil!Begin(c) \/ Sil!End(c) \/ Sil!Die(c)
    BY <1>5, TimeKeeps
  <1>q. QED BY <1>1, <1>2, <1>3, <1>4, <1>5 DEF Sil!Next

\* The invariant holds in every behaviour of Silences.
LEMMA SilencesInvariance == Sil!Spec => []SilInv
  <1>1. Sil!Admissible
    BY EvaluatorAssumption
  <1>2. Sil!Init => SilInv
    BY <1>1, SilencesInit
  <1>3. SilInv /\ [Sil!Next]_(Sil!vars) => SilInv'
    BY <1>1, SilencesNext
  <1>q. QED BY <1>2, <1>3, PTL DEF Sil!Spec

\* The state of Silences keeps its type.
THEOREM SilencesTyped == Sil!Spec => []Sil!TypeOK
  <1>1. SilInv => Sil!TypeOK
    BY DEF SilInv
  <1>q. QED BY <1>1, SilencesInvariance, PTL

\* However the times of a request are chosen, a silence that was created and not
\* edited ends after it starts.
THEOREM CreatedOpen == Sil!Spec => []Sil!CreatedWindowsOpen
  <1>1. SilInv => Sil!CreatedWindowsOpen
    BY DEF SilInv
  <1>q. QED BY <1>1, SilencesInvariance, PTL

\* A silence created without a start reaches no run whose time is from before.
THEOREM NoReachBack == Sil!Spec => []Sil!NeverReachesBack
  <1>1. SilInv => Sil!NeverReachesBack
    BY DEF SilInv, BornIsStart, Sil!NeverReachesBack, Sil!Matches
  <1>q. QED BY <1>1, SilencesInvariance, PTL

-----------------------------------------------------------------------------
(* The runners: the inductive invariant. *)

Steps == {"idle", "rules", "groups", "silence", "suppress", "notify"}

\* What a runner remembers.
RunsTyped ==
    /\ mode \in [Rules -> Modes]
    /\ pc \in [Runners -> Steps]
    /\ todo \in [Runners -> Seq([rule : Rules, mode : Modes])]
    /\ groups \in [Runners -> SUBSET Groups]
    /\ cur \in [Runners -> SUBSET Groups]
    /\ chans \in [Runners -> SUBSET Channels]

\* A runner that is at a rule has listed it.
AtRule(w) == pc[w] \notin {"idle", "rules"} => todo[w] # <<>>

\* A list has no more rules than the limit.
Short(w) == Len(todo[w]) <= Limit

\* A match is handled only if its rule is no dry run, and its alert is there.
Handled(w) ==
    pc[w] \in {"silence", "suppress", "notify"} =>
        /\ ModeOf(w) # "dry_run"
        /\ \A g \in cur[w] : AlertOf(w, g) \in alerts

\* A runner handles one match at a time.
Single(w) == \A g, h \in cur[w] : g = h

\* The channels that are done have their notification.
Queued(w) ==
    pc[w] = "notify" =>
        \A g \in cur[w], ch \in Channels \ chans[w] :
            [by |-> w, alert |-> AlertOf(w, g), channel |-> ch] \in tasks

\* A runner that notifies has found no silence, and what was stored since was stored
\* after its time.
Clear(w) ==
    \A g \in cur[w], i \in Ids :
        stored[i] # None /\ since[i] < at[w] => ~Sil!Matches(stored[i], Subject(AlertOf(w, g)), at[w])

Unsilenced(w) == pc[w] = "notify" => Clear(w)

Runs == \A w \in Runners : AtRule(w) /\ Short(w) /\ Single(w) /\ Handled(w) /\ Queued(w) /\ Unsilenced(w)

IInv == RunsTyped /\ Sil!TypeOK /\ Runs /\ AuditTellsTruth

-----------------------------------------------------------------------------
(* The silences. *)

\* A step of the evaluator is one of Silences, or leaves them alone.
LEMMA SilenceStep == [Next]_vars => [Sil!Next]_(Sil!vars)
  <1> SUFFICES ASSUME [Next]_vars PROVE [Sil!Next]_(Sil!vars)
    OBVIOUS
  <1> USE DEF Sil!vars, Sil!observers, silenceVars, worldVars
  <1>1. CASE UNCHANGED vars
    BY <1>1 DEF vars
  <1>2. ASSUME NEW w \in Runners, TickerFires(w) \/ Start(w) \/ Finish(w) \/ Crash(w)
        PROVE  Sil!Next
    BY <1>2 DEF TickerFires, Start, Finish, Crash, Sil!Next
  <1>3. ASSUME NEW w \in Runners,
               QueryAggregates(w) \/ RuleDone(w) \/ DryRunMatched(w) \/ ApplyEvaluation(w)
               \/ CheckSilence(w) \/ EnqueueAlert(w) \/ EvaluationMatched(w)
        PROVE  UNCHANGED Sil!vars
    BY <1>3 DEF QueryAggregates, RuleDone, DryRunMatched, ApplyEvaluation, CheckSilence, EnqueueAlert,
                EvaluationMatched
  <1>4. ASSUME NEW r \in Rules, ChangeRule(r) PROVE UNCHANGED Sil!vars
    BY <1>4 DEF ChangeRule
  <1>5. ASSUME NEW a \in Alerts, DataChanges(a) PROVE UNCHANGED Sil!vars
    BY <1>5 DEF DataChanges
  <1>6. ASSUME NEW i \in Ids, SilenceChanges(i) \/ SilenceStored(i) PROVE Sil!Next
    BY <1>6 DEF SilenceChanges, SilenceStored, Sil!Next
  <1>7. CASE TimePasses
    BY <1>7 DEF TimePasses, Sil!Next
  <1>q. QED BY <1>1, <1>2, <1>3, <1>4, <1>5, <1>6, <1>7 DEF Next, RunStep

\* The evaluator implements Silences.
THEOREM SilencesImplemented == Spec => ImplementsSilences
  <1>1. Init => Sil!Init
    BY DEF Init
  <1>q. QED BY <1>1, SilenceStep, PTL DEF Spec, ImplementsSilences, Sil!Spec

\* So a silence created without a start has no effect on runs from before the request
\* (NeverReachesBack).
THEOREM NoneReachBack == Spec => []NeverReachesBack
  BY SilencesImplemented, NoReachBack, PTL DEF ImplementsSilences, NeverReachesBack

-----------------------------------------------------------------------------
(* The invariant of the runs. *)

\* A list is a sequence of at most Limit rules.
LEMMA ListTyped ==
    ASSUME NEW rules \in BoundedSeq(Rules, Limit), mode \in [Rules -> Modes]
    PROVE  LET list == [i \in DOMAIN rules |-> [rule |-> rules[i], mode |-> mode[rules[i]]]]
           IN  list \in Seq([rule : Rules, mode : Modes]) /\ Len(list) <= Limit
  <1>1. PICK n \in 0..Limit : rules \in [1..n -> Rules]
    BY DEF BoundedSeq, SeqOf
  <1> DEFINE list == [i \in DOMAIN rules |-> [rule |-> rules[i], mode |-> mode[rules[i]]]]
  <1>2. n \in Nat /\ n <= Limit
    BY EvaluatorAssumption
  <1>3. list \in [1..n -> [rule : Rules, mode : Modes]]
    BY <1>1
  <1>4. list \in Seq([rule : Rules, mode : Modes]) /\ Len(list) = n
    BY <1>2, <1>3
  <1>q. QED BY <1>2, <1>4

\* A runner that forgets its list.
LEMMA Forgets ==
    ASSUME NEW S, NEW w \in Runners, todo \in [Runners -> Seq(S)], todo' = [todo EXCEPT ![w] = <<>>]
    PROVE  todo' \in [Runners -> Seq(S)] /\ Len(todo'[w]) = 0
  <1>1. <<>> \in Seq(S) /\ Len(<<>>) = 0
    OBVIOUS
  <1>q. QED BY <1>1

\* At first nobody runs.
LEMMA RunsInit == Init => IInv
  <1> SUFFICES ASSUME Init PROVE IInv
    OBVIOUS
  <1>1. Sil!TypeOK
    BY SilencesInit, EvaluatorAssumption DEF Init, SilInv
  <1>2. RunsTyped
    BY DEF Init, RunsTyped, Modes, Steps
  <1>3. Runs
    <2>1. Limit \in Nat
      BY EvaluatorAssumption
    <2>q. QED BY <2>1 DEF Init, Runs, AtRule, Short, Single, Handled, Queued, Unsilenced
  <1>4. AuditTellsTruth
    BY DEF Init, AuditTellsTruth
  <1>q. QED BY <1>1, <1>2, <1>3, <1>4 DEF IInv

\* The types survive every step of a run.
LEMMA RunKeepsTypes ==
    ASSUME IInv, NEW w \in Runners, Start(w) \/ RunStep(w) \/ Crash(w)
    PROVE  RunsTyped' /\ Short(w)' /\ AtRule(w)'
  <1> USE DEF IInv, RunsTyped, Runs, Steps
  <1> DEFINE Entry == [rule : Rules, mode : Modes]
  <1>1. CASE Start(w)
    <2>1. PICK rules \in BoundedSeq(Rules, Limit) :
            todo' = [todo EXCEPT ![w] =
                       [i \in DOMAIN rules |-> [rule |-> rules[i], mode |-> mode[rules[i]]]]]
      BY <1>1 DEF Start
    <2>2. todo'[w] \in Seq(Entry) /\ Len(todo'[w]) <= Limit
      BY <2>1, ListTyped
    <2>3. todo' \in [Runners -> Seq(Entry)]
      BY <2>1, <2>2
    <2>q. QED BY <1>1, <2>2, <2>3 DEF Start, tableVars, AtRule, Short
  <1>2. ASSUME LeaveRule(w), UNCHANGED mode, todo[w] # <<>> PROVE RunsTyped' /\ Short(w)' /\ AtRule(w)'
    <2>1. todo[w] \in Seq(Entry) /\ Len(todo[w]) <= Limit /\ Limit \in Nat
      BY EvaluatorAssumption DEF Short
    <2> HIDE DEF Entry
    <2>2. Tail(todo[w]) \in Seq(Entry) /\ Len(Tail(todo[w])) <= Limit
      BY <1>2, <2>1
    <2>3. todo' = [todo EXCEPT ![w] = Tail(todo[w])]
      BY <1>2 DEF LeaveRule
    <2>4. todo' \in [Runners -> Seq(Entry)] /\ todo'[w] = Tail(todo[w])
      BY <2>2, <2>3 DEF Entry
    <2>q. QED BY <1>2, <2>2, <2>4 DEF LeaveRule, AtRule, Short, Entry
  <1>3. CASE Finish(w)
    BY <1>3 DEF Finish, tableVars, AtRule, Short
  <1>4. CASE QueryAggregates(w)
    <2>1. CASE RuleError(w)
      BY <1>2, <1>4, <2>1 DEF QueryAggregates, RuleError, tableVars
    <2>2. CASE ~RuleError(w)
      BY <1>4, <2>2 DEF QueryAggregates, Matches, tableVars, AtRule, Short
    <2>q. QED BY <2>1, <2>2
  <1>5. CASE RuleDone(w)
    BY <1>2, <1>5 DEF RuleDone, tableVars, AtRule
  <1>6. CASE DryRunMatched(w)
    BY <1>6 DEF DryRunMatched, AtRule, Short
  <1>7. CASE ApplyEvaluation(w)
    <2>1. CASE RuleError(w)
      BY <1>2, <1>7, <2>1 DEF ApplyEvaluation, RuleError, AtRule
    <2>2. CASE ~RuleError(w)
      <3>1. PICK g \in groups[w] :
              /\ pc' = [pc EXCEPT ![w] = "silence"]
              /\ groups' = [groups EXCEPT ![w] = @ \ {g}]
              /\ cur' = [cur EXCEPT ![w] = {g}]
              /\ UNCHANGED <<todo, chans>>
        BY <1>7, <2>2 DEF ApplyEvaluation
      <3>2. pc[w] = "groups" /\ mode' = mode /\ g \in Groups
        BY <1>7 DEF ApplyEvaluation
      <3>q. QED BY <3>1, <3>2 DEF AtRule, Short
    <2>q. QED BY <2>1, <2>2
  <1>8. CASE CheckSilence(w)
    <2>1. CASE RuleError(w)
      BY <1>2, <1>8, <2>1 DEF CheckSilence, RuleError, AtRule, tableVars
    <2>2. CASE ~RuleError(w)
      BY <1>8, <2>2 DEF CheckSilence, AtRule, Short, tableVars
    <2>q. QED BY <2>1, <2>2
  <1>9. CASE EnqueueAlert(w)
    <2>1. CASE RuleError(w)
      BY <1>2, <1>9, <2>1 DEF EnqueueAlert, RuleError, AtRule
    <2>2. CASE ~RuleError(w)
      BY <1>9, <2>2 DEF EnqueueAlert, AtRule, Short
    <2>q. QED BY <2>1, <2>2
  <1>10. CASE EvaluationMatched(w)
    BY <1>10 DEF EvaluationMatched, AtRule, Short
  <1>11. CASE Crash(w)
    <2>1. todo' = [todo EXCEPT ![w] = <<>>] /\ todo'[w] = <<>>
      BY <1>11 DEF Crash
    <2>2. todo' \in [Runners -> Seq(Entry)] /\ Len(todo'[w]) = 0
      BY <2>1, Forgets
    <2>3. Limit \in Nat
      BY EvaluatorAssumption
    <2>4. Short(w)'
      BY <2>2, <2>3 DEF Short
    <2>q. QED BY <1>11, <2>2, <2>4 DEF Crash, tableVars, AtRule
  <1>q. QED BY <1>1, <1>3, <1>4, <1>5, <1>6, <1>7, <1>8, <1>9, <1>10, <1>11 DEF RunStep

\* What a runner found about the silences is so while neither they nor the run change.
LEMMA ClearStays ==
    ASSUME NEW w \in Runners, Clear(w), UNCHANGED <<todo[w], cur[w], at[w], stored, since>>
    PROVE  Clear(w)'
  <1>1. \A g : AlertOf(w, g)' = AlertOf(w, g)
    BY DEF AlertOf, RuleOf
  <1>q. QED BY <1>1 DEF Clear, Subject, Sil!Matches, Sil!Match

\* A step of one run leaves what is known of another: alerts and notifications are
\* only added, and the silences stay.
LEMMA OthersKeep ==
    ASSUME IInv, NEW w \in Runners, NEW v \in Runners, v # w,
           Start(w) \/ RunStep(w) \/ Crash(w)
    PROVE  AtRule(v)' /\ Short(v)' /\ Single(v)' /\ Handled(v)' /\ Queued(v)' /\ Unsilenced(v)'
  <1>1. /\ pc'[v] = pc[v] /\ todo'[v] = todo[v] /\ cur'[v] = cur[v] /\ chans'[v] = chans[v]
        /\ at'[v] = at[v] /\ alerts \subseteq alerts' /\ tasks \subseteq tasks'
        /\ UNCHANGED <<stored, since>>
    <2> USE DEF IInv, RunsTyped, Sil!TypeOK, LeaveRule, RuleError, tableVars, worldVars, silenceVars,
                Sil!observers
    <2>1. CASE Start(w) \/ Finish(w) \/ Crash(w)
      BY <2>1 DEF Start, Finish, Crash, Sil!Begin, Sil!End, Sil!Die
    <2>2. CASE QueryAggregates(w) \/ RuleDone(w) \/ DryRunMatched(w)
      BY <2>2 DEF QueryAggregates, RuleDone, DryRunMatched
    <2>3. CASE ApplyEvaluation(w) \/ CheckSilence(w)
      BY <2>3 DEF ApplyEvaluation, CheckSilence
    <2>4. CASE EnqueueAlert(w) \/ EvaluationMatched(w)
      BY <2>4 DEF EnqueueAlert, EvaluationMatched
    <2>q. QED BY <2>1, <2>2, <2>3, <2>4 DEF RunStep
  <1>2. AtRule(v) /\ Short(v) /\ Single(v) /\ Handled(v) /\ Queued(v) /\ Unsilenced(v)
    BY DEF IInv, Runs
  <1>3. ModeOf(v)' = ModeOf(v) /\ \A g : AlertOf(v, g)' = AlertOf(v, g)
    BY <1>1 DEF ModeOf, AlertOf, RuleOf
  <1>4. AtRule(v)' /\ Short(v)' /\ Single(v)'
    BY <1>1, <1>2 DEF AtRule, Short, Single
  <1>5. Handled(v)'
    BY <1>1, <1>2, <1>3 DEF Handled
  <1>6. Queued(v)'
    BY <1>1, <1>2, <1>3 DEF Queued
  <1>7. Unsilenced(v)'
    BY <1>1, <1>2, ClearStays DEF Unsilenced
  <1>q. QED BY <1>4, <1>5, <1>6, <1>7

\* The runner that steps handles a match only if its rule is no dry run.
LEMMA SelfHandled ==
    ASSUME IInv, NEW w \in Runners, Start(w) \/ RunStep(w) \/ Crash(w)
    PROVE  Handled(w)'
  <1> USE DEF IInv, RunsTyped, Runs, Handled, ModeOf, AlertOf, RuleOf
  <1>1. CASE Start(w) \/ Finish(w) \/ Crash(w)
    BY <1>1 DEF Start, Finish, Crash
  <1>2. CASE RuleError(w) \/ LeaveRule(w)
    BY <1>2 DEF RuleError, LeaveRule
  <1>3. CASE QueryAggregates(w) \/ RuleDone(w) \/ DryRunMatched(w) \/ EvaluationMatched(w)
    BY <1>2, <1>3 DEF QueryAggregates, RuleDone, DryRunMatched, EvaluationMatched
  <1>4. CASE ApplyEvaluation(w) /\ ~RuleError(w)
    <2>1. PICK g \in groups[w] :
            /\ alerts' = alerts \cup {AlertOf(w, g)}
            /\ pc' = [pc EXCEPT ![w] = "silence"]
            /\ cur' = [cur EXCEPT ![w] = {g}]
            /\ UNCHANGED todo
      BY <1>4 DEF ApplyEvaluation
    <2>q. QED BY <1>4, <2>1 DEF ApplyEvaluation
  <1>5. CASE CheckSilence(w) /\ ~RuleError(w)
    BY <1>5 DEF CheckSilence, tableVars
  <1>6. CASE EnqueueAlert(w) /\ ~RuleError(w)
    BY <1>6 DEF EnqueueAlert
  <1>q. QED BY <1>1, <1>2, <1>3, <1>4, <1>5, <1>6 DEF RunStep

\* The runner that steps handles one match at a time.
LEMMA SelfSingle ==
    ASSUME IInv, NEW w \in Runners, Start(w) \/ RunStep(w) \/ Crash(w)
    PROVE  Single(w)'
  <1> USE DEF IInv, RunsTyped, Runs, Single
  <1>1. CASE Start(w) \/ Finish(w) \/ Crash(w)
    BY <1>1 DEF Start, Finish, Crash
  <1>2. CASE RuleError(w) \/ LeaveRule(w)
    BY <1>2 DEF RuleError, LeaveRule
  <1>3. CASE QueryAggregates(w) \/ RuleDone(w) \/ DryRunMatched(w) \/ EvaluationMatched(w)
    BY <1>2, <1>3 DEF QueryAggregates, RuleDone, DryRunMatched, EvaluationMatched
  <1>4. CASE (ApplyEvaluation(w) \/ CheckSilence(w) \/ EnqueueAlert(w)) /\ ~RuleError(w)
    BY <1>4 DEF ApplyEvaluation, CheckSilence, EnqueueAlert
  <1>q. QED BY <1>1, <1>2, <1>3, <1>4 DEF RunStep

\* The channels it is done with have their notification.
LEMMA SelfQueued ==
    ASSUME IInv, NEW w \in Runners, Start(w) \/ RunStep(w) \/ Crash(w)
    PROVE  Queued(w)'
  <1> USE DEF IInv, RunsTyped, Runs, Queued, AlertOf, RuleOf
  <1>1. CASE Start(w) \/ Finish(w) \/ Crash(w)
    BY <1>1 DEF Start, Finish, Crash
  <1>2. CASE RuleError(w) \/ LeaveRule(w)
    BY <1>2 DEF RuleError, LeaveRule
  <1>3. CASE QueryAggregates(w) \/ RuleDone(w) \/ DryRunMatched(w) \/ EvaluationMatched(w)
    BY <1>2, <1>3 DEF QueryAggregates, RuleDone, DryRunMatched, EvaluationMatched
  <1>4. CASE ApplyEvaluation(w) /\ ~RuleError(w)
    BY <1>4 DEF ApplyEvaluation
  <1>5. CASE CheckSilence(w) /\ ~RuleError(w)
    <2>1. pc'[w] = "notify" => chans'[w] = Channels
      BY <1>5 DEF CheckSilence
    <2>q. QED BY <2>1
  <1>6. CASE EnqueueAlert(w) /\ ~RuleError(w)
    <2>1. PICK ch \in chans[w], g \in cur[w] :
            /\ tasks' = tasks \cup {[by |-> w, alert |-> AlertOf(w, g), channel |-> ch]}
            /\ chans' = [chans EXCEPT ![w] = @ \ {ch}]
            /\ UNCHANGED <<pc, todo, cur>>
      BY <1>6 DEF EnqueueAlert
    <2>2. \A h \in cur[w] : h = g
      BY DEF Single
    <2>q. QED BY <1>6, <2>1, <2>2 DEF EnqueueAlert
  <1>q. QED BY <1>1, <1>2, <1>3, <1>4, <1>5, <1>6 DEF RunStep

\* It goes on to notify only if no silence matches.
LEMMA SelfUnsilenced ==
    ASSUME IInv, NEW w \in Runners, Start(w) \/ RunStep(w) \/ Crash(w)
    PROVE  Unsilenced(w)'
  <1> USE DEF IInv, RunsTyped, Runs, Unsilenced
  <1>1. CASE Start(w) \/ Finish(w) \/ Crash(w)
    BY <1>1 DEF Start, Finish, Crash
  <1>2. CASE RuleError(w) \/ LeaveRule(w)
    BY <1>2 DEF RuleError, LeaveRule
  <1>3. CASE QueryAggregates(w) \/ RuleDone(w) \/ DryRunMatched(w) \/ EvaluationMatched(w)
    BY <1>2, <1>3 DEF QueryAggregates, RuleDone, DryRunMatched, EvaluationMatched
  <1>4. CASE ApplyEvaluation(w) /\ ~RuleError(w)
    BY <1>4 DEF ApplyEvaluation
  <1>5. CASE CheckSilence(w) /\ ~RuleError(w)
    <2>1. /\ pc'[w] = "notify" => ~IsSilenced(w)
          /\ UNCHANGED <<todo, cur, stored, since, at>>
      BY <1>5 DEF CheckSilence, tableVars, worldVars, silenceVars
    <2>2. ASSUME ~IsSilenced(w), NEW g \in cur[w], NEW i \in Ids, stored[i] # None
          PROVE  ~Sil!Matches(stored[i], Subject(AlertOf(w, g)), at[w])
      <3>1. i \notin Sil!ListActive(at[w]) \/ ~Sil!Matches(stored[i], Subject(AlertOf(w, g)), at[w])
        BY <2>2 DEF IsSilenced, Sil!IsSilenced
      <3>2. stored[i] \in Sil!Silence /\ at[w] \in Nat
        BY <2>2 DEF Sil!TypeOK
      <3>q. QED BY <2>2, <3>1, <3>2 DEF Sil!ListActive, Sil!Matches, Sil!Silence
    <2>3. ~IsSilenced(w) => Clear(w)
      BY <2>2 DEF Clear
    <2>q. QED BY <2>1, <2>3, ClearStays
  <1>6. CASE EnqueueAlert(w) /\ ~RuleError(w)
    BY <1>6, ClearStays DEF EnqueueAlert, worldVars, silenceVars
  <1>q. QED BY <1>1, <1>2, <1>3, <1>4, <1>5, <1>6 DEF RunStep

\* Rows of the audit are about matches that were dealt with.
LEMMA RunKeepsAudit ==
    ASSUME IInv, NEW w \in Runners, Start(w) \/ RunStep(w) \/ Crash(w)
    PROVE  AuditTellsTruth'
  <1> USE DEF IInv, AuditTellsTruth
  <1>1. ASSUME alerts \subseteq alerts', tasks \subseteq tasks',
               \A x \in audit' \ audit : x.what = "notified" =>
                   /\ x.alert \in alerts
                   /\ \A ch \in Channels : [by |-> x.by, alert |-> x.alert, channel |-> ch] \in tasks
        PROVE  AuditTellsTruth'
    BY <1>1
  <1>2. CASE Start(w) \/ Finish(w) \/ Crash(w) \/ QueryAggregates(w) \/ RuleDone(w) \/ CheckSilence(w)
    BY <1>1, <1>2 DEF Start, Finish, Crash, QueryAggregates, RuleDone, CheckSilence, tableVars
  <1>3. CASE ApplyEvaluation(w) \/ EnqueueAlert(w)
    BY <1>1, <1>3 DEF ApplyEvaluation, EnqueueAlert
  <1>4. CASE DryRunMatched(w)
    BY <1>1, <1>4 DEF DryRunMatched, Record
  <1>5. CASE EvaluationMatched(w)
    <2>1. chans[w] = {} /\ alerts' = alerts /\ tasks' = tasks
      BY <1>5 DEF EvaluationMatched
    <2>2. PICK g \in cur[w] : Record(w, g, IF pc[w] = "suppress" THEN "silenced" ELSE "notified")
      BY <1>5 DEF EvaluationMatched
    <2>3. CASE pc[w] = "suppress"
      BY <1>1, <2>1, <2>2, <2>3 DEF Record
    <2>4. CASE pc[w] = "notify"
      <3>1. /\ AlertOf(w, g) \in alerts
            /\ \A ch \in Channels : [by |-> w, alert |-> AlertOf(w, g), channel |-> ch] \in tasks
        BY <2>1, <2>4 DEF Runs, Handled, Queued
      <3>q. QED BY <1>1, <2>1, <2>2, <3>1 DEF Record
    <2>q. QED BY <1>5, <2>3, <2>4 DEF EvaluationMatched
  <1>q. QED BY <1>2, <1>3, <1>4, <1>5 DEF RunStep

\* What operators, the data and the clock do leaves the runs alone; a silence that is
\* stored or edited is so no earlier than the time of any run.
LEMMA WorldKeeps ==
    ASSUME IInv,
           \/ \E r \in Rules : ChangeRule(r)
           \/ \E a \in Alerts : DataChanges(a)
           \/ \E i \in Ids : SilenceChanges(i) \/ SilenceStored(i)
           \/ \E w \in Runners : TickerFires(w)
           \/ TimePasses
           \/ UNCHANGED vars
    PROVE  RunsTyped' /\ Runs' /\ AuditTellsTruth'
  <1>1. /\ UNCHANGED <<pc, todo, groups, cur, chans, alerts, tasks, audit, at>>
        /\ mode' \in [Rules -> Modes]
        /\ \A i \in Ids : (stored'[i] = stored[i] /\ since'[i] = since[i]) \/ since'[i] = now
    <2> USE DEF IInv, RunsTyped, Sil!TypeOK, Modes, tableVars, runVars, worldVars, silenceVars, Sil!observers
    <2>1. ASSUME NEW r \in Rules, ChangeRule(r)
          PROVE  /\ UNCHANGED <<pc, todo, groups, cur, chans, alerts, tasks, audit, at, stored, since>>
                 /\ mode' \in [Rules -> Modes]
      BY <2>1 DEF ChangeRule
    <2>2. ASSUME NEW a \in Alerts, DataChanges(a)
          PROVE  UNCHANGED <<pc, todo, groups, cur, chans, alerts, tasks, audit, at, stored, since, mode>>
      BY <2>2 DEF DataChanges
    <2>3. ASSUME NEW j \in Ids, SilenceChanges(j) \/ SilenceStored(j)
          PROVE  /\ UNCHANGED <<pc, todo, groups, cur, chans, alerts, tasks, audit, at, mode>>
                 /\ \A i \in Ids : (stored'[i] = stored[i] /\ since'[i] = since[i]) \/ since'[i] = now
      BY <2>3 DEF SilenceChanges, SilenceStored, Sil!Ask, Sil!Update, Sil!Create, Sil!CreateFails
    <2>4. ASSUME NEW w \in Runners, TickerFires(w)
          PROVE  UNCHANGED <<pc, todo, groups, cur, chans, alerts, tasks, audit, at, stored, since, mode>>
      BY <2>4 DEF TickerFires, Sil!Fires
    <2>5. ASSUME TimePasses
          PROVE  UNCHANGED <<pc, todo, groups, cur, chans, alerts, tasks, audit, at, stored, since, mode>>
      BY <2>5 DEF TimePasses, Sil!Tick
    <2>6. ASSUME UNCHANGED vars
          PROVE  UNCHANGED <<pc, todo, groups, cur, chans, alerts, tasks, audit, at, stored, since, mode>>
      BY <2>6 DEF vars
    <2>q. QED BY <2>1, <2>2, <2>3, <2>4, <2>5, <2>6
  <1>2. RunsTyped' /\ AuditTellsTruth'
    BY <1>1 DEF IInv, RunsTyped, AuditTellsTruth
  <1>3. ASSUME NEW w \in Runners
        PROVE  AtRule(w)' /\ Short(w)' /\ Single(w)' /\ Handled(w)' /\ Queued(w)' /\ Unsilenced(w)'
    <2>1. AtRule(w) /\ Short(w) /\ Single(w) /\ Handled(w) /\ Queued(w) /\ Unsilenced(w)
      BY DEF IInv, Runs
    <2>2. ModeOf(w)' = ModeOf(w) /\ \A g : AlertOf(w, g)' = AlertOf(w, g)
      BY <1>1 DEF ModeOf, AlertOf, RuleOf
    <2>3. AtRule(w)' /\ Short(w)' /\ Single(w)' /\ Handled(w)' /\ Queued(w)'
      BY <1>1, <2>1, <2>2 DEF AtRule, Short, Single, Handled, Queued
    <2>4. Unsilenced(w)'
      <3> SUFFICES ASSUME pc[w] = "notify", NEW g \in cur[w], NEW i \in Ids,
                          stored'[i] # None, since'[i] < at[w]
                   PROVE  ~Sil!Matches(stored'[i], Subject(AlertOf(w, g)), at[w])
        BY <1>1, <2>2 DEF Unsilenced, Clear, Subject, Sil!Matches, Sil!Match
      <3>1. at[w] \in 0..now /\ now \in Nat
        BY DEF IInv, Sil!TypeOK
      <3>2. stored'[i] = stored[i] /\ since'[i] = since[i]
        BY <1>1, <3>1
      <3>q. QED BY <2>1, <3>2 DEF Unsilenced, Clear
    <2>q. QED BY <2>1, <2>3, <2>4
  <1>q. QED BY <1>2, <1>3 DEF Runs

\* Every step keeps the invariant.
LEMMA RunsNext == IInv /\ SilInv /\ [Next]_vars => IInv' /\ SilInv'
  <1> SUFFICES ASSUME IInv, SilInv, [Next]_vars PROVE IInv' /\ SilInv'
    OBVIOUS
  <1>1. SilInv'
    BY SilenceStep, SilencesNext, EvaluatorAssumption
  <1>2. Sil!TypeOK'
    BY <1>1 DEF SilInv
  <1>3. ASSUME NEW w \in Runners, Start(w) \/ RunStep(w) \/ Crash(w)
        PROVE  RunsTyped' /\ Runs' /\ AuditTellsTruth'
    <2>1. RunsTyped' /\ AtRule(w)' /\ Short(w)'
      BY <1>3, RunKeepsTypes
    <2>2. Single(w)' /\ Handled(w)' /\ Queued(w)' /\ Unsilenced(w)'
      BY <1>3, SelfSingle, SelfHandled, SelfQueued, SelfUnsilenced
    <2>3. AuditTellsTruth'
      BY <1>3, RunKeepsAudit
    <2>4. ASSUME NEW v \in Runners, v # w
          PROVE  AtRule(v)' /\ Short(v)' /\ Single(v)' /\ Handled(v)' /\ Queued(v)' /\ Unsilenced(v)'
      BY <1>3, <2>4, OthersKeep
    <2>q. QED BY <2>1, <2>2, <2>3, <2>4 DEF Runs
  <1>4. RunsTyped' /\ Runs' /\ AuditTellsTruth'
    BY <1>3, WorldKeeps DEF Next
  <1>q. QED BY <1>1, <1>2, <1>4 DEF IInv

\* The invariant holds in every behaviour.
LEMMA Invariance == Spec => [](IInv /\ SilInv)
  <1>1. Init => IInv /\ SilInv
    BY RunsInit, SilencesInit, EvaluatorAssumption DEF Init
  <1>q. QED BY <1>1, RunsNext, PTL DEF Spec

-----------------------------------------------------------------------------
\* The types hold in every behaviour (TypeOK).
THEOREM TypeCorrect == Spec => []TypeOK
  <1>1. IInv => TypeOK
    BY DEF IInv, RunsTyped, Runs, AtRule, Short, Steps, TypeOK
  <1>q. QED BY <1>1, Invariance, PTL

\* An audit row that says notified is true, whatever failed or crashed.
THEOREM AuditIsTrue == Spec => []AuditTellsTruth
  <1>1. IInv => AuditTellsTruth
    BY DEF IInv
  <1>q. QED BY <1>1, Invariance, PTL

\* A rule in dry_run raises and notifies nothing, once the runs that listed it
\* otherwise are over.
THEOREM DryRunStaysDry == Spec => DryRunIsDry
  <1> DEFINE Dry(r) ==
        /\ mode[r] = "dry_run"
        /\ \A w \in Runners, i \in 1..Limit :
             i \in DOMAIN todo[w] /\ todo[w][i].rule = r => todo[w][i].mode = "dry_run"
             Quiet(r) ==
        \A g \in Groups :
              /\ <<r, g>> \in alerts' => <<r, g>> \in alerts
              /\ \A t \in tasks' \ tasks : t.alert # <<r, g>>
  <1>1. ASSUME IInv, Next, NEW r \in Rules, Dry(r) PROVE Quiet(r)
    <2>1. ASSUME NEW w \in Runners, pc[w] \notin {"idle", "rules"}, ModeOf(w) # "dry_run"
          PROVE  RuleOf(w) # r
      <3>1. todo[w] \in Seq([rule : Rules, mode : Modes]) /\ todo[w] # <<>> /\ Len(todo[w]) <= Limit
        BY <1>1, <2>1 DEF IInv, RunsTyped, Runs, AtRule, Short
      <3>2. Limit \in Nat
        BY EvaluatorAssumption
      <3>3. 1 \in DOMAIN todo[w] /\ 1 \in 1..Limit /\ Head(todo[w]) = todo[w][1]
        BY <3>1, <3>2
      <3>q. QED BY <1>1, <2>1, <3>3 DEF ModeOf, RuleOf
    <2>2. ASSUME NEW w \in Runners, ApplyEvaluation(w) PROVE Quiet(r)
      <3>1. alerts' \subseteq alerts \cup {AlertOf(w, g) : g \in Groups} /\ tasks' = tasks
        BY <1>1, <2>2 DEF ApplyEvaluation, IInv, RunsTyped
      <3>2. RuleOf(w) # r
        BY <2>1, <2>2 DEF ApplyEvaluation
      <3>q. QED BY <3>1, <3>2 DEF AlertOf
    <2>3. ASSUME NEW w \in Runners, EnqueueAlert(w) PROVE Quiet(r)
      <3>1. alerts' = alerts /\ \A t \in tasks' \ tasks : \E g \in cur[w] : t.alert = AlertOf(w, g)
        BY <2>3 DEF EnqueueAlert
      <3>2. RuleOf(w) # r
        BY <1>1, <2>1, <2>3 DEF EnqueueAlert, IInv, Runs, Handled
      <3>q. QED BY <3>1, <3>2 DEF AlertOf
    <2>4. ASSUME alerts' = alerts, tasks' = tasks PROVE Quiet(r)
      BY <2>4
    <2>5. ASSUME NEW w \in Runners,
                 \/ TickerFires(w) \/ Start(w) \/ Crash(w) \/ Finish(w) \/ QueryAggregates(w)
                 \/ RuleDone(w) \/ DryRunMatched(w) \/ CheckSilence(w) \/ EvaluationMatched(w)
          PROVE  Quiet(r)
      BY <2>4, <2>5 DEF TickerFires, Start, Crash, Finish, QueryAggregates, RuleDone, DryRunMatched,
                        CheckSilence, EvaluationMatched, tableVars
    <2>6. CASE \/ \E q \in Rules : ChangeRule(q)
               \/ \E a \in Alerts : DataChanges(a)
               \/ \E i \in Ids : SilenceChanges(i) \/ SilenceStored(i)
               \/ TimePasses
      BY <2>4, <2>6 DEF ChangeRule, DataChanges, SilenceChanges, SilenceStored, TimePasses, tableVars
    <2> HIDE DEF Quiet, Dry
    <2>q. QED BY <1>1, <2>2, <2>3, <2>5, <2>6 DEF Next, RunStep
  <1>2. ASSUME IInv, [Next]_vars PROVE [\A r \in Rules : Dry(r) => Quiet(r)]_vars
    BY <1>1, <1>2
  <1>q. QED BY <1>2, Invariance, PTL DEF Spec, DryRunIsDry

\* No run notifies of what a silence matches that was stored by the time of the run.
THEOREM SilencedStaysQuiet == Spec => SilencedRunsAreQuiet
  <1> DEFINE Hushed ==
        \A t \in tasks' \ tasks, i \in Ids :
            stored[i] # None /\ since[i] < at[t.by] =>
                ~Sil!Matches(stored[i], Subject(t.alert), at[t.by])
  <1>1. ASSUME IInv, Next PROVE Hushed
    <2>1. ASSUME NEW w \in Runners, EnqueueAlert(w) PROVE Hushed
      <3>1. \A t \in tasks' \ tasks : t.by = w /\ \E g \in cur[w] : t.alert = AlertOf(w, g)
        BY <2>1 DEF EnqueueAlert
      <3>2. Clear(w)
        BY <1>1, <2>1 DEF EnqueueAlert, IInv, Runs, Unsilenced
      <3>q. QED BY <3>1, <3>2 DEF Clear
    <2>2. ASSUME NEW w \in Runners,
                 \/ TickerFires(w) \/ Start(w) \/ Crash(w) \/ Finish(w) \/ QueryAggregates(w)
                 \/ RuleDone(w) \/ DryRunMatched(w) \/ CheckSilence(w) \/ EvaluationMatched(w)
                 \/ ApplyEvaluation(w)
          PROVE  tasks' = tasks
      BY <2>2 DEF TickerFires, Start, Crash, Finish, QueryAggregates, RuleDone, DryRunMatched,
                  CheckSilence, EvaluationMatched, ApplyEvaluation, tableVars
    <2>3. CASE \/ \E q \in Rules : ChangeRule(q)
               \/ \E a \in Alerts : DataChanges(a)
               \/ \E i \in Ids : SilenceChanges(i) \/ SilenceStored(i)
               \/ TimePasses
      BY <2>3 DEF ChangeRule, DataChanges, SilenceChanges, SilenceStored, TimePasses, tableVars
    <2>q. QED BY <1>1, <2>1, <2>2, <2>3 DEF Next, RunStep
  <1>2. ASSUME IInv, [Next]_vars PROVE [Hushed]_vars
    BY <1>1, <1>2
  <1>q. QED BY <1>2, Invariance, PTL DEF Spec, SilencedRunsAreQuiet

-----------------------------------------------------------------------------
(***************************************************************************)
(* The conditions of rules.  ChildOutcome and ChildLeaves are recursive    *)
(* functions: that the functions their definitions choose exist is the     *)
(* lemma Recursion, by ever deeper approximations of them, and what is so  *)
(* of every condition follows from what is so of its parts by the lemma    *)
(* EveryCondition, from the least depth at which it could fail.            *)
(***************************************************************************)

\* A set of natural numbers that is not empty has a least member.
LEMMA LeastNatural ==
    ASSUME NEW T, T \subseteq Nat, T # {}
    PROVE  \E x \in T : \A y \in T : x <= y
<1>1. IsWellFoundedOn(OpToRel(<, Nat), Nat)
  BY NatLessThanWellFounded
<1>2. PICK x \in T : \A y \in T : ~ (<<y, x>> \in OpToRel(<, Nat))
  BY <1>1, WFMin
<1>3. \A y \in T : ~ (y < x)
  BY <1>2 DEF OpToRel
<1> QED
  BY <1>3

\* The parts of a condition are conditions that nest less deep.
LEMMA PartsAre ==
    ASSUME NEW c \in Conditions
    PROVE  /\ c.children \in Seq(Conditions) /\ Depth(c) \in Nat
           /\ \A i \in DOMAIN c.children :
                c.children[i] \in Conditions /\ Depth(c.children[i]) < Depth(c)
<1>1. c \in Condition /\ Depth(c) \in Nat
  BY ConditionAssumption
<1>2. c.children \in Seq(Conditions)
  BY <1>1 DEF Condition
<1>3. \A i \in DOMAIN c.children : c.children[i] \in Conditions
  BY <1>2
<1>4. \A i \in DOMAIN c.children : Depth(c.children[i]) < Depth(c)
  BY ConditionAssumption
<1> QED
  BY <1>1, <1>2, <1>3, <1>4

\* Induction over conditions: a set that has a condition whenever it has all its
\* parts has them all.
LEMMA EveryCondition ==
    ASSUME NEW T, \A c \in Conditions : (\A i \in DOMAIN c.children : c.children[i] \in T) => c \in T
    PROVE  \A c \in Conditions : c \in T
<1> DEFINE N == {Depth(c) : c \in Conditions \ T}
<1>1. SUFFICES ASSUME NEW b \in Conditions, b \notin T PROVE FALSE
  OBVIOUS
<1>2. N \subseteq Nat /\ N # {}
  BY <1>1, PartsAre
<1>3. PICK n \in N : \A m \in N : n <= m
  <2> HIDE DEF N
  <2> QED
    BY <1>2, LeastNatural
<1>4. PICK c \in Conditions \ T : n = Depth(c)
  BY <1>3
<1>5. ASSUME NEW i \in DOMAIN c.children PROVE c.children[i] \in T
  <2>1. c.children[i] \in Conditions /\ Depth(c.children[i]) < Depth(c)
        /\ Depth(c.children[i]) \in Nat /\ Depth(c) \in Nat
    BY PartsAre
  <2>2. c.children[i] \notin T => Depth(c) <= Depth(c.children[i])
    BY <1>3, <1>4, <2>1
  <2> QED
    BY <2>1, <2>2
<1> QED
  BY <1>4, <1>5

Below(n) == {c \in Conditions : Depth(c) < n}

\* g is what step makes of the conditions that nest less deep than n.
Computes(V, step, n, g) ==
    /\ g \in [Below(n) -> V]
    /\ \A c \in Below(n) :
         g[c] = step[<<c, [i \in DOMAIN c.children |-> g[c.children[i]]]>>]

\* What nests less deep than n has parts that nest less deep than n - 1.
LEMMA PartsBelow ==
    ASSUME NEW n \in Nat, NEW c \in Below(n), NEW i \in DOMAIN c.children
    PROVE  c.children[i] \in Below(n) /\ (n > 0 => c.children[i] \in Below(n - 1))
<1>1. c \in Conditions /\ Depth(c) < n
  BY DEF Below
<1>2. c.children[i] \in Conditions /\ Depth(c.children[i]) < Depth(c)
  BY <1>1, PartsAre
<1>3. Depth(c) \in Nat /\ Depth(c.children[i]) \in Nat
  BY <1>1, <1>2, PartsAre
<1> QED
  BY <1>1, <1>2, <1>3 DEF Below

\* What a step makes of the parts of a condition is a sequence.
LEMMA OverParts ==
    ASSUME NEW c \in Conditions, NEW V, NEW g, \A i \in DOMAIN c.children : g[c.children[i]] \in V
    PROVE  [i \in DOMAIN c.children |-> g[c.children[i]]] \in Seq(V)
<1>1. c.children \in Seq(Conditions)
  BY PartsAre
<1>2. DOMAIN c.children = 1..Len(c.children) /\ Len(c.children) \in Nat
  BY <1>1
<1> QED
  BY <1>2

\* Two such computations agree where both are defined.
LEMMA ComputeSame ==
    ASSUME NEW V, NEW step, NEW m \in Nat, NEW n \in Nat, m <= n, NEW g, NEW h,
           Computes(V, step, m, g), Computes(V, step, n, h)
    PROVE  \A c \in Below(m) : g[c] = h[c]
<1> DEFINE T == {c \in Conditions : c \in Below(m) => g[c] = h[c]}
<1>1. ASSUME NEW c \in Conditions, \A i \in DOMAIN c.children : c.children[i] \in T
      PROVE  c \in T
  <2> SUFFICES ASSUME c \in Below(m) PROVE g[c] = h[c]
    OBVIOUS
  <2>1. c \in Below(n)
    BY PartsAre DEF Below
  <2>2. \A i \in DOMAIN c.children : g[c.children[i]] = h[c.children[i]]
    BY <1>1, PartsBelow
  <2>3. [i \in DOMAIN c.children |-> g[c.children[i]]] = [i \in DOMAIN c.children |-> h[c.children[i]]]
    BY <2>2
  <2>4. g[c] = step[<<c, [i \in DOMAIN c.children |-> g[c.children[i]]]>>]
    BY DEF Computes
  <2>5. h[c] = step[<<c, [i \in DOMAIN c.children |-> h[c.children[i]]]>>]
    BY <2>1 DEF Computes
  <2> QED
    BY <2>3, <2>4, <2>5
<1>2. \A c \in Conditions : c \in T
  <2> HIDE DEF T
  <2> QED
    BY <1>1, EveryCondition
<1> QED
  BY <1>2 DEF Below

\* There is one to every depth.
LEMMA ComputeOne ==
    ASSUME NEW V, NEW step \in [Conditions \X Seq(V) -> V], NEW n \in Nat
    PROVE  \E g : Computes(V, step, n, g)
<1> DEFINE N == {m \in Nat : ~ \E g : Computes(V, step, m, g)}
<1>1. SUFFICES ASSUME N # {} PROVE FALSE
  OBVIOUS
<1>2. PICK m \in N : \A k \in N : m <= k
  <2>1. N \subseteq Nat
    OBVIOUS
  <2> HIDE DEF N
  <2> QED
    BY <1>1, <2>1, LeastNatural
<1>3. CASE m = 0
  <2>1. Below(0) = {}
    BY PartsAre DEF Below
  <2>2. Computes(V, step, 0, [c \in {} |-> c])
    BY <2>1 DEF Computes
  <2> QED
    BY <1>2, <1>3, <2>2
<1>4. CASE m # 0
  <2>1. m - 1 \in Nat /\ m - 1 \notin N /\ m \in Nat
    BY <1>2, <1>4
  <2>2. PICK g : Computes(V, step, m - 1, g)
    BY <2>1
  <2> DEFINE h == [c \in Below(m) |-> step[<<c, [i \in DOMAIN c.children |-> g[c.children[i]]]>>]]
  <2>3. ASSUME NEW c \in Below(m)
        PROVE  /\ h[c] = step[<<c, [i \in DOMAIN c.children |-> h[c.children[i]]]>>]
               /\ h[c] \in V
    <3>1. \A i \in DOMAIN c.children : c.children[i] \in Below(m - 1) /\ c.children[i] \in Below(m)
      BY <1>4, <2>1, PartsBelow
    <3>2. \A i \in DOMAIN c.children : h[c.children[i]] = g[c.children[i]] /\ g[c.children[i]] \in V
      BY <2>2, <3>1 DEF Computes
    <3>3. c \in Conditions
      BY DEF Below
    <3>4. [i \in DOMAIN c.children |-> g[c.children[i]]] \in Seq(V)
      BY <3>2, <3>3, OverParts
    <3>5. h[c] = step[<<c, [i \in DOMAIN c.children |-> g[c.children[i]]]>>]
      OBVIOUS
    <3>6. [i \in DOMAIN c.children |-> g[c.children[i]]] = [i \in DOMAIN c.children |-> h[c.children[i]]]
      BY <3>2
    <3> HIDE DEF h
    <3>7. h[c] \in V
      BY <3>3, <3>4, <3>5
    <3> QED
      BY <3>5, <3>6, <3>7
  <2>4. h \in [Below(m) -> V]
    <3>1. h = [c \in Below(m) |-> h[c]]
      OBVIOUS
    <3> HIDE DEF h
    <3> QED
      BY <2>3, <3>1
  <2>5. Computes(V, step, m, h)
    <3> HIDE DEF h
    <3> QED
      BY <2>3, <2>4 DEF Computes
  <2> QED
    BY <1>2, <2>5
<1> QED
  BY <1>3, <1>4

\* What f makes of the parts of a condition.
Each(f, c) == [i \in DOMAIN c.children |-> f[c.children[i]]]

\* A function of conditions may be defined by recursion over their parts: what
\* holds of the functions that RuleCondition defines so.
LEMMA Recursion ==
    ASSUME NEW V, NEW step \in [Conditions \X Seq(V) -> V]
    PROVE  \E f \in [Conditions -> V] : \A c \in Conditions : f[c] = step[<<c, Each(f, c)>>]
<1> USE DEF Each
<1> DEFINE G(n) == CHOOSE g : Computes(V, step, n, g)
           f == [c \in Conditions |-> G(Depth(c) + 1)[c]]
<1>1. \A n \in Nat : Computes(V, step, n, G(n))
  BY ComputeOne
<1>2. ASSUME NEW c \in Conditions
      PROVE  f[c] = step[<<c, [i \in DOMAIN c.children |-> f[c.children[i]]]>>] /\ f[c] \in V
  <2>1. Depth(c) \in Nat /\ Depth(c) + 1 \in Nat /\ c \in Below(Depth(c) + 1)
    BY PartsAre DEF Below
  <2>2. ASSUME NEW i \in DOMAIN c.children
        PROVE  f[c.children[i]] = G(Depth(c) + 1)[c.children[i]]
    <3>1. c.children[i] \in Conditions /\ Depth(c.children[i]) \in Nat /\ Depth(c.children[i]) < Depth(c)
      BY PartsAre
    <3>2. c.children[i] \in Below(Depth(c.children[i]) + 1)
      BY <3>1 DEF Below
    <3>3. f[c.children[i]] = G(Depth(c.children[i]) + 1)[c.children[i]]
      BY <3>1
    <3> HIDE DEF G, f
    <3>4. Computes(V, step, Depth(c.children[i]) + 1, G(Depth(c.children[i]) + 1))
      BY <1>1, <3>1
    <3>5. Computes(V, step, Depth(c) + 1, G(Depth(c) + 1))
      BY <1>1, <2>1
    <3>6. \A b \in Below(Depth(c.children[i]) + 1) :
            G(Depth(c.children[i]) + 1)[b] = G(Depth(c) + 1)[b]
      <4> DEFINE m == Depth(c.children[i]) + 1
                 n == Depth(c) + 1
                 g == G(m)
                 h == G(n)
      <4>1. m \in Nat /\ n \in Nat /\ m <= n
        BY <2>1, <3>1
      <4>2. Computes(V, step, m, g) /\ Computes(V, step, n, h)
        BY <3>4, <3>5
      <4>3. \A b \in Below(m) : g[b] = h[b]
        <5> HIDE DEF m, n, g, h
        <5> QED
          BY <4>1, <4>2, ComputeSame
      <4> QED
        BY <4>3
    <3> QED
      BY <3>2, <3>3, <3>6
  <2>3. f[c] = G(Depth(c) + 1)[c]
    OBVIOUS
  <2> HIDE DEF G, f
  <2>4. [i \in DOMAIN c.children |-> f[c.children[i]]]
          = [i \in DOMAIN c.children |-> G(Depth(c) + 1)[c.children[i]]]
    BY <2>2
  <2>5. Computes(V, step, Depth(c) + 1, G(Depth(c) + 1))
    BY <1>1, <2>1
  <2> QED
    BY <2>1, <2>3, <2>4, <2>5 DEF Computes
<1>3. f \in [Conditions -> V]
  <2>1. f = [c \in Conditions |-> f[c]]
    OBVIOUS
  <2> HIDE DEF f
  <2> QED
    BY <1>2, <2>1
<1> HIDE DEF f
<1> QED
  BY <1>2, <1>3

-----------------------------------------------------------------------------
\* A comparison says yes or no, and its complement no or yes.
LEMMA CompareIs ==
    ASSUME NEW op, NEW l \in Int, NEW r \in Int
    PROVE  /\ Compare(op, l, r) \in BOOLEAN
           /\ op \in Operators => Compare(Complement(op), l, r) = ~Compare(op, l, r)
<1>1. op \in {"gt", ">"} => Compare(op, l, r) = (l > r) /\ Complement(op) = "lte"
  BY DEF Compare, Complement
<1>2. op \in {"gte", ">="} => Compare(op, l, r) = (l >= r) /\ Complement(op) = "lt"
  BY DEF Compare, Complement
<1>3. op \in {"lt", "<"} => Compare(op, l, r) = (l < r) /\ Complement(op) = "gte"
  BY DEF Compare, Complement
<1>4. op \in {"lte", "<="} => Compare(op, l, r) = (l <= r) /\ Complement(op) = "gt"
  BY DEF Compare, Complement
<1>5. op \in {"eq", "=="} => Compare(op, l, r) = (l = r) /\ Complement(op) = "neq"
  BY DEF Compare, Complement
<1>6. op \in {"neq", "!="} => Compare(op, l, r) = (l # r) /\ Complement(op) = "eq"
  BY DEF Compare, Complement
<1>7. op \notin Operators => Compare(op, l, r) = FALSE
  BY DEF Compare, Operators
<1>8. /\ Compare("gt", l, r) = (l > r) /\ Compare("lte", l, r) = (l <= r)
      /\ Compare("lt", l, r) = (l < r) /\ Compare("gte", l, r) = (l >= r)
      /\ Compare("eq", l, r) = (l = r) /\ Compare("neq", l, r) = (l # r)
  BY DEF Compare
<1>9. (l > r) = ~(l <= r) /\ (l < r) = ~(l >= r)
  OBVIOUS
<1>10. Compare(op, l, r) \in BOOLEAN
  <2>1. /\ (l > r) \in BOOLEAN /\ (l >= r) \in BOOLEAN /\ (l < r) \in BOOLEAN
        /\ (l <= r) \in BOOLEAN /\ (l = r) \in BOOLEAN /\ (l # r) \in BOOLEAN
    OBVIOUS
  <2> QED
    BY <2>1, <1>1, <1>2, <1>3, <1>4, <1>5, <1>6, <1>7 DEF Operators
<1>11. CASE op \in {"gt", ">", "lte", "<="}
  BY <1>1, <1>4, <1>8, <1>9, <1>10, <1>11
<1>12. CASE op \in {"lt", "<", "gte", ">="}
  BY <1>2, <1>3, <1>8, <1>9, <1>10, <1>12
<1>13. CASE op \in {"eq", "==", "neq", "!="}
  BY <1>5, <1>6, <1>8, <1>10, <1>13
<1> QED
  BY <1>10, <1>11, <1>12, <1>13 DEF Operators

\* A statistic is a number.
LEMMA ValueIs == ASSUME NEW agg, IsAggregate(agg), NEW f PROVE AggregateValue(f, agg) \in Int
BY DEF IsAggregate, AggregateValue

\* "or" matches if some child does, and is then the outcome of one that does.
LEMMA OrIs ==
    ASSUME NEW outcomes \in Seq(Outcome)
    PROVE  /\ OrOf(outcomes) \in Outcome
           /\ OrOf(outcomes).ok <=> \E i \in DOMAIN outcomes : outcomes[i].ok
           /\ OrOf(outcomes).ok => \E i \in DOMAIN outcomes : outcomes[i] = OrOf(outcomes)
<1> DEFINE I == {i \in 1..Len(outcomes) : outcomes[i].ok}
           k == IF I # {} THEN Min(I) ELSE 0
<1>1. OrOf(outcomes) = IF k = 0 THEN [ok |-> FALSE, value |-> 0] ELSE outcomes[k]
  BY DEF OrOf, SelectInSeq
<1>2. DOMAIN outcomes = 1..Len(outcomes) /\ \A i \in DOMAIN outcomes : outcomes[i] \in Outcome
  OBVIOUS
<1>3. CASE I = {}
  <2>1. OrOf(outcomes) = [ok |-> FALSE, value |-> 0]
    BY <1>1, <1>3
  <2> QED
    BY <1>2, <1>3, <2>1 DEF Outcome
<1>4. CASE I # {}
  <2>1. PICK i \in I : \A j \in I : i <= j
    <3>1. I \subseteq Nat
      OBVIOUS
    <3> HIDE DEF I
    <3> QED
      BY <1>4, <3>1, LeastNatural
  <2>2. Min(I) \in I
    BY <2>1 DEF Min
  <2>3. k = Min(I) /\ k \in DOMAIN outcomes /\ k # 0 /\ outcomes[k].ok
    BY <1>2, <1>4, <2>2
  <2> HIDE DEF k, I
  <2> QED
    BY <1>1, <1>2, <2>3
<1> QED
  BY <1>3, <1>4

\* Any other logic matches if all children do, and then has the outcome of the
\* last of them.
LEMMA AndIs ==
    ASSUME NEW outcomes \in Seq(Outcome)
    PROVE  /\ AndOf(outcomes) \in Outcome
           /\ AndOf(outcomes).ok <=> \A i \in DOMAIN outcomes : outcomes[i].ok
           /\ outcomes # <<>> /\ AndOf(outcomes).ok =>
                \E i \in DOMAIN outcomes : outcomes[i] = AndOf(outcomes)
<1>1. CASE outcomes = <<>>
  BY <1>1 DEF AndOf, Outcome
<1>2. CASE outcomes # <<>>
  <2>1. Len(outcomes) \in DOMAIN outcomes /\ Last(outcomes) = outcomes[Len(outcomes)]
    BY <1>2 DEF Last
  <2>2. outcomes[Len(outcomes)] \in Outcome
    BY <2>1
  <2>3. AndOf(outcomes) = [ok |-> \A i \in DOMAIN outcomes : outcomes[i].ok,
                           value |-> outcomes[Len(outcomes)].value]
    BY <1>2, <2>1 DEF AndOf
  <2>4. AndOf(outcomes) \in Outcome /\ (AndOf(outcomes).ok <=> \A i \in DOMAIN outcomes : outcomes[i].ok)
    BY <2>2, <2>3 DEF Outcome
  <2>5. AndOf(outcomes).ok => outcomes[Len(outcomes)] = AndOf(outcomes)
    BY <2>1, <2>2, <2>3, <2>4 DEF Outcome
  <2> QED
    BY <2>1, <2>4, <2>5
<1> QED
  BY <1>1, <1>2

\* A condition comes to an outcome.
LEMMA OutcomeTyped ==
    ASSUME NEW type, NEW c \in Conditions, NEW outcomes \in Seq(Outcome), NEW agg, IsAggregate(agg)
    PROVE  OutcomeOf(type, c, outcomes, agg) \in Outcome
<1>1. c \in Condition
  BY ConditionAssumption
<1>2. ThresholdCase(c, agg) \in Outcome
  BY <1>1, ValueIs, CompareIs DEF Condition, ThresholdCase, Outcome
<1>3. c.window # Absent => WindowCase(c, agg) \in Outcome
  BY <1>1, ValueIs, CompareIs DEF Condition, WindowPart, WindowCase, Outcome
<1>4. c.percent # Absent => PercentCase(c, agg) \in Outcome
  <2> DEFINE value == AggregateValue(c.percent.field, agg)
             threshold == IF c.value = 0 THEN c.percent.percent ELSE 100 * c.value
  <2>1. c.percent # Absent => value \in Int /\ 100 * value \in Int /\ threshold \in Int
    BY <1>1, ValueIs DEF Condition, PercentPart
  <2>2. c.percent # Absent => Compare(c.percent.operator, 100 * value, threshold) \in BOOLEAN
    <3> HIDE DEF value, threshold
    <3> QED
      BY <2>1, CompareIs
  <2> QED
    BY <2>1, <2>2 DEF PercentCase, Outcome
<1>5. c.change # Absent => ChangeCase(c, agg) \in Outcome
  <2> DEFINE value == AggregateValue(c.change.field, agg)
             baseline == IF c.change.percent # 0 THEN value * c.change.percent
                         ELSE 100 * c.change.absolute
  <2>1. c.change # Absent => c.change \in ChangePart
    BY <1>1 DEF Condition
  <2>2. value \in Int /\ 100 * value \in Int
    BY ValueIs
  <2>3. c.change # Absent => baseline \in Int
    <3> HIDE DEF value
    <3> QED
      BY <2>1, <2>2 DEF ChangePart
  <2>4. c.change # Absent => Compare(c.change.mode, 100 * value, baseline) \in BOOLEAN
    <3> HIDE DEF value, baseline
    <3> QED
      BY <2>2, <2>3, CompareIs
  <2> QED
    BY <2>2, <2>4 DEF ChangeCase, Outcome
<1>6. [ok |-> FALSE, value |-> 0] \in Outcome
  BY DEF Outcome
<1> QED
  BY <1>2, <1>3, <1>4, <1>5, <1>6, OrIs, AndIs DEF OutcomeOf

\* What a condition comes to is what its parts come to, put together.
LEMMA OutcomeIs ==
    ASSUME NEW agg, IsAggregate(agg)
    PROVE  \A c \in Conditions :
             /\ ChildOutcome(agg)[c] =
                  OutcomeOf(ChildRuleType(c), c,
                            [i \in DOMAIN c.children |-> ChildOutcome(agg)[c.children[i]]], agg)
             /\ ChildOutcome(agg)[c] \in Outcome
<1> DEFINE step == [p \in Conditions \X Seq(Outcome) |-> OutcomeOf(ChildRuleType(p[1]), p[1], p[2], agg)]
           Equation(f) ==
             f = [c \in Conditions |->
                    OutcomeOf(ChildRuleType(c), c, [i \in DOMAIN c.children |-> f[c.children[i]]], agg)]
<1>1. step \in [Conditions \X Seq(Outcome) -> Outcome]
  BY OutcomeTyped
<1>2. PICK f \in [Conditions -> Outcome] : \A c \in Conditions : f[c] = step[<<c, Each(f, c)>>]
  <2>1. PICK s : s = step
    OBVIOUS
  <2>2. s \in [Conditions \X Seq(Outcome) -> Outcome]
    BY <1>1, <2>1
  <2>3. \E f \in [Conditions -> Outcome] : \A c \in Conditions : f[c] = s[<<c, Each(f, c)>>]
    <3> HIDE DEF step
    <3> QED
      BY <2>2, Recursion
  <2> QED
    BY <2>1, <2>3
<1>3. Equation(f)
  <2>1. ASSUME NEW c \in Conditions
        PROVE  f[c] = OutcomeOf(ChildRuleType(c), c, [i \in DOMAIN c.children |-> f[c.children[i]]], agg)
    <3>1. \A i \in DOMAIN c.children : f[c.children[i]] \in Outcome
      BY PartsAre
    <3>2. <<c, [i \in DOMAIN c.children |-> f[c.children[i]]]>> \in Conditions \X Seq(Outcome)
      BY <3>1, OverParts
    <3> QED
      BY <1>2, <3>2 DEF Each
  <2> QED
    BY <2>1
<1>4. ChildOutcome(agg) = CHOOSE g : Equation(g)
  BY DEF ChildOutcome
<1>5. Equation(ChildOutcome(agg))
  <2> HIDE DEF Equation
  <2> QED
    BY <1>3, <1>4
<1> DEFINE g == ChildOutcome(agg)
           T == {c \in Conditions : g[c] \in Outcome}
<1>6. \A c \in Conditions :
        g[c] = OutcomeOf(ChildRuleType(c), c, [i \in DOMAIN c.children |-> g[c.children[i]]], agg)
  BY <1>5
<1>7. ASSUME NEW c \in Conditions, \A i \in DOMAIN c.children : c.children[i] \in T
      PROVE  c \in T
  <2> HIDE DEF g
  <2>1. [i \in DOMAIN c.children |-> g[c.children[i]]] \in Seq(Outcome)
    BY <1>7, OverParts
  <2> QED
    BY <1>6, <2>1, OutcomeTyped
<1>8. \A c \in Conditions : c \in T
  <2> HIDE DEF T
  <2> QED
    BY <1>7, EveryCondition
<1> QED
  BY <1>6, <1>8

\* The simple conditions of one are those of its parts.
LEMMA LeavesAre ==
    \A c \in Conditions :
      ChildLeaves[c] = IF ChildRuleType(c) # "compound" THEN {[type |-> ChildRuleType(c), cond |-> c]}
                       ELSE UNION {ChildLeaves[c.children[i]] : i \in DOMAIN c.children}
<1> DEFINE V == SUBSET [type : Kinds, cond : Conditions]
           step == [p \in Conditions \X Seq(V) |->
                      IF ChildRuleType(p[1]) # "compound"
                      THEN {[type |-> ChildRuleType(p[1]), cond |-> p[1]]}
                      ELSE UNION {p[2][i] : i \in DOMAIN p[2]}]
           Equation(f) ==
             f = [c \in Conditions |->
                    IF ChildRuleType(c) # "compound" THEN {[type |-> ChildRuleType(c), cond |-> c]}
                    ELSE UNION {f[c.children[i]] : i \in DOMAIN c.children}]
<1>1. step \in [Conditions \X Seq(V) -> V]
  <2>1. ASSUME NEW p \in Conditions \X Seq(V) PROVE step[p] \in V
    <3>1. p[1] \in Conditions /\ p[2] \in Seq(V)
      OBVIOUS
    <3>2. \A i \in DOMAIN p[2] : p[2][i] \in V
      <4> HIDE DEF V
      <4> QED
        BY <3>1
    <3>3. ChildRuleType(p[1]) \in Kinds
      BY DEF ChildRuleType, Kinds
    <3> QED
      BY <3>1, <3>2, <3>3
  <2>2. step = [p \in Conditions \X Seq(V) |-> step[p]]
    OBVIOUS
  <2> HIDE DEF step, V
  <2> QED
    BY <2>1, <2>2
<1>2. PICK f \in [Conditions -> V] : \A c \in Conditions : f[c] = step[<<c, Each(f, c)>>]
  <2>1. PICK s, W : s = step /\ W = V
    OBVIOUS
  <2>2. s \in [Conditions \X Seq(W) -> W]
    <3> HIDE DEF step, V
    <3> QED
      BY <1>1, <2>1
  <2>3. \E f \in [Conditions -> W] : \A c \in Conditions : f[c] = s[<<c, Each(f, c)>>]
    <3> HIDE DEF step, V
    <3> QED
      BY <2>2, Recursion
  <2> HIDE DEF step, V
  <2> QED
    BY <2>1, <2>3
<1>3. Equation(f)
  <2>1. ASSUME NEW c \in Conditions
        PROVE  f[c] = IF ChildRuleType(c) # "compound" THEN {[type |-> ChildRuleType(c), cond |-> c]}
                      ELSE UNION {f[c.children[i]] : i \in DOMAIN c.children}
    <3>1. \A i \in DOMAIN c.children : f[c.children[i]] \in V
      <4> HIDE DEF V
      <4> QED
        BY PartsAre
    <3>2. Each(f, c) \in Seq(V)
      <4> HIDE DEF V
      <4> QED
        BY <3>1, OverParts DEF Each
    <3>3. DOMAIN Each(f, c) = DOMAIN c.children
          /\ \A i \in DOMAIN c.children : Each(f, c)[i] = f[c.children[i]]
      BY DEF Each
    <3>4. {Each(f, c)[i] : i \in DOMAIN Each(f, c)} = {f[c.children[i]] : i \in DOMAIN c.children}
      BY <3>3
    <3>5. <<c, Each(f, c)>> \in Conditions \X Seq(V)
      <4> HIDE DEF V
      <4> QED
        BY <3>2
    <3>6. step[<<c, Each(f, c)>>] =
            IF ChildRuleType(c) # "compound" THEN {[type |-> ChildRuleType(c), cond |-> c]}
            ELSE UNION {Each(f, c)[i] : i \in DOMAIN Each(f, c)}
      <4> HIDE DEF V
      <4> QED
        BY <3>5
    <3> HIDE DEF step, V
    <3> QED
      BY <1>2, <3>4, <3>6
  <2>2. f = [c \in Conditions |-> f[c]]
    <3> HIDE DEF step, V
    <3> QED
      BY <1>2
  <2> HIDE DEF step, V
  <2> QED
    BY <2>1, <2>2
<1>4. ChildLeaves = CHOOSE g : Equation(g)
  BY DEF ChildLeaves
<1>5. Equation(ChildLeaves)
  <2> HIDE DEF Equation
  <2> QED
    BY <1>3, <1>4
<1> HIDE DEF step, V
<1> QED
  BY <1>5

-----------------------------------------------------------------------------
\* A condition turned round is evaluated as the condition is.
LEMMA NegationTurns ==
    ASSUME NEW c \in Conditions, NEW n, n = Negation(c)
    PROVE  /\ n \in Conditions /\ n.field = c.field /\ n.value = c.value
           /\ n.operator = Complement(c.operator)
           /\ (n.window = Absent) = (c.window = Absent)
           /\ c.window # Absent => n.window = [c.window EXCEPT !.operator = Complement(@)]
           /\ (n.percent = Absent) = (c.percent = Absent)
           /\ c.percent # Absent => n.percent = [c.percent EXCEPT !.operator = Complement(@)]
           /\ (n.change = Absent) = (c.change = Absent)
           /\ c.change # Absent => n.change = [c.change EXCEPT !.mode = Complement(@)]
           /\ DOMAIN n.children = DOMAIN c.children
           /\ \A i \in DOMAIN c.children : n.children[i] = Negation(c.children[i])
           /\ (n.children = <<>>) = (c.children = <<>>)
           /\ c.children # <<>> => n.logic = IF c.logic = "or" THEN "and" ELSE "or"
           /\ ChildRuleType(n) = ChildRuleType(c)
<1> DEFINE children == [i \in DOMAIN c.children |-> Negation(c.children[i])]
<1>1. n \in Conditions /\ n = TurnedRound(c, children)
  BY NegationAssumption
<1>2. c \in Condition /\ n \in Condition
  BY <1>1, ConditionAssumption
<1>3. DOMAIN children = DOMAIN c.children
      /\ \A i \in DOMAIN c.children : children[i] = Negation(c.children[i])
  OBVIOUS
<1> HIDE DEF children
<1>4. /\ n.field = c.field /\ n.value = c.value /\ n.operator = Complement(c.operator)
      /\ n.window = IF c.window = Absent THEN Absent ELSE [c.window EXCEPT !.operator = Complement(@)]
      /\ n.percent = IF c.percent = Absent THEN Absent ELSE [c.percent EXCEPT !.operator = Complement(@)]
      /\ n.change = IF c.change = Absent THEN Absent ELSE [c.change EXCEPT !.mode = Complement(@)]
      /\ n.children = children
      /\ n.logic = IF children = <<>> THEN c.logic ELSE IF c.logic = "or" THEN "and" ELSE "or"
  <2> DEFINE operator == Complement(c.operator)
             window == WithComplement(c.window)
             percent == WithComplement(c.percent)
             change == WithComplementMode(c.change)
             logic == IF children = <<>> THEN c.logic ELSE IF c.logic = "or" THEN "and" ELSE "or"
  <2>1. n = [c EXCEPT !.operator = operator, !.window = window, !.percent = percent,
                      !.change = change, !.logic = logic, !.children = children]
    BY <1>1 DEF TurnedRound
  <2> HIDE DEF operator, window, percent, change, logic
  <2>2. /\ n.field = c.field /\ n.value = c.value /\ n.operator = operator /\ n.window = window
        /\ n.percent = percent /\ n.change = change /\ n.children = children /\ n.logic = logic
    BY <1>2, <2>1 DEF Condition
  <2> QED
    BY <2>2 DEF operator, window, percent, change, logic, WithComplement, WithComplementMode
<1>5. (children = <<>>) = (c.children = <<>>)
  <2>1. c.children \in Seq(Conditions) /\ children \in Seq(Conditions)
    BY <1>1, <1>4, PartsAre
  <2> QED
    BY <1>3, <2>1
<1>6. ASSUME NEW op \in STRING PROVE Complement(op) \in STRING
  <2>1. op \in {"gt", ">"} => Complement(op) = "lte"
    BY DEF Complement
  <2>2. op \in {"lte", "<="} => Complement(op) = "gt"
    BY DEF Complement
  <2>3. op \in {"lt", "<"} => Complement(op) = "gte"
    BY DEF Complement
  <2>4. op \in {"gte", ">="} => Complement(op) = "lt"
    BY DEF Complement
  <2>5. op \in {"eq", "=="} => Complement(op) = "neq"
    BY DEF Complement
  <2>6. op \in {"neq", "!="} => Complement(op) = "eq"
    BY DEF Complement
  <2>7. op \notin Operators => Complement(op) = op
    BY DEF Complement, Operators
  <2>8. /\ "lte" \in STRING /\ "gt" \in STRING /\ "gte" \in STRING /\ "lt" \in STRING
        /\ "neq" \in STRING /\ "eq" \in STRING
    BY OperatorAssumption DEF Operators
  <2> QED
    BY <2>1, <2>2, <2>3, <2>4, <2>5, <2>6, <2>7, <2>8, ZenonT(30) DEF Operators
<1>7. ASSUME c.window # Absent PROVE n.window # Absent
  <2>1. c.window \in WindowPart
    BY <1>2, <1>7 DEF Condition
  <2>2. [c.window EXCEPT !.operator = Complement(@)] \in WindowPart
    BY <1>6, <2>1 DEF WindowPart
  <2> QED
    BY <1>4, <1>7, <2>2, ConditionAssumption
<1>8. ASSUME c.percent # Absent PROVE n.percent # Absent
  <2>1. c.percent \in PercentPart
    BY <1>2, <1>8 DEF Condition
  <2>2. [c.percent EXCEPT !.operator = Complement(@)] \in PercentPart
    BY <1>6, <2>1 DEF PercentPart
  <2> QED
    BY <1>4, <1>8, <2>2, ConditionAssumption
<1>9. ASSUME c.change # Absent PROVE n.change # Absent
  <2>1. c.change \in ChangePart
    BY <1>2, <1>9 DEF Condition
  <2>2. [c.change EXCEPT !.mode = Complement(@)] \in ChangePart
    BY <1>6, <2>1 DEF ChangePart
  <2> QED
    BY <1>4, <1>9, <2>2, ConditionAssumption
<1>10. /\ (n.window = Absent) = (c.window = Absent) /\ (n.percent = Absent) = (c.percent = Absent)
       /\ (n.change = Absent) = (c.change = Absent) /\ (n.children = <<>>) = (c.children = <<>>)
  BY <1>4, <1>5, <1>7, <1>8, <1>9
<1>11. ChildRuleType(n) = ChildRuleType(c)
  BY <1>10 DEF ChildRuleType
<1> QED
  BY <1>1, <1>3, <1>4, <1>5, <1>10, <1>11

\* A condition has what a rule of its type needs: what validateRule asks for, and
\* what a child of that type has.
Fits(type, c) ==
    /\ type \in Kinds
    /\ type = "window" => c.window # Absent
    /\ type = "percent" => c.percent # Absent
    /\ type = "change" => c.change # Absent
    /\ type = "compound" => c.children # <<>>

\* A simple condition matches exactly where it does not when turned round.
LEMMA SimpleTurns ==
    ASSUME NEW c \in Conditions, NEW type, Fits(type, c), type # "compound",
           OperatorOf([type |-> type, cond |-> c]) \in Operators,
           NEW agg, IsAggregate(agg), NEW o, NEW p
    PROVE  OutcomeOf(type, Negation(c), p, agg).ok = ~OutcomeOf(type, c, o, agg).ok
<1>1. PICK n : n = Negation(c)
  OBVIOUS
<1>2. c \in Condition
  BY ConditionAssumption
<1>3. CASE type = "threshold"
  <2>1. c.operator \in Operators
    BY <1>3 DEF OperatorOf
  <2>2. c.value \in Int /\ AggregateValue(c.field, agg) \in Int
    BY <1>2, ValueIs DEF Condition
  <2>3. OutcomeOf(type, c, o, agg).ok = Compare(c.operator, AggregateValue(c.field, agg), c.value)
    BY <1>3 DEF OutcomeOf, ThresholdCase
  <2>4. OutcomeOf(type, n, p, agg).ok = Compare(n.operator, AggregateValue(n.field, agg), n.value)
    BY <1>3 DEF OutcomeOf, ThresholdCase
  <2>5. n.operator = Complement(c.operator) /\ n.field = c.field /\ n.value = c.value
    BY <1>1, NegationTurns
  <2> QED
    BY <1>1, <2>1, <2>2, <2>3, <2>4, <2>5, CompareIs
<1>4. CASE type = "window"
  <2>1. c.window.operator \in Operators
    BY <1>4 DEF OperatorOf
  <2>2. c.window \in WindowPart /\ c.window # Absent
    BY <1>2, <1>4 DEF Condition, Fits
  <2>3. n.window = [c.window EXCEPT !.operator = Complement(@)] /\ n.window # Absent
    BY <1>1, <2>2, NegationTurns
  <2>4. /\ n.window.operator = Complement(c.window.operator)
        /\ n.window.field = c.window.field /\ n.window.value = c.window.value
    BY <2>2, <2>3 DEF WindowPart
  <2>5. c.window.value \in Int /\ AggregateValue(c.window.field, agg) \in Int
    BY <2>2, ValueIs DEF WindowPart
  <2>6. OutcomeOf(type, c, o, agg).ok =
          Compare(c.window.operator, AggregateValue(c.window.field, agg), c.window.value)
    BY <1>4, <2>2 DEF OutcomeOf, WindowCase
  <2>7. OutcomeOf(type, n, p, agg).ok =
          Compare(n.window.operator, AggregateValue(n.window.field, agg), n.window.value)
    BY <1>4, <2>3 DEF OutcomeOf, WindowCase
  <2> QED
    BY <1>1, <2>1, <2>4, <2>5, <2>6, <2>7, CompareIs
<1>5. CASE type = "percent"
  <2> DEFINE value == AggregateValue(c.percent.field, agg)
             threshold == IF c.value = 0 THEN c.percent.percent ELSE 100 * c.value
  <2>1. c.percent.operator \in Operators
    BY <1>5 DEF OperatorOf
  <2>2. c.percent \in PercentPart /\ c.percent # Absent
    BY <1>2, <1>5 DEF Condition, Fits
  <2>3. n.percent = [c.percent EXCEPT !.operator = Complement(@)] /\ n.percent # Absent
        /\ n.value = c.value
    BY <1>1, <2>2, NegationTurns
  <2>4. /\ n.percent.operator = Complement(c.percent.operator)
        /\ n.percent.field = c.percent.field /\ n.percent.percent = c.percent.percent
    BY <2>2, <2>3 DEF PercentPart
  <2>5. threshold \in Int /\ 100 * value \in Int
    BY <1>2, <2>2, ValueIs DEF PercentPart, Condition
  <2>6. OutcomeOf(type, c, o, agg).ok = Compare(c.percent.operator, 100 * value, threshold)
    BY <1>5, <2>2 DEF OutcomeOf, PercentCase
  <2>7. OutcomeOf(type, n, p, agg).ok = Compare(n.percent.operator, 100 * value, threshold)
    BY <1>5, <2>3, <2>4 DEF OutcomeOf, PercentCase
  <2> HIDE DEF value, threshold
  <2> QED
    BY <1>1, <2>1, <2>4, <2>5, <2>6, <2>7, CompareIs
<1>6. CASE type = "change"
  <2> DEFINE value == AggregateValue(c.change.field, agg)
             baseline == IF c.change.percent # 0 THEN value * c.change.percent
                         ELSE 100 * c.change.absolute
  <2>1. c.change.mode \in Operators
    BY <1>6 DEF OperatorOf
  <2>2. c.change \in ChangePart /\ c.change # Absent
    BY <1>2, <1>6 DEF Condition, Fits
  <2>3. n.change = [c.change EXCEPT !.mode = Complement(@)] /\ n.change # Absent
    BY <1>1, <2>2, NegationTurns
  <2>4. /\ n.change.mode = Complement(c.change.mode) /\ n.change.field = c.change.field
        /\ n.change.percent = c.change.percent /\ n.change.absolute = c.change.absolute
    BY <2>2, <2>3 DEF ChangePart
  <2>5. value \in Int /\ 100 * value \in Int
    BY ValueIs
  <2>6. OutcomeOf(type, c, o, agg).ok = Compare(c.change.mode, 100 * value, baseline)
    BY <1>6, <2>2 DEF OutcomeOf, ChangeCase
  <2>7. OutcomeOf(type, n, p, agg).ok = Compare(n.change.mode, 100 * value, baseline)
    BY <1>6, <2>3, <2>4 DEF OutcomeOf, ChangeCase
  <2> HIDE DEF value
  <2>8. baseline \in Int
    BY <2>2, <2>5 DEF ChangePart
  <2> HIDE DEF baseline
  <2> QED
    BY <1>1, <2>1, <2>4, <2>5, <2>6, <2>7, <2>8, CompareIs
<1> QED
  BY <1>3, <1>4, <1>5, <1>6 DEF Fits, Kinds

\* A compound does if each of its parts does.
LEMMA CompoundTurns ==
    ASSUME NEW c \in Conditions, c.children # <<>>, NEW agg,
           NEW o \in Seq(Outcome), NEW p \in Seq(Outcome),
           DOMAIN o = DOMAIN c.children, DOMAIN p = DOMAIN c.children,
           \A i \in DOMAIN c.children : p[i].ok = ~o[i].ok
    PROVE  OutcomeOf("compound", Negation(c), p, agg).ok = ~OutcomeOf("compound", c, o, agg).ok
<1>1. PICK n : n = Negation(c)
  OBVIOUS
<1>2. n.logic = IF c.logic = "or" THEN "and" ELSE "or"
  BY <1>1, NegationTurns
<1>3. /\ OutcomeOf("compound", c, o, agg) = IF c.logic = "or" THEN OrOf(o) ELSE AndOf(o)
      /\ OutcomeOf("compound", n, p, agg) = IF n.logic = "or" THEN OrOf(p) ELSE AndOf(p)
  BY DEF OutcomeOf
<1>4. /\ OrOf(o).ok \in BOOLEAN /\ AndOf(o).ok \in BOOLEAN
      /\ OrOf(p).ok \in BOOLEAN /\ AndOf(p).ok \in BOOLEAN
  BY OrIs, AndIs DEF Outcome
<1>5. CASE c.logic = "or"
  <2>1. OrOf(o).ok <=> \E i \in DOMAIN c.children : o[i].ok
    BY OrIs
  <2>2. AndOf(p).ok <=> \A i \in DOMAIN c.children : ~o[i].ok
    BY AndIs
  <2>3. AndOf(p).ok <=> ~OrOf(o).ok
    BY <2>1, <2>2
  <2> QED
    BY <1>1, <1>2, <1>3, <1>4, <1>5, <2>3
<1>6. CASE c.logic # "or"
  <2>1. AndOf(o).ok <=> \A i \in DOMAIN c.children : o[i].ok
    BY AndIs
  <2>2. OrOf(p).ok <=> \E i \in DOMAIN c.children : ~o[i].ok
    BY OrIs
  <2>3. OrOf(p).ok <=> ~AndOf(o).ok
    BY <2>1, <2>2
  <2> QED
    BY <1>1, <1>2, <1>3, <1>4, <1>6, <2>3
<1> QED
  BY <1>5, <1>6

\* A child is evaluated as a rule of the type its parts say, and has what one needs.
LEMMA ChildIsRule ==
    ASSUME NEW agg, IsAggregate(agg), NEW c \in Conditions
    PROVE  /\ ChildOutcome(agg)[c] = EvaluateCondition(ChildRuleType(c), c, agg)
           /\ ChildLeaves[c] = Leaves(ChildRuleType(c), c)
           /\ Fits(ChildRuleType(c), c)
<1>1. ChildOutcome(agg)[c] = EvaluateCondition(ChildRuleType(c), c, agg)
  BY OutcomeIs DEF EvaluateCondition
<1>2. ChildLeaves[c] = Leaves(ChildRuleType(c), c)
  BY LeavesAre DEF Leaves
<1>3. Fits(ChildRuleType(c), c)
  BY DEF Fits, ChildRuleType, Kinds
<1> QED
  BY <1>1, <1>2, <1>3

\* A rule matches exactly where it does not when turned round, if its children do.
LEMMA RuleTurns ==
    ASSUME NEW agg, IsAggregate(agg), NEW c \in Conditions, NEW type, Fits(type, c),
           \A d \in Leaves(type, c) : OperatorOf(d) \in Operators,
           \A i \in DOMAIN c.children :
             (\A d \in ChildLeaves[c.children[i]] : OperatorOf(d) \in Operators) =>
               ChildOutcome(agg)[Negation(c.children[i])].ok = ~ChildOutcome(agg)[c.children[i]].ok
    PROVE  EvaluateCondition(type, Negation(c), agg).ok = ~EvaluateCondition(type, c, agg).ok
<1> DEFINE n == Negation(c)
           o == [i \in DOMAIN c.children |-> ChildOutcome(agg)[c.children[i]]]
           p == [i \in DOMAIN n.children |-> ChildOutcome(agg)[n.children[i]]]
<1>1. /\ EvaluateCondition(type, c, agg) = OutcomeOf(type, c, o, agg)
      /\ EvaluateCondition(type, Negation(c), agg) = OutcomeOf(type, Negation(c), p, agg)
  BY DEF EvaluateCondition
<1>2. CASE type # "compound"
  <2>1. OperatorOf([type |-> type, cond |-> c]) \in Operators
    BY <1>2 DEF Leaves
  <2> HIDE DEF o, p
  <2> QED
    BY <1>1, <1>2, <2>1, SimpleTurns
<1>3. CASE type = "compound"
  <2>1. c.children # <<>>
    BY <1>3 DEF Fits
  <2>2. n \in Conditions /\ DOMAIN n.children = DOMAIN c.children
        /\ \A i \in DOMAIN c.children : n.children[i] = Negation(c.children[i])
    BY NegationTurns
  <2>3. o \in Seq(Outcome)
    BY OutcomeIs, PartsAre, OverParts
  <2>4. p \in Seq(Outcome)
    <3> HIDE DEF n
    <3> QED
      BY <2>2, OutcomeIs, PartsAre, OverParts
  <2>5. ASSUME NEW i \in DOMAIN c.children PROVE p[i].ok = ~o[i].ok
    <3>1. \A d \in ChildLeaves[c.children[i]] : OperatorOf(d) \in Operators
      BY <1>3 DEF Leaves
    <3>2. ChildOutcome(agg)[Negation(c.children[i])].ok = ~ChildOutcome(agg)[c.children[i]].ok
      BY <3>1
    <3>3. o[i] = ChildOutcome(agg)[c.children[i]]
      OBVIOUS
    <3>4. p[i] = ChildOutcome(agg)[Negation(c.children[i])]
      <4> HIDE DEF n
      <4> QED
        BY <2>2
    <3> HIDE DEF o, p
    <3> QED
      BY <3>2, <3>3, <3>4
  <2>6. DOMAIN o = DOMAIN c.children /\ DOMAIN p = DOMAIN c.children
    <3> HIDE DEF n
    <3> QED
      BY <2>2
  <2> HIDE DEF n, o, p
  <2> QED
    BY <1>1, <1>3, <2>1, <2>3, <2>4, <2>5, <2>6, CompoundTurns
<1> QED
  BY <1>2, <1>3

\* So does every child, however deep it nests.
LEMMA ChildTurns ==
    ASSUME NEW agg, IsAggregate(agg)
    PROVE  \A c \in Conditions :
             (\A d \in ChildLeaves[c] : OperatorOf(d) \in Operators) =>
               ChildOutcome(agg)[Negation(c)].ok = ~ChildOutcome(agg)[c].ok
<1> DEFINE T == {c \in Conditions :
                   (\A d \in ChildLeaves[c] : OperatorOf(d) \in Operators) =>
                     ChildOutcome(agg)[Negation(c)].ok = ~ChildOutcome(agg)[c].ok}
<1>1. ASSUME NEW c \in Conditions, \A i \in DOMAIN c.children : c.children[i] \in T
      PROVE  c \in T
  <2> SUFFICES ASSUME \A d \in ChildLeaves[c] : OperatorOf(d) \in Operators
               PROVE  ChildOutcome(agg)[Negation(c)].ok = ~ChildOutcome(agg)[c].ok
    OBVIOUS
  <2>1. PICK type : type = ChildRuleType(c)
    OBVIOUS
  <2>2. PICK n : n = Negation(c)
    OBVIOUS
  <2>3. n \in Conditions /\ ChildRuleType(n) = type
    BY <2>1, <2>2, NegationTurns
  <2>4. /\ ChildOutcome(agg)[c] = EvaluateCondition(type, c, agg)
        /\ ChildLeaves[c] = Leaves(type, c) /\ Fits(type, c)
    BY <2>1, ChildIsRule
  <2>5. ChildOutcome(agg)[n] = EvaluateCondition(type, n, agg)
    BY <2>3, ChildIsRule
  <2>6. \A i \in DOMAIN c.children :
          (\A d \in ChildLeaves[c.children[i]] : OperatorOf(d) \in Operators) =>
            ChildOutcome(agg)[Negation(c.children[i])].ok = ~ChildOutcome(agg)[c.children[i]].ok
    BY <1>1
  <2> HIDE DEF T
  <2>7. EvaluateCondition(type, Negation(c), agg).ok = ~EvaluateCondition(type, c, agg).ok
    BY <2>4, <2>6, RuleTurns
  <2> QED
    BY <2>2, <2>4, <2>5, <2>7
<1>2. \A c \in Conditions : c \in T
  <2> HIDE DEF T
  <2> QED
    BY <1>1, EveryCondition
<1> QED
  BY <1>2

\* The outcome of a rule that matches is that of a simple condition of it, if
\* that is so of its children.
LEMMA RuleExplains ==
    ASSUME NEW agg, IsAggregate(agg), NEW c \in Conditions, NEW type,
           type = "compound" => c.children # <<>>,
           EvaluateCondition(type, c, agg).ok,
           \A i \in DOMAIN c.children :
             ChildOutcome(agg)[c.children[i]].ok =>
               \E d \in ChildLeaves[c.children[i]] :
                 EvaluateCondition(d.type, d.cond, agg) = ChildOutcome(agg)[c.children[i]]
    PROVE  \E d \in Leaves(type, c) :
             EvaluateCondition(d.type, d.cond, agg) = EvaluateCondition(type, c, agg)
<1>1. CASE type # "compound"
  <2>1. [type |-> type, cond |-> c] \in Leaves(type, c)
    BY <1>1 DEF Leaves
  <2> QED
    BY <2>1
<1>2. CASE type = "compound"
  <2> DEFINE o == [i \in DOMAIN c.children |-> ChildOutcome(agg)[c.children[i]]]
             r == EvaluateCondition(type, c, agg)
  <2>1. r = IF c.logic = "or" THEN OrOf(o) ELSE AndOf(o)
    BY <1>2 DEF EvaluateCondition, OutcomeOf
  <2>2. o \in Seq(Outcome)
    BY OutcomeIs, PartsAre, OverParts
  <2>3. DOMAIN o = DOMAIN c.children /\ o # <<>>
    <3>1. c.children # <<>> /\ c.children \in Seq(Conditions)
      BY <1>2, PartsAre
    <3>2. 1 \in DOMAIN c.children
      BY <3>1
    <3>3. DOMAIN o = DOMAIN c.children
      OBVIOUS
    <3> HIDE DEF o
    <3> QED
      BY <3>2, <3>3
  <2>4. \A i \in DOMAIN c.children : o[i] = ChildOutcome(agg)[c.children[i]]
    OBVIOUS
  <2>5. r.ok
    OBVIOUS
  <2> HIDE DEF o, r
  <2>6. PICK i \in DOMAIN c.children : o[i] = r
    BY <2>1, <2>2, <2>3, <2>5, OrIs, AndIs
  <2>7. PICK d \in ChildLeaves[c.children[i]] : EvaluateCondition(d.type, d.cond, agg) = r
    BY <2>4, <2>5, <2>6
  <2>8. d \in Leaves(type, c)
    BY <1>2 DEF Leaves
  <2> QED
    BY <2>7, <2>8 DEF r
<1> QED
  BY <1>1, <1>2

\* And it is so of every child.
LEMMA ChildExplains ==
    ASSUME NEW agg, IsAggregate(agg)
    PROVE  \A c \in Conditions :
             ChildOutcome(agg)[c].ok =>
               \E d \in ChildLeaves[c] : EvaluateCondition(d.type, d.cond, agg) = ChildOutcome(agg)[c]
<1> DEFINE T == {c \in Conditions :
                   ChildOutcome(agg)[c].ok =>
                     \E d \in ChildLeaves[c] :
                       EvaluateCondition(d.type, d.cond, agg) = ChildOutcome(agg)[c]}
<1>1. ASSUME NEW c \in Conditions, \A i \in DOMAIN c.children : c.children[i] \in T
      PROVE  c \in T
  <2> SUFFICES ASSUME ChildOutcome(agg)[c].ok
               PROVE  \E d \in ChildLeaves[c] :
                        EvaluateCondition(d.type, d.cond, agg) = ChildOutcome(agg)[c]
    OBVIOUS
  <2>1. PICK type : type = ChildRuleType(c)
    OBVIOUS
  <2>2. /\ ChildOutcome(agg)[c] = EvaluateCondition(type, c, agg)
        /\ ChildLeaves[c] = Leaves(type, c) /\ Fits(type, c)
    BY <2>1, ChildIsRule
  <2>3. \A i \in DOMAIN c.children :
          ChildOutcome(agg)[c.children[i]].ok =>
            \E d \in ChildLeaves[c.children[i]] :
              EvaluateCondition(d.type, d.cond, agg) = ChildOutcome(agg)[c.children[i]]
    BY <1>1
  <2> HIDE DEF T
  <2>4. \E d \in Leaves(type, c) :
          EvaluateCondition(d.type, d.cond, agg) = EvaluateCondition(type, c, agg)
    BY <2>2, <2>3, RuleExplains DEF Fits
  <2> QED
    BY <2>2, <2>4
<1>2. \A c \in Conditions : c \in T
  <2> HIDE DEF T
  <2> QED
    BY <1>1, EveryCondition
<1> QED
  BY <1>2

-----------------------------------------------------------------------------
\* The rule given is one that validateRule has accepted, and its outcome, once
\* there, is what it comes to.
Evaluates ==
    /\ input \in Inputs /\ Accepted(input.type, input.cond)
    /\ result \in {Absent, EvaluateCondition(input.type, input.cond, input.agg)}

\* The step of Evaluation preserves that.
LEMMA EvaluatesAlways == Evaluation => []Evaluates
<1>1. Given => Evaluates
  BY DEF Given, Evaluates
<1>2. Evaluates /\ [Evaluate]_<<input, result>> => Evaluates'
  BY DEF Evaluates, Evaluate
<1> QED
  BY <1>1, <1>2, PTL DEF Evaluation

\* The outcome is never mistaken for none: a match that is evaluated is one.
LEMMA OutcomeIsThere ==
    ASSUME Evaluates
    PROVE  /\ input.cond \in Conditions /\ IsAggregate(input.agg)
           /\ input.type \in Kinds => Fits(input.type, input.cond)
           /\ Evaluated => result = EvaluateCondition(input.type, input.cond, input.agg)
<1>1. input.cond \in Conditions /\ IsAggregate(input.agg)
  BY ConditionAssumption DEF Evaluates
<1>2. input.type \in Kinds => Fits(input.type, input.cond)
  BY DEF Evaluates, Accepted, Fits, Kinds
<1> QED
  BY <1>1, <1>2 DEF Evaluates, Evaluated

\* Whatever conditions there are and however deep they nest, one matches exactly
\* where it does not when its operators and connectives are turned round.
THEOREM CompoundsAreLogic == Evaluation => []DeMorgan
<1>1. ASSUME Evaluates PROVE DeMorgan
  <2> SUFFICES ASSUME Evaluated, input.type \in Kinds,
                      \A d \in Leaves(input.type, input.cond) : OperatorOf(d) \in Operators
               PROVE  result.ok = ~EvaluateCondition(input.type, Negation(input.cond), input.agg).ok
    BY DEF DeMorgan
  <2>1. PICK type, c, agg : type = input.type /\ c = input.cond /\ agg = input.agg
    OBVIOUS
  <2>2. /\ c \in Conditions /\ IsAggregate(agg) /\ Fits(type, c)
        /\ result = EvaluateCondition(type, c, agg)
        /\ \A d \in Leaves(type, c) : OperatorOf(d) \in Operators
    BY <1>1, <2>1, OutcomeIsThere
  <2>3. \A i \in DOMAIN c.children :
          (\A d \in ChildLeaves[c.children[i]] : OperatorOf(d) \in Operators) =>
            ChildOutcome(agg)[Negation(c.children[i])].ok = ~ChildOutcome(agg)[c.children[i]].ok
    BY <2>2, PartsAre, ChildTurns
  <2>4. EvaluateCondition(type, Negation(c), agg).ok = ~EvaluateCondition(type, c, agg).ok
    BY <2>2, <2>3, RuleTurns
  <2>5. EvaluateCondition(type, c, agg) \in Outcome
    <3>1. [i \in DOMAIN c.children |-> ChildOutcome(agg)[c.children[i]]] \in Seq(Outcome)
      BY <2>2, OutcomeIs, PartsAre, OverParts
    <3> QED
      BY <2>2, <3>1, OutcomeTyped DEF EvaluateCondition
  <2>6. result.ok = ~EvaluateCondition(type, Negation(c), agg).ok
    BY <2>2, <2>4, <2>5 DEF Outcome
  <2> QED
    BY <2>1, <2>6
<1> QED
  BY <1>1, EvaluatesAlways, PTL

\* The value that a match reports is one by which a simple condition of the rule
\* matches, at whatever depth.
THEOREM MatchesAreExplained == Evaluation => []ValueExplainsMatch
<1>1. ASSUME Evaluates PROVE ValueExplainsMatch
  <2> SUFFICES ASSUME Evaluated, result.ok
               PROVE  \E d \in Leaves(input.type, input.cond) :
                        EvaluateCondition(d.type, d.cond, input.agg) = result
    BY DEF ValueExplainsMatch
  <2>1. PICK type, c, agg : type = input.type /\ c = input.cond /\ agg = input.agg
    OBVIOUS
  <2>2. /\ c \in Conditions /\ IsAggregate(agg) /\ (type = "compound" => c.children # <<>>)
        /\ result = EvaluateCondition(type, c, agg)
    BY <1>1, <2>1, OutcomeIsThere DEF Evaluates, Accepted
  <2>3. \A i \in DOMAIN c.children :
          ChildOutcome(agg)[c.children[i]].ok =>
            \E d \in ChildLeaves[c.children[i]] :
              EvaluateCondition(d.type, d.cond, agg) = ChildOutcome(agg)[c.children[i]]
    BY <2>2, PartsAre, ChildExplains
  <2>4. \E d \in Leaves(type, c) :
          EvaluateCondition(d.type, d.cond, agg) = EvaluateCondition(type, c, agg)
    BY <2>2, <2>3, RuleExplains
  <2>5. \E d \in Leaves(type, c) : EvaluateCondition(d.type, d.cond, agg) = result
    BY <2>2, <2>4, Zenon
  <2> QED
    BY <2>1, <2>5, Zenon
<1> QED
  BY <1>1, EvaluatesAlways, PTL
=============================================================================
