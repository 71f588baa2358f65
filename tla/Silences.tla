------------------------------ MODULE Silences ------------------------------
(***************************************************************************)
(* The silences (internal/silence): Create and Update of the API, and      *)
(* IsSilenced as the evaluator asks it.  Create takes the time before its  *)
(* INSERT, Update writes whatever it is given.  A run of the evaluator has *)
(* one time, its now, and asks with it however late it gets to an alert.   *)
(* The now of the scheduler is the time of the tick, which may have waited *)
(* in the channel of the ticker while the run before it went on.           *)
(*                                                                         *)
(* The clocks of the replicas agree.  Time 0 is Go's zero time: a body     *)
(* that leaves a time out has it.                                          *)
(***************************************************************************)
EXTENDS Naturals

CONSTANTS
    Ids,          \* identifiers of silences
    Rules, Scopes,
    Keys, Values, \* of labels
    Bodies,       \* what a request may hold
    Runners,      \* whatever runs the evaluator
    Schedulers,   \* those that do so when a ticker fires
    MaxNow,       \* bound on the clock
    Every,        \* an empty rule or scope: matches every one
    None          \* no silence, no label

\* A label is missing, or has a value.
Labels == [Keys -> Values \cup {None}]

Silence == [rule : Rules \cup {Every}, scope : Scopes \cup {Every}, matchers : Labels,
            starts : Nat, ends : Nat, active : BOOLEAN]

Subjects == [rule : Rules, scope : Scopes, labels : Labels]

\* What is assumed of the constants, by the module that gives them values.
Admissible ==
    /\ MaxNow \in Nat \ {0}
    /\ Bodies \subseteq Silence
    /\ Schedulers \subseteq Runners
    /\ None \notin Silence

VARIABLES
    stored,       \* the silences table
    asked,        \* silences Create has accepted and not inserted
    now,          \* the clock
    due,          \* the tick in the channel of a scheduler, 0 if none
    at,           \* the now of a run, 0 if there is none
    edited,       \* silences an Update has written
    born,         \* when Create filled in the start of a silence
    since         \* when a silence was inserted or last edited

vars == <<stored, asked, now, due, at, edited, born, since>>

observers == <<edited, born, since>>

Init ==
    /\ stored = [i \in Ids |-> None]
    /\ asked = [i \in Ids |-> None]
    /\ now = 1
    /\ due = [c \in Runners |-> 0]
    /\ at = [c \in Runners |-> 0]
    /\ edited = {}
    /\ born = [i \in Ids |-> 0]
    /\ since = [i \in Ids |-> 0]

Tick ==
    /\ now < MaxNow
    /\ now' = now + 1
    /\ UNCHANGED <<stored, asked, due, at, observers>>

-----------------------------------------------------------------------------
(* Create and Update. *)

\* (mutant) a missing start is left as it is
NormalizeNoStart(body) ==
    IF body.ends = 0 \/ body.ends <= body.starts THEN None ELSE [body EXCEPT !.active = TRUE]

\* A silence without a start begins now; None stands for the error.
Normalize(body) ==
    LET starts == IF body.starts = 0 THEN now ELSE body.starts
    IN  IF body.ends = 0 \/ body.ends <= starts THEN None
        ELSE [body EXCEPT !.starts = starts, !.active = TRUE]

\* Create, up to the INSERT.  A body that is refused changes nothing, nor does an
\* identifier that is taken.
Ask(i, body) ==
    /\ stored[i] = None /\ asked[i] = None
    /\ Normalize(body) # None
    /\ asked' = [asked EXCEPT ![i] = Normalize(body)]
    /\ born' = [born EXCEPT ![i] = IF body.starts = 0 THEN now ELSE 0]
    /\ UNCHANGED <<stored, now, due, at, edited, since>>

\* The INSERT.
Create(i) ==
    /\ asked[i] # None
    /\ stored' = [stored EXCEPT ![i] = asked[i]]
    /\ asked' = [asked EXCEPT ![i] = None]
    /\ since' = [since EXCEPT ![i] = now]
    /\ UNCHANGED <<now, due, at, edited, born>>

\* The INSERT fails.
CreateFails(i) ==
    /\ asked[i] # None
    /\ asked' = [asked EXCEPT ![i] = None]
    /\ born' = [born EXCEPT ![i] = 0]
    /\ UNCHANGED <<stored, now, due, at, edited, since>>

\* The whole row is replaced by the body as it came.
Update(i, body) ==
    /\ stored[i] # None
    /\ stored' = [stored EXCEPT ![i] = body]
    /\ edited' = edited \cup {i}
    /\ born' = [born EXCEPT ![i] = 0]
    /\ since' = [since EXCEPT ![i] = now]
    /\ UNCHANGED <<asked, now, due, at>>

-----------------------------------------------------------------------------
(* IsSilenced. *)

\* Every matcher names a label that is there with its value.
Match(labels, matchers) ==
    \A k \in Keys : matchers[k] # None => labels[k] = matchers[k]

\* The WHERE clause of ListActive.
ListActive(time) ==
    {i \in Ids : /\ stored[i] # None
                 /\ stored[i].active /\ stored[i].starts <= time /\ time < stored[i].ends}

Matches(silence, subject, time) ==
    /\ silence.active /\ time < silence.ends /\ silence.starts < time
    /\ silence.rule \in {Every, subject.rule}
    /\ silence.scope \in {Every, subject.scope}
    /\ Match(subject.labels, silence.matchers)

IsSilenced(subject, time) == \E i \in ListActive(time) : Matches(stored[i], subject, time)

-----------------------------------------------------------------------------
(* The times of the runs. *)

\* The channel of a ticker holds one tick; one that finds it full is dropped.
Fires(c) ==
    /\ c \in Schedulers
    /\ due[c] = 0
    /\ due' = [due EXCEPT ![c] = now]
    /\ UNCHANGED <<stored, asked, now, at, observers>>

\* A scheduler takes the tick, a handler or the queue worker the time.
Begin(c) ==
    /\ at[c] = 0
    /\ \/ /\ c \in Schedulers /\ due[c] # 0
          /\ at' = [at EXCEPT ![c] = due[c]]
          /\ due' = [due EXCEPT ![c] = 0]
       \/ /\ c \notin Schedulers
          /\ at' = [at EXCEPT ![c] = now]
          /\ UNCHANGED due
    /\ UNCHANGED <<stored, asked, now, observers>>

End(c) ==
    /\ at[c] # 0
    /\ at' = [at EXCEPT ![c] = 0]
    /\ UNCHANGED <<stored, asked, now, due, observers>>

\* The process of a run dies, and its ticker.
Die(c) ==
    /\ at' = [at EXCEPT ![c] = 0]
    /\ due' = [due EXCEPT ![c] = 0]
    /\ UNCHANGED <<stored, asked, now, observers>>

-----------------------------------------------------------------------------
Next ==
    \/ Tick
    \/ \E i \in Ids : Create(i) \/ CreateFails(i) \/ \E body \in Bodies : Ask(i, body) \/ Update(i, body)
    \/ \E c \in Runners : Fires(c) \/ Begin(c) \/ End(c) \/ Die(c)

Spec == Init /\ [][Next]_vars

-----------------------------------------------------------------------------
(* Properties. *)

\* The type of the state, and what the observers say of the table.
TypeOK ==
    /\ stored \in [Ids -> Silence \cup {None}]
    /\ asked \in [Ids -> Silence \cup {None}]
    /\ now \in Nat \ {0}
    /\ due \in [Runners -> 0..now] /\ at \in [Runners -> 0..now]
    /\ edited \subseteq {i \in Ids : stored[i] # None}
    /\ born \in [Ids -> 0..now] /\ since \in [Ids -> 0..now]
    /\ \A i \in Ids : stored[i] # None => asked[i] = None
    /\ \A i \in Ids : born[i] # 0 => i \notin edited

\* A silence that was created and never edited ends after it starts, whatever
\* times the request gave or left out (domain/types.go, Normalize).
CreatedWindowsOpen ==
    \A i \in Ids :
        stored[i] # None /\ i \notin edited => stored[i].active /\ stored[i].starts < stored[i].ends

\* A silence that was created without a start has no effect on a run whose time is
\* from before the request, although the run asks after the silence is stored.
NeverReachesBack ==
    \A i \in Ids, c \in Runners, subject \in Subjects :
        /\ stored[i] # None /\ born[i] # 0
        /\ i \in ListActive(at[c]) /\ Matches(stored[i], subject, at[c])
        => born[i] < at[c]
=============================================================================
