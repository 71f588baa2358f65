------------------------------ MODULE Ingestion ------------------------------
(***************************************************************************)
(* Ingestion of events (internal/ingestion): IngestBatch deduplicates a    *)
(* batch with one goroutine per event, inserts what is left in one         *)
(* transaction, and queues one evaluation per inserted event.  Ingest, for *)
(* a single event, is a batch of one.                                      *)
(*                                                                         *)
(* The calls come in over HTTP and gRPC, in any number of processes.  The  *)
(* two critical sections of a goroutine and the query between them are one *)
(* step each.  PostgreSQL makes an insert wait while another transaction   *)
(* has inserted the same dedupe_key and not ended, and breaks a circle of  *)
(* such waits by aborting a transaction in it.                             *)
(*                                                                         *)
(* Events are the valid ones of a batch, and sampling is off, as bootstrap *)
(* configures it; what an event carries is left out, except its key.  The  *)
(* order in which goroutines append to the deduplicated batch is any.      *)
(***************************************************************************)
EXTENDS Naturals

CONSTANTS
    Calls,        \* calls of IngestBatch
    Events, Keys,
    CallOf,       \* the call an event comes with
    KeyOf,        \* its dedupe_key
    NoEvent,      \* the row of a key that has none
    MaxFaults     \* bound on errors and crashes in a behaviour

ASSUME IngestionAssumption ==
    /\ CallOf \in [Events -> Calls]
    /\ KeyOf \in [Events -> Keys]
    /\ NoEvent \notin Events
    /\ MaxFaults \in Nat

VARIABLES
    (* ingestion_events, by dedupe_key *)
    row,          \* the event whose row has the key
    fresh,        \* its received_at lies within the dedupe window
    (* a goroutine of dedupe *)
    gpc,
    (* a call *)
    cpc,
    todo,         \* events it has yet to insert, or to queue evaluations for
    cur,          \* the event of the insert that is executing
    held,         \* events its open transaction has inserted
    (* the queue and bookkeeping *)
    queued,       \* events an evaluation was queued for
    missed,       \* events that may get none: queueing it returned an error, or their
                  \* call crashed or learned of an error after they were stored
    faults

tableVars == <<row, fresh>>
callVars == <<cpc, todo, cur, held>>
vars == <<tableVars, gpc, callVars, queued, missed, faults>>

Init ==
    /\ row = [k \in Keys |-> NoEvent]
    /\ fresh = [k \in Keys |-> FALSE]
    /\ gpc = [e \in Events |-> "seen"]
    /\ cpc = [c \in Calls |-> "new"]
    /\ todo = [c \in Calls |-> {}]
    /\ cur = [c \in Calls |-> {}]
    /\ held = [c \in Calls |-> {}]
    /\ queued = {} /\ missed = {}
    /\ faults = 0

-----------------------------------------------------------------------------
\* The events of a batch that ValidateEvent accepts; DedupeFingerprint is KeyOf.
EventsOf(c) == {e \in Events : CallOf[e] = c}

Stored(k) == row[k] # NoEvent

Fault == faults < MaxFaults /\ faults' = faults + 1

\* The received_at of a row falls behind the window of ExistsDedupe.
WindowPasses(k) ==
    /\ fresh[k]
    /\ fresh' = [fresh EXCEPT ![k] = FALSE]
    /\ UNCHANGED <<row, gpc, callVars, queued, missed, faults>>

Arrive(c) ==
    /\ cpc[c] = "new"
    /\ cpc' = [cpc EXCEPT ![c] = "dedupe"]
    /\ UNCHANGED <<tableVars, gpc, todo, cur, held, queued, missed, faults>>

-----------------------------------------------------------------------------
(* dedupe: the goroutine of an event. *)

\* What the goroutines of a call have appended; their keys are the seen map.
Kept(c) == {e \in EventsOf(c) : gpc[e] = "kept"}

Seen(c) == {KeyOf[e] : e \in Kept(c)}

GoroutineStep(e, from, to) ==
    /\ cpc[CallOf[e]] = "dedupe"
    /\ gpc[e] = from
    /\ gpc' = [gpc EXCEPT ![e] = to]

CheckSeen(e) ==
    /\ GoroutineStep(e, "seen", IF KeyOf[e] \in Seen(CallOf[e]) THEN "dropped" ELSE "exists")
    /\ UNCHANGED <<tableVars, callVars, queued, missed, faults>>

\* The EXISTS query of ExistsDedupe.
ExistsDedupe(k) == Stored(k) /\ fresh[k]

QueryExists(e) ==
    /\ GoroutineStep(e, "exists", IF ExistsDedupe(KeyOf[e]) THEN "dropped" ELSE "append")
    /\ UNCHANGED <<tableVars, callVars, queued, missed, faults>>

\* (mutant) an event whose check fails is skipped
ExistsErrorSkips(e) ==
    /\ GoroutineStep(e, "exists", "dropped")
    /\ Fault
    /\ UNCHANGED <<tableVars, callVars, queued, missed>>

ExistsError(e) ==
    /\ GoroutineStep(e, "exists", "error")
    /\ Fault
    /\ UNCHANGED <<tableVars, callVars, queued, missed>>

\* (mutant) the seen map is not looked at again
AppendUnchecked(e) ==
    /\ GoroutineStep(e, "append", "kept")
    /\ UNCHANGED <<tableVars, callVars, queued, missed, faults>>

Append(e) ==
    /\ GoroutineStep(e, "append", IF KeyOf[e] \in Seen(CallOf[e]) THEN "dropped" ELSE "kept")
    /\ UNCHANGED <<tableVars, callVars, queued, missed, faults>>

\* wg.Wait, and the error of any goroutine fails the call.
DedupeDone(c) ==
    /\ cpc[c] = "dedupe"
    /\ \A e \in EventsOf(c) : gpc[e] \in {"kept", "dropped", "error"}
    /\ IF \E e \in EventsOf(c) : gpc[e] = "error"
       THEN /\ cpc' = [cpc EXCEPT ![c] = "failed"]
            /\ UNCHANGED todo
       ELSE /\ cpc' = [cpc EXCEPT ![c] = "insert"]
            /\ todo' = [todo EXCEPT ![c] = Kept(c)]
    /\ UNCHANGED <<tableVars, gpc, cur, held, queued, missed, faults>>

-----------------------------------------------------------------------------
(* InsertBatch. *)

NextInsert(c) ==
    /\ cpc[c] = "insert"
    /\ cur[c] = {}
    /\ \E e \in todo[c] :
         /\ cur' = [cur EXCEPT ![c] = {e}]
         /\ todo' = [todo EXCEPT ![c] = @ \ {e}]
    /\ UNCHANGED <<tableVars, gpc, cpc, held, queued, missed, faults>>

\* c executes an insert whose key d has inserted in a transaction still open.
WaitsFor(c, d) ==
    /\ c # d
    /\ cpc[c] = "insert"
    /\ \E e \in cur[c], f \in held[d] : KeyOf[e] = KeyOf[f]

\* (mutant) the insert is not part of the transaction
InsertAutocommit(c) ==
    /\ cpc[c] = "insert"
    /\ \A d \in Calls : ~WaitsFor(c, d)
    /\ \E e \in cur[c] :
         /\ row' = [row EXCEPT ![KeyOf[e]] = IF @ = NoEvent THEN e ELSE @]
         /\ fresh' = [fresh EXCEPT ![KeyOf[e]] = @ \/ row[KeyOf[e]] = NoEvent]
    /\ cur' = [cur EXCEPT ![c] = {}]
    /\ UNCHANGED <<gpc, cpc, todo, held, queued, missed, faults>>

\* INSERT ... ON CONFLICT (dedupe_key) DO NOTHING.
Insert(c) ==
    /\ cpc[c] = "insert"
    /\ \A d \in Calls : ~WaitsFor(c, d)
    /\ \E e \in cur[c] :
         held' = [held EXCEPT ![c] = IF Stored(KeyOf[e]) THEN @ ELSE @ \cup {e}]
    /\ cur' = [cur EXCEPT ![c] = {}]
    /\ UNCHANGED <<tableVars, gpc, cpc, todo, queued, missed, faults>>

\* The call ends with an error and its transaction is rolled back.
Abort(c) ==
    /\ cpc' = [cpc EXCEPT ![c] = "failed"]
    /\ todo' = [todo EXCEPT ![c] = {}]
    /\ cur' = [cur EXCEPT ![c] = {}]
    /\ held' = [held EXCEPT ![c] = {}]

\* (mutant) nothing rolls the transaction back
InsertErrorLeaksTx(c) ==
    /\ cpc[c] = "insert"
    /\ Fault
    /\ cpc' = [cpc EXCEPT ![c] = "failed"]
    /\ todo' = [todo EXCEPT ![c] = {}]
    /\ cur' = [cur EXCEPT ![c] = {}]
    /\ UNCHANGED <<tableVars, gpc, held, queued, missed>>

\* Begin, an insert or the commit fails without effect.
InsertError(c) ==
    /\ cpc[c] = "insert"
    /\ Fault
    /\ Abort(c)
    /\ UNCHANGED <<tableVars, gpc, queued, missed>>

\* Everyone in S waits for somebody in S and is waited for.
Circle(S) ==
    \A c \in S : /\ \E d \in S : WaitsFor(c, d)
                 /\ \E d \in S : WaitsFor(d, c)

\* PostgreSQL breaks a deadlock by failing the insert of one in the circle.
DeadlockVictim(c) ==
    /\ \E S \in SUBSET Calls : c \in S /\ Circle(S)
    /\ Abort(c)
    /\ UNCHANGED <<tableVars, gpc, queued, missed, faults>>

CommitRows(c) ==
    LET keys == {KeyOf[e] : e \in held[c]}
    IN  /\ row' = [k \in Keys |-> IF k \in keys
                                  THEN CHOOSE e \in held[c] : KeyOf[e] = k
                                  ELSE row[k]]
        /\ fresh' = [k \in Keys |-> k \in keys \/ fresh[k]]

AllInserted(c) == cpc[c] = "insert" /\ cur[c] = {} /\ todo[c] = {}

Commit(c) ==
    /\ AllInserted(c)
    /\ CommitRows(c)
    /\ cpc' = [cpc EXCEPT ![c] = "enqueue"]
    /\ todo' = [todo EXCEPT ![c] = Kept(c)]
    /\ held' = [held EXCEPT ![c] = {}]
    /\ UNCHANGED <<gpc, cur, queued, missed, faults>>

\* The commit takes effect and returns an error.
CommitAckLost(c) ==
    /\ AllInserted(c)
    /\ Fault
    /\ CommitRows(c)
    /\ missed' = missed \cup held[c]
    /\ Abort(c)
    /\ UNCHANGED <<gpc, queued>>

-----------------------------------------------------------------------------
(* The evaluations. *)

\* (mutant) the first error ends the loop
EnqueueUntilError(c) ==
    /\ cpc[c] = "enqueue"
    /\ \E e \in todo[c] :
         \/ /\ todo' = [todo EXCEPT ![c] = @ \ {e}]
            /\ queued' = queued \cup {e}
            /\ UNCHANGED <<missed, faults>>
         \/ /\ Fault
            /\ todo' = [todo EXCEPT ![c] = {}]
            /\ missed' = missed \cup {e}
            /\ queued' \in {queued, queued \cup {e}}
    /\ UNCHANGED <<tableVars, gpc, cpc, cur, held>>

\* An error is logged and the event passed over.
EnqueueEvaluation(c) ==
    /\ cpc[c] = "enqueue"
    /\ \E e \in todo[c] :
         /\ todo' = [todo EXCEPT ![c] = @ \ {e}]
         /\ \/ queued' = queued \cup {e} /\ UNCHANGED <<missed, faults>>
            \/ Fault /\ missed' = missed \cup {e} /\ queued' \in {queued, queued \cup {e}}
    /\ UNCHANGED <<tableVars, gpc, cpc, cur, held>>

Return(c) ==
    /\ cpc[c] = "enqueue"
    /\ todo[c] = {}
    /\ cpc' = [cpc EXCEPT ![c] = "done"]
    /\ UNCHANGED <<tableVars, gpc, todo, cur, held, queued, missed, faults>>

Active(c) == cpc[c] \in {"dedupe", "insert", "enqueue"}

\* The process dies; PostgreSQL rolls its open transaction back.
Crash(c) ==
    /\ Active(c)
    /\ Fault
    /\ missed' = missed \cup (IF cpc[c] = "enqueue" THEN todo[c] ELSE {})
    /\ Abort(c)
    /\ UNCHANGED <<tableVars, gpc, queued>>

-----------------------------------------------------------------------------
\* Steps of the program and of PostgreSQL that go on by themselves.
CallStep(c) ==
    \/ \E e \in EventsOf(c) : CheckSeen(e) \/ QueryExists(e) \/ ExistsError(e) \/ Append(e)
    \/ DedupeDone(c) \/ NextInsert(c) \/ Insert(c) \/ InsertError(c) \/ DeadlockVictim(c)
    \/ Commit(c) \/ CommitAckLost(c) \/ EnqueueEvaluation(c) \/ Return(c)

Next ==
    \/ \E k \in Keys : WindowPasses(k)
    \/ \E c \in Calls : Arrive(c) \/ CallStep(c) \/ Crash(c)

Spec == Init /\ [][Next]_vars

FairSpec == Spec /\ \A c \in Calls : WF_vars(CallStep(c))

-----------------------------------------------------------------------------
(* Properties. *)

\* The type of the state.
TypeOK ==
    /\ row \in [Keys -> Events \cup {NoEvent}]
    /\ fresh \in [Keys -> BOOLEAN]
    /\ gpc \in [Events -> {"seen", "exists", "append", "kept", "dropped", "error"}]
    /\ cpc \in [Calls -> {"new", "dedupe", "insert", "enqueue", "done", "failed"}]
    /\ todo \in [Calls -> SUBSET Events]
    /\ cur \in [Calls -> SUBSET Events]
    /\ held \in [Calls -> SUBSET Events]
    /\ \A k \in Keys : fresh[k] => row[k] \in {e \in Events : KeyOf[e] = k}
    /\ queued \subseteq Events /\ missed \subseteq Events
    /\ faults \in 0..MaxFaults

\* However its goroutines interleave, a batch keeps one event per key.
OneKeptPerKey ==
    \A c \in Calls : \A d, e \in Kept(c) : KeyOf[d] = KeyOf[e] => d = e

\* A batch that is past its transaction has lost nothing: each of its events has
\* a row with its key, its own or the one it duplicates.
NothingLost ==
    \A c \in Calls : cpc[c] \in {"enqueue", "done"} =>
        \A e \in EventsOf(c) : Stored(KeyOf[e])

\* A batch is stored as a whole or not at all, also when it failed, crashed or
\* was the victim of a deadlock.
AllOrNothing ==
    \A c \in Calls : (\E k \in Keys : row[k] \in EventsOf(c)) =>
        \A e \in EventsOf(c) : Stored(KeyOf[e])

\* A stored event gets its evaluation, also if those of others in its batch could
\* not be queued: once its call is over it has been queued, unless it was for this very
\* event that queueing failed, or the call crashed or lost the answer to its commit.
StoredAreEvaluated ==
    \A k \in Keys : Stored(k) /\ cpc[CallOf[row[k]]] \in {"done", "failed"} =>
        row[k] \in queued \cup missed

\* Every call returns, although batches wait for each other's keys in any order.
EveryCallReturns == \A c \in Calls : cpc[c] = "dedupe" ~> cpc[c] \in {"done", "failed"}

=============================================================================
