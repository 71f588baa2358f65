-------------------------- MODULE IngestionProofs --------------------------
(***************************************************************************)
(* Proofs about Ingestion, for any batches, keys and number of faults.     *)
(***************************************************************************)
EXTENDS Ingestion, TLAPS

\* What is known of a call by where it stands.
Idle(c) == cpc[c] # "insert" => held[c] = {} /\ cur[c] = {}

Ready(c) ==
    cpc[c] \in {"insert", "enqueue", "done"} => \A e \in EventsOf(c) : gpc[e] \in {"kept", "dropped"}

Own(c) == todo[c] \cup cur[c] \cup held[c] \subseteq EventsOf(c)

\* One insert executes at a time.
OneInsert(c) == \A d, e \in cur[c] : d = e

\* An event is dropped only if its batch has kept its key or a row has it.
Dropped(c) ==
    \A e \in EventsOf(c) : gpc[e] = "dropped" => KeyOf[e] \in Seen(c) \/ Stored(KeyOf[e])

\* What the transaction is about to insert, has inserted, or need not insert is all
\* that the batch has kept.
Inserting(c) ==
    cpc[c] = "insert" => \A e \in Kept(c) : e \in todo[c] \cup cur[c] \cup held[c] \/ Stored(KeyOf[e])

Past(c) == cpc[c] \in {"enqueue", "done"} => \A e \in EventsOf(c) : Stored(KeyOf[e])

\* What a transaction holds its batch has kept.
HoldsKept(c) == cpc[c] = "insert" => todo[c] \cup cur[c] \cup held[c] \subseteq Kept(c)

\* A call has rows once it has committed, and an evaluation of each is queued, missed
\* or has its turn yet; only a call under way has events to insert or to queue.
Evaluated(c) ==
    /\ cpc[c] \notin {"insert", "enqueue"} => todo[c] = {}
    /\ \A k \in Keys : row[k] \in EventsOf(c) =>
         /\ cpc[c] \in {"enqueue", "done", "failed"}
         /\ row[k] \in todo[c] \cup queued \cup missed

CallInv(c) ==
    /\ Idle(c) /\ Ready(c) /\ Own(c) /\ OneInsert(c) /\ Dropped(c) /\ Inserting(c) /\ Past(c)
    /\ HoldsKept(c) /\ Evaluated(c)

IInv ==
    /\ TypeOK
    /\ \A c \in Calls : CallInv(c)
    /\ OneKeptPerKey /\ AllOrNothing

\* No event is forgotten: what is kept stays kept, what is stored stays stored, and
\* so does what is queued.
Grows ==
    /\ queued \subseteq queued' /\ missed \subseteq missed'
    /\ \A k \in Keys : Stored(k) => Stored(k)'
    /\ \A c \in Calls : Kept(c) \subseteq Kept(c)' /\ Seen(c) \subseteq Seen(c)'

-----------------------------------------------------------------------------
\* A step of another call leaves what is known of c.
LEMMA OtherCall ==
    ASSUME IInv, NEW c \in Calls, Grows,
           UNCHANGED <<cpc[c], todo[c], cur[c], held[c]>>,
           \A e \in EventsOf(c) : gpc'[e] = gpc[e],
           \A k \in Keys : row'[k] \in EventsOf(c) => row'[k] = row[k]
    PROVE  CallInv(c)'
  <1>1. CallInv(c)
    BY DEF IInv
  <1>2. \A e \in EventsOf(c) : KeyOf[e] \in Keys
    BY IngestionAssumption DEF EventsOf
  <1>3. Kept(c)' = Kept(c) /\ EventsOf(c)' = EventsOf(c)
    BY DEF Kept, EventsOf
  <1>4. Idle(c)' /\ Ready(c)' /\ Own(c)' /\ OneInsert(c)'
    BY <1>1, <1>3 DEF CallInv, Idle, Ready, Own, OneInsert
  <1>5. Dropped(c)' /\ Past(c)'
    BY <1>1, <1>2, <1>3 DEF CallInv, Dropped, Past, Grows
  <1>6. \A e \in Kept(c) : e \in EventsOf(c)
    BY DEF Kept
  <1>7. Inserting(c)'
    BY <1>1, <1>2, <1>3, <1>6 DEF CallInv, Inserting, Grows
  <1>8. HoldsKept(c)'
    BY <1>1, <1>3 DEF CallInv, HoldsKept
  <1>9. Evaluated(c)'
    BY <1>1, <1>3 DEF CallInv, Evaluated, Grows
  <1>q. QED BY <1>4, <1>5, <1>7, <1>8, <1>9 DEF CallInv

\* At first nothing is stored and no call is under way.
LEMMA InitHolds == Init => IInv
  <1> SUFFICES ASSUME Init PROVE IInv
    OBVIOUS
  <1>1. TypeOK
    BY IngestionAssumption DEF Init, TypeOK
  <1>2. \A c \in Calls : CallInv(c)
    BY IngestionAssumption DEF Init, CallInv, Idle, Ready, Own, OneInsert, Dropped, Inserting, Past,
                               HoldsKept, Evaluated, EventsOf
  <1>3. OneKeptPerKey
    BY DEF Init, OneKeptPerKey, Kept, EventsOf
  <1>4. AllOrNothing
    BY IngestionAssumption DEF Init, AllOrNothing, EventsOf
  <1>q. QED BY <1>1, <1>2, <1>3, <1>4 DEF IInv

\* Nothing that keeps the rows and the keeping of events breaks what is said of them.
LEMMA SameRows ==
    ASSUME IInv, UNCHANGED row, \A c \in Calls : Kept(c)' = Kept(c)
    PROVE  OneKeptPerKey' /\ AllOrNothing'
  <1>1. \A c \in Calls : EventsOf(c)' = EventsOf(c)
    BY DEF EventsOf
  <1>q. QED BY <1>1 DEF IInv, OneKeptPerKey, AllOrNothing, Stored

\* The goroutine of an event goes on.
LEMMA GoroutineKeeps ==
    ASSUME IInv, NEW c \in Calls, NEW e \in EventsOf(c),
           CheckSeen(e) \/ QueryExists(e) \/ ExistsError(e) \/ Append(e)
    PROVE  IInv'
  <1> USE DEF IInv
  <1>1. PICK from \in {"seen", "exists", "append"}, to \in {"exists", "append", "kept", "dropped", "error"} :
          /\ cpc[c] = "dedupe"
          /\ gpc[e] = from
          /\ gpc' = [gpc EXCEPT ![e] = to]
          /\ to = "dropped" => KeyOf[e] \in Seen(c) \/ Stored(KeyOf[e])
          /\ to = "kept" => KeyOf[e] \notin Seen(c)
    <2>1. CallOf[e] = c
      BY DEF EventsOf
    <2>2. CASE CheckSeen(e)
      BY <2>1, <2>2 DEF CheckSeen, GoroutineStep
    <2>3. CASE QueryExists(e)
      BY <2>1, <2>3 DEF QueryExists, GoroutineStep, ExistsDedupe
    <2>4. CASE ExistsError(e)
      BY <2>1, <2>4 DEF ExistsError, GoroutineStep
    <2>5. CASE Append(e)
      BY <2>1, <2>5 DEF Append, GoroutineStep
    <2>q. QED BY <2>2, <2>3, <2>4, <2>5
  <1>2. UNCHANGED <<row, fresh, cpc, todo, cur, held, queued, missed>> /\ faults' \in 0..MaxFaults
    BY IngestionAssumption DEF CheckSeen, QueryExists, ExistsError, Append, Fault, tableVars, callVars, TypeOK
  <1>3. e \in Events /\ CallOf[e] = c
    BY DEF EventsOf
  <1>4. TypeOK'
    BY <1>1, <1>2, <1>3 DEF TypeOK
  <1>5. \A d \in Calls : EventsOf(d)' = EventsOf(d)
    BY DEF EventsOf
  <1>6. \A d \in Calls : Kept(d) \subseteq Kept(d)' /\ Seen(d) \subseteq Seen(d)'
    BY <1>1, <1>3 DEF Kept, Seen, EventsOf, TypeOK
  <1>7. Grows
    BY <1>2, <1>6 DEF Grows, Stored
  <1>8. ASSUME NEW d \in Calls, d # c PROVE CallInv(d)'
    <2>1. \A f \in EventsOf(d) : gpc'[f] = gpc[f]
      BY <1>1, <1>3, <1>8 DEF EventsOf, TypeOK
    <2>q. QED BY <1>2, <1>7, <2>1, OtherCall
  <1>9. CallInv(c)'
    <2>1. CallInv(c)
      OBVIOUS
    <2>2. Idle(c)' /\ Ready(c)' /\ Own(c)' /\ OneInsert(c)' /\ Inserting(c)' /\ Past(c)'
      BY <1>1, <1>2, <1>5, <2>1 DEF CallInv, Idle, Ready, Own, OneInsert, Inserting, Past
    <2>3. HoldsKept(c)' /\ Evaluated(c)'
      BY <1>1, <1>2, <1>5, <2>1 DEF CallInv, HoldsKept, Evaluated
    <2>4. Dropped(c)'
      <3>1. \A f \in EventsOf(c) : gpc'[f] = "dropped" => gpc[f] = "dropped" \/ (f = e /\ to = "dropped")
        BY <1>1, <1>3 DEF EventsOf, TypeOK
      <3>2. \A f \in EventsOf(c) : Stored(KeyOf[f]) => Stored(KeyOf[f])'
        BY <1>2 DEF Stored
      <3>q. QED BY <1>1, <1>5, <1>6, <2>1, <3>1, <3>2 DEF CallInv, Dropped
    <2>q. QED BY <2>2, <2>3, <2>4 DEF CallInv
  <1>10. OneKeptPerKey'
    <2>1. \A d \in Calls : d # c => Kept(d)' = Kept(d)
      BY <1>1, <1>3 DEF Kept, EventsOf, TypeOK
    <2>2. \A f \in Kept(c)' : f \in Kept(c) \/ (f = e /\ to = "kept")
      BY <1>1, <1>3 DEF Kept, EventsOf, TypeOK
    <2>3. \A f \in Kept(c) : KeyOf[f] \in Seen(c)
      BY DEF Seen
    <2>q. QED BY <1>1, <2>1, <2>2, <2>3 DEF OneKeptPerKey
  <1>11. AllOrNothing'
    BY <1>2, <1>5 DEF AllOrNothing, Stored
  <1>q. QED BY <1>4, <1>8, <1>9, <1>10, <1>11

\* The steps of a call that change neither rows nor goroutines.
LEMMA CallKeeps ==
    ASSUME IInv, NEW c \in Calls,
           UNCHANGED <<row, gpc, queued>>, missed' \in SUBSET Events, missed \subseteq missed',
           fresh' \in [Keys -> BOOLEAN],
           \A k \in Keys : fresh'[k] => fresh[k], faults' \in 0..MaxFaults,
           \A d \in Calls \ {c} : UNCHANGED <<cpc[d], todo[d], cur[d], held[d]>>,
           cpc' \in [Calls -> {"new", "dedupe", "insert", "enqueue", "done", "failed"}],
           todo' \in [Calls -> SUBSET Events], cur' \in [Calls -> SUBSET Events],
           held' \in [Calls -> SUBSET Events],
           CallInv(c)'
    PROVE  IInv'
  <1>1. TypeOK'
    BY DEF IInv, TypeOK
  <1>2. \A d \in Calls : Kept(d)' = Kept(d) /\ Seen(d)' = Seen(d)
    BY DEF Kept, Seen, EventsOf
  <1>3. Grows
    BY <1>2 DEF Grows, Stored
  <1>4. \A d \in Calls \ {c} : CallInv(d)'
    BY <1>3, OtherCall
  <1>q. QED BY <1>1, <1>2, <1>4, SameRows DEF IInv

\* A call ends with an error; what it held is rolled back.
LEMMA AbortKeeps ==
    ASSUME IInv, NEW c \in Calls, Abort(c), UNCHANGED <<row, fresh, gpc, queued>>,
           missed' = missed \cup (IF cpc[c] = "enqueue" THEN todo[c] ELSE {}),
           faults' \in 0..MaxFaults
    PROVE  IInv'
  <1>1. /\ cpc' = [cpc EXCEPT ![c] = "failed"] /\ todo' = [todo EXCEPT ![c] = {}]
        /\ cur' = [cur EXCEPT ![c] = {}] /\ held' = [held EXCEPT ![c] = {}]
    BY DEF Abort
  <1>2. CallInv(c) /\ EventsOf(c)' = EventsOf(c) /\ Kept(c)' = Kept(c) /\ Seen(c)' = Seen(c)
    BY DEF IInv, EventsOf, Kept, Seen
  <1>3. cpc'[c] = "failed" /\ todo'[c] = {} /\ cur'[c] = {} /\ held'[c] = {}
    BY <1>1 DEF IInv, TypeOK
  <1>4. Idle(c)' /\ Ready(c)' /\ Own(c)' /\ OneInsert(c)' /\ Inserting(c)' /\ Past(c)' /\ HoldsKept(c)'
    BY <1>2, <1>3 DEF Idle, Ready, Own, OneInsert, Inserting, Past, HoldsKept
  <1>5. Dropped(c)'
    BY <1>2 DEF CallInv, Dropped, Stored
  <1>6. Evaluated(c)'
    BY <1>2, <1>3 DEF CallInv, Evaluated
  <1>7. CallInv(c)'
    BY <1>4, <1>5, <1>6 DEF CallInv
  <1>q. QED BY <1>1, <1>7, CallKeeps DEF IInv, TypeOK

\* Begin, the end of dedupe, an insert, the return.
LEMMA QuietKeeps ==
    ASSUME IInv, NEW c \in Calls,
           Arrive(c) \/ DedupeDone(c) \/ NextInsert(c) \/ Insert(c) \/ Return(c)
    PROVE  IInv'
  <1> USE DEF IInv, TypeOK, tableVars
  <1>1. Kept(c) \subseteq EventsOf(c) /\ EventsOf(c) \subseteq Events /\ CallInv(c)
    BY DEF Kept, EventsOf
  <1>2. Kept(c)' = Kept(c) /\ Seen(c)' = Seen(c) /\ EventsOf(c)' = EventsOf(c)
        /\ \A k : Stored(k)' = Stored(k)
    BY DEF Arrive, DedupeDone, NextInsert, Insert, Return, Kept, Seen, EventsOf, Stored
  <1> USE DEF CallInv, Idle, Ready, Own, OneInsert, Dropped, Inserting, Past, HoldsKept, Evaluated
  <1>3. CASE Arrive(c)
    <2>1. CallInv(c)'
      BY <1>1, <1>2, <1>3 DEF Arrive
    <2>q. QED BY <1>3, <2>1, CallKeeps DEF Arrive
  <1>4. CASE DedupeDone(c)
    <2>1. /\ cpc[c] = "dedupe" /\ \A e \in EventsOf(c) : gpc[e] \in {"kept", "dropped", "error"}
          /\ UNCHANGED <<row, fresh, gpc, cur, held, queued, missed, faults>>
      BY <1>4 DEF DedupeDone
    <2>2. \/ /\ cpc' = [cpc EXCEPT ![c] = "failed"] /\ todo' = todo
          \/ /\ cpc' = [cpc EXCEPT ![c] = "insert"] /\ todo' = [todo EXCEPT ![c] = Kept(c)]
             /\ \A e \in EventsOf(c) : gpc[e] # "error"
      BY <1>4 DEF DedupeDone
    <2>3. todo[c] = {} /\ cur[c] = {} /\ held[c] = {} /\ \A k \in Keys : row[k] \notin EventsOf(c)
      BY <1>1, <2>1
    <2>4. CASE cpc' = [cpc EXCEPT ![c] = "failed"] /\ todo' = todo
      BY <1>1, <1>2, <2>1, <2>3, <2>4, CallKeeps
    <2>5. CASE /\ cpc' = [cpc EXCEPT ![c] = "insert"] /\ todo' = [todo EXCEPT ![c] = Kept(c)]
               /\ \A e \in EventsOf(c) : gpc[e] # "error"
      <3>1. CallInv(c)'
        BY <1>1, <1>2, <2>1, <2>3, <2>5
      <3>q. QED BY <1>1, <2>1, <2>5, <3>1, CallKeeps
    <2>q. QED BY <2>2, <2>4, <2>5
  <1>5. CASE NextInsert(c)
    <2>1. CallInv(c)'
      BY <1>1, <1>2, <1>5 DEF NextInsert
    <2>2. /\ UNCHANGED <<row, fresh, gpc, cpc, held, queued, missed, faults>>
          /\ cur' \in [Calls -> SUBSET Events] /\ todo' \in [Calls -> SUBSET Events]
          /\ \A d \in Calls \ {c} : UNCHANGED <<todo[d], cur[d]>>
      BY <1>1, <1>5 DEF NextInsert
    <2>q. QED BY <1>1, <2>1, <2>2, CallKeeps
  <1>6. CASE Insert(c)
    <2>1. PICK e \in cur[c] : held' = [held EXCEPT ![c] = IF Stored(KeyOf[e]) THEN @ ELSE @ \cup {e}]
      BY <1>6 DEF Insert
    <2>2. /\ cpc[c] = "insert" /\ cur' = [cur EXCEPT ![c] = {}]
          /\ UNCHANGED <<row, fresh, gpc, cpc, todo, queued, missed, faults>>
      BY <1>6 DEF Insert
    <2>3. e \in EventsOf(c) /\ \A f \in cur[c] : f = e
      BY <1>1
    <2>4. CallInv(c)'
      BY <1>1, <1>2, <2>1, <2>2, <2>3
    <2>q. QED BY <1>1, <2>1, <2>2, <2>3, <2>4, CallKeeps
  <1>7. CASE Return(c)
    <2>1. CallInv(c)'
      BY <1>1, <1>2, <1>7 DEF Return
    <2>q. QED BY <1>7, <2>1, CallKeeps DEF Return
  <1>q. QED BY <1>3, <1>4, <1>5, <1>6, <1>7

\* The transaction commits: the rows of what it held are there.
LEMMA CommitStores ==
    ASSUME IInv, NEW c \in Calls, AllInserted(c), CommitRows(c), UNCHANGED <<gpc, queued>>,
           missed \subseteq missed'
    PROVE  /\ row' \in [Keys -> Events \cup {NoEvent}] /\ fresh' \in [Keys -> BOOLEAN]
           /\ \A k \in Keys : fresh'[k] => row'[k] \in {e \in Events : KeyOf[e] = k}
           /\ Grows
           /\ \A e \in EventsOf(c) : Stored(KeyOf[e])'
           /\ \A k \in Keys : row'[k] \in held[c] \/ row'[k] = row[k]
           /\ OneKeptPerKey' /\ AllOrNothing'
  <1> DEFINE keys == {KeyOf[e] : e \in held[c]}
             First(k) == CHOOSE e \in held[c] : KeyOf[e] = k
  <1> USE DEF IInv
  <1>1. CallInv(c) /\ cpc[c] = "insert" /\ cur[c] = {} /\ todo[c] = {}
    BY DEF AllInserted
  <1>2. held[c] \subseteq EventsOf(c) /\ EventsOf(c) \subseteq Events
    BY <1>1 DEF CallInv, Own, EventsOf
  <1>3. /\ row' = [k \in Keys |-> IF k \in keys THEN First(k) ELSE row[k]]
        /\ fresh' = [k \in Keys |-> k \in keys \/ fresh[k]]
    BY DEF CommitRows
  <1>4. \A k \in keys : First(k) \in held[c] /\ KeyOf[First(k)] = k
    OBVIOUS
  <1> HIDE DEF First
  <1>5. \A k \in keys : First(k) \in Events /\ First(k) # NoEvent /\ First(k) \in EventsOf(c)
    BY <1>2, <1>4, IngestionAssumption
  <1>6. row' \in [Keys -> Events \cup {NoEvent}] /\ fresh' \in [Keys -> BOOLEAN]
    BY <1>3, <1>5 DEF TypeOK
  <1>7. \A k \in Keys : fresh'[k] => row'[k] \in {e \in Events : KeyOf[e] = k}
    BY <1>3, <1>4, <1>5 DEF TypeOK
  <1>8. \A k \in Keys : Stored(k)' <=> k \in keys \/ Stored(k)
    BY <1>3, <1>5 DEF Stored
  <1>9. \A d \in Calls : Kept(d)' = Kept(d) /\ Seen(d)' = Seen(d) /\ EventsOf(d)' = EventsOf(d)
    BY DEF Kept, Seen, EventsOf
  <1>10. Grows
    BY <1>8, <1>9 DEF Grows
  <1>11. \A e \in Events : KeyOf[e] \in Keys
    BY IngestionAssumption
  <1>12. \A e \in Kept(c) : KeyOf[e] \in keys \/ Stored(KeyOf[e])
    BY <1>1 DEF CallInv, Inserting
  <1>13. \A e \in EventsOf(c) : Stored(KeyOf[e])'
    <2> TAKE e \in EventsOf(c)
    <2>1. gpc[e] \in {"kept", "dropped"} /\ KeyOf[e] \in Keys
      BY <1>1, <1>2, <1>11 DEF CallInv, Ready
    <2>2. CASE gpc[e] = "kept"
      BY <1>8, <1>12, <2>1, <2>2 DEF Kept
    <2>3. CASE gpc[e] = "dropped"
      <3>1. CASE Stored(KeyOf[e])
        BY <1>8, <2>1, <3>1
      <3>2. CASE KeyOf[e] \in Seen(c)
        BY <1>8, <1>12, <2>1, <3>2 DEF Seen
      <3>q. QED BY <1>1, <2>3, <3>1, <3>2 DEF CallInv, Dropped
    <2>q. QED BY <2>1, <2>2, <2>3
  <1>14. AllOrNothing'
    <2> SUFFICES ASSUME NEW d \in Calls, NEW k \in Keys, row'[k] \in EventsOf(d), NEW e \in EventsOf(d)
                 PROVE  Stored(KeyOf[e])'
      BY <1>9 DEF AllOrNothing
    <2>1. CASE d = c
      BY <1>13, <2>1
    <2>2. CASE d # c
      <3>1. row[k] \in EventsOf(d)
        BY <1>3, <1>5, <2>2 DEF EventsOf
      <3>2. Stored(KeyOf[e]) /\ KeyOf[e] \in Keys
        BY <1>11, <3>1 DEF AllOrNothing, EventsOf
      <3>q. QED BY <1>8, <3>2
    <2>q. QED BY <2>1, <2>2
  <1>15. \A k \in Keys : row'[k] \in held[c] \/ row'[k] = row[k]
    BY <1>3, <1>4
  <1>16. OneKeptPerKey'
    BY <1>9 DEF OneKeptPerKey
  <1>q. QED BY <1>6, <1>7, <1>10, <1>13, <1>14, <1>15, <1>16

\* The commit, whose acknowledgement may be lost.
LEMMA CommitKeeps ==
    ASSUME IInv, NEW c \in Calls, Commit(c) \/ CommitAckLost(c)
    PROVE  IInv'
  <1> USE DEF IInv
  <1>1. /\ AllInserted(c) /\ CommitRows(c) /\ UNCHANGED <<gpc, queued>>
        /\ missed' = missed \cup (IF Commit(c) THEN {} ELSE held[c])
    BY DEF Commit, CommitAckLost
  <1>2. /\ row' \in [Keys -> Events \cup {NoEvent}] /\ fresh' \in [Keys -> BOOLEAN]
        /\ \A k \in Keys : fresh'[k] => row'[k] \in {e \in Events : KeyOf[e] = k}
        /\ Grows
        /\ \A e \in EventsOf(c) : Stored(KeyOf[e])'
        /\ \A k \in Keys : row'[k] \in held[c] \/ row'[k] = row[k]
        /\ OneKeptPerKey' /\ AllOrNothing'
    BY <1>1, CommitStores
  <1>4. /\ cpc' = [cpc EXCEPT ![c] = IF Commit(c) THEN "enqueue" ELSE "failed"]
        /\ todo' = [todo EXCEPT ![c] = IF Commit(c) THEN Kept(c) ELSE {}]
        /\ cur' = [cur EXCEPT ![c] = {}] /\ held' = [held EXCEPT ![c] = {}]
        /\ faults' \in 0..MaxFaults
    BY IngestionAssumption DEF Commit, CommitAckLost, Abort, AllInserted, TypeOK, Fault
  <1>5. /\ Kept(c) \subseteq EventsOf(c) /\ EventsOf(c) \subseteq Events
        /\ held[c] \subseteq Kept(c) /\ cpc[c] = "insert"
    BY <1>1 DEF Kept, EventsOf, AllInserted, CallInv, HoldsKept
  <1>6. TypeOK'
    BY <1>1, <1>2, <1>4, <1>5 DEF TypeOK
  <1>7. ASSUME NEW d \in Calls, d # c PROVE CallInv(d)'
    <2>1. \A k \in Keys : row'[k] \in EventsOf(d) => row'[k] = row[k]
      BY <1>2, <1>5, <1>7 DEF EventsOf
    <2>q. QED BY <1>1, <1>2, <1>4, <1>7, <2>1, OtherCall DEF TypeOK
  <1>8. CallInv(c)'
    <2>1. CallInv(c) /\ EventsOf(c)' = EventsOf(c) /\ cpc[c] = "insert"
      BY <1>1 DEF EventsOf, AllInserted
    <2>2. Idle(c)' /\ Own(c)' /\ OneInsert(c)' /\ Inserting(c)'
      BY <1>4, <1>5, <2>1 DEF Idle, Own, OneInsert, Inserting, TypeOK
    <2>3. Ready(c)' /\ Past(c)' /\ Dropped(c)'
      BY <1>1, <1>2, <1>4, <2>1 DEF CallInv, Ready, Past, Dropped, TypeOK
    <2>4. /\ cpc'[c] = IF Commit(c) THEN "enqueue" ELSE "failed"
          /\ todo'[c] = IF Commit(c) THEN Kept(c) ELSE {}
      BY <1>4 DEF TypeOK
    <2>5. \A k \in Keys : row[k] \notin EventsOf(c)
      BY <2>1 DEF CallInv, Evaluated
    <2>6. HoldsKept(c)' /\ Evaluated(c)'
      BY <1>1, <1>2, <1>5, <2>1, <2>4, <2>5 DEF HoldsKept, Evaluated
    <2>q. QED BY <2>2, <2>3, <2>6 DEF CallInv
  <1>q. QED BY <1>2, <1>6, <1>7, <1>8

\* An evaluation is queued, or passed over.
LEMMA EnqueueKeeps ==
    ASSUME IInv, NEW c \in Calls, EnqueueEvaluation(c)
    PROVE  IInv'
  <1> USE DEF IInv
  <1>0. faults \in 0..MaxFaults /\ (Fault => faults' \in 0..MaxFaults)
    BY IngestionAssumption DEF Fault, TypeOK
  <1>1. PICK e \in todo[c] :
          /\ todo' = [todo EXCEPT ![c] = @ \ {e}]
          /\ queued' \in {queued, queued \cup {e}} /\ missed' \in {missed, missed \cup {e}}
          /\ e \in queued' \cup missed'
          /\ faults' \in 0..MaxFaults
    BY <1>0 DEF EnqueueEvaluation
  <1>2. cpc[c] = "enqueue" /\ UNCHANGED <<row, fresh, gpc, cpc, cur, held>>
    BY DEF EnqueueEvaluation, tableVars
  <1>3. CallInv(c) /\ e \in EventsOf(c) /\ EventsOf(c) \subseteq Events
    BY DEF CallInv, Own, EventsOf
  <1>4. \A d \in Calls : Kept(d)' = Kept(d) /\ Seen(d)' = Seen(d) /\ EventsOf(d)' = EventsOf(d)
    BY <1>2 DEF Kept, Seen, EventsOf
  <1>5. Grows
    BY <1>1, <1>2, <1>4 DEF Grows, Stored
  <1>6. TypeOK'
    BY <1>1, <1>2, <1>3 DEF TypeOK
  <1>7. ASSUME NEW d \in Calls, d # c PROVE CallInv(d)'
    BY <1>1, <1>2, <1>5, <1>7, OtherCall DEF TypeOK
  <1>8. CallInv(c)'
    BY <1>1, <1>2, <1>3, <1>4 DEF CallInv, Idle, Ready, Own, OneInsert, Dropped, Inserting, Past,
                                            HoldsKept, Evaluated, Stored, TypeOK
  <1>9. OneKeptPerKey' /\ AllOrNothing'
    BY <1>2, <1>4 DEF OneKeptPerKey, AllOrNothing, Stored
  <1>q. QED BY <1>6, <1>7, <1>8, <1>9

\* Every step keeps the invariant.
LEMMA NextKeeps == IInv /\ [Next]_vars => IInv'
  <1> SUFFICES ASSUME IInv, [Next]_vars PROVE IInv'
    OBVIOUS
  <1>1. CASE UNCHANGED vars
    BY <1>1 DEF vars, tableVars, callVars, IInv, TypeOK, CallInv, Idle, Ready, Own, OneInsert, Dropped, Inserting,
                Past, HoldsKept, Evaluated, OneKeptPerKey, AllOrNothing, Kept, Seen, EventsOf, Stored
  <1>2. ASSUME NEW k \in Keys, WindowPasses(k) PROVE IInv'
    <2>1. /\ UNCHANGED <<row, gpc, cpc, todo, cur, held, queued, missed, faults>>
          /\ fresh' \in [Keys -> BOOLEAN] /\ \A j \in Keys : fresh'[j] => fresh[j]
      BY <1>2 DEF WindowPasses, callVars, IInv, TypeOK
    <2>2. TypeOK'
      BY <2>1 DEF IInv, TypeOK
    <2>3. \A c \in Calls : Kept(c)' = Kept(c) /\ Seen(c)' = Seen(c)
      BY <2>1 DEF Kept, Seen, EventsOf
    <2>4. \A c \in Calls : CallInv(c)'
      BY <2>1, <2>3, OtherCall DEF Grows, Stored
    <2>q. QED BY <2>1, <2>2, <2>3, <2>4, SameRows DEF IInv
  <1>3. ASSUME NEW c \in Calls, NEW e \in EventsOf(c),
               CheckSeen(e) \/ QueryExists(e) \/ ExistsError(e) \/ Append(e)
        PROVE  IInv'
    BY <1>3, GoroutineKeeps
  <1>4. ASSUME NEW c \in Calls, Arrive(c) \/ DedupeDone(c) \/ NextInsert(c) \/ Insert(c) \/ Return(c)
        PROVE  IInv'
    BY <1>4, QuietKeeps
  <1>5. ASSUME NEW c \in Calls, Commit(c) \/ CommitAckLost(c) PROVE IInv'
    BY <1>5, CommitKeeps
  <1>6. ASSUME NEW c \in Calls, EnqueueEvaluation(c) PROVE IInv'
    BY <1>6, EnqueueKeeps
  <1>7. ASSUME NEW c \in Calls, InsertError(c) \/ DeadlockVictim(c) \/ Crash(c) PROVE IInv'
    <2>1. /\ Abort(c) /\ UNCHANGED <<row, fresh, gpc, queued>> /\ faults' \in 0..MaxFaults
      BY <1>7, IngestionAssumption DEF InsertError, DeadlockVictim, Crash, Fault, tableVars, IInv, TypeOK
    <2>2. missed' = missed \cup (IF cpc[c] = "enqueue" THEN todo[c] ELSE {})
      <3>1. CASE InsertError(c)
        BY <3>1 DEF InsertError
      <3>2. CASE DeadlockVictim(c)
        BY <3>2 DEF DeadlockVictim, Circle, WaitsFor
      <3>3. CASE Crash(c)
        BY <3>3 DEF Crash
      <3>q. QED BY <1>7, <3>1, <3>2, <3>3
    <2>q. QED BY <2>1, <2>2, AbortKeeps
  <1>q. QED BY <1>1, <1>2, <1>3, <1>4, <1>5, <1>6, <1>7 DEF Next, CallStep

\* The invariant holds in every behaviour.
LEMMA Invariance == Spec => []IInv
  BY InitHolds, NextKeeps, PTL DEF Spec

-----------------------------------------------------------------------------
\* Every variable keeps a value of its kind.
THEOREM Typed == Spec => []TypeOK
  <1>1. IInv => TypeOK
    BY DEF IInv
  <1>q. QED BY <1>1, Invariance, PTL

\* However the goroutines of a batch interleave, it keeps one event per key.
THEOREM OneIsKept == Spec => []OneKeptPerKey
  <1>1. IInv => OneKeptPerKey
    BY DEF IInv
  <1>q. QED BY <1>1, Invariance, PTL

\* A batch that is past its transaction has a row for the key of each event.
THEOREM NoneIsLost == Spec => []NothingLost
  <1>1. IInv => NothingLost
    BY DEF IInv, CallInv, Past, NothingLost
  <1>q. QED BY <1>1, Invariance, PTL

\* A batch is stored as a whole or not at all, whatever failed.
THEOREM WholeOrNot == Spec => []AllOrNothing
  <1>1. IInv => AllOrNothing
    BY DEF IInv
  <1>q. QED BY <1>1, Invariance, PTL

\* A stored event gets its evaluation, unless queueing it failed or its call did.
THEOREM EachIsEvaluated == Spec => []StoredAreEvaluated
  <1>1. IInv => StoredAreEvaluated
    <2> SUFFICES ASSUME IInv, NEW k \in Keys, Stored(k), cpc[CallOf[row[k]]] \in {"done", "failed"}
                 PROVE  row[k] \in queued \cup missed
      BY DEF StoredAreEvaluated
    <2>1. PICK c \in Calls : c = CallOf[row[k]] /\ row[k] \in EventsOf(c)
      BY IngestionAssumption DEF IInv, TypeOK, Stored, EventsOf
    <2>q. QED BY <2>1 DEF IInv, CallInv, Evaluated
  <1>q. QED BY <1>1, Invariance, PTL
=============================================================================
