--------------------------- MODULE ScheduleProofs ---------------------------
(***************************************************************************)
(* Proofs about Schedules, for any number of requests, schedules, shifts   *)
(* and connections, and requests that fail anywhere.                       *)
(***************************************************************************)
EXTENDS Schedules, SequenceTheorems, FiniteSetTheorems, TLAPS

-----------------------------------------------------------------------------
(* The types. *)

Places == {"idle", "begin", "write", "delete", "insert", "query", "count", "load"} \cup Answers

AllShifts == UNION {ShiftsIn(b) : b \in Bodies}

Versions == [by : Calls \cup {NoCall}, body : Bodies]

ShiftTable == [of : ScheduleIds, by : Calls \cup {NoCall}, n : Nat, shift : AllShifts]

Rows == [id : ScheduleIds, enabled : BOOLEAN \cup {NoRow}, version : Nat]

Entries == [id : ScheduleIds, enabled : BOOLEAN \cup {NoRow}, version : Nat, shifts : SUBSET AllShifts]

Handlers ==
    [at : Places, kind : Kinds, id : ScheduleIds \cup {Idle.id}, body : Bodies \cup {NoBody},
     todo : SUBSET Rows, out : SUBSET Entries, del : SUBSET ShiftTable, ins : SUBSET ShiftTable,
     asof : [ScheduleIds -> Nat]]

Typed ==
    /\ row \in [ScheduleIds -> BOOLEAN \cup {NoRow}]
    /\ shifts \subseteq ShiftTable
    /\ lock \in [ScheduleIds -> Calls \cup {NoCall}]
    /\ history \in [ScheduleIds -> Seq(Versions)]
    /\ call \in [Calls -> Handlers]
    /\ held \in [Calls -> {0, 1}]

-----------------------------------------------------------------------------
(* The inductive invariant: what holds of a request wherever it is. *)

\* A request under way is about a schedule, with a body.
Asks(c) == InProgress(c) => call[c].id \in ScheduleIds /\ call[c].body \in Bodies

\* From its first statement on a transaction has the row of its schedule to itself.
Owns(c) == call[c].at \in {"delete", "insert"} => lock[call[c].id] = c

\* What it will delete is what is stored now.
DeletesAll(c) == call[c].at = "insert" => call[c].del = StoredShifts(call[c].id)

FirstRows(c, k) ==
    {[of |-> call[c].id, by |-> c, n |-> i, shift |-> call[c].body.shifts[i]] : i \in 1..k}

\* It inserts the shifts of its body from the first one on.
InsertsInOrder(c) ==
    /\ call[c].at # "insert" => call[c].ins = {}
    /\ call[c].at = "insert" =>
         /\ IsFiniteSet(call[c].ins)
         /\ Cardinality(call[c].ins) <= Len(call[c].body.shifts)
         /\ call[c].ins = FirstRows(c, Cardinality(call[c].ins))

\* A row that is read is of a version committed by then.
RowsCommitted(c) == \A r \in call[c].todo : r.version \in 1..Len(history[r.id])

\* What has been read is of one version since its row.
EntriesCommitted(c) ==
    \A e \in call[c].out : 
        \E v \in e.version..Len(history[e.id]) :
            v > 0 /\ e.shifts = ShiftsIn(history[e.id][v].body)

Latest(s) == history[s][Len(history[s])].body

Covering(s) == {x \in ShiftsIn(Latest(s)) : x.starts <= Asked /\ Asked < x.ends}

\* A schedule that was active when the query of OnCall began and has not changed
\* since is still to be loaded, or was loaded as it is.
NotForgotten(c) ==
    call[c].at = "load" /\ call[c].kind = "oncall" =>
        \A s \in ScheduleIds :
            /\ call[c].asof[s] <= Len(history[s])
            /\ history[s] # <<>> /\ Len(history[s]) = call[c].asof[s] /\ row[s] = TRUE /\ Covering(s) # {}
               => \/ \E r \in call[c].todo : r.id = s /\ r.enabled = TRUE
                  \/ \E e \in call[c].out :
                        e.id = s /\ e.enabled = TRUE /\ e.shifts = ShiftsIn(Latest(s))

Sound(c) ==
    /\ Asks(c) /\ Owns(c) /\ DeletesAll(c) /\ InsertsInOrder(c)
    /\ RowsCommitted(c) /\ EntriesCommitted(c) /\ NotForgotten(c)

IInv == Typed /\ ShiftsOfOneWrite /\ \A c \in Calls : Sound(c)

-----------------------------------------------------------------------------
(* Lemmas. *)

\* A handler that is idle, or has answered, has forgotten everything.
LEMMA IdleIs ==
    ASSUME NEW a \in {"idle"} \cup Answers
    PROVE  /\ [Idle EXCEPT !.at = a] \in Handlers /\ Idle \in Handlers
           /\ [Idle EXCEPT !.at = a].at = a /\ [Idle EXCEPT !.at = a].todo = {}
           /\ [Idle EXCEPT !.at = a].out = {} /\ [Idle EXCEPT !.at = a].ins = {}
           /\ Idle.at = "idle" /\ Idle.todo = {} /\ Idle.out = {} /\ Idle.ins = {}
<1> DEFINE id == CHOOSE s \in ScheduleIds : TRUE
<1>1. Idle = [at |-> "idle", kind |-> "get", id |-> id, body |-> NoBody, todo |-> {}, out |-> {},
              del |-> {}, ins |-> {}, asof |-> [s \in ScheduleIds |-> 0]]
  BY DEF Idle
<1>2. Idle.id = id
  BY <1>1
<1> HIDE DEF id
<1> QED
  BY <1>1, <1>2 DEF Handlers, Places, Kinds, Writers, CursorReaders, Answers

\* Such a handler is sound, whatever the tables are.
LEMMA IdleSound ==
    ASSUME NEW c \in Calls, call'[c].at \in {"idle"} \cup Answers,
           call'[c].todo = {}, call'[c].out = {}, call'[c].ins = {}
    PROVE  Sound(c)'
BY DEF Sound, Asks, Owns, DeletesAll, InsertsInOrder, RowsCommitted, EntriesCommitted, NotForgotten,
   InProgress, Answers

\* What a step of another request may do to the tables.
Undisturbed(d) ==
    \A s \in ScheduleIds :
        /\ lock[s] = d => lock'[s] = d /\ StoredShifts(s)' = StoredShifts(s)
        /\ Len(history[s]) <= Len(history'[s])
        /\ \A i \in 1..Len(history[s]) : history'[s][i] = history[s][i]
        /\ Len(history'[s]) = Len(history[s]) => row'[s] = row[s] /\ history'[s] = history[s]

\* A request stays sound while others go on.
LEMMA OtherSound ==
    ASSUME Typed, NEW d \in Calls, Sound(d), history' \in [ScheduleIds -> Seq(Versions)],
           call'[d] = call[d], Undisturbed(d)
    PROVE  Sound(d)'
<1> DEFINE h == call[d]
<1>1. call'[d] = h /\ h \in Handlers
  BY DEF Typed
<1>2. Asks(d)'
  BY <1>1 DEF Sound, Asks, InProgress
<1>3. Owns(d)' /\ DeletesAll(d)'
  BY <1>1 DEF Sound, Asks, Owns, DeletesAll, InProgress, Undisturbed, Answers
<1>4. InsertsInOrder(d)'
  BY <1>1 DEF Sound, InsertsInOrder, FirstRows
<1>5. RowsCommitted(d)'
  <2> SUFFICES ASSUME NEW r \in h.todo PROVE r.version \in 1..Len(history'[r.id])
    BY <1>1 DEF RowsCommitted
  <2>1. r.version \in 1..Len(history[r.id]) /\ r.id \in ScheduleIds
    BY DEF Sound, RowsCommitted, Typed, Handlers, Rows
  <2>2. Len(history[r.id]) \in Nat /\ Len(history'[r.id]) \in Nat
    BY <2>1, LenProperties DEF Typed
  <2> QED
    BY <2>1, <2>2 DEF Undisturbed
<1>6. EntriesCommitted(d)'
  <2> SUFFICES ASSUME NEW e \in h.out
               PROVE  \E v \in e.version..Len(history'[e.id]) :
                         v > 0 /\ e.shifts = ShiftsIn(history'[e.id][v].body)
    BY <1>1 DEF EntriesCommitted
  <2>1. e.id \in ScheduleIds /\ e.version \in Nat
    BY DEF Typed, Handlers, Entries
  <2>2. PICK v \in e.version..Len(history[e.id]) : v > 0 /\ e.shifts = ShiftsIn(history[e.id][v].body)
    BY DEF Sound, EntriesCommitted
  <2>3. Len(history[e.id]) \in Nat /\ Len(history'[e.id]) \in Nat
    BY <2>1, LenProperties DEF Typed
  <2>4. v \in e.version..Len(history'[e.id]) /\ history'[e.id][v] = history[e.id][v]
    BY <2>1, <2>2, <2>3 DEF Undisturbed
  <2> QED
    BY <2>2, <2>4
<1>7. NotForgotten(d)'
  <2> SUFFICES ASSUME h.at = "load", h.kind = "oncall", NEW s \in ScheduleIds
               PROVE  /\ h.asof[s] <= Len(history'[s])
                      /\ /\ history'[s] # <<>> /\ Len(history'[s]) = h.asof[s]
                         /\ row'[s] = TRUE /\ Covering(s)' # {}
                         => \/ \E r \in h.todo : r.id = s /\ r.enabled = TRUE
                            \/ \E e \in h.out :
                                  e.id = s /\ e.enabled = TRUE /\ e.shifts = ShiftsIn(Latest(s))'
    BY <1>1 DEF NotForgotten
  <2>1. h.asof[s] \in Nat /\ Len(history[s]) \in Nat /\ Len(history'[s]) \in Nat
    BY LenProperties DEF Typed, Handlers
  <2>2. h.asof[s] <= Len(history[s]) /\ Len(history[s]) <= Len(history'[s])
    BY DEF Sound, NotForgotten, Undisturbed
  <2>3. CASE Len(history'[s]) # h.asof[s]
    BY <2>1, <2>2, <2>3
  <2>4. CASE Len(history'[s]) = h.asof[s]
    <3>1. row'[s] = row[s] /\ history'[s] = history[s]
      BY <2>1, <2>2, <2>4 DEF Undisturbed
    <3>2. Latest(s)' = Latest(s) /\ Covering(s)' = Covering(s)
      BY <3>1 DEF Latest, Covering
    <3> QED
      BY <2>4, <3>1, <3>2 DEF Sound, NotForgotten
  <2> QED
    BY <2>3, <2>4
<1> QED
  BY <1>2, <1>3, <1>4, <1>5, <1>6, <1>7 DEF Sound

\* What a step that leaves the tables alone has to show.
LEMMA HandlerStep ==
    ASSUME IInv, NEW c \in Calls, UNCHANGED <<row, shifts, history>>,
           lock' \in [ScheduleIds -> Calls \cup {NoCall}], call' \in [Calls -> Handlers],
           held' \in [Calls -> {0, 1}],
           \A d \in Calls \ {c} : call'[d] = call[d],
           \A s \in ScheduleIds : \A d \in Calls \ {c} : lock[s] = d => lock'[s] = d,
           Sound(c)'
    PROVE  IInv'
<1>1. Typed'
  BY DEF IInv, Typed
<1>2. \A s \in ScheduleIds : StoredShifts(s)' = StoredShifts(s)
  BY DEF StoredShifts
<1>3. ShiftsOfOneWrite'
  BY <1>2 DEF IInv, ShiftsOfOneWrite
<1>4. ASSUME NEW d \in Calls \ {c} PROVE Sound(d)'
  <2>1. \A s \in ScheduleIds : Len(history[s]) \in Nat
    BY LenProperties DEF IInv, Typed
  <2>2. Undisturbed(d)
    BY <1>2, <2>1 DEF Undisturbed
  <2> QED
    BY <1>1, <2>2, OtherSound DEF IInv, Typed
<1> QED
  BY <1>1, <1>3, <1>4 DEF IInv

\* A handler that answers gives back what it has.
LEMMA EndsClean ==
    ASSUME Typed, NEW c \in Calls, NEW a \in Answers, Ends(c, a)
    PROVE  /\ lock' \in [ScheduleIds -> Calls \cup {NoCall}]
           /\ call' \in [Calls -> Handlers]
           /\ held' \in [Calls -> {0, 1}]
           /\ \A d \in Calls \ {c} : call'[d] = call[d]
           /\ \A s \in ScheduleIds : \A d \in Calls \ {c} : lock[s] = d => lock'[s] = d
           /\ Sound(c)'
<1>1. /\ call' = [call EXCEPT ![c] = [Idle EXCEPT !.at = a]]
      /\ [Idle EXCEPT !.at = a] \in Handlers
  BY IdleIs DEF Ends
<1>2. call'[c] = [Idle EXCEPT !.at = a] /\ call' \in [Calls -> Handlers]
  BY <1>1 DEF Typed
<1>3. Sound(c)'
  <2>1. a \in {"idle"} \cup Answers
    OBVIOUS
  <2>2. /\ call'[c].at \in {"idle"} \cup Answers
        /\ call'[c].todo = {} /\ call'[c].out = {} /\ call'[c].ins = {}
    BY <1>2, <2>1, IdleIs
  <2> QED
    BY <2>2, IdleSound
<1>4. /\ lock' \in [ScheduleIds -> Calls \cup {NoCall}]
      /\ held' \in [Calls -> {0, 1}]
      /\ \A s \in ScheduleIds : \A d \in Calls \ {c} : lock[s] = d => lock'[s] = d
  BY DEF Ends, Typed
<1> QED
  BY <1>1, <1>2, <1>3, <1>4

\* A request that answers without a commit: it failed, was refused, or has read
\* everything.
LEMMA EndsStep ==
    ASSUME IInv, NEW c \in Calls, NEW a \in Answers, Ends(c, a), UNCHANGED <<row, shifts, history>>
    PROVE  IInv'
<1>1. Typed
  BY DEF IInv
<1> QED
  BY <1>1, EndsClean, HandlerStep

\* A request arrives.
LEMMA ArriveKeeps == ASSUME IInv, NEW c \in Calls, Arrive(c) PROVE IInv'
<1>1. PICK kind \in Kinds, s \in ScheduleIds, body \in Bodies :
        call' = [call EXCEPT ![c].at = Begins[kind], ![c].kind = kind, ![c].id = s, ![c].body = body]
  BY DEF Arrive
<1>2. call[c] \in Handlers /\ call[c].at = "idle"
  BY DEF IInv, Typed, Arrive
<1>3. Begins[kind] \in {"begin", "query", "count"}
  BY DEF Begins, Kinds, Writers, CursorReaders
<1>4. /\ call'[c] = [call[c] EXCEPT !.at = Begins[kind], !.kind = kind, !.id = s, !.body = body]
      /\ \A d \in Calls \ {c} : call'[d] = call[d]
  BY <1>1 DEF IInv, Typed
<1>5. /\ call'[c] \in Handlers /\ call'[c].at \in {"begin", "query", "count"}
      /\ call'[c].id \in ScheduleIds /\ call'[c].body \in Bodies
      /\ call'[c].todo = call[c].todo /\ call'[c].out = call[c].out /\ call'[c].ins = call[c].ins
  BY <1>2, <1>3, <1>4 DEF Handlers, Places
<1>6. call' \in [Calls -> Handlers]
  BY <1>1, <1>4, <1>5 DEF IInv, Typed
<1>7. Sound(c)'
  <2>1. Asks(c)' /\ Owns(c)' /\ DeletesAll(c)' /\ NotForgotten(c)'
    BY <1>5 DEF Asks, Owns, DeletesAll, NotForgotten
  <2>2. InsertsInOrder(c)'
    BY <1>2, <1>5 DEF IInv, Sound, InsertsInOrder
  <2>3. RowsCommitted(c)' /\ EntriesCommitted(c)'
    BY <1>5 DEF Arrive, IInv, Sound, RowsCommitted, EntriesCommitted
  <2> QED
    BY <2>1, <2>2, <2>3 DEF Sound
<1> QED
  BY <1>4, <1>6, <1>7, HandlerStep DEF Arrive, IInv, Typed

\* A handler goes on to another place with what it has.
LEMMA GoesSound ==
    ASSUME IInv, NEW c \in Calls, NEW place \in {"write", "delete", "query"}, Goes(c, place),
           call[c].at \in {"begin", "write", "count"}, UNCHANGED <<row, shifts, history>>,
           place = "delete" => lock'[call[c].id] = c
    PROVE  /\ call' \in [Calls -> Handlers] /\ Sound(c)'
           /\ \A d \in Calls \ {c} : call'[d] = call[d]
<1>1. call[c] \in Handlers
  BY DEF IInv, Typed
<1>2. /\ call'[c] = [call[c] EXCEPT !.at = place]
      /\ \A d \in Calls \ {c} : call'[d] = call[d]
  BY DEF Goes, IInv, Typed
<1>3. /\ call'[c] \in Handlers /\ call'[c].at = place
      /\ call'[c].id = call[c].id /\ call'[c].body = call[c].body
      /\ call'[c].todo = call[c].todo /\ call'[c].out = call[c].out /\ call'[c].ins = call[c].ins
  BY <1>1, <1>2 DEF Handlers, Places
<1>4. call' \in [Calls -> Handlers]
  BY <1>2, <1>3 DEF Goes, IInv, Typed
<1>5. Asks(c)' /\ Owns(c)'
  BY <1>3 DEF IInv, Sound, Asks, Owns, InProgress, Answers
<1>6. DeletesAll(c)' /\ InsertsInOrder(c)' /\ NotForgotten(c)'
  BY <1>3 DEF IInv, Sound, DeletesAll, InsertsInOrder, NotForgotten
<1>7. RowsCommitted(c)' /\ EntriesCommitted(c)'
  BY <1>3 DEF IInv, Sound, RowsCommitted, EntriesCommitted
<1> QED
  BY <1>2, <1>4, <1>5, <1>6, <1>7 DEF Sound

\* A transaction begins; List has counted.
LEMMA BeginKeeps == ASSUME IInv, NEW c \in Calls, BeginTx(c) \/ Count(c) PROVE IInv'
<1>1. PICK place \in {"write", "query"} :
        /\ Goes(c, place) /\ call[c].at \in {"begin", "count"}
        /\ UNCHANGED <<row, shifts, lock, history>>
        /\ held' \in [Calls -> {0, 1}]
  BY DEF BeginTx, Count, IInv, Typed
<1>2. /\ call' \in [Calls -> Handlers] /\ Sound(c)'
      /\ \A d \in Calls \ {c} : call'[d] = call[d]
  BY <1>1, GoesSound
<1> QED
  BY <1>1, <1>2, HandlerStep DEF IInv, Typed

\* The first statement of a transaction takes the row, which is nobody else's.
LEMMA WriteRowKeeps == ASSUME IInv, NEW c \in Calls, InsertRow(c) \/ UpdateRow(c) PROVE IInv'
<1>1. call[c].at = "write" /\ UNCHANGED <<row, shifts, history>>
  BY DEF InsertRow, UpdateRow
<1>2. CASE Ends(c, "error")
  BY <1>1, <1>2, EndsStep DEF Answers
<1>3. CASE Locks(c)
  <2>1. call[c].id \in ScheduleIds
    BY <1>1 DEF IInv, Sound, Asks, InProgress, Answers
  <2>2. /\ lock' = [lock EXCEPT ![call[c].id] = c] /\ lock[call[c].id] = NoCall
        /\ Goes(c, "delete") /\ held' = held
    BY <1>3 DEF Locks, RowFree
  <2>3. /\ lock' \in [ScheduleIds -> Calls \cup {NoCall}] /\ lock'[call[c].id] = c
        /\ \A s \in ScheduleIds : \A d \in Calls \ {c} : lock[s] = d => lock'[s] = d
    BY <2>1, <2>2, SchedulesAssumption DEF SchedulesAssumption, IInv, Typed
  <2>4. /\ call' \in [Calls -> Handlers] /\ Sound(c)'
        /\ \A d \in Calls \ {c} : call'[d] = call[d]
    BY <1>1, <2>2, <2>3, GoesSound
  <2> QED
    BY <1>1, <2>2, <2>3, <2>4, HandlerStep DEF IInv, Typed
<1> QED
  BY <1>2, <1>3 DEF InsertRow, UpdateRow

\* What is deleted is what is stored, and nothing is inserted yet.
LEMMA DeleteKeeps == ASSUME IInv, NEW c \in Calls, DeleteShifts(c) PROVE IInv'
<1> DEFINE gone == StoredShifts(call[c].id)
<1>1. /\ call[c] \in Handlers /\ call[c].at = "delete" /\ gone \in SUBSET ShiftTable
      /\ call[c].id \in ScheduleIds /\ call[c].body \in Bodies /\ lock[call[c].id] = c
      /\ call[c].ins = {}
  BY DEF DeleteShifts, IInv, Typed, StoredShifts, Sound, Asks, Owns, InsertsInOrder, InProgress, Answers
<1>2. UNCHANGED <<row, shifts, lock, history, held>>
      /\ call' = [call EXCEPT ![c].at = "insert", ![c].del = gone]
  BY DEF DeleteShifts
<1> HIDE DEF gone
<1>3. /\ call'[c] = [call[c] EXCEPT !.at = "insert", !.del = gone]
      /\ \A d \in Calls \ {c} : call'[d] = call[d]
  BY <1>2 DEF IInv, Typed
<1>4. /\ call'[c] \in Handlers /\ call'[c].at = "insert" /\ call'[c].del = gone
      /\ call'[c].id = call[c].id /\ call'[c].body = call[c].body /\ call'[c].ins = {}
      /\ call'[c].todo = call[c].todo /\ call'[c].out = call[c].out
  BY <1>1, <1>3 DEF Handlers, Places
<1>5. call' \in [Calls -> Handlers]
  BY <1>2, <1>3, <1>4 DEF IInv, Typed
<1>6. Sound(c)'
  <2>1. Asks(c)' /\ Owns(c)'
    BY <1>1, <1>2, <1>4 DEF Asks, Owns
  <2>2. DeletesAll(c)'
    BY <1>2, <1>4 DEF DeletesAll, gone, StoredShifts
  <2>3. InsertsInOrder(c)'
    <3>1. IsFiniteSet(call'[c].ins) /\ Cardinality(call'[c].ins) = 0
      BY <1>4, FS_EmptySet
    <3>2. Len(call'[c].body.shifts) \in Nat
      BY <1>1, <1>4, LenProperties, SchedulesAssumption DEF SchedulesAssumption
    <3>3. FirstRows(c, 0)' = {}
      BY DEF FirstRows
    <3> QED
      BY <1>4, <3>1, <3>2, <3>3 DEF InsertsInOrder, FirstRows
  <2>4. RowsCommitted(c)' /\ EntriesCommitted(c)' /\ NotForgotten(c)'
    BY <1>2, <1>4 DEF IInv, Sound, RowsCommitted, EntriesCommitted, NotForgotten
  <2> QED
    BY <2>1, <2>2, <2>3, <2>4 DEF Sound
<1> QED
  BY <1>2, <1>3, <1>5, <1>6, HandlerStep DEF IInv, Typed

\* A shift is inserted after those before it.
LEMMA InsertKeeps == ASSUME IInv, NEW c \in Calls, InsertShift(c) PROVE IInv'
<1>1. /\ call[c] \in Handlers /\ call[c].at = "insert"
      /\ call[c].id \in ScheduleIds /\ call[c].body \in Bodies /\ lock[call[c].id] = c
      /\ call[c].del = StoredShifts(call[c].id)
      /\ IsFiniteSet(call[c].ins) /\ call[c].ins = FirstRows(c, Cardinality(call[c].ins))
  BY DEF InsertShift, IInv, Typed, Sound, Asks, Owns, DeletesAll, InsertsInOrder, InProgress, Answers
<1>2. PICK k \in Nat : k = Cardinality(call[c].ins)
  BY <1>1, FS_CardinalityType
<1>3. PICK new : new = [of |-> call[c].id, by |-> c, n |-> k + 1, shift |-> call[c].body.shifts[k + 1]]
  OBVIOUS
<1>4. /\ UNCHANGED <<row, shifts, lock, history, held>>
      /\ k + 1 <= Len(call[c].body.shifts)
      /\ call' = [call EXCEPT ![c].ins = call[c].ins \cup {new}]
  BY <1>2, <1>3 DEF InsertShift, NextShift, ShiftRow, IInv, Typed
<1>5. /\ Len(call[c].body.shifts) \in Nat /\ DOMAIN call[c].body.shifts = 1..Len(call[c].body.shifts)
  BY <1>1, LenProperties, SchedulesAssumption DEF SchedulesAssumption
<1>6. new \in ShiftTable /\ new \notin call[c].ins
  <2>1. call[c].body.shifts[k + 1] \in AllShifts
    BY <1>1, <1>4, <1>5 DEF AllShifts, ShiftsIn
  <2>2. new.n = k + 1 /\ \A x \in FirstRows(c, k) : x.n \in 1..k
    BY <1>3 DEF FirstRows
  <2>3. new \notin FirstRows(c, k)
    BY <2>2
  <2> QED
    BY <1>1, <1>2, <1>3, <2>1, <2>3 DEF ShiftTable
<1>7. /\ call'[c] = [call[c] EXCEPT !.ins = call[c].ins \cup {new}]
      /\ \A d \in Calls \ {c} : call'[d] = call[d]
  BY <1>4 DEF IInv, Typed
<1>8. /\ call'[c] \in Handlers /\ call'[c].at = "insert" /\ call'[c].del = call[c].del
      /\ call'[c].id = call[c].id /\ call'[c].body = call[c].body
      /\ call'[c].ins = call[c].ins \cup {new}
      /\ call'[c].todo = call[c].todo /\ call'[c].out = call[c].out
  BY <1>1, <1>6, <1>7 DEF Handlers
<1>9. call' \in [Calls -> Handlers]
  BY <1>4, <1>7, <1>8 DEF IInv, Typed
<1>10. Sound(c)'
  <2>1. Asks(c)' /\ Owns(c)'
    BY <1>1, <1>4, <1>8 DEF Asks, Owns
  <2>2. DeletesAll(c)'
    BY <1>1, <1>4, <1>8 DEF DeletesAll, StoredShifts
  <2>3. InsertsInOrder(c)'
    <3>1. IsFiniteSet(call'[c].ins) /\ Cardinality(call'[c].ins) = k + 1
      <4>1. IsFiniteSet(call[c].ins) /\ new \notin call[c].ins
        BY <1>1, <1>6
      <4> QED
        BY <1>2, <1>8, <4>1, FS_AddElement
    <3>2. FirstRows(c, k + 1)' = FirstRows(c, k) \cup {new}
      <4>1. 1..(k + 1) = 1..k \cup {k + 1}
        OBVIOUS
      <4> QED
        BY <1>3, <1>8, <4>1 DEF FirstRows
    <3>3. call'[c].ins = FirstRows(c, Cardinality(call[c].ins))'
      <4>1. call'[c].ins = FirstRows(c, k + 1)'
        BY <1>1, <1>2, <1>8, <3>2
      <4> QED
        BY <3>1, <4>1 DEF FirstRows
    <3>4. Cardinality(call'[c].ins) <= Len(call'[c].body.shifts)
      BY <1>4, <1>8, <3>1
    <3> QED
      BY <1>8, <3>1, <3>3, <3>4 DEF InsertsInOrder
  <2>4. RowsCommitted(c)' /\ EntriesCommitted(c)' /\ NotForgotten(c)'
    BY <1>4, <1>8 DEF IInv, Sound, RowsCommitted, EntriesCommitted, NotForgotten
  <2> QED
    BY <2>1, <2>2, <2>3, <2>4 DEF Sound
<1> QED
  BY <1>4, <1>7, <1>9, <1>10, HandlerStep DEF IInv, Typed

\* What is stored of a schedule is its latest version.
LEMMA StoredIsLatest ==
    ASSUME IInv, NEW s \in ScheduleIds
    PROVE  /\ Len(history[s]) \in Nat
           /\ history[s] = <<>> => row[s] = NoRow /\ StoredShifts(s) = {}
           /\ history[s] # <<>> =>
                /\ Len(history[s]) > 0 /\ Latest(s) \in Bodies /\ row[s] = Latest(s).enabled
                /\ {x.shift : x \in StoredShifts(s)} = ShiftsIn(Latest(s))
<1>1. history[s] \in Seq(Versions)
  BY DEF IInv, Typed
<1>2. Len(history[s]) \in Nat /\ (history[s] # <<>> => Len(history[s]) > 0)
  BY <1>1, EmptySeq, LenProperties
<1>3. history[s] # <<>> => history[s][Len(history[s])] \in Versions
  BY <1>1, <1>2, ElementOfSeq
<1>4. ASSUME history[s] # <<>>
      PROVE  {x.shift : x \in StoredShifts(s)} = ShiftsIn(Latest(s))
  <2>1. PICK v : v = history[s][Len(history[s])] /\ StoredShifts(s) = ShiftRows(s, v.by, v.body)
    BY <1>4 DEF IInv, ShiftsOfOneWrite
  <2>2. {x.shift : x \in ShiftRows(s, v.by, v.body)} = ShiftsIn(v.body)
    <3>1. \A i \in DOMAIN v.body.shifts :
            \E x \in ShiftRows(s, v.by, v.body) : x.shift = v.body.shifts[i]
      <4> SUFFICES ASSUME NEW i \in DOMAIN v.body.shifts
                   PROVE  \E x \in ShiftRows(s, v.by, v.body) : x.shift = v.body.shifts[i]
        OBVIOUS
      <4>1. PICK x : x = [of |-> s, by |-> v.by, n |-> i, shift |-> v.body.shifts[i]]
        OBVIOUS
      <4>2. x \in ShiftRows(s, v.by, v.body) /\ x.shift = v.body.shifts[i]
        BY <4>1 DEF ShiftRows
      <4> QED
        BY <4>2
    <3>2. \A x \in ShiftRows(s, v.by, v.body) :
            \E i \in DOMAIN v.body.shifts : x.shift = v.body.shifts[i]
      BY DEF ShiftRows
    <3> QED
      BY <3>1, <3>2 DEF ShiftsIn
  <2> QED
    BY <2>1, <2>2 DEF Latest
<1> QED
  BY <1>2, <1>3, <1>4 DEF IInv, ShiftsOfOneWrite, Latest, Versions

\* A query has found rows of committed versions.
LEMMA LoadingSound ==
    ASSUME IInv, NEW c \in Calls, NEW rows, StartsLoading(c, rows), call[c].at = "query",
           UNCHANGED <<row, shifts, history>>,
           \A r \in rows : \E s \in ScheduleIds : r = RowOf(s) /\ history[s] # <<>>,
           call[c].kind = "oncall" =>
              \A s \in ScheduleIds :
                  history[s] # <<>> /\ row[s] = TRUE /\ Covering(s) # {} => RowOf(s) \in rows
    PROVE  /\ call' \in [Calls -> Handlers] /\ Sound(c)'
           /\ \A d \in Calls \ {c} : call'[d] = call[d]
<1> DEFINE now == [s \in ScheduleIds |-> Len(history[s])]
<1>1. call[c] \in Handlers
  BY DEF IInv, Typed
<1>2. now \in [ScheduleIds -> Nat] /\ rows \in SUBSET Rows
  BY StoredIsLatest DEF RowOf, Rows, IInv, Typed
<1>3. /\ call'[c] = [call[c] EXCEPT !.at = "load", !.todo = rows, !.asof = now]
      /\ \A d \in Calls \ {c} : call'[d] = call[d]
  BY DEF StartsLoading, IInv, Typed
<1>4. \A s \in ScheduleIds : now[s] = Len(history[s])
  OBVIOUS
<1> HIDE DEF now
<1>5. /\ call'[c] \in Handlers /\ call'[c].at = "load" /\ call'[c].todo = rows
      /\ call'[c].asof = now /\ call'[c].kind = call[c].kind
      /\ call'[c].id = call[c].id /\ call'[c].body = call[c].body
      /\ call'[c].out = call[c].out /\ call'[c].ins = call[c].ins
  BY <1>1, <1>2, <1>3 DEF Handlers, Places
<1>6. call' \in [Calls -> Handlers]
  BY <1>3, <1>5 DEF StartsLoading, IInv, Typed
<1>7. Asks(c)' /\ Owns(c)' /\ DeletesAll(c)' /\ InsertsInOrder(c)'
  BY <1>5 DEF IInv, Sound, Asks, Owns, DeletesAll, InsertsInOrder, InProgress, Answers
<1>8. RowsCommitted(c)'
  <2> SUFFICES ASSUME NEW r \in rows PROVE r.version \in 1..Len(history[r.id])
    BY <1>5 DEF RowsCommitted
  <2>1. PICK s \in ScheduleIds : r = RowOf(s) /\ history[s] # <<>>
    OBVIOUS
  <2>2. r.id = s /\ r.version = Len(history[s])
    BY <2>1 DEF RowOf
  <2> QED
    BY <2>1, <2>2, StoredIsLatest
<1>9. EntriesCommitted(c)'
  BY <1>5 DEF IInv, Sound, EntriesCommitted
<1>10. NotForgotten(c)'
  <2> SUFFICES ASSUME call[c].kind = "oncall", NEW s \in ScheduleIds
               PROVE  /\ now[s] <= Len(history[s])
                      /\ history[s] # <<>> /\ row[s] = TRUE /\ Covering(s) # {}
                         => \E r \in rows : r.id = s /\ r.enabled = TRUE
    BY <1>5 DEF NotForgotten, Covering, Latest
  <2>1. now[s] <= Len(history[s])
    BY <1>4, StoredIsLatest
  <2>2. RowOf(s).id = s /\ RowOf(s).enabled = row[s]
    BY DEF RowOf
  <2> QED
    BY <2>1, <2>2
<1> QED
  BY <1>3, <1>6, <1>7, <1>8, <1>9, <1>10 DEF Sound

\* The queries of Get, List and OnCall.
LEMMA QueryKeeps ==
    ASSUME IInv, NEW c \in Calls, GetRow(c) \/ ListRows(c) \/ FindActive(c)
    PROVE  IInv'
<1>1. call[c].at = "query" /\ call[c].id \in ScheduleIds /\ UNCHANGED <<row, shifts, history>>
  BY DEF GetRow, ListRows, FindActive, IInv, Sound, Asks, InProgress, Answers
<1>2. CASE Ends(c, "error")
  BY <1>1, <1>2, EndsStep DEF Answers
<1>3. ASSUME NEW rows, StartsLoading(c, rows), lock' = lock, held' \in [Calls -> {0, 1}],
             \A r \in rows : \E s \in ScheduleIds : r = RowOf(s) /\ history[s] # <<>>,
             call[c].kind = "oncall" =>
               \A s \in ScheduleIds :
                   history[s] # <<>> /\ row[s] = TRUE /\ Covering(s) # {} => RowOf(s) \in rows
      PROVE  IInv'
  <2>1. /\ call' \in [Calls -> Handlers] /\ Sound(c)'
        /\ \A d \in Calls \ {c} : call'[d] = call[d]
    BY <1>1, <1>3, LoadingSound
  <2> QED
    BY <1>1, <1>3, <2>1, HandlerStep DEF IInv, Typed
<1>4. \A s \in ScheduleIds : row[s] # NoRow \/ StoredShifts(s) # {} => history[s] # <<>>
  BY StoredIsLatest
<1>5. CASE GetRow(c) /\ ~Ends(c, "error")
  BY <1>1, <1>3, <1>4, <1>5 DEF GetRow, IInv, Typed
<1>6. CASE ListRows(c)
  <2> DEFINE rows == {RowOf(s) : s \in {t \in ScheduleIds : row[t] # NoRow}}
  <2>1. StartsLoading(c, rows) /\ lock' = lock /\ held' \in [Calls -> {0, 1}]
        /\ call[c].kind = "list"
    BY <1>6 DEF ListRows, IInv, Typed
  <2> QED
    BY <1>3, <1>4, <2>1
<1>7. CASE FindActive(c)
  <2> DEFINE rows == {RowOf(s) : s \in {t \in ScheduleIds :
                            row[t] = TRUE /\ \E r \in StoredShifts(t) : Joins(r.shift)}}
  <2>1. StartsLoading(c, rows) /\ lock' = lock /\ held' \in [Calls -> {0, 1}]
    BY <1>7 DEF FindActive, IInv, Typed
  <2>2. ASSUME NEW s \in ScheduleIds, history[s] # <<>>, row[s] = TRUE, Covering(s) # {}
        PROVE  \E r \in StoredShifts(s) : Joins(r.shift)
    <3>1. PICK x \in ShiftsIn(Latest(s)) : x.starts <= Asked /\ Asked < x.ends
      BY <2>2 DEF Covering
    <3>2. PICK r \in StoredShifts(s) : r.shift = x
      BY <2>2, <3>1, StoredIsLatest
    <3> QED
      BY <3>1, <3>2 DEF Joins
  <2>3. \A r \in rows : \E s \in ScheduleIds : r = RowOf(s) /\ history[s] # <<>>
    <3> SUFFICES ASSUME NEW r \in rows
                 PROVE  \E s \in ScheduleIds : r = RowOf(s) /\ history[s] # <<>>
      OBVIOUS
    <3>1. PICK s \in ScheduleIds : r = RowOf(s) /\ StoredShifts(s) # {}
      OBVIOUS
    <3> QED
      BY <1>4, <3>1
  <2>4. \A s \in ScheduleIds :
          history[s] # <<>> /\ row[s] = TRUE /\ Covering(s) # {} => RowOf(s) \in rows
    BY <2>2
  <2> HIDE DEF rows
  <2> QED
    BY <1>3, <2>1, <2>3, <2>4
<1> QED
  BY <1>2, <1>5, <1>6, <1>7

\* A row that is loaded becomes an entry with the shifts that are stored now.
LEMMA LoadKeeps == ASSUME IInv, NEW c \in Calls, LoadShifts(c) PROVE IInv'
<1>1. PICK r \in call[c].todo :
        call' = [call EXCEPT ![c].todo = @ \ {r},
                             ![c].out = @ \cup {[id |-> r.id, enabled |-> r.enabled, version |-> r.version,
                                                 shifts |-> {x.shift : x \in StoredShifts(r.id)}]}]
  BY DEF LoadShifts
<1>2. UNCHANGED <<row, shifts, lock, history, held>> /\ call[c].at = "load"
  BY DEF LoadShifts
<1>3. /\ call[c] \in Handlers /\ call[c].todo \in SUBSET Rows /\ r \in Rows
      /\ call[c].out \in SUBSET Entries /\ r.version \in 1..Len(history[r.id])
  BY DEF IInv, Typed, Handlers, Sound, RowsCommitted
<1>4. PICK new : new = [id |-> r.id, enabled |-> r.enabled, version |-> r.version,
                        shifts |-> {x.shift : x \in StoredShifts(r.id)}]
  OBVIOUS
<1>5. /\ r.id \in ScheduleIds /\ r.version \in Nat /\ r.version \in 1..Len(history[r.id])
      /\ Len(history[r.id]) \in Nat /\ history[r.id] # <<>>
  <2>1. history[r.id] # <<>> \/ Len(history[r.id]) = 0
    BY EmptySeq
  <2> QED
    BY <1>3, <2>1, StoredIsLatest DEF Rows
<1>6. new.shifts = ShiftsIn(Latest(r.id))
  BY <1>4, <1>5, StoredIsLatest
<1>7. new \in Entries
  <2>1. {x.shift : x \in StoredShifts(r.id)} \in SUBSET AllShifts
    BY DEF StoredShifts, IInv, Typed, ShiftTable
  <2> QED
    BY <1>3, <1>4, <2>1 DEF Rows, Entries
<1>8. /\ call'[c] = [call[c] EXCEPT !.todo = call[c].todo \ {r}, !.out = call[c].out \cup {new}]
      /\ \A d \in Calls \ {c} : call'[d] = call[d]
  BY <1>1, <1>4 DEF IInv, Typed
<1>9. /\ call'[c] \in Handlers /\ call'[c].at = "load" /\ call'[c].todo = call[c].todo \ {r}
      /\ call'[c].out = call[c].out \cup {new}
      /\ call'[c].asof = call[c].asof /\ call'[c].kind = call[c].kind
      /\ call'[c].id = call[c].id /\ call'[c].body = call[c].body /\ call'[c].ins = call[c].ins
  <2>1. call[c].todo \ {r} \in SUBSET Rows /\ call[c].out \cup {new} \in SUBSET Entries
    BY <1>3, <1>7
  <2> QED
    BY <1>2, <1>3, <1>8, <2>1 DEF Handlers
<1>10. call' \in [Calls -> Handlers]
  BY <1>1, <1>8, <1>9 DEF IInv, Typed
<1>11. Sound(c)'
  <2>1. Asks(c)' /\ Owns(c)' /\ DeletesAll(c)' /\ InsertsInOrder(c)'
    BY <1>2, <1>9 DEF IInv, Sound, Asks, Owns, DeletesAll, InsertsInOrder, InProgress, Answers
  <2>2. RowsCommitted(c)'
    BY <1>2, <1>9 DEF IInv, Sound, RowsCommitted
  <2>3. EntriesCommitted(c)'
    <3>1. \A e \in call[c].out : \E v \in e.version..Len(history[e.id]) :
            v > 0 /\ e.shifts = ShiftsIn(history[e.id][v].body)
      BY DEF IInv, Sound, EntriesCommitted
    <3>2. \E v \in new.version..Len(history[new.id]) :
            v > 0 /\ new.shifts = ShiftsIn(history[new.id][v].body)
      BY <1>4, <1>5, <1>6 DEF Latest
    <3> QED
      BY <1>2, <1>9, <3>1, <3>2 DEF EntriesCommitted
  <2>4. NotForgotten(c)'
    <3> SUFFICES ASSUME call[c].kind = "oncall", NEW s \in ScheduleIds
                 PROVE  /\ call[c].asof[s] <= Len(history[s])
                        /\ /\ history[s] # <<>> /\ Len(history[s]) = call[c].asof[s]
                           /\ row[s] = TRUE /\ Covering(s) # {}
                           => \/ \E x \in call'[c].todo : x.id = s /\ x.enabled = TRUE
                              \/ \E e \in call'[c].out :
                                    e.id = s /\ e.enabled = TRUE /\ e.shifts = ShiftsIn(Latest(s))
      <4>1. \A t \in ScheduleIds : /\ Latest(t)' = Latest(t) /\ Covering(t)' = Covering(t)
                                   /\ ShiftsIn(Latest(t))' = ShiftsIn(Latest(t))
        BY <1>2 DEF Latest, Covering, ShiftsIn
      <4>2. call'[c].kind = call[c].kind /\ call'[c].asof = call[c].asof
        BY <1>9
      <4> QED
        BY <1>2, <4>1, <4>2, Zenon DEF NotForgotten
    <3>1. /\ call[c].asof[s] <= Len(history[s])
          /\ /\ history[s] # <<>> /\ Len(history[s]) = call[c].asof[s]
             /\ row[s] = TRUE /\ Covering(s) # {}
             => \/ \E x \in call[c].todo : x.id = s /\ x.enabled = TRUE
                \/ \E e \in call[c].out :
                      e.id = s /\ e.enabled = TRUE /\ e.shifts = ShiftsIn(Latest(s))
      BY <1>2 DEF IInv, Sound, NotForgotten
    <3>2. r.id = s /\ r.enabled = TRUE => new.id = s /\ new.enabled = TRUE /\ new.shifts = ShiftsIn(Latest(s))
      BY <1>4, <1>6
    <3> QED
      BY <1>9, <3>1, <3>2
  <2> QED
    BY <2>1, <2>2, <2>3, <2>4 DEF Sound
<1> QED
  BY <1>2, <1>8, <1>10, <1>11, HandlerStep DEF IInv, Typed

\* A commit replaces the shifts of its schedule, and no other transaction has
\* one in hand.
LEMMA CommitKeeps == ASSUME IInv, NEW c \in Calls, Commit(c) PROVE IInv'
<1>1. PICK s \in ScheduleIds, b \in Bodies :
        /\ call[c].at = "insert" /\ call[c].id = s /\ call[c].body = b /\ lock[s] = c
        /\ call[c].del = StoredShifts(s) /\ call[c] \in Handlers
  BY DEF Commit, IInv, Typed, Sound, Asks, Owns, DeletesAll, InProgress, Answers
<1>2. Len(b.shifts) \in Nat /\ DOMAIN b.shifts = 1..Len(b.shifts) /\ b.enabled \in BOOLEAN
  BY <1>1, LenProperties, SchedulesAssumption DEF SchedulesAssumption
<1>3. call[c].ins = ShiftRows(s, c, b)
  <2>1. /\ IsFiniteSet(call[c].ins) /\ Cardinality(call[c].ins) <= Len(b.shifts)
        /\ call[c].ins = FirstRows(c, Cardinality(call[c].ins))
    BY <1>1 DEF IInv, Sound, InsertsInOrder
  <2>2. Cardinality(call[c].ins) = Len(b.shifts)
    BY <1>1, <1>2, <2>1, FS_CardinalityType DEF Commit, NextShift
  <2> QED
    BY <1>1, <1>2, <2>1, <2>2 DEF FirstRows, ShiftRows
<1>4. /\ row' = [row EXCEPT ![s] = b.enabled]
      /\ shifts' = (shifts \ StoredShifts(s)) \cup ShiftRows(s, c, b)
      /\ history' = [history EXCEPT ![s] = Append(history[s], [by |-> c, body |-> b])]
  BY <1>1, <1>3 DEF Commit, IInv, Typed
<1>5. PICK answer \in Answers : Ends(c, answer)
  BY DEF Commit
<1>6. [by |-> c, body |-> b] \in Versions /\ history[s] \in Seq(Versions)
  BY DEF Versions, IInv, Typed
<1>7. /\ Len(history'[s]) = Len(history[s]) + 1 /\ Len(history[s]) \in Nat
      /\ history'[s] # <<>>
      /\ history'[s][Len(history'[s])] = [by |-> c, body |-> b]
      /\ \A i \in 1..Len(history[s]) : history'[s][i] = history[s][i]
      /\ history' \in [ScheduleIds -> Seq(Versions)]
  BY <1>4, <1>6, AppendProperties, LenProperties, EmptySeq DEF IInv, Typed
<1>8. /\ ShiftRows(s, c, b) \subseteq ShiftTable
      /\ \A x \in ShiftRows(s, c, b) : x.of = s
  BY <1>2 DEF ShiftRows, ShiftTable, AllShifts, ShiftsIn
<1>9. /\ StoredShifts(s)' = ShiftRows(s, c, b)
      /\ \A t \in ScheduleIds \ {s} : StoredShifts(t)' = StoredShifts(t)
  BY <1>4, <1>8 DEF StoredShifts
<1>10. /\ lock' \in [ScheduleIds -> Calls \cup {NoCall}] /\ call' \in [Calls -> Handlers]
       /\ held' \in [Calls -> {0, 1}] /\ Sound(c)'
       /\ \A d \in Calls \ {c} : call'[d] = call[d]
       /\ \A t \in ScheduleIds : \A d \in Calls \ {c} : lock[t] = d => lock'[t] = d
  BY <1>5, EndsClean DEF IInv
<1>11. Typed'
  BY <1>2, <1>4, <1>7, <1>8, <1>10 DEF IInv, Typed
<1>12. ShiftsOfOneWrite'
  <2> SUFFICES ASSUME NEW t \in ScheduleIds
               PROVE  IF history'[t] = <<>>
                      THEN row'[t] = NoRow /\ StoredShifts(t)' = {}
                      ELSE LET last == history'[t][Len(history'[t])]
                           IN  /\ row'[t] = last.body.enabled
                               /\ StoredShifts(t)' = ShiftRows(t, last.by, last.body)
    BY DEF ShiftsOfOneWrite, ShiftRows
  <2>1. CASE t = s
    BY <1>4, <1>7, <1>9, <2>1 DEF IInv, Typed
  <2>2. CASE t # s
    BY <1>4, <1>9, <2>2 DEF IInv, Typed, ShiftsOfOneWrite
  <2> QED
    BY <2>1, <2>2
<1>13. ASSUME NEW d \in Calls \ {c} PROVE Sound(d)'
  <2>1. Undisturbed(d)
    <3> SUFFICES ASSUME NEW t \in ScheduleIds
                 PROVE  /\ lock[t] = d => lock'[t] = d /\ StoredShifts(t)' = StoredShifts(t)
                        /\ Len(history[t]) <= Len(history'[t])
                        /\ \A i \in 1..Len(history[t]) : history'[t][i] = history[t][i]
                        /\ Len(history'[t]) = Len(history[t])
                             => row'[t] = row[t] /\ history'[t] = history[t]
      BY DEF Undisturbed
    <3>1. CASE t = s
      BY <1>1, <1>7, <1>10, <3>1
    <3>2. CASE t # s
      <4>1. Len(history[t]) \in Nat /\ row'[t] = row[t] /\ history'[t] = history[t]
        BY <1>4, <3>2, StoredIsLatest DEF IInv, Typed
      <4> QED
        BY <1>9, <1>10, <3>2, <4>1
    <3> QED
      BY <3>1, <3>2
  <2> QED
    BY <1>7, <1>10, <2>1, OtherSound DEF IInv
<1> QED
  BY <1>10, <1>11, <1>12, <1>13 DEF IInv

\* The database may hold schedules at first, each as one write has left it.
LEMMA InitIInv == Init => IInv
<1> SUFFICES ASSUME Init PROVE IInv
  OBVIOUS
<1>1. PICK stored \in [ScheduleIds -> Bodies \cup {NoRow}] :
        /\ row = [s \in ScheduleIds |-> IF stored[s] = NoRow THEN NoRow ELSE stored[s].enabled]
        /\ shifts = UNION {IF stored[s] = NoRow THEN {} ELSE ShiftRows(s, NoCall, stored[s]) :
                            s \in ScheduleIds}
        /\ history = [s \in ScheduleIds |->
                        IF stored[s] = NoRow THEN <<>> ELSE <<[by |-> NoCall, body |-> stored[s]]>>]
        /\ lock = [s \in ScheduleIds |-> NoCall]
        /\ call = [c \in Calls |-> Idle]
        /\ held = [c \in Calls |-> 0]
  BY DEF Init
<1>2. \A s \in ScheduleIds : stored[s] # NoRow => stored[s] \in Bodies
  OBVIOUS
<1>3. \A s \in ScheduleIds : stored[s] # NoRow =>
        ShiftRows(s, NoCall, stored[s]) \subseteq {x \in ShiftTable : x.of = s}
  <2> SUFFICES ASSUME NEW s \in ScheduleIds, NEW b \in Bodies
               PROVE  ShiftRows(s, NoCall, b) \subseteq {x \in ShiftTable : x.of = s}
    BY <1>2
  <2>1. DOMAIN b.shifts \subseteq Nat
    BY LenProperties, SchedulesAssumption DEF SchedulesAssumption
  <2> QED
    BY <2>1 DEF ShiftRows, ShiftTable, AllShifts, ShiftsIn
<1>4. shifts \subseteq ShiftTable
  BY <1>1, <1>3
<1>5. \A s \in ScheduleIds :
        StoredShifts(s) = IF stored[s] = NoRow THEN {} ELSE ShiftRows(s, NoCall, stored[s])
  BY <1>1, <1>3 DEF StoredShifts
<1>6. \A s \in ScheduleIds : stored[s] # NoRow =>
        /\ history[s] \in Seq(Versions) /\ history[s] # <<>>
        /\ Len(history[s]) = 1 /\ history[s][1] = [by |-> NoCall, body |-> stored[s]]
  <2> SUFFICES ASSUME NEW s \in ScheduleIds, stored[s] # NoRow
               PROVE  /\ history[s] \in Seq(Versions) /\ history[s] # <<>>
                      /\ Len(history[s]) = 1 /\ history[s][1] = [by |-> NoCall, body |-> stored[s]]
    OBVIOUS
  <2>1. PICK v \in Versions : v = [by |-> NoCall, body |-> stored[s]]
    BY <1>2 DEF Versions
  <2>2. history[s] = <<v>>
    BY <1>1, <2>1
  <2> QED
    BY <2>1, <2>2, EmptySeq
<1>7. Typed
  <2>1. row \in [ScheduleIds -> BOOLEAN \cup {NoRow}]
    BY <1>1, <1>2, SchedulesAssumption DEF SchedulesAssumption
  <2>2. history \in [ScheduleIds -> Seq(Versions)]
    <3>1. \A s \in ScheduleIds : history[s] \in Seq(Versions)
      BY <1>1, <1>6, EmptySeq
    <3> QED
      BY <1>1, <3>1
  <2>3. call \in [Calls -> Handlers]
    BY <1>1, IdleIs
  <2> QED
    BY <1>1, <1>4, <2>1, <2>2, <2>3 DEF Typed
<1>8. ShiftsOfOneWrite
  BY <1>1, <1>5, <1>6 DEF ShiftsOfOneWrite
<1>9. ASSUME NEW c \in Calls PROVE Sound(c)
  <2>1. /\ call[c].at = "idle" /\ call[c].todo = {} /\ call[c].out = {} /\ call[c].ins = {}
    BY <1>1, IdleIs
  <2> QED
    BY <2>1 DEF Sound, Asks, Owns, DeletesAll, InsertsInOrder, RowsCommitted, EntriesCommitted,
       NotForgotten, InProgress
<1> QED
  BY <1>7, <1>8, <1>9 DEF IInv

\* Every step, and stuttering, preserves the inductive invariant.
LEMMA NextIInv == IInv /\ [Next]_vars => IInv'
<1> SUFFICES ASSUME IInv, [Next]_vars PROVE IInv'
  OBVIOUS
<1>1. CASE UNCHANGED vars
  <2>1. UNCHANGED <<row, shifts, lock, history, call, held>>
    BY <1>1 DEF vars
  <2>2. ShiftsOfOneWrite' /\ Typed'
    BY <2>1 DEF IInv, ShiftsOfOneWrite, StoredShifts, Typed
  <2>3. ASSUME NEW d \in Calls PROVE Sound(d)'
    <3>1. Undisturbed(d)
      BY <2>1, StoredIsLatest DEF Undisturbed, StoredShifts
    <3> QED
      BY <2>1, <3>1, OtherSound DEF IInv, Typed
  <2> QED
    BY <2>2, <2>3 DEF IInv
<1>2. ASSUME NEW c \in Calls, Arrive(c) \/ Fail(c) \/ Step(c) PROVE IInv'
  <2>1. CASE Arrive(c)
    BY <2>1, ArriveKeeps
  <2>2. CASE Fail(c) \/ ReadEnds(c)
    BY <2>2, EndsStep DEF Fail, ReadEnds, Answers
  <2>3. CASE BeginTx(c) \/ Count(c)
    BY <2>3, BeginKeeps
  <2>4. CASE InsertRow(c) \/ UpdateRow(c)
    BY <2>4, WriteRowKeeps
  <2>5. CASE DeleteShifts(c)
    BY <2>5, DeleteKeeps
  <2>6. CASE InsertShift(c)
    BY <2>6, InsertKeeps
  <2>7. CASE Commit(c)
    BY <2>7, CommitKeeps
  <2>8. CASE GetRow(c) \/ ListRows(c) \/ FindActive(c)
    BY <2>8, QueryKeeps
  <2>9. CASE LoadShifts(c)
    BY <2>9, LoadKeeps
  <2> QED
    BY <1>2, <2>1, <2>2, <2>3, <2>4, <2>5, <2>6, <2>7, <2>8, <2>9 DEF Step
<1> QED
  BY <1>1, <1>2 DEF Next

-----------------------------------------------------------------------------
(* The theorems. *)

\* The inductive invariant holds throughout every behaviour.
THEOREM Invariant == Spec => []IInv
BY InitIInv, NextIInv, PTL DEF Spec

\* The tables, and what a request remembers, keep their types.
THEOREM TypeCorrect == Spec => []Typed
<1>1. IInv => Typed
  BY DEF IInv
<1> QED
  BY <1>1, Invariant, PTL

\* A schedule has the flag and the shifts of the write committed last, however
\* many writes overlap and wherever they fail.
THEOREM OneWriteStands == Spec => []ShiftsOfOneWrite
<1>1. IInv => ShiftsOfOneWrite
  BY DEF IInv
<1> QED
  BY <1>1, Invariant, PTL

\* No reader shows a mixture of versions, or shifts older than their row.
THEOREM OneVersionShown == Spec => []EntriesOfOneVersion
<1>1. IInv => EntriesOfOneVersion
  BY DEF IInv, Sound, EntriesCommitted, EntriesOfOneVersion
<1> QED
  BY <1>1, Invariant, PTL

\* A set of naturals that is not empty has a least member.
LEMMA LeastNatural ==
    ASSUME NEW T, T \subseteq Nat, T # {}
    PROVE  \E x \in T : \A y \in T : x <= y
<1>1. IsWellFoundedOn(OpToRel(<, Nat), Nat)
  BY NatLessThanWellFounded
<1>2. PICK x \in T : \A y \in T : ~ (<<y, x>> \in OpToRel(<, Nat))
  BY <1>1, WFMin
<1>3. \A y \in T : ~ (y < x)
  BY <1>2 DEF OpToRel
<1> QED
  BY <1>3

\* OnCallAt finds somebody for an enabled schedule with a shift that covers the
\* time, and nobody else's shift.
LEMMA SomebodyOnCall ==
    ASSUME NEW entry, entry.enabled = TRUE, \A x \in entry.shifts : x.starts \in Nat,
           NEW shift \in entry.shifts, Covers(shift)
    PROVE  OnCallAt(entry) # {} /\ \A x \in OnCallAt(entry) : x \in entry.shifts /\ Covers(x)
<1> DEFINE now == {x \in entry.shifts : entry.enabled /\ Covers(x)}
<1>1. shift \in now
  OBVIOUS
<1>2. {x.starts : x \in now} \subseteq Nat /\ {x.starts : x \in now} # {}
  BY <1>1
<1>3. PICK n \in {x.starts : x \in now} : \A m \in {x.starts : x \in now} : n <= m
  BY <1>2, LeastNatural
<1>4. PICK x \in now : \A y \in now : x.starts <= y.starts
  BY <1>3
<1> QED
  BY <1>4 DEF OnCallAt

\* A step is of one request and does not touch what another remembers.
LEMMA OwnStep ==
    ASSUME Typed, NEW c \in Calls, Arrive(c) \/ Fail(c) \/ Step(c)
    PROVE  \A d \in Calls \ {c} : call'[d] = call[d]
BY DEF Typed, Arrive, Fail, Step, BeginTx, InsertRow, UpdateRow, Locks, DeleteShifts, InsertShift, Commit,
   GetRow, Count, ListRows, FindActive, LoadShifts, ReadEnds, StartsLoading, Goes, Ends

\* OnCall forgets no schedule that was active when its query began and has not
\* changed since.
THEOREM OnCallForgetsNone == Spec => OnCallComplete
<1>1. IInv /\ [Next]_vars =>
        [\A c \in Calls, s \in ScheduleIds :
            (/\ call[c].at = "load" /\ call'[c].at = "ok" /\ call[c].kind = "oncall"
             /\ history[s] # <<>> /\ Len(history[s]) = call[c].asof[s]
             /\ row[s] = TRUE)
            => LET covering == {x \in ShiftsIn(history[s][Len(history[s])].body) :
                                    x.starts <= Asked /\ Asked < x.ends}
               IN  covering # {} => \E e \in OnCall(c) : e.id = s /\ e.one_of \subseteq covering
        ]_vars
  <2> SUFFICES ASSUME IInv, Next, NEW c \in Calls, NEW s \in ScheduleIds,
                      call[c].at = "load", call'[c].at = "ok", call[c].kind = "oncall",
                      history[s] # <<>>, Len(history[s]) = call[c].asof[s], row[s] = TRUE,
                      Covering(s) # {}
               PROVE  \E e \in OnCall(c) : e.id = s /\ e.one_of \subseteq Covering(s)
    BY DEF Covering, Latest
  <2>1. ReadEnds(c)
    <3>1. PICK d \in Calls : Arrive(d) \/ Fail(d) \/ Step(d)
      BY DEF Next
    <3>2. d = c
      BY <3>1, OwnStep DEF IInv
    <3>3. ASSUME Fail(c) PROVE FALSE
      <4>1. [Idle EXCEPT !.at = "error"].at = "error"
        BY IdleIs DEF Answers
      <4>2. call'[c] = [Idle EXCEPT !.at = "error"]
        BY <3>3 DEF Fail, Ends, IInv, Typed
      <4> QED
        BY <4>1, <4>2
    <3>4. ASSUME LoadShifts(c) PROVE FALSE
      <4>1. PICK r, new :
              call' = [call EXCEPT ![c].todo = @ \ {r}, ![c].out = @ \cup {new}]
        BY <3>4 DEF LoadShifts
      <4>2. /\ call[c] \in Handlers
            /\ call'[c] = [call[c] EXCEPT !.todo = call[c].todo \ {r}, !.out = call[c].out \cup {new}]
        BY <4>1 DEF IInv, Typed
      <4>3. call'[c].at = call[c].at
        BY <4>2 DEF Handlers
      <4> QED
        BY <4>3
    <3> QED
      BY <3>1, <3>2, <3>3, <3>4 DEF Arrive, Step, BeginTx, InsertRow, UpdateRow, DeleteShifts, InsertShift,
         Commit, GetRow, Count, ListRows, FindActive
  <2>2. PICK e \in call[c].out : e.id = s /\ e.enabled = TRUE /\ e.shifts = ShiftsIn(Latest(s))
    BY <2>1 DEF ReadEnds, IInv, Sound, NotForgotten
  <2>3. \A y \in e.shifts : y.starts \in Nat
    BY <2>2, StoredIsLatest, SchedulesAssumption DEF SchedulesAssumption
  <2>4. \A y \in e.shifts : y \in Covering(s) <=> Covers(y)
    <3> SUFFICES ASSUME NEW y \in e.shifts PROVE y \in Covering(s) <=> Covers(y)
      OBVIOUS
    <3>1. y.starts > Asked <=> ~(y.starts <= Asked)
      BY <2>3, SchedulesAssumption DEF SchedulesAssumption
    <3> QED
      BY <2>2, <3>1 DEF Covering, Covers
  <2>5. OnCallAt(e) # {} /\ \A y \in OnCallAt(e) : y \in e.shifts /\ Covers(y)
    <3>1. PICK x \in e.shifts : Covers(x)
      BY <2>2, <2>4 DEF Covering
    <3> QED
      BY <2>2, <2>3, <3>1, SomebodyOnCall
  <2>6. OnCallAt(e) \subseteq Covering(s)
    BY <2>4, <2>5
  <2>7. [id |-> e.id, one_of |-> OnCallAt(e)] \in OnCall(c)
    BY <2>5 DEF OnCall
  <2> QED
    BY <2>2, <2>6, <2>7
<1> QED
  BY <1>1, Invariant, PTL DEF Spec, OnCallComplete
=============================================================================
