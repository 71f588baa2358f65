------------------------------ MODULE Schedules ------------------------------
(***************************************************************************)
(* The on-call schedules (internal/schedule): Create and Update write the  *)
(* row of a schedule and replace its shifts in one transaction; Get, List  *)
(* and OnCall read the row and the shifts with separate statements.  List  *)
(* and OnCall hold the connection of their first query while they ask the  *)
(* pool for a second one, schedule after schedule.                         *)
(*                                                                         *)
(* Transactions are READ COMMITTED: a statement sees what was committed    *)
(* when it began, and waits for the row another transaction has written.   *)
(* A shift inserted without an identifier gets a new one: [by, n] is that. *)
(* The name, the time zone and the times of a schedule go along with its   *)
(* enabled flag; the page that List asks for is all there is.              *)
(***************************************************************************)
EXTENDS Naturals, FiniteSets, Sequences

CONSTANTS
    Calls,        \* requests, each handled once
    ScheduleIds,
    Bodies,       \* what a request may write: [enabled, shifts], shifts a sequence
    Asked,        \* the time OnCall is asked about
    MaxConns,     \* max_connections of the pool
    NoCall, NoRow

\* The shifts of what a request writes.
ShiftsIn(body) == {body.shifts[i] : i \in DOMAIN body.shifts}

ASSUME SchedulesAssumption ==
    /\ MaxConns \in Nat \ {0}
    /\ NoCall \notin Calls
    /\ Asked \in Nat
    /\ \A b \in Bodies :
         /\ b.enabled \in BOOLEAN
         /\ b.shifts \in Seq(ShiftsIn(b))
         /\ \A x \in ShiftsIn(b) : x.starts \in Nat /\ x.ends \in Nat

Writers == {"create", "update"}
CursorReaders == {"list", "oncall"}
Kinds == Writers \cup CursorReaders \cup {"get"}

VARIABLES
    row,          \* the schedules table: NoRow, or the enabled flag
    shifts,       \* the schedule_shifts table
    lock,         \* the transaction that has written the row of a schedule
    history,      \* what was committed for a schedule so far: [by, body]
    call,         \* where the handler of a request is, and its local variables
    held          \* the connections a request holds

vars == <<row, shifts, lock, history, call, held>>

NoBody == [enabled |-> FALSE, shifts |-> <<>>]

\* todo: rows of the cursor; out: what was read; del, ins: shifts the
\* transaction has deleted and inserted; asof: versions when the query began.
Idle == [at |-> "idle", kind |-> "get", id |-> CHOOSE s \in ScheduleIds : TRUE, body |-> NoBody,
         todo |-> {}, out |-> {}, del |-> {}, ins |-> {}, asof |-> [s \in ScheduleIds |-> 0]]

ShiftRows(s, by, body) ==
    {[of |-> s, by |-> by, n |-> i, shift |-> body.shifts[i]] : i \in DOMAIN body.shifts}

StoredShifts(s) == {r \in shifts : r.of = s}

Free == MaxConns - Cardinality({c \in Calls : held[c] = 1})

RowFree(c, s) == lock[s] = NoCall

\* The database may hold schedules when the process starts.
Init ==
    \E stored \in [ScheduleIds -> Bodies \cup {NoRow}] :
        /\ row = [s \in ScheduleIds |-> IF stored[s] = NoRow THEN NoRow ELSE stored[s].enabled]
        /\ shifts = UNION {IF stored[s] = NoRow THEN {} ELSE ShiftRows(s, NoCall, stored[s]) :
                            s \in ScheduleIds}
        /\ history = [s \in ScheduleIds |->
                        IF stored[s] = NoRow THEN <<>> ELSE <<[by |-> NoCall, body |-> stored[s]]>>]
        /\ lock = [s \in ScheduleIds |-> NoCall]
        /\ call = [c \in Calls |-> Idle]
        /\ held = [c \in Calls |-> 0]

Goes(c, place) == call' = [call EXCEPT ![c].at = place]

Answers == {"ok", "error"}

InProgress(c) == call[c].at \notin {"idle"} \cup Answers

\* The handler answers: rows closed, the transaction over, its locks gone.
Ends(c, answer) ==
    /\ call' = [call EXCEPT ![c] = [Idle EXCEPT !.at = answer]]
    /\ held' = [held EXCEPT ![c] = 0]
    /\ lock' = [s \in ScheduleIds |-> IF lock[s] = c THEN NoCall ELSE lock[s]]

-----------------------------------------------------------------------------
(* Requests. *)

Begins == [create |-> "begin", update |-> "begin", get |-> "query", list |-> "count", oncall |-> "query"]

\* A request reaches its handler.
Arrive(c) ==
    /\ call[c].at = "idle"
    /\ \E kind \in Kinds, s \in ScheduleIds, body \in Bodies :
        /\ kind \notin Writers => body = CHOOSE b \in Bodies : TRUE
        /\ kind \in CursorReaders => s = Idle.id
        /\ call' = [call EXCEPT ![c].at = Begins[kind], ![c].kind = kind,
                                ![c].id = s, ![c].body = body]
    /\ UNCHANGED <<row, shifts, lock, history, held>>

\* (mutant) an error returns with the rows, or the transaction, still open
FailLeaks(c) ==
    /\ InProgress(c)
    /\ call' = [call EXCEPT ![c] = [Idle EXCEPT !.at = "error"]]
    /\ lock' = [s \in ScheduleIds |-> IF lock[s] = c THEN NoCall ELSE lock[s]]
    /\ UNCHANGED <<row, shifts, history, held>>

\* A statement fails, the body is refused, or the time of the request is up.
Fail(c) ==
    /\ InProgress(c)
    /\ Ends(c, "error")
    /\ UNCHANGED <<row, shifts, history>>

-----------------------------------------------------------------------------
(* Create and Update. *)

BeginTx(c) ==
    /\ call[c].at = "begin"
    /\ Free > 0
    /\ held' = [held EXCEPT ![c] = 1]
    /\ Goes(c, "write")
    /\ UNCHANGED <<row, shifts, lock, history>>

\* (mutant) the row is not written first, so nothing makes another writer wait
LocksNothing(c) == Goes(c, "delete") /\ UNCHANGED <<lock, held>>

\* The row is written, and is this transaction's until its end.
Locks(c) ==
    /\ RowFree(c, call[c].id)
    /\ lock' = [lock EXCEPT ![call[c].id] = c]
    /\ Goes(c, "delete")
    /\ UNCHANGED held

InsertRow(c) ==
    /\ call[c].at = "write" /\ call[c].kind = "create"
    /\ \/ row[call[c].id] = NoRow /\ Locks(c)
       \/ row[call[c].id] # NoRow /\ Ends(c, "error")
    /\ UNCHANGED <<row, shifts, history>>

\* A row that is not committed yet does not exist for this statement.
UpdateRow(c) ==
    /\ call[c].at = "write" /\ call[c].kind = "update"
    /\ \/ row[call[c].id] # NoRow /\ Locks(c)
       \/ row[call[c].id] = NoRow /\ Ends(c, "error")
    /\ UNCHANGED <<row, shifts, history>>

DeleteShifts(c) ==
    /\ call[c].at = "delete"
    /\ call' = [call EXCEPT ![c].at = "insert", ![c].del = StoredShifts(call[c].id)]
    /\ UNCHANGED <<row, shifts, lock, history, held>>

NextShift(c) == Cardinality(call[c].ins) + 1

ShiftRow(c) == [of |-> call[c].id, by |-> c, n |-> NextShift(c),
                shift |-> call[c].body.shifts[NextShift(c)]]

\* (mutant) the shifts are inserted through the pool instead of the transaction
InsertShiftOnPool(c) ==
    /\ call[c].at = "insert"
    /\ NextShift(c) <= Len(call[c].body.shifts)
    /\ Free > 0
    /\ shifts' = (shifts \ call[c].del) \cup {ShiftRow(c)}
    /\ call' = [call EXCEPT ![c].ins = @ \cup {ShiftRow(c)}]
    /\ UNCHANGED <<row, lock, history, held>>

\* One statement for each shift of the body.
InsertShift(c) ==
    /\ call[c].at = "insert"
    /\ NextShift(c) <= Len(call[c].body.shifts)
    /\ call' = [call EXCEPT ![c].ins = @ \cup {ShiftRow(c)}]
    /\ UNCHANGED <<row, shifts, lock, history, held>>

\* The answer of a commit may be lost on its way.
Commit(c) ==
    /\ call[c].at = "insert"
    /\ NextShift(c) > Len(call[c].body.shifts)
    /\ row' = [row EXCEPT ![call[c].id] = call[c].body.enabled]
    /\ shifts' = (shifts \ call[c].del) \cup call[c].ins
    /\ history' = [history EXCEPT ![call[c].id] = Append(@, [by |-> c, body |-> call[c].body])]
    /\ \E answer \in Answers : Ends(c, answer)

-----------------------------------------------------------------------------
(* Get, List and OnCall. *)

RowOf(s) == [id |-> s, enabled |-> row[s], version |-> Len(history[s])]

StartsLoading(c, rows) ==
    call' = [call EXCEPT ![c].at = "load", ![c].todo = rows,
                         ![c].asof = [s \in ScheduleIds |-> Len(history[s])]]

\* One row: its connection is free again before the shifts are loaded.
GetRow(c) ==
    /\ call[c].at = "query" /\ call[c].kind = "get"
    /\ Free > 0
    /\ \/ row[call[c].id] # NoRow /\ StartsLoading(c, {RowOf(call[c].id)}) /\ UNCHANGED <<lock, held>>
       \/ row[call[c].id] = NoRow /\ Ends(c, "error")
    /\ UNCHANGED <<row, shifts, history>>

Count(c) ==
    /\ call[c].at = "count"
    /\ Free > 0
    /\ Goes(c, "query")
    /\ UNCHANGED <<row, shifts, lock, history, held>>

ListRows(c) ==
    /\ call[c].at = "query" /\ call[c].kind = "list"
    /\ Free > 0
    /\ StartsLoading(c, {RowOf(s) : s \in {t \in ScheduleIds : row[t] # NoRow}})
    /\ held' = [held EXCEPT ![c] = 1]
    /\ UNCHANGED <<row, shifts, lock, history>>

\* (mutant) a shift that begins at that time is not active yet
JoinsLate(shift) == shift.starts < Asked /\ shift.ends > Asked

\* The comparison in the query.
Joins(shift) == shift.starts <= Asked /\ shift.ends > Asked

FindActive(c) ==
    /\ call[c].at = "query" /\ call[c].kind = "oncall"
    /\ Free > 0
    /\ StartsLoading(c, {RowOf(s) : s \in {t \in ScheduleIds :
                            row[t] = TRUE /\ \E r \in StoredShifts(t) : Joins(r.shift)}})
    /\ held' = [held EXCEPT ![c] = 1]
    /\ UNCHANGED <<row, shifts, lock, history>>

\* Over a connection of its own, taken and given back.
LoadShifts(c) ==
    /\ call[c].at = "load"
    /\ Free > 0
    /\ \E r \in call[c].todo :
        call' = [call EXCEPT ![c].todo = @ \ {r},
                             ![c].out = @ \cup {[id |-> r.id, enabled |-> r.enabled, version |-> r.version,
                                                 shifts |-> {x.shift : x \in StoredShifts(r.id)}]}]
    /\ UNCHANGED <<row, shifts, lock, history, held>>

\* The rows are at their end, which gives back their connection.
ReadEnds(c) ==
    /\ call[c].at = "load"
    /\ call[c].todo = {}
    /\ Ends(c, "ok")
    /\ UNCHANGED <<row, shifts, history>>

\* (mutant) a shift that begins at that time does not cover it
CoversLate(shift) == Asked > shift.starts /\ shift.ends > Asked

\* The comparison in the program.
Covers(shift) == ~(shift.starts > Asked) /\ shift.ends > Asked

\* Schedule.OnCallAt: the first shift, by its start, that covers the time;
\* shifts that start together come in any order.
OnCallAt(entry) ==
    LET now == {x \in entry.shifts : entry.enabled /\ Covers(x)}
    IN  {x \in now : \A y \in now : x.starts <= y.starts}

\* What Service.OnCall makes of the schedules it has read: those with nobody
\* on call are left out.
OnCall(c) == {[id |-> e.id, one_of |-> OnCallAt(e)] : e \in {f \in call[c].out : OnCallAt(f) # {}}}

-----------------------------------------------------------------------------
Step(c) ==
    \/ BeginTx(c) \/ InsertRow(c) \/ UpdateRow(c)
    \/ DeleteShifts(c) \/ InsertShift(c) \/ Commit(c)
    \/ GetRow(c) \/ Count(c) \/ ListRows(c) \/ FindActive(c) \/ LoadShifts(c) \/ ReadEnds(c)

Next == \E c \in Calls : Arrive(c) \/ Fail(c) \/ Step(c)

Spec == Init /\ [][Next]_vars

\* Handlers run, and the pool and PostgreSQL serve those who wait; with finitely
\* many requests it is enough that somebody goes on.  Nothing is assumed of Fail.
FairSpec == Spec /\ WF_vars(\E c \in Calls : Step(c))

-----------------------------------------------------------------------------
(* Properties. *)

\* A schedule holds the enabled flag and exactly the shifts of the write that
\* was committed last, however writes of the same schedule overlap
\* (pg_repository.go, Create, Update and replaceShifts).
ShiftsOfOneWrite ==
    \A s \in ScheduleIds :
        IF history[s] = <<>>
        THEN row[s] = NoRow /\ StoredShifts(s) = {}
        ELSE LET last == history[s][Len(history[s])]
             IN  row[s] = last.body.enabled /\ StoredShifts(s) = ShiftRows(s, last.by, last.body)

\* The shifts a reader shows for a schedule are those of one committed
\* version, never a mixture, and that version is no older than the row they
\* are shown with (loadShifts, called after the row was read).
EntriesOfOneVersion ==
    \A c \in Calls : \A e \in call[c].out :
        \E v \in e.version..Len(history[e.id]) :
            e.shifts = ShiftsIn(history[e.id][v].body)

\* OnCall leaves out no schedule that was active when its query began and has
\* not changed since, and names a shift of it (FindActive against OnCallAt).
OnCallComplete ==
    [][\A c \in Calls, s \in ScheduleIds :
        (/\ call[c].at = "load" /\ call'[c].at = "ok" /\ call[c].kind = "oncall"
         /\ history[s] # <<>> /\ Len(history[s]) = call[c].asof[s]
         /\ row[s] = TRUE)
        => LET covering == {x \in ShiftsIn(history[s][Len(history[s])].body) :
                                x.starts <= Asked /\ Asked < x.ends}
           IN  covering # {} => \E e \in OnCall(c) : e.id = s /\ e.one_of \subseteq covering
       ]_vars

\* Every connection is held by a List or an OnCall that waits for another one.
Stalled ==
    /\ Free = 0
    /\ \A c \in Calls : held[c] = 1 => call[c].at = "load" /\ call[c].todo # {}

\* A request is answered in the end, or the pool stalls on readers: nothing
\* else makes requests wait for ever, no writer and no connection left behind.
AnsweredOrStalled == \A c \in Calls : InProgress(c) ~> (~InProgress(c) \/ Stalled)

=============================================================================
