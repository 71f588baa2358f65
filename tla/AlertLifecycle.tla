---------------------------- MODULE AlertLifecycle ----------------------------
(***************************************************************************)
(* The lifecycle of alerts (internal/alert): UpsertAlert, called once per  *)
(* matching evaluation by any replica, and Resolve, Acknowledge and        *)
(* Silence, called by operators over HTTP and gRPC.                        *)
(*                                                                         *)
(* None of these runs in a transaction.  UpsertAlert is four statements:   *)
(* the upsert by fingerprint, a read of the row, the insert of an          *)
(* observation and, for the first firing, the insert of a history entry.   *)
(* An operator's call is a read, a compare-and-set on the status it read,  *)
(* and the insert of a history entry.  Each statement is one step; a call  *)
(* may end with an error at any of them, before or after its effect.       *)
(*                                                                         *)
(* Evaluations and Requests are the CALLS of a behaviour, each made once,  *)
(* in any number of processes; they bound a behaviour.  Values, messages,  *)
(* labels and times are left out, except whether resolved_at is set.       *)
(***************************************************************************)
EXTENDS Naturals, FiniteSets

CONSTANTS
    Alerts,       \* fingerprints
    Evaluations,  \* calls of UpsertAlert
    Requests,     \* calls of Resolve, Acknowledge or Silence
    NoAlert,      \* the alert of a call that has not begun
    Faults        \* whether a statement may fail

ASSUME AlertAssumption ==
    /\ NoAlert \notin Alerts
    /\ Faults \in BOOLEAN

VARIABLES
    (* the row of an alert *)
    status, resolvedAt, firedCount, version,
    (* the tables beside it *)
    observations, \* the evaluations that have a row in alert_observations
    firstFirings, \* the evaluations that inserted pending -> firing
    moves,        \* the requests that inserted their move
    (* a call of UpsertAlert *)
    epc, ealert, efired, estatus,
    (* a call of an operator *)
    rpc, ralert, rfrom, rto

rowVars == <<status, resolvedAt, firedCount, version>>
logVars == <<observations, firstFirings, moves>>
evalVars == <<epc, ealert, efired, estatus>>
reqVars == <<rpc, ralert, rfrom, rto>>
vars == <<rowVars, logVars, evalVars, reqVars>>

Statuses == {"pending", "firing", "resolved", "acknowledged", "silenced"}
\* What the handlers of operators ask for.
Targets == {"resolved", "acknowledged", "silenced"}

Init ==
    /\ status = [a \in Alerts |-> "absent"]
    /\ resolvedAt = [a \in Alerts |-> FALSE]
    /\ firedCount = [a \in Alerts |-> 0]
    /\ version = [a \in Alerts |-> 0]
    /\ observations = {}
    /\ firstFirings = {}
    /\ moves = {}
    /\ epc = [e \in Evaluations |-> "new"]
    /\ ealert = [e \in Evaluations |-> NoAlert]
    /\ efired = [e \in Evaluations |-> 0]
    /\ estatus = [e \in Evaluations |-> "absent"]
    /\ rpc = [r \in Requests |-> "new"]
    /\ ralert = [r \in Requests |-> NoAlert]
    /\ rfrom = [r \in Requests |-> "absent"]
    /\ rto = [r \in Requests |-> "absent"]

-----------------------------------------------------------------------------
(* The transition table. *)

\* (mutant) a resolved alert may be acknowledged
AllowedFromLax(from) ==
    CASE from = "resolved" -> {"firing", "acknowledged"}
      [] OTHER -> Statuses \ {from, "pending"}

AllowedFrom(from) ==
    CASE from = "pending" -> {"firing", "resolved"}
      [] from = "firing" -> {"resolved", "acknowledged", "silenced"}
      [] from = "resolved" -> {"firing"}
      [] from = "acknowledged" -> {"firing", "resolved", "silenced"}
      [] from = "silenced" -> {"firing", "resolved", "acknowledged"}
      [] OTHER -> {}

ValidTransition(from, to) == from = to \/ to \in AllowedFrom(from)

-----------------------------------------------------------------------------
(* UpsertAlert. *)

EvalGoes(e, step) == epc' = [epc EXCEPT ![e] = step]

\* (mutant) an acknowledged alert fires again
ReactivatesAll(s) == s \in {"resolved", "silenced", "acknowledged"}

\* The CASE of the upsert: which statuses go back to firing.
Reactivates(s) == s \in {"resolved", "silenced"}

\* The INSERT ... ON CONFLICT: a new row fires, an old one is counted and, if it
\* was resolved or silenced, reopened.
UpsertRow(a) ==
    /\ status' = [status EXCEPT ![a] = IF @ = "absent" \/ Reactivates(@) THEN "firing" ELSE @]
    /\ resolvedAt' = [resolvedAt EXCEPT ![a] = IF Reactivates(status[a]) THEN FALSE ELSE @]
    /\ firedCount' = [firedCount EXCEPT ![a] = @ + 1]
    /\ version' = [version EXCEPT ![a] = @ + 1]

\* The upsert takes effect; its caller goes on, or learns of an error only.
Upsert(e) ==
    /\ epc[e] = "new"
    /\ \E a \in Alerts :
         /\ UpsertRow(a)
         /\ ealert' = [ealert EXCEPT ![e] = a]
    /\ \/ EvalGoes(e, "select")
       \/ Faults /\ EvalGoes(e, "error")
    /\ UNCHANGED <<logVars, efired, estatus, reqVars>>

\* The read of the row, in a statement of its own.
SelectUpserted(e) ==
    /\ epc[e] = "select"
    /\ efired' = [efired EXCEPT ![e] = firedCount[ealert[e]]]
    /\ estatus' = [estatus EXCEPT ![e] = status[ealert[e]]]
    /\ EvalGoes(e, "observe")
    /\ UNCHANGED <<rowVars, logVars, ealert, reqVars>>

\* (mutant) the row read is not looked at
IsFirstFiringAny(s, n) == s \in {"pending", "firing"}

\* The condition under which the history entry pending -> firing is written.
IsFirstFiring(s, n) == s = "pending" \/ (s = "firing" /\ n = 1)

InsertObservation(e) ==
    /\ epc[e] = "observe"
    /\ observations' = observations \cup {e}
    /\ \/ EvalGoes(e, IF IsFirstFiring(estatus[e], efired[e]) THEN "record" ELSE "done")
       \/ Faults /\ EvalGoes(e, "error")
    /\ UNCHANGED <<rowVars, firstFirings, moves, ealert, efired, estatus, reqVars>>

\* Its error is ignored.
RecordFirstFiring(e) ==
    /\ epc[e] = "record"
    /\ \/ firstFirings' = firstFirings \cup {e}
       \/ Faults /\ UNCHANGED firstFirings
    /\ EvalGoes(e, "done")
    /\ UNCHANGED <<rowVars, observations, moves, ealert, efired, estatus, reqVars>>

\* A statement fails without effect, and UpsertAlert returns.
EvaluationFails(e) ==
    /\ Faults
    /\ epc[e] \in {"select", "observe"}
    /\ EvalGoes(e, "error")
    /\ UNCHANGED <<rowVars, logVars, ealert, efired, estatus, reqVars>>

-----------------------------------------------------------------------------
(* Resolve, Acknowledge, Silence. *)

RequestGoes(r, step) == rpc' = [rpc EXCEPT ![r] = step]

\* GetAlert; a call that finds the alert where it wants it returns at once, and
\* ValidateTransition refuses what the table does not allow.
GetAlert(r) ==
    /\ rpc[r] = "new"
    /\ \E a \in Alerts, to \in Targets :
         /\ status[a] # "absent"
         /\ ralert' = [ralert EXCEPT ![r] = a]
         /\ rfrom' = [rfrom EXCEPT ![r] = status[a]]
         /\ rto' = [rto EXCEPT ![r] = to]
         /\ RequestGoes(r, IF status[a] = to THEN "done"
                           ELSE IF ValidTransition(status[a], to) THEN "update"
                           ELSE "error")
    /\ UNCHANGED <<rowVars, logVars, evalVars>>

\* (mutant) the move does not count as a version
MoveRowUnversioned(a, to) ==
    /\ status' = [status EXCEPT ![a] = to]
    /\ resolvedAt' = [resolvedAt EXCEPT ![a] = IF to = "resolved" THEN TRUE ELSE @]
    /\ UNCHANGED <<firedCount, version>>

\* The assignments of the UPDATE: each target sets its own time and leaves the
\* others.
MoveRow(a, to) ==
    /\ status' = [status EXCEPT ![a] = to]
    /\ resolvedAt' = [resolvedAt EXCEPT ![a] = IF to = "resolved" THEN TRUE ELSE @]
    /\ version' = [version EXCEPT ![a] = @ + 1]
    /\ UNCHANGED firedCount

\* WHERE id=$1 AND status=$2.
Matches(r) == status[ralert[r]] = rfrom[r]

UpdateAlert(r) ==
    /\ rpc[r] = "update"
    /\ Matches(r)
    /\ MoveRow(ralert[r], rto[r])
    /\ \/ RequestGoes(r, "record")
       \/ Faults /\ RequestGoes(r, "lost")
    /\ UNCHANGED <<logVars, evalVars, ralert, rfrom, rto>>

\* No row matched: ErrConflict.
Conflict(r) ==
    /\ rpc[r] = "update"
    /\ ~Matches(r)
    /\ RequestGoes(r, "conflict")
    /\ UNCHANGED <<rowVars, logVars, evalVars, ralert, rfrom, rto>>

\* insertTransition; its error reaches the caller, the row has moved.
RecordMove(r) ==
    /\ rpc[r] = "record"
    /\ \/ moves' = moves \cup {r} /\ RequestGoes(r, "done")
       \/ Faults /\ UNCHANGED moves /\ RequestGoes(r, "lost")
    /\ UNCHANGED <<rowVars, observations, firstFirings, evalVars, ralert, rfrom, rto>>

\* The UPDATE fails without effect.
RequestFails(r) ==
    /\ Faults
    /\ rpc[r] = "update"
    /\ RequestGoes(r, "error")
    /\ UNCHANGED <<rowVars, logVars, evalVars, ralert, rfrom, rto>>

-----------------------------------------------------------------------------
EvaluationStep(e) ==
    Upsert(e) \/ SelectUpserted(e) \/ InsertObservation(e) \/ RecordFirstFiring(e)
    \/ EvaluationFails(e)

RequestStep(r) ==
    GetAlert(r) \/ UpdateAlert(r) \/ Conflict(r) \/ RecordMove(r) \/ RequestFails(r)

Next ==
    \/ \E e \in Evaluations : EvaluationStep(e)
    \/ \E r \in Requests : RequestStep(r)

Spec == Init /\ [][Next]_vars

-----------------------------------------------------------------------------
(* Properties. *)

\* The type of the state.
TypeOK ==
    /\ status \in [Alerts -> {"absent", "firing"} \cup Targets]
    /\ resolvedAt \in [Alerts -> BOOLEAN]
    /\ firedCount \in [Alerts -> Nat]
    /\ version \in [Alerts -> Nat]
    /\ observations \subseteq Evaluations
    /\ firstFirings \subseteq Evaluations
    /\ moves \subseteq Requests
    /\ epc \in [Evaluations -> {"new", "select", "observe", "record", "done", "error"}]
    /\ ealert \in [Evaluations -> Alerts \cup {NoAlert}]
    /\ efired \in [Evaluations -> Nat]
    /\ estatus \in [Evaluations -> {"absent", "firing"} \cup Targets]
    /\ rpc \in [Requests -> {"new", "update", "record", "done", "error", "conflict", "lost"}]
    /\ ralert \in [Requests -> Alerts \cup {NoAlert}]
    /\ rfrom \in [Requests -> {"absent", "firing"} \cup Targets]
    /\ rto \in [Requests -> {"absent"} \cup Targets]

\* resolved_at is set exactly while the alert is resolved, though the UPDATE of a
\* transition never clears it: nothing but an evaluation leaves "resolved".
ResolvedAtAgrees == \A a \in Alerts : resolvedAt[a] <=> status[a] = "resolved"

\* Whatever the interleaving of replicas, an alert has at most one history entry
\* for its first firing.
OneFirstFiring ==
    \A d, e \in firstFirings : ealert[d] = ealert[e] => d = e

\* The calls of UpsertAlert whose upsert took effect, and the requests whose
\* UPDATE did.
Applied(a) == {e \in Evaluations : ealert[e] = a}
Moved(a) == {r \in Requests : ralert[r] = a /\ (rpc[r] \in {"record", "lost"} \/ r \in moves)}

\* The counters of a row are the calls that changed it: no increment is lost
\* between concurrent statements.
CountersExact ==
    \A a \in Alerts :
        /\ firedCount[a] = Cardinality(Applied(a))
        /\ version[a] = firedCount[a] + Cardinality(Moved(a))

\* Statuses, resolution and firings follow the abstract lifecycle.
Lifecycle == INSTANCE AlertStatus WITH closed <- resolvedAt, fired <- firedCount

ImplementsLifecycle == Lifecycle!Spec

=============================================================================
