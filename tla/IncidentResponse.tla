-------------------------- MODULE IncidentResponse --------------------------
(***************************************************************************)
(* The service responders handle an incident with (internal/incident):     *)
(* Create, Assign, Act, Close and Escalate, for one incident.  All but     *)
(* Create read the row in one statement and write a changed copy of it in  *)
(* another, without comparing the version; each then adds a row to the     *)
(* actions of the incident in a third statement, whose error is ignored.   *)
(*                                                                         *)
(* Create stores what the request says, its assignee and version included. *)
(* The action of Act is any text, which need not tell what the call did:   *)
(* "assigned" is recorded and assigns nobody.  The title, the severity and *)
(* the labels of an incident, who acts, the comments, and the action       *)
(* "created" that Create adds are left out.  What the tables promise to    *)
(* whoever reads them is in Incidents.                                     *)
(***************************************************************************)
EXTENDS Incidents, FiniteSets

CONSTANTS
    Texts,          \* actions that requests to Act may carry
    MaxInFlight,    \* how many calls overlap
    MaxFaults       \* bound on errors and crashes in a behaviour

ASSUME IncidentAssumption == MaxInFlight \in Nat /\ MaxFaults \in Nat

VARIABLES
    seen,     \* the row a call has read
    errors    \* how many there were

vars == <<incident, trail, stage, asked, created, wrote, seen, errors>>

\* An incident without a status is open; dated says whether closed_at was set.
Normalize(d) == [d EXCEPT !.status = IF @ = NoStatus THEN "open" ELSE @]

\* What the handlers ask the service for.
Asks ==
    [op : {"assign"}, who : Assignees]
    \cup [op : {"act"}, action : Texts]
    \cup [op : {"close", "escalate"}]

NoAsk == [op |-> "none"]

\* Create.
Init ==
    /\ \E d \in Drafts : incident = Normalize(d)
    /\ created = incident
    /\ trail = <<>>
    /\ stage = [q \in IncidentCalls |-> "new"]
    /\ asked = [q \in IncidentCalls |-> NoAsk]
    /\ seen = [q \in IncidentCalls |-> incident]
    /\ wrote = <<>>
    /\ errors = 0

Fault == errors < MaxFaults /\ errors' = errors + 1

-----------------------------------------------------------------------------
(* What the operations make of an incident. *)

\* The version is counted up whatever is asked for.
Versioned(r) == [r EXCEPT !.version = @ + 1]

Assign(r, who) == [Versioned(r) EXCEPT !.assignee = who, !.status = "in_progress"]

Act(r, action) ==
    IF action \in {"resolve", "close"}
    THEN [Versioned(r) EXCEPT !.status = "resolved", !.dated = TRUE]
    ELSE Versioned(r)

\* Close is Act with an action of its own.
Close(r) == Act(r, "closed")

\* (mutant) an escalation does not count the version up
EscalateUnversioned(r) == [r EXCEPT !.status = "escalated"]

Escalate(r) == [Versioned(r) EXCEPT !.status = "escalated"]

Changed(r, a) ==
    CASE a.op = "assign"   -> Assign(r, a.who)
      [] a.op = "act"      -> Act(r, a.action)
      [] a.op = "close"    -> Close(r)
      [] a.op = "escalate" -> Escalate(r)

-----------------------------------------------------------------------------
Get(q) ==
    /\ stage[q] = "new"
    /\ Cardinality(InHand) < MaxInFlight
    /\ \E a \in Asks : asked' = [asked EXCEPT ![q] = a]
    /\ seen' = [seen EXCEPT ![q] = incident]
    /\ stage' = [stage EXCEPT ![q] = "update"]
    /\ UNCHANGED <<incident, trail, created, wrote, errors>>

Write(q) ==
    /\ incident' = Changed(seen[q], asked[q])
    /\ wrote' = Append(wrote, [call |-> q, from |-> seen[q], to |-> incident'])

Update(q) ==
    /\ stage[q] = "update"
    /\ Write(q)
    /\ stage' = [stage EXCEPT ![q] = "action"]
    /\ UNCHANGED <<trail, asked, created, seen, errors>>

\* (mutant) an error of the update does not keep the action out of the trail
UpdateErrorIgnored(q) ==
    /\ stage[q] = "update"
    /\ Fault
    /\ stage' = [stage EXCEPT ![q] = "action"]
    /\ UNCHANGED <<incident, trail, asked, created, wrote, seen>>

\* The update returns an error, with or without effect, or its process dies.
UpdateError(q) ==
    /\ stage[q] = "update"
    /\ Fault
    /\ Write(q) \/ UNCHANGED <<incident, wrote>>
    /\ stage' = [stage EXCEPT ![q] = "failed"]
    /\ UNCHANGED <<trail, asked, created, seen>>

AddAction(q) ==
    /\ stage[q] = "action"
    /\ trail' = Append(trail, q)
    /\ stage' = [stage EXCEPT ![q] = "done"]
    /\ UNCHANGED <<incident, asked, created, wrote, seen, errors>>

\* The error of AddAction is ignored, and the call succeeds.
AddActionError(q) ==
    /\ stage[q] = "action"
    /\ Fault
    /\ stage' = [stage EXCEPT ![q] = "done"]
    /\ UNCHANGED <<incident, trail, asked, created, wrote, seen>>

Next ==
    \E q \in IncidentCalls : Get(q) \/ Update(q) \/ UpdateError(q) \/ AddAction(q) \/ AddActionError(q)

Spec == Init /\ [][Next]_vars
=============================================================================
