----------------------------- MODULE Incidents -----------------------------
(***************************************************************************)
(* An incident and the trail of its actions, as the tables hold them       *)
(* (incidents, incident_actions), the calls of responders that change      *)
(* them, and what a reader may conclude from the two.  The calls           *)
(* themselves are in IncidentResponse.                                     *)
(***************************************************************************)
EXTENDS Changes

CONSTANTS
    IncidentCalls,      \* calls of the service after Create
    Drafts,             \* incidents that requests ask to create
    Assignees,          \* whom a request may name, the empty name included
    Statuses, NoStatus  \* what a draft may say of the status, or that it says nothing

ASSUME IncidentsAssumption ==
    Drafts \subseteq [status : Statuses \cup {NoStatus}, assignee : Assignees,
                      dated : BOOLEAN, version : Int]

VARIABLES
    incident, \* the row of incidents
    trail,    \* the calls whose actions are in incident_actions, as inserted
    stage,    \* where a call stands
    asked,    \* what it asks for
    created,  \* the row as Create stored it
    wrote     \* what calls have made of the row, in that order: the call, the copy
              \* it was made of and the row it wrote

Members(s) == {s[i] : i \in DOMAIN s}

\* The calls whose update of the row took effect.
Writers == {wrote[i].call : i \in DOMAIN wrote}

InHand == {q \in IncidentCalls : stage[q] \in {"update", "action"}}

\* The trail tells no lies: an action in it did change the incident, once.
TrailIsTrue ==
    /\ Members(trail) \subseteq Writers
    /\ \A i, j \in DOMAIN trail : trail[i] = trail[j] => i = j

\* A lost change shows: what a responder did to the incident is overwritten by
\* another who had read it before only if two changes gave it the same version,
\* also if the answer of either was lost.
LossShows == VersionsDiffer(wrote) => NothingOverwritten(created, wrote)
=============================================================================
