------------------------- MODULE MCIncidentResponse -------------------------
(* TLC instances of IncidentResponse. *)
EXTENDS IncidentResponse, TLC

CONSTANTS q1, q2, q3, ana, nobody

MCThree == {q1, q2, q3}
MCWho == {ana, nobody}

\* An incident with the defaults, and one that is ana's and has a history.
MCDrafts ==
    {[status |-> NoStatus, assignee |-> nobody, dated |-> FALSE, version |-> 0],
     [status |-> "resolved", assignee |-> ana, dated |-> TRUE, version |-> 2]}

MCStatuses == {"resolved"}

\* The actions Act knows, and one that only sounds like something.
MCTexts == {"resolve", "close", "assigned"}

MCSymmetry == Permutations(MCThree)
=============================================================================
