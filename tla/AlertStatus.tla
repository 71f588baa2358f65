----------------------------- MODULE AlertStatus -----------------------------
(***************************************************************************)
(* The life of an alert as its readers see it: an evaluation that matches  *)
(* makes it fire, unless somebody has acknowledged it; an operator moves   *)
(* it along the permitted transitions; it is closed exactly while it is    *)
(* resolved.  The statements of the alert repository, run concurrently by  *)
(* any number of callers, are shown to implement this module.              *)
(***************************************************************************)
EXTENDS Naturals

CONSTANT Alerts      \* identities (fingerprints) of alerts

VARIABLES
    status,          \* where an alert stands
    closed,          \* it has a time of resolution
    fired            \* matching evaluations so far

vars == <<status, closed, fired>>

Init ==
    /\ status = [a \in Alerts |-> "absent"]
    /\ closed = [a \in Alerts |-> FALSE]
    /\ fired = [a \in Alerts |-> 0]

\* A matching evaluation opens or reopens the alert; it does not take an
\* acknowledgement back.
Evaluate(a) ==
    /\ status' = [status EXCEPT ![a] = IF @ = "acknowledged" THEN @ ELSE "firing"]
    /\ closed' = [closed EXCEPT ![a] = FALSE]
    /\ fired' = [fired EXCEPT ![a] = @ + 1]

\* An operator never touches a closed alert and never reopens one.
Operate(a, to) ==
    /\ status[a] \in {"firing", "acknowledged", "silenced"} \ {to}
    /\ status' = [status EXCEPT ![a] = to]
    /\ closed' = [closed EXCEPT ![a] = (to = "resolved")]
    /\ UNCHANGED fired

Next ==
    \E a \in Alerts :
        \/ Evaluate(a)
        \/ \E to \in {"resolved", "acknowledged", "silenced"} : Operate(a, to)

Spec == Init /\ [][Next]_vars
=============================================================================
