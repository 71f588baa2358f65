---------------------------- MODULE TaskLifecycle ----------------------------
(***************************************************************************)
(* What a PostgreSQL task table promises to the code that uses it: a task  *)
(* is submitted once, waits, is held by one holder at a time, and is moved *)
(* on only while it is held.  It is finished, or retried a bounded number  *)
(* of times, or given up.  Both tables of the program (queue_items and     *)
(* notification_tasks) are shown to implement this module.                 *)
(*                                                                         *)
(* The module promises no progress: a task whose holder is gone stays      *)
(* held, which is what the tables do.                                      *)
(***************************************************************************)
EXTENDS Naturals

CONSTANTS
    Tasks,        \* identities of the tasks
    Holders,      \* identities of those who may hold a task
    NoHolder,     \* the holder of a task that nobody holds
    MaxAttempts   \* failures after which a task is given up

VARIABLES
    status,       \* where a task stands
    holder,       \* who holds it
    attempts      \* how often it has failed

vars == <<status, holder, attempts>>

Settled == {"completed", "failed"}

Init ==
    /\ status = [t \in Tasks |-> "absent"]
    /\ holder = [t \in Tasks |-> NoHolder]
    /\ attempts = [t \in Tasks |-> 0]

Submit(t) ==
    /\ status[t] = "absent"
    /\ status' = [status EXCEPT ![t] = "pending"]
    /\ UNCHANGED <<holder, attempts>>

\* One holder takes several waiting tasks at once.
Take(h, S) ==
    /\ \A t \in S : status[t] = "pending"
    /\ status' = [t \in Tasks |-> IF t \in S THEN "running" ELSE status[t]]
    /\ holder' = [t \in Tasks |-> IF t \in S THEN h ELSE holder[t]]
    /\ UNCHANGED attempts

Finish(t) ==
    /\ status[t] = "running"
    /\ status' = [status EXCEPT ![t] = "completed"]
    /\ holder' = [holder EXCEPT ![t] = NoHolder]
    /\ UNCHANGED attempts

Retry(t) ==
    /\ status[t] = "running"
    /\ attempts[t] + 1 < MaxAttempts
    /\ status' = [status EXCEPT ![t] = "pending"]
    /\ holder' = [holder EXCEPT ![t] = NoHolder]
    /\ attempts' = [attempts EXCEPT ![t] = @ + 1]

\* Given back without an attempt.
Yield(t) ==
    /\ status[t] = "running"
    /\ status' = [status EXCEPT ![t] = "pending"]
    /\ holder' = [holder EXCEPT ![t] = NoHolder]
    /\ UNCHANGED attempts

GiveUp(t) ==
    /\ status[t] = "running"
    /\ attempts[t] + 1 = MaxAttempts
    /\ status' = [status EXCEPT ![t] = "failed"]
    /\ holder' = [holder EXCEPT ![t] = NoHolder]
    /\ attempts' = [attempts EXCEPT ![t] = @ + 1]

Next ==
    \/ \E t \in Tasks : Submit(t) \/ Finish(t) \/ Retry(t) \/ Yield(t) \/ GiveUp(t)
    \/ \E h \in Holders, S \in SUBSET Tasks : Take(h, S)

Spec == Init /\ [][Next]_vars
=============================================================================
