----------------------------- MODULE RuleControl -----------------------------
(***************************************************************************)
(* The service that operators change rules with (internal/rule): Create,   *)
(* Update, Pause, Enable and SetMode, for one rule.  Every operation but   *)
(* Create reads the row in one statement, changes the copy, and writes the *)
(* whole copy back in another; nothing compares the version.               *)
(*                                                                         *)
(* The row is what switches the evaluation of the rule, and its version;   *)
(* the other columns only go along.                                        *)
(***************************************************************************)
EXTENDS Changes, FiniteSets

CONSTANTS
    Requests,       \* calls of the service
    RequestModes,   \* modes, known or not, that a rule to create or a patch may carry;
                    \* NoMode if it carries none
    NoMode,
    RequestVersions, \* versions that a rule to create may carry; 0 is none
    NoRule,         \* the row before Create
    MaxInFlight,    \* how many calls overlap
    MaxFaults       \* bound on errors in a behaviour

Modes == {"active", "paused", "dry_run"}

Rule == [mode : Modes \cup (RequestModes \ {NoMode}), enabled : BOOLEAN, version : Int]

ASSUME RuleAssumption ==
    /\ NoMode \notin Modes
    /\ NoRule \notin Rule
    /\ RequestVersions \subseteq Int
    /\ MaxInFlight \in Nat /\ MaxFaults \in Nat

VARIABLES
    row,      \* the row of rules
    pc,       \* where a request stands
    ask,      \* what it asks for
    copy,     \* the row it has read
    original, \* the row as Create stored it
    changes,  \* what operations have made of it since, in that order
    holds,    \* the mode the last switch asked for, if it was acknowledged with no other call
              \* in flight, and nobody has asked for another switch since
    modes,    \* modes that patches have asked for since
    on,       \* a patch has asked for it to be enabled since
    faults

observers == <<holds, modes, on>>

vars == <<row, pc, ask, copy, original, changes, observers, faults>>

\* What the handlers ask the service for; SetMode refuses a mode that is none.
Asks ==
    [op : {"pause", "enable"}, mode : {NoMode}, enabled : {FALSE}]
    \cup [op : {"setMode"}, mode : Modes, enabled : {FALSE}]
    \cup [op : {"update"}, mode : RequestModes, enabled : BOOLEAN]

NoAsk == [op |-> "none", mode |-> NoMode, enabled |-> FALSE]

Init ==
    /\ row = NoRule
    /\ pc = [q \in Requests |-> "new"]
    /\ ask = [q \in Requests |-> NoAsk]
    /\ copy = [q \in Requests |-> NoRule]
    /\ original = NoRule
    /\ changes = <<>>
    /\ holds = NoMode /\ modes = {} /\ on = FALSE
    /\ faults = 0

InFlight == {q \in Requests : pc[q] = "update"}

\* Pause, Enable and SetMode ask for a mode; a patch is not a switch.
IsSwitch(a) == a.op # "update"

SwitchMode(a) ==
    CASE a.op = "pause"   -> "paused"
      [] a.op = "enable"  -> "active"
      [] a.op = "setMode" -> a.mode

-----------------------------------------------------------------------------
(* What the operations make of a rule. *)

\* A rule that does not come paused is enabled; a version it comes with is kept.
Normalize(m, e, v) ==
    [mode |-> IF m = NoMode THEN "active" ELSE m,
     enabled |-> e \/ m # "paused",
     version |-> IF v = 0 THEN 1 ELSE v]

Switched(r, m, e) == [mode |-> m, enabled |-> e, version |-> r.version + 1]

\* (mutant) Pause leaves the mode
PauseEnabledOnly(r) == Switched(r, r.mode, FALSE)

Pause(r) == Switched(r, "paused", FALSE)

Enable(r) == Switched(r, "active", TRUE)

SetMode(r, m) == Switched(r, m, m # "paused")

\* (mutant) the version is written back as it was read
PatchUnversioned(r, m, e) ==
    [Switched(r, IF m = NoMode THEN r.mode ELSE m, e \/ r.enabled) EXCEPT !.version = r.version]

\* An empty field of the patch leaves the rule as it is.
Patch(r, m, e) == Switched(r, IF m = NoMode THEN r.mode ELSE m, e \/ r.enabled)

Changed(r, a) ==
    CASE a.op = "pause"   -> Pause(r)
      [] a.op = "enable"  -> Enable(r)
      [] a.op = "setMode" -> SetMode(r, a.mode)
      [] a.op = "update"  -> Patch(r, a.mode, a.enabled)

-----------------------------------------------------------------------------
\* A rule that Normalize or validateRule refuses is not created.
Create(q) ==
    /\ pc[q] = "new"
    /\ row = NoRule
    /\ \E m \in RequestModes, e \in BOOLEAN, v \in RequestVersions : row' = Normalize(m, e, v)
    /\ original' = row'
    /\ pc' = [pc EXCEPT ![q] = "done"]
    /\ UNCHANGED <<ask, copy, changes, observers, faults>>

\* The Get of an operation.
Get(q) ==
    /\ pc[q] = "new"
    /\ row # NoRule
    /\ Cardinality(InFlight) < MaxInFlight
    /\ \E a \in Asks :
         /\ ask' = [ask EXCEPT ![q] = a]
         /\ holds' = IF IsSwitch(a) THEN NoMode ELSE holds
         /\ modes' = IF IsSwitch(a) THEN {} ELSE modes \cup ({a.mode} \ {NoMode})
         /\ on' = (~IsSwitch(a) /\ (on \/ a.enabled))
    /\ copy' = [copy EXCEPT ![q] = row]
    /\ pc' = [pc EXCEPT ![q] = "update"]
    /\ UNCHANGED <<row, original, changes, faults>>

\* The UPDATE of the repository.
Write(q) ==
    /\ row' = Changed(copy[q], ask[q])
    /\ changes' = Append(changes, [from |-> copy[q], to |-> row'])

\* It takes effect, and the operation returns.
Update(q) ==
    /\ pc[q] = "update"
    /\ Write(q)
    /\ IF IsSwitch(ask[q]) /\ InFlight = {q}
       THEN holds' = SwitchMode(ask[q]) /\ modes' = {} /\ on' = FALSE
       ELSE UNCHANGED observers
    /\ pc' = [pc EXCEPT ![q] = "done"]
    /\ UNCHANGED <<ask, copy, original, faults>>

\* validateRule refuses the patched rule.
Refuse(q) ==
    /\ pc[q] = "update"
    /\ ask[q].op = "update"
    /\ pc' = [pc EXCEPT ![q] = "failed"]
    /\ UNCHANGED <<row, ask, copy, original, changes, observers, faults>>

\* The call ends with an error or its process dies; the row may have been written.
Fail(q) ==
    /\ pc[q] = "update"
    /\ faults < MaxFaults
    /\ faults' = faults + 1
    /\ Write(q) \/ UNCHANGED <<row, changes>>
    /\ pc' = [pc EXCEPT ![q] = "failed"]
    /\ UNCHANGED <<ask, copy, original, observers>>

Next == \E q \in Requests : Create(q) \/ Get(q) \/ Update(q) \/ Refuse(q) \/ Fail(q)

Spec == Init /\ [][Next]_vars

-----------------------------------------------------------------------------
(* Properties. *)

\* The type of the state; there are no calls before the rule is created.
TypeOK ==
    /\ row \in Rule \cup {NoRule}
    /\ pc \in [Requests -> {"new", "update", "done", "failed"}]
    /\ ask \in [Requests -> Asks \cup {NoAsk}]
    /\ copy \in [Requests -> Rule \cup {NoRule}]
    /\ original \in Rule \cup {NoRule}
    /\ changes \in Seq([from : Rule, to : Rule])
    /\ holds \in Modes \cup {NoMode} /\ modes \subseteq RequestModes \ {NoMode}
    /\ on \in BOOLEAN
    /\ faults \in Nat
    /\ \A q \in Requests : pc[q] # "new" => row # NoRule
    /\ \A q \in InFlight : copy[q] # NoRule /\ ask[q] \in Asks

\* A switch that was acknowledged while no other call was in flight holds until
\* somebody asks for another one, however the calls after it overlap: the mode is
\* the one it asked for or one of a patch since, a rule that was switched on stays
\* enabled, and one that was paused is enabled only by a patch that says so (a patch
\* of the mode does not enable it).  A call that read the rule before the switch may
\* write the old mode back.
SwitchHolds ==
    holds # NoMode =>
        /\ row.mode \in {holds} \cup modes
        /\ holds # "paused" => row.enabled
        /\ holds = "paused" /\ row.enabled => on

\* A lost change shows: what an operator did to the rule, a pause included, is
\* overwritten by a call that had read it before only if two changes gave the rule
\* the same version, also if the answer of either was lost.
OverwritesShow == VersionsDiffer(changes) => NothingOverwritten(original, changes)
=============================================================================
