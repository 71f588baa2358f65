--------------------------- MODULE MCRuleCondition ---------------------------
(* TLC instances of RuleCondition. *)
EXTENDS RuleCondition

Empty ==
    [field |-> "", operator |-> "", value |-> 0, percent |-> Absent, change |-> Absent,
     window |-> Absent, logic |-> "", children |-> <<>>]

Aggregates == [avg : 0..2, max : 0..2]

Thresholds ==
    {[Empty EXCEPT !.field = f, !.operator = op, !.value = v] :
        f \in {"avg", "max"}, op \in Operators \cup {"like"}, v \in 0..2}

FewThresholds ==
    {[Empty EXCEPT !.field = f, !.operator = op, !.value = 1] :
        f \in {"avg", "max"}, op \in {"gt", "<="}}
    \cup {[Empty EXCEPT !.field = "max", !.operator = op, !.value = 1] : op \in {">=", "eq", "like"}}

Compounds(parts) ==
    {[Empty EXCEPT !.logic = l, !.children = s] : l \in {"or", "and"}, s \in parts \X parts}

\* A compound of a compound and a threshold.
Nested ==
    {[Empty EXCEPT !.logic = l, !.children = <<c, d>>] :
        l \in {"or", "and"}, c \in Compounds(FewThresholds), d \in FewThresholds}

\* A window, a percentage or a change.
Windows ==
    {[Empty EXCEPT !.window = [field |-> f, operator |-> op, value |-> 1]] :
        f \in {"avg", "max"}, op \in Operators}

Percents ==
    {[Empty EXCEPT !.percent = [field |-> f, operator |-> op, percent |-> n], !.value = v] :
        f \in {"avg", "max"}, op \in {"gt", "lte", "eq"}, n \in {0, 100}, v \in 0..1}

Changes ==
    {[Empty EXCEPT !.change = [field |-> "max", mode |-> op, percent |-> n, absolute |-> v]] :
        op \in {"gt", "lte", "eq"}, n \in {0, 50, 100}, v \in 0..1}

FewParts ==
    {[Empty EXCEPT !.window = [field |-> "avg", operator |-> "gte", value |-> 1]],
     [Empty EXCEPT !.percent = [field |-> "max", operator |-> "lt", percent |-> 100]],
     [Empty EXCEPT !.change = [field |-> "max", mode |-> "gt", percent |-> 50, absolute |-> 0]]}

Mixed == Compounds(FewParts \cup FewThresholds) \cup Nested

Trees == Thresholds \cup FewThresholds \cup Windows \cup Percents \cup Changes \cup FewParts \cup Mixed

\* A condition turned round, and how deep it nests: at most twice.
Simple(c) == TurnedRound(c, <<>>)
Shallow(c) == TurnedRound(c, [i \in DOMAIN c.children |-> Simple(c.children[i])])
MCNegation(c) == TurnedRound(c, [i \in DOMAIN c.children |-> Shallow(c.children[i])])

MCDepth(c) ==
    IF c.children = <<>> THEN 0
    ELSE IF \A i \in DOMAIN c.children : c.children[i].children = <<>> THEN 1
    ELSE 2

Once == {MCNegation(c) : c \in Trees}

Closed == Trees \cup Once \cup {MCNegation(c) : c \in Once}

MCConditions == Closed

All ==
    [type : {"threshold"}, cond : Thresholds, agg : Aggregates]
    \cup [type : {"window"}, cond : Windows, agg : Aggregates]
    \cup [type : {"percent"}, cond : Percents, agg : Aggregates]
    \cup [type : {"change"}, cond : Changes, agg : Aggregates]
    \cup [type : {"compound"}, cond : Mixed, agg : Aggregates]
    \cup [type : {"suppress"}, cond : FewThresholds, agg : Aggregates]

MCAll == All
=============================================================================
