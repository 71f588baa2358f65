---------------------------- MODULE RuleCondition ----------------------------
(***************************************************************************)
(* Whether the aggregate of a group of events breaches the condition of a  *)
(* rule: evaluateCondition and what it calls (alert/application/           *)
(* evaluator.go), and validateRule, which decides what conditions there    *)
(* are (rule/application/service.go).                                      *)
(*                                                                         *)
(* Conditions nest to any depth.  Numbers are integers; where the code     *)
(* divides by 100, both sides are multiplied instead.  The message is left *)
(* out.  A behaviour evaluates one rule on one aggregate.                  *)
(***************************************************************************)
EXTENDS Integers, SequencesExt

CONSTANTS
    Absent,       \* a part that a condition does not have, or a result not there yet
    Conditions,   \* the conditions there are, with the parts of each
    Depth(_),     \* how deep a condition nests
    Negation(_),  \* what a condition is turned round
    Inputs        \* the rules and aggregates to evaluate: records [type, cond, agg]

VARIABLES
    input,
    result        \* the outcome: whether the rule matches, and the value it reports

WindowPart == [field : STRING, operator : STRING, value : Int]
PercentPart == [field : STRING, operator : STRING, percent : Int]
ChangePart == [field : STRING, mode : STRING, percent : Int, absolute : Int]

Condition ==
    [field : STRING, operator : STRING, value : Int,
     window : WindowPart \cup {Absent}, percent : PercentPart \cup {Absent},
     change : ChangePart \cup {Absent},
     logic : STRING, children : Seq(Conditions)]

\* The statistics of a group of events, the average always among them.
IsAggregate(agg) == "avg" \in DOMAIN agg /\ \A f \in DOMAIN agg : agg[f] \in Int

Outcome == [ok : BOOLEAN, value : Int]

\* A condition is a finite tree: its parts are conditions, and nest less deep.
ASSUME ConditionAssumption ==
    /\ Absent \notin WindowPart \cup PercentPart \cup ChangePart \cup Outcome
    /\ \A c \in Conditions : c \in Condition /\ Depth(c) \in Nat
    /\ \A c \in Conditions : \A i \in DOMAIN c.children : Depth(c.children[i]) < Depth(c)
    /\ \A x \in Inputs : x.cond \in Conditions /\ IsAggregate(x.agg)

-----------------------------------------------------------------------------
\* A field that is not known is the average.
AggregateValue(field, agg) == IF field \in DOMAIN agg THEN agg[field] ELSE agg.avg

\* (mutant) gte is gt
CompareStrict(op, left, right) ==
    CASE op \in {"gt", ">", "gte", ">="} -> left > right
      [] op \in {"lt", "<"}    -> left < right
      [] op \in {"lte", "<="}  -> left <= right
      [] op \in {"eq", "=="}   -> left = right
      [] op \in {"neq", "!="}  -> left # right
      [] OTHER                 -> FALSE

Compare(op, left, right) ==
    CASE op \in {"gt", ">"}    -> left > right
      [] op \in {"gte", ">="}  -> left >= right
      [] op \in {"lt", "<"}    -> left < right
      [] op \in {"lte", "<="}  -> left <= right
      [] op \in {"eq", "=="}   -> left = right
      [] op \in {"neq", "!="}  -> left # right
      [] OTHER                 -> FALSE

\* The part that is there says how a child is evaluated.
ChildRuleType(c) ==
    IF c.window # Absent THEN "window"
    ELSE IF c.percent # Absent THEN "percent"
    ELSE IF c.change # Absent THEN "change"
    ELSE IF c.children # <<>> THEN "compound"
    ELSE "threshold"

ThresholdCase(c, agg) ==
    LET value == AggregateValue(c.field, agg)
    IN  [ok |-> Compare(c.operator, value, c.value), value |-> value]

WindowCase(c, agg) ==
    LET value == AggregateValue(c.window.field, agg)
    IN  [ok |-> Compare(c.window.operator, value, c.window.value), value |-> value]

\* A value of zero leaves the threshold to the percentage.
PercentCase(c, agg) ==
    LET value == AggregateValue(c.percent.field, agg)
        threshold == IF c.value = 0 THEN c.percent.percent ELSE 100 * c.value
    IN  [ok |-> Compare(c.percent.operator, 100 * value, threshold), value |-> value]

\* The baseline is computed from the value itself.
ChangeCase(c, agg) ==
    LET value == AggregateValue(c.change.field, agg)
        baseline == IF c.change.percent # 0 THEN value * c.change.percent
                    ELSE 100 * c.change.absolute
    IN  [ok |-> Compare(c.change.mode, 100 * value, baseline), value |-> value]

\* (mutant) the value is that of the first child
FirstMatch(outcomes) ==
    LET Ok(o) == o.ok
        i == SelectInSeq(outcomes, Ok)
    IN  IF i = 0 THEN [ok |-> FALSE, value |-> 0] ELSE [outcomes[i] EXCEPT !.value = outcomes[1].value]

\* "or": the first child that matches.
OrOf(outcomes) ==
    LET Ok(o) == o.ok
        i == SelectInSeq(outcomes, Ok)
    IN  IF i = 0 THEN [ok |-> FALSE, value |-> 0] ELSE outcomes[i]

\* Any other logic: all children, and the value of the last.
AndOf(outcomes) ==
    [ok |-> \A i \in DOMAIN outcomes : outcomes[i].ok,
     value |-> IF outcomes = <<>> THEN 0 ELSE Last(outcomes).value]

\* One condition, given what its children come to.
OutcomeOf(type, c, outcomes, agg) ==
    CASE type = "threshold" -> ThresholdCase(c, agg)
      [] type = "window" /\ c.window # Absent   -> WindowCase(c, agg)
      [] type = "percent" /\ c.percent # Absent -> PercentCase(c, agg)
      [] type = "change" /\ c.change # Absent   -> ChangeCase(c, agg)
      [] type = "compound" -> IF c.logic = "or" THEN OrOf(outcomes) ELSE AndOf(outcomes)
      [] OTHER -> [ok |-> FALSE, value |-> 0]

\* Conditions as children, down to those that have none.
ChildOutcome(agg) ==
    LET outcome[c \in Conditions] ==
          OutcomeOf(ChildRuleType(c), c, [i \in DOMAIN c.children |-> outcome[c.children[i]]], agg)
    IN  outcome

EvaluateCondition(type, c, agg) ==
    OutcomeOf(type, c, [i \in DOMAIN c.children |-> ChildOutcome(agg)[c.children[i]]], agg)

\* validateRule.
Accepted(type, c) ==
    CASE type = "threshold" -> c.field # "" /\ c.operator # ""
      [] type = "window"    -> c.window # Absent
      [] type = "percent"   -> c.percent # Absent
      [] type = "change"    -> c.change # Absent
      [] type = "compound"  -> c.children # <<>>
      [] OTHER              -> TRUE

-----------------------------------------------------------------------------
\* A rule that validateRule has accepted, and the aggregate of a group of events.
Given ==
    /\ input \in {x \in Inputs : Accepted(x.type, x.cond)}
    /\ result = Absent

\* EvaluateRule, the part between the query and the alert.
Evaluate ==
    /\ result = Absent
    /\ result' = EvaluateCondition(input.type, input.cond, input.agg)
    /\ UNCHANGED input

Evaluation == Given /\ [][Evaluate]_<<input, result>>

-----------------------------------------------------------------------------
(* Properties. *)

Evaluated == result # Absent

Kinds == {"threshold", "window", "percent", "change", "compound"}

Operators == {"gt", ">", "gte", ">=", "lt", "<", "lte", "<=", "eq", "==", "neq", "!="}

\* So in any instance: the provers do not know that a literal is a string.
ASSUME OperatorAssumption == Operators \subseteq STRING

\* The operator that holds where op does not, if it is one.
Complement(op) ==
    CASE op \in {"gt", ">"}   -> "lte"
      [] op \in {"lte", "<="} -> "gt"
      [] op \in {"lt", "<"}   -> "gte"
      [] op \in {"gte", ">="} -> "lt"
      [] op \in {"eq", "=="}  -> "neq"
      [] op \in {"neq", "!="} -> "eq"
      [] OTHER                -> op

\* A part of a condition with its operator, or its mode, turned round.
WithComplement(part) == IF part = Absent THEN Absent ELSE [part EXCEPT !.operator = Complement(@)]

WithComplementMode(part) == IF part = Absent THEN Absent ELSE [part EXCEPT !.mode = Complement(@)]

\* A condition with its operators and its connective turned round, over children
\* that are.
TurnedRound(c, children) ==
    [c EXCEPT !.operator = Complement(@), !.window = WithComplement(@),
              !.percent = WithComplement(@), !.change = WithComplementMode(@),
              !.logic = IF children = <<>> THEN @ ELSE IF @ = "or" THEN "and" ELSE "or",
              !.children = children]

ASSUME NegationAssumption ==
    \A c \in Conditions :
        /\ Negation(c) \in Conditions
        /\ Negation(c) = TurnedRound(c, [i \in DOMAIN c.children |-> Negation(c.children[i])])

\* The simple conditions of one that is a child, each with the type it is
\* evaluated as.
ChildLeaves[c \in Conditions] ==
    IF ChildRuleType(c) # "compound" THEN {[type |-> ChildRuleType(c), cond |-> c]}
    ELSE UNION {ChildLeaves[c.children[i]] : i \in DOMAIN c.children}

\* Those of a rule.
Leaves(type, c) ==
    IF type # "compound" THEN {[type |-> type, cond |-> c]}
    ELSE UNION {ChildLeaves[c.children[i]] : i \in DOMAIN c.children}

\* The operator by which a simple condition compares.
OperatorOf(d) ==
    CASE d.type = "window"  -> d.cond.window.operator
      [] d.type = "percent" -> d.cond.percent.operator
      [] d.type = "change"  -> d.cond.change.mode
      [] OTHER              -> d.cond.operator

\* Compound conditions are Boolean logic, in whatever order and however early the
\* children are left: a condition matches exactly where its negation does not.
\* Its operators must be known to compare, which validateRule does not ask for.
DeMorgan ==
    /\ Evaluated
    /\ input.type \in Kinds
    /\ \A d \in Leaves(input.type, input.cond) : OperatorOf(d) \in Operators
    => result.ok = ~EvaluateCondition(input.type, Negation(input.cond), input.agg).ok

\* The value an alert shows is one that breaches a simple condition of its rule.
ValueExplainsMatch ==
    Evaluated /\ result.ok =>
        \E d \in Leaves(input.type, input.cond) :
            EvaluateCondition(d.type, d.cond, input.agg) = result
=============================================================================
