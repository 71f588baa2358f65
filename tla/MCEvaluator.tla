----------------------------- MODULE MCEvaluator -----------------------------
(* TLC instances of Evaluator. *)
EXTENDS Evaluator

CONSTANTS r1, r2, k1, k2, on, sc, ch1, ch2, w1, s1

MCNone == {}
MCTwoRules == {r1, r2}
MCSecondRule == {r2}
MCTwoChannels == {ch1, ch2}
MCOneRunner == {w1}
MCOneId == {s1}
MCOneScope == {sc}
MCTwoKeys == {k1, k2}
MCOneValue == {on}

\* One group, that has one label of two.
MCOneGroup == {[k \in MCTwoKeys |-> IF k = k1 THEN on ELSE None]}

MCScopeOf == [a \in MCTwoRules \X MCOneGroup |-> sc]

MCBody(rule, matchers, starts, ends, active) ==
    [rule |-> rule, scope |-> Every, matchers |-> matchers, starts |-> starts, ends |-> ends,
     active |-> active]

\* One for a rule with a label, one for every alert with a start of its own, and
\* one that Create must refuse and that as an edit lifts the silence.
MCBodies ==
    LET labelled == [k \in MCTwoKeys |-> IF k = k1 THEN on ELSE None]
        anything == [k \in MCTwoKeys |-> None]
    IN  {MCBody(r1, labelled, 0, 3, TRUE), MCBody(Every, anything, 1, 3, TRUE),
         MCBody(Every, anything, 0, 1, FALSE)}
=============================================================================
