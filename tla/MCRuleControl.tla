---------------------------- MODULE MCRuleControl ----------------------------
(* TLC instances of RuleControl. *)
EXTENDS RuleControl, TLC

CONSTANTS q1, q2, q3, q4

MCFour == {q1, q2, q3, q4}

\* A request with any mode, one that nothing knows, or none.
MCAnyMode == Modes \cup {"unknown", NoMode}

\* A rule that comes with a version of its own, or none.
MCVersions == {0, 3}

MCSymmetry == Permutations(MCFour)
=============================================================================
