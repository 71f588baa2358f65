--------------------------- MODULE MCAlertLifecycle ---------------------------
(* TLC instances of AlertLifecycle. *)
EXTENDS AlertLifecycle, TLC

CONSTANTS a1, e1, e2, e3, r1, r2

MCOneAlert == {a1}
MCEvaluations == {e1, e2, e3}
MCTwoRequests == {r1, r2}
MCSymmetry == Permutations(MCEvaluations) \cup Permutations(MCTwoRequests)
=============================================================================
