----------------------------- MODULE MCIngestion -----------------------------
(* TLC instances of Ingestion. *)
EXTENDS Ingestion, TLC

CONSTANTS c1, c2, e1, e2, e3, e4, e5, k1, k2

MCKeys == {k1, k2}

\* Two batches with both keys, the first with a duplicate.
MCCalls == {c1, c2}
MCEvents == {e1, e2, e3, e4, e5}
MCCallOf == e1 :> c1 @@ e2 :> c1 @@ e3 :> c1 @@ e4 :> c2 @@ e5 :> c2
MCKeyOf == e1 :> k1 @@ e2 :> k1 @@ e3 :> k2 @@ e4 :> k1 @@ e5 :> k2

=============================================================================
