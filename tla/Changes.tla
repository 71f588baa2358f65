------------------------------ MODULE Changes ------------------------------
(***************************************************************************)
(* A row that calls read in one statement and write back, changed, in      *)
(* another, counting its version up, while nothing compares the versions.  *)
(* What was made of the row is a sequence of changes, each with the copy   *)
(* it was made of (from) and the row it wrote (to).                        *)
(***************************************************************************)
EXTENDS Integers, Sequences

\* The row that is left when the first i changes were made of `first`.
RowAfter(first, changes, i) == IF i = 0 THEN first ELSE changes[i].to

\* No two changes gave the row the same version.
VersionsDiffer(changes) ==
    \A i, j \in DOMAIN changes : changes[i].to.version = changes[j].to.version => i = j

\* No change was overwritten: each was made of the row that the one before it left.
NothingOverwritten(first, changes) ==
    \A i \in DOMAIN changes : changes[i].from = RowAfter(first, changes, i - 1)
=============================================================================
