----------------------------- MODULE MCSchedules -----------------------------
(* TLC instance of Schedules: time 1 is asked for, and one body hands over at  *)
(* it, from a shift that ends to one that begins.                              *)
EXTENDS Schedules

CONSTANTS c1, c2, c3, s1, ana, ben

MCCalls == {c1, c2, c3}
MCOneSchedule == {s1}

Shift(who, from, to) == [assignee |-> who, starts |-> from, ends |-> to]

HandOver == [enabled |-> TRUE, shifts |-> <<Shift(ana, 0, 1), Shift(ben, 1, 2)>>]
Disabled == [enabled |-> FALSE, shifts |-> <<Shift(ben, 0, 2)>>]

MCBodies == {HandOver, Disabled}
=============================================================================
