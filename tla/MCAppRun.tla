------------------------------- MODULE MCAppRun -------------------------------
(* TLC instances of AppRun. *)
EXTENDS AppRun, TLC

CONSTANTS o1

MCOthers == {o1}

MCNothing == [s \in Settings |-> Absent]

\* A file that says nothing, one with an interval of zero, one that cannot be read.
MCFiles ==
    {MCNothing, [MCNothing EXCEPT !["interval"] = 0], [MCNothing EXCEPT !["interval"] = Junk]}

\* An environment that says nothing, that disables what the file gets wrong, that
\* mistypes it, and that leaves the notifications or the migrations out.
MCEnvs ==
    {MCNothing,
     [MCNothing EXCEPT !["evaluator"] = FALSE],
     [MCNothing EXCEPT !["interval"] = Junk, !["notification"] = FALSE, !["pollInterval"] = -1],
     [MCNothing EXCEPT !["interval"] = 1, !["autoMigrate"] = FALSE, !["maxConns"] = 0]}
=============================================================================
