---------------------------- MODULE Configuration ----------------------------
(***************************************************************************)
(* config.Load (internal/config/config.go): the defaults, over them the    *)
(* file, over that the environment; then Validate.  Of the settings there  *)
(* are those that decide how the service starts; of a duration or a number *)
(* only the sign counts.                                                   *)
(***************************************************************************)
EXTENDS Integers

CONSTANTS
    Absent,       \* a setting the file or the environment leaves out
    Junk,         \* text that cannot be parsed, or is blank
    Refused       \* no configuration: Load returns an error

Flags == {"evaluator", "notification", "autoMigrate"}
Numbers == {"interval", "pollInterval", "maxConns"}
Settings == Flags \cup Numbers

Default == [s \in Settings |-> IF s \in Flags THEN TRUE ELSE 1]

\* envBool, envInt and envDuration: what cannot be parsed is as if it were absent.
Env(given, fallback) == IF given \in {Absent, Junk} THEN fallback ELSE given

\* yaml.Unmarshal over the defaults.
Unmarshal(given, fallback) == IF given = Absent THEN fallback ELSE given

\* (mutant) an interval of zero passes
ValidateSign(c) ==
    /\ c["evaluator"] => c["interval"] >= 0
    /\ c["notification"] => c["pollInterval"] > 0

Validate(c) ==
    /\ c["evaluator"] => c["interval"] > 0
    /\ c["notification"] => c["pollInterval"] > 0

Load(file, env) ==
    LET c == [s \in Settings |-> Env(env[s], Unmarshal(file[s], Default[s]))]
    IN  IF (\A s \in Settings : file[s] # Junk) /\ Validate(c) THEN c ELSE Refused
=============================================================================
