-------------------------------- MODULE AppRun --------------------------------
(***************************************************************************)
(* The process: main and App.Run (internal/bootstrap/app.go), from the     *)
(* configuration to the exit, and systemd, which starts it again unless it *)
(* ended well or was told to end.                                          *)
(*                                                                         *)
(* Run connects to the database, applies the migrations, listens, and only *)
(* then asks for signals.  Goroutines serve HTTP and gRPC and run the      *)
(* workers; a select waits for a signal or for a failed server; then the   *)
(* HTTP server is shut down with a timeout, the gRPC server is stopped     *)
(* once its calls are over, the goroutines are waited for, and Run returns *)
(* when the pool has got its connections back.                             *)
(*                                                                         *)
(* Other replicas run the same code on the same database.  Only their      *)
(* migrations matter here.                                                 *)
(***************************************************************************)
EXTENDS Configuration, FiniteSets

CONSTANTS
    Files, Envs,  \* what the configuration file and the environment may say
    NumFiles,     \* of the migrations, in the order of their names
    Others,       \* other replicas
    MaxCalls,     \* bound on the calls a server handles at once
    MaxFaults     \* bound on faults: the database, a port, a crash

Servers == {"http", "grpc"}
Workers == {"scheduler", "notifier", "queue"}
Migrations == 1..NumFiles

ASSUME AppRunAssumption ==
    NumFiles \in Nat /\ MaxCalls \in Nat /\ MaxFaults \in Nat

VARIABLES
    cfg,          \* what Load makes of the file and the environment
    main,         \* where Run is
    file,         \* the migration Run is at
    fresh,        \* it found objects of that migration missing
    schema,       \* migrations that are applied
    rival,        \* the migration another replica is at, 0 if none
    cancelled,    \* a signal has cancelled the context
    server,       \* the goroutine of a server
    calls,        \* calls a server is handling
    held,         \* connections that HTTP calls hold
    worker,       \* the goroutine of a worker
    errCh,        \* errors in the channel
    timedOut,     \* Shutdown gave up waiting for calls
    pool,         \* the pool of connections
    faults

startVars == <<file, fresh, schema, rival>>
upVars == <<server, calls, held, worker, errCh, timedOut>>
vars == <<cfg, main, startVars, cancelled, upVars, pool, faults>>

None(things) == [t \in things |-> "none"]

Init ==
    /\ cfg \in {Load(f, e) : f \in Files, e \in Envs}
    /\ main = "load"
    /\ file = 1 /\ fresh = FALSE
    /\ schema \in {1..n : n \in 0..NumFiles}
    /\ rival = [o \in Others |-> 0]
    /\ cancelled = FALSE
    /\ server = None(Servers) /\ worker = None(Workers)
    /\ calls = [s \in Servers |-> 0] /\ held = 0
    /\ errCh = 0 /\ timedOut = FALSE
    /\ pool = "none"
    /\ faults = 0

Fault == faults < MaxFaults /\ faults' = faults + 1

\* The goroutines are gone with the process, and so are its connections.
Exit(how) ==
    /\ main' = how
    /\ file' = 1 /\ fresh' = FALSE
    /\ server' = None(Servers) /\ worker' = None(Workers)
    /\ calls' = [s \in Servers |-> 0] /\ held' = 0
    /\ errCh' = 0 /\ timedOut' = FALSE
    /\ pool' = "none"

\* What is past the start; the signal handler is there until the closing.
Up == {"select", "http", "grpc", "wait", "closing"}
Starting == {"load", "connect", "migrate", "applying", "listen"}
Ended == {"returned", "killed"}

-----------------------------------------------------------------------------
(* The start. *)

\* Load, and what Run needs before it can ping the database.
LoadConfig ==
    /\ main = "load"
    /\ IF cfg # Refused /\ cfg["maxConns"] > 0
       THEN main' = "connect" /\ UNCHANGED <<startVars, upVars, pool>>
       ELSE Exit("failed") /\ UNCHANGED <<schema, rival>>
    /\ UNCHANGED <<cfg, cancelled, faults>>

\* The ping fails, and the pool is closed again.
ConnectDB ==
    /\ main = "connect"
    /\ \/ /\ pool' = "open"
          /\ main' = IF cfg["autoMigrate"] THEN "migrate" ELSE "listen"
          /\ UNCHANGED <<startVars, upVars, faults>>
       \/ Fault /\ Exit("failed") /\ UNCHANGED <<schema, rival>>
    /\ UNCHANGED <<cfg, cancelled>>

\* The next file, in one implicit transaction; Run has read the directory.
ApplyMigration ==
    /\ main = "migrate"
    /\ IF file \in Migrations
       THEN main' = "applying" /\ fresh' = (file \notin schema)
       ELSE main' = "listen" /\ UNCHANGED fresh
    /\ UNCHANGED <<cfg, file, schema, rival, cancelled, upVars, pool, faults>>

\* (mutant) the statements do not say IF NOT EXISTS
MigrationMadeOnce ==
    /\ main = "applying"
    /\ \/ /\ file \notin schema
          /\ schema' = schema \cup {file}
          /\ file' = file + 1
          /\ main' = "migrate"
          /\ UNCHANGED <<fresh, upVars, pool, faults>>
       \/ /\ Fault \/ (file \in schema /\ UNCHANGED faults)
          /\ schema' \in {schema, schema \cup {file}}
          /\ Exit("failed")
    /\ UNCHANGED <<cfg, rival, cancelled>>

\* (mutant) an error of a migration is only logged
MigrationUnchecked ==
    /\ main = "applying"
    /\ \/ schema' = schema \cup {file} /\ UNCHANGED faults
       \/ Fault /\ UNCHANGED schema
    /\ file' = file + 1
    /\ main' = "migrate"
    /\ UNCHANGED <<cfg, fresh, rival, cancelled, upVars, pool>>

\* IF NOT EXISTS makes a migration that is there already succeed.  One that found
\* an object missing which another replica has made by now may fail with a unique
\* violation; any may fail, in effect or not, and be the victim of a deadlock with
\* replicas that are serving.
MigrationEnds ==
    /\ main = "applying"
    /\ \/ /\ schema' = schema \cup {file}
          /\ file' = file + 1
          /\ main' = "migrate"
          /\ UNCHANGED <<fresh, upVars, pool, faults>>
       \/ /\ \/ fresh /\ file \in schema /\ UNCHANGED <<schema, faults>>
             \/ Fault /\ schema' \in {schema, schema \cup {file}}
          /\ Exit("failed")
    /\ UNCHANGED <<cfg, rival, cancelled>>

\* The interval of the ticker a worker makes.
Interval(w) == CASE w = "scheduler" -> cfg["interval"] [] w = "notifier" -> cfg["pollInterval"] [] OTHER -> 1

Enabled(w) == IF w = "scheduler" THEN cfg["evaluator"] ELSE cfg["notification"]

\* The gRPC server listens, the signal handler is installed, and the goroutines
\* start; with the port taken Run returns an error.
Listen ==
    /\ main = "listen"
    /\ \/ /\ main' = "select"
          /\ server' = [s \in Servers |-> "serving"]
          /\ worker' = [w \in Workers |-> IF Enabled(w) THEN "waiting" ELSE "none"]
          /\ UNCHANGED <<startVars, calls, held, errCh, timedOut, pool, faults>>
       \/ Fault /\ Exit("failed") /\ UNCHANGED <<schema, rival>>
    /\ UNCHANGED <<cfg, cancelled>>

\* systemd, with Restart=on-failure.
Restart ==
    /\ main = "failed"
    /\ main' = "load"
    /\ UNCHANGED <<cfg, startVars, cancelled, upVars, pool, faults>>

-----------------------------------------------------------------------------
(* Other replicas, that apply the migrations in the same order. *)

RivalBegins(o, f) ==
    /\ rival[o] = 0
    /\ \A g \in Migrations : g < f => g \in schema
    /\ f \notin schema
    /\ rival' = [rival EXCEPT ![o] = f]
    /\ UNCHANGED <<cfg, main, file, fresh, schema, cancelled, upVars, pool, faults>>

RivalEnds(o) ==
    /\ rival[o] # 0
    /\ schema' \in {schema, schema \cup {rival[o]}}
    /\ rival' = [rival EXCEPT ![o] = 0]
    /\ UNCHANGED <<cfg, main, file, fresh, cancelled, upVars, pool, faults>>

-----------------------------------------------------------------------------
(* Servers and workers. *)

CallArrives(s) ==
    /\ server[s] = "serving"
    /\ calls[s] < MaxCalls
    /\ calls' = [calls EXCEPT ![s] = @ + 1]
    /\ UNCHANGED <<cfg, main, startVars, cancelled, server, held, worker, errCh, timedOut, pool, faults>>

\* A call is over when it has given its connection back.
CallEnds(s) ==
    /\ calls[s] > 0
    /\ s = "http" => held < calls[s]
    /\ calls' = [calls EXCEPT ![s] = @ - 1]
    /\ UNCHANGED <<cfg, main, startVars, cancelled, server, held, worker, errCh, timedOut, pool, faults>>

\* A pool that is being closed refuses.
Acquire ==
    /\ pool = "open"
    /\ held < calls["http"]
    /\ held' = held + 1
    /\ UNCHANGED <<cfg, main, startVars, cancelled, server, calls, worker, errCh, timedOut, pool, faults>>

Release ==
    /\ held > 0
    /\ held' = held - 1
    /\ UNCHANGED <<cfg, main, startVars, cancelled, server, calls, worker, errCh, timedOut, pool, faults>>

\* Start returns an error: the port is taken, or the listener breaks.
ServerFails(s) ==
    /\ server[s] = "serving"
    /\ server' = [server EXCEPT ![s] = "failed"]
    /\ errCh' = errCh + 1
    /\ UNCHANGED <<cfg, main, startVars, cancelled, calls, held, worker, timedOut, pool, faults>>

Tick(w) ==
    /\ worker[w] = "waiting"
    /\ worker' = [worker EXCEPT ![w] = "working"]
    /\ UNCHANGED <<cfg, main, startVars, cancelled, server, calls, held, errCh, timedOut, pool, faults>>

BatchEnds(w) ==
    /\ worker[w] = "working"
    /\ worker' = [worker EXCEPT ![w] = "waiting"]
    /\ UNCHANGED <<cfg, main, startVars, cancelled, server, calls, held, errCh, timedOut, pool, faults>>

\* (mutant) the scheduler does not look at the context
LeaveUnlessScheduler(w) ==
    /\ worker[w] = "waiting"
    /\ cancelled /\ w # "scheduler"
    /\ worker' = [worker EXCEPT ![w] = "gone"]
    /\ UNCHANGED <<cfg, main, startVars, cancelled, server, calls, held, errCh, timedOut, pool, faults>>

Leave(w) ==
    /\ worker[w] = "waiting"
    /\ cancelled
    /\ worker' = [worker EXCEPT ![w] = "gone"]
    /\ UNCHANGED <<cfg, main, startVars, cancelled, server, calls, held, errCh, timedOut, pool, faults>>

-----------------------------------------------------------------------------
(* The end. *)

\* SIGINT or SIGTERM, and systemd is told not to start the process again; the next
\* one finds the context cancelled.
Signal ==
    /\ main \in Up \ {"closing"}
    /\ cancelled' = TRUE
    /\ UNCHANGED <<cfg, main, startVars, upVars, pool, faults>>

\* A signal that comes when there is no handler, not yet or, with the pool closing,
\* not any more; a transaction that was sent may still be committed.
SignalKills ==
    /\ main \in Starting \cup {"failed", "closing"}
    /\ schema' \in IF main = "applying" THEN {schema, schema \cup {file}} ELSE {schema}
    /\ Exit("killed")
    /\ UNCHANGED <<cfg, rival, cancelled, faults>>

\* The process dies: a panic, SIGKILL, no memory.
Crash ==
    /\ main \in Starting \cup Up
    /\ Fault
    /\ schema' \in IF main = "applying" THEN {schema, schema \cup {file}} ELSE {schema}
    /\ Exit(IF cancelled THEN "killed" ELSE "failed")
    /\ UNCHANGED <<cfg, rival, cancelled>>

\* A server that is told to stop takes no more calls; its Start returns nil.
StopServer(s) == server' = [server EXCEPT ![s] = IF @ = "serving" THEN "stopped" ELSE @]

\* The select; then Shutdown closes the listeners of the HTTP server.
Select ==
    /\ main = "select"
    /\ \/ cancelled /\ UNCHANGED errCh
       \/ errCh > 0 /\ errCh' = errCh - 1
    /\ StopServer("http")
    /\ main' = "http"
    /\ UNCHANGED <<cfg, startVars, cancelled, calls, held, worker, timedOut, pool, faults>>

\* Shutdown returns; then GracefulStop closes the listener of the gRPC server.
HttpShutdown ==
    /\ main = "http"
    /\ \/ calls["http"] = 0 /\ UNCHANGED timedOut
       \/ calls["http"] > 0 /\ timedOut' = TRUE
    /\ StopServer("grpc")
    /\ main' = "grpc"
    /\ UNCHANGED <<cfg, startVars, cancelled, calls, held, worker, errCh, pool, faults>>

GrpcStop ==
    /\ main = "grpc"
    /\ calls["grpc"] = 0
    /\ main' = "wait"
    /\ UNCHANGED <<cfg, startVars, cancelled, upVars, pool, faults>>

\* (mutant) the workers are not in the WaitGroup
ServersGone == \A s \in Servers : server[s] # "serving"

\* Every goroutine of the WaitGroup is done.
AllGone ==
    /\ \A s \in Servers : server[s] # "serving"
    /\ \A w \in Workers : worker[w] \in {"none", "gone"}

\* wg.Wait is over; the deferred calls remove the signal handler, and Close of the
\* pool begins.
Return ==
    /\ main = "wait"
    /\ AllGone
    /\ main' = "closing"
    /\ pool' = "closing"
    /\ UNCHANGED <<cfg, startVars, cancelled, upVars, faults>>

\* Close has all connections back; the process ends, and HTTP calls with it.
Closed ==
    /\ main = "closing"
    /\ held = 0
    /\ Exit("returned")
    /\ UNCHANGED <<cfg, schema, rival, cancelled, faults>>

-----------------------------------------------------------------------------
MainStep ==
    \/ LoadConfig \/ ConnectDB \/ ApplyMigration \/ MigrationEnds \/ Listen \/ Restart
    \/ Select \/ HttpShutdown \/ GrpcStop \/ Return \/ Closed

Next ==
    \/ MainStep \/ Signal \/ SignalKills \/ Crash \/ Acquire \/ Release
    \/ \E s \in Servers : CallArrives(s) \/ CallEnds(s) \/ ServerFails(s)
    \/ \E w \in Workers : Tick(w) \/ BatchEnds(w) \/ Leave(w)
    \/ \E o \in Others : RivalEnds(o) \/ \E f \in Migrations : RivalBegins(o, f)

Spec == Init /\ [][Next]_vars

\* Calls of gRPC end, connections are given back, batches end.  A select that finds
\* a tick and the cancelled context chooses at random, so that a worker does not take
\* the tick for ever.  systemd starts a failed process again.  An HTTP call may hang.
FairSpec ==
    /\ Spec
    /\ WF_vars(MainStep) /\ WF_vars(Release) /\ WF_vars(CallEnds("grpc"))
    /\ \A w \in Workers : WF_vars(BatchEnds(w)) /\ SF_vars(Leave(w))

-----------------------------------------------------------------------------
(* Properties. *)

\* The type of the state.
TypeOK ==
    /\ schema \subseteq Migrations
    /\ rival \in [Others -> 0..NumFiles]
    /\ server \in [Servers -> {"none", "serving", "failed", "stopped"}]
    /\ calls \in [Servers -> Nat]
    /\ held \in 0..calls["http"]
    /\ worker \in [Workers -> {"none", "waiting", "working", "gone"}]

\* While the process ends, the pool of connections outlives everyone who uses it, but
\* for the HTTP calls that Shutdown gave up on.
PoolOutlivesUsers ==
    pool = "closing" => /\ \A w \in Workers : worker[w] \in {"none", "gone"}
                        /\ calls["grpc"] = 0
                        /\ calls["http"] = 0 \/ timedOut

\* The process serves nobody and works on nothing before all migrations are applied,
\* and makes no ticker that panics, whatever it was configured with.
UpIsSound ==
    main \in Up => /\ cfg["autoMigrate"] => schema = Migrations
                   /\ \A w \in Workers : worker[w] # "none" => Interval(w) > 0

\* A signal ends the process: graceful shutdown comes to an end.
SignalEnds == cancelled ~> main \in Ended

\* With a configuration it can run on, a process gets to serve although migrations
\* clash and the database fails, unless it is told to end.
GetsToServe ==
    (main = "load" /\ cfg # Refused /\ cfg["maxConns"] > 0) ~> main \in Up \cup Ended
=============================================================================
