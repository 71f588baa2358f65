---------------------------- MODULE AppRunProofs ----------------------------
(***************************************************************************)
(* Proofs about AppRun, for any files and environments, any number of      *)
(* migrations, replicas, calls and faults.                                 *)
(***************************************************************************)
EXTENDS AppRun, TLAPS

\* A process that is past Load has a configuration that Validate accepts.
Configured ==
    /\ cfg # Refused => Validate(cfg)
    /\ main \in {"connect", "migrate", "applying", "listen"} \cup Up => cfg # Refused

\* The migrations are applied in their order, and none is skipped.
Migrated ==
    /\ main \in {"load", "connect", "failed"} => file = 1
    /\ main \in {"migrate", "applying"} => file \in 1..(NumFiles + 1) /\ 1..(file - 1) \subseteq schema
    /\ main = "applying" => file \in Migrations
    /\ main \in {"listen"} \cup Up => (cfg["autoMigrate"] => schema = Migrations)

\* There are goroutines only in a process that is up, and those the configuration asks for.
Lively ==
    /\ main \notin Up => /\ worker = None(Workers) /\ server = None(Servers)
                          /\ calls = [s \in Servers |-> 0]
    /\ \A w \in Workers : worker[w] # "none" => Enabled(w)

\* What the shutdown has done so far stays done.
Stopping ==
    /\ main \in {"http", "grpc", "wait", "closing"} => server["http"] # "serving"
    /\ main \in {"grpc", "wait", "closing"} =>
         server["grpc"] # "serving" /\ (calls["http"] = 0 \/ timedOut)
    /\ main \in {"wait", "closing"} => calls["grpc"] = 0
    /\ main = "closing" => AllGone
    /\ pool = "closing" => main = "closing"

\* What every step keeps.
IInv == TypeOK /\ Configured /\ Migrated /\ Lively /\ Stopping

-----------------------------------------------------------------------------
\* What Load returns is refused or valid.
LEMMA LoadValidates ==
    ASSUME NEW f, NEW e, Load(f, e) # Refused
    PROVE  Validate(Load(f, e))
  BY DEF Load

\* A process that has not started.
LEMMA InitHolds == Init => IInv
  <1> SUFFICES ASSUME Init PROVE IInv
    OBVIOUS
  <1>1. schema \subseteq Migrations
    BY AppRunAssumption DEF Init, Migrations
  <1>2. TypeOK
    BY <1>1, AppRunAssumption DEF Init, TypeOK, None, Servers, Workers
  <1>3. Configured
    BY LoadValidates DEF Init, Configured, Up
  <1>4. Migrated
    BY DEF Init, Migrated, Up
  <1>5. Lively /\ Stopping
    BY DEF Init, Lively, Stopping, Up, None, Servers, Workers
  <1>q. QED BY <1>2, <1>3, <1>4, <1>5 DEF IInv

\* A process that is gone leaves nothing but the migrations.
LEMMA ExitKeeps ==
    ASSUME IInv, NEW how \in Ended \cup {"failed"}, Exit(how),
           schema' \subseteq Migrations, UNCHANGED <<cfg, rival>>
    PROVE  IInv'
  <1>1. how \notin Up \cup Starting
    BY DEF Ended, Up, Starting
  <1>2. TypeOK'
    BY DEF IInv, TypeOK, Exit, None, Servers, Workers
  <1>3. Configured' /\ Migrated'
    BY <1>1 DEF IInv, Configured, Validate, Migrated, Exit, Up, Starting
  <1>4. Lively' /\ Stopping'
    BY <1>1 DEF Lively, Stopping, Exit, Up, Starting, None, Workers, Servers
  <1>q. QED BY <1>2, <1>3, <1>4 DEF IInv

\* A step of the start that goes on.
LEMMA StartKeeps ==
    ASSUME IInv, UNCHANGED <<cfg, rival, upVars>>, pool' # "closing",
           main \in Starting \cup {"failed"}, main' \in Starting,
           schema' \subseteq Migrations, Migrated',
           main' # "load" => cfg # Refused
    PROVE  IInv'
  <1>1. main \notin Up /\ main' \notin Up
    BY DEF Starting, Up
  <1>2. TypeOK' /\ Configured' /\ Lively' /\ Stopping'
    BY <1>1 DEF IInv, TypeOK, Configured, Validate, Lively, Stopping, Up, upVars, Starting, None, Enabled, AllGone
  <1>q. QED BY <1>2 DEF IInv

\* The steps of the start, and the restart.
LEMMA StartSteps ==
    ASSUME IInv, LoadConfig \/ ConnectDB \/ ApplyMigration \/ MigrationEnds \/ Restart
    PROVE  IInv'
  <1>1. schema \subseteq Migrations /\ UNCHANGED <<cfg, rival>>
    BY DEF IInv, TypeOK, LoadConfig, ConnectDB, ApplyMigration, MigrationEnds, Restart, startVars
  <1>2. CASE \E how \in Ended \cup {"failed"} : Exit(how)
    <2>1. schema' \subseteq Migrations
      <3>1. main = "applying" => file \in Migrations
        BY DEF IInv, Migrated
      <3>q. QED BY <1>1, <3>1 DEF LoadConfig, ConnectDB, ApplyMigration, MigrationEnds, Restart, startVars
    <2>q. QED BY <1>1, <1>2, <2>1, ExitKeeps
  <1>3. CASE LoadConfig /\ ~Exit("failed")
    <2>1. Migrated'
      BY <1>3 DEF LoadConfig, IInv, Migrated, startVars, Up
    <2>2. pool' # "closing"
      BY <1>3 DEF LoadConfig, IInv, Stopping
    <2>q. QED BY <1>1, <1>3, <2>1, <2>2, StartKeeps DEF LoadConfig, Starting, startVars
  <1>4. CASE ConnectDB /\ ~Exit("failed")
    <2>1. main = "connect" /\ pool' = "open" /\ UNCHANGED <<startVars, upVars>>
          /\ main' = IF cfg["autoMigrate"] THEN "migrate" ELSE "listen"
      BY <1>4 DEF ConnectDB
    <2>2. cfg # Refused /\ file = 1 /\ NumFiles \in Nat
      BY <2>1, AppRunAssumption DEF IInv, Configured, Migrated
    <2>3. Migrated'
      BY <1>1, <2>1, <2>2 DEF Migrated, startVars, Up
    <2>q. QED BY <1>1, <2>1, <2>2, <2>3, StartKeeps DEF Starting, startVars
  <1>5. CASE ApplyMigration
    <2>1. main = "migrate" /\ UNCHANGED <<file, schema, upVars, pool>>
      BY <1>5 DEF ApplyMigration
    <2>2. cfg # Refused /\ file \in 1..(NumFiles + 1) /\ 1..(file - 1) \subseteq schema /\ pool # "closing"
      BY <2>1 DEF IInv, Configured, Migrated, Stopping
    <2>3. CASE file \in Migrations
      <3>1. main' = "applying"
        BY <1>5, <2>3 DEF ApplyMigration
      <3>2. Migrated'
        BY <2>1, <2>2, <2>3, <3>1 DEF Migrated, Up
      <3>q. QED BY <1>1, <2>1, <2>2, <3>1, <3>2, StartKeeps DEF Starting
    <2>4. CASE file \notin Migrations
      <3>1. main' = "listen"
        BY <1>5, <2>4 DEF ApplyMigration
      <3>5. file = NumFiles + 1
        BY <2>2, <2>4, AppRunAssumption DEF Migrations
      <3>6. file - 1 = NumFiles
        BY <3>5, AppRunAssumption
      <3>4. schema = Migrations
        BY <1>1, <2>2, <3>6 DEF Migrations
      <3>3. Migrated'
        BY <2>1, <3>1, <3>4 DEF Migrated, Up, Migrations
      <3>q. QED BY <1>1, <2>1, <2>2, <3>1, <3>3, StartKeeps DEF Starting
    <2>q. QED BY <2>3, <2>4
  <1>6. CASE MigrationEnds /\ ~Exit("failed")
    <2>1. /\ main = "applying" /\ main' = "migrate"
          /\ schema' = schema \cup {file} /\ file' = file + 1 /\ UNCHANGED <<upVars, pool>>
      BY <1>6 DEF MigrationEnds
    <2>2. cfg # Refused /\ file \in 1..NumFiles /\ 1..(file - 1) \subseteq schema /\ pool # "closing"
      BY <2>1 DEF IInv, Configured, Migrated, Stopping, Migrations
    <2>3. file' \in 1..(NumFiles + 1) /\ 1..(file' - 1) \subseteq schema' /\ schema' \subseteq Migrations
      BY <1>1, <2>1, <2>2, AppRunAssumption DEF Migrations
    <2>4. Migrated'
      BY <2>1, <2>3 DEF Migrated, Up
    <2>q. QED BY <1>1, <2>1, <2>2, <2>3, <2>4, StartKeeps DEF Starting
  <1>7. CASE Restart
    <2>1. main = "failed" /\ main' = "load" /\ UNCHANGED <<schema, upVars, pool, file>>
      BY <1>7 DEF Restart, startVars
    <2>2. pool # "closing" /\ file = 1
      BY <2>1 DEF IInv, Stopping, Migrated
    <2>3. Migrated'
      BY <2>1, <2>2 DEF Migrated, Up
    <2>q. QED BY <1>1, <2>1, <2>2, <2>3, StartKeeps DEF Starting
  <1>8. \A x \in {"failed"} : Exit(x) => \E how \in Ended \cup {"failed"} : Exit(how)
    OBVIOUS
  <1>q. QED BY <1>2, <1>3, <1>4, <1>5, <1>6, <1>7, <1>8

\* What the process may change while it is up, but for the shutdown's own steps.
LEMMA RunsOn ==
    ASSUME IInv, UNCHANGED <<cfg, main, file, rival, schema, pool, timedOut>>, TypeOK',
           main \in Up,
           \A s \in Servers : server'[s] = "serving" => server[s] = "serving",
           \A s \in Servers : server[s] # "serving" => calls'[s] <= calls[s],
           \A w \in Workers : worker'[w] # "none" => worker[w] # "none",
           \A w \in Workers : worker[w] \in {"none", "gone"} => worker'[w] = worker[w]
    PROVE  IInv'
  <1>1. Configured' /\ Migrated'
    BY DEF IInv, Configured, Validate, Migrated
  <1>2. Lively'
    BY DEF IInv, Lively, Enabled
  <1>3. \A s \in Servers : calls[s] \in Nat /\ calls'[s] \in Nat
    BY DEF IInv, TypeOK
  <1>4. \A s \in Servers : server[s] # "serving" /\ calls[s] = 0 => calls'[s] = 0
    BY <1>3
  <1>5. Stopping'
    BY <1>4 DEF IInv, Stopping, AllGone, Servers
  <1>q. QED BY <1>1, <1>2, <1>5 DEF IInv

\* What servers, calls and workers do.
LEMMA UpSteps ==
    ASSUME IInv,
           \/ Acquire \/ Release
           \/ \E s \in Servers : CallArrives(s) \/ CallEnds(s) \/ ServerFails(s)
           \/ \E w \in Workers : Tick(w) \/ BatchEnds(w) \/ Leave(w)
    PROVE  IInv'
  <1>1. calls \in [Servers -> Nat] /\ held \in 0..calls["http"] /\ "http" \in Servers
    BY DEF IInv, TypeOK, Servers
  <1>2. UNCHANGED <<cfg, main, file, rival, schema, timedOut, pool>>
    BY DEF Acquire, Release, CallArrives, CallEnds, ServerFails, Tick, BatchEnds, Leave, startVars
  <1>3. main \in Up
    <2>1. main \notin Up => calls["http"] = 0 /\ (\A s \in Servers : calls[s] = 0 /\ server[s] = "none")
                             /\ (\A w \in Workers : worker[w] = "none")
      BY <1>1 DEF IInv, Lively, None
    <2>q. QED BY <1>1, <2>1 DEF Acquire, Release, CallArrives, CallEnds, ServerFails, Tick, BatchEnds, Leave
  <1>4. CASE Acquire \/ Release
    <2>1. held' \in 0..calls["http"] /\ UNCHANGED <<server, calls, worker>>
      BY <1>1, <1>4 DEF Acquire, Release
    <2>2. TypeOK'
      BY <1>2, <2>1 DEF IInv, TypeOK
    <2>q. QED BY <1>1, <1>2, <1>3, <2>1, <2>2, RunsOn
  <1>5. CASE \E s \in Servers : CallArrives(s) \/ CallEnds(s)
    <2>1. PICK s \in Servers : CallArrives(s) \/ CallEnds(s)
      BY <1>5
    <2>2. UNCHANGED <<server, held, worker>>
      BY <2>1 DEF CallArrives, CallEnds
    <2>3. calls' \in [Servers -> Nat] /\ held' \in 0..calls'["http"]
      BY <1>1, <2>1, <2>2 DEF CallArrives, CallEnds
    <2>4. TypeOK'
      BY <1>2, <2>2, <2>3 DEF IInv, TypeOK
    <2>5. \A t \in Servers : server[t] # "serving" => calls'[t] <= calls[t]
      BY <1>1, <2>1 DEF CallArrives, CallEnds
    <2>q. QED BY <1>2, <1>3, <2>2, <2>4, <2>5, RunsOn
  <1>6. CASE \E s \in Servers : ServerFails(s)
    <2>1. PICK s \in Servers : ServerFails(s)
      BY <1>6
    <2>2. TypeOK' /\ UNCHANGED <<calls, worker>> /\ server \in [Servers -> {"none", "serving", "failed", "stopped"}]
      BY <1>2, <2>1 DEF IInv, TypeOK, ServerFails
    <2>3. \A t \in Servers : server'[t] = "serving" => server[t] = "serving"
      BY <2>1, <2>2 DEF ServerFails
    <2>4. \A t \in Servers : calls'[t] <= calls[t]
      BY <1>1, <2>2
    <2>q. QED BY <1>2, <1>3, <2>2, <2>3, <2>4, RunsOn
  <1>7. CASE \E w \in Workers : Tick(w) \/ BatchEnds(w) \/ Leave(w)
    <2>1. PICK w \in Workers : Tick(w) \/ BatchEnds(w) \/ Leave(w)
      BY <1>7
    <2>2. TypeOK' /\ UNCHANGED <<calls, server>> /\ worker \in [Workers -> {"none", "waiting", "working", "gone"}]
      BY <1>2, <2>1 DEF IInv, TypeOK, Tick, BatchEnds, Leave
    <2>3. \A v \in Workers : /\ worker'[v] # "none" => worker[v] # "none"
                             /\ worker[v] \in {"none", "gone"} => worker'[v] = worker[v]
      BY <2>1, <2>2 DEF Tick, BatchEnds, Leave
    <2>4. \A t \in Servers : calls'[t] <= calls[t]
      BY <1>1, <2>2
    <2>q. QED BY <1>2, <1>3, <2>2, <2>3, <2>4, RunsOn
  <1>q. QED BY <1>4, <1>5, <1>6, <1>7

\* The goroutines start when everything is migrated.
LEMMA ListenKeeps == IInv /\ Listen => IInv'
  <1> SUFFICES ASSUME IInv, Listen PROVE IInv'
    OBVIOUS
  <1>1. CASE Exit("failed") /\ UNCHANGED <<schema, rival>>
    BY <1>1, ExitKeeps DEF Listen, IInv, TypeOK
  <1>2. CASE ~(Exit("failed") /\ UNCHANGED <<schema, rival>>)
    <2>1. /\ main = "listen" /\ main' = "select"
          /\ server' = [s \in Servers |-> "serving"]
          /\ worker' = [w \in Workers |-> IF Enabled(w) THEN "waiting" ELSE "none"]
          /\ UNCHANGED <<cfg, file, fresh, schema, rival, calls, held, errCh, timedOut, pool>>
      BY <1>2 DEF Listen, startVars
    <2>2. TypeOK'
      BY <2>1 DEF IInv, TypeOK
    <2>3. Configured' /\ Migrated'
      BY <2>1 DEF IInv, Configured, Validate, Migrated, Up, Migrations
    <2>4. Lively' /\ Stopping'
      BY <2>1 DEF IInv, Lively, Stopping, Up, Enabled
    <2>q. QED BY <2>2, <2>3, <2>4 DEF IInv
  <1>q. QED BY <1>1, <1>2

\* Other replicas only add migrations.
LEMMA RivalsKeep ==
    ASSUME IInv, NEW o \in Others,
           RivalEnds(o) \/ \E f \in Migrations : RivalBegins(o, f)
    PROVE  IInv'
  <1>1. /\ UNCHANGED <<cfg, main, file, upVars, pool>>
        /\ schema \subseteq schema' /\ schema' \subseteq Migrations
        /\ rival' \in [Others -> 0..NumFiles]
    <2>1. schema \subseteq Migrations /\ rival \in [Others -> 0..NumFiles] /\ NumFiles \in Nat
      BY AppRunAssumption DEF IInv, TypeOK
    <2>2. CASE RivalEnds(o)
      BY <2>1, <2>2 DEF RivalEnds, Migrations
    <2>3. CASE \E f \in Migrations : RivalBegins(o, f)
      BY <2>1, <2>3 DEF RivalBegins, Migrations
    <2>q. QED BY <2>2, <2>3
  <1>2. TypeOK' /\ Configured'
    BY <1>1 DEF IInv, TypeOK, Configured, Validate, upVars
  <1>3. Migrated'
    BY <1>1 DEF IInv, Migrated
  <1>4. Lively' /\ Stopping'
    BY <1>1 DEF IInv, Lively, Stopping, Enabled, AllGone, upVars
  <1>q. QED BY <1>2, <1>3, <1>4 DEF IInv

\* A signal before there is a handler, or the death of the process.
LEMMA DeathKeeps == IInv /\ (SignalKills \/ Crash) => IInv'
  <1> SUFFICES ASSUME IInv, SignalKills \/ Crash PROVE IInv'
    OBVIOUS
  <1>1. UNCHANGED <<cfg, rival>> /\ \E how \in Ended \cup {"failed"} : Exit(how)
    BY DEF SignalKills, Crash, Ended
  <1>2. schema \subseteq Migrations /\ (main = "applying" => file \in Migrations)
    BY DEF IInv, TypeOK, Migrated
  <1>3. schema' \subseteq Migrations
    BY <1>2 DEF SignalKills, Crash
  <1>q. QED BY <1>1, <1>3, ExitKeeps

\* The shutdown, step by step.
LEMMA ShutdownSteps == IInv /\ (Signal \/ Select \/ HttpShutdown \/ GrpcStop \/ Return \/ Closed) => IInv'
  <1> SUFFICES ASSUME IInv, Signal \/ Select \/ HttpShutdown \/ GrpcStop \/ Return \/ Closed PROVE IInv'
    OBVIOUS
  <1>1. CASE Closed
    BY <1>1, ExitKeeps DEF Closed, Ended, IInv, TypeOK
  <1>2. CASE Signal
    BY <1>2 DEF Signal, IInv, TypeOK, Configured, Validate, Migrated, Lively, Enabled, Stopping, AllGone, upVars, startVars
  <1>3. CASE Select \/ HttpShutdown \/ GrpcStop \/ Return
    <2>1. /\ main \in Up /\ main' \in Up
          /\ UNCHANGED <<cfg, file, schema, rival, calls, held, worker>>
          /\ UNCHANGED server \/ \E t \in Servers : StopServer(t)
      BY <1>3 DEF Select, HttpShutdown, GrpcStop, Return, Up, startVars, upVars, Servers
    <2>2. server \in [Servers -> {"none", "serving", "failed", "stopped"}]
      BY DEF IInv, TypeOK
    <2>3. /\ server' \in [Servers -> {"none", "serving", "failed", "stopped"}]
          /\ \A t \in Servers : server'[t] = "serving" => server[t] = "serving"
      BY <2>1, <2>2 DEF StopServer
    <2>4. TypeOK' /\ Configured' /\ Lively'
      BY <2>1, <2>3 DEF IInv, TypeOK, Configured, Validate, Lively, Enabled, Up
    <2>5. Migrated'
      BY <2>1 DEF IInv, Migrated, Up
    <2>6. Stopping'
      <3>1. CASE Select
        BY <2>2, <3>1 DEF Select, StopServer, IInv, Stopping, Servers
      <3>2. CASE HttpShutdown
        <4>1. server'["grpc"] # "serving" /\ server'["http"] # "serving"
          BY <2>2, <2>3, <3>2 DEF HttpShutdown, StopServer, IInv, Stopping, Servers
        <4>q. QED BY <4>1, <3>2 DEF HttpShutdown, IInv, Stopping
      <3>3. CASE GrpcStop
        BY <3>3 DEF GrpcStop, IInv, Stopping, upVars
      <3>4. CASE Return
        BY <3>4 DEF Return, IInv, Stopping, AllGone, upVars
      <3>q. QED BY <1>3, <3>1, <3>2, <3>3, <3>4
    <2>q. QED BY <2>4, <2>5, <2>6 DEF IInv
  <1>q. QED BY <1>1, <1>2, <1>3

\* Every step keeps the invariant.
LEMMA NextKeeps == IInv /\ [Next]_vars => IInv'
  <1> SUFFICES ASSUME IInv, [Next]_vars PROVE IInv'
    OBVIOUS
  <1>1. CASE UNCHANGED vars
    BY <1>1 DEF vars, startVars, upVars, IInv, TypeOK, Configured, Validate, Migrated, Lively, Enabled, Stopping, AllGone
  <1>2. CASE MainStep
    BY <1>2, StartSteps, ListenKeeps, ShutdownSteps DEF MainStep
  <1>3. CASE Signal \/ SignalKills \/ Crash
    BY <1>3, ShutdownSteps, DeathKeeps
  <1>4. CASE Acquire \/ Release \/ (\E s \in Servers : CallArrives(s) \/ CallEnds(s) \/ ServerFails(s))
             \/ \E w \in Workers : Tick(w) \/ BatchEnds(w) \/ Leave(w)
    BY <1>4, UpSteps
  <1>5. CASE \E o \in Others : RivalEnds(o) \/ \E f \in Migrations : RivalBegins(o, f)
    BY <1>5, RivalsKeep
  <1>q. QED BY <1>1, <1>2, <1>3, <1>4, <1>5 DEF Next

\* The invariant holds in every behaviour.
LEMMA Invariance == Spec => []IInv
  <1>1. Init => IInv
    BY InitHolds
  <1>2. IInv /\ [Next]_vars => IInv'
    BY NextKeeps
  <1>q. QED BY <1>1, <1>2, PTL DEF Spec

\* The types hold in every behaviour (TypeOK).
THEOREM Typed == Spec => []TypeOK
  <1>1. IInv => TypeOK
    BY DEF IInv
  <1>q. QED BY <1>1, Invariance, PTL

\* Whatever the file and the environment say, a process that is up has a database with
\* every migration, if it applies them, and no ticker that panics (UpIsSound).
THEOREM UpSoundly == Spec => []UpIsSound
  <1>1. IInv => UpIsSound
    <2> SUFFICES ASSUME IInv, main \in Up PROVE UpIsSound
      BY DEF UpIsSound
    <2>1. Validate(cfg) /\ (cfg["autoMigrate"] => schema = Migrations)
      BY DEF IInv, Configured, Migrated
    <2>2. ASSUME NEW w \in Workers, worker[w] # "none" PROVE Interval(w) > 0
      BY <2>1, <2>2 DEF IInv, Lively, Enabled, Interval, Validate, Workers
    <2>q. QED BY <2>1, <2>2 DEF UpIsSound
  <1>q. QED BY <1>1, Invariance, PTL

\* The deferred Close of the pool comes after every worker and every call but the HTTP
\* calls that Shutdown gave up on (PoolOutlivesUsers).
THEOREM PoolIsLast == Spec => []PoolOutlivesUsers
  <1>1. IInv => PoolOutlivesUsers
    BY DEF IInv, Stopping, AllGone, PoolOutlivesUsers
  <1>q. QED BY <1>1, Invariance, PTL
=============================================================================
