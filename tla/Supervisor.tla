----------------------------- MODULE Supervisor -----------------------------
(***************************************************************************)
(* run_control_plane.py: the supervisor starts the database multiplexer    *)
(* and the components, waits until each has a health row, then looks at    *)
(* them in rounds: what has exited or has not beaten for too long is       *)
(* replaced.  A tick is five seconds, the period of a heartbeat; what is   *)
(* said to happen within a time happens before the tick that ends it.      *)
(***************************************************************************)
EXTENDS Naturals, Sequences

CONSTANTS
  None,               \* no process
  Component,          \* the keys of COMPONENT_COMMANDS
  Order,              \* the order they are written in
  Ported,             \* those restart_process frees a port for
  Gathered,           \* those that end when their heartbeat raises (SCALER)
  Proc,               \* process ids
  LoopTime,           \* WATCHDOG_LOOP_TIME, in ticks
  KillTime,           \* PROCESS_KILL_TIME
  StartupLimit,       \* STARTUP_TIME_LIMIT
  ResetTime,          \* FAILURE_RESET_LIMIT
  FailureLimit,       \* WATCHDOG_FAILURE_LIMIT
  Disk,               \* db_type = "disk": the tables outlive the multiplexer
  MaxBoot,            \* bound: ticks from the start of a process to its first beat
  MaxLag,             \* bound: ticks from a round's read to its last look
  MaxFaults           \* bound: crashes, freezes and further starts of the supervisor

DB == "DB_MULTIPLEXER"

ASSUME SupervisorTypes ==
  /\ None \notin Proc /\ {None, DB} \cap Component = {}
  /\ Ported \subseteq Component /\ Gathered \subseteq Component
  /\ {LoopTime, KillTime, StartupLimit, ResetTime, FailureLimit, MaxBoot, MaxLag,
      MaxFaults} \subseteq Nat
  /\ Disk \in BOOLEAN
  /\ Order \in Seq(Component) /\ \A c \in Component : \E i \in DOMAIN Order : Order[i] = c
  /\ \A i, j \in DOMAIN Order : Order[i] = Order[j] => i = j

VARIABLES
  phase,              \* off, startup, sleep or round of the watchdog, stopped
  processes,          \* component -> the process the supervisor holds for it
  proc,               \* process -> component, state, ticks of booting
  leftover,           \* live processes of an earlier supervisor
  health,             \* the table control_plane_health
  seen,               \* the rows this round has read
  todo,               \* what this round has still to look at
  timer,              \* ticks since the sleep, or since the round's read
  elapsed,            \* ticks since last_interval (in startup: start_timestamp)
  failure_count,
  db,                 \* the multiplexer: is it up, its tables, the supervisor's pool
  faults, bad         \* history: faults so far, components that fail at each boot

supVars == <<phase, processes, todo, timer, elapsed, failure_count>>
procVars == <<proc, leftover, health, faults, bad>>
vars == <<supVars, procVars, seen, db>>

ProcState == {"gone", "booting", "up", "silent"}
Row == [pid : Proc \cup {None}, age : Nat]
NoRow == [pid |-> None, age |-> 0]
Gone == [of |-> None, st |-> "gone", boot |-> 0]

TypeOK ==
  /\ phase \in {"off", "startup", "sleep", "round", "stopped"}
  /\ processes \in [Component -> Proc \cup {None}]
  /\ proc \in [Proc -> [of : Component \cup {None}, st : ProcState, boot : 0..MaxBoot]]
  /\ leftover \subseteq Proc
  /\ health \in [Component -> Row] /\ seen \in [Component -> Row]
  /\ todo \in Seq(Component \cup {DB})
  /\ timer \in Nat /\ elapsed \in Nat /\ failure_count \in Nat
  /\ db \in [up : BOOLEAN, tables : BOOLEAN, pool : BOOLEAN]
  /\ faults \in 0..MaxFaults /\ bad \subseteq Component

Init ==
  /\ phase = "off"
  /\ processes = [c \in Component |-> None]
  /\ proc = [p \in Proc |-> Gone]
  /\ leftover = {}
  /\ health = [c \in Component |-> NoRow] /\ seen = [c \in Component |-> NoRow]
  /\ todo = <<>> /\ timer = 0 /\ elapsed = 0 /\ failure_count = 0
  /\ db = [up |-> FALSE, tables |-> FALSE, pool |-> FALSE]
  /\ faults = 0 /\ bad = {}

Alive(p) == proc[p].st # "gone"
Of(c) == {p \in Proc : proc[p].of = c}

\* A process id is free once its process is gone and nothing names it.
Free(p) ==
  /\ ~Alive(p)
  /\ \A c \in Component : p \notin {processes[c], health[c].pid, seen[c].pid}

-----------------------------------------------------------------------------
(* Processes and heartbeats *)

\* Variant: nobody is looked for on the port.
OnNoPort(c) == {}

\* kill_processes_on_ports: whoever has the component's port, started by whom ever.  A
\* process binds its port about when it first beats.
OnPort(c) == IF c \in Ported THEN {p \in Of(c) : proc[p].st # "booting"} ELSE {}

\* restart_process for c: a new process, once those in K and those that hold the port
\* are dead.
Restart(c, K) ==
  LET new == CHOOSE p \in Proc : Free(p) IN
  /\ \E p \in Proc : Free(p)
  /\ proc' = [p \in Proc |-> IF p = new THEN [of |-> c, st |-> "booting", boot |-> 0]
                             ELSE IF p \in K \cup OnPort(c) THEN Gone ELSE proc[p]]
  /\ leftover' = leftover \ (K \cup OnPort(c))
  /\ processes' = [processes EXCEPT ![c] = new]

\* Variant: a row that is there keeps its pid.
BeatKeepsPid(p) ==
  /\ db.up /\ db.tables
  /\ \/ proc[p].st = "booting" /\ proc[p].of \notin bad
     \/ proc[p].st = "up" /\ health[proc[p].of].age > 0
  /\ proc' = [proc EXCEPT ![p].st = "up", ![p].boot = 0]
  /\ health' = [health EXCEPT ![proc[p].of] =
                  [pid |-> IF @.pid = None THEN p ELSE @.pid, age |-> 0]]
  /\ UNCHANGED <<supVars, leftover, faults, bad, seen, db>>

\* update_health_stats, by a process whose connection works: the first time it beats,
\* it has booted.
Beat(p) ==
  /\ db.up /\ db.tables
  /\ \/ proc[p].st = "booting" /\ proc[p].of \notin bad
     \/ proc[p].st = "up" /\ health[proc[p].of].age > 0
  /\ proc' = [proc EXCEPT ![p].st = "up", ![p].boot = 0]
  /\ health' = [health EXCEPT ![proc[p].of] = [pid |-> p, age |-> 0]]
  /\ UNCHANGED <<supVars, leftover, faults, bad, seen, db>>

\* Variant: a state nobody knows.
WithoutBeatStuck(p) == [proc[p] EXCEPT !.st = "stuck", !.boot = 0]

\* The heartbeat raises.  It is a task nobody awaits: the process goes on without it,
\* but for the Scaler, whose gather raises too.
WithoutBeat(p) ==
  IF proc[p].of \in Gathered THEN Gone ELSE [proc[p] EXCEPT !.st = "silent", !.boot = 0]

\* A process comes up and finds no database, or dies of what is wrong with it.
BootFails(p) ==
  /\ proc[p].st = "booting"
  /\ \/ proc[p].of \in bad /\ proc' = [proc EXCEPT ![p] = Gone]
     \/ ~(db.up /\ db.tables) /\ proc' = [proc EXCEPT ![p] = WithoutBeat(p)]
  /\ leftover' = {q \in leftover : proc'[q] # Gone}
  /\ UNCHANGED <<supVars, health, faults, bad, seen, db>>

\* Faults: a process exits, stops beating, or exits and will do so at each boot.
Crash(p) ==
  /\ Alive(p) /\ faults < MaxFaults
  /\ proc' = [proc EXCEPT ![p] = Gone]
  /\ leftover' = leftover \ {p}
  /\ bad' \in {bad, bad \cup {proc[p].of}}
  /\ faults' = faults + 1
  /\ UNCHANGED <<supVars, health, seen, db>>

Freeze(p) ==
  /\ proc[p].st = "up" /\ faults < MaxFaults
  /\ proc' = [proc EXCEPT ![p].st = "silent"]
  /\ faults' = faults + 1
  /\ UNCHANGED <<supVars, leftover, health, bad, seen, db>>

\* The multiplexer exits.  Each connection is broken: what a process does next with
\* it raises, and for the heartbeats that is their end.
DbCrash ==
  /\ db.up /\ faults < MaxFaults
  /\ db' = [up |-> FALSE, tables |-> Disk /\ db.tables, pool |-> FALSE]
  /\ proc' = [p \in Proc |-> IF proc[p].st = "up" THEN WithoutBeat(p) ELSE proc[p]]
  /\ leftover' = {p \in leftover : proc'[p] # Gone}
  /\ faults' = faults + 1
  /\ UNCHANGED <<supVars, health, bad, seen>>

-----------------------------------------------------------------------------
(* Start and stop *)

DbOk == db.up /\ db.tables /\ db.pool
Watching == phase \in {"sleep", "round"}

\* main(): the multiplexer's port is freed, so that processes an earlier supervisor has
\* left lose their connections; the table is cleared and each component started.  Those
\* processes have had the time to boot, and there is an id for each new one.
Start ==
  LET onPort == UNION {OnPort(c) : c \in Component}
      cut == [p \in Proc |-> IF p \in onPort THEN Gone
                             ELSE IF Alive(p) THEN WithoutBeat(p) ELSE proc[p]]
      fresh == {Q \in [Component -> {p \in Proc : cut[p] = Gone}] :
                  \A c, d \in Component : Q[c] = Q[d] => c = d}
      new == CHOOSE Q \in fresh : TRUE
  IN
  /\ fresh # {}
  /\ \/ phase = "off" /\ UNCHANGED faults
     \/ phase = "stopped" /\ faults < MaxFaults /\ faults' = faults + 1
  /\ \A p \in Proc : proc[p].st # "booting"
  /\ phase' = "startup"
  /\ db' = [up |-> TRUE, tables |-> TRUE, pool |-> TRUE]
  /\ processes' = new
  /\ proc' = [p \in Proc |->
       IF \E c \in Component : new[c] = p
       THEN [of |-> CHOOSE c \in Component : new[c] = p, st |-> "booting", boot |-> 0]
       ELSE cut[p]]
  /\ leftover' = {p \in Proc : cut[p].st = "silent"}
  /\ health' = [c \in Component |-> NoRow]
  /\ elapsed' = 0
  /\ UNCHANGED <<seen, todo, timer, failure_count, bad>>

AllRows == \A c \in Component : health[c].pid # None

StartupDone ==
  /\ phase = "startup" /\ DbOk /\ AllRows
  /\ \A c \in Component : Alive(processes[c])
  /\ phase' = "sleep"
  /\ timer' = 0 /\ elapsed' = 0 /\ failure_count' = 0
  /\ UNCHANGED <<processes, todo, procVars, seen, db>>

\* The time is up, the read raises, or a component has beaten and exited.  These raise
\* before the `try`: nothing is cleaned up.
StartupFails ==
  /\ phase = "startup"
  /\ \/ elapsed > StartupLimit
     \/ ~DbOk
     \/ AllRows /\ \E c \in Component : ~Alive(processes[c])
  /\ phase' = "stopped"
  /\ UNCHANGED <<processes, todo, timer, elapsed, failure_count, procVars, seen, db>>

\* The `finally`: the table is cleared, then the children are terminated.  If the first
\* raises the second is not reached.
Finish(reachable) ==
  /\ phase' = "stopped"
  /\ IF reachable
     THEN /\ health' = [c \in Component |-> NoRow]
          /\ proc' = [p \in Proc |-> IF \E c \in Component : processes[c] = p
                                     THEN Gone ELSE proc[p]]
     ELSE UNCHANGED <<health, proc>>
  /\ todo' = <<>> /\ timer' = 0 /\ elapsed' = 0 /\ failure_count' = 0
  /\ seen' = [c \in Component |-> NoRow]
  /\ UNCHANGED <<processes, leftover, faults, bad, db>>

\* SIGINT or SIGTERM.
Stop == Watching /\ Finish(DbOk)

-----------------------------------------------------------------------------
(* watchdog_loop *)

\* Variant: the counter is reset in each round.
ReadAndReset ==
  /\ phase = "sleep" /\ timer = LoopTime /\ DbOk
  /\ phase' = "round"
  /\ seen' = health /\ todo' = <<DB>> \o Order /\ timer' = 0
  /\ elapsed' = 0 /\ failure_count' = 0
  /\ UNCHANGED <<processes, procVars, db>>

ReadHealth ==
  /\ phase = "sleep" /\ timer = LoopTime /\ DbOk
  /\ phase' = "round"
  /\ seen' = health /\ todo' = <<DB>> \o Order /\ timer' = 0
  /\ IF elapsed > ResetTime
     THEN elapsed' = 0 /\ failure_count' = 0
     ELSE UNCHANGED <<elapsed, failure_count>>
  /\ UNCHANGED <<processes, procVars, db>>

\* get_all_health_stats raises, the pool having been opened anew if the multiplexer is
\* up again, and the watchdog ends.
ReadFails ==
  /\ phase = "sleep" /\ timer = LoopTime /\ ~DbOk
  /\ Finish(db.up /\ db.tables)

\* The multiplexer comes first: it is the first entry of `processes`.
LookAtDb ==
  /\ todo # <<>> /\ Head(todo) = DB
  /\ todo' = Tail(todo)
  /\ db' = [db EXCEPT !.up = TRUE]
  /\ failure_count' = IF db.up THEN failure_count ELSE failure_count + 1
  /\ UNCHANGED <<phase, processes, timer, elapsed, procVars, seen>>

Exited(c) == ~Alive(processes[c])

\* Variant: one tick too early.
FrozenEarly(c) == Alive(processes[c]) /\ (seen[c].pid = None \/ seen[c].age >= KillTime)

\* No row, or one that is too old.  (Without a row the alarm itself raises: KillReaches
\* says that it does not come to this.)
Frozen(c) == Alive(processes[c]) /\ (seen[c].pid = None \/ seen[c].age > KillTime)

\* An exited component is started again; for a frozen one SIGKILL goes first, to the
\* process the row names.
Look(c) ==
  /\ todo # <<>> /\ Head(todo) = c
  /\ todo' = Tail(todo)
  /\ IF Exited(c) \/ Frozen(c)
     THEN /\ Restart(c, IF Frozen(c) THEN {seen[c].pid} ELSE {})
          /\ failure_count' = failure_count + 1
     ELSE UNCHANGED <<proc, leftover, processes, failure_count>>
  /\ UNCHANGED <<phase, timer, elapsed, health, faults, bad, seen, db>>

EndRound ==
  /\ phase = "round" /\ todo = <<>>
  /\ IF failure_count > FailureLimit
     THEN Finish(DbOk)
     ELSE /\ phase' = "sleep" /\ timer' = 0
          /\ seen' = [c \in Component |-> NoRow]
          /\ UNCHANGED <<processes, todo, elapsed, failure_count, procVars, db>>

\* Five seconds pass: those that beat have done so, those that boot come up in time,
\* the supervisor is not late.
Older(row) == IF row.pid = None \/ row.age > KillTime THEN row ELSE [row EXCEPT !.age = @ + 1]

Tick ==
  /\ \/ phase = "startup" /\ elapsed <= StartupLimit
     \/ phase = "sleep" /\ timer < LoopTime
     \/ phase = "round" /\ timer < MaxLag
  /\ \A p \in Proc : /\ proc[p].st = "up" => health[proc[p].of].age = 0
                     /\ proc[p].st = "booting" => proc[p].boot < MaxBoot
  /\ timer' = IF phase = "startup" THEN timer ELSE timer + 1
  /\ elapsed' = IF elapsed > ResetTime /\ elapsed > StartupLimit THEN elapsed ELSE elapsed + 1
  /\ health' = [c \in Component |-> Older(health[c])]
  /\ seen' = [c \in Component |-> Older(seen[c])]
  /\ proc' = [p \in Proc |-> IF proc[p].st = "booting" THEN [proc[p] EXCEPT !.boot = @ + 1]
                             ELSE proc[p]]
  /\ UNCHANGED <<phase, processes, todo, failure_count, leftover, faults, bad, db>>

SupervisorStep ==
  \/ StartupDone \/ StartupFails \/ ReadHealth \/ ReadFails \/ LookAtDb \/ EndRound
  \/ \E c \in Component : Look(c)

Next ==
  \/ Start \/ Stop \/ SupervisorStep \/ Tick \/ DbCrash
  \/ \E p \in Proc : Beat(p) \/ BootFails(p) \/ Crash(p) \/ Freeze(p)

Spec == Init /\ [][Next]_vars

\* Time passes, the supervisor takes its steps, and processes that can beat do.
Fairness ==
  /\ WF_vars(Tick) /\ WF_vars(SupervisorStep)
  /\ \A p \in Proc : WF_vars(Beat(p)) /\ WF_vars(BootFails(p))

FairSpec == Spec /\ Fairness

-----------------------------------------------------------------------------
(* Properties *)

\* A component runs once: two live processes of it can only be one of this supervisor
\* and one that an earlier supervisor left, of a component without a port.
OneInstance ==
  \A p, q \in Proc :
    Alive(p) /\ Alive(q) /\ proc[p].of = proc[q].of /\ p # q =>
      proc[p].of \notin Ported /\ (p \in leftover \/ q \in leftover)

\* The SIGKILL for a frozen component reaches the process that is then replaced,
\* although the row may be of an earlier process, or missing, and was read before.
KillReaches ==
  \A c \in Component :
    todo # <<>> /\ Head(todo) = c /\ Frozen(c) => seen[c].pid = processes[c]

\* A process that beats in time is not killed, however old the round's rows are when
\* its turn comes.
HealthySpared ==
  [][phase = "round" /\ phase' = "round" /\ faults' = faults =>
       \A p \in Proc : proc[p].st = "up" => proc'[p].st = "up"]_vars

\* A component that is dead or frozen beats again, or the supervisor has given up: it
\* does give up on a component that fails at each boot.
Healthy(c) == \E p \in Of(c) : proc[p].st = "up"

Recovers ==
  \A c \in Component : Watching /\ ~Healthy(c) ~> Healthy(c) \/ ~Watching

\* A watchdog that ends while the database answers leaves nothing running that this
\* supervisor started, replaced processes included.  (If the database does not answer
\* the `finally` raises before it terminates the children.)
CleansUp ==
  [][Watching /\ DbOk /\ phase' = "stopped" =>
       \A p \in Proc : proc'[p].st # "gone" => p \in leftover]_vars
=============================================================================
