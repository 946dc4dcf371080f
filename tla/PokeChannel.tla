---------------------------- MODULE PokeChannel ----------------------------
(***************************************************************************)
(* The Unix socket over which the Nexus wakes the Scaler: ScalerClient of  *)
(* worker_manager.py, and ipc_server and the wait of scaler_main_process   *)
(* in scale_lambda_dockers.py.  Handlers of proxy_request that find no     *)
(* worker poke; both may die and be started again.  The bytes of a         *)
(* connection are counted as pokes and replies nobody has read.            *)
(***************************************************************************)
EXTENDS Naturals, Sequences

CONSTANTS
  Caller,             \* handlers of proxy_request
  PokeRoom,           \* unread pokes at which drain() waits
  ReplyRoom,          \* unread replies at which drain() waits
  MaxDeaths           \* bound: deaths of the Scaler and of the Nexus

ASSUME PokeTypes == PokeRoom \in Nat /\ ReplyRoom \in Nat /\ MaxDeaths \in Nat

VARIABLES
  lock,               \* who holds ScalerClient.lock, then who waits for it
  caller,             \* handler -> where it is in poke_scaler
  init,               \* the task in initialize(); initializing is init # "off"
  available,
  writer,             \* none, or a connection to this or an earlier Scaler
  socket,             \* /tmp/scaler.sock: absent, stale, or with a listener
  server,             \* the Scaler's ipc_server
  handler,            \* handle_poke on the Nexus's connection
  pokes, replies,     \* sent on that connection and not read
  IPC_event,
  loop,               \* scaler_main_process: in its wait, or in a round
  heard,              \* history: a poke was read since the last round began
  deaths

clientVars == <<lock, caller, init, available, writer>>
wireVars == <<handler, pokes, replies>>
loopVars == <<IPC_event, loop, heard>>
vars == <<clientVars, socket, server, wireVars, loopVars, deaths>>

Init0 == "initialize"

TypeOK ==
  /\ lock \in Seq(Caller \cup {Init0})
  /\ caller \in [Caller -> {"idle", "lock", "drain"}]
  /\ init \in {"off", "socket", "lock"}
  /\ available \in BOOLEAN /\ writer \in {"none", "live", "broken"}
  /\ socket \in {"absent", "stale", "listening"}
  /\ server \in {"down", "starting", "binding", "up"}
  /\ handler \in {"none", "read", "drain"}
  /\ pokes \in Nat /\ replies \in 0..(ReplyRoom + 1)
  /\ IPC_event \in BOOLEAN /\ loop \in {"wait", "round"} /\ heard \in BOOLEAN
  /\ deaths \in 0..MaxDeaths

\* Both processes have just been started; the Nexus's startup awaits initialize().
Init ==
  /\ lock = <<>> /\ caller = [k \in Caller |-> "idle"]
  /\ init = "socket" /\ available = FALSE /\ writer = "none"
  /\ socket \in {"absent", "stale"} /\ server = "starting"
  /\ handler = "none" /\ pokes = 0 /\ replies = 0
  /\ IPC_event = FALSE /\ loop = "wait" /\ heard = FALSE
  /\ deaths = 0

Holds(x) == lock # <<>> /\ Head(lock) = x

-----------------------------------------------------------------------------
(* ScalerClient *)

\* create_task(initialize()): a task that finds another at it returns.
StartInitialize == init' = IF init = "off" THEN "socket" ELSE init

\* poke_scaler up to the lock.
Poke(k) ==
  /\ caller[k] = "idle"
  /\ IF available /\ writer # "none"
     THEN /\ caller' = [caller EXCEPT ![k] = "lock"] /\ lock' = Append(lock, k)
          /\ UNCHANGED init
     ELSE StartInitialize /\ UNCHANGED <<caller, lock>>
  /\ UNCHANGED <<available, writer, socket, server, wireVars, loopVars, deaths>>

Leave(k) ==
  /\ caller' = [caller EXCEPT ![k] = "idle"]
  /\ lock' = Tail(lock)

\* write() puts the bytes into the connection; drain() returns unless it is full.
Write(k) ==
  /\ Holds(k) /\ caller[k] = "lock" /\ writer = "live"
  /\ pokes' = pokes + 1
  /\ IF pokes' < PokeRoom THEN Leave(k)
     ELSE caller' = [caller EXCEPT ![k] = "drain"] /\ UNCHANGED lock
  /\ UNCHANGED <<init, available, writer, socket, server, handler, replies, loopVars, deaths>>

Drained(k) ==
  /\ Holds(k) /\ caller[k] = "drain" /\ writer = "live" /\ pokes < PokeRoom
  /\ Leave(k)
  /\ UNCHANGED <<init, available, writer, socket, server, wireVars, loopVars, deaths>>

\* Variant: the lock is not released when the write raises.
PokeFailsLocked(k) ==
  /\ Holds(k) /\ caller[k] \in {"lock", "drain"} /\ writer # "live"
  /\ caller' = [caller EXCEPT ![k] = "idle"]
  /\ available' = FALSE /\ writer' = "none"
  /\ StartInitialize
  /\ UNCHANGED <<lock, socket, server, wireVars, loopVars, deaths>>

\* The Scaler is gone, or another poke's failure has taken the writer: the write or the
\* drain raises, this poke is lost and a new connection is asked for.
PokeFails(k) ==
  /\ Holds(k) /\ caller[k] \in {"lock", "drain"} /\ writer # "live"
  /\ Leave(k)
  /\ available' = FALSE /\ writer' = "none"
  /\ StartInitialize
  /\ UNCHANGED <<socket, server, wireVars, loopVars, deaths>>

\* initialize() polls for the path, whoever left it there, then takes the lock.
SocketFound ==
  /\ init = "socket" /\ socket # "absent"
  /\ init' = "lock" /\ lock' = Append(lock, Init0)
  /\ UNCHANGED <<caller, available, writer, socket, server, wireVars, loopVars, deaths>>

\* Variant: initializing is reset only when the connection was opened.
OpenOnce ==
  /\ Holds(Init0)
  /\ lock' = Tail(lock)
  /\ available' = (socket = "listening")
  /\ IF socket = "listening"
     THEN init' = "off" /\ writer' = "live" /\ handler' = "read" /\ pokes' = 0 /\ replies' = 0
     ELSE UNCHANGED <<init, writer, wireVars>>
  /\ UNCHANGED <<caller, socket, server, loopVars, deaths>>

\* open_unix_connection: refused when nobody listens any more.
Open ==
  /\ Holds(Init0)
  /\ lock' = Tail(lock) /\ init' = "off"
  /\ available' = (socket = "listening")
  /\ IF socket = "listening"
     THEN writer' = "live" /\ handler' = "read" /\ pokes' = 0 /\ replies' = 0
     ELSE UNCHANGED <<writer, wireVars>>
  /\ UNCHANGED <<caller, socket, server, loopVars, deaths>>

-----------------------------------------------------------------------------
(* The Scaler *)

\* ipc_server removes the path an earlier Scaler has left, then binds it anew.
RemoveSocket ==
  /\ server = "starting"
  /\ socket' = "absent" /\ server' = "binding"
  /\ UNCHANGED <<clientVars, wireVars, loopVars, deaths>>

Listen ==
  /\ server = "binding"
  /\ socket' = "listening" /\ server' = "up"
  /\ UNCHANGED <<clientVars, wireVars, loopVars, deaths>>

\* Variant: nobody waits for the replies to leave.
HandlePokeUndrained ==
  /\ handler = "read" /\ pokes > 0
  /\ \E n \in 0..(pokes - 1) : pokes' = n
  /\ replies' = replies + 1
  /\ IPC_event' = TRUE /\ heard' = TRUE
  /\ UNCHANGED <<clientVars, socket, server, handler, loop, deaths>>

\* One read() takes what has arrived, one poke or several; one OK answers it, which the
\* Nexus never reads.
HandlePoke ==
  /\ handler = "read" /\ pokes > 0
  /\ \E n \in 0..(pokes - 1) : pokes' = n
  /\ replies' = replies + 1
  /\ handler' = IF replies' > ReplyRoom THEN "drain" ELSE "read"
  /\ IPC_event' = TRUE /\ heard' = TRUE
  /\ UNCHANGED <<clientVars, socket, server, loop, deaths>>

\* The wait ends by the event, which is then cleared, or after a second: as the time-out
\* raises, the event is left as it is.
Wakes ==
  /\ loop = "wait" /\ IPC_event
  /\ loop' = "round" /\ IPC_event' = FALSE /\ heard' = FALSE
  /\ UNCHANGED <<clientVars, socket, server, wireVars, deaths>>

TimesOut ==
  /\ loop = "wait"
  /\ loop' = "round" /\ heard' = FALSE
  /\ UNCHANGED <<clientVars, socket, server, wireVars, IPC_event, deaths>>

\* Variant: the event is cleared when the round is over.
RoundEndsCleared ==
  /\ loop = "round"
  /\ loop' = "wait" /\ IPC_event' = FALSE
  /\ UNCHANGED <<clientVars, socket, server, wireVars, heard, deaths>>

RoundEnds ==
  /\ loop = "round"
  /\ loop' = "wait"
  /\ UNCHANGED <<clientVars, socket, server, wireVars, IPC_event, heard, deaths>>

\* The Scaler dies; the supervisor starts the next one.
ScalerDies ==
  /\ server # "down" /\ deaths < MaxDeaths
  /\ deaths' = deaths + 1
  /\ server' = "down"
  /\ socket' = IF socket = "listening" THEN "stale" ELSE socket
  /\ writer' = IF writer = "live" THEN "broken" ELSE writer
  /\ handler' = "none" /\ pokes' = 0 /\ replies' = 0
  /\ IPC_event' = FALSE /\ loop' = "wait" /\ heard' = FALSE
  /\ UNCHANGED <<lock, caller, init, available>>

ScalerStarts ==
  /\ server = "down" /\ server' = "starting"
  /\ UNCHANGED <<clientVars, socket, wireVars, loopVars, deaths>>

\* The Nexus dies and starts anew.  What has arrived at the Scaler is still read.
NexusRestart ==
  /\ deaths < MaxDeaths
  /\ deaths' = deaths + 1
  /\ lock' = <<>> /\ caller' = [k \in Caller |-> "idle"]
  /\ init' = "socket" /\ available' = FALSE /\ writer' = "none"
  /\ handler' = "none" /\ pokes' = 0 /\ replies' = 0
  /\ IF handler = "read" /\ pokes > 0 THEN IPC_event' = TRUE /\ heard' = TRUE
                                      ELSE UNCHANGED <<IPC_event, heard>>
  /\ UNCHANGED <<socket, server, loop>>

-----------------------------------------------------------------------------
PokeStep(k) == Write(k) \/ Drained(k) \/ PokeFails(k)
ServerStep == RemoveSocket \/ Listen \/ ScalerStarts
LoopStep == server # "down" /\ (Wakes \/ TimesOut \/ RoundEnds)

Next ==
  \/ \E k \in Caller : Poke(k) \/ PokeStep(k)
  \/ SocketFound \/ Open \/ HandlePoke
  \/ ServerStep \/ LoopStep \/ ScalerDies \/ NexusRestart

Spec == Init /\ [][Next]_vars

\* Both event loops run what is ready, and a Scaler that died is started again; nobody
\* has to poke.
Fairness ==
  /\ \A k \in Caller : WF_vars(PokeStep(k))
  /\ WF_vars(SocketFound) /\ WF_vars(Open) /\ WF_vars(HandlePoke)
  /\ WF_vars(ServerStep) /\ WF_vars(LoopStep)

FairSpec == Spec /\ Fairness

-----------------------------------------------------------------------------
(* Properties *)

\* A poke is not lost between two rounds: what was read after a round had begun makes
\* the next one begin without waiting for the second to pass.
NoPokeLost == heard => IPC_event

\* A handler that pokes comes back to its loop, whatever becomes of the Scaler, unless
\* the replies that nobody reads have filled the connection.
PokeReturns ==
  \A k \in Caller : caller[k] # "idle" ~> caller[k] = "idle" \/ handler = "drain"

\* When the Scaler stays up and handlers poke as long as there is need, they get through
\* to it: no failed attempt leaves the client unable to try again.
Reconnects ==
  (\A k \in Caller : WF_vars(Poke(k))) /\ <>[](server = "up")
    => <>[](available /\ writer = "live")
=============================================================================
