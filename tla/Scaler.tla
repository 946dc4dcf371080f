-------------------------------- MODULE Scaler --------------------------------
(***************************************************************************)
(* scale_lambda_dockers.py: one loop that first creates the containers the *)
(* pending requests call for, each in a thread of its own, and then runs   *)
(* its chores side by side: the reaper, the sync of the table with Docker, *)
(* the removal of exited containers.  Docker and the table are two copies  *)
(* of the same fleet, changed in separate steps.  The Nexus, the workers   *)
(* and failures of Docker are the environment.                             *)
(***************************************************************************)
EXTENDS Containers, Naturals, FiniteSets

CONSTANTS
  ScaleLimits,        \* the values global_scale_limit may have in config.json
  MaxPending,         \* bound: pending requests of a function the loop may see
  MaxFaults,          \* bound: Docker calls that fail and deaths of the Scaler
  Fragile             \* containers that may exit before their address is read

ASSUME ScalerConstants ==
  /\ ScaleLimits \subseteq Nat /\ MaxPending \in Nat /\ MaxFaults \in Nat
  /\ Fragile \subseteq Container

VARIABLES
  GlobalScaleLimit,   \* individual_lambda_scale_limit, read when the process starts
  docker,             \* container -> what Docker has
  thread,             \* container -> where its scale_up_lambda is
  phase,              \* where scaler_main_process is
  batch,              \* containers whose threads the gather waits for
  reaper,             \* [pc, rows, left]: keys selected, containers not yet stopped
  sync,               \* [pc, living, rows]: check_docker_container_sdk
  sweep,              \* [pc, rows]: delete_exited_pie_lambda_containers
  failures, crashes

loopVars == <<phase, batch>>
choreVars == <<reaper, sync, sweep>>
faultVars == <<GlobalScaleLimit, failures, crashes>>
vars == <<containers, docker, thread, loopVars, choreVars, faultVars>>

\* A row is found by the container's name until its address is published, then by the
\* Docker id: a key read earlier misses a row that was published since.
Key(c) == [of |-> c, named |-> containers[c].ip = None]
Keys == [of : Container, named : BOOLEAN]
RemoveKeys(K) == RemoveRows({c \in Container : Key(c) \in K})

TypeOK ==
  /\ ContainersTypeOK
  /\ docker \in [Container -> {"none", "created", "running", "exited", "removed"}]
  /\ thread \in [Container -> {"none", "insert", "create", "start", "address", "publish"}]
  /\ phase \in {"idle", "scaling", "chores"} /\ batch \subseteq Container
  /\ reaper \in [pc : {"todo", "stop", "done"}, rows : SUBSET Keys, left : SUBSET Container]
  /\ sync \in [pc : {"todo", "read", "delete", "done"}, living : SUBSET Container,
               rows : SUBSET Keys]
  /\ sweep \in [pc : {"todo", "delete", "done"}, rows : SUBSET Keys]
  /\ GlobalScaleLimit \in ScaleLimits
  /\ failures \in 0..MaxFaults /\ crashes \in 0..MaxFaults

Chores(pc) ==
  /\ reaper' = [pc |-> pc, rows |-> {}, left |-> {}]
  /\ sync' = [pc |-> pc, living |-> {}, rows |-> {}]
  /\ sweep' = [pc |-> pc, rows |-> {}]

Init ==
  /\ ContainersInit /\ GlobalScaleLimit \in ScaleLimits
  /\ docker = [c \in Container |-> "none"] /\ thread = [c \in Container |-> "none"]
  /\ phase = "idle" /\ batch = {}
  /\ reaper = [pc |-> "done", rows |-> {}, left |-> {}]
  /\ sync = [pc |-> "done", living |-> {}, rows |-> {}]
  /\ sweep = [pc |-> "done", rows |-> {}]
  /\ failures = 0 /\ crashes = 0

-----------------------------------------------------------------------------
(* calculate_scaleup_requests and the threads it leads to *)

WithStatus(f, S) ==
  Cardinality({c \in Container : ImageOf[c] = f /\ containers[c].status \in S})

\* Variant: busy containers do not count against the limit.
ToCreateBesideBusy(f, pending) ==
  LET ready   == WithStatus(f, {"provisioning", "available", "deployed"})
      lacking == IF pending > ready THEN pending - ready ELSE 0
      allowed == IF GlobalScaleLimit > ready THEN GlobalScaleLimit - ready ELSE 0
  IN IF lacking < allowed THEN lacking ELSE allowed

\* Rows "failed" and "destroying" count neither as capacity nor against the limit.
ToCreate(f, pending) ==
  LET capacity == WithStatus(f, {"provisioning", "available", "deployed"})
      existing == WithStatus(f, {"provisioning", "available", "deployed", "busy"})
      lacking  == IF pending > capacity THEN pending - capacity ELSE 0
      allowed  == IF GlobalScaleLimit > existing THEN GlobalScaleLimit - existing ELSE 0
  IN IF lacking < allowed THEN lacking ELSE allowed

\* A container id that is still unused stands for the next uuid.
Fresh(c) == containers[c].status = "absent" /\ docker[c] = "none" /\ thread[c] = "none"

\* Variant: the threads are started and not awaited.
CalculateWithoutWaiting ==
  /\ phase = "idle"
  /\ \E pending \in [Fn -> 0..MaxPending], S \in SUBSET {c \in Container : Fresh(c)} :
       /\ \A f \in Fn : Cardinality({c \in S : ImageOf[c] = f}) = ToCreate(f, pending[f])
       /\ thread' = [c \in Container |-> IF c \in S THEN "insert" ELSE thread[c]]
  /\ phase' = "chores" /\ Chores("todo")
  /\ UNCHANGED <<containers, docker, batch, faultVars>>

CalculateScaleUp ==
  /\ phase = "idle"
  /\ \E pending \in [Fn -> 0..MaxPending], S \in SUBSET {c \in Container : Fresh(c)} :
       /\ \A f \in Fn : Cardinality({c \in S : ImageOf[c] = f}) = ToCreate(f, pending[f])
       /\ batch' = S
       /\ thread' = [c \in Container |-> IF c \in S THEN "insert" ELSE thread[c]]
       /\ IF S = {} THEN phase' = "chores" /\ Chores("todo")
                    ELSE phase' = "scaling" /\ UNCHANGED choreVars
  /\ UNCHANGED <<containers, docker, faultVars>>

Advance(c, from, to) == thread[c] = from /\ thread' = [thread EXCEPT ![c] = to]

InsertRow(c) ==
  /\ Advance(c, "insert", "create")
  /\ InsertProvisioning(c)
  /\ UNCHANGED <<docker, loopVars, choreVars, faultVars>>

CreateContainer(c) ==
  /\ Advance(c, "create", "start")
  /\ docker' = [docker EXCEPT ![c] = "created"]
  /\ UNCHANGED <<containers, loopVars, choreVars, faultVars>>

StartContainer(c) ==
  /\ docker[c] = "created"
  /\ Advance(c, "start", "address")
  /\ docker' = [docker EXCEPT ![c] = "running"]
  /\ UNCHANGED <<containers, loopVars, choreVars, faultVars>>

\* Only a running container has an address; until then the thread sleeps and looks again.
ReadAddress(c) ==
  /\ docker[c] = "running"
  /\ Advance(c, "address", "publish")
  /\ UNCHANGED <<containers, docker, loopVars, choreVars, faultVars>>

\* The thread returns; after the last one of the batch the chores begin.
Publish(c) ==
  /\ Advance(c, "publish", "none")
  /\ PublishDeployed(c)
  /\ batch' = batch \ {c}
  /\ IF batch = {c} THEN phase' = "chores" /\ Chores("todo")
                    ELSE UNCHANGED <<phase, choreVars>>
  /\ UNCHANGED <<docker, faultVars>>

\* Variant: the gather never learns of the thread that raised.
RaiseUnnoticed(c) ==
  /\ thread' = [thread EXCEPT ![c] = "none"]
  /\ UNCHANGED <<containers, docker, loopVars, choreVars>>

\* A thread raises.  The gather raises at once and the loop starts over, without the
\* chores, while the other threads of the batch go on.
Raise(c) ==
  /\ thread' = [thread EXCEPT ![c] = "none"]
  /\ IF c \in batch THEN batch' = {} /\ phase' = "idle" ELSE UNCHANGED loopVars
  /\ UNCHANGED <<containers, docker, choreVars>>

DockerFails(c) ==
  /\ thread[c] \in {"create", "start", "address"}
  /\ failures + crashes < MaxFaults
  /\ failures' = failures + 1
  /\ Raise(c)
  /\ UNCHANGED <<GlobalScaleLimit, crashes>>

\* start() or reload() of a container that somebody has removed.
NotFound(c) ==
  /\ thread[c] \in {"start", "address"} /\ docker[c] = "removed"
  /\ Raise(c)
  /\ UNCHANGED faultVars

-----------------------------------------------------------------------------
(* reaper_thread_loop *)

\* One statement reserves every failed row and those unused for longer than the
\* configured times (here: any of the others).
GetContainersToDestroy ==
  /\ reaper.pc = "todo"
  /\ \E S \in SUBSET {c \in Container : containers[c].status \notin {"absent", "destroying"}} :
       /\ {c \in Container : containers[c].status = "failed"} \subseteq S
       /\ MarkDestroying(S)
       /\ reaper' = IF S = {} THEN [reaper EXCEPT !.pc = "done"]
                    ELSE [pc |-> "stop", rows |-> {Key(c) : c \in S}, left |-> S]
  /\ UNCHANGED <<docker, thread, loopVars, sync, sweep, faultVars>>

\* stop() and remove(force): works on a name as on an id, and on any state of it.
StopAndRemove(c) ==
  /\ reaper.pc = "stop" /\ c \in reaper.left
  /\ docker' = IF docker[c] = "none" THEN docker ELSE [docker EXCEPT ![c] = "removed"]
  /\ reaper' = [reaper EXCEPT !.left = @ \ {c}]
  /\ UNCHANGED <<containers, thread, loopVars, sync, sweep, faultVars>>

\* Errors are logged and forgotten: the container stays, its row will go.
StopFails(c) ==
  /\ reaper.pc = "stop" /\ c \in reaper.left
  /\ failures + crashes < MaxFaults
  /\ failures' = failures + 1
  /\ reaper' = [reaper EXCEPT !.left = @ \ {c}]
  /\ UNCHANGED <<containers, docker, thread, loopVars, sync, sweep, GlobalScaleLimit, crashes>>

RemoveDestroyed ==
  /\ reaper.pc = "stop" /\ reaper.left = {}
  /\ RemoveKeys(reaper.rows)
  /\ reaper' = [pc |-> "done", rows |-> {}, left |-> {}]
  /\ UNCHANGED <<docker, thread, loopVars, sync, sweep, faultVars>>

-----------------------------------------------------------------------------
(* check_docker_container_sdk: Docker's list first, the table second, DELETE third *)

ListLiving ==
  /\ sync.pc = "todo"
  /\ sync' = [sync EXCEPT !.pc = "read", !.living = {c \in Container : docker[c] = "running"}]
  /\ UNCHANGED <<containers, docker, thread, loopVars, reaper, sweep, faultVars>>

\* Variant: only the rows still under their name are compared.
ReadNamedRows ==
  /\ sync.pc = "read"
  /\ LET ghosts == {c \in Container : /\ containers[c].status # "absent"
                                      /\ containers[c].ip = None}
     IN sync' = [pc |-> IF ghosts = {} THEN "done" ELSE "delete", living |-> {},
                 rows |-> {Key(c) : c \in ghosts}]
  /\ UNCHANGED <<containers, docker, thread, loopVars, reaper, sweep, faultVars>>

\* Every row whose container_id is not the id of a living container, so also every
\* row still under its name.
ReadRows ==
  /\ sync.pc = "read"
  /\ LET ghosts == {c \in Container : /\ containers[c].status # "absent"
                                      /\ containers[c].ip = None \/ c \notin sync.living}
     IN sync' = [pc |-> IF ghosts = {} THEN "done" ELSE "delete", living |-> {},
                 rows |-> {Key(c) : c \in ghosts}]
  /\ UNCHANGED <<containers, docker, thread, loopVars, reaper, sweep, faultVars>>

RemoveGhosts ==
  /\ sync.pc = "delete"
  /\ RemoveKeys(sync.rows)
  /\ sync' = [pc |-> "done", living |-> {}, rows |-> {}]
  /\ UNCHANGED <<docker, thread, loopVars, reaper, sweep, faultVars>>

\* The last sync was less than docker_sdk_check_interval_mins ago.
SkipSync ==
  /\ sync.pc = "todo"
  /\ sync' = [sync EXCEPT !.pc = "done"]
  /\ UNCHANGED <<containers, docker, thread, loopVars, reaper, sweep, faultVars>>

-----------------------------------------------------------------------------
(* delete_exited_pie_lambda_containers: containers that exited, never those only created *)

RemoveExited ==
  /\ sweep.pc = "todo"
  /\ LET exited == {c \in Container : docker[c] = "exited"} IN
     /\ docker' = [c \in Container |-> IF c \in exited THEN "removed" ELSE docker[c]]
     /\ sweep' = [pc |-> IF exited = {} THEN "done" ELSE "delete",
                  rows |-> [of : exited, named : {FALSE}]]
  /\ UNCHANGED <<containers, thread, loopVars, reaper, sync, faultVars>>

RemoveExitedRows ==
  /\ sweep.pc = "delete"
  /\ RemoveKeys(sweep.rows)
  /\ sweep' = [pc |-> "done", rows |-> {}]
  /\ UNCHANGED <<docker, thread, loopVars, reaper, sync, faultVars>>

\* The gather of the chores returns.
NextIteration ==
  /\ phase = "chores"
  /\ reaper.pc = "done" /\ sync.pc = "done" /\ sweep.pc = "done"
  /\ phase' = "idle"
  /\ UNCHANGED <<containers, docker, thread, batch, choreVars, faultVars>>

\* The process dies with its threads and chores; the watchdog starts it again.
ScalerRestart ==
  /\ failures + crashes < MaxFaults
  /\ crashes' = crashes + 1
  /\ GlobalScaleLimit' \in ScaleLimits
  /\ thread' = [c \in Container |-> "none"]
  /\ phase' = "idle" /\ batch' = {}
  /\ Chores("done")
  /\ UNCHANGED <<containers, docker, failures>>

-----------------------------------------------------------------------------
(* The environment *)

\* A container's process ends.
Exits(c) ==
  /\ docker[c] = "running"
  /\ thread[c] = "address" => c \in Fragile
  /\ docker' = [docker EXCEPT ![c] = "exited"]
  /\ UNCHANGED <<containers, thread, loopVars, choreVars, faultVars>>

\* The Nexus: a worker registers, is claimed for a request, is found to be gone (a
\* worker the Nexus fails has exited or exits next: FailedIsFinal of LoadBalancer).
NexusMarks(c) ==
  /\ containers[c].ip # None
  /\ \/ docker[c] = "running" /\ MarkAvailable(AddrOf[c])
     \/ containers[c].status = "available" /\ ClaimAddress(ImageOf[c], AddrOf[c])
     \/ docker[c] # "running" /\ MarkFailed(AddrOf[c])
  /\ UNCHANGED <<docker, thread, loopVars, choreVars, faultVars>>

ThreadStep(c) ==
  InsertRow(c) \/ CreateContainer(c) \/ StartContainer(c) \/ ReadAddress(c) \/ Publish(c)
    \/ NotFound(c)

ReaperStep ==
  GetContainersToDestroy \/ RemoveDestroyed \/ \E c \in Container : StopAndRemove(c)

SyncStep == ListLiving \/ ReadRows \/ RemoveGhosts

SweepStep == RemoveExited \/ RemoveExitedRows

Next ==
  \/ CalculateScaleUp \/ NextIteration \/ ScalerRestart
  \/ ReaperStep \/ SyncStep \/ SkipSync \/ SweepStep
  \/ \E c \in Container : \/ ThreadStep(c) \/ DockerFails(c) \/ StopFails(c)
                          \/ Exits(c) \/ NexusMarks(c)

Spec == Init /\ [][Next]_vars

\* The loop with its chores goes on, so do the threads, and the sync's interval passes
\* now and then; nothing is assumed of Docker's containers or of the Nexus.  A chore has
\* a few steps in each round, so one condition for all of the loop lets none starve.
Fairness ==
  /\ WF_vars(CalculateScaleUp \/ NextIteration \/ ReaperStep \/ SyncStep \/ SkipSync
               \/ SweepStep)
  /\ WF_vars(\E c \in Container : ThreadStep(c))
  /\ SF_vars(ListLiving)

FairSpec == Spec /\ Fairness

-----------------------------------------------------------------------------
(* Properties *)

\* The published row of a running container is never deleted, although the sync lists
\* Docker and the table apart and the reaper selects, stops and deletes one after the
\* other; a failed Docker call may leave a thread behind that publishes in between.
LiveRowKept ==
  [][failures = 0 =>
       \A c \in Container :
         docker[c] = "running" /\ containers[c].ip # None =>
           containers'[c].status # "absent"]_vars

\* The rows that count against the limit never exceed it, as long as no thread is left
\* behind by a failed batch and no "destroying" row by a dead Scaler.
RowsWithinLimit ==
  failures = 0 /\ crashes = 0 => \A f \in Fn :
    WithStatus(f, {"provisioning", "available", "deployed", "busy"}) <= GlobalScaleLimit

\* Ghost rows, whose container is gone, are reclaimed whatever failed and crashed.
GhostRowsReclaimed ==
  \A c \in Container :
    containers[c].status # "absent" /\ docker[c] \in {"exited", "removed"}
      ~> containers[c].status = "absent"

\* The loop always comes round: no container keeps the Scaler from the others.
LoopComesRound == []<>(phase = "idle")

\* A container that runs without a row is stopped in the end, or gets one.
NoOrphan ==
  \A c \in Container :
    docker[c] = "running" /\ containers[c].status = "absent"
      ~> docker[c] # "running" \/ containers[c].status # "absent"
=============================================================================
