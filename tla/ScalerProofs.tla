---------------------------- MODULE ScalerProofs ----------------------------
(***************************************************************************)
(* Proofs about Scaler for any number of functions and containers, any     *)
(* limit, and any number of pending requests, failures and crashes.        *)
(***************************************************************************)
EXTENDS Scaler, FiniteSetTheorems, TLAPS

\* Docker gives each container an address of its own.
OwnAddresses == \A c, d \in Container : AddrOf[c] = AddrOf[d] => c = d

-----------------------------------------------------------------------------
(* The inductive invariant: what table, Docker and threads know of one container; *)
(* what holds as long as no Docker call failed; what holds if the Scaler never     *)
(* died either.                                                                    *)

Started == {"running", "exited", "removed"}

ShapeInv(c) ==
  /\ containers[c].ip \in {AddrOf[c], None}
  /\ containers[c].status = "absent" => containers[c].ip = None
  /\ containers[c].ip # None => thread[c] = "none" /\ docker[c] \in Started
  /\ thread[c] \in {"insert", "create"} => docker[c] = "none"
  /\ thread[c] = "publish" => docker[c] \in Started
  /\ containers[c].status = "failed" => /\ containers[c].ip # None
                                        /\ docker[c] \in {"exited", "removed"}

\* Threads run while the loop waits for them, and chores while no thread runs.
ThreadInv(c) ==
  /\ thread[c] # "none" => phase = "scaling" /\ c \in batch
  /\ thread[c] = "start" => docker[c] = "created"
  /\ thread[c] = "address" => docker[c] \in {"running", "exited"}

ChoresInv ==
  phase # "chores" => reaper.pc = "done" /\ sync.pc = "done" /\ sweep.pc = "done"

\* No chore is about to delete the published row of a running container.
Published(c) == [of |-> c, named |-> FALSE]

LiveInv(c) ==
  docker[c] = "running" =>
    /\ sync.pc = "read" => c \in sync.living
    /\ sync.pc = "delete" => Published(c) \notin sync.rows
    /\ reaper.pc = "stop" /\ Published(c) \in reaper.rows => c \in reaper.left
    /\ sweep.pc = "delete" => Published(c) \notin sweep.rows

QuietInv == failures = 0 => ChoresInv /\ \A c \in Container : ThreadInv(c) /\ LiveInv(c)

\* Rows that count against the limit, or will, or may do so again.
CountsNow == {"provisioning", "available", "deployed", "busy"}

Counted(f) ==
  {c \in Container : /\ ImageOf[c] = f
                     /\ \/ containers[c].status \in CountsNow
                        \/ containers[c].status = "destroying" /\ docker[c] = "running"
                        \/ thread[c] = "insert"}

ReservedInv(c) ==
  containers[c].status = "destroying" => reaper.pc = "stop" /\ Key(c) \in reaper.rows

CountInv ==
  failures = 0 /\ crashes = 0 =>
    /\ \A c \in Container : ReservedInv(c)
    /\ \A f \in Fn : Cardinality(Counted(f)) <= GlobalScaleLimit

ScalerInv ==
  /\ TypeOK /\ \A c \in Container : ShapeInv(c)
  /\ QuietInv /\ CountInv

-----------------------------------------------------------------------------
(* Type correctness *)

LEMMA InitScalerInv == Init => ScalerInv
<1>. SUFFICES ASSUME Init
              PROVE  ScalerInv
  OBVIOUS
<1>1. TypeOK
  <2>1. ContainersTypeOK
    BY DEF Init, ContainersInit, ContainersTypeOK, NoContainer, ContainerStatus
  <2>2. /\ GlobalScaleLimit \in ScaleLimits
        /\ failures \in 0..MaxFaults /\ crashes \in 0..MaxFaults
    BY ScalerConstants DEF Init
  <2>. QED  BY <2>1, <2>2 DEF Init, TypeOK
<1>2. \A c \in Container : ShapeInv(c)
  BY DEF Init, ContainersInit, NoContainer, ShapeInv
<1>3. QuietInv
  BY DEF Init, QuietInv, ChoresInv, ThreadInv, LiveInv
<1>4. CountInv
  <2>1. \A f \in Fn : Counted(f) = {}
    BY DEF Init, ContainersInit, NoContainer, Counted, CountsNow
  <2>2. 0 <= GlobalScaleLimit
    BY ScalerConstants DEF Init
  <2>. QED  BY <2>1, <2>2, FS_EmptySet DEF Init, ContainersInit, NoContainer, CountInv, ReservedInv
<1>. QED  BY <1>1, <1>2, <1>3, <1>4 DEF ScalerInv

\* The statements keep the type of the table.
LEMMA StatementType ==
  ASSUME ContainersTypeOK, NEW c \in Container, NEW S, NEW a, NEW f,
         \/ InsertProvisioning(c) \/ PublishDeployed(c) \/ ClaimAddress(f, a)
         \/ MarkAvailable(a) \/ MarkFailed(a) \/ MarkDestroying(S) \/ RemoveRows(S)
  PROVE  ContainersTypeOK'
BY AddrType
DEF ContainersTypeOK, ContainerStatus, InsertProvisioning, PublishDeployed, ClaimAddress,
    MarkAvailable, MarkFailed, MarkDestroying, RemoveRows, WithStatusAt, NoContainer

LEMMA KeyType == ASSUME NEW c \in Container PROVE Key(c) \in Keys
BY DEF Key, Keys

LEMMA ThreadType ==
  ASSUME TypeOK, NEW c \in Container, ThreadStep(c) \/ DockerFails(c)
  PROVE  TypeOK'
<1>. USE DEF TypeOK, Advance, loopVars, choreVars, faultVars
<1>. 0 \in Nat
  OBVIOUS
<1>1. CASE InsertRow(c)
  BY <1>1, StatementType DEF InsertRow
<1>2. CASE CreateContainer(c) \/ StartContainer(c) \/ ReadAddress(c)
  BY <1>2 DEF CreateContainer, StartContainer, ReadAddress, ContainersTypeOK
<1>3. CASE Publish(c)
  <2>1. ContainersTypeOK' /\ thread' \in [Container -> {"none", "insert", "create", "start", "address", "publish"}]
    BY <1>3, StatementType DEF Publish
  <2>. QED  BY <1>3, <2>1 DEF Publish, Chores
<1>4. CASE NotFound(c)
  BY <1>4 DEF NotFound, Raise, ContainersTypeOK
<1>5. CASE DockerFails(c)
  <2>1. failures' \in 0..MaxFaults
    BY <1>5, ScalerConstants DEF DockerFails
  <2>. QED  BY <1>5, <2>1 DEF DockerFails, Raise, ContainersTypeOK
<1>. QED  BY <1>1, <1>2, <1>3, <1>4, <1>5 DEF ThreadStep

LEMMA LoopType ==
  ASSUME TypeOK, CalculateScaleUp \/ NextIteration \/ ScalerRestart
  PROVE  TypeOK'
<1>. USE DEF TypeOK, ContainersTypeOK, Chores, loopVars, choreVars, faultVars
<1>1. CASE CalculateScaleUp
  <2>1. PICK S \in SUBSET Container :
          /\ batch' = S
          /\ thread' = [c \in Container |-> IF c \in S THEN "insert" ELSE thread[c]]
          /\ IF S = {} THEN phase' = "chores" /\ Chores("todo")
                       ELSE phase' = "scaling" /\ UNCHANGED choreVars
    BY <1>1 DEF CalculateScaleUp
  <2>. QED  BY <1>1, <2>1 DEF CalculateScaleUp
<1>2. CASE NextIteration
  BY <1>2 DEF NextIteration
<1>3. CASE ScalerRestart
  <2>1. crashes' \in 0..MaxFaults
    BY <1>3, ScalerConstants DEF ScalerRestart
  <2>. QED  BY <1>3, <2>1 DEF ScalerRestart
<1>. QED  BY <1>1, <1>2, <1>3

LEMMA ReaperType ==
  ASSUME TypeOK, ReaperStep \/ \E c \in Container : StopFails(c)
  PROVE  TypeOK'
<1>. USE DEF TypeOK, loopVars, choreVars, faultVars
<1>1. CASE GetContainersToDestroy
  <2>1. PICK S \in SUBSET Container :
          /\ MarkDestroying(S)
          /\ reaper' = IF S = {} THEN [reaper EXCEPT !.pc = "done"]
                       ELSE [pc |-> "stop", rows |-> {Key(c) : c \in S}, left |-> S]
    BY <1>1 DEF GetContainersToDestroy
  <2>2. {Key(c) : c \in S} \in SUBSET Keys
    BY KeyType
  <2>3. ContainersTypeOK'
    BY <2>1 DEF MarkDestroying, ContainersTypeOK, ContainerStatus
  <2>4. reaper' \in [pc : {"todo", "stop", "done"}, rows : SUBSET Keys, left : SUBSET Container]
    BY <2>1, <2>2
  <2>. QED  BY <1>1, <2>3, <2>4 DEF GetContainersToDestroy
<1>2. CASE RemoveDestroyed
  <2>1. ContainersTypeOK'
    BY <1>2 DEF RemoveDestroyed, RemoveKeys, RemoveRows, ContainersTypeOK, ContainerStatus,
                NoContainer
  <2>. QED  BY <1>2, <2>1 DEF RemoveDestroyed
<1>3. ASSUME NEW c \in Container, StopAndRemove(c)
      PROVE  TypeOK'
  BY <1>3 DEF StopAndRemove, ContainersTypeOK
<1>4. ASSUME NEW c \in Container, StopFails(c)
      PROVE  TypeOK'
  <2>1. failures' \in 0..MaxFaults
    BY <1>4, ScalerConstants DEF StopFails
  <2>. QED  BY <1>4, <2>1 DEF StopFails, ContainersTypeOK
<1>. QED  BY <1>1, <1>2, <1>3, <1>4 DEF ReaperStep

LEMMA SyncAndSweepType ==
  ASSUME TypeOK, SyncStep \/ SkipSync \/ SweepStep
  PROVE  TypeOK'
<1>. USE DEF TypeOK, loopVars, choreVars, faultVars
<1>1. CASE ListLiving \/ SkipSync
  <2>1. sync' \in [pc : {"todo", "read", "delete", "done"}, living : SUBSET Container,
                   rows : SUBSET Keys]
    <3>1. CASE ListLiving
      <4>1. {c \in Container : docker[c] = "running"} \in SUBSET Container
        OBVIOUS
      <4>. QED  BY <3>1, <4>1 DEF ListLiving
    <3>2. CASE SkipSync
      BY <3>2 DEF SkipSync
    <3>. QED  BY <1>1, <3>1, <3>2
  <2>. QED  BY <1>1, <2>1 DEF ListLiving, SkipSync, ContainersTypeOK
<1>2. CASE ReadRows
  <2>. DEFINE ghosts == {c \in Container : /\ containers[c].status # "absent"
                                           /\ containers[c].ip = None \/ c \notin sync.living}
  <2>1. {Key(c) : c \in ghosts} \in SUBSET Keys
    BY KeyType
  <2>2. sync' = [pc |-> IF ghosts = {} THEN "done" ELSE "delete", living |-> {},
                 rows |-> {Key(c) : c \in ghosts}]
    BY <1>2 DEF ReadRows
  <2>. QED  BY <1>2, <2>1, <2>2 DEF ReadRows, ContainersTypeOK
<1>3. CASE RemoveGhosts \/ RemoveExitedRows
  <2>1. ContainersTypeOK'
    BY <1>3 DEF RemoveGhosts, RemoveExitedRows, RemoveKeys, RemoveRows, ContainersTypeOK,
                ContainerStatus, NoContainer
  <2>. QED  BY <1>3, <2>1 DEF RemoveGhosts, RemoveExitedRows
<1>4. CASE RemoveExited
  <2>. DEFINE exited == {c \in Container : docker[c] = "exited"}
  <2>1. [of : exited, named : {FALSE}] \in SUBSET Keys
    BY DEF Keys
  <2>2. docker' = [c \in Container |-> IF c \in exited THEN "removed" ELSE docker[c]]
    BY <1>4 DEF RemoveExited
  <2>3. sweep' = [pc |-> IF exited = {} THEN "done" ELSE "delete",
                  rows |-> [of : exited, named : {FALSE}]]
    BY <1>4 DEF RemoveExited
  <2>4. docker' \in [Container -> {"none", "created", "running", "exited", "removed"}]
    BY <2>2
  <2>5. sweep' \in [pc : {"todo", "delete", "done"}, rows : SUBSET Keys]
    BY <2>1, <2>3
  <2>. QED  BY <1>4, <2>4, <2>5 DEF RemoveExited, ContainersTypeOK
<1>. QED  BY <1>1, <1>2, <1>3, <1>4 DEF SyncStep, SweepStep

LEMMA EnvironmentType ==
  ASSUME TypeOK, NEW c \in Container, Exits(c) \/ NexusMarks(c)
  PROVE  TypeOK'
<1>1. CASE Exits(c)
  BY <1>1 DEF Exits, TypeOK, ContainersTypeOK, loopVars, choreVars, faultVars
<1>2. CASE NexusMarks(c)
  <2>1. ContainersTypeOK'
    BY <1>2, StatementType DEF NexusMarks, TypeOK
  <2>. QED  BY <1>2, <2>1 DEF NexusMarks, TypeOK, loopVars, choreVars, faultVars
<1>. QED  BY <1>1, <1>2

LEMMA NextType == TypeOK /\ [Next]_vars => TypeOK'
<1>1. TypeOK /\ Next => TypeOK'
  BY ThreadType, LoopType, ReaperType, SyncAndSweepType, EnvironmentType DEF Next
<1>2. TypeOK /\ UNCHANGED vars => TypeOK'
  BY DEF TypeOK, ContainersTypeOK, vars, loopVars, choreVars, faultVars
<1>. QED  BY <1>1, <1>2

\* Type correctness of the Scaler, the table of containers and Docker's fleet.
THEOREM ScalerTypeCorrect == Spec => []TypeOK
<1>1. Init => TypeOK
  BY InitScalerInv DEF ScalerInv
<1>. QED  BY <1>1, NextType, PTL DEF Spec

-----------------------------------------------------------------------------
(* One container *)

\* With addresses of their own an UPDATE by address touches one row.
LEMMA RowByAddress ==
  ASSUME OwnAddresses, \A e \in Container : ShapeInv(e), NEW c \in Container,
         NEW d \in Container, containers[d].ip = AddrOf[c], NEW s
  PROVE  d = c /\ \A e \in Container :
           WithStatusAt(AddrOf[c], s)[e] =
             IF e = c THEN [containers[e] EXCEPT !.status = s] ELSE containers[e]
<1>. USE NoContainerIsNone, AddrType
<1>1. \A e \in Container : containers[e].ip = AddrOf[c] => e = c
  BY DEF ShapeInv, OwnAddresses
<1>. QED  BY <1>1 DEF WithStatusAt

LEMMA ThreadShape ==
  ASSUME TypeOK, \A e \in Container : ShapeInv(e), NEW c \in Container,
         ThreadStep(c) \/ DockerFails(c), NEW d \in Container
  PROVE  ShapeInv(d)'
<1>. USE DEF TypeOK, ContainersTypeOK, ShapeInv, Advance, Started
<1>1. CASE InsertRow(c)
  BY <1>1 DEF InsertRow, InsertProvisioning, NoContainer
<1>2. CASE CreateContainer(c) \/ StartContainer(c) \/ ReadAddress(c)
  BY <1>2 DEF CreateContainer, StartContainer, ReadAddress
<1>3. CASE Publish(c)
  BY <1>3 DEF Publish, PublishDeployed
<1>4. CASE NotFound(c) \/ DockerFails(c)
  BY <1>4 DEF NotFound, DockerFails, Raise
<1>. QED  BY <1>1, <1>2, <1>3, <1>4 DEF ThreadStep

LEMMA MarkShape ==
  ASSUME OwnAddresses, TypeOK, \A e \in Container : ShapeInv(e), NEW c \in Container,
         NexusMarks(c), NEW d \in Container
  PROVE  ShapeInv(d)'
<1>1. containers[c].ip = AddrOf[c]
  BY DEF NexusMarks, ShapeInv
<1>2. PICK s \in {"available", "busy", "failed"} :
        /\ containers' = WithStatusAt(AddrOf[c], s)
        /\ s = "failed" => docker[c] # "running"
  BY DEF NexusMarks, MarkAvailable, ClaimAddress, MarkFailed
<1>3. containers'[d] = IF d = c THEN [containers[d] EXCEPT !.status = s] ELSE containers[d]
  BY <1>1, <1>2, RowByAddress
<1>. QED  BY <1>1, <1>2, <1>3, NoContainerIsNone
          DEF NexusMarks, TypeOK, ContainersTypeOK, ShapeInv, Started

LEMMA ShapeStep ==
  ASSUME OwnAddresses, TypeOK, \A e \in Container : ShapeInv(e), [Next]_vars,
         NEW d \in Container
  PROVE  ShapeInv(d)'
<1>. USE DEF TypeOK, ContainersTypeOK, Started
<1>1. CASE UNCHANGED <<containers, docker, thread>>
  BY <1>1 DEF ShapeInv
<1>2. CASE CalculateScaleUp
  BY <1>2 DEF CalculateScaleUp, Fresh, ShapeInv
<1>3. CASE ScalerRestart
  BY <1>3 DEF ScalerRestart, ShapeInv
<1>4. CASE GetContainersToDestroy
  BY <1>4 DEF GetContainersToDestroy, MarkDestroying, ShapeInv
<1>5. ASSUME NEW c \in Container, StopAndRemove(c)
      PROVE  ShapeInv(d)'
  BY <1>5 DEF StopAndRemove, ShapeInv
<1>6. CASE RemoveDestroyed \/ RemoveGhosts \/ RemoveExitedRows
  BY <1>6 DEF RemoveDestroyed, RemoveGhosts, RemoveExitedRows, RemoveKeys, RemoveRows,
              NoContainer, ShapeInv
<1>7. CASE RemoveExited
  BY <1>7 DEF RemoveExited, ShapeInv
<1>8. ASSUME NEW c \in Container, Exits(c)
      PROVE  ShapeInv(d)'
  BY <1>8 DEF Exits, ShapeInv
<1>. QED  BY <1>1, <1>2, <1>3, <1>4, <1>5, <1>6, <1>7, <1>8, ThreadShape, MarkShape
          DEF Next, NextIteration, ReaperStep, SyncStep, ListLiving, ReadRows, SkipSync, SweepStep,
              StopFails, vars

-----------------------------------------------------------------------------
(* Without failures threads and chores take turns. *)

Quiet == failures = 0 /\ ChoresInv /\ \A c \in Container : ThreadInv(c) /\ LiveInv(c)

LEMMA ThreadQuiet ==
  ASSUME TypeOK, Quiet, NEW c \in Container, ThreadStep(c)
  PROVE  Quiet'
<1>. USE DEF TypeOK, Quiet, Advance, loopVars, choreVars, faultVars
<1>1. phase = "scaling" /\ c \in batch
  BY DEF ThreadStep, InsertRow, CreateContainer, StartContainer, ReadAddress, Publish, NotFound,
         ThreadInv
<1>2. reaper.pc = "done" /\ sync.pc = "done" /\ sweep.pc = "done"
  BY <1>1 DEF ChoresInv
<1>3. CASE InsertRow(c) \/ CreateContainer(c) \/ StartContainer(c) \/ ReadAddress(c)
  BY <1>1, <1>2, <1>3 DEF InsertRow, CreateContainer, StartContainer, ReadAddress, ChoresInv,
                          ThreadInv, LiveInv
<1>4. CASE Publish(c)
  <2>1. \A d \in Container : d # c => thread'[d] = thread[d]
    BY <1>4 DEF Publish
  <2>2. CASE batch = {c}
    BY <1>4, <2>1, <2>2 DEF Publish, Chores, ChoresInv, ThreadInv, LiveInv
  <2>3. CASE batch # {c}
    BY <1>1, <1>2, <1>4, <2>1, <2>3 DEF Publish, ChoresInv, ThreadInv, LiveInv
  <2>. QED  BY <2>2, <2>3
<1>5. ~NotFound(c)
  BY DEF NotFound, ThreadInv
<1>. QED  BY <1>3, <1>4, <1>5 DEF ThreadStep

LEMMA LoopQuiet ==
  ASSUME TypeOK, Quiet, CalculateScaleUp \/ NextIteration \/ ScalerRestart
  PROVE  Quiet'
<1>. USE DEF TypeOK, Quiet, Chores, loopVars, choreVars, faultVars
<1>1. CASE CalculateScaleUp
  <2>1. PICK S \in SUBSET Container :
          /\ batch' = S
          /\ thread' = [c \in Container |-> IF c \in S THEN "insert" ELSE thread[c]]
          /\ IF S = {} THEN phase' = "chores" /\ Chores("todo")
                       ELSE phase' = "scaling" /\ UNCHANGED choreVars
    BY <1>1 DEF CalculateScaleUp
  <2>2. reaper.pc = "done" /\ sync.pc = "done" /\ sweep.pc = "done"
    BY <1>1 DEF CalculateScaleUp, ChoresInv
  <2>3. \A d \in Container : thread[d] = "none"
    BY <1>1 DEF CalculateScaleUp, ThreadInv
  <2>. QED  BY <1>1, <2>1, <2>2, <2>3 DEF CalculateScaleUp, ChoresInv, ThreadInv, LiveInv
<1>2. CASE NextIteration
  BY <1>2 DEF NextIteration, ChoresInv, ThreadInv, LiveInv
<1>3. CASE ScalerRestart
  BY <1>3 DEF ScalerRestart, ChoresInv, ThreadInv, LiveInv
<1>. QED  BY <1>1, <1>2, <1>3

\* A chore is never under way outside its phase, when threads could start containers.
LEMMA ChoreQuiet ==
  ASSUME TypeOK, Quiet, ReaperStep \/ SyncStep \/ SkipSync \/ SweepStep
  PROVE  Quiet'
<1>. USE DEF TypeOK, Quiet, loopVars, choreVars, faultVars
<1>1. phase = "chores"
  BY DEF ReaperStep, GetContainersToDestroy, RemoveDestroyed, StopAndRemove, SyncStep, ListLiving,
         ReadRows, RemoveGhosts, SkipSync, SweepStep, RemoveExited, RemoveExitedRows, ChoresInv
<1>2. \A d \in Container : thread[d] = "none"
  BY <1>1 DEF ThreadInv
<1>3. ChoresInv' /\ \A d \in Container : ThreadInv(d)'
  BY <1>1, <1>2
  DEF ReaperStep, GetContainersToDestroy, RemoveDestroyed, StopAndRemove, SyncStep, ListLiving,
      ReadRows, RemoveGhosts, SkipSync, SweepStep, RemoveExited, RemoveExitedRows, ChoresInv,
      ThreadInv
<1>4. ASSUME NEW d \in Container
      PROVE  LiveInv(d)'
  <2>. USE DEF LiveInv
  <2>1. CASE GetContainersToDestroy
    <3>1. PICK S \in SUBSET Container :
            reaper' = IF S = {} THEN [reaper EXCEPT !.pc = "done"]
                      ELSE [pc |-> "stop", rows |-> {Key(c) : c \in S}, left |-> S]
      BY <2>1 DEF GetContainersToDestroy
    <3>2. Published(d) \in {Key(c) : c \in S} => d \in S
      BY DEF Key, Published
    <3>. QED  BY <2>1, <3>1, <3>2 DEF GetContainersToDestroy
  <2>2. CASE RemoveDestroyed \/ RemoveGhosts \/ SkipSync \/ RemoveExitedRows
    BY <2>2 DEF RemoveDestroyed, RemoveGhosts, SkipSync, RemoveExitedRows
  <2>3. CASE ListLiving
    <3>1. sync'.pc = "read" /\ sync'.living = {c \in Container : docker[c] = "running"}
      BY <2>3 DEF ListLiving
    <3>. QED  BY <2>3, <3>1 DEF ListLiving
  <2>4. ASSUME NEW c \in Container, StopAndRemove(c)
        PROVE  LiveInv(d)'
    BY <2>4 DEF StopAndRemove
  <2>5. CASE ReadRows
    <3>. DEFINE ghosts == {c \in Container : /\ containers[c].status # "absent"
                                             /\ containers[c].ip = None \/ c \notin sync.living}
    <3>1. /\ sync.pc = "read" /\ UNCHANGED <<docker, reaper, sweep>>
          /\ sync' = [pc |-> IF ghosts = {} THEN "done" ELSE "delete", living |-> {},
                      rows |-> {Key(c) : c \in ghosts}]
      BY <2>5 DEF ReadRows
    <3>2. Published(d) \in {Key(c) : c \in ghosts} => d \notin sync.living
      BY DEF Key, Published
    <3>. HIDE DEF ghosts
    <3>. QED  BY <1>4, <3>1, <3>2
  <2>6. CASE RemoveExited
    BY <2>6 DEF RemoveExited, Published
  <2>. QED  BY <2>1, <2>2, <2>3, <2>4, <2>5, <2>6 DEF ReaperStep, SyncStep, SweepStep
<1>5. failures' = 0
  BY DEF ReaperStep, GetContainersToDestroy, RemoveDestroyed, StopAndRemove, SyncStep, ListLiving,
         ReadRows, RemoveGhosts, SkipSync, SweepStep, RemoveExited, RemoveExitedRows
<1>. QED  BY <1>3, <1>4, <1>5

LEMMA EnvironmentQuiet ==
  ASSUME TypeOK, Quiet, NEW c \in Container, Exits(c) \/ NexusMarks(c)
  PROVE  Quiet'
<1>. USE DEF TypeOK, Quiet, ChoresInv, ThreadInv, LiveInv, loopVars, choreVars, faultVars
<1>1. CASE Exits(c)
  BY <1>1 DEF Exits
<1>2. CASE NexusMarks(c)
  BY <1>2 DEF NexusMarks
<1>. QED  BY <1>1, <1>2

LEMMA QuietStep == TypeOK /\ QuietInv /\ [Next]_vars => QuietInv'
<1>. SUFFICES ASSUME TypeOK, QuietInv, [Next]_vars, failures' = 0
              PROVE  Quiet'
  BY DEF QuietInv, Quiet
<1>1. Quiet /\ \A c \in Container : ~DockerFails(c) /\ ~StopFails(c)
  <2>1. \A c \in Container : ~DockerFails(c) /\ ~StopFails(c)
    BY DEF DockerFails, StopFails, TypeOK
  <2>2. failures' = failures
    BY <2>1
    DEF Next, ThreadStep, InsertRow, CreateContainer, StartContainer, ReadAddress, Publish,
        NotFound, CalculateScaleUp, NextIteration, ScalerRestart, ReaperStep,
        GetContainersToDestroy, RemoveDestroyed, StopAndRemove, SyncStep, ListLiving, ReadRows,
        RemoveGhosts, SkipSync, SweepStep, RemoveExited, RemoveExitedRows, Exits, NexusMarks,
        faultVars, vars
  <2>. QED  BY <2>1, <2>2 DEF QuietInv, Quiet
<1>2. CASE Next
  BY <1>1, <1>2, ThreadQuiet, LoopQuiet, ChoreQuiet, EnvironmentQuiet DEF Next
<1>3. CASE UNCHANGED vars
  BY <1>1, <1>3 DEF vars, loopVars, choreVars, faultVars, Quiet, ChoresInv, ThreadInv, LiveInv
<1>. QED  BY <1>2, <1>3

\* A published row of a running container survives every DELETE: the reaper stops the
\* container before, the sync has seen it run, the sweep selects what has exited.
LEMMA LiveStep ==
  ASSUME TypeOK, \A e \in Container : ShapeInv(e), QuietInv, Next, failures = 0,
         NEW c \in Container, docker[c] = "running", containers[c].ip # None
  PROVE  containers'[c].status # "absent"
<1>. USE DEF TypeOK, ContainersTypeOK
<1>1. containers[c].status # "absent" /\ Key(c) = Published(c) /\ LiveInv(c)
  BY DEF ShapeInv, Key, Published, QuietInv
<1>2. CASE RemoveDestroyed \/ RemoveGhosts \/ RemoveExitedRows
  <2>1. PICK K : containers' = [d \in Container |-> IF Key(d) \in K THEN NoContainer
                                                    ELSE containers[d]]
                 /\ \/ RemoveDestroyed /\ K = reaper.rows
                    \/ RemoveGhosts /\ K = sync.rows
                    \/ RemoveExitedRows /\ K = sweep.rows
    BY <1>2 DEF RemoveDestroyed, RemoveGhosts, RemoveExitedRows, RemoveKeys, RemoveRows
  <2>2. Key(c) \notin K
    BY <1>1, <2>1 DEF LiveInv, RemoveDestroyed, RemoveGhosts, RemoveExitedRows
  <2>. QED  BY <1>1, <2>1, <2>2
<1>3. ASSUME NEW d \in Container, InsertRow(d) \/ Publish(d)
      PROVE  containers'[c].status # "absent"
  BY <1>1, <1>3 DEF InsertRow, InsertProvisioning, Publish, PublishDeployed, NoContainer
<1>4. ASSUME NEW d \in Container, NexusMarks(d)
      PROVE  containers'[c].status # "absent"
  BY <1>1, <1>4 DEF NexusMarks, MarkAvailable, ClaimAddress, MarkFailed, WithStatusAt
<1>5. CASE GetContainersToDestroy
  BY <1>1, <1>5 DEF GetContainersToDestroy, MarkDestroying
<1>6. CASE UNCHANGED containers
  BY <1>1, <1>6
<1>. QED  BY <1>2, <1>3, <1>4, <1>5, <1>6
          DEF Next, ThreadStep, CreateContainer, StartContainer, ReadAddress, NotFound,
              DockerFails, Raise, CalculateScaleUp, NextIteration, ScalerRestart, ReaperStep,
              StopAndRemove, StopFails, SyncStep, ListLiving, ReadRows, SkipSync, SweepStep,
              RemoveExited, Exits

-----------------------------------------------------------------------------
(* The limit, if the Scaler has never died either *)

\* Only a new calculation adds to what counts.
LEMMA CountedShrinks ==
  ASSUME OwnAddresses, TypeOK, \A e \in Container : ShapeInv(e), Quiet,
         \A e \in Container : ReservedInv(e), [Next]_vars, failures' = 0, ~CalculateScaleUp,
         NEW f
  PROVE  Counted(f)' \subseteq Counted(f)
<1>. USE DEF TypeOK, ContainersTypeOK, Quiet, Counted, CountsNow
<1>. SUFFICES ASSUME NEW d \in Container, d \in Counted(f)'
              PROVE  d \in Counted(f)
  OBVIOUS
<1>1. CASE UNCHANGED <<containers, docker, thread>>
  BY <1>1
<1>2. ASSUME NEW c \in Container, ThreadStep(c)
      PROVE  d \in Counted(f)
  <2>1. phase = "scaling" /\ \A e \in Container : containers[e].status # "destroying"
    BY <1>2 DEF ThreadStep, InsertRow, CreateContainer, StartContainer, ReadAddress, Publish,
                NotFound, Advance, ThreadInv, ChoresInv, ReservedInv
  <2>2. CASE InsertRow(c)
    BY <2>1, <2>2 DEF InsertRow, InsertProvisioning, NoContainer, Advance
  <2>3. CASE CreateContainer(c) \/ StartContainer(c) \/ ReadAddress(c)
    BY <2>1, <2>3 DEF CreateContainer, StartContainer, ReadAddress, Advance
  <2>4. CASE Publish(c)
    <3>1. containers[c].ip = None => containers[c].status # "failed"
      BY DEF ShapeInv
    <3>2. containers[c].status # "absent" /\ containers[c].ip = None =>
            containers[c].status \in {"provisioning", "available", "deployed", "busy"}
      BY <2>1, <3>1 DEF ContainerStatus
    <3>. QED  BY <2>1, <2>4, <3>2 DEF Publish, PublishDeployed, Advance
  <2>5. ~NotFound(c)
    BY DEF NotFound, ThreadInv
  <2>. QED  BY <1>2, <2>2, <2>3, <2>4, <2>5 DEF ThreadStep
<1>3. CASE ScalerRestart
  BY <1>3 DEF ScalerRestart
<1>4. CASE GetContainersToDestroy
  <2>1. PICK S \in SUBSET Container :
          /\ \A c \in S : containers[c].status \notin {"absent", "destroying"}
          /\ MarkDestroying(S)
    BY <1>4 DEF GetContainersToDestroy
  <2>2. d \in S /\ docker[d] = "running" =>
          containers[d].status \in {"provisioning", "available", "deployed", "busy"}
    BY <2>1 DEF ShapeInv, ContainerStatus
  <2>. QED  BY <1>4, <2>1, <2>2 DEF GetContainersToDestroy, MarkDestroying
<1>5. ASSUME NEW c \in Container, StopAndRemove(c) \/ Exits(c)
      PROVE  d \in Counted(f)
  BY <1>5 DEF StopAndRemove, Exits
<1>6. CASE RemoveDestroyed \/ RemoveGhosts \/ RemoveExitedRows
  BY <1>6 DEF RemoveDestroyed, RemoveGhosts, RemoveExitedRows, RemoveKeys, RemoveRows, NoContainer
<1>7. CASE RemoveExited
  BY <1>7 DEF RemoveExited
<1>8. ASSUME NEW c \in Container, NexusMarks(c)
      PROVE  d \in Counted(f)
  <2>1. containers[c].ip = AddrOf[c] /\ UNCHANGED <<docker, thread>>
    BY <1>8 DEF NexusMarks, ShapeInv
  <2>2. PICK s \in {"available", "busy", "failed"} :
          /\ containers' = WithStatusAt(AddrOf[c], s)
          /\ s = "available" => docker[c] = "running"
          /\ s = "busy" => \E e \in Container : /\ containers[e].status = "available"
                                                /\ containers[e].ip = AddrOf[c]
    BY <1>8 DEF NexusMarks, MarkAvailable, ClaimAddress, AvailableFor, MarkFailed
  <2>3. containers'[d] = IF d = c THEN [containers[d] EXCEPT !.status = s] ELSE containers[d]
    <3>1. containers[d].ip = AddrOf[c] <=> d = c
      BY <2>1, NoContainerIsNone, AddrType DEF ShapeInv, OwnAddresses
    <3>. QED  BY <2>2, <3>1 DEF WithStatusAt
  <2>4. s = "busy" => containers[c].status = "available"
    BY <2>2, NoContainerIsNone, AddrType DEF ShapeInv, OwnAddresses
  <2>5. s = "available" =>
          \/ containers[c].status \in {"provisioning", "available", "deployed", "busy"}
          \/ containers[c].status = "destroying" /\ docker[c] = "running"
    <3>1. containers[c].ip # None
      BY <2>1, NoContainerIsNone, AddrType
    <3>2. containers[c].status # "absent"
      BY <3>1 DEF ShapeInv
    <3>3. s = "available" => containers[c].status # "failed"
      BY <2>2 DEF ShapeInv
    <3>. QED  BY <2>2, <3>2, <3>3 DEF ContainerStatus
  <2>. QED  BY <2>1, <2>3, <2>4, <2>5
<1>. QED  BY <1>1, <1>2, <1>3, <1>4, <1>5, <1>6, <1>7, <1>8
          DEF Next, NextIteration, ReaperStep, SyncStep, ListLiving, ReadRows, SkipSync, SweepStep,
              StopFails, DockerFails, vars

\* A new calculation adds no more than the limit leaves room for.
LEMMA ToCreateBound ==
  ASSUME IsFiniteSet(Container), TypeOK, NEW f, NEW pending \in Nat,
         WithStatus(f, CountsNow) <= GlobalScaleLimit
  PROVE  /\ ToCreate(f, pending) \in Nat
         /\ WithStatus(f, CountsNow) + ToCreate(f, pending) <= GlobalScaleLimit
<1>. DEFINE Of(S) == {c \in Container : ImageOf[c] = f /\ containers[c].status \in S}
            ready == {"provisioning", "available", "deployed"}
            capacity == WithStatus(f, ready)
            existing == WithStatus(f, {"provisioning", "available", "deployed", "busy"})
            lacking == IF pending > capacity THEN pending - capacity ELSE 0
            allowed == IF GlobalScaleLimit > existing THEN GlobalScaleLimit - existing ELSE 0
<1>1. capacity \in Nat /\ existing \in Nat
  <2>1. Of(ready) \in SUBSET Container
        /\ Of({"provisioning", "available", "deployed", "busy"}) \in SUBSET Container
    OBVIOUS
  <2>. QED  BY <2>1, FS_Subset, FS_CardinalityType DEF WithStatus
<1>2. existing = WithStatus(f, CountsNow)
  BY DEF CountsNow
<1>3. ToCreate(f, pending) = IF lacking < allowed THEN lacking ELSE allowed
  BY DEF ToCreate
<1>. HIDE DEF capacity, existing
<1>4. GlobalScaleLimit \in Nat
  BY ScalerConstants DEF TypeOK
<1>. QED  BY <1>1, <1>2, <1>3, <1>4

LEMMA CountedGrows ==
  ASSUME IsFiniteSet(Container), TypeOK, Quiet, \A e \in Container : ReservedInv(e),
         CalculateScaleUp, NEW f \in Fn, Cardinality(Counted(f)) <= GlobalScaleLimit
  PROVE  Cardinality(Counted(f)') <= GlobalScaleLimit
<1>. GlobalScaleLimit \in Nat
  BY ScalerConstants DEF TypeOK
<1>. DEFINE existing == {c \in Container : ImageOf[c] = f /\ containers[c].status \in CountsNow}
<1>1. \A e \in Container : thread[e] = "none" /\ containers[e].status # "destroying"
  BY DEF CalculateScaleUp, Quiet, ThreadInv, ChoresInv, ReservedInv
<1>2. Counted(f) = existing
  BY <1>1 DEF Counted
<1>3. PICK pending \in [Fn -> 0..MaxPending], S \in SUBSET Container :
        /\ Cardinality({c \in S : ImageOf[c] = f}) = ToCreate(f, pending[f])
        /\ thread' = [c \in Container |-> IF c \in S THEN "insert" ELSE thread[c]]
  BY DEF CalculateScaleUp
<1>. DEFINE new == {c \in S : ImageOf[c] = f}
<1>4. Counted(f)' = existing \cup new
  BY <1>1, <1>3 DEF Counted, CountsNow, CalculateScaleUp
<1>5. IsFiniteSet(existing) /\ IsFiniteSet(new) /\ IsFiniteSet(existing \cap new)
  <2>1. existing \in SUBSET Container /\ new \in SUBSET Container
        /\ (existing \cap new) \in SUBSET Container
    OBVIOUS
  <2>. QED  BY <2>1, FS_Subset
<1>6. Cardinality(existing \cup new) <= Cardinality(existing) + Cardinality(new)
  <2>1. Cardinality(existing \cup new)
          = Cardinality(existing) + Cardinality(new) - Cardinality(existing \cap new)
    BY <1>5, FS_Union
  <2>2. /\ Cardinality(existing) \in Nat /\ Cardinality(new) \in Nat
        /\ Cardinality(existing \cap new) \in Nat
    BY <1>5, FS_CardinalityType
  <2>. QED  BY <2>1, <2>2
<1>7. Cardinality(existing) = WithStatus(f, CountsNow)
  BY DEF WithStatus
<1>8. Cardinality(existing) + Cardinality(new) <= GlobalScaleLimit
  <2>1. pending[f] \in Nat
    BY ScalerConstants
  <2>. QED  BY <1>2, <1>3, <1>7, <2>1, ToCreateBound
<1>9. Cardinality(existing) \in Nat /\ Cardinality(new) \in Nat
      /\ Cardinality(existing \cup new) \in Nat
  BY <1>5, FS_CardinalityType, FS_Union
<1>. QED  BY <1>4, <1>6, <1>8, <1>9

\* A reserved row stays in the reaper's hands until it is deleted.
LEMMA ReservedStep ==
  ASSUME OwnAddresses, TypeOK, \A e \in Container : ShapeInv(e), Quiet,
         \A e \in Container : ReservedInv(e), [Next]_vars, failures' = 0, crashes' = crashes,
         NEW d \in Container
  PROVE  ReservedInv(d)'
<1>. USE DEF TypeOK, ContainersTypeOK, Quiet, ReservedInv
<1>1. CASE UNCHANGED <<containers, reaper>>
  BY <1>1 DEF Key
<1>2. CASE CalculateScaleUp \/ \E c \in Container : InsertRow(c) \/ Publish(c)
  <2>1. \A e \in Container : containers[e].status # "destroying"
    BY <1>2 DEF CalculateScaleUp, InsertRow, Publish, Advance, ThreadInv, ChoresInv
  <2>2. \A e \in Container : containers'[e].status # "destroying"
    BY <1>2, <2>1 DEF CalculateScaleUp, InsertRow, InsertProvisioning, Publish, PublishDeployed,
                      NoContainer
  <2>. QED  BY <2>2
<1>3. CASE GetContainersToDestroy
  <2>1. PICK S \in SUBSET Container :
          /\ MarkDestroying(S)
          /\ reaper' = IF S = {} THEN [reaper EXCEPT !.pc = "done"]
                       ELSE [pc |-> "stop", rows |-> {Key(c) : c \in S}, left |-> S]
    BY <1>3 DEF GetContainersToDestroy
  <2>2. containers[d].status # "destroying"
    BY <1>3 DEF GetContainersToDestroy
  <2>3. containers'[d].status = "destroying" => d \in S /\ containers'[d].ip = containers[d].ip
    BY <2>1, <2>2 DEF MarkDestroying
  <2>4. d \in S => reaper'.pc = "stop" /\ Key(d) \in reaper'.rows
    BY <2>1
  <2>. QED  BY <2>3, <2>4 DEF Key
<1>4. CASE RemoveDestroyed
  BY <1>4 DEF RemoveDestroyed, RemoveKeys, RemoveRows, NoContainer
<1>5. CASE RemoveGhosts \/ RemoveExitedRows
  <2>1. UNCHANGED reaper /\ containers'[d] \in {containers[d], NoContainer}
    BY <1>5 DEF RemoveGhosts, RemoveExitedRows, RemoveKeys, RemoveRows
  <2>2. NoContainer.status # "destroying"
    BY DEF NoContainer
  <2>3. CASE containers'[d] = containers[d]
    BY <2>1, <2>3 DEF Key
  <2>4. CASE containers'[d] = NoContainer
    BY <2>2, <2>4
  <2>. QED  BY <2>1, <2>3, <2>4
<1>6. ASSUME NEW c \in Container, StopAndRemove(c)
      PROVE  ReservedInv(d)'
  BY <1>6 DEF StopAndRemove, Key
<1>7. ASSUME NEW c \in Container, NexusMarks(c)
      PROVE  ReservedInv(d)'
  <2>1. PICK s \in {"available", "busy", "failed"} : containers' = WithStatusAt(AddrOf[c], s)
    BY <1>7 DEF NexusMarks, MarkAvailable, ClaimAddress, MarkFailed
  <2>2. containers'[d] = containers[d] \/ containers'[d].status = s
    BY <2>1 DEF WithStatusAt
  <2>. QED  BY <1>7, <2>2 DEF NexusMarks, choreVars, Key
<1>8. ~ScalerRestart /\ \A c \in Container : ~DockerFails(c) /\ ~StopFails(c)
  BY DEF ScalerRestart, DockerFails, StopFails
<1>9. ASSUME NEW c \in Container, NotFound(c) \/ Exits(c)
      PROVE  ReservedInv(d)'
  BY <1>1, <1>9 DEF NotFound, Raise, Exits, choreVars
<1>10. ASSUME NEW c \in Container, CreateContainer(c) \/ StartContainer(c) \/ ReadAddress(c)
       PROVE  ReservedInv(d)'
  BY <1>1, <1>10 DEF CreateContainer, StartContainer, ReadAddress, choreVars
<1>11. CASE NextIteration \/ ListLiving \/ ReadRows \/ SkipSync \/ RemoveExited \/ UNCHANGED vars
  BY <1>1, <1>11 DEF NextIteration, ListLiving, ReadRows, SkipSync, RemoveExited, choreVars, vars
<1>. QED  BY <1>2, <1>3, <1>4, <1>5, <1>6, <1>7, <1>8, <1>9, <1>10, <1>11
          DEF Next, ThreadStep, ReaperStep, SyncStep, SweepStep

LEMMA CountStep ==
  ASSUME OwnAddresses, IsFiniteSet(Container), ScalerInv, [Next]_vars
  PROVE  CountInv'
<1>. USE DEF ScalerInv
<1>. SUFFICES ASSUME failures' = 0, crashes' = 0
              PROVE  /\ \A c \in Container : ReservedInv(c)'
                     /\ \A f \in Fn : Cardinality(Counted(f)') <= GlobalScaleLimit'
  BY DEF CountInv
<1>1. failures = 0 /\ crashes = 0 /\ GlobalScaleLimit' = GlobalScaleLimit
  <2>1. ~ScalerRestart /\ \A c \in Container : ~DockerFails(c) /\ ~StopFails(c)
    BY DEF ScalerRestart, DockerFails, StopFails, TypeOK
  <2>. QED  BY <2>1
       DEF Next, ThreadStep, InsertRow, CreateContainer, StartContainer, ReadAddress, Publish,
           NotFound, CalculateScaleUp, NextIteration, ReaperStep, GetContainersToDestroy,
           RemoveDestroyed, StopAndRemove, SyncStep, ListLiving, ReadRows, RemoveGhosts, SkipSync,
           SweepStep, RemoveExited, RemoveExitedRows, Exits, NexusMarks, faultVars, vars
<1>2. Quiet /\ \A c \in Container : ReservedInv(c)
  BY <1>1 DEF QuietInv, Quiet, CountInv
<1>3. ASSUME NEW f \in Fn
      PROVE  Cardinality(Counted(f)') <= GlobalScaleLimit'
  <2>. GlobalScaleLimit \in Nat /\ GlobalScaleLimit' = GlobalScaleLimit
    BY <1>1, ScalerConstants DEF TypeOK
  <2>1. Cardinality(Counted(f)) <= GlobalScaleLimit
    BY <1>1 DEF CountInv
  <2>2. CASE CalculateScaleUp
    BY <1>2, <2>1, <2>2, CountedGrows
  <2>3. CASE ~CalculateScaleUp
    <3>1. Counted(f)' \subseteq Counted(f)
      BY <1>2, <2>3, CountedShrinks
    <3>2. IsFiniteSet(Counted(f))
      <4>1. Counted(f) \in SUBSET Container
        BY DEF Counted
      <4>. QED  BY <4>1, FS_Subset
    <3>3. /\ Cardinality(Counted(f)') <= Cardinality(Counted(f))
          /\ Cardinality(Counted(f)') \in Nat /\ Cardinality(Counted(f)) \in Nat
      BY <3>1, <3>2, FS_Subset, FS_CardinalityType
    <3>. QED  BY <2>1, <3>3
  <2>. QED  BY <2>2, <2>3
<1>. QED  BY <1>1, <1>2, <1>3, ReservedStep

\* The invariant is inductive.
LEMMA ScalerInvAlways == ASSUME OwnAddresses, IsFiniteSet(Container) PROVE Spec => []ScalerInv
<1>1. ScalerInv /\ [Next]_vars => ScalerInv'
  BY NextType, ShapeStep, QuietStep, CountStep DEF ScalerInv
<1>. QED  BY <1>1, InitScalerInv, PTL DEF Spec

\* The limit holds for every function while nothing fails: what is being created counts
\* before its row is written, and what the reaper reserves may come back only while
\* nothing is created.
THEOREM LimitKept ==
  ASSUME OwnAddresses, IsFiniteSet(Container) PROVE Spec => []RowsWithinLimit
<1>1. ScalerInv => RowsWithinLimit
  <2>. SUFFICES ASSUME ScalerInv, failures = 0, crashes = 0, NEW f \in Fn
                PROVE  WithStatus(f, {"provisioning", "available", "deployed", "busy"})
                         <= GlobalScaleLimit
    BY DEF RowsWithinLimit
  <2>. DEFINE rows == {c \in Container : ImageOf[c] = f /\ containers[c].status
                          \in {"provisioning", "available", "deployed", "busy"}}
  <2>1. Cardinality(Counted(f)) <= GlobalScaleLimit
    BY DEF ScalerInv, CountInv
  <2>2. rows \in SUBSET Counted(f) /\ Counted(f) \in SUBSET Container
    BY DEF Counted, CountsNow
  <2>3. /\ Cardinality(rows) <= Cardinality(Counted(f))
        /\ Cardinality(rows) \in Nat /\ Cardinality(Counted(f)) \in Nat
    BY <2>2, FS_Subset, FS_CardinalityType
  <2>4. WithStatus(f, {"provisioning", "available", "deployed", "busy"}) = Cardinality(rows)
    BY DEF WithStatus
  <2>5. GlobalScaleLimit \in Nat
    BY ScalerConstants DEF ScalerInv, TypeOK
  <2>. QED  BY <2>1, <2>3, <2>4, <2>5
<1>. QED  BY <1>1, ScalerInvAlways, PTL

\* While no Docker call fails, no DELETE hits the published row of a running container,
\* whenever the Scaler dies.
THEOREM LiveRowsKept ==
  ASSUME OwnAddresses, IsFiniteSet(Container) PROVE Spec => LiveRowKept
<1>1. ScalerInv /\ [Next]_vars =>
        [failures = 0 =>
           \A c \in Container :
             docker[c] = "running" /\ containers[c].ip # None =>
               containers'[c].status # "absent"]_vars
  BY LiveStep DEF ScalerInv
<1>. QED  BY <1>1, ScalerInvAlways, PTL DEF Spec, LiveRowKept
=============================================================================
