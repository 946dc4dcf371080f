--------------------------- MODULE HandOverProofs ---------------------------
(***************************************************************************)
(* The hand-over of a request to a waiting worker is safe as long as no    *)
(* two containers ever get the same address: for any number of requests,   *)
(* activations and containers, whatever dies, is reaped or restarted.      *)
(***************************************************************************)
EXTENDS LoadBalancerProofs

OwnAddresses == \A c, d \in Container : AddrOf[c] = AddrOf[d] => c = d

-----------------------------------------------------------------------------
(* The inductive invariant.  A row that is available, or that a call has claimed, *)
(* stands for a worker that nobody else is about to wake.                         *)

Free(c) ==
  \/ poll[c].pc = "wait" /\ ~poll[c].set
  \/ poll[c].pc = "none" /\ worker[c].st = "dead"

Holds(k, c) == Holding(k) /\ lease[k].ip = AddrOf[c]

Bound(k) == call[k].pc \in {"bind", "signal"}

PollInv(c) ==
  /\ poll[c].pc # "none" => /\ worker[c].st \in {"polling", "dead"}
                            /\ listening_workers[AddrOf[c]] = c
  /\ poll[c].pc \in {"fail", "revert"} => worker[c].st = "dead"
  /\ poll[c].pc = "mark" => ~poll[c].set
  /\ listening_workers[AddrOf[c]] \in {c, None}

RowInv(c) ==
  /\ containers[c].ip \in {AddrOf[c], None}
  /\ containers[c].status = "available" => Free(c)
  /\ containers[c].status = "failed" => /\ worker[c].st = "dead" /\ poll[c].pc # "mark"
                                        /\ containers[c].ip = AddrOf[c]

HoldInv(k, c) ==
  Holds(k, c) =>
    /\ Free(c)
    /\ containers[c].status # "available"
    /\ ImageOf[c] = FnOf[call[k].req]
    /\ call[k].pc # "lookup" => lease[k].ev = c
    /\ call[k].pc = "ghost" => worker[c].st = "dead"
    /\ Bound(k) => poll[c].pc = "wait" /\ worker_payloads[AddrOf[c]] = call[k].req

LeaseInv(k) == Holding(k) => \E c \in Container : lease[k].ip = AddrOf[c]

PayloadInv(c) ==
  /\ worker_payloads[AddrOf[c]] # None =>
       \/ Awake(c)
       \/ \E k \in Call : Bound(k) /\ Holds(k, c)
  /\ Awake(c) => /\ worker_payloads[AddrOf[c]] # None
                 /\ FnOf[worker_payloads[AddrOf[c]]] = ImageOf[c]

JobInv(c) == worker[c].job # None => FnOf[worker[c].job] = ImageOf[c]

HandOver ==
  /\ ExclusiveClaim
  /\ \A c \in Container : PollInv(c) /\ RowInv(c) /\ PayloadInv(c) /\ JobInv(c)
  /\ \A k \in Call : LeaseInv(k) /\ \A c \in Container : HoldInv(k, c)

LEMMA InitHandOver == Init => HandOver
<1>. SUFFICES ASSUME Init
              PROVE  HandOver
  OBVIOUS
<1>. USE DEF Init, NexusInit
<1>1. \A k \in Call : ~Holding(k)
  BY DEF CallsInit, NoCall, Holding
<1>2. ASSUME NEW c \in Container
      PROVE  /\ containers[c] = NoContainer /\ poll[c] = NoPoll
             /\ worker[c] = [st |-> "off", job |-> None]
             /\ listening_workers[AddrOf[c]] = None /\ worker_payloads[AddrOf[c]] = None
  BY AddrType DEF ContainersInit
<1>3. ASSUME NEW c \in Container
      PROVE  PollInv(c) /\ RowInv(c) /\ PayloadInv(c) /\ JobInv(c)
  BY <1>2 DEF PollInv, RowInv, PayloadInv, JobInv, Awake, Free, NoContainer, NoPoll
<1>. QED  BY <1>1, <1>3 DEF HandOver, ExclusiveClaim, LeaseInv, HoldInv, Holds

-----------------------------------------------------------------------------
(* Steps that leave the polls, the payloads and the claims alone *)

\* No call takes or drops a worker; one that has stored its payload goes on to wake it.
CallsKept ==
  \A j \in Call :
    /\ Holding(j)' <=> Holding(j)
    /\ Holding(j) => /\ call'[j].req = call[j].req
                     /\ \/ call'[j].pc = call[j].pc
                        \/ call[j].pc = "bind" /\ call'[j].pc = "signal"

\* No row becomes available, and rows only fail with their worker.
RowsKept ==
  \A d \in Container :
    /\ containers'[d].ip \in {AddrOf[d], None}
    /\ containers'[d].status = "available" => containers[d].status = "available"
    /\ containers'[d].status = "failed" => containers'[d].ip = AddrOf[d]
    /\ containers'[d].status = "failed" =>
         \/ containers[d].status = "failed"
         \/ worker'[d].st = "dead" /\ poll[d].pc # "mark"

\* A worker that polls goes on or dies, a dead one stays dead; nobody is given a job.
WorkersKept ==
  \A d \in Container :
    /\ worker[d].st \in {"polling", "dead"} => worker'[d].st \in {worker[d].st, "dead"}
    /\ worker'[d].job \in {worker[d].job, None}

LEMMA StableStep ==
  ASSUME HandOver, CallsKept, RowsKept, WorkersKept,
         UNCHANGED <<lease, poll, listening_workers, worker_payloads>>
  PROVE  HandOver'
<1>1. \A c \in Container : Free(c) => Free(c)'
  BY DEF Free, WorkersKept
<1>2. \A k \in Call, c \in Container : /\ Holds(k, c)' <=> Holds(k, c)
                                       /\ Bound(k)' <=> Bound(k)
  BY DEF CallsKept, Holds, Bound, Holding
<1>3. ExclusiveClaim'
  BY DEF CallsKept, HandOver, ExclusiveClaim
<1>4. ASSUME NEW c \in Container
      PROVE  PollInv(c)' /\ RowInv(c)' /\ PayloadInv(c)' /\ JobInv(c)'
  <2>1. PollInv(c)'
    BY DEF HandOver, PollInv, WorkersKept
  <2>2. RowInv(c)'
    BY <1>1 DEF HandOver, RowInv, RowsKept, WorkersKept
  <2>3. PayloadInv(c)'
    BY <1>2 DEF HandOver, PayloadInv, Awake
  <2>4. JobInv(c)'
    BY DEF HandOver, JobInv, WorkersKept
  <2>. QED  BY <2>1, <2>2, <2>3, <2>4
<1>5. ASSUME NEW k \in Call
      PROVE  LeaseInv(k)'
  BY DEF HandOver, LeaseInv, CallsKept
<1>6. ASSUME NEW k \in Call, NEW c \in Container
      PROVE  HoldInv(k, c)'
  <2>. SUFFICES ASSUME Holds(k, c)
                PROVE  HoldInv(k, c)'
    BY <1>2 DEF HoldInv
  <2>1. Holding(k) /\ HoldInv(k, c)
    BY DEF HandOver, Holds
  <2>. QED  BY <1>1, <1>2, <2>1 DEF HoldInv, CallsKept, RowsKept, WorkersKept, Bound
<1>. QED  BY <1>3, <1>4, <1>5, <1>6 DEF HandOver

\* What happens to rows and workers without a call's doing.
LEMMA RowsByAddress ==
  ASSUME OwnAddresses, HandOver, NEW c \in Container, NEW s, containers' = WithStatusAt(AddrOf[c], s)
  PROVE  \A d \in Container \ {c} : containers'[d] = containers[d]
BY AddrType, NoContainerIsNone DEF OwnAddresses, HandOver, RowInv, WithStatusAt

LEMMA FleetHandOver ==
  ASSUME TypeParts, HandOver, NEW c \in Container, FleetStep(c)
  PROVE  HandOver'
<1>1. UNCHANGED <<call, lease, poll, listening_workers, worker_payloads>>
  BY DEF FleetStep, Provision, Launch, Publish, Die, Reap, Forget, callVars, memoryVars, workVars
<1>2. CallsKept
  BY <1>1 DEF CallsKept, Holding
<1>3. RowsKept
  <2>1. CASE UNCHANGED containers
    BY <2>1 DEF RowsKept, HandOver, RowInv
  <2>2. CASE InsertProvisioning(c) \/ PublishDeployed(c) \/ MarkDestroying({c}) \/ RemoveRows({c})
    BY <2>2 DEF TypeParts, ContainersTypeOK, RowsKept, HandOver, RowInv, InsertProvisioning,
                PublishDeployed, MarkDestroying, RemoveRows, NoContainer
  <2>. QED  BY <2>1, <2>2 DEF FleetStep, Provision, Launch, Publish, Die, Reap, Forget
<1>4. WorkersKept
  BY DEF FleetStep, Provision, Launch, Publish, Die, Reap, Forget, workVars, WorkersKept,
         TypeParts, WorkerTypeOK, Dead, Alive
<1>. QED  BY <1>1, <1>2, <1>3, <1>4, StableStep

\* Outcomes, clocks and the Load Balancer: the row of a request is not what HandOver is about.
LEMMA ReportHandOver ==
  ASSUME TypeParts, HandOver, NEW c \in Container,
         RuntimeResponse(c) \/ RuntimeError(c) \/ WakeCaller(c)
  PROVE  HandOver'
<1>1. UNCHANGED <<call, lease, containers, poll, listening_workers, worker_payloads>>
  BY DEF RuntimeResponse, RuntimeError, WakeCaller, Reporting, SetResponseEvent
<1>2. CallsKept /\ RowsKept
  BY <1>1 DEF CallsKept, RowsKept, Holding, HandOver, RowInv
<1>3. WorkersKept
  BY DEF RuntimeResponse, RuntimeError, WakeCaller, Reporting, WorkersKept, TypeParts, WorkerTypeOK
<1>. QED  BY <1>1, <1>2, <1>3, StableStep

LEMMA RowHandOver ==
  ASSUME TypeParts, HandOver, NEW k \in Call, TimePasses(k) \/ RowStep(k)
  PROVE  HandOver'
<1>1. UNCHANGED <<lease, containers, poll, worker, listening_workers, worker_payloads>>
  BY DEF TimePasses, RowStep, workVars
<1>2. CallsKept
  BY RowStepHolding DEF CallsKept, TypeParts
<1>3. RowsKept /\ WorkersKept
  BY <1>1 DEF RowsKept, WorkersKept, HandOver, RowInv
<1>. QED  BY <1>1, <1>2, <1>3, StableStep

LEMMA LBCallsKept ==
  ASSUME TypeParts,
         \/ \E r \in Request : LBStep(r)
         \/ LBCrash
         \/ \E S \in SUBSET Request : CleanUpStuck(S)
         \/ UNCHANGED vars
  PROVE  CallsKept
<1>1. CASE UNCHANGED call
  BY <1>1 DEF CallsKept, Holding
<1>2. CASE \E K : LeaveCalls(K)
  BY <1>2, LeaveHolding DEF CallsKept, TypeParts, CallsInv
<1>3. CASE \E k \in Call, r \in Request : Enter(k, r)
  BY <1>3 DEF Enter, Unused, At, CallsKept, Holding, TypeParts, CallsInv, CallsTypeOK, NoCall
<1>. QED  BY <1>1, <1>2, <1>3
          DEF LBStep, Refuse, CreateRequest, Post, ProxyRequest, Answered, PostFails, LBCrash,
              CleanUpStuck, nexusVars, callVars, vars

LEMMA LBHandOver ==
  ASSUME TypeParts, HandOver,
         \/ \E r \in Request : LBStep(r)
         \/ LBCrash
         \/ \E S \in SUBSET Request : CleanUpStuck(S)
  PROVE  HandOver'
<1>1. UNCHANGED <<lease, containers, poll, worker, listening_workers, worker_payloads>>
  BY DEF LBStep, Refuse, CreateRequest, Post, ProxyRequest, Answered, PostFails, LBCrash,
         CleanUpStuck, otherVars, memoryVars, workVars, nexusVars
<1>2. CallsKept
  BY LBCallsKept
<1>3. RowsKept /\ WorkersKept
  BY <1>1 DEF RowsKept, WorkersKept, HandOver, RowInv
<1>. QED  BY <1>1, <1>2, <1>3, StableStep

-----------------------------------------------------------------------------
(* What a step leaves alone.  With addresses of their own, a step at one address does *)
(* not disturb the containers at the others.                                          *)

SameCall(k) == call'[k] = call[k] /\ lease'[k] = lease[k]

SameContainer(c) ==
  /\ containers'[c] = containers[c] /\ poll'[c] = poll[c] /\ worker'[c] = worker[c]
  /\ listening_workers'[AddrOf[c]] = listening_workers[AddrOf[c]]
  /\ worker_payloads'[AddrOf[c]] = worker_payloads[AddrOf[c]]

ContainerInv(c) == PollInv(c) /\ RowInv(c) /\ PayloadInv(c) /\ JobInv(c)

LEMMA OtherContainer ==
  ASSUME HandOver, NEW c \in Container, SameContainer(c),
         \A k \in Call : Bound(k) /\ Holds(k, c) => SameCall(k)
  PROVE  ContainerInv(c)'
<1>. ContainerInv(c)
  BY DEF HandOver, ContainerInv
<1>1. PollInv(c)' /\ RowInv(c)' /\ JobInv(c)'
  BY DEF ContainerInv, SameContainer, PollInv, RowInv, JobInv, Free
<1>2. Awake(c)' <=> Awake(c)
  BY DEF SameContainer, Awake
<1>3. \A k \in Call : Bound(k) /\ Holds(k, c) => Bound(k)' /\ Holds(k, c)'
  BY DEF SameCall, Bound, Holds, Holding
<1>4. PayloadInv(c)'
  BY <1>2, <1>3 DEF ContainerInv, SameContainer, PayloadInv
<1>. QED  BY <1>1, <1>4 DEF ContainerInv

LEMMA OtherHold ==
  ASSUME HandOver, NEW c \in Container, NEW k \in Call, SameContainer(c), SameCall(k)
  PROVE  HoldInv(k, c)'
BY DEF HandOver, SameContainer, SameCall, HoldInv, Holds, Holding, Free, Bound

\* A step of the handlers of one container: the calls go on as they were.
LEMMA ContainerStep ==
  ASSUME HandOver, NEW c \in Container, UNCHANGED <<call, lease>>,
         \A d \in Container \ {c} : SameContainer(d),
         ContainerInv(c)', \A k \in Call : HoldInv(k, c)'
  PROVE  HandOver'
<1>1. \A k \in Call : SameCall(k)
  BY DEF SameCall
<1>2. \A d \in Container : ContainerInv(d)'
  BY <1>1, OtherContainer
<1>3. \A k \in Call, d \in Container : HoldInv(k, d)'
  BY <1>1, OtherHold
<1>4. ExclusiveClaim' /\ \A k \in Call : LeaseInv(k)'
  BY DEF HandOver, ExclusiveClaim, LeaseInv, Holding
<1>. QED  BY <1>2, <1>3, <1>4 DEF HandOver, ContainerInv

\* A step of one call with one container: the other calls hold others.
LEMMA CallStepFrame ==
  ASSUME HandOver, NEW k \in Call,
         \A j \in Call \ {k} : SameCall(j),
         \A c \in Container : ContainerInv(c)',
         \A c \in Container : HoldInv(k, c)',
         \A j \in Call \ {k}, c \in Container : Holds(j, c) => SameContainer(c),
         LeaseInv(k)',
         \A j \in Call \ {k} : Holding(k)' /\ Holding(j) => lease'[k].ip # lease[j].ip
  PROVE  HandOver'
<1>1. \A j \in Call \ {k} : /\ Holding(j)' <=> Holding(j)
                            /\ \A c \in Container : Holds(j, c)' <=> Holds(j, c)
  BY DEF SameCall, Holding, Holds
<1>2. \A j \in Call \ {k}, c \in Container : HoldInv(j, c)'
  BY <1>1, OtherHold DEF HoldInv
<1>3. \A j \in Call \ {k} : LeaseInv(j)'
  BY <1>1 DEF HandOver, LeaseInv, SameCall
<1>4. ExclusiveClaim'
  BY <1>1 DEF HandOver, ExclusiveClaim, SameCall
<1>. QED  BY <1>2, <1>3, <1>4 DEF HandOver, ContainerInv

-----------------------------------------------------------------------------
(* The handler of /next and the report of a failed start *)

\* While a worker is not free no call holds it, its row is not available, and a payload
\* at its address is there because it has been woken.
LEMMA NotFree ==
  ASSUME HandOver, NEW c \in Container, ~Free(c)
  PROVE  /\ \A k \in Call : ~Holds(k, c)
         /\ containers[c].status # "available"
         /\ worker_payloads[AddrOf[c]] # None => Awake(c)
BY DEF HandOver, HoldInv, RowInv, PayloadInv

\* What these steps change is the row, the poll and the dictionary entries of one address.
LEMMA OneAddress ==
  ASSUME OwnAddresses, TypeParts, HandOver, NEW c \in Container,
         PollStep(c) \/ RuntimeInitError(c)
  PROVE  /\ UNCHANGED <<call, lease>>
         /\ \A d \in Container \ {c} : SameContainer(d)
<1>1. UNCHANGED <<call, lease>>
  BY DEF PollStep, NextMark, NextDeliver, NextDrop, NextFail, NextRevert, RuntimeInitError, callVars
<1>2. ASSUME NEW d \in Container \ {c}
      PROVE  /\ poll'[d] = poll[d] /\ worker'[d] = worker[d]
             /\ listening_workers'[AddrOf[d]] = listening_workers[AddrOf[d]]
             /\ worker_payloads'[AddrOf[d]] = worker_payloads[AddrOf[d]]
  BY AddrType DEF OwnAddresses, TypeParts, MemoryTypeOK, WorkerTypeOK, PollStep, NextMark,
       NextDeliver, NextDrop, NextFail, NextRevert, RuntimeInitError, EndPoll
<1>3. ASSUME NEW d \in Container \ {c}
      PROVE  containers'[d] = containers[d]
  <2>1. CASE UNCHANGED containers
    BY <2>1
  <2>2. CASE \E s : containers' = WithStatusAt(AddrOf[c], s)
    BY <2>2, RowsByAddress
  <2>. QED  BY <2>1, <2>2 DEF PollStep, NextMark, NextDeliver, NextDrop, NextFail, NextRevert,
                              RuntimeInitError, MarkAvailable, MarkFailed
<1>. QED  BY <1>1, <1>2, <1>3 DEF SameContainer

\* A step after which the worker is not free and no row of its is available.
LEMMA NextMarkHandOver ==
  ASSUME OwnAddresses, TypeParts, HandOver, NEW c \in Container, NextMark(c)
  PROVE  HandOver'
<1>. DEFINE a == AddrOf[c]
<1>1. PollInv(c) /\ RowInv(c) /\ PayloadInv(c) /\ JobInv(c) /\ ~Free(c)
  BY DEF HandOver, NextMark, Free
<1>2. containers[c].ip = a
  BY <1>1, AddrType, NoContainerIsNone DEF NextMark, RowsAt, OwnAddresses, HandOver, RowInv
<1>3. containers'[c] = [containers[c] EXCEPT !.status = "available"]
  BY <1>2 DEF NextMark, MarkAvailable, WithStatusAt
<1>4. /\ containers'[c].status = "available" /\ containers'[c].ip = a
      /\ poll'[c].pc = "wait" /\ poll'[c].set = poll[c].set
  BY <1>2, <1>3 DEF TypeParts, ContainersTypeOK, MemoryTypeOK, NextMark
<1>5. ContainerInv(c)'
  BY <1>1, <1>4, NotFree DEF NextMark, ContainerInv, PollInv, RowInv, PayloadInv, JobInv, Free, Awake
<1>6. \A k \in Call : HoldInv(k, c)'
  BY <1>1, NotFree DEF NextMark, callVars, HoldInv, Holds, Holding
<1>. QED  BY <1>5, <1>6, OneAddress, ContainerStep DEF PollStep

LEMMA NextDeliverHandOver ==
  ASSUME OwnAddresses, TypeParts, HandOver, NEW c \in Container, NextDeliver(c)
  PROVE  HandOver'
<1>1. ContainerInv(c) /\ ~Free(c)
  BY DEF HandOver, ContainerInv, NextDeliver, Awake, Free
<1>2. worker_payloads[AddrOf[c]] # None /\ FnOf[worker_payloads[AddrOf[c]]] = ImageOf[c]
  BY <1>1 DEF ContainerInv, PayloadInv, NextDeliver
<1>3. /\ poll'[c] = NoPoll /\ listening_workers'[AddrOf[c]] = None
      /\ worker_payloads'[AddrOf[c]] = None
      /\ worker'[c] = [st |-> "running", job |-> worker_payloads[AddrOf[c]]]
      /\ containers' = containers
  BY <1>2, AddrType DEF NextDeliver, EndPoll, TypeParts, MemoryTypeOK, WorkerTypeOK
<1>4. ContainerInv(c)'
  BY <1>1, <1>2, <1>3, NotFree
  DEF NextDeliver, ContainerInv, PollInv, RowInv, PayloadInv, JobInv, Awake, Alive, NoPoll
<1>5. \A k \in Call : HoldInv(k, c)'
  BY <1>1, NotFree DEF NextDeliver, callVars, HoldInv, Holds, Holding
<1>. QED  BY <1>4, <1>5, OneAddress, ContainerStep DEF PollStep

LEMMA NextDropHandOver ==
  ASSUME OwnAddresses, TypeParts, HandOver, NEW c \in Container, NextDrop(c)
  PROVE  HandOver'
<1>1. ContainerInv(c) /\ ~Free(c)
  BY DEF HandOver, ContainerInv, NextDrop, Awake, Free
<1>2. poll'[c].pc = "fail" /\ worker_payloads'[AddrOf[c]] = None
  BY AddrType DEF NextDrop, TypeParts, MemoryTypeOK
<1>3. ContainerInv(c)'
  BY <1>1, <1>2, NotFree
  DEF NextDrop, ContainerInv, PollInv, RowInv, PayloadInv, JobInv, Awake, Alive
<1>4. \A k \in Call : HoldInv(k, c)'
  BY <1>1, NotFree DEF NextDrop, callVars, HoldInv, Holds, Holding
<1>. QED  BY <1>3, <1>4, OneAddress, ContainerStep DEF PollStep

LEMMA NextEndHandOver ==
  ASSUME OwnAddresses, TypeParts, HandOver, NEW c \in Container, NextFail(c) \/ NextRevert(c)
  PROVE  HandOver'
<1>1. ContainerInv(c) /\ ~Free(c) /\ ~Awake(c)
  BY DEF HandOver, ContainerInv, NextFail, NextRevert, Free, Awake
<1>2. /\ \/ poll'[c] = NoPoll /\ listening_workers'[AddrOf[c]] = None
         \/ poll'[c].pc = "revert" /\ listening_workers' = listening_workers
      /\ UNCHANGED <<worker, worker_payloads>>
  BY AddrType DEF NextFail, NextRevert, EndPoll, TypeParts, MemoryTypeOK
<1>3. /\ containers'[c].ip = containers[c].ip
      /\ \/ containers'[c].status = containers[c].status
         \/ containers'[c].status = "failed" /\ containers[c].ip = AddrOf[c]
  BY DEF NextFail, NextRevert, MarkFailed, WithStatusAt, TypeParts, ContainersTypeOK
<1>4. worker[c].st = "dead" /\ poll[c].pc # "none"
  BY <1>1 DEF NextFail, NextRevert, ContainerInv, PollInv
<1>5. PollInv(c)' /\ RowInv(c)'
  BY <1>1, <1>2, <1>3, <1>4, NotFree DEF ContainerInv, PollInv, RowInv, NoPoll
<1>6. PayloadInv(c)' /\ JobInv(c)'
  BY <1>1, <1>2, NotFree DEF ContainerInv, PayloadInv, JobInv, Awake, NoPoll
<1>7. \A k \in Call : HoldInv(k, c)'
  BY <1>1, NotFree DEF NextFail, NextRevert, callVars, HoldInv, Holds, Holding
<1>. QED  BY <1>5, <1>6, <1>7, OneAddress, ContainerStep DEF PollStep, ContainerInv

LEMMA InitErrorHandOver ==
  ASSUME OwnAddresses, TypeParts, HandOver, NEW c \in Container, RuntimeInitError(c)
  PROVE  HandOver'
<1>1. ContainerInv(c) /\ poll[c].pc = "none" /\ ~Free(c)
  BY DEF HandOver, ContainerInv, PollInv, RuntimeInitError, Free
<1>2. worker'[c] = Dead /\ UNCHANGED <<poll, listening_workers, worker_payloads>>
  BY DEF RuntimeInitError, TypeParts, WorkerTypeOK
<1>3. /\ containers'[c].ip = containers[c].ip
      /\ \/ containers'[c].status = containers[c].status
         \/ containers'[c].status = "failed" /\ containers[c].ip = AddrOf[c]
  BY DEF RuntimeInitError, MarkFailed, WithStatusAt, TypeParts, ContainersTypeOK
<1>4. ContainerInv(c)'
  BY <1>1, <1>2, <1>3, NotFree
  DEF ContainerInv, PollInv, RowInv, PayloadInv, JobInv, Awake, Dead
<1>5. \A k \in Call : HoldInv(k, c)'
  BY <1>1, NotFree DEF RuntimeInitError, callVars, HoldInv, Holds, Holding
<1>. QED  BY <1>4, <1>5, OneAddress, ContainerStep

\* A new /next replaces the poll that calls may have looked up at its address.
LEMMA RuntimeNextHandOver ==
  ASSUME OwnAddresses, TypeParts, HandOver, NEW c \in Container, RuntimeNext(c)
  PROVE  HandOver'
<1>1. ContainerInv(c) /\ poll[c].pc = "none" /\ ~Free(c) /\ ~Awake(c)
  BY DEF HandOver, ContainerInv, RuntimeNext, Free, Awake
<1>2. \A k \in Call : /\ lease'[k].ip = lease[k].ip /\ call'[k] = call[k]
                      /\ lease[k].ev # c => lease'[k] = lease[k]
  BY DEF RuntimeNext, callVars, TypeParts, MemoryTypeOK
<1>3. \A k \in Call, d \in Container : /\ Holds(k, d)' <=> Holds(k, d)
                                       /\ Bound(k)' <=> Bound(k)
  BY <1>2 DEF Holds, Holding, Bound
<1>4. \A d \in Container \ {c} : SameContainer(d)
  BY AddrType DEF RuntimeNext, OwnAddresses, TypeParts, MemoryTypeOK, WorkerTypeOK, SameContainer
<1>5. /\ poll'[c] = [NoPoll EXCEPT !.pc = "mark"] /\ worker'[c].st = "polling"
      /\ worker'[c].job = worker[c].job /\ listening_workers'[AddrOf[c]] = c
      /\ UNCHANGED <<containers, worker_payloads>>
  BY AddrType DEF RuntimeNext, TypeParts, MemoryTypeOK, WorkerTypeOK
<1>6. ContainerInv(c)'
  <2>1. containers[c].status # "failed"
    BY <1>1 DEF ContainerInv, RowInv, RuntimeNext
  <2>2. poll'[c].pc = "mark" /\ poll'[c].set = FALSE
    BY <1>5 DEF NoPoll
  <2>. QED  BY <1>1, <1>5, <2>1, <2>2, NotFree
            DEF ContainerInv, PollInv, RowInv, PayloadInv, JobInv, Awake
<1>7. ASSUME NEW d \in Container \ {c}
      PROVE  PollInv(d)' /\ RowInv(d)' /\ JobInv(d)' /\ PayloadInv(d)'
  BY <1>3, <1>4 DEF HandOver, SameContainer, PollInv, RowInv, JobInv, PayloadInv, Free, Awake
<1>8. ASSUME NEW k \in Call, NEW d \in Container, Holds(k, d)
      PROVE  HoldInv(k, d)'
  <2>1. d # c /\ SameContainer(d) /\ HoldInv(k, d)
    BY <1>1, <1>4, <1>8, NotFree DEF HandOver
  <2>2. Free(d)' <=> Free(d)
    BY <2>1 DEF SameContainer, Free
  <2>. QED  BY <1>2, <1>3, <1>8, <2>1, <2>2 DEF HoldInv, SameContainer
<1>9. ExclusiveClaim' /\ \A k \in Call : LeaseInv(k)'
  BY <1>2 DEF HandOver, ExclusiveClaim, LeaseInv, Holding
<1>10. \A k \in Call, d \in Container : HoldInv(k, d)'
  BY <1>3, <1>8 DEF HoldInv
<1>. QED  BY <1>6, <1>7, <1>9, <1>10 DEF HandOver, ContainerInv

-----------------------------------------------------------------------------
(* The steps of a call with the worker it drives *)

LEMMA OneHolder ==
  ASSUME OwnAddresses, HandOver, NEW k \in Call, Holding(k)
  PROVE  \E c \in Container :
           /\ Holds(k, c) /\ HoldInv(k, c) /\ ContainerInv(c)
           /\ \A d \in Container \ {c} : ~Holds(k, d) /\ AddrOf[d] # AddrOf[c]
           /\ \A j \in Call \ {k} : ~Holds(j, c)
BY DEF OwnAddresses, HandOver, ExclusiveClaim, LeaseInv, Holds, ContainerInv

LEMMA ClaimHandOver ==
  ASSUME OwnAddresses, TypeParts, HandOver, NEW k \in Call, Claim(k)
  PROVE  HandOver'
<1>1. PICK c \in Container :
        /\ containers[c].status = "available" /\ ImageOf[c] = FnOf[call[k].req]
        /\ containers' = WithStatusAt(containers[c].ip, "busy")
        /\ lease' = [lease EXCEPT ![k].ip = containers[c].ip]
        /\ containers[c].ip \in Addr
  BY DEF Claim, ClaimAddress, AvailableFor
<1>2. containers[c].ip = AddrOf[c] /\ Free(c) /\ ContainerInv(c)
  BY <1>1, NoContainerIsNone DEF HandOver, RowInv, ContainerInv
<1>3. \A j \in Call : ~Holds(j, c)
  BY <1>1 DEF HandOver, HoldInv
<1>4. /\ call'[k].pc = "lookup" /\ call'[k].req = call[k].req /\ lease'[k].ip = AddrOf[c]
      /\ \A j \in Call \ {k} : SameCall(j)
  BY <1>1, <1>2 DEF Claim, Goto, TypeParts, CallsInv, CallsTypeOK, MemoryTypeOK, SameCall
<1>5. \A d \in Container \ {c} : containers'[d] = containers[d]
  BY <1>1, <1>2, RowsByAddress
<1>6. UNCHANGED <<poll, worker, listening_workers, worker_payloads>>
  BY DEF Claim, workVars
<1>7. \A d \in Container \ {c} : SameContainer(d)
  BY <1>5, <1>6 DEF SameContainer
<1>8. ~Holding(k)
  BY DEF Claim, At, Holding
<1>9. containers'[c].status = "busy" /\ containers'[c].ip = AddrOf[c]
  BY <1>1, <1>2 DEF WithStatusAt, TypeParts, ContainersTypeOK
<1>10. ContainerInv(c)'
  <2>1. PollInv(c)' /\ RowInv(c)' /\ JobInv(c)'
    BY <1>2, <1>6, <1>9 DEF ContainerInv, PollInv, RowInv, JobInv
  <2>2. PayloadInv(c)'
    BY <1>2, <1>3, <1>6 DEF ContainerInv, PayloadInv, Awake
  <2>. QED  BY <2>1, <2>2 DEF ContainerInv
<1>11. \A d \in Container \ {c} : ContainerInv(d)'
  BY <1>4, <1>7, <1>8, OtherContainer DEF Holds
<1>12. ASSUME NEW d \in Container
       PROVE  HoldInv(k, d)'
  <2>1. CASE d = c
    BY <1>1, <1>2, <1>4, <1>6, <1>9, <2>1 DEF HoldInv, Holds, Free, Bound
  <2>2. CASE d # c
    BY <1>4, <2>2 DEF HoldInv, Holds, OwnAddresses
  <2>. QED  BY <2>1, <2>2
<1>13. LeaseInv(k)'
  BY <1>4 DEF LeaseInv
<1>14. \A j \in Call \ {k} : Holding(j) => lease'[k].ip # lease[j].ip
  BY <1>3, <1>4 DEF Holds
<1>. QED  BY <1>3, <1>4, <1>7, <1>10, <1>11, <1>12, <1>13, <1>14, CallStepFrame

\* What the other steps of a call do: it moves, and touches one worker at most.
LEMMA OneCall ==
  ASSUME TypeParts, NEW k \in Call, LookUp(k) \/ Probe(k) \/ Ghost(k) \/ Signal(k)
  PROVE  \A j \in Call \ {k} : SameCall(j)
<1>1. CASE LookUp(k) \/ Probe(k) \/ Ghost(k)
  BY <1>1 DEF LookUp, Probe, Ghost, Goto, TypeParts, CallsInv, CallsTypeOK, MemoryTypeOK, SameCall
<1>2. CASE Signal(k)
  BY <1>2, SignalHolding DEF Signal, TypeParts, MemoryTypeOK, SameCall
<1>. QED  BY <1>1, <1>2

LEMMA LookUpHandOver ==
  ASSUME OwnAddresses, TypeParts, HandOver, NEW k \in Call, LookUp(k)
  PROVE  HandOver'
<1>1. Holding(k) /\ ~Bound(k)
  BY DEF LookUp, At, Holding, Bound
<1>2. PICK c \in Container :
        /\ Holds(k, c) /\ HoldInv(k, c) /\ ContainerInv(c)
        /\ \A d \in Container \ {c} : ~Holds(k, d) /\ AddrOf[d] # AddrOf[c]
        /\ \A j \in Call \ {k} : ~Holds(j, c)
  BY <1>1, OneHolder
<1>3. \A d \in Container : SameContainer(d)
  BY DEF LookUp, workVars, SameContainer
<1>4. \A j \in Call \ {k} : SameCall(j)
  BY OneCall
<1>5. \A d \in Container : ContainerInv(d)'
  BY <1>1, <1>3, <1>4, OtherContainer
<1>6. \/ call'[k].pc = "claim"
      \/ /\ call'[k].pc = "probe" /\ call'[k].req = call[k].req
         /\ lease'[k].ip = lease[k].ip /\ lease'[k].ev = c
  BY <1>2 DEF LookUp, Goto, Holds, ContainerInv, PollInv, TypeParts, CallsInv, CallsTypeOK,
              MemoryTypeOK
<1>7. \A d \in Container : HoldInv(k, d)'
  BY <1>2, <1>3, <1>6 DEF HoldInv, Holds, Holding, Free, Bound, SameContainer
<1>8. LeaseInv(k)'
  BY <1>2, <1>6 DEF LeaseInv, Holds, Holding
<1>9. \A j \in Call \ {k} : Holding(k)' /\ Holding(j) => lease'[k].ip # lease[j].ip
  BY <1>1, <1>6 DEF HandOver, ExclusiveClaim, Holding
<1>. QED  BY <1>3, <1>4, <1>5, <1>7, <1>8, <1>9, CallStepFrame

LEMMA ProbeHandOver ==
  ASSUME OwnAddresses, TypeParts, HandOver, NEW k \in Call, Probe(k)
  PROVE  HandOver'
<1>1. Holding(k) /\ ~Bound(k)
  BY DEF Probe, At, Holding, Bound
<1>2. PICK c \in Container :
        /\ Holds(k, c) /\ HoldInv(k, c) /\ ContainerInv(c)
        /\ \A d \in Container \ {c} : ~Holds(k, d) /\ AddrOf[d] # AddrOf[c]
        /\ \A j \in Call \ {k} : ~Holds(j, c)
  BY <1>1, OneHolder
<1>3. lease[k].ip = AddrOf[c] /\ lease[k].ev = c /\ Free(c)
  BY <1>2 DEF HoldInv, Holds, Probe, At
<1>4. /\ UNCHANGED <<containers, poll, worker, listening_workers, lease>>
      /\ call'[k].req = call[k].req
      /\ \/ Gone(c) /\ call'[k].pc = "ghost" /\ UNCHANGED worker_payloads
         \/ /\ ~Gone(c) /\ call'[k].pc = "bind"
            /\ worker_payloads' = [worker_payloads EXCEPT ![AddrOf[c]] = call[k].req]
  BY <1>3 DEF Probe, Goto, workVars, TypeParts, CallsInv, CallsTypeOK
<1>5. \A d \in Container \ {c} : SameContainer(d)
  BY <1>2, <1>4, AddrType DEF SameContainer, TypeParts, MemoryTypeOK
<1>6. \A j \in Call \ {k} : SameCall(j)
  BY OneCall
<1>7. Gone(c) => worker[c].st = "dead"
  BY <1>2, <1>3, NoContainerIsNone DEF Gone, Alive, Free, ContainerInv, PollInv
<1>8. ~Gone(c) => /\ poll[c].pc = "wait" /\ ~poll[c].set
                  /\ worker_payloads'[AddrOf[c]] = call[k].req
  BY <1>3, <1>4, AddrType DEF Gone, Free, TypeParts, MemoryTypeOK
<1>9. \A d \in Container \ {c} : ContainerInv(d)'
  BY <1>1, <1>5, <1>6, OtherContainer
<1>10. ContainerInv(c)'
  <2>1. PollInv(c)' /\ RowInv(c)' /\ JobInv(c)'
    BY <1>2, <1>4 DEF ContainerInv, PollInv, RowInv, JobInv, Free
  <2>2. CASE Gone(c)
    <3>1. worker_payloads[AddrOf[c]] # None => Awake(c)
      BY <1>1, <1>2 DEF ContainerInv, PayloadInv
    <3>2. PayloadInv(c)'
      BY <1>2, <1>4, <2>2, <3>1 DEF ContainerInv, PayloadInv, Awake
    <3>. QED  BY <2>1, <3>2 DEF ContainerInv
  <2>3. CASE ~Gone(c)
    <3>1. Bound(k)' /\ Holds(k, c)'
      BY <1>3, <1>4, <2>3 DEF Bound, Holds, Holding
    <3>2. ~Awake(c)'
      BY <1>4, <1>8, <2>3 DEF Awake
    <3>. QED  BY <2>1, <3>1, <3>2 DEF ContainerInv, PayloadInv
  <2>. QED  BY <2>2, <2>3
<1>11. ASSUME NEW d \in Container
       PROVE  HoldInv(k, d)'
  <2>1. CASE d = c
    BY <1>2, <1>3, <1>4, <1>7, <1>8, <2>1 DEF HoldInv, Free, Bound
  <2>2. CASE d # c
    BY <1>2, <1>3, <1>4, <2>2 DEF HoldInv, Holds
  <2>. QED  BY <2>1, <2>2
<1>12. LeaseInv(k)'
  BY <1>3, <1>4 DEF LeaseInv
<1>13. \A j \in Call \ {k} : Holding(k)' /\ Holding(j) => lease'[k].ip # lease[j].ip
  BY <1>1, <1>4 DEF HandOver, ExclusiveClaim
<1>14. \A j \in Call \ {k}, d \in Container : Holds(j, d) => SameContainer(d)
  BY <1>2, <1>5
<1>15. \A d \in Container : ContainerInv(d)'
  BY <1>9, <1>10
<1>. QED  BY <1>6, <1>11, <1>12, <1>13, <1>14, <1>15, CallStepFrame

LEMMA GhostHandOver ==
  ASSUME OwnAddresses, TypeParts, HandOver, NEW k \in Call, Ghost(k)
  PROVE  HandOver'
<1>1. Holding(k) /\ ~Bound(k)
  BY DEF Ghost, At, Holding, Bound
<1>2. PICK c \in Container :
        /\ Holds(k, c) /\ HoldInv(k, c) /\ ContainerInv(c)
        /\ \A d \in Container \ {c} : ~Holds(k, d) /\ AddrOf[d] # AddrOf[c]
        /\ \A j \in Call \ {k} : ~Holds(j, c)
  BY <1>1, OneHolder
<1>3. lease[k].ip = AddrOf[c] /\ worker[c].st = "dead" /\ Free(c)
  BY <1>2 DEF HoldInv, Holds, Ghost, At
<1>4. UNCHANGED <<poll, worker, listening_workers, worker_payloads>> /\ call'[k].pc = "claim"
  BY DEF Ghost, Goto, workVars, TypeParts, CallsInv, CallsTypeOK
<1>5. \A d \in Container \ {c} : SameContainer(d)
  BY <1>3, <1>4, RowsByAddress DEF Ghost, MarkFailed, SameContainer
<1>6. \A j \in Call \ {k} : SameCall(j)
  BY OneCall
<1>7. /\ containers'[c].ip = containers[c].ip
      /\ \/ containers'[c].status = containers[c].status
         \/ containers'[c].status = "failed" /\ containers[c].ip = AddrOf[c]
  BY <1>3 DEF Ghost, MarkFailed, WithStatusAt, TypeParts, ContainersTypeOK
<1>8. ContainerInv(c)'
  <2>1. PollInv(c)' /\ RowInv(c)' /\ JobInv(c)'
    BY <1>2, <1>3, <1>4, <1>7 DEF ContainerInv, PollInv, RowInv, JobInv, Free
  <2>2. PayloadInv(c)'
    BY <1>1, <1>2, <1>4 DEF ContainerInv, PayloadInv, Awake
  <2>. QED  BY <2>1, <2>2 DEF ContainerInv
<1>9. \A d \in Container : ContainerInv(d)'
  BY <1>1, <1>5, <1>6, <1>8, OtherContainer
<1>10. ~Holding(k)'
  BY <1>4 DEF Holding
<1>11. LeaseInv(k)' /\ \A d \in Container : HoldInv(k, d)'
  BY <1>10 DEF LeaseInv, HoldInv, Holds
<1>12. \A j \in Call \ {k}, d \in Container : Holds(j, d) => SameContainer(d)
  BY <1>2, <1>5
<1>. QED  BY <1>6, <1>9, <1>10, <1>11, <1>12, CallStepFrame

LEMMA SignalHandOver ==
  ASSUME OwnAddresses, TypeParts, HandOver, NEW k \in Call, Signal(k)
  PROVE  HandOver'
<1>1. Holding(k) /\ Bound(k) /\ ~Holding(k)'
  BY SignalHolding DEF Signal, StartWaiting, At, Holding, Bound, TypeParts
<1>2. PICK c \in Container :
        /\ Holds(k, c) /\ HoldInv(k, c) /\ ContainerInv(c)
        /\ \A d \in Container \ {c} : ~Holds(k, d) /\ AddrOf[d] # AddrOf[c]
        /\ \A j \in Call \ {k} : ~Holds(j, c)
  BY <1>1, OneHolder
<1>3. /\ lease[k].ev = c /\ poll[c].pc = "wait" /\ worker_payloads[AddrOf[c]] = call[k].req
      /\ ImageOf[c] = FnOf[call[k].req] /\ containers[c].status # "available"
  BY <1>1, <1>2 DEF HoldInv, Bound
<1>4. call[k].req \in Request
  BY <1>1 DEF TypeParts, CallsInv, CallShape, Open, Bound
<1>5. /\ UNCHANGED <<containers, worker, listening_workers, worker_payloads>>
      /\ poll'[c].pc = "wait" /\ poll'[c].set = TRUE
      /\ \A d \in Container \ {c} : poll'[d] = poll[d]
  BY <1>3 DEF Signal, TypeParts, MemoryTypeOK
<1>6. \A d \in Container \ {c} : SameContainer(d)
  BY <1>5 DEF SameContainer
<1>7. \A j \in Call \ {k} : SameCall(j)
  BY OneCall
<1>8. PollInv(c)' /\ RowInv(c)' /\ JobInv(c)'
  BY <1>2, <1>3, <1>5 DEF ContainerInv, PollInv, RowInv, JobInv
<1>9. PayloadInv(c)'
  BY <1>3, <1>4, <1>5, NoRequestIsNone DEF PayloadInv, Awake
<1>10. \A d \in Container : ContainerInv(d)'
  BY <1>2, <1>6, <1>7, <1>8, <1>9, OtherContainer DEF ContainerInv
<1>11. LeaseInv(k)' /\ \A d \in Container : HoldInv(k, d)'
  BY <1>1 DEF LeaseInv, HoldInv, Holds
<1>12. \A j \in Call \ {k}, d \in Container : Holds(j, d) => SameContainer(d)
  BY <1>2, <1>6
<1>. QED  BY <1>1, <1>7, <1>10, <1>11, <1>12, CallStepFrame

\* A restart leaves rows that still say "available" or "busy"; their workers are dead.
LEMMA RestartHandOver ==
  ASSUME OwnAddresses, TypeParts, HandOver, NexusRestart
  PROVE  HandOver'
<1>1. ASSUME NEW c \in Container
      PROVE  /\ poll'[c] = NoPoll /\ containers'[c] = containers[c]
             /\ worker'[c] = IF worker[c].st \in {"polling", "reporting"} THEN Dead
                             ELSE worker[c]
             /\ listening_workers'[AddrOf[c]] = None /\ worker_payloads'[AddrOf[c]] = None
  BY AddrType DEF NexusRestart
<1>2. ASSUME NEW c \in Container
      PROVE  ContainerInv(c)'
  <2>1. ContainerInv(c)
    BY DEF HandOver, ContainerInv
  <2>2. worker[c].st = "dead" => worker'[c].st = "dead"
    BY <1>1
  <2>3. containers[c].status = "available" => worker'[c].st = "dead"
    BY <1>1, <2>1 DEF ContainerInv, RowInv, PollInv, Free, Dead
  <2>4. poll'[c].pc = "none" /\ ~Awake(c)'
    BY <1>1 DEF NoPoll, Awake
  <2>5. worker'[c].job \in {worker[c].job, None}
    BY <1>1 DEF Dead
  <2>6. RowInv(c)' /\ PollInv(c)'
    BY <1>1, <2>1, <2>2, <2>3, <2>4 DEF ContainerInv, RowInv, PollInv, Free
  <2>. QED  BY <1>1, <2>1, <2>4, <2>5, <2>6 DEF ContainerInv, PayloadInv, JobInv
<1>3. ASSUME NEW k \in Call
      PROVE  ~Holding(k)'
  <2>1. call'[k] = IF call[k].pc \in {"idle", "done"} THEN call[k]
                   ELSE IF call[k].answer = "closed" THEN NoCall
                   ELSE [NoCall EXCEPT !.pc = "done", !.answer = "reset"]
    BY DEF NexusRestart, ForgetCalls
  <2>. QED  BY <2>1 DEF Holding, NoCall
<1>. QED  BY <1>2, <1>3 DEF HandOver, ContainerInv, ExclusiveClaim, LeaseInv, HoldInv, Holds

LEMMA NextHandOver ==
  ASSUME OwnAddresses, TypeParts, HandOver, [Next]_vars
  PROVE  HandOver'
<1>1. CASE UNCHANGED vars
  <2>1. UNCHANGED <<call, lease, containers, poll, worker, listening_workers, worker_payloads>>
    BY <1>1 DEF vars, nexusVars, callVars, workVars
  <2>2. CallsKept /\ RowsKept /\ WorkersKept
    BY <2>1 DEF CallsKept, RowsKept, WorkersKept, Holding, HandOver, RowInv
  <2>. QED  BY <2>1, <2>2, StableStep
<1>2. ASSUME NEW k \in Call, CallStep(k) \/ TimePasses(k)
      PROVE  HandOver'
  BY <1>2, RowHandOver, ClaimHandOver, LookUpHandOver, ProbeHandOver, GhostHandOver, SignalHandOver
  DEF CallStep
<1>3. ASSUME NEW c \in Container, PollStep(c)
      PROVE  HandOver'
  BY <1>3, NextMarkHandOver, NextDeliverHandOver, NextDropHandOver, NextEndHandOver DEF PollStep
<1>4. ASSUME NEW c \in Container, WorkerStep(c)
      PROVE  HandOver'
  BY <1>4, RuntimeNextHandOver, ReportHandOver, InitErrorHandOver DEF WorkerStep
<1>. QED  BY <1>1, <1>2, <1>3, <1>4, FleetHandOver, RestartHandOver, LBHandOver
          DEF Next, NexusNext

-----------------------------------------------------------------------------
(* What the invariant means to the Load Balancer's clients *)

LEMMA HandOverAlways == ASSUME OwnAddresses PROVE Spec => [](TypeParts /\ HandOver)
<1>1. Init => TypeParts /\ HandOver
  BY InitTypeParts, InitHandOver
<1>2. TypeParts /\ HandOver /\ [Next]_vars => (TypeParts /\ HandOver)'
  BY NextTypeParts, NextHandOver
<1>. QED  BY <1>1, <1>2, PTL DEF Spec

\* Two calls never drive the same waiting worker (get_available_containers reserves).
THEOREM ClaimsExclusive == ASSUME OwnAddresses PROVE Spec => []ExclusiveClaim
<1>1. HandOver => ExclusiveClaim
  BY DEF HandOver
<1>. QED  BY <1>1, HandOverAlways, PTL

\* A worker is given requests of its own function only.
THEOREM FunctionsMatch == ASSUME OwnAddresses PROVE Spec => []RightFunction
<1>1. HandOver => RightFunction
  BY DEF HandOver, JobInv, RightFunction
<1>. QED  BY <1>1, HandOverAlways, PTL

\* A payload under an address has a call that is about to signal it or a worker whose
\* event is set: none stays behind in worker_payloads.
THEOREM PayloadsMatch == ASSUME OwnAddresses PROVE Spec => []PayloadHasOwner
<1>1. HandOver => PayloadHasOwner
  <2>. SUFFICES ASSUME HandOver, NEW c \in Container, worker_payloads[AddrOf[c]] # None, ~Awake(c)
                PROVE  \E k \in Call : /\ call[k].pc \in {"bind", "signal"}
                                       /\ lease[k].ip = AddrOf[c]
                                       /\ call[k].req = worker_payloads[AddrOf[c]]
    BY DEF PayloadHasOwner
  <2>1. PICK k \in Call : Bound(k) /\ Holds(k, c)
    BY DEF HandOver, PayloadInv
  <2>2. HoldInv(k, c)
    BY DEF HandOver
  <2>. QED  BY <2>1, <2>2 DEF HoldInv, Bound, Holds
<1>. QED  BY <1>1, HandOverAlways, PTL

\* Every /next that wakes up finds a payload under its address: pop does not raise.
THEOREM PayloadFound == ASSUME OwnAddresses PROVE Spec => []AwakeHasPayload
<1>1. HandOver => AwakeHasPayload
  BY DEF HandOver, PayloadInv, AwakeHasPayload
<1>. QED  BY <1>1, HandOverAlways, PTL

\* A row that is failed stays out of service, whatever late /next or publication comes.
THEOREM FailedStays == ASSUME OwnAddresses PROVE Spec => FailedIsFinal
<1>1. ASSUME TypeParts, HandOver, Next, NEW c \in Container, containers[c].status = "failed"
      PROVE  containers'[c].status \in {"failed", "destroying", "absent"}
  <2>1. /\ RowInv(c) /\ containers[c].ip = AddrOf[c] /\ poll[c].pc # "mark"
        /\ containers[c] \in [status : ContainerStatus, ip : Addr \cup {None}]
    BY <1>1 DEF HandOver, RowInv, TypeParts, ContainersTypeOK
  <2>2. CASE UNCHANGED containers \/ \E a : MarkFailed(a)
    BY <1>1, <2>1, <2>2 DEF MarkFailed, WithStatusAt
  <2>3. ASSUME NEW d \in Container, NextMark(d)
        PROVE  containers'[c] = containers[c]
    BY <1>1, <2>1, <2>3, RowsByAddress DEF NextMark, MarkAvailable
  <2>4. ASSUME NEW k \in Call, Claim(k)
        PROVE  containers'[c] = containers[c]
    <3>1. PICK d \in Container : /\ containers[d].status = "available"
                                 /\ containers[d].ip \in Addr
                                 /\ containers' = WithStatusAt(containers[d].ip, "busy")
      BY <2>4 DEF Claim, ClaimAddress, AvailableFor
    <3>2. containers[d].ip = AddrOf[d] /\ d # c
      BY <1>1, <3>1, NoContainerIsNone DEF HandOver, RowInv
    <3>. QED  BY <1>1, <3>1, <3>2, RowsByAddress
  <2>5. ASSUME NEW d \in Container, FleetStep(d)
        PROVE  containers'[c].status \in {"failed", "destroying", "absent"}
    <3>1. CASE UNCHANGED containers
      BY <1>1, <3>1
    <3>2. CASE InsertProvisioning(d) /\ containers[d].status = "absent"
      BY <1>1, <3>2 DEF InsertProvisioning
    <3>3. CASE PublishDeployed(d)
      BY <1>1, <2>1, <3>3, AddrType, NoContainerIsNone DEF PublishDeployed
    <3>4. CASE MarkDestroying({d}) \/ RemoveRows({d})
      BY <1>1, <2>1, <3>4 DEF MarkDestroying, RemoveRows, NoContainer
    <3>. QED  BY <2>5, <3>1, <3>2, <3>3, <3>4
              DEF FleetStep, Provision, Launch, Publish, Die, Reap, Forget
  <2>. QED  BY <1>1, <2>2, <2>3, <2>4, <2>5
            DEF Next, NexusNext, CallStep, RowStep, LookUp, Probe, Ghost, Signal, TimePasses,
                PollStep, NextDeliver, NextDrop, NextFail, NextRevert, WorkerStep, RuntimeNext,
                RuntimeResponse, RuntimeError, Reporting, WakeCaller, RuntimeInitError,
                NexusRestart, LBStep, Refuse, CreateRequest, Post, ProxyRequest, Answered,
                PostFails, LBCrash, CleanUpStuck, otherVars, nexusVars
<1>2. TypeParts /\ HandOver /\ [Next]_vars =>
        [\A c \in Container : containers[c].status = "failed" =>
           containers'[c].status \in {"failed", "destroying", "absent"}]_vars
  BY <1>1
<1>. QED  BY <1>2, HandOverAlways, PTL DEF Spec, FailedIsFinal

\* A call finds the place of its payload empty.
THEOREM PayloadsKept == ASSUME OwnAddresses PROVE Spec => NoPayloadOverwrite
<1>1. ASSUME TypeParts, HandOver, Next, NEW a \in Addr
      PROVE  worker_payloads'[a] \in {worker_payloads[a], None} \/ worker_payloads[a] = None
  <2>1. CASE UNCHANGED worker_payloads
    BY <2>1
  <2>2. ASSUME NEW c \in Container, NextDeliver(c) \/ NextDrop(c)
        PROVE  worker_payloads'[a] \in {worker_payloads[a], None}
    BY <1>1, <2>2 DEF NextDeliver, NextDrop, TypeParts, MemoryTypeOK
  <2>3. CASE NexusRestart
    BY <2>3 DEF NexusRestart
  <2>4. ASSUME NEW k \in Call, Probe(k), a = lease[k].ip, ~Gone(lease[k].ev)
        PROVE  worker_payloads[a] = None
    <3>1. Holding(k) /\ ~Bound(k) /\ call[k].pc # "lookup"
      BY <2>4 DEF Probe, At, Holding, Bound
    <3>2. PICK c \in Container : /\ Holds(k, c) /\ HoldInv(k, c) /\ ContainerInv(c)
                                 /\ \A j \in Call \ {k} : ~Holds(j, c)
      BY <1>1, <3>1, OneHolder
    <3>3. ~Awake(c)
      BY <3>2 DEF HoldInv, Free, Awake
    <3>. QED  BY <2>4, <3>1, <3>2, <3>3 DEF ContainerInv, PayloadInv, Holds
  <2>5. ASSUME NEW k \in Call, Probe(k)
        PROVE  worker_payloads'[a] = worker_payloads[a] \/ worker_payloads[a] = None
    BY <1>1, <2>4, <2>5 DEF Probe, TypeParts, MemoryTypeOK
  <2>. QED  BY <1>1, <2>1, <2>2, <2>3, <2>5
            DEF Next, NexusNext, CallStep, RowStep, Claim, LookUp, Ghost, Signal, TimePasses,
                PollStep, NextMark, NextFail, NextRevert, WorkerStep, RuntimeNext,
                RuntimeResponse, RuntimeError, Reporting, WakeCaller, RuntimeInitError,
                FleetStep, Provision, Launch, Publish, Die, Reap, Forget, memoryVars,
                LBStep, Refuse, CreateRequest, Post, ProxyRequest, Answered,
                PostFails, LBCrash, CleanUpStuck, otherVars, nexusVars
<1>2. TypeParts /\ HandOver /\ [Next]_vars =>
        [\A a \in Addr : worker_payloads'[a] \in {worker_payloads[a], None}
                          \/ worker_payloads[a] = None]_vars
  BY <1>1
<1>. QED  BY <1>2, HandOverAlways, PTL DEF Spec, NoPayloadOverwrite
=============================================================================
