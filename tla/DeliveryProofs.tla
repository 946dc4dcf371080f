--------------------------- MODULE DeliveryProofs ---------------------------
(***************************************************************************)
(* What the hand-over is for: no worker is left reserved and waiting, and  *)
(* a request reaches one worker at most, whose outcome its caller hears    *)
(* of; and seen through its rows, answers and hand-overs the Nexus         *)
(* implements Invocation.  As for HandOver, containers have addresses of   *)
(* their own.                                                              *)
(***************************************************************************)
EXTENDS HandOverProofs, FiniteSetTheorems

-----------------------------------------------------------------------------
(* Reserved workers.  A row becomes busy by a claim only, and the call that has *)
(* claimed it either wakes its worker or finds it dead.                         *)

Waiting(c) ==
  poll[c].pc = "wait" /\ ~poll[c].set /\ Alive(c) /\ containers[c].status = "busy"

Reserved(c) == \E k \in Call : Holding(k) /\ lease[k].ip = AddrOf[c]

LEMMA QuietReservation ==
  ASSUME TypeParts, NoStrandedWorker, NEW c \in Container, Waiting(c)', Waiting(c)' => Waiting(c),
         CallsKept, \A k \in Call : lease'[k].ip = lease[k].ip
  PROVE  Reserved(c)'
BY DEF NoStrandedWorker, Waiting, Reserved, CallsKept

LEMMA ContainerReservation ==
  ASSUME OwnAddresses, TypeParts, HandOver, NoStrandedWorker, NEW c \in Container, Waiting(c)',
         NEW d \in Container, PollStep(d) \/ WorkerStep(d) \/ FleetStep(d)
  PROVE  Reserved(c)'
<1>1. CallsKept /\ \A k \in Call : lease'[k].ip = lease[k].ip
  BY DEF PollStep, NextMark, NextDeliver, NextDrop, NextFail, NextRevert, WorkerStep, RuntimeNext,
         RuntimeResponse, RuntimeError, Reporting, WakeCaller, SetResponseEvent, RuntimeInitError,
         FleetStep, Provision, Launch, Publish, Die, Reap, Forget, callVars, memoryVars,
         CallsKept, Holding, TypeParts, MemoryTypeOK
<1>2. PollInv(c) /\ RowInv(c)
  BY DEF HandOver
<1>3. CASE PollStep(d)
  <2>1. d = c => FALSE
    <3>1. SUFFICES ASSUME NextMark(c), d = c
                   PROVE  FALSE
      BY <1>3 DEF Waiting, PollStep, NextDeliver, NextDrop, NextFail, NextRevert, EndPoll, NoPoll,
                  TypeParts, MemoryTypeOK
    <3>2. containers[c].ip = AddrOf[c]
      BY <3>1, AddrType, NoContainerIsNone DEF NextMark, RowsAt, OwnAddresses, HandOver, RowInv
    <3>3. containers'[c].status = "available"
      BY <3>1, <3>2 DEF NextMark, MarkAvailable, WithStatusAt, TypeParts, ContainersTypeOK
    <3>. QED  BY <3>3 DEF Waiting
  <2>2. SameContainer(c)
    BY <1>3, <2>1, OneAddress
  <2>. QED  BY <1>1, <2>2, QuietReservation DEF Waiting, SameContainer, Alive
<1>4. CASE RuntimeNext(d)
  <2>1. d # c
    BY <1>4 DEF RuntimeNext, NoPoll, Waiting, TypeParts, MemoryTypeOK
  <2>2. poll'[c] = poll[c] /\ worker'[c] = worker[c] /\ UNCHANGED containers
    BY <1>4, <2>1 DEF RuntimeNext, TypeParts, MemoryTypeOK, WorkerTypeOK
  <2>. QED  BY <1>1, <2>2, QuietReservation DEF Waiting, Alive
<1>5. CASE RuntimeResponse(d) \/ RuntimeError(d) \/ WakeCaller(d)
  <2>1. Alive(c)' => Alive(c)
    BY <1>5 DEF RuntimeResponse, RuntimeError, WakeCaller, Reporting, Alive, TypeParts, WorkerTypeOK
  <2>2. UNCHANGED <<containers, poll>>
    BY <1>5 DEF RuntimeResponse, RuntimeError, WakeCaller, Reporting
  <2>. QED  BY <1>1, <2>1, <2>2, QuietReservation DEF Waiting
<1>6. CASE RuntimeInitError(d)
  <2>1. Alive(c)' => Alive(c)
    BY <1>6 DEF RuntimeInitError, Alive, Dead, TypeParts, WorkerTypeOK
  <2>2. UNCHANGED poll /\ (containers'[c].status = "busy" => containers[c].status = "busy")
    BY <1>6 DEF RuntimeInitError, MarkFailed, WithStatusAt, TypeParts, ContainersTypeOK
  <2>. QED  BY <1>1, <2>1, <2>2, QuietReservation DEF Waiting
<1>7. CASE FleetStep(d)
  <2>1. UNCHANGED poll
    BY <1>7 DEF FleetStep, Provision, Launch, Publish, Die, Reap, Forget, workVars
  <2>2. Alive(c)' => Alive(c)
    BY <1>2, <1>7, <2>1
    DEF FleetStep, Provision, Launch, Publish, Die, Reap, Forget, workVars, Alive, Dead, PollInv,
        Waiting, TypeParts, WorkerTypeOK
  <2>3. containers'[c].status = "busy" => containers[c].status = "busy"
    BY <1>7 DEF FleetStep, Provision, Launch, Publish, Die, Reap, Forget, InsertProvisioning,
                PublishDeployed, MarkDestroying, RemoveRows, NoContainer, TypeParts, ContainersTypeOK
  <2>. QED  BY <1>1, <2>1, <2>2, <2>3, QuietReservation DEF Waiting
<1>. QED  BY <1>3, <1>4, <1>5, <1>6, <1>7 DEF WorkerStep

\* A call that has claimed a worker keeps it until it has set its event.
LEMMA CallReservation ==
  ASSUME OwnAddresses, TypeParts, HandOver, NoStrandedWorker, NEW c \in Container, Waiting(c)',
         NEW k \in Call, CallStep(k) \/ TimePasses(k)
  PROVE  Reserved(c)'
<1>1. PollInv(c) /\ RowInv(c)
  BY DEF HandOver
<1>2. CASE TimePasses(k) \/ RowStep(k)
  <2>1. UNCHANGED <<lease, containers, poll, worker>>
    BY <1>2 DEF TimePasses, RowStep, workVars
  <2>2. CallsKept
    BY <1>2, RowStepHolding DEF CallsKept, TypeParts
  <2>. QED  BY <2>1, <2>2, QuietReservation DEF Waiting, Alive
<1>3. CASE Claim(k)
  <2>1. PICK e \in Container :
          /\ containers[e].status = "available"
          /\ containers' = WithStatusAt(containers[e].ip, "busy")
          /\ lease' = [lease EXCEPT ![k].ip = containers[e].ip] /\ containers[e].ip \in Addr
    BY <1>3 DEF Claim, ClaimAddress, AvailableFor
  <2>2. containers[e].ip = AddrOf[e]
    BY <2>1, NoContainerIsNone DEF HandOver, RowInv
  <2>3. /\ call'[k].pc = "lookup" /\ lease'[k].ip = AddrOf[e] /\ ~Holding(k)
        /\ \A j \in Call \ {k} : SameCall(j)
    BY <1>3, <2>1, <2>2
    DEF Claim, At, Goto, Holding, TypeParts, CallsInv, CallsTypeOK, MemoryTypeOK, SameCall
  <2>4. CASE c = e
    BY <2>3, <2>4 DEF Reserved, Holding
  <2>5. CASE c # e
    <3>1. containers'[c] = containers[c]
      BY <2>1, <2>2, <2>5, RowsByAddress
    <3>2. Waiting(c)
      BY <1>3, <3>1 DEF Claim, workVars, Waiting, Alive
    <3>3. PICK j \in Call : Holding(j) /\ lease[j].ip = AddrOf[c]
      BY <3>2 DEF NoStrandedWorker, Waiting
    <3>. QED  BY <2>3, <3>3 DEF SameCall, Holding, Reserved
  <2>. QED  BY <2>4, <2>5
<1>4. CASE LookUp(k) \/ Probe(k) \/ Ghost(k) \/ Signal(k)
  <2>1. \A j \in Call \ {k} : SameCall(j)
    BY <1>4, OneCall
  <2>2. containers'[c].status = "busy" => containers[c].status = "busy"
    BY <1>4 DEF LookUp, Probe, Ghost, Signal, MarkFailed, WithStatusAt, TypeParts, ContainersTypeOK
  <2>3. /\ UNCHANGED worker
        /\ poll'[c].pc = poll[c].pc /\ (poll[c].set => poll'[c].set)
    BY <1>4 DEF LookUp, Probe, Ghost, Signal, workVars, TypeParts, MemoryTypeOK
  <2>4. Waiting(c)
    BY <2>2, <2>3 DEF Waiting, Alive
  <2>5. PICK j \in Call : Holding(j) /\ lease[j].ip = AddrOf[c]
    BY <2>4 DEF NoStrandedWorker, Waiting
  <2>6. CASE j # k
    BY <2>1, <2>5, <2>6 DEF SameCall, Holding, Reserved
  <2>7. CASE j = k
    <3>1. Holds(k, c) /\ HoldInv(k, c)
      BY <2>5, <2>7 DEF Holds, HandOver
    <3>2. CASE LookUp(k)
      <4>1. listening_workers[AddrOf[c]] = c
        BY <1>1, <2>4 DEF PollInv, Waiting
      <4>2. call'[k].pc = "probe" /\ lease'[k].ip = lease[k].ip
        BY <2>5, <2>7, <3>2, <4>1, NoContainerIsNone
        DEF LookUp, Goto, TypeParts, CallsInv, CallsTypeOK, MemoryTypeOK
      <4>. QED  BY <2>5, <2>7, <4>2 DEF Reserved, Holding
    <3>3. CASE Probe(k)
      BY <2>5, <2>7, <3>3 DEF Probe, Goto, Reserved, Holding, TypeParts, CallsInv, CallsTypeOK
    <3>4. CASE Ghost(k)
      BY <2>4, <3>1, <3>4 DEF Ghost, At, HoldInv, Waiting, Alive
    <3>5. CASE Signal(k)
      <4>1. lease[k].ev = c
        BY <3>1, <3>5 DEF Signal, StartWaiting, At, HoldInv
      <4>2. poll'[c].set
        BY <2>4, <3>5, <4>1 DEF Signal, Waiting, TypeParts, MemoryTypeOK
      <4>. QED  BY <4>2 DEF Waiting
    <3>. QED  BY <1>4, <3>2, <3>3, <3>4, <3>5
  <2>. QED  BY <2>6, <2>7
<1>. QED  BY <1>2, <1>3, <1>4 DEF CallStep

LEMMA LBReservation ==
  ASSUME TypeParts, HandOver, NoStrandedWorker, NEW c \in Container, Waiting(c)',
         \/ \E r \in Request : LBStep(r)
         \/ LBCrash
         \/ \E S \in SUBSET Request : CleanUpStuck(S)
         \/ UNCHANGED vars
  PROVE  Reserved(c)'
<1>1. UNCHANGED <<lease, containers, poll, worker>>
  BY DEF LBStep, Refuse, CreateRequest, Post, ProxyRequest, Answered, PostFails, LBCrash,
         CleanUpStuck, otherVars, memoryVars, workVars, nexusVars, vars
<1>2. CallsKept
  BY LBCallsKept
<1>. QED  BY <1>1, <1>2, QuietReservation DEF Waiting, Alive

\* No worker is left waiting behind a row that says it is busy.
THEOREM NobodyStranded == ASSUME OwnAddresses PROVE Spec => []NoStrandedWorker
<1>1. Init => NoStrandedWorker
  BY DEF Init, NexusInit, NoPoll, NoStrandedWorker
<1>2. TypeParts /\ HandOver /\ NoStrandedWorker /\ [Next]_vars => NoStrandedWorker'
  <2>. SUFFICES ASSUME TypeParts, HandOver, NoStrandedWorker, [Next]_vars,
                       NEW c \in Container, Waiting(c)'
                PROVE  Reserved(c)'
    BY DEF NoStrandedWorker, Waiting, Reserved
  <2>1. ~NexusRestart
    BY DEF NexusRestart, NoPoll, Waiting
  <2>. QED  BY <2>1, ContainerReservation, CallReservation, LBReservation DEF Next, NexusNext
<1>. QED  BY <1>1, <1>2, HandOverAlways, PTL DEF Spec
-----------------------------------------------------------------------------
(* One delivery for each request.  A request has one activation in all; while it *)
(* looks for a worker, nobody has the request, and afterwards there is one copy   *)
(* of it, under an address or in the hands of a /next whose worker has gone.      *)

Early == {"claim", "lookup", "probe", "ghost"}
DataOf(r) == requests[r].data

NoCopy(r) ==
  /\ \A a \in Addr : worker_payloads[a] # r
  /\ \A c \in Container : poll[c].job # r

CopyInv(r) ==
  /\ \A a, b \in Addr : worker_payloads[a] = r /\ worker_payloads[b] = r => a = b
  /\ \A c, d \in Container : poll[c].job = r /\ poll[d].job = r => c = d
  /\ \A a \in Addr, c \in Container : ~(worker_payloads[a] = r /\ poll[c].job = r)
  /\ r \in ran => NoCopy(r)

\* The activation of a request is the only one and the response event is its own.
OwnerInv(k) ==
  /\ \A j \in Call : Open(j) /\ call[j].req = call[k].req => j = k
  /\ lb[call[k].req].pc \in {"posted", "ok", "failed", "lost"}
  /\ lb[call[k].req].pc = "posted" => lb[call[k].req].call = k
  /\ response_events[call[k].req] = k

Seeks(k) ==
  \/ call[k].pc \in Early
  \/ call[k].pc \in {"wait", "check"} /\ DataOf(call[k].req) = "worker_disconnected"

\* What it knows of its request: an activation that may (still or again) look for a
\* worker has given it to nobody, and no outcome is in the row before somebody ran it.
RequestInv(k) ==
  LET r == call[k].req IN
  /\ Seeks(k) => r \notin ran /\ NoCopy(r)
  /\ call[k].pc = "signal" => DataOf(r) # "worker_disconnected"
  /\ r \notin ran => DataOf(r) \notin {"result", "error"}

\* It waits for its own event, which is set after the outcome is in the row.
WaitInv(k) ==
  call[k].pc = "wait" =>
    /\ call[k].on = k
    /\ DataOf(call[k].req) \in {"result", "error"} =>
         signalled[k] \/ \E c \in Container : report[c] = call[k].req

CallInv(k) == Open(k) => OwnerInv(k) /\ RequestInv(k) /\ WaitInv(k)

FreshInv(r) ==
  /\ lb[r].pc \in {"idle", "created"} => r \notin ran /\ NoCopy(r)
  /\ lb[r].pc = "created" => DataOf(r) = "empty"

RanInv(c) == worker[c].job # None => worker[c].job \in ran

Delivery ==
  /\ \A k \in Call : CallInv(k)
  /\ \A r \in Request : CopyInv(r) /\ FreshInv(r)
  /\ \A c \in Container : RanInv(c)

LEMMA InitDelivery == Init => Delivery
<1>. SUFFICES ASSUME Init
              PROVE  Delivery
  OBVIOUS
<1>. USE DEF Init, NexusInit
<1>1. \A k \in Call : ~Open(k)
  BY DEF CallsInit, NoCall, Open
<1>2. \A r \in Request : NoCopy(r) /\ r \notin ran /\ lb[r].pc = "idle"
  BY NoRequestIsNone DEF NoCopy, NoPoll, NoClient
<1>3. \A r \in Request : CopyInv(r) /\ FreshInv(r)
  BY <1>2 DEF NoCopy, CopyInv, FreshInv
<1>. QED  BY <1>1, <1>3 DEF Delivery, CallInv, RanInv

\* What most steps do to an activation of r: they leave it, or move it without a new
\* row, copy or outcome.
Undisturbed(k, r) ==
  /\ Open(k) /\ call[k].req = r /\ call'[k].req = r /\ call'[k].on = call[k].on
  /\ \A j \in Call : Open(j)' /\ call'[j].req = r => Open(j) /\ call[j].req = r
  /\ \/ call'[k].pc = call[k].pc
     \/ Seeks(k) /\ call'[k].pc \in Early
     \/ call[k].pc = "bind" /\ call'[k].pc = "signal" /\ DataOf(r)' = "empty"
     \/ call[k].pc = "wait" /\ call'[k].pc = "check"
  /\ response_events'[r] = response_events[r]
  /\ signalled[k] => signalled'[k]
  /\ DataOf(r)' \in {DataOf(r), "text", "empty"}
  /\ NoCopy(r) => NoCopy(r)'
  /\ r \in ran => r \in ran'
  /\ r \in ran' => r \in ran \/ ~NoCopy(r)
  /\ \A c \in Container : report[c] = r => report'[c] = r \/ signalled'[k]
  /\ lb'[r] = lb[r] \/ lb'[r].pc \in {"ok", "failed", "lost"}

LEMMA Bystander ==
  ASSUME NEW k \in Call, NEW r, CallInv(k), Undisturbed(k, r)
  PROVE  CallInv(k)'
<1>. SUFFICES ASSUME Open(k)'
              PROVE  OwnerInv(k)' /\ RequestInv(k)' /\ WaitInv(k)'
  BY DEF CallInv
<1>. OwnerInv(k) /\ RequestInv(k) /\ WaitInv(k)
  BY DEF CallInv, Undisturbed
<1>1. OwnerInv(k)'
  BY DEF OwnerInv, Undisturbed
<1>2. Seeks(k)' => Seeks(k)
  BY DEF Undisturbed, Seeks, Early, DataOf
<1>3. RequestInv(k)'
  BY <1>2 DEF RequestInv, Undisturbed, Early, DataOf, NoCopy
<1>4. WaitInv(k)'
  BY DEF WaitInv, Undisturbed, Early, DataOf
<1>. QED  BY <1>1, <1>3, <1>4

\* The same for all activations at once.
CallsGoOn ==
  \A k \in Call : Open(k)' =>
    /\ Open(k) /\ call'[k].req = call[k].req /\ call'[k].on = call[k].on
    /\ \/ call'[k].pc = call[k].pc
       \/ Seeks(k) /\ call'[k].pc \in Early
       \/ call[k].pc = "bind" /\ call'[k].pc = "signal" /\ DataOf(call[k].req)' = "empty"
       \/ call[k].pc = "wait" /\ call'[k].pc = "check"
    /\ response_events'[call[k].req] = response_events[call[k].req]
    /\ signalled[k] => signalled'[k]

RowsGoOn ==
  \A r \in Request : \/ DataOf(r)' \in {DataOf(r), "text", "empty"}
                     \/ \A k \in Call : Open(k)' => call[k].req # r

\* A request that somebody receives is a copy that goes.
CopiesGoOn ==
  /\ \A r \in Request : /\ CopyInv(r)'
                        /\ NoCopy(r) => NoCopy(r)'
                        /\ r \in ran => r \in ran'
                        /\ r \in ran' => r \in ran \/ ~NoCopy(r)
  /\ \A c \in Container : worker'[c].job \in {worker[c].job, None} \cup ran'

\* Outcomes are announced before they are forgotten.
ReportsGoOn ==
  \A c \in Container, k \in Call :
    Open(k)' /\ report[c] = call[k].req => report'[c] = report[c] \/ signalled'[k]

ClientsGoOn ==
  \A r \in Request :
    /\ lb'[r].pc \in {"idle", "created"} => lb[r].pc \in {"idle", "created"}
    /\ lb'[r].pc = "created" =>
         \/ DataOf(r)' = "empty"
         \/ lb[r].pc = "created" /\ DataOf(r)' = DataOf(r)
    /\ lb[r].pc \in {"posted", "ok", "failed", "lost"} =>
         lb'[r] = lb[r] \/ lb'[r].pc \in {"ok", "failed", "lost"}

LEMMA GoOn ==
  ASSUME TypeParts, Delivery, CallsGoOn, RowsGoOn, CopiesGoOn, ReportsGoOn, ClientsGoOn
  PROVE  Delivery'
<1>1. ASSUME NEW k \in Call, Open(k)', NEW r \in Request, call[k].req = r
      PROVE  Undisturbed(k, r)
  <2>1. Open(k) /\ call'[k].req = r /\ OwnerInv(k)
    BY <1>1 DEF CallsGoOn, Delivery, CallInv
  <2>2. DataOf(r)' \in {DataOf(r), "text", "empty"}
    BY <1>1 DEF RowsGoOn
  <2>3. \A j \in Call : Open(j)' /\ call'[j].req = r => Open(j) /\ call[j].req = r
    BY DEF CallsGoOn
  <2>4. lb'[r] = lb[r] \/ lb'[r].pc \in {"ok", "failed", "lost"}
    BY <1>1, <2>1 DEF OwnerInv, ClientsGoOn
  <2>5. /\ NoCopy(r) => NoCopy(r)'
        /\ r \in ran => r \in ran'
        /\ r \in ran' => r \in ran \/ ~NoCopy(r)
    BY DEF CopiesGoOn
  <2>6. \A c \in Container : report[c] = r => report'[c] = r \/ signalled'[k]
    BY <1>1 DEF ReportsGoOn
  <2>7. /\ call'[k].on = call[k].on
        /\ \/ call'[k].pc = call[k].pc
           \/ Seeks(k) /\ call'[k].pc \in Early
           \/ call[k].pc = "bind" /\ call'[k].pc = "signal" /\ DataOf(r)' = "empty"
           \/ call[k].pc = "wait" /\ call'[k].pc = "check"
        /\ response_events'[r] = response_events[r]
        /\ signalled[k] => signalled'[k]
    BY <1>1, <2>1 DEF CallsGoOn, DataOf
  <2>. QED  BY <1>1, <2>1, <2>2, <2>3, <2>4, <2>5, <2>6, <2>7 DEF Undisturbed
<1>2. ASSUME NEW k \in Call
      PROVE  CallInv(k)'
  <2>. SUFFICES ASSUME Open(k)'
                PROVE  CallInv(k)'
    BY DEF CallInv
  <2>1. Open(k) /\ call[k].req \in Request
    BY DEF CallsGoOn, TypeParts, CallsInv, CallShape
  <2>2. PICK r \in Request : call[k].req = r
    BY <2>1
  <2>. QED  BY <1>1, <2>2, Bystander DEF Delivery
<1>3. \A r \in Request : CopyInv(r)' /\ FreshInv(r)'
  BY DEF Delivery, FreshInv, ClientsGoOn, CopiesGoOn
<1>4. \A c \in Container : RanInv(c)'
  <2>. SUFFICES ASSUME NEW c \in Container, worker'[c].job # None
                PROVE  worker'[c].job \in ran'
    BY DEF RanInv
  <2>1. CASE worker'[c].job = worker[c].job
    BY <2>1 DEF Delivery, RanInv, CopiesGoOn, TypeParts, WorkerTypeOK
  <2>. QED  BY <2>1 DEF CopiesGoOn
<1>. QED  BY <1>2, <1>3, <1>4 DEF Delivery

\* Copies that only vanish.
LEMMA CopiesVanish ==
  ASSUME Delivery,
         \A a \in Addr : worker_payloads'[a] \in {worker_payloads[a], None},
         \A c \in Container : poll'[c].job \in {poll[c].job, None},
         \A c \in Container : worker'[c].job \in {worker[c].job, None},
         ran' = ran
  PROVE  CopiesGoOn
BY NoRequestIsNone DEF Delivery, CopiesGoOn, CopyInv, NoCopy

-----------------------------------------------------------------------------
(* The steps of the activations *)

\* An activation that ends leaves the events of the others alone.
LEMMA FinishGoesOn ==
  ASSUME TypeParts, Delivery, NEW k \in Call, Open(k), NEW answer, Finish(k, answer)
  PROVE  CallsGoOn
<1>1. ~Open(k)' /\ \A j \in Call \ {k} : call'[j] = call[j]
  BY FinishEffect DEF TypeParts, CallsInv, Open
<1>2. ASSUME NEW j \in Call \ {k}, Open(j)
      PROVE  /\ response_events'[call[j].req] = j
             /\ response_events[call[j].req] = j
             /\ signalled[j] => signalled'[j]
  <2>1. call[j].req # call[k].req /\ response_events[call[j].req] = j
    BY <1>2 DEF Delivery, CallInv, OwnerInv
  <2>2. call[j].req \in Request
    BY <1>2 DEF TypeParts, CallsInv, CallShape
  <2>3. response_events'[call[j].req] = j
    BY <2>1, <2>2 DEF Finish, TypeParts, CallsInv, CallsTypeOK
  <2>4. Named(j)'
    BY <2>2, <2>3 DEF Named
  <2>. QED  BY <2>1, <2>3, <2>4 DEF Finish
<1>. QED  BY <1>1, <1>2 DEF CallsGoOn, Open

LEMMA CallGoesOn ==
  ASSUME TypeParts, Delivery, NEW k \in Call,
         \/ TimePasses(k) \/ RowStep(k)
         \/ Claim(k) \/ LookUp(k) \/ Ghost(k)
         \/ Probe(k) /\ Gone(lease[k].ev)
  PROVE  Delivery'
<1>1. UNCHANGED <<worker_payloads, worker, ran, report, lb, poll>>
  BY DEF TimePasses, RowStep, Claim, LookUp, Ghost, Probe, workVars
<1>2. \A r \in Request : DataOf(r)' \in {DataOf(r), "empty"}
  <2>1. CASE Bind(k)
    BY <2>1 DEF Bind, At, UpdateRequest, DataOf, TypeParts, CallsInv, RequestsTypeOK
  <2>2. CASE UNCHANGED requests
    BY <2>2 DEF DataOf
  <2>3. Check(k) => UNCHANGED requests
    BY DEF Check, Goto, Finish
  <2>. QED  BY <2>1, <2>2, <2>3 DEF TimePasses, TimeUp, RowStep, Expire, Finish, Wake, Claim, LookUp,
                                    Ghost, Probe, Goto
<1>3. CallsGoOn
  <2>1. CASE Expire(k)
    BY <2>1, FinishGoesOn DEF Expire, At, Open
  <2>2. CASE TimePasses(k)
    BY <2>2 DEF TimePasses, TimeUp, CallsGoOn, Open, TypeParts, CallsInv, CallsTypeOK
  <2>3. CASE Wake(k)
    BY <2>3 DEF Wake, At, Goto, CallsGoOn, Open, TypeParts, CallsInv, CallsTypeOK
  <2>4. CASE Claim(k) \/ LookUp(k) \/ Ghost(k) \/ (Probe(k) /\ Gone(lease[k].ev))
    BY <2>4 DEF Claim, LookUp, Ghost, Probe, At, Goto, Early, Seeks, CallsGoOn, Open, TypeParts,
                CallsInv, CallsTypeOK
  <2>5. CASE Check(k) /\ Goto(k, "claim")
    <3>1. Seeks(k)
      <4>1. call'[k].pc = "claim"
        BY <2>5 DEF Goto, TypeParts, CallsInv, CallsTypeOK
      <4>2. \A answer : ~Finish(k, answer)
        BY <4>1, FinishEffect DEF TypeParts, CallsInv
      <4>. QED  BY <2>5, <4>2 DEF Check, Seeks, DataOf, At
    <3>. QED  BY <2>5, <3>1 DEF Check, At, Goto, Early, CallsGoOn, Open, TypeParts, CallsInv, CallsTypeOK
  <2>6. CASE Check(k) /\ \E answer : Finish(k, answer)
    BY <2>6, FinishGoesOn DEF Check, At, Open
  <2>7. CASE Bind(k)
    <3>1. DataOf(call[k].req)' = "empty"
      BY <2>7 DEF Bind, At, UpdateRequest, DataOf, TypeParts, CallsInv, CallShape, Open, RequestsTypeOK
    <3>. QED  BY <2>7, <3>1 DEF Bind, At, CallsGoOn, Open, TypeParts, CallsInv, CallsTypeOK
  <2>8. Check(k) => Goto(k, "claim") \/ \E answer : Finish(k, answer)
    BY DEF Check
  <2>. QED  BY <2>1, <2>2, <2>3, <2>4, <2>5, <2>6, <2>7, <2>8 DEF RowStep
<1>4. RowsGoOn
  BY <1>2 DEF RowsGoOn
<1>5. CopiesGoOn /\ ReportsGoOn
  BY <1>1, CopiesVanish DEF ReportsGoOn
<1>6. ClientsGoOn
  BY <1>1, <1>2 DEF ClientsGoOn
<1>. QED  BY <1>3, <1>4, <1>5, <1>6, GoOn

\* The call puts the copy of its request under the address of the worker it holds.
LEMMA BindDelivery ==
  ASSUME TypeParts, Delivery, NEW k \in Call, Probe(k), ~Gone(lease[k].ev)
  PROVE  Delivery'
<1>1. PICK r \in Request : call[k].req = r
  BY DEF Probe, At, TypeParts, CallsInv, CallShape, Open
<1>2. /\ Open(k) /\ OwnerInv(k) /\ RequestInv(k) /\ r \notin ran /\ NoCopy(r)
  BY <1>1 DEF Probe, At, Open, Delivery, CallInv, RequestInv, Seeks, Early
<1>3. /\ UNCHANGED <<requests, response_events, signalled, poll, worker, ran, report, lb>>
      /\ worker_payloads' = [worker_payloads EXCEPT ![lease[k].ip] = r]
      /\ call' = [call EXCEPT ![k].pc = "bind"]
  BY <1>1 DEF Probe, Goto, workVars
<1>4. lease[k].ip \in Addr
  BY DEF Probe, At, TypeParts, LeaseShape, Holding
<1>5. \A q \in Request : q # r => CopyInv(q)' /\ (NoCopy(q) => NoCopy(q)')
  BY <1>3, <1>4 DEF Delivery, CopyInv, NoCopy, TypeParts, MemoryTypeOK
<1>6. CopyInv(r)'
  BY <1>2, <1>3, <1>4 DEF CopyInv, NoCopy, TypeParts, MemoryTypeOK
<1>7. \A q \in Request : FreshInv(q)'
  BY <1>1, <1>2, <1>3, <1>5 DEF Delivery, FreshInv, OwnerInv, DataOf
<1>8. \A c \in Container : RanInv(c)'
  BY <1>3 DEF Delivery, RanInv
<1>9. \A j \in Call : /\ Open(j)' <=> Open(j)
                      /\ call'[j].req = call[j].req /\ call'[j].on = call[j].on
                      /\ j # k => call'[j] = call[j]
  BY <1>2, <1>3 DEF Open, TypeParts, CallsInv, CallsTypeOK
<1>10. CallInv(k)'
  <2>1. call'[k].pc = "bind"
    BY <1>3 DEF TypeParts, CallsInv, CallsTypeOK
  <2>2. OwnerInv(k)'
    BY <1>2, <1>3, <1>9 DEF OwnerInv
  <2>. QED  BY <1>2, <1>3, <1>9, <2>1, <2>2 DEF CallInv, RequestInv, WaitInv, Seeks, Early, DataOf
<1>11. ASSUME NEW j \in Call \ {k}, Open(j)
       PROVE  CallInv(j)'
  <2>1. PICK q \in Request : call[j].req = q
    BY <1>11 DEF TypeParts, CallsInv, CallShape
  <2>2. q # r
    BY <1>1, <1>2, <1>11, <2>1 DEF OwnerInv
  <2>3. Undisturbed(j, q)
    BY <1>3, <1>5, <1>9, <1>11, <2>1, <2>2 DEF Undisturbed, DataOf
  <2>. QED  BY <2>3, Bystander DEF Delivery
<1>12. \A j \in Call : CallInv(j)'
  BY <1>9, <1>10, <1>11 DEF CallInv
<1>. QED  BY <1>5, <1>6, <1>7, <1>8, <1>12 DEF Delivery

\* A call that has woken its worker waits for its own event; nobody ran the request yet.
LEMMA SignalDelivery ==
  ASSUME TypeParts, HandOver, Delivery, NEW k \in Call, Signal(k)
  PROVE  Delivery'
<1>1. PICK r \in Request : call[k].req = r
  BY DEF Signal, StartWaiting, At, TypeParts, CallsInv, CallShape, Open
<1>2. Open(k) /\ OwnerInv(k) /\ RequestInv(k)
  BY DEF Signal, StartWaiting, At, Open, Delivery, CallInv
<1>3. /\ UNCHANGED <<requests, response_events, signalled, worker_payloads, worker, ran, report, lb>>
      /\ call' = [call EXCEPT ![k].pc = "wait", ![k].on = k]
      /\ call[k].pc = "signal"
  BY <1>1, <1>2, CallType DEF Signal, StartWaiting, At, OwnerInv
<1>4. \A c \in Container : poll'[c].job = poll[c].job
  BY DEF Signal, TypeParts, MemoryTypeOK
<1>5. r \notin ran
  <2>1. PICK c \in Container : Holds(k, c) /\ HoldInv(k, c)
    BY <1>3 DEF HandOver, LeaseInv, Holding, Holds
  <2>2. worker_payloads[AddrOf[c]] = r
    BY <1>1, <1>3, <2>1 DEF HoldInv, Bound
  <2>. QED  BY <2>2, AddrType DEF Delivery, CopyInv, NoCopy
<1>6. \A q \in Request : CopyInv(q)' /\ (NoCopy(q) => NoCopy(q)')
  BY <1>3, <1>4 DEF Delivery, CopyInv, NoCopy
<1>7. \A q \in Request : FreshInv(q)'
  BY <1>3, <1>6 DEF Delivery, FreshInv, DataOf
<1>8. \A c \in Container : RanInv(c)'
  BY <1>3 DEF Delivery, RanInv
<1>9. \A j \in Call : /\ Open(j)' <=> Open(j)
                      /\ call'[j].req = call[j].req
                      /\ j # k => call'[j] = call[j]
  BY <1>3 DEF Open, TypeParts, CallsInv, CallsTypeOK
<1>10. CallInv(k)'
  <2>1. call'[k].pc = "wait" /\ call'[k].on = k
    BY <1>3 DEF TypeParts, CallsInv, CallsTypeOK
  <2>2. OwnerInv(k)'
    BY <1>2, <1>3, <1>9 DEF OwnerInv
  <2>3. DataOf(r)' = DataOf(r) /\ DataOf(r) \notin {"worker_disconnected", "result", "error"}
    BY <1>1, <1>2, <1>3, <1>5 DEF RequestInv, DataOf
  <2>4. RequestInv(k)' /\ WaitInv(k)'
    BY <1>1, <1>9, <2>1, <2>3 DEF RequestInv, WaitInv, Seeks, Early, DataOf
  <2>. QED  BY <2>2, <2>4 DEF CallInv
<1>11. ASSUME NEW j \in Call \ {k}, Open(j)
       PROVE  CallInv(j)'
  <2>1. PICK q \in Request : call[j].req = q
    BY <1>11 DEF TypeParts, CallsInv, CallShape
  <2>2. Undisturbed(j, q)
    BY <1>3, <1>6, <1>9, <1>11, <2>1 DEF Undisturbed, DataOf
  <2>. QED  BY <2>2, Bystander DEF Delivery
<1>12. \A j \in Call : CallInv(j)'
  BY <1>9, <1>10, <1>11 DEF CallInv
<1>. QED  BY <1>6, <1>7, <1>8, <1>12 DEF Delivery

-----------------------------------------------------------------------------
(* The steps of the containers *)

\* Steps that touch neither activations nor rows nor clients.
LEMMA OffStage ==
  ASSUME TypeParts, Delivery, CopiesGoOn,
         UNCHANGED <<requests, response_events, signalled, call, lb, report>>
  PROVE  Delivery'
<1>1. CallsGoOn /\ RowsGoOn /\ ReportsGoOn /\ ClientsGoOn
  BY DEF CallsGoOn, RowsGoOn, ReportsGoOn, ClientsGoOn, DataOf, Open
<1>. QED  BY <1>1, GoOn

LEMMA ContainerGoesOn ==
  ASSUME TypeParts, Delivery, NEW c \in Container,
         \/ NextMark(c) \/ NextFail(c) \/ RuntimeNext(c) \/ RuntimeInitError(c) \/ FleetStep(c)
  PROVE  Delivery'
<1>1. UNCHANGED <<requests, response_events, signalled, call, lb>>
  BY DEF NextMark, NextFail, RuntimeNext, RuntimeInitError, FleetStep, Provision, Launch, Publish,
         Die, Reap, Forget, callVars
<1>2. UNCHANGED <<worker_payloads, ran, report>>
  BY DEF NextMark, NextFail, RuntimeNext, RuntimeInitError, FleetStep, Provision, Launch, Publish,
         Die, Reap, Forget, memoryVars, workVars
<1>3. \A d \in Container : poll'[d].job \in {poll[d].job, None}
  BY DEF NextMark, NextFail, RuntimeNext, RuntimeInitError, FleetStep, Provision, Launch, Publish,
         Die, Reap, Forget, EndPoll, NoPoll, workVars, TypeParts, MemoryTypeOK
<1>4. \A d \in Container : worker'[d].job \in {worker[d].job, None}
  BY DEF NextMark, NextFail, RuntimeNext, RuntimeInitError, FleetStep, Provision, Launch, Publish,
         Die, Reap, Forget, Dead, workVars, TypeParts, WorkerTypeOK
<1>. QED  BY <1>1, <1>2, <1>3, <1>4, CopiesVanish, OffStage

\* /next takes the payload of its address: to send it, or because its worker has gone.
LEMMA TakeDelivery ==
  ASSUME OwnAddresses, TypeParts, Delivery, NEW c \in Container, NextDeliver(c) \/ NextDrop(c)
  PROVE  Delivery'
<1>. DEFINE a == AddrOf[c]
<1>1. UNCHANGED <<requests, response_events, signalled, call, lb, report>>
  BY DEF NextDeliver, NextDrop, callVars
<1>2. a \in Addr /\ worker_payloads' = [worker_payloads EXCEPT ![a] = None]
  BY AddrType DEF NextDeliver, NextDrop
<1>3. CASE NextDrop(c)
  <2>1. /\ ran' = ran /\ worker' = worker
        /\ poll'[c].job = worker_payloads[a]
        /\ \A d \in Container \ {c} : poll'[d] = poll[d]
    BY <1>3 DEF NextDrop, TypeParts, MemoryTypeOK
  <2>2. ASSUME NEW r \in Request
        PROVE  CopyInv(r)' /\ (NoCopy(r) => NoCopy(r)')
    <3>. CopyInv(r) /\ r # None
      BY NoRequestIsNone DEF Delivery
    <3>1. \A b \in Addr : worker_payloads'[b] = r <=> worker_payloads[b] = r /\ b # a
      BY <1>2 DEF TypeParts, MemoryTypeOK
    <3>. QED  BY <1>2, <2>1, <3>1 DEF CopyInv, NoCopy
  <2>. QED  BY <1>1, <2>1, <2>2, OffStage DEF CopiesGoOn
<1>4. CASE NextDeliver(c)
  <2>1. \A d \in Container : poll'[d].job \in {poll[d].job, None}
    BY <1>4 DEF NextDeliver, EndPoll, NoPoll, TypeParts, MemoryTypeOK
  <2>2. /\ \A b \in Addr : worker_payloads'[b] \in {worker_payloads[b], None}
        /\ worker_payloads'[a] = None
    BY <1>2 DEF TypeParts, MemoryTypeOK
  <2>3. CASE worker_payloads[a] = None
    <3>1. ran' = ran /\ \A d \in Container : worker'[d].job \in {worker[d].job, None}
      BY <1>4, <2>3 DEF NextDeliver, Dead, TypeParts, WorkerTypeOK
    <3>. QED  BY <1>1, <2>1, <2>2, <3>1, CopiesVanish, OffStage
  <2>4. ASSUME NEW r \in Request, worker_payloads[a] = r
        PROVE  Delivery'
    <3>1. /\ ran' = ran \cup {r}
          /\ \A d \in Container : worker'[d].job \in {worker[d].job, r}
      BY <1>4, <2>4, NoRequestIsNone DEF NextDeliver, TypeParts, WorkerTypeOK
    <3>2. NoCopy(r)' /\ ~NoCopy(r)
      BY <1>2, <2>1, <2>2, <2>4, NoRequestIsNone DEF Delivery, CopyInv, NoCopy
    <3>3. \A q \in Request : CopyInv(q)' /\ (NoCopy(q) => NoCopy(q)')
      BY <2>1, <2>2, <3>1, <3>2, NoRequestIsNone DEF Delivery, CopyInv, NoCopy
    <3>. QED  BY <1>1, <3>1, <3>2, <3>3, OffStage DEF CopiesGoOn
  <2>. QED  BY <1>2, <2>3, <2>4 DEF TypeParts, MemoryTypeOK
<1>. QED  BY <1>3, <1>4

\* A request whose worker has gone is handed back: its call still waits for it.
LEMMA RevertDelivery ==
  ASSUME TypeParts, HandOver, Delivery, NEW c \in Container, NextRevert(c)
  PROVE  Delivery'
<1>1. PICK r \in Request : poll[c].job = r
  BY DEF NextRevert, TypeParts, PollShape
<1>2. /\ UNCHANGED <<response_events, signalled, call, lb, report, worker_payloads, worker, ran>>
      /\ requests' = [requests EXCEPT ![r].status = "pending", ![r].data = "worker_disconnected"]
  BY <1>1 DEF NextRevert, UpdateRequest
<1>3. /\ DataOf(r)' = "worker_disconnected"
      /\ \A q \in Request \ {r} : DataOf(q)' = DataOf(q)
  BY <1>2 DEF DataOf, TypeParts, CallsInv, RequestsTypeOK
<1>4. \A d \in Container : poll'[d].job = IF d = c THEN None ELSE poll[d].job
  BY DEF NextRevert, EndPoll, NoPoll, TypeParts, MemoryTypeOK
<1>5. \A q \in Request : CopyInv(q)' /\ (NoCopy(q) => NoCopy(q)')
  BY <1>2, <1>4, NoRequestIsNone DEF Delivery, CopyInv, NoCopy
<1>6. CopyInv(r) /\ r \notin ran /\ ~NoCopy(r) /\ \A a \in Addr : worker_payloads[a] # r
  BY <1>1 DEF Delivery, CopyInv, NoCopy
<1>7. NoCopy(r)'
  BY <1>1, <1>2, <1>4, <1>6, NoRequestIsNone DEF CopyInv, NoCopy
<1>8. \A q \in Request : FreshInv(q)'
  BY <1>2, <1>3, <1>5, <1>6 DEF Delivery, FreshInv
<1>9. \A d \in Container : RanInv(d)'
  BY <1>2 DEF Delivery, RanInv
<1>10. ASSUME NEW k \in Call, Open(k), call[k].req = r
       PROVE  CallInv(k)'
  <2>1. OwnerInv(k) /\ RequestInv(k)
    BY <1>10 DEF Delivery, CallInv
  <2>2. call[k].pc \notin Early
    BY <1>6, <1>10, <2>1 DEF RequestInv, Seeks
  <2>3. call[k].pc \notin {"bind", "signal"}
    <3>. SUFFICES ASSUME Bound(k)
                  PROVE  FALSE
      BY DEF Bound
    <3>1. PICK d \in Container : Holds(k, d) /\ HoldInv(k, d)
      BY DEF HandOver, LeaseInv, Holding, Holds, Bound
    <3>. QED  BY <1>6, <1>10, <3>1, AddrType DEF HoldInv
  <2>4. OwnerInv(k)'
    BY <1>2, <2>1 DEF OwnerInv, Open
  <2>5. RequestInv(k)' /\ WaitInv(k)'
    BY <1>2, <1>3, <1>6, <1>7, <1>10, <2>1, <2>3
    DEF RequestInv, WaitInv, DataOf, Delivery, CallInv
  <2>. QED  BY <2>4, <2>5 DEF CallInv
<1>11. ASSUME NEW k \in Call, Open(k), call[k].req # r
       PROVE  CallInv(k)'
  <2>1. PICK q \in Request : call[k].req = q
    BY <1>11 DEF TypeParts, CallsInv, CallShape
  <2>2. Undisturbed(k, q)
    BY <1>2, <1>3, <1>5, <1>11, <2>1 DEF Undisturbed, Open
  <2>. QED  BY <2>2, Bystander DEF Delivery
<1>12. \A k \in Call : CallInv(k)'
  BY <1>2, <1>10, <1>11 DEF CallInv, Open
<1>. QED  BY <1>5, <1>8, <1>9, <1>12 DEF Delivery

\* The worker's outcome: its request is one that somebody received.
LEMMA ReportDelivery ==
  ASSUME TypeParts, Delivery, NEW c \in Container, RuntimeResponse(c) \/ RuntimeError(c)
  PROVE  Delivery'
<1>1. Reporting(c)
  BY DEF RuntimeResponse, RuntimeError
<1>2. PICK r \in Request : worker[c].job = r
  BY <1>1 DEF Reporting, TypeParts, WorkerShape
<1>3. r \in ran
  BY <1>2, NoRequestIsNone DEF Delivery, RanInv
<1>4. UNCHANGED <<response_events, signalled, call, lb, worker_payloads, poll, ran>>
  BY <1>1 DEF Reporting
<1>5. /\ report'[c] = r /\ report[c] = None
      /\ \A d \in Container \ {c} : report'[d] = report[d]
  BY <1>1, <1>2 DEF Reporting, TypeParts, WorkerTypeOK
<1>6. /\ DataOf(r)' \in {DataOf(r), "result", "error"}
      /\ \A q \in Request \ {r} : DataOf(q)' = DataOf(q)
  BY <1>2 DEF RuntimeResponse, RuntimeError, StoreProcessed, UpdateRequest, DataOf, TypeParts,
              CallsInv, RequestsTypeOK
<1>7. \A q \in Request : CopyInv(q)' /\ (NoCopy(q) => NoCopy(q)')
  BY <1>4 DEF Delivery, CopyInv, NoCopy
<1>8. \A q \in Request : FreshInv(q)'
  BY <1>3, <1>4, <1>6, <1>7 DEF Delivery, FreshInv
<1>9. \A d \in Container : RanInv(d)'
  BY <1>1, <1>4 DEF Reporting, Delivery, RanInv, TypeParts, WorkerTypeOK
<1>10. ASSUME NEW k \in Call, Open(k), call[k].req = r
       PROVE  CallInv(k)'
  <2>1. OwnerInv(k) /\ RequestInv(k) /\ ~Seeks(k)
    BY <1>3, <1>10 DEF Delivery, CallInv, RequestInv
  <2>2. OwnerInv(k)'
    BY <1>4, <2>1 DEF OwnerInv, Open
  <2>3. RequestInv(k)'
    BY <1>3, <1>4, <1>6, <1>10, <2>1 DEF RequestInv, Seeks, DataOf
  <2>4. WaitInv(k)'
    BY <1>4, <1>5, <1>10 DEF WaitInv, Delivery, CallInv
  <2>. QED  BY <2>2, <2>3, <2>4 DEF CallInv
<1>11. ASSUME NEW k \in Call, Open(k), call[k].req # r
       PROVE  CallInv(k)'
  <2>1. PICK q \in Request : call[k].req = q
    BY <1>11 DEF TypeParts, CallsInv, CallShape
  <2>2. \A d \in Container : report[d] = q => report'[d] = q
    BY <1>5, NoRequestIsNone
  <2>3. Undisturbed(k, q)
    BY <1>4, <1>6, <1>7, <1>11, <2>1, <2>2 DEF Undisturbed, Open
  <2>. QED  BY <2>3, Bystander DEF Delivery
<1>12. \A k \in Call : CallInv(k)'
  BY <1>4, <1>10, <1>11 DEF CallInv, Open
<1>. QED  BY <1>7, <1>8, <1>9, <1>12 DEF Delivery

\* The reporting handler announces the outcome before it forgets it.
LEMMA WakeCallerGoesOn ==
  ASSUME TypeParts, Delivery, NEW c \in Container, WakeCaller(c)
  PROVE  Delivery'
<1>1. UNCHANGED <<requests, response_events, call, lb, worker_payloads, poll, ran>>
  BY DEF WakeCaller, SetResponseEvent
<1>2. CallsGoOn /\ RowsGoOn /\ ClientsGoOn
  BY <1>1 DEF WakeCaller, SetResponseEvent, CallsGoOn, RowsGoOn, ClientsGoOn, DataOf, Open
<1>3. ASSUME NEW d \in Container, NEW k \in Call, Open(k)', report[d] = call[k].req
      PROVE  report'[d] = report[d] \/ signalled'[k]
  <2>1. Open(k) /\ response_events[call[k].req] = k
    BY <1>2, <1>3 DEF CallsGoOn, Delivery, CallInv, OwnerInv
  <2>2. CASE d = c
    BY <1>3, <2>1, <2>2 DEF WakeCaller, SetResponseEvent
  <2>3. CASE d # c
    BY <2>3 DEF WakeCaller, TypeParts, WorkerTypeOK
  <2>. QED  BY <2>2, <2>3
<1>4. \A d \in Container : worker'[d].job = worker[d].job
  BY DEF WakeCaller, TypeParts, WorkerTypeOK
<1>5. CopiesGoOn
  BY <1>1, <1>4, CopiesVanish
<1>6. ReportsGoOn
  BY <1>3 DEF ReportsGoOn
<1>. QED  BY <1>2, <1>5, <1>6, GoOn

LEMMA RestartGoesOn ==
  ASSUME TypeParts, Delivery, NexusRestart
  PROVE  Delivery'
<1>1. \A k \in Call : ~Open(k)'
  BY DEF NexusRestart, ForgetCalls, Open, NoCall, TypeParts, CallsInv, CallsTypeOK
<1>2. UNCHANGED <<requests, lb, ran>>
  BY DEF NexusRestart, ForgetCalls
<1>3. \A c \in Container : worker'[c].job \in {worker[c].job, None}
  BY DEF NexusRestart, Dead
<1>4. CopiesGoOn
  BY <1>2, <1>3, CopiesVanish DEF NexusRestart, NoPoll
<1>5. CallsGoOn /\ RowsGoOn /\ ReportsGoOn /\ ClientsGoOn
  BY <1>1, <1>2 DEF CallsGoOn, RowsGoOn, ReportsGoOn, ClientsGoOn, DataOf
<1>. QED  BY <1>4, <1>5, GoOn

-----------------------------------------------------------------------------
(* The steps of the clients *)

LEMMA LeaveGoesOn ==
  ASSUME TypeParts, UNCHANGED <<response_events, signalled>>,
         UNCHANGED call \/ \E K : LeaveCalls(K)
  PROVE  CallsGoOn
BY DEF CallsGoOn, LeaveCalls, Open, NoCall, TypeParts, CallsInv, CallsTypeOK

LEMMA ClientGoesOn ==
  ASSUME TypeParts, Delivery,
         \/ \E r \in Request :
              \/ Refuse(r) \/ Answered(r) \/ PostFails(r)
              \/ \E w \in Container \cup {None} : CreateRequest(r, w)
         \/ LBCrash
         \/ \E S \in SUBSET Request : CleanUpStuck(S)
         \/ UNCHANGED vars
  PROVE  Delivery'
<1>1. UNCHANGED <<response_events, signalled, worker_payloads, poll, worker, report, ran>>
  BY DEF Refuse, CreateRequest, Answered, PostFails, LBCrash, CleanUpStuck, otherVars, memoryVars,
         workVars, nexusVars, callVars, vars
<1>2. CallsGoOn
  <2>1. UNCHANGED call \/ \E K : LeaveCalls(K)
    BY DEF Refuse, CreateRequest, Answered, PostFails, LBCrash, CleanUpStuck, nexusVars, callVars, vars
  <2>. QED  BY <1>1, <2>1, LeaveGoesOn
<1>3. CopiesGoOn /\ ReportsGoOn
  BY <1>1, CopiesVanish DEF ReportsGoOn
<1>4. RowsGoOn /\ ClientsGoOn
  <2>1. CASE UNCHANGED vars
    BY <2>1 DEF vars, nexusVars, callVars, RowsGoOn, ClientsGoOn, DataOf
  <2>2. CASE LBCrash
    BY <2>2 DEF LBCrash, Ended, NoClient, RowsGoOn, ClientsGoOn, DataOf
  <2>3. ASSUME NEW S \in SUBSET Request, CleanUpStuck(S)
        PROVE  RowsGoOn /\ ClientsGoOn
    <3>1. \A r \in Request : DataOf(r)' = DataOf(r)
      BY <2>3 DEF CleanUpStuck, DeleteStuck, DataOf, TypeParts, CallsInv, RequestsTypeOK
    <3>. QED  BY <2>3, <3>1 DEF CleanUpStuck, RowsGoOn, ClientsGoOn
  <2>4. ASSUME NEW r \in Request, Refuse(r)
        PROVE  RowsGoOn /\ ClientsGoOn
    BY <2>4 DEF Refuse, nexusVars, callVars, RowsGoOn, ClientsGoOn, DataOf, TypeParts, LBInv
  <2>5. ASSUME NEW r \in Request, PostFails(r)
        PROVE  RowsGoOn /\ ClientsGoOn
    <3>1. \A q \in Request : /\ q # r => DataOf(q)' = DataOf(q) /\ lb'[q] = lb[q]
                             /\ DataOf(r)' = "text" /\ lb'[r].pc = "failed"
      BY <2>5 DEF PostFails, UpdateRequest, Ended, NoClient, DataOf, TypeParts, CallsInv,
                  RequestsTypeOK, LBInv
    <3>. QED  BY <3>1 DEF RowsGoOn, ClientsGoOn
  <2>6. ASSUME NEW r \in Request, NEW w, CreateRequest(r, w)
        PROVE  RowsGoOn /\ ClientsGoOn
    <3>1. /\ \A q \in Request \ {r} : DataOf(q)' = DataOf(q) /\ lb'[q] = lb[q]
          /\ DataOf(r)' = "empty" /\ lb[r].pc = "idle"
      BY <2>6 DEF CreateRequest, InsertRequest, NoRow, DataOf, TypeParts, CallsInv,
                  RequestsTypeOK, LBInv
    <3>. QED  BY <3>1 DEF RowsGoOn, ClientsGoOn
  <2>7. ASSUME NEW r \in Request, Answered(r)
        PROVE  RowsGoOn /\ ClientsGoOn
    <3>1. /\ \A q \in Request \ {r} : DataOf(q)' = DataOf(q) /\ lb'[q] = lb[q]
          /\ lb[r].pc = "posted" /\ lb'[r].pc = "ok"
      BY <2>7 DEF Answered, StoreProcessed, Ended, NoClient, DataOf, TypeParts, CallsInv,
                  RequestsTypeOK, LBInv
    <3>2. \A k \in Call : Open(k) => call[k].req # r
      BY <2>7 DEF Answered, At, Open, Delivery, CallInv, OwnerInv
    <3>. QED  BY <1>2, <3>1, <3>2 DEF RowsGoOn, ClientsGoOn, CallsGoOn
  <2>. QED  BY <2>1, <2>2, <2>3, <2>4, <2>5, <2>6, <2>7
<1>. QED  BY <1>2, <1>3, <1>4, GoOn

\* The one activation of a request starts with nobody having it.
LEMMA PostDelivery ==
  ASSUME TypeParts, Delivery, NEW r \in Request, NEW k \in Call, Post(r, k)
  PROVE  Delivery'
<1>1. /\ UNCHANGED <<requests, worker_payloads, poll, worker, report, ran>>
      /\ lb[r].pc = "created" /\ lb'[r].pc = "posted" /\ lb'[r].call = k
      /\ \A q \in Request \ {r} : lb'[q] = lb[q]
  BY DEF Post, ProxyRequest, Enter, workVars, TypeParts, LBInv
<1>2. /\ ~Open(k) /\ call'[k] = [NoCall EXCEPT !.pc = "claim", !.req = r]
      /\ \A j \in Call \ {k} : call'[j] = call[j] /\ signalled'[j] = signalled[j]
      /\ response_events'[r] = k
      /\ \A q \in Request \ {r} : response_events'[q] = response_events[q]
  BY DEF Post, ProxyRequest, Enter, Unused, At, Open, TypeParts, CallsInv, CallsTypeOK
<1>3. r \notin ran /\ NoCopy(r) /\ DataOf(r) = "empty"
  BY <1>1 DEF Delivery, FreshInv
<1>4. \A j \in Call : Open(j) => call[j].req # r
  BY <1>1 DEF Delivery, CallInv, OwnerInv
<1>5. \A q \in Request : CopyInv(q)' /\ (NoCopy(q) => NoCopy(q)') /\ FreshInv(q)'
  BY <1>1 DEF Delivery, CopyInv, NoCopy, FreshInv, DataOf
<1>6. \A c \in Container : RanInv(c)'
  BY <1>1 DEF Delivery, RanInv
<1>7. \A j \in Call \ {k} : Open(j)' <=> Open(j)
  BY <1>2 DEF Open
<1>8. CallInv(k)'
  <2>1. call'[k].pc = "claim" /\ call'[k].req = r
    BY <1>2 DEF NoCall
  <2>2. OwnerInv(k)'
    BY <1>1, <1>2, <1>4, <1>7, <2>1 DEF OwnerInv
  <2>3. RequestInv(k)' /\ WaitInv(k)'
    BY <1>1, <1>3, <1>5, <2>1 DEF RequestInv, WaitInv, DataOf
  <2>. QED  BY <2>2, <2>3 DEF CallInv
<1>9. ASSUME NEW j \in Call \ {k}, Open(j)
      PROVE  CallInv(j)'
  <2>1. PICK q \in Request : call[j].req = q
    BY <1>9 DEF TypeParts, CallsInv, CallShape
  <2>2. q # r /\ call'[k].req = r
    BY <1>2, <1>4, <1>9, <2>1 DEF NoCall
  <2>3. Undisturbed(j, q)
    BY <1>1, <1>2, <1>5, <1>7, <1>9, <2>1, <2>2 DEF Undisturbed, DataOf
  <2>. QED  BY <2>3, Bystander DEF Delivery
<1>10. \A j \in Call : CallInv(j)'
  BY <1>7, <1>8, <1>9 DEF CallInv
<1>. QED  BY <1>5, <1>6, <1>10 DEF Delivery

-----------------------------------------------------------------------------
(* The theorems *)

LEMMA NextDelivery ==
  ASSUME OwnAddresses, TypeParts, HandOver, Delivery, [Next]_vars
  PROVE  Delivery'
<1>1. ASSUME NEW k \in Call, CallStep(k) \/ TimePasses(k)
      PROVE  Delivery'
  BY <1>1, CallGoesOn, BindDelivery, SignalDelivery DEF CallStep
<1>2. ASSUME NEW c \in Container, PollStep(c) \/ WorkerStep(c) \/ FleetStep(c)
      PROVE  Delivery'
  BY <1>2, ContainerGoesOn, TakeDelivery, RevertDelivery, ReportDelivery, WakeCallerGoesOn
  DEF PollStep, WorkerStep
<1>3. ASSUME NEW r \in Request, LBStep(r)
      PROVE  Delivery'
  BY <1>3, ClientGoesOn, PostDelivery DEF LBStep
<1>. QED  BY <1>1, <1>2, <1>3, RestartGoesOn, ClientGoesOn DEF Next, NexusNext

LEMMA DeliveryAlways == ASSUME OwnAddresses PROVE Spec => [](TypeParts /\ HandOver /\ Delivery)
<1>1. TypeParts /\ HandOver /\ Delivery /\ [Next]_vars => Delivery'
  BY NextDelivery
<1>. QED  BY InitDelivery, <1>1, HandOverAlways, PTL DEF Spec

\* A RequestResponse invocation reaches one worker at most, whatever is retried.
THEOREM DeliveredOnce == ASSUME OwnAddresses PROVE Spec => SyncRunsOnce
<1>1. ASSUME TypeParts, HandOver, Delivery, Next, NEW c \in Container,
             worker[c].job = None, worker'[c].job # None
      PROVE  worker'[c].job \notin ran
  <2>1. ASSUME NEW d \in Container, NextDeliver(d)
        PROVE  worker'[c].job \notin ran
    <3>1. d = c /\ worker'[c].job = worker_payloads[AddrOf[c]]
      BY <1>1, <2>1 DEF NextDeliver, Dead, TypeParts, WorkerTypeOK
    <3>2. worker_payloads[AddrOf[c]] \in Request /\ AddrOf[c] \in Addr
      BY <1>1, <3>1, AddrType DEF TypeParts, MemoryTypeOK
    <3>. QED  BY <1>1, <3>1, <3>2 DEF Delivery, CopyInv, NoCopy
  <2>2. CASE UNCHANGED worker
    BY <1>1, <2>2
  <2>3. ASSUME NEW d \in Container,
               RuntimeNext(d) \/ Reporting(d) \/ WakeCaller(d) \/ RuntimeInitError(d) \/ FleetStep(d)
        PROVE  FALSE
    BY <1>1, <2>3 DEF RuntimeNext, Reporting, WakeCaller, RuntimeInitError, FleetStep, Provision,
         Launch, Publish, Die, Reap, Forget, workVars, Dead, TypeParts, WorkerTypeOK
  <2>4. CASE NexusRestart
    BY <1>1, <2>4 DEF NexusRestart, Dead
  <2>. QED  BY <1>1, <2>1, <2>2, <2>3, <2>4
            DEF Next, NexusNext, CallStep, RowStep, Claim, LookUp, Probe, Ghost, Signal, TimePasses,
                PollStep, NextMark, NextDrop, NextFail, NextRevert, WorkerStep, RuntimeResponse,
                RuntimeError, LBStep, Refuse, CreateRequest, Post, ProxyRequest, Answered,
                PostFails, LBCrash, CleanUpStuck, otherVars, nexusVars, workVars
<1>2. TypeParts /\ HandOver /\ Delivery /\ [Next]_vars =>
        [\A c \in Container : worker[c].job = None /\ worker'[c].job # None
                               => worker'[c].job \notin ran]_vars
  BY <1>1
<1>. QED  BY <1>2, DeliveryAlways, PTL DEF Spec, SyncRunsOnce

\* A call whose request has an outcome has been woken, or its worker's handler is about to.
THEOREM CallersWoken == ASSUME OwnAddresses PROVE Spec => []NoLostWakeup
<1>1. Delivery => NoLostWakeup
  BY DEF Delivery, CallInv, WaitInv, NoLostWakeup, At, Open, DataOf
<1>. QED  BY <1>1, DeliveryAlways, PTL

-----------------------------------------------------------------------------
(* The Nexus implements Invocation.  What the counts of the abstract service rest on:  *)
(* a request is in the hands of one worker at most, and no two clients share a call.   *)

Has(c, r) == worker[c].job = r \/ report[c] = r

HandsInv ==
  /\ \A r \in Request, c, d \in Container : Has(c, r) /\ Has(d, r) => c = d
  /\ \A c \in Container :
       /\ report[c] # None => report[c] \in ran
       /\ poll[c].job # None => poll[c].pc \in {"fail", "revert"}
       /\ worker[c].job # None => worker[c].st = "running"

Linked(k) == call[k].pc # "idle" /\ call[k].answer # "closed"

LineInv ==
  /\ \A r \in Request : /\ lb[r].pc \in {"idle", "created"} => lb[r].call = None
                        /\ lb[r].pc = "posted" => Linked(lb[r].call)
  /\ \A q, r \in Request :
       lb[q].pc = "posted" /\ lb[r].pc = "posted" /\ lb[q].call = lb[r].call => q = r

LEMMA InitHands == Init => HandsInv /\ LineInv
BY NoRequestIsNone DEF Init, NexusInit, HandsInv, LineInv, Has, NoPoll, NoClient

\* Requests that leave hands, or stay in them.
LEMMA HandsKept ==
  ASSUME HandsInv, ran' = ran,
         \A c \in Container :
           /\ worker'[c].job \in {worker[c].job, None}
           /\ worker'[c].job # None => worker'[c].st = worker[c].st
           /\ report'[c] \in {report[c], None}
           /\ poll'[c].job \in {poll[c].job, None}
           /\ poll'[c].job # None => poll'[c].pc \in {poll[c].pc, "revert"}
  PROVE  HandsInv'
BY NoRequestIsNone DEF HandsInv, Has

\* Everywhere else requests stay in the hands they are in, or are dropped.
LEMMA QuietHands ==
  ASSUME TypeParts, HandsInv,
         \/ \E k \in Call : CallStep(k) \/ TimePasses(k)
         \/ \E c \in Container :
              \/ NextMark(c) \/ NextFail(c) \/ NextRevert(c)
              \/ RuntimeNext(c) \/ WakeCaller(c) \/ RuntimeInitError(c) \/ FleetStep(c)
         \/ NexusRestart
         \/ \E r \in Request : LBStep(r)
         \/ LBCrash
         \/ \E S \in SUBSET Request : CleanUpStuck(S)
         \/ UNCHANGED vars
  PROVE  HandsInv'
<1>. USE DEF TypeParts, MemoryTypeOK, WorkerTypeOK
<1>1. ASSUME UNCHANGED workVars
      PROVE  HandsInv'
  BY <1>1, HandsKept DEF workVars
<1>2. ASSUME NEW k \in Call, CallStep(k) \/ TimePasses(k)
      PROVE  HandsInv'
  <2>1. CASE Signal(k)
    BY <2>1, HandsKept DEF Signal
  <2>. QED  BY <1>1, <1>2, <2>1 DEF CallStep, TimePasses, RowStep, Claim, LookUp, Probe, Ghost
<1>3. ASSUME NEW c \in Container, NextMark(c) \/ NextFail(c) \/ NextRevert(c)
      PROVE  HandsInv'
  <2>1. UNCHANGED <<worker, report, ran>>
    BY <1>3 DEF NextMark, NextFail, NextRevert
  <2>2. \A d \in Container : /\ poll'[d].job \in {poll[d].job, None}
                             /\ poll'[d].job # None => poll'[d].pc \in {poll[d].pc, "revert"}
    <3>1. CASE NextMark(c)
      BY <3>1 DEF NextMark, HandsInv
    <3>2. CASE EndPoll(c)
      BY <3>2 DEF EndPoll, NoPoll
    <3>3. CASE poll' = [poll EXCEPT ![c].pc = "revert"]
      BY <3>3
    <3>. QED  BY <1>3, <3>1, <3>2, <3>3 DEF NextFail, NextRevert
  <2>. QED  BY <2>1, <2>2, HandsKept
<1>4. ASSUME NEW c \in Container, RuntimeNext(c) \/ WakeCaller(c) \/ RuntimeInitError(c)
      PROVE  HandsInv'
  <2>1. CASE RuntimeNext(c)
    BY <2>1, HandsKept DEF RuntimeNext, HandsInv, NoPoll
  <2>2. CASE WakeCaller(c)
    BY <2>2, HandsKept DEF WakeCaller, HandsInv
  <2>3. CASE RuntimeInitError(c)
    BY <2>3, HandsKept DEF RuntimeInitError, Dead
  <2>. QED  BY <1>4, <2>1, <2>2, <2>3
<1>5. ASSUME NEW c \in Container, FleetStep(c)
      PROVE  HandsInv'
  <2>1. CASE Launch(c)
    BY <2>1, HandsKept DEF Launch, HandsInv
  <2>2. CASE Die(c)
    BY <2>2, HandsKept DEF Die, Dead
  <2>. QED  BY <1>1, <1>5, <2>1, <2>2 DEF FleetStep, Provision, Publish, Reap, Forget
<1>6. CASE NexusRestart
  BY <1>6, HandsKept DEF NexusRestart, NoPoll, Dead
<1>7. ASSUME NEW r \in Request, LBStep(r)
      PROVE  HandsInv'
  BY <1>1, <1>7 DEF LBStep, Refuse, CreateRequest, Post, ProxyRequest, Answered, PostFails,
                    otherVars, nexusVars
<1>8. CASE LBCrash \/ (\E S \in SUBSET Request : CleanUpStuck(S)) \/ UNCHANGED vars
  BY <1>1, <1>8 DEF LBCrash, CleanUpStuck, otherVars, nexusVars, vars
<1>. QED  BY <1>2, <1>3, <1>4, <1>5, <1>6, <1>7, <1>8

\* A worker receives a request nobody has received before, and reports it once.
LEMMA TakeHands ==
  ASSUME TypeParts, HandOver, Delivery, HandsInv, NEW c \in Container,
         NextDeliver(c) \/ NextDrop(c) \/ Reporting(c)
  PROVE  HandsInv'
<1>. USE DEF TypeParts, MemoryTypeOK, WorkerTypeOK
<1>1. CASE NextDeliver(c)
  <2>1. PICK r \in Request : worker_payloads[AddrOf[c]] = r
    BY <1>1, AddrType DEF NextDeliver, HandOver, PayloadInv
  <2>2. r \notin ran /\ r # None
    BY <2>1, AddrType, NoRequestIsNone DEF Delivery, CopyInv, NoCopy
  <2>3. /\ worker' = [worker EXCEPT ![c] = [st |-> "running", job |-> r]]
        /\ ran' = ran \cup {r} /\ report' = report /\ poll' = [poll EXCEPT ![c] = NoPoll]
    BY <1>1, <2>1, <2>2 DEF NextDeliver, EndPoll
  <2>4. \A d \in Container : ~Has(d, r)
    BY <2>2 DEF Has, HandsInv, Delivery, RanInv
  <2>. QED  BY <2>2, <2>3, <2>4 DEF HandsInv, Has, NoPoll
<1>2. CASE NextDrop(c)
  BY <1>2 DEF NextDrop, HandsInv, Has
<1>3. CASE Reporting(c)
  <2>1. /\ worker' = [worker EXCEPT ![c] = [st |-> "reporting", job |-> None]]
        /\ report' = [report EXCEPT ![c] = worker[c].job]
        /\ UNCHANGED <<poll, ran>>
    BY <1>3 DEF Reporting
  <2>2. \A d \in Container, r \in Request : Has(d, r)' => Has(d, r)
    BY <2>1, NoRequestIsNone DEF Has
  <2>3. \A d \in Container : report'[d] # None => report'[d] \in ran'
    BY <2>1 DEF HandsInv, Delivery, RanInv
  <2>. QED  BY <2>1, <2>2, <2>3 DEF HandsInv
<1>. QED  BY <1>1, <1>2, <1>3

\* Only hanging up, or an answer to a call nobody listens to, ends a line.
LEMMA LinkedKept ==
  ASSUME CallsInv, NEW k \in Call, NEW j \in Call, Linked(j),
         \/ \E label \in CallPC \ {"idle"} : Goto(k, label)
         \/ \E answer \in Answer \ {"closed"} : Finish(k, answer)
         \/ Bind(k) \/ StartWaiting(k) \/ TimeUp(k)
  PROVE  Linked(j)'
<1>. USE DEF CallsInv, CallsTypeOK
<1>1. ASSUME NEW label \in CallPC \ {"idle"}, Goto(k, label)
      PROVE  Linked(j)'
  BY <1>1 DEF Goto, Linked
<1>2. ASSUME NEW answer \in Answer \ {"closed"}, Finish(k, answer)
      PROVE  Linked(j)'
  BY <1>2 DEF Finish, Linked, NoCall
<1>3. CASE Bind(k) \/ TimeUp(k)
  BY <1>3 DEF Bind, TimeUp, Linked
<1>4. CASE StartWaiting(k)
  <2>1. CASE response_events[call[k].req] = None
    BY <1>2, <1>4, <2>1 DEF StartWaiting, Answer
  <2>2. CASE response_events[call[k].req] # None
    BY <1>4, <2>2 DEF StartWaiting, Linked
  <2>. QED  BY <2>1, <2>2
<1>. QED  BY <1>1, <1>2, <1>3, <1>4

\* The Nexus ends no line; its restart answers it.
LEMMA NexusLines ==
  ASSUME TypeParts, LineInv,
         \/ \E k \in Call : CallStep(k) \/ TimePasses(k)
         \/ \E c \in Container : PollStep(c) \/ WorkerStep(c) \/ FleetStep(c)
         \/ NexusRestart
         \/ \E S \in SUBSET Request : CleanUpStuck(S)
         \/ UNCHANGED vars
  PROVE  LineInv'
<1>1. ASSUME NEW k \in Call, CallStep(k) \/ TimePasses(k)
      PROVE  LineInv'
  <2>1. lb' = lb
    BY <1>1 DEF CallStep, TimePasses, RowStep, Claim, LookUp, Probe, Ghost, Signal
  <2>2. \/ \E label \in CallPC \ {"idle"} : Goto(k, label)
        \/ \E answer \in Answer \ {"closed"} : Finish(k, answer)
        \/ Bind(k) \/ StartWaiting(k) \/ TimeUp(k)
    <3>1. CASE Check(k)
      <4>1. requests[call[k].req].data \in ResponseData
        BY <3>1 DEF Check, At, TypeParts, CallsInv, CallShape, Open, RequestsTypeOK
      <4>. QED  BY <3>1, <4>1 DEF Check, Reply, CallPC, Answer, ResponseData
    <3>2. CASE Expire(k) \/ Wake(k)
      BY <3>2 DEF Expire, Wake, CallPC, Answer
    <3>3. CASE Claim(k) \/ LookUp(k) \/ Probe(k) \/ Ghost(k)
      BY <3>3 DEF Claim, LookUp, Probe, Ghost, CallPC
    <3>. QED  BY <1>1, <3>1, <3>2, <3>3 DEF CallStep, RowStep, Signal, TimePasses
  <2>3. \A j \in Call : Linked(j) => Linked(j)'
    BY <2>2, LinkedKept DEF TypeParts
  <2>. QED  BY <2>1, <2>3 DEF LineInv, TypeParts, LBInv, PostedCalls
<1>2. CASE UNCHANGED <<call, lb>>
  BY <1>2 DEF LineInv, Linked
<1>3. CASE NexusRestart
  <2>1. \A j \in Call : Linked(j) => Linked(j)'
    BY <1>3 DEF NexusRestart, ForgetCalls, NoCall, Linked
  <2>. QED  BY <1>3, <2>1 DEF NexusRestart, LineInv, TypeParts, LBInv, PostedCalls
<1>4. ASSUME NEW c \in Container, PollStep(c) \/ WorkerStep(c) \/ FleetStep(c)
      PROVE  UNCHANGED <<call, lb>>
  <2>1. CASE PollStep(c)
    BY <2>1 DEF PollStep, NextMark, NextDeliver, NextDrop, NextFail, NextRevert, callVars
  <2>2. CASE WorkerStep(c)
    BY <2>2 DEF WorkerStep, RuntimeNext, RuntimeResponse, RuntimeError, Reporting, WakeCaller,
                SetResponseEvent, RuntimeInitError, callVars
  <2>3. CASE FleetStep(c)
    BY <2>3 DEF FleetStep, Provision, Launch, Publish, Die, Reap, Forget, callVars
  <2>. QED  BY <1>4, <2>1, <2>2, <2>3
<1>. QED  BY <1>1, <1>2, <1>3, <1>4 DEF CleanUpStuck, vars, nexusVars, callVars

\* A client opens a line of its own and closes no other's.
LEMMA ClientLines ==
  ASSUME TypeParts, LineInv, LBCrash \/ \E r \in Request : LBStep(r)
  PROVE  LineInv'
<1>. USE DEF TypeParts, LBInv, PostedCalls
<1>1. ASSUME NEW r \in Request, Refuse(r) \/ \E w \in Container \cup {None} : CreateRequest(r, w)
      PROVE  LineInv'
  <2>1. /\ call' = call /\ lb[r].pc = "idle" /\ lb'[r].call = lb[r].call
        /\ lb'[r].pc # "posted" /\ \A q \in Request \ {r} : lb'[q] = lb[q]
    BY <1>1 DEF Refuse, CreateRequest, AfterInsert, nexusVars, callVars
  <2>. QED  BY <2>1 DEF LineInv, Linked
<1>2. ASSUME NEW r \in Request, NEW k \in Call, Post(r, k)
      PROVE  LineInv'
  <2>1. /\ lb'[r].pc = "posted" /\ lb'[r].call = k
        /\ \A q \in Request \ {r} : lb'[q] = lb[q]
    BY <1>2 DEF Post
  <2>2. ~Linked(k) /\ Linked(k)' /\ \A j \in Call \ {k} : call'[j] = call[j]
    BY <1>2 DEF Post, ProxyRequest, Enter, Unused, At, Linked, NoCall, CallsInv, CallsTypeOK
  <2>. QED  BY <2>1, <2>2 DEF LineInv, Linked
<1>3. ASSUME NEW r \in Request, Answered(r) \/ PostFails(r)
      PROVE  LineInv'
  <2>1. /\ lb'[r].pc \notin {"idle", "created", "posted"}
        /\ \A q \in Request \ {r} : lb'[q] = lb[q]
    BY <1>3 DEF Answered, PostFails, Ended, NoClient
  <2>2. \A j \in Call : j # lb[r].call => call'[j] = call[j]
    BY <1>3 DEF Answered, PostFails, LeaveCalls
  <2>3. \A q \in Request \ {r} : lb[q].pc = "posted" => lb[q].call # lb[r].call
    BY <1>3, CallType DEF Answered, PostFails, LineInv
  <2>. QED  BY <2>1, <2>2, <2>3 DEF LineInv, Linked
<1>4. CASE LBCrash
  <2>1. \A r \in Request : /\ lb'[r].pc # "posted"
                           /\ lb'[r].pc \in {"idle", "created"} => lb'[r] = lb[r]
    BY <1>4 DEF LBCrash, Ended, NoClient
  <2>. QED  BY <2>1 DEF LineInv
<1>. QED  BY <1>1, <1>2, <1>3, <1>4 DEF LBStep

\* Everything known of a state and used below.
Known == TypeParts /\ HandOver /\ Delivery /\ HandsInv /\ LineInv

LEMMA KnownAlways == ASSUME OwnAddresses PROVE Spec => []Known
<1>1. TypeParts /\ HandOver /\ Delivery /\ HandsInv /\ LineInv /\ [Next]_vars
        => HandsInv' /\ LineInv'
  <2>. SUFFICES ASSUME TypeParts, HandOver, Delivery, HandsInv, LineInv, [Next]_vars
                PROVE  HandsInv' /\ LineInv'
    OBVIOUS
  <2>1. HandsInv'
    BY QuietHands, TakeHands
    DEF Next, NexusNext, PollStep, WorkerStep, RuntimeResponse, RuntimeError
  <2>2. LineInv'
    BY NexusLines, ClientLines DEF Next, NexusNext
  <2>. QED  BY <2>1, <2>2
<1>. QED  BY InitHands, <1>1, DeliveryAlways, PTL DEF Spec, Known

-----------------------------------------------------------------------------
(* How the service sees the tables: counts of zero or one, and an activation that   *)
(* drives a worker is one that looks for a worker.                                    *)

\* The counts are zero or one.
LEMMA AtMostOne ==
  ASSUME NEW S, \A x, y \in S : x = y
  PROVE  Cardinality(S) = IF S = {} THEN 0 ELSE 1
<1>1. CASE S = {}
  BY <1>1, FS_EmptySet
<1>2. CASE S # {}
  <2>1. PICK x \in S : S = {x}
    BY <1>2
  <2>. QED  BY <1>2, <2>1, FS_Singleton
<1>. QED  BY <1>1, <1>2

Runs(r) == \E c \in Container : worker[c].job = r
Reported(r) == \E c \in Container : report[c] = r

Counted ==
  /\ Copies = [r \in Request |-> IF NoCopy(r) THEN 0 ELSE 1]
  /\ Executing = [r \in Request |-> IF Runs(r) THEN 1 ELSE 0]
  /\ Reports = [r \in Request |-> IF Reported(r) THEN 1 ELSE 0]

\* The hand-over makes the counts those of one copy, one run and one report.
LEMMA KnownCounted == Known => Counted
<1>. SUFFICES ASSUME Known
              PROVE  Counted
  OBVIOUS
<1>1. ASSUME NEW r \in Request
      PROVE  Cardinality(PayloadsOf(r)) + Cardinality(DroppedOf(r)) = IF NoCopy(r) THEN 0 ELSE 1
  <2>. CopyInv(r)
    BY DEF Known, Delivery
  <2>1. Cardinality(PayloadsOf(r)) = IF PayloadsOf(r) = {} THEN 0 ELSE 1
    BY AtMostOne DEF PayloadsOf, CopyInv
  <2>2. Cardinality(DroppedOf(r)) = IF DroppedOf(r) = {} THEN 0 ELSE 1
    BY AtMostOne DEF DroppedOf, CopyInv
  <2>3. PayloadsOf(r) = {} \/ DroppedOf(r) = {}
    BY DEF PayloadsOf, DroppedOf, CopyInv
  <2>4. NoCopy(r) <=> PayloadsOf(r) = {} /\ DroppedOf(r) = {}
    BY DEF PayloadsOf, DroppedOf, NoCopy
  <2>. QED  BY <2>1, <2>2, <2>3, <2>4
<1>2. ASSUME NEW r \in Request
      PROVE  /\ Cardinality({c \in Container : worker[c].job = r}) = IF Runs(r) THEN 1 ELSE 0
             /\ Cardinality({c \in Container : report[c] = r}) = IF Reported(r) THEN 1 ELSE 0
  <2>. \A c, d \in Container : Has(c, r) /\ Has(d, r) => c = d
    BY DEF Known, HandsInv
  <2>. DEFINE S == {c \in Container : worker[c].job = r}
              T == {c \in Container : report[c] = r}
  <2>1. \A c, d \in S : c = d
    BY DEF Has
  <2>2. \A c, d \in T : c = d
    BY DEF Has
  <2>3. Cardinality(S) = (IF S = {} THEN 0 ELSE 1) /\ Cardinality(T) = (IF T = {} THEN 0 ELSE 1)
    <3>. HIDE DEF S, T
    <3>. QED  BY <2>1, <2>2, AtMostOne
  <2>. QED  BY <2>3 DEF Runs, Reported
<1>. QED  BY <1>1, <1>2 DEF Counted, Copies, Executing, Reports

LEMMA CountedNext == Known' => Counted'
BY KnownCounted, PTL

\* One request appears in a count, or leaves it.
LEMMA Appears ==
  ASSUME Known, Known', NEW r \in Request
  PROVE  /\ NoCopy(r) /\ ~NoCopy(r)' /\ (\A q \in Request \ {r} : NoCopy(q)' <=> NoCopy(q))
              => Copies' = [Copies EXCEPT ![r] = Copies[r] + 1]
         /\ ~Runs(r) /\ Runs(r)' /\ (\A q \in Request \ {r} : Runs(q)' <=> Runs(q))
              => Executing' = [Executing EXCEPT ![r] = Executing[r] + 1]
         /\ ~Reported(r) /\ Reported(r)' /\ (\A q \in Request \ {r} : Reported(q)' <=> Reported(q))
              => Reports' = [Reports EXCEPT ![r] = Reports[r] + 1]
<1>. Counted /\ Counted'
  BY KnownCounted, CountedNext
<1>1. ASSUME NoCopy(r), ~NoCopy(r)', \A q \in Request \ {r} : NoCopy(q)' <=> NoCopy(q)
      PROVE  Copies' = [Copies EXCEPT ![r] = Copies[r] + 1]
  BY <1>1 DEF Counted
<1>2. ASSUME ~Runs(r), Runs(r)', \A q \in Request \ {r} : Runs(q)' <=> Runs(q)
      PROVE  Executing' = [Executing EXCEPT ![r] = Executing[r] + 1]
  BY <1>2 DEF Counted
<1>3. ASSUME ~Reported(r), Reported(r)', \A q \in Request \ {r} : Reported(q)' <=> Reported(q)
      PROVE  Reports' = [Reports EXCEPT ![r] = Reports[r] + 1]
  BY <1>3 DEF Counted
<1>. QED  BY <1>1, <1>2, <1>3

LEMMA Leaves ==
  ASSUME Known, Known', NEW r \in Request
  PROVE  /\ ~NoCopy(r) /\ NoCopy(r)' /\ (\A q \in Request \ {r} : NoCopy(q)' <=> NoCopy(q))
              => Copies[r] > 0 /\ Copies' = [Copies EXCEPT ![r] = Copies[r] - 1]
         /\ Runs(r) /\ ~Runs(r)' /\ (\A q \in Request \ {r} : Runs(q)' <=> Runs(q))
              => Executing[r] > 0 /\ Executing' = [Executing EXCEPT ![r] = Executing[r] - 1]
         /\ Reported(r) /\ ~Reported(r)' /\ (\A q \in Request \ {r} : Reported(q)' <=> Reported(q))
              => Reports[r] > 0 /\ Reports' = [Reports EXCEPT ![r] = Reports[r] - 1]
<1>. Counted /\ Counted'
  BY KnownCounted, CountedNext
<1>1. ASSUME ~NoCopy(r), NoCopy(r)', \A q \in Request \ {r} : NoCopy(q)' <=> NoCopy(q)
      PROVE  Copies[r] > 0 /\ Copies' = [Copies EXCEPT ![r] = Copies[r] - 1]
  BY <1>1 DEF Counted
<1>2. ASSUME Runs(r), ~Runs(r)', \A q \in Request \ {r} : Runs(q)' <=> Runs(q)
      PROVE  Executing[r] > 0 /\ Executing' = [Executing EXCEPT ![r] = Executing[r] - 1]
  BY <1>2 DEF Counted
<1>3. ASSUME Reported(r), ~Reported(r)', \A q \in Request \ {r} : Reported(q)' <=> Reported(q)
      PROVE  Reports[r] > 0 /\ Reports' = [Reports EXCEPT ![r] = Reports[r] - 1]
  BY <1>3 DEF Counted
<1>. QED  BY <1>1, <1>2, <1>3

\* What does not touch copies, jobs or reports.
LEMMA CountsKept ==
  /\ worker_payloads' = worker_payloads /\ (\A c \in Container : poll'[c].job = poll[c].job)
       => Copies' = Copies
  /\ (\A c \in Container : worker'[c].job = worker[c].job) => Executing' = Executing
  /\ report' = report => Reports' = Reports
BY DEF Copies, PayloadsOf, DroppedOf, Executing, Reports

Hidden == {"lookup", "probe", "ghost"}

\* An activation that is set to a place the service knows.
LEMMA SeenStep ==
  ASSUME CallsTypeOK, NEW k \in Call, NEW v, call' = [call EXCEPT ![k] = v], v.pc \notin Hidden
  PROVE  SeenCall' = [SeenCall EXCEPT ![k] = v]
BY DEF CallsTypeOK, SeenCall, Hidden

\* What differs between an activation and its image is where it seeks a worker.
LEMMA SeenFields ==
  ASSUME CallsTypeOK, NEW k \in Call
  PROVE  /\ SeenCall[k].pc = IF call[k].pc \in Hidden THEN "claim" ELSE call[k].pc
         /\ SeenCall[k].req = call[k].req /\ SeenCall[k].on = call[k].on
         /\ SeenCall[k].late = call[k].late /\ SeenCall[k].answer = call[k].answer
         /\ call[k].pc \notin Hidden => SeenCall[k] = call[k]
BY DEF CallsTypeOK, SeenCall, Hidden

\* Moves among the places of the search are invisible.
LEMMA SeenGoto ==
  ASSUME CallsTypeOK, NEW k \in Call, NEW label \in CallPC, call' = [call EXCEPT ![k].pc = label]
  PROVE  /\ label \notin Hidden => SeenCall' = [SeenCall EXCEPT ![k].pc = label]
         /\ label \in Early /\ call[k].pc \in Early => SeenCall' = SeenCall
<1>1. \A j \in Call \ {k} : SeenCall'[j] = SeenCall[j]
  BY DEF CallsTypeOK, SeenCall
<1>2. call'[k] = [call[k] EXCEPT !.pc = label]
  BY DEF CallsTypeOK
<1>3. ASSUME label \notin Hidden
      PROVE  SeenCall'[k] = [SeenCall[k] EXCEPT !.pc = label]
  BY <1>2, <1>3 DEF CallsTypeOK, SeenCall, Hidden
<1>4. ASSUME label \in Early, call[k].pc \in Early
      PROVE  SeenCall'[k] = SeenCall[k]
  BY <1>2, <1>4 DEF CallsTypeOK, SeenCall, Hidden, Early
<1>5. /\ SeenCall = [j \in Call |-> SeenCall[j]] /\ SeenCall' = [j \in Call |-> SeenCall'[j]]
  BY DEF SeenCall
<1>6. label \notin Hidden => SeenCall' = [SeenCall EXCEPT ![k].pc = label]
  <2>. HIDE DEF SeenCall
  <2>. QED  BY <1>1, <1>3, <1>5
<1>7. label \in Early /\ call[k].pc \in Early => SeenCall' = SeenCall
  BY <1>1, <1>4, <1>5
<1>. QED  BY <1>6, <1>7

\* A claim, a lookup or a ghost: the service sees an activation that still seeks.
LEMMA SeekView ==
  ASSUME Known, NEW k \in Call,
         Claim(k) \/ LookUp(k) \/ Ghost(k) \/ (Probe(k) /\ Gone(lease[k].ev))
  PROVE  UNCHANGED Service!serviceVars
<1>1. /\ UNCHANGED <<requests, response_events, signalled, worker_payloads, poll, worker, report,
                     ran, restarts>>
      /\ call[k].pc \in Early /\ \E label \in Early : Goto(k, label)
  BY DEF Claim, LookUp, Ghost, Probe, At, Goto, Early, workVars
<1>2. SeenCall' = SeenCall
  BY <1>1, SeenGoto DEF Goto, Known, TypeParts, CallsInv, Early, CallPC
<1>3. Copies' = Copies /\ Executing' = Executing /\ Reports' = Reports
  BY <1>1, CountsKept
<1>. QED  BY <1>1, <1>2, <1>3 DEF Service!serviceVars, Service!callVars, Service!workVars

\* The payload is put where its worker waits: FindWorker.
LEMMA FindView ==
  ASSUME Known, Known', IsFiniteSet(Container), NEW k \in Call, Probe(k), ~Gone(lease[k].ev)
  PROVE  Service!FindWorker(k)
<1>1. PICK r \in Request : call[k].req = r
  BY DEF Probe, At, Known, TypeParts, CallsInv, CallShape, Open
<1>2. /\ Goto(k, "bind")
      /\ UNCHANGED <<poll, worker, report, ran, restarts>>
      /\ worker_payloads' = [worker_payloads EXCEPT ![lease[k].ip] = r]
      /\ lease[k].ip \in Addr
  BY <1>1 DEF Probe, workVars, At, Known, TypeParts, LeaseShape, Holding
<1>3. worker_payloads[lease[k].ip] = None
  <2>1. PICK c \in Container : lease[k].ip = AddrOf[c]
    BY DEF Probe, At, Holding, Known, HandOver, LeaseInv
  <2>2. ~Awake(c)
    BY <2>1 DEF Probe, At, Holds, Holding, Known, HandOver, HoldInv, Free, Awake, Gone
  <2>3. \A j \in Call : ~(Bound(j) /\ Holds(j, c))
    BY <2>1 DEF Probe, At, Bound, Holds, Holding, Known, HandOver, ExclusiveClaim
  <2>. QED  BY <2>1, <2>2, <2>3 DEF Known, HandOver, PayloadInv
<1>4. r \notin ran /\ NoCopy(r)
  BY <1>1 DEF Probe, At, Open, Known, Delivery, CallInv, RequestInv, Seeks, Early
<1>5. ~Runs(r) /\ ~Reported(r)
  BY <1>4, NoRequestIsNone DEF Runs, Reported, Known, HandsInv, Delivery, RanInv
<1>6. Copies[r] = 0 /\ Executing[r] = 0 /\ Reports[r] = 0
  BY <1>4, <1>5, KnownCounted DEF Counted
<1>7. 0 < Cardinality(Container)
  <2>1. Container # {}
    BY <1>1, <1>2 DEF Probe, At, Known, HandOver, LeaseInv, Holding
  <2>. QED  BY <2>1, FS_EmptySet, FS_CardinalityType
<1>8. Copies' = [Copies EXCEPT ![r] = Copies[r] + 1]
  <2>1. ~NoCopy(r)' /\ \A q \in Request \ {r} : NoCopy(q)' <=> NoCopy(q)
    <3>1. \A a \in Addr, q \in Request \ {r} : worker_payloads'[a] = q <=> worker_payloads[a] = q
      BY <1>2, <1>3, NoRequestIsNone DEF Known, TypeParts, MemoryTypeOK
    <3>2. worker_payloads'[lease[k].ip] = r
      BY <1>2 DEF Known, TypeParts, MemoryTypeOK
    <3>. QED  BY <1>2, <3>1, <3>2 DEF NoCopy
  <2>. QED  BY <1>4, <2>1, Appears
<1>9. SeenCall[k].pc = "claim" /\ SeenCall[k].req = r
  BY <1>1, SeenFields DEF Probe, At, Hidden, Known, TypeParts, CallsInv
<1>10. SeenCall' = [SeenCall EXCEPT ![k].pc = "bind"]
  BY <1>2, SeenGoto DEF Goto, Known, TypeParts, CallsInv, Hidden, CallPC
<1>11. Executing' = Executing /\ Reports' = Reports
  BY <1>2, CountsKept
<1>12. Service!InFlight(SeenCall[k].req) < Cardinality(Container)
  BY <1>6, <1>7, <1>9 DEF Service!InFlight
<1>. QED  BY <1>2, <1>8, <1>9, <1>10, <1>11, <1>12
          DEF Service!FindWorker, Service!At, Service!Goto, Goto

-----------------------------------------------------------------------------
(* What the service sees of the activations *)

\* An activation that ends.
LEMMA FinishView ==
  ASSUME CallsTypeOK, CallsTypeOK', NEW k \in Call, call[k].pc \notin Hidden, NEW answer,
         Finish(k, answer)
  PROVE  Service!Finish(k, answer)
<1>. DEFINE v == IF call[k].answer = "closed" THEN NoCall
                 ELSE [NoCall EXCEPT !.pc = "done", !.answer = answer]
<1>1. SeenCall[k] = call[k]
  BY SeenFields
<1>2. SeenCall' = [SeenCall EXCEPT ![k] = v]
  <2>1. v.pc \notin Hidden /\ call' = [call EXCEPT ![k] = v]
    BY DEF Finish, NoCall, Hidden
  <2>. QED  BY <2>1, SeenStep
<1>3. \A j : Service!Named(j)' <=> Named(j)'
  BY DEF CallsTypeOK, SeenCall, Service!Named, Named
<1>4. Service!NoCall = NoCall
  BY DEF NoCall, Service!NoCall
<1>. QED  BY <1>1, <1>2, <1>3, <1>4 DEF Finish, Service!Finish

\* Two fields of a record, in either order.
LEMMA TwoFields ==
  ASSUME CallsTypeOK, NEW k \in Call
  PROVE  [[call[k] EXCEPT !.late = TRUE] EXCEPT !.pc = "claim"]
            = [[call[k] EXCEPT !.pc = "claim"] EXCEPT !.late = TRUE]
BY DEF CallsTypeOK

\* The steps on the row and the response event are the service's own.
LEMMA RowView ==
  ASSUME Known, Known', NEW k \in Call, RowStep(k) \/ Signal(k)
  PROVE  Service!CallStep(k)
<1>. call \in [Call -> [pc : CallPC, req : Request \cup {None}, on : Call \cup {None},
                        late : BOOLEAN, answer : Answer]]
  BY DEF Known, TypeParts, CallsInv, CallsTypeOK
<1>1. UNCHANGED <<Copies, Executing, Reports, ran, restarts>>
  <2>1. /\ UNCHANGED <<worker_payloads, worker, report, ran, restarts>>
        /\ \A c \in Container : poll'[c].job = poll[c].job
    BY DEF RowStep, Signal, workVars, Known, TypeParts, MemoryTypeOK
  <2>. QED  BY <2>1, CountsKept
<1>2. call[k].pc \notin Hidden /\ SeenCall[k] = call[k]
  <2>1. call[k].pc \notin Hidden
    BY DEF RowStep, Signal, Expire, Bind, Wake, Check, StartWaiting, At, Hidden
  <2>. QED  BY <2>1, SeenFields DEF Known, TypeParts, CallsInv
<1>3. ASSUME NEW answer, Finish(k, answer)
      PROVE  Service!Finish(k, answer)
  BY <1>2, <1>3, FinishView DEF Known, TypeParts, CallsInv
<1>4. ASSUME NEW label \in CallPC \ Hidden, Goto(k, label)
      PROVE  Service!Goto(k, label)
  BY <1>4, SeenGoto DEF Goto, Service!Goto, Known, TypeParts, CallsInv
<1>5. ASSUME Expire(k)
      PROVE  Service!Expire(k)
  BY <1>2, <1>3, <1>5 DEF Expire, Service!Expire, At, Service!At
<1>6. ASSUME Bind(k)
      PROVE  Service!Bind(k)
  <2>1. SeenCall' = [SeenCall EXCEPT ![k].pc = "signal"]
    BY <1>6, SeenGoto DEF Bind, CallPC, Hidden, Known, TypeParts, CallsInv
  <2>. QED  BY <1>2, <1>6, <2>1
            DEF Bind, Service!Bind, At, Service!At, UpdateRequest, Service!UpdateRequest
<1>7. ASSUME Wake(k)
      PROVE  Service!Wake(k)
  BY <1>2, <1>4, <1>7 DEF Wake, Service!Wake, At, Service!At, CallPC, Hidden
<1>8. ASSUME Check(k)
      PROVE  Service!Check(k)
  <2>1. \A d : Service!Reply(d) = Reply(d)
    BY DEF Reply, Service!Reply
  <2>2. Goto(k, "claim") => Service!Goto(k, "claim")
    BY <1>4 DEF CallPC, Hidden
  <2>. QED  BY <1>2, <1>3, <1>8, <2>1, <2>2 DEF Check, Service!Check, At, Service!At, Unfinished,
                                    Service!Unfinished
<1>9. ASSUME StartWaiting(k)
      PROVE  Service!StartWaiting(k)
  <2>1. CASE response_events[call[k].req] = None
    BY <1>2, <1>3, <1>9, <2>1 DEF StartWaiting, Service!StartWaiting, At, Service!At
  <2>2. CASE response_events[call[k].req] # None
    <3>. DEFINE e == response_events[call[k].req]
                v == [call[k] EXCEPT !.pc = "wait", !.on = e]
    <3>1. call' = [call EXCEPT ![k] = v] /\ v.pc \notin Hidden
      BY <1>9, <2>2 DEF StartWaiting, Hidden
    <3>2. SeenCall' = [SeenCall EXCEPT ![k] = v]
      BY <3>1, SeenStep DEF Known, TypeParts, CallsInv
    <3>3. SeenCall' = [SeenCall EXCEPT ![k].pc = "wait", ![k].on = e]
      BY <1>2, <3>2 DEF SeenCall
    <3>. QED  BY <1>2, <1>9, <2>2, <3>3 DEF StartWaiting, Service!StartWaiting, At, Service!At
  <2>. QED  BY <2>1, <2>2
<1>. QED  BY <1>1, <1>5, <1>6, <1>7, <1>8, <1>9
          DEF RowStep, Signal, Service!CallStep, Service!workVars

\* A clock may run out during the search as well.
LEMMA TimeView ==
  ASSUME Known, NEW k \in Call, TimePasses(k)
  PROVE  Service!TimePasses(k)
<1>. CallsTypeOK
  BY DEF Known, TypeParts, CallsInv
<1>1. SeenCall' = [SeenCall EXCEPT ![k].late = TRUE]
  <2>1. call' = [call EXCEPT ![k] = [call[k] EXCEPT !.late = TRUE]]
    BY DEF TimePasses, TimeUp
  <2>2. \A j \in Call \ {k} : SeenCall'[j] = SeenCall[j]
    BY <2>1 DEF CallsTypeOK, SeenCall
  <2>3. SeenCall'[k] = [SeenCall[k] EXCEPT !.late = TRUE]
    BY <2>1, TwoFields DEF CallsTypeOK, SeenCall
  <2>4. /\ SeenCall = [j \in Call |-> SeenCall[j]] /\ SeenCall' = [j \in Call |-> SeenCall'[j]]
    BY DEF SeenCall
  <2>. HIDE DEF SeenCall
  <2>. QED  BY <2>2, <2>3, <2>4
<1>2. UNCHANGED <<Copies, Executing, Reports, ran, restarts>>
  BY CountsKept DEF TimePasses, workVars
<1>3. SeenCall[k].pc \notin {"idle", "done"} /\ ~SeenCall[k].late
  BY SeenFields DEF TimePasses, TimeUp, Hidden
<1>. QED  BY <1>1, <1>2, <1>3
          DEF TimePasses, TimeUp, Service!TimePasses, Service!TimeUp, Service!workVars

-----------------------------------------------------------------------------
(* What the service sees of the workers *)

\* Steps the service does not know of.
QuietContainer(c) ==
  \/ NextMark(c) \/ NextDrop(c) \/ NextFail(c) \/ RuntimeNext(c) \/ RuntimeInitError(c)
  \/ Provision(c) \/ Launch(c) \/ Publish(c) \/ Reap(c) \/ Forget(c)

\* Among them the /next that takes its payload back: the copy changes hands only.
LEMMA QuietView ==
  ASSUME Known, Known', NEW c \in Container, QuietContainer(c)
  PROVE  UNCHANGED Service!serviceVars
<1>. USE DEF Known, TypeParts, MemoryTypeOK, WorkerTypeOK
<1>1. UNCHANGED <<requests, response_events, signalled, call, report, ran, restarts>>
  BY DEF QuietContainer, NextMark, NextDrop, NextFail, RuntimeNext, RuntimeInitError, Provision,
         Launch, Publish, Reap, Forget, callVars, workVars
<1>2. \A d \in Container : worker'[d].job = worker[d].job
  BY DEF QuietContainer, NextMark, NextDrop, NextFail, RuntimeNext, RuntimeInitError, Provision,
         Launch, Publish, Reap, Forget, workVars, Dead, HandsInv
<1>3. Copies' = Copies
  <2>1. CASE NextDrop(c)
    <3>1. PICK r \in Request : worker_payloads[AddrOf[c]] = r
      BY <2>1, AddrType DEF NextDrop, HandOver, PayloadInv
    <3>2. /\ worker_payloads' = [worker_payloads EXCEPT ![AddrOf[c]] = None]
          /\ poll'[c].job = r /\ poll[c].job = None
          /\ \A d \in Container \ {c} : poll'[d] = poll[d]
      BY <2>1, <3>1 DEF NextDrop, Awake, HandsInv
    <3>3. ASSUME NEW q \in Request
          PROVE  NoCopy(q)' <=> NoCopy(q)
      <4>1. CASE q = r
        BY <3>1, <3>2, <4>1, AddrType DEF NoCopy
      <4>2. CASE q # r
        BY <3>1, <3>2, <4>2, AddrType, NoRequestIsNone DEF NoCopy
      <4>. QED  BY <4>1, <4>2
    <3>. QED  BY <3>3, KnownCounted, CountedNext DEF Counted
  <2>2. CASE ~NextDrop(c)
    <3>1. /\ worker_payloads' = worker_payloads
          /\ \A d \in Container : poll'[d].job = poll[d].job
      <4>1. CASE NextFail(c)
        <5>1. CASE EndPoll(c) /\ poll[c].job = None
          BY <4>1, <5>1 DEF NextFail, EndPoll, NoPoll
        <5>2. CASE poll' = [poll EXCEPT ![c].pc = "revert"]
          BY <4>1, <5>2 DEF NextFail
        <5>. QED  BY <4>1, <5>1, <5>2 DEF NextFail
      <4>2. CASE RuntimeNext(c)
        BY <4>2 DEF RuntimeNext, NoPoll, HandsInv
      <4>3. CASE NextMark(c) \/ RuntimeInitError(c)
        BY <4>3 DEF NextMark, RuntimeInitError
      <4>4. CASE Provision(c) \/ Launch(c) \/ Publish(c) \/ Reap(c) \/ Forget(c)
        BY <4>4 DEF Provision, Launch, Publish, Reap, Forget, memoryVars, workVars
      <4>. QED  BY <2>2, <4>1, <4>2, <4>3, <4>4 DEF QuietContainer
    <3>. QED  BY <3>1, CountsKept
  <2>. QED  BY <2>1, <2>2
<1>4. SeenCall' = SeenCall
  BY <1>1 DEF SeenCall
<1>. QED  BY <1>1, <1>2, <1>3, <1>4, CountsKept
          DEF Service!serviceVars, Service!callVars, Service!workVars

\* A worker receives the copy.
LEMMA DeliverView ==
  ASSUME Known, Known', NEW c \in Container, NextDeliver(c)
  PROVE  \E r \in Request : Service!Deliver(r)
<1>. USE DEF Known, TypeParts, MemoryTypeOK, WorkerTypeOK
<1>1. PICK r \in Request : worker_payloads[AddrOf[c]] = r
  BY AddrType DEF NextDeliver, HandOver, PayloadInv
<1>2. /\ worker' = [worker EXCEPT ![c] = [st |-> "running", job |-> r]]
      /\ ran' = ran \cup {r}
      /\ worker_payloads' = [worker_payloads EXCEPT ![AddrOf[c]] = None]
      /\ UNCHANGED <<callVars, report, restarts>>
  BY <1>1, NoRequestIsNone DEF NextDeliver
<1>3. poll[c].job = None /\ worker[c].job = None
  BY DEF NextDeliver, Awake, Alive, HandsInv, HandOver, PollInv
<1>4. \A d \in Container : poll'[d].job = poll[d].job
  BY <1>3 DEF NextDeliver, EndPoll, NoPoll
<1>5. ~NoCopy(r) /\ r \notin ran /\ CopyInv(r)
  BY <1>1, AddrType DEF NoCopy, Delivery, CopyInv
<1>6. NoCopy(r)' /\ \A q \in Request \ {r} : NoCopy(q)' <=> NoCopy(q)
  <2>1. NoCopy(r)'
    BY <1>1, <1>2, <1>4, <1>5, AddrType, NoRequestIsNone DEF CopyInv, NoCopy
  <2>2. ASSUME NEW q \in Request \ {r}
        PROVE  NoCopy(q)' <=> NoCopy(q)
    BY <1>1, <1>2, <1>4, AddrType, NoRequestIsNone DEF NoCopy
  <2>. QED  BY <2>1, <2>2
<1>7. ~Runs(r)
  BY <1>5, NoRequestIsNone DEF Runs, Delivery, RanInv
<1>8. Runs(r)' /\ \A q \in Request \ {r} : Runs(q)' <=> Runs(q)
  BY <1>2, <1>3, NoRequestIsNone DEF Runs
<1>9. Copies[r] > 0 /\ Copies' = [Copies EXCEPT ![r] = Copies[r] - 1]
  BY <1>5, <1>6, Leaves
<1>10. Executing' = [Executing EXCEPT ![r] = Executing[r] + 1]
  BY <1>7, <1>8, Appears
<1>11. UNCHANGED <<Reports, SeenCall>>
  BY <1>2, CountsKept DEF callVars, SeenCall
<1>. QED  BY <1>2, <1>9, <1>10, <1>11 DEF Service!Deliver, Service!callVars, callVars

\* The /next of a dead worker returns the copy to the row.
LEMMA RevertView ==
  ASSUME Known, Known', NEW c \in Container, NextRevert(c)
  PROVE  \E r \in Request : Service!Revert(r)
<1>. USE DEF Known, TypeParts, MemoryTypeOK, WorkerTypeOK
<1>1. PICK r \in Request : poll[c].job = r
  BY DEF NextRevert, PollShape
<1>2. /\ UpdateRequest(r, "pending", "worker_disconnected")
      /\ UNCHANGED <<response_events, signalled, call, worker_payloads, report, worker, ran, restarts>>
      /\ \A d \in Container : poll'[d].job = IF d = c THEN None ELSE poll[d].job
  BY <1>1 DEF NextRevert, EndPoll, NoPoll
<1>3. ~NoCopy(r) /\ CopyInv(r)
  BY <1>1 DEF NoCopy, Delivery
<1>4. NoCopy(r)' /\ \A q \in Request \ {r} : NoCopy(q)' <=> NoCopy(q)
  <2>1. NoCopy(r)'
    BY <1>1, <1>2, <1>3, NoRequestIsNone DEF CopyInv, NoCopy
  <2>2. ASSUME NEW q \in Request \ {r}
        PROVE  NoCopy(q)' <=> NoCopy(q)
    BY <1>1, <1>2, NoRequestIsNone DEF NoCopy
  <2>. QED  BY <2>1, <2>2
<1>5. Copies[r] > 0 /\ Copies' = [Copies EXCEPT ![r] = Copies[r] - 1]
  BY <1>3, <1>4, Leaves
<1>6. UNCHANGED <<Executing, Reports, SeenCall>>
  BY <1>2, CountsKept DEF SeenCall
<1>. QED  BY <1>2, <1>5, <1>6 DEF Service!Revert, UpdateRequest, Service!UpdateRequest

\* A worker dies, with a request or without.
LEMMA DieView ==
  ASSUME Known, Known', NEW c \in Container, Die(c)
  PROVE  (\E r \in Request : Service!WorkerDies(r)) \/ UNCHANGED Service!serviceVars
<1>. USE DEF Known, TypeParts, MemoryTypeOK, WorkerTypeOK
<1>1. /\ UNCHANGED <<callVars, worker_payloads, poll, report, ran, restarts>>
      /\ worker' = [worker EXCEPT ![c] = Dead]
  BY DEF Die, memoryVars
<1>2. UNCHANGED <<Copies, Reports, SeenCall>>
  BY <1>1, CountsKept DEF callVars, SeenCall
<1>3. CASE worker[c].job = None
  <2>1. Executing' = Executing
    BY <1>1, <1>3, CountsKept DEF Dead
  <2>. QED  BY <1>1, <1>2, <2>1 DEF Service!serviceVars, Service!callVars, Service!workVars, callVars
<1>4. CASE worker[c].job # None
  <2>1. PICK r \in Request : worker[c].job = r
    BY <1>4
  <2>2. Runs(r) /\ ~Runs(r)' /\ \A q \in Request \ {r} : Runs(q)' <=> Runs(q)
    BY <1>1, <2>1, NoRequestIsNone DEF Dead, Runs, HandsInv, Has
  <2>3. Executing[r] > 0 /\ Executing' = [Executing EXCEPT ![r] = Executing[r] - 1]
    BY <2>2, Leaves
  <2>. QED  BY <1>1, <1>2, <2>3 DEF Service!WorkerDies, Service!callVars, callVars
<1>. QED  BY <1>3, <1>4

\* The outcome of a run is in the row and becomes a report.
LEMMA OutcomeView ==
  ASSUME Known, Known', NEW c \in Container, RuntimeResponse(c) \/ RuntimeError(c)
  PROVE  \E r \in Request : Service!Outcome(r)
<1>. USE DEF Known, TypeParts, MemoryTypeOK, WorkerTypeOK
<1>1. PICK r \in Request : worker[c].job = r
  BY DEF RuntimeResponse, RuntimeError, Reporting, WorkerShape
<1>2. /\ StoreProcessed(r, "result") \/ UpdateRequest(r, "failed", "error")
      /\ worker' = [worker EXCEPT ![c] = [st |-> "reporting", job |-> None]]
      /\ report' = [report EXCEPT ![c] = r] /\ report[c] = None
      /\ UNCHANGED <<response_events, signalled, call, worker_payloads, poll, ran, restarts>>
  BY <1>1 DEF RuntimeResponse, RuntimeError, Reporting
<1>3. Runs(r) /\ ~Runs(r)' /\ \A q \in Request \ {r} : Runs(q)' <=> Runs(q)
  BY <1>1, <1>2, NoRequestIsNone DEF Runs, HandsInv, Has
<1>4. ~Reported(r) /\ Reported(r)' /\ \A q \in Request \ {r} : Reported(q)' <=> Reported(q)
  BY <1>1, <1>2, NoRequestIsNone DEF Reported, HandsInv, Has
<1>5. Executing[r] > 0 /\ Executing' = [Executing EXCEPT ![r] = Executing[r] - 1]
  BY <1>3, Leaves
<1>6. Reports' = [Reports EXCEPT ![r] = Reports[r] + 1]
  BY <1>4, Appears
<1>7. UNCHANGED <<Copies, SeenCall>>
  BY <1>2, CountsKept DEF SeenCall
<1>. QED  BY <1>2, <1>5, <1>6, <1>7
          DEF Service!Outcome, StoreProcessed, Service!StoreProcessed, UpdateRequest,
              Service!UpdateRequest

\* A report wakes its caller and is gone.
LEMMA WakeView ==
  ASSUME Known, Known', NEW c \in Container, WakeCaller(c)
  PROVE  \E r \in Request : Service!WakeCaller(r)
<1>. USE DEF Known, TypeParts, MemoryTypeOK, WorkerTypeOK
<1>1. PICK r \in Request : report[c] = r
  BY DEF WakeCaller
<1>2. /\ SetResponseEvent(r) /\ report' = [report EXCEPT ![c] = None]
      /\ UNCHANGED <<worker_payloads, poll, ran, restarts>>
      /\ \A d \in Container : worker'[d].job = worker[d].job
  BY <1>1 DEF WakeCaller
<1>3. Reported(r) /\ ~Reported(r)' /\ \A q \in Request \ {r} : Reported(q)' <=> Reported(q)
  BY <1>1, <1>2, NoRequestIsNone DEF Reported, HandsInv, Has
<1>4. Reports[r] > 0 /\ Reports' = [Reports EXCEPT ![r] = Reports[r] - 1]
  BY <1>3, Leaves
<1>5. UNCHANGED <<Copies, Executing, SeenCall>>
  BY <1>2, CountsKept DEF SetResponseEvent, SeenCall
<1>. QED  BY <1>2, <1>4, <1>5 DEF Service!WakeCaller, SetResponseEvent, Service!SetResponseEvent

\* All copies, reports and activations are lost; what runs goes on.
LEMMA RestartView ==
  ASSUME Known, Known', NexusRestart
  PROVE  Service!NexusRestart
<1>. USE DEF Known, TypeParts, MemoryTypeOK, WorkerTypeOK
<1>1. Executing' = Executing
  <2>1. \A c \in Container : worker'[c].job = worker[c].job
    BY DEF NexusRestart, Dead, HandsInv
  <2>. QED  BY <2>1, CountsKept
<1>2. Copies' = [r \in Request |-> 0] /\ Reports' = [r \in Request |-> 0]
  <2>1. \A r \in Request : NoCopy(r)' /\ ~Reported(r)'
    BY NoRequestIsNone DEF NexusRestart, NoCopy, NoPoll, Reported
  <2>. QED  BY <2>1, CountedNext DEF Counted
<1>3. Service!ForgetCalls
  <2>1. Service!NoCall = NoCall
    BY DEF NoCall, Service!NoCall
  <2>2. ASSUME NEW k \in Call
        PROVE  SeenCall'[k] = IF SeenCall[k].pc \in {"idle", "done"} THEN SeenCall[k]
                              ELSE IF SeenCall[k].answer = "closed" THEN NoCall
                              ELSE [NoCall EXCEPT !.pc = "done", !.answer = "reset"]
    <3>1. SeenCall'[k] = call'[k]
      BY DEF NexusRestart, ForgetCalls, NoCall, SeenCall
    <3>2. /\ SeenCall[k].answer = call[k].answer
          /\ SeenCall[k].pc \in {"idle", "done"} <=> call[k].pc \in {"idle", "done"}
          /\ call[k].pc \in {"idle", "done"} => SeenCall[k] = call[k]
      BY SeenFields DEF Hidden, CallsInv
    <3>. QED  BY <3>1, <3>2 DEF NexusRestart, ForgetCalls
  <2>3. SeenCall' = [k \in Call |-> SeenCall'[k]]
    BY DEF SeenCall
  <2>. HIDE DEF SeenCall
  <2>. QED  BY <2>1, <2>2, <2>3 DEF NexusRestart, ForgetCalls, Service!ForgetCalls
<1>. QED  BY <1>1, <1>2, <1>3 DEF NexusRestart, Service!NexusRestart

-----------------------------------------------------------------------------
(* What the service sees of its clients, and the refinement *)

\* Hanging up is seen on the lines that are open.
LEMMA LeaveView ==
  ASSUME CallsTypeOK, NEW K \in SUBSET Call, LeaveCalls(K), \A k \in K : ~At(k, "idle")
  PROVE  K \in SUBSET {k \in Call : ~Service!At(k, "idle")} /\ Service!LeaveCalls(K)
<1>1. \A k \in K : ~Service!At(k, "idle")
  BY SeenFields DEF At, Service!At
<1>2. ASSUME NEW k \in Call
      PROVE  SeenCall'[k] = IF k \notin K THEN SeenCall[k]
                            ELSE IF SeenCall[k].pc = "done" THEN NoCall
                            ELSE [SeenCall[k] EXCEPT !.answer = "closed"]
  <2>. DEFINE open == [call[k] EXCEPT !.answer = "closed"]
  <2>1. CASE k \notin K
    BY <2>1 DEF LeaveCalls, SeenCall
  <2>2. CASE k \in K /\ call[k].pc = "done"
    <3>1. SeenCall[k].pc = "done" /\ call'[k] = NoCall
      BY <2>2, SeenFields DEF LeaveCalls, Hidden
    <3>. QED  BY <2>2, <3>1 DEF NoCall, SeenCall
  <2>3. CASE k \in K /\ call[k].pc # "done"
    <3>1. call'[k] = open /\ open.pc = call[k].pc
      BY <2>3 DEF LeaveCalls, CallsTypeOK
    <3>2. SeenCall[k].pc # "done"
      BY <2>3, SeenFields
    <3>3. SeenCall'[k] = [SeenCall[k] EXCEPT !.answer = "closed"]
      <4>1. [open EXCEPT !.pc = "claim"]
              = [[call[k] EXCEPT !.pc = "claim"] EXCEPT !.answer = "closed"]
        BY DEF CallsTypeOK
      <4>. QED  BY <3>1, <4>1 DEF SeenCall
    <3>. QED  BY <2>3, <3>2, <3>3
  <2>. QED  BY <2>1, <2>2, <2>3
<1>3. SeenCall' = [k \in Call |-> SeenCall'[k]]
  BY DEF SeenCall
<1>4. Service!NoCall = NoCall
  BY DEF NoCall, Service!NoCall
<1>. HIDE DEF SeenCall
<1>. QED  BY <1>1, <1>2, <1>3, <1>4 DEF Service!LeaveCalls

\* What a client does to the tables and its call.
LEMMA ClientView ==
  ASSUME Known,
         \/ \E r \in Request : \/ Answered(r) \/ PostFails(r)
                               \/ \E w \in Container \cup {None} : CreateRequest(r, w)
         \/ LBCrash
         \/ \E S \in SUBSET Request : CleanUpStuck(S)
  PROVE  Service!ClientStep
<1>. USE DEF Known, TypeParts, CallsInv
<1>. DEFINE Rows == \/ \E r \in Request : \/ Service!InsertRequest(r)
                                          \/ Service!UpdateRequest(r, "failed", "text")
                                          \/ \E d \in ResponseData : Service!StoreProcessed(r, d)
                    \/ \E S \in SUBSET Request : Service!DeleteStuck(S)
                    \/ UNCHANGED requests
            Lines == \E K \in SUBSET {k \in Call : ~Service!At(k, "idle")} : Service!LeaveCalls(K)
<1>1. UNCHANGED <<response_events, signalled, Copies, Executing, Reports, ran, restarts>>
  <2>1. UNCHANGED <<response_events, signalled, worker_payloads, poll, worker, report, ran, restarts>>
    BY DEF Answered, PostFails, CreateRequest, LBCrash, CleanUpStuck, otherVars, memoryVars, workVars
  <2>. QED  BY <2>1, CountsKept
<1>2. ASSUME UNCHANGED call
      PROVE  Lines
  <2>1. LeaveCalls({})
    BY <1>2 DEF LeaveCalls, CallsTypeOK
  <2>. QED  BY <2>1, LeaveView
<1>3. ASSUME NEW K, LeaveCalls(K), \A k \in K \cap Call : ~At(k, "idle")
      PROVE  Lines
  <2>1. LeaveCalls(K \cap Call)
    BY <1>3 DEF LeaveCalls
  <2>. QED  BY <1>3, <2>1, LeaveView
<1>4. ASSUME NEW r \in Request, Answered(r) \/ PostFails(r)
      PROVE  Lines
  <2>1. \A k \in {lb[r].call} \cap Call : ~At(k, "idle")
    BY <1>4, CallType DEF Answered, PostFails, LineInv, Linked, At
  <2>. QED  BY <1>3, <1>4, <2>1 DEF Answered, PostFails
<1>5. ASSUME NEW r \in Request, Answered(r)
      PROVE  Rows
  <2>. DEFINE d == Body(call[lb[r].call].answer)
  <2>1. lb[r].call \in Call
    BY <1>5 DEF Answered, LBInv, PostedCalls
  <2>2. call[lb[r].call].answer \in FinalAnswer \ {"reset"}
    BY <1>5, <2>1 DEF Answered, CallShape
  <2>3. d \in ResponseData
    BY <2>2, BodyType
  <2>4. Service!StoreProcessed(r, d)
    BY <1>5 DEF Answered, StoreProcessed, Service!StoreProcessed
  <2>. QED  BY <2>3, <2>4
<1>6. ASSUME NEW r \in Request, PostFails(r)
      PROVE  Rows
  BY <1>6 DEF PostFails, UpdateRequest, Service!UpdateRequest
<1>7. ASSUME NEW r \in Request, NEW w, CreateRequest(r, w)
      PROVE  Rows /\ Lines
  BY <1>2, <1>7 DEF CreateRequest, InsertRequest, Service!InsertRequest, NoRow, Service!NoRow
<1>8. CASE LBCrash
  <2>. DEFINE K == {lb[r].call : r \in {q \in Request : lb[q].pc \in {"created", "posted"}}}
  <2>1. \A k \in K \cap Call : ~At(k, "idle")
    BY CallType DEF LineInv, Linked, At
  <2>2. LeaveCalls(K) /\ UNCHANGED requests
    BY <1>8 DEF LBCrash
  <2>. QED  BY <1>1, <1>3, <2>1, <2>2 DEF Service!ClientStep, Service!workVars
<1>9. ASSUME NEW S \in SUBSET Request, CleanUpStuck(S)
      PROVE  Rows /\ Lines
  <2>1. Service!DeleteStuck(S)
    BY <1>9 DEF CleanUpStuck, DeleteStuck, Service!DeleteStuck
  <2>. QED  BY <1>2, <1>9, <2>1 DEF CleanUpStuck
<1>10. Rows /\ Lines => Service!ClientStep
  BY <1>1 DEF Service!ClientStep, Service!workVars, ResponseData, Service!ResponseData
<1>. HIDE DEF Rows, Lines
<1>. QED  BY <1>4, <1>5, <1>6, <1>7, <1>8, <1>9, <1>10

\* The POST of a request starts an activation.
LEMMA PostView ==
  ASSUME Known, NEW r \in Request, NEW k \in Call, Post(r, k)
  PROVE  Service!ProxyRequest(k, r)
<1>. USE DEF Known, TypeParts, CallsInv
<1>1. UNCHANGED <<Copies, Executing, Reports, ran, restarts>>
  BY CountsKept DEF Post, ProxyRequest, workVars
<1>2. Service!Unused(k)
  BY DEF Post, ProxyRequest, Enter, Unused, Service!Unused, At, Service!At, Named, Service!Named,
         SeenCall, CallsTypeOK
<1>3. SeenCall' = [SeenCall EXCEPT ![k] = [Service!NoCall EXCEPT !.pc = "claim", !.req = r]]
  <2>. DEFINE v == [NoCall EXCEPT !.pc = "claim", !.req = r]
  <2>1. call' = [call EXCEPT ![k] = v] /\ v.pc \notin Hidden
    BY DEF Post, ProxyRequest, Enter, NoCall, Hidden
  <2>2. SeenCall' = [SeenCall EXCEPT ![k] = v]
    BY <2>1, SeenStep
  <2>. QED  BY <2>2 DEF NoCall, Service!NoCall
<1>. QED  BY <1>1, <1>2, <1>3
          DEF Post, ProxyRequest, Enter, Service!ProxyRequest, Service!Enter, Service!workVars

\* At the start nothing is on its way.
LEMMA InitView == Init => Service!InvocationInit
<1>. SUFFICES ASSUME Init
              PROVE  Service!InvocationInit
  OBVIOUS
<1>. USE DEF Init, NexusInit
<1>1. Service!RequestsInit
  BY DEF RequestsInit, Service!RequestsInit, NoRow, Service!NoRow
<1>2. Service!CallsInit
  <2>1. SeenCall = [k \in Call |-> NoCall]
    BY DEF CallsInit, NoCall, SeenCall
  <2>. QED  BY <2>1 DEF CallsInit, Service!CallsInit, NoCall, Service!NoCall
<1>3. \A r \in Request : NoCopy(r) /\ ~Runs(r) /\ ~Reported(r)
  BY NoRequestIsNone DEF NoCopy, NoPoll, Runs, Reported
<1>4. Counted
  BY InitTypeParts, InitHandOver, InitDelivery, InitHands, KnownCounted DEF Known
<1>5. /\ Copies = [r \in Request |-> 0] /\ Executing = [r \in Request |-> 0]
      /\ Reports = [r \in Request |-> 0]
  BY <1>3, <1>4 DEF Counted
<1>. QED  BY <1>1, <1>2, <1>5 DEF Service!InvocationInit

\* Every step of the Nexus and its clients is one of the service, or invisible.
LEMMA NextView ==
  ASSUME IsFiniteSet(Container), Known, Known', [Next]_vars
  PROVE  \/ Service!ServiceNext
         \/ \E k \in Call, r \in Request : Service!ProxyRequest(k, r)
         \/ Service!ClientStep
         \/ UNCHANGED Service!serviceVars
<1>1. ASSUME NEW k \in Call, CallStep(k) \/ TimePasses(k)
      PROVE  Service!ServiceNext \/ UNCHANGED Service!serviceVars
  <2>1. CASE Probe(k)
    BY <2>1, SeekView, FindView DEF Service!ServiceNext
  <2>2. CASE Claim(k) \/ LookUp(k) \/ Ghost(k)
    BY <2>2, SeekView
  <2>3. CASE RowStep(k) \/ Signal(k) \/ TimePasses(k)
    BY <2>3, RowView, TimeView DEF Service!ServiceNext
  <2>. QED  BY <1>1, <2>1, <2>2, <2>3 DEF CallStep
<1>2. ASSUME NEW c \in Container, PollStep(c) \/ WorkerStep(c) \/ FleetStep(c)
      PROVE  Service!ServiceNext \/ UNCHANGED Service!serviceVars
  BY <1>2, QuietView, DeliverView, RevertView, DieView, OutcomeView, WakeView
  DEF PollStep, WorkerStep, FleetStep, QuietContainer, Service!ServiceNext, Service!WorkStep
<1>3. CASE NexusRestart
  BY <1>3, RestartView DEF Service!ServiceNext
<1>4. ASSUME UNCHANGED nexusVars
      PROVE  UNCHANGED Service!serviceVars
  <2>1. UNCHANGED <<Copies, Executing, Reports, SeenCall>>
    BY <1>4, CountsKept DEF nexusVars, callVars, workVars, SeenCall
  <2>. QED  BY <1>4, <2>1
            DEF nexusVars, callVars, workVars, Service!serviceVars, Service!callVars, Service!workVars
<1>5. ASSUME NEW r \in Request, LBStep(r)
      PROVE  \/ \E k \in Call, q \in Request : Service!ProxyRequest(k, q)
             \/ Service!ClientStep
             \/ UNCHANGED Service!serviceVars
  BY <1>4, <1>5, ClientView, PostView DEF LBStep, Refuse
<1>6. CASE LBCrash \/ \E S \in SUBSET Request : CleanUpStuck(S)
  BY <1>6, ClientView
<1>. QED  BY <1>1, <1>2, <1>3, <1>4, <1>5, <1>6 DEF Next, NexusNext, vars

\* With all its tables, polls and claims the Nexus is what EventQueue takes it for.
THEOREM ServiceImplemented ==
  ASSUME OwnAddresses, IsFiniteSet(Container)
  PROVE  Spec => ImplementsInvocation
<1>1. Known /\ Known' /\ [Next]_vars =>
        [\/ Service!ServiceNext
         \/ \E k \in Call, r \in Request : Service!ProxyRequest(k, r)
         \/ Service!ClientStep]_Service!serviceVars
  BY NextView
<1>. QED  BY InitView, <1>1, KnownAlways, PTL DEF Spec, ImplementsInvocation, Service!InvocationSpec
=============================================================================
