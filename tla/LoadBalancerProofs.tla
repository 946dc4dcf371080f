------------------------- MODULE LoadBalancerProofs -------------------------
(***************************************************************************)
(* Proofs about LoadBalancer for any number of requests, activations,      *)
(* containers and restarts.                                                *)
(***************************************************************************)
EXTENDS LoadBalancer, CallsProofs

-----------------------------------------------------------------------------
(* Type correctness *)

PostedCalls == \A r \in Request : lb[r].pc = "posted" => lb[r].call \in Call

\* The statements on the table of containers keep its type.
LEMMA ContainerStatementType ==
  ASSUME ContainersTypeOK, NEW c \in Container, NEW a \in Addr, NEW f \in Fn,
         \/ InsertProvisioning(c) \/ PublishDeployed(c) \/ ClaimAddress(f, a)
         \/ MarkAvailable(a) \/ MarkFailed(a) \/ MarkDestroying({c}) \/ RemoveRows({c})
  PROVE  ContainersTypeOK'
BY AddrType
DEF ContainersTypeOK, ContainerStatus, InsertProvisioning, PublishDeployed, ClaimAddress,
    MarkAvailable, MarkFailed, MarkDestroying, RemoveRows, WithStatusAt, NoContainer

MemoryTypeOK ==
  /\ listening_workers \in [Addr -> Container \cup {None}]
  /\ worker_payloads \in [Addr -> Request \cup {None}]
  /\ lease \in [Call -> [ip : Addr \cup {None}, ev : Container \cup {None}]]
  /\ poll \in [Container -> [pc : PollPC, set : BOOLEAN, job : Request \cup {None}]]

WorkerTypeOK ==
  /\ report \in [Container -> Request \cup {None}]
  /\ worker \in [Container -> [st : WorkerState, job : Request \cup {None}]]
  /\ ran \subseteq Request
  /\ restarts \in 0..MaxRestarts

LBInv ==
  /\ lb \in [Request -> [pc : LBPC, call : Call \cup {None}, from : Container \cup {None}]]
  /\ PostedCalls

\* What an activation holds while it drives a worker, and a poll while it is dropped.
LeaseShape == \A k \in Call : Holding(k) => lease[k].ip \in Addr
PollShape == \A c \in Container : poll[c].pc = "revert" => poll[c].job \in Request
WorkerShape == \A c \in Container : worker[c].st = "running" => worker[c].job \in Request

TypeParts ==
  /\ CallsInv /\ ContainersTypeOK /\ MemoryTypeOK /\ WorkerTypeOK /\ LBInv
  /\ LeaseShape /\ PollShape /\ WorkerShape

LEMMA InitTypeParts == Init => TypeParts
BY CallType, NoRequestIsNone
DEF Init, NexusInit, RequestsInit, CallsInit, ContainersInit, TypeParts, CallsInv,
    RequestsTypeOK, CallsTypeOK, CallShape, ContainersTypeOK, MemoryTypeOK, WorkerTypeOK, LBInv,
    LeaseShape, PollShape, WorkerShape, NoClient, NoRow, NoCall, NoContainer, NoLease, NoPoll, At, Open, Holding, PostedCalls,
    RequestStatus, ResponseData, CheckedOut, CallPC, Answer, ContainerStatus, PollPC,
    WorkerState, LBPC

-----------------------------------------------------------------------------
(* The steps of proxy_request *)

\* The steps on row and event neither begin nor end the hold on a worker.
LEMMA RowStepHolding ==
  ASSUME CallsInv, NEW k \in Call, TimePasses(k) \/ RowStep(k), NEW j \in Call
  PROVE  /\ Holding(j)' <=> Holding(j)
         /\ Holding(j) => /\ call'[j].req = call[j].req
                          /\ \/ call'[j].pc = call[j].pc
                             \/ call[j].pc = "bind" /\ call'[j].pc = "signal"
<1>. USE FinishEffect DEF Holding, CallsInv, At
<1>1. CASE TimePasses(k)
  BY <1>1 DEF TimePasses, TimeUp, CallsTypeOK
<1>2. CASE Expire(k)
  BY <1>2 DEF Expire
<1>3. CASE Bind(k)
  BY <1>3 DEF Bind, CallsTypeOK
<1>4. CASE Wake(k)
  BY <1>4 DEF Wake, Goto, CallsTypeOK
<1>5. CASE Check(k)
  <2>1. CASE Goto(k, "claim")
    BY <1>5, <2>1 DEF Check, Goto, CallsTypeOK
  <2>2. CASE \E answer : Finish(k, answer)
    BY <1>5, <2>2 DEF Check
  <2>. QED  BY <1>5, <2>1, <2>2 DEF Check
<1>. QED  BY <1>1, <1>2, <1>3, <1>4, <1>5 DEF RowStep

\* Waking the worker ends it.
LEMMA SignalHolding ==
  ASSUME CallsInv, NEW k \in Call, Signal(k), NEW j \in Call
  PROVE  /\ Holding(j)' <=> Holding(j) /\ j # k
         /\ j # k => call'[j] = call[j]
<1>. USE FinishEffect DEF Holding, CallsInv, At, Signal, StartWaiting
<1>1. CASE response_events[call[k].req] = None
  BY <1>1
<1>2. CASE response_events[call[k].req] # None
  BY <1>2 DEF CallsTypeOK
<1>. QED  BY <1>1, <1>2

LEMMA ProxyType ==
  ASSUME TypeParts, NEW k \in Call, CallStep(k) \/ TimePasses(k)
  PROVE  TypeParts'
<1>. USE DEF TypeParts
<1>1. CASE TimePasses(k) \/ RowStep(k)
  <2>1. CallsInv'
    BY <1>1, RequestSideType DEF TimePasses, RowStep
  <2>2. LeaseShape'
    <3>1. UNCHANGED lease
      BY <1>1 DEF TimePasses, RowStep
    <3>. QED  BY <1>1, <3>1, RowStepHolding DEF LeaseShape
  <2>3. UNCHANGED <<containers, listening_workers, worker_payloads, lease, poll, report, worker,
                    ran, restarts, lb>>
    BY <1>1 DEF TimePasses, RowStep, workVars
  <2>. QED  BY <2>1, <2>2, <2>3 DEF ContainersTypeOK, MemoryTypeOK, WorkerTypeOK, LBInv,
                                    PostedCalls, PollShape, WorkerShape
<1>2. CASE Claim(k)
  <2>1. CallsInv'
    BY <1>2, GotoType DEF Claim, At, Open, CallPC
  <2>2. PICK a \in Addr : /\ ClaimAddress(FnOf[call[k].req], a)
                          /\ lease' = [lease EXCEPT ![k].ip = a]
    BY <1>2 DEF Claim
  <2>3. FnOf[call[k].req] \in Fn
    BY <1>2, RequestKind DEF Claim, CallsInv, CallShape, Open, At
  <2>4. ContainersTypeOK'
    BY <2>2 DEF ContainersTypeOK, ContainerStatus, ClaimAddress, WithStatusAt
  <2>5. LeaseShape' /\ MemoryTypeOK'
    BY <1>2, <2>2 DEF Claim, Goto, LeaseShape, Holding, CallsInv, CallsTypeOK, MemoryTypeOK,
                      workVars
  <2>. QED  BY <1>2, <2>1, <2>4, <2>5 DEF Claim, Goto, WorkerTypeOK, LBInv, PostedCalls,
                                          PollShape, WorkerShape, workVars
<1>3. CASE LookUp(k)
  <2>1. CallsInv'
    BY <1>3, GotoType DEF LookUp, At, Open, CallPC
  <2>2. \/ lease' = [lease EXCEPT ![k] = NoLease] /\ Goto(k, "claim")
        \/ \E c \in Container : lease' = [lease EXCEPT ![k].ev = c] /\ Goto(k, "probe")
    BY <1>3 DEF LookUp, At, LeaseShape, Holding, MemoryTypeOK
  <2>3. MemoryTypeOK'
    BY <1>3, <2>2 DEF LookUp, MemoryTypeOK, workVars, NoLease
  <2>4. LeaseShape'
    <3>1. CASE lease' = [lease EXCEPT ![k] = NoLease] /\ Goto(k, "claim")
      BY <3>1 DEF Goto, LeaseShape, Holding, MemoryTypeOK, CallsInv, CallsTypeOK
    <3>2. ASSUME NEW c \in Container, lease' = [lease EXCEPT ![k].ev = c], Goto(k, "probe")
          PROVE  LeaseShape'
      BY <1>3, <3>2 DEF LookUp, At, Goto, LeaseShape, Holding, MemoryTypeOK, CallsInv, CallsTypeOK
    <3>. QED  BY <2>2, <3>1, <3>2
  <2>. QED  BY <1>3, <2>1, <2>3, <2>4 DEF LookUp, ContainersTypeOK, WorkerTypeOK, LBInv,
                                          PostedCalls, PollShape, WorkerShape, workVars
<1>4. CASE Probe(k)
  <2>1. CallsInv'
    BY <1>4, GotoType DEF Probe, At, Open, CallPC
  <2>2. LeaseShape' /\ MemoryTypeOK'
    BY <1>4 DEF Probe, Goto, At, LeaseShape, Holding, CallsInv, CallsTypeOK, CallShape, Open,
                MemoryTypeOK, workVars
  <2>. QED  BY <1>4, <2>1, <2>2 DEF Probe, Goto, ContainersTypeOK, WorkerTypeOK, LBInv,
                                    PostedCalls, PollShape, WorkerShape, workVars
<1>5. CASE Ghost(k)
  <2>1. CallsInv'
    BY <1>5, GotoType DEF Ghost, At, Open, CallPC
  <2>2. ContainersTypeOK'
    BY <1>5 DEF Ghost, MarkFailed, WithStatusAt, ContainersTypeOK, ContainerStatus
  <2>3. LeaseShape' /\ MemoryTypeOK'
    BY <1>5 DEF Ghost, Goto, At, LeaseShape, Holding, CallsInv, CallsTypeOK, MemoryTypeOK,
                workVars, NoLease
  <2>. QED  BY <1>5, <2>1, <2>2, <2>3 DEF Ghost, WorkerTypeOK, LBInv, PostedCalls, PollShape,
                                          WorkerShape, workVars
<1>6. CASE Signal(k)
  <2>1. CallsInv'
    BY <1>6, RequestSideType DEF Signal
  <2>2. LeaseShape'
    BY <1>6, SignalHolding DEF Signal, LeaseShape, MemoryTypeOK
  <2>3. MemoryTypeOK' /\ PollShape'
    BY <1>6 DEF Signal, MemoryTypeOK, PollShape, NoLease
  <2>4. UNCHANGED <<containers, report, worker, ran, restarts, lb>>
    BY <1>6 DEF Signal
  <2>. QED  BY <2>1, <2>2, <2>3, <2>4 DEF ContainersTypeOK, WorkerTypeOK, LBInv, PostedCalls,
                                          WorkerShape
<1>. QED  BY <1>1, <1>2, <1>3, <1>4, <1>5, <1>6 DEF CallStep

-----------------------------------------------------------------------------
(* The steps of the runtime API and of the fleet *)

\* The request side does not change.
LEMMA CallsUnchanged ==
  ASSUME CallsInv, LeaseShape, UNCHANGED callVars, UNCHANGED lease
  PROVE  CallsInv' /\ LeaseShape'
BY DEF callVars, CallsInv, RequestsTypeOK, CallsTypeOK, CallShape, At, Open, LeaseShape, Holding

LEMMA PollType ==
  ASSUME TypeParts, NEW c \in Container, PollStep(c)
  PROVE  TypeParts'
<1>. USE AddrType DEF TypeParts
<1>. AddrOf[c] \in Addr
  OBVIOUS
<1>1. CASE NextMark(c)
  <2>1. CallsInv' /\ LeaseShape'
    BY <1>1, CallsUnchanged DEF NextMark
  <2>2. ContainersTypeOK'
    BY <1>1, ContainerStatementType, ImageType DEF NextMark
  <2>3. MemoryTypeOK' /\ PollShape'
    <3>1. poll' = [poll EXCEPT ![c].pc = "wait"] /\ UNCHANGED memoryVars
      BY <1>1 DEF NextMark, memoryVars
    <3>2. poll' \in [Container -> [pc : PollPC, set : BOOLEAN, job : Request \cup {None}]]
      BY <3>1 DEF MemoryTypeOK, PollPC
    <3>3. PollShape'
      BY <3>1 DEF MemoryTypeOK, PollShape
    <3>. QED  BY <3>1, <3>2, <3>3 DEF MemoryTypeOK, memoryVars
  <2>. QED  BY <1>1, <2>1, <2>2, <2>3 DEF NextMark, WorkerTypeOK, LBInv, PostedCalls, WorkerShape
<1>2. CASE NextDeliver(c)
  <2>1. CallsInv' /\ LeaseShape'
    BY <1>2, CallsUnchanged DEF NextDeliver
  <2>2. MemoryTypeOK' /\ PollShape'
    BY <1>2 DEF NextDeliver, EndPoll, NoPoll, MemoryTypeOK, PollShape, PollPC
  <2>3. WorkerTypeOK' /\ WorkerShape'
    <3>. DEFINE r == worker_payloads[AddrOf[c]]
    <3>1. CASE r = None
      BY <1>2, <3>1 DEF NextDeliver, Dead, WorkerTypeOK, WorkerShape, WorkerState
    <3>2. CASE r # None
      <4>1. r \in Request
        BY <3>2 DEF MemoryTypeOK
      <4>2. /\ worker' = [worker EXCEPT ![c] = [st |-> "running", job |-> r]]
            /\ ran' = ran \cup {r} /\ UNCHANGED <<report, restarts>>
        BY <1>2, <3>2 DEF NextDeliver
      <4>. QED  BY <4>1, <4>2 DEF WorkerTypeOK, WorkerShape, WorkerState
    <3>. QED  BY <3>1, <3>2
  <2>. QED  BY <1>2, <2>1, <2>2, <2>3 DEF NextDeliver, ContainersTypeOK, LBInv, PostedCalls
<1>3. CASE NextDrop(c)
  <2>1. CallsInv' /\ LeaseShape'
    BY <1>3, CallsUnchanged DEF NextDrop
  <2>2. MemoryTypeOK'
    BY <1>3 DEF NextDrop, MemoryTypeOK, PollPC
  <2>3. PollShape'
    BY <1>3 DEF NextDrop, MemoryTypeOK, PollShape
  <2>. QED  BY <1>3, <2>1, <2>2, <2>3 DEF NextDrop, ContainersTypeOK, WorkerTypeOK, LBInv,
                                          PostedCalls, WorkerShape
<1>4. CASE NextFail(c)
  <2>1. CallsInv' /\ LeaseShape'
    BY <1>4, CallsUnchanged DEF NextFail
  <2>2. ContainersTypeOK'
    BY <1>4, ContainerStatementType, ImageType DEF NextFail
  <2>3. MemoryTypeOK' /\ PollShape'
    <3>1. CASE poll[c].job = None
      <4>1. EndPoll(c) /\ UNCHANGED <<worker_payloads, lease>>
        BY <1>4, <3>1 DEF NextFail
      <4>2. PollShape'
        BY <4>1 DEF EndPoll, NoPoll, MemoryTypeOK, PollShape
      <4>3. MemoryTypeOK'
        BY <4>1 DEF EndPoll, NoPoll, MemoryTypeOK, PollPC
      <4>. QED  BY <4>2, <4>3
    <3>2. CASE poll[c].job # None
      <4>1. /\ poll' = [poll EXCEPT ![c].pc = "revert"]
            /\ UNCHANGED memoryVars
        BY <1>4, <3>2 DEF NextFail, memoryVars
      <4>2. PollShape'
        BY <3>2, <4>1 DEF MemoryTypeOK, PollShape
      <4>3. MemoryTypeOK'
        BY <4>1 DEF MemoryTypeOK, PollPC, memoryVars
      <4>. QED  BY <4>2, <4>3
    <3>. QED  BY <3>1, <3>2
  <2>. QED  BY <1>4, <2>1, <2>2, <2>3 DEF NextFail, WorkerTypeOK, LBInv, PostedCalls, WorkerShape
<1>5. CASE NextRevert(c)
  <2>1. poll[c].job \in Request
    BY <1>5 DEF NextRevert, PollShape
  <2>2. RequestsTypeOK'
    BY <1>5, <2>1, RowStatementType DEF NextRevert, CallsInv, RequestStatus, ResponseData
  <2>3. CallsInv' /\ LeaseShape'
    BY <1>5, <2>2 DEF NextRevert, CallsInv, CallsTypeOK, CallShape, At, Open, LeaseShape, Holding
  <2>4. MemoryTypeOK' /\ PollShape'
    BY <1>5 DEF NextRevert, EndPoll, NoPoll, MemoryTypeOK, PollShape, PollPC
  <2>. QED  BY <1>5, <2>3, <2>4 DEF NextRevert, ContainersTypeOK, WorkerTypeOK, LBInv,
                                    PostedCalls, WorkerShape
<1>. QED  BY <1>1, <1>2, <1>3, <1>4, <1>5 DEF PollStep

LEMMA WorkerType ==
  ASSUME TypeParts, NEW c \in Container, WorkerStep(c)
  PROVE  TypeParts'
<1>. USE AddrType DEF TypeParts
<1>. AddrOf[c] \in Addr
  OBVIOUS
<1>1. CASE RuntimeNext(c)
  <2>1. CallsInv'
    BY <1>1, CallsUnchanged DEF RuntimeNext, CallsInv, RequestsTypeOK, CallsTypeOK, CallShape,
                                At, Open, callVars
  <2>2. \A k \in Call : /\ lease'[k] \in [ip : Addr \cup {None}, ev : Container \cup {None}]
                        /\ lease'[k].ip = lease[k].ip
    BY <1>1 DEF RuntimeNext, MemoryTypeOK
  <2>3. lease' \in [Call -> [ip : Addr \cup {None}, ev : Container \cup {None}]]
    BY <1>1, <2>2 DEF RuntimeNext
  <2>4. LeaseShape'
    BY <1>1, <2>2 DEF RuntimeNext, callVars, LeaseShape, Holding
  <2>. QED  BY <1>1, <2>1, <2>3, <2>4 DEF RuntimeNext, ContainersTypeOK, MemoryTypeOK,
              WorkerTypeOK, LBInv, PostedCalls, PollShape, WorkerShape, PollPC, WorkerState, NoPoll
<1>2. CASE RuntimeResponse(c) \/ RuntimeError(c)
  <2>1. Reporting(c)
    BY <1>2 DEF RuntimeResponse, RuntimeError
  <2>2. worker[c].job \in Request
    BY <2>1 DEF Reporting, WorkerShape
  <2>3. RequestsTypeOK'
    BY <1>2, <2>2, RowStatementType
    DEF RuntimeResponse, RuntimeError, CallsInv, RequestStatus, ResponseData
  <2>4. CallsInv' /\ LeaseShape'
    BY <2>1, <2>3 DEF Reporting, CallsInv, CallsTypeOK, CallShape, At, Open, LeaseShape, Holding
  <2>. QED  BY <2>1, <2>2, <2>4 DEF Reporting, ContainersTypeOK, MemoryTypeOK, WorkerTypeOK,
              LBInv, PostedCalls, PollShape, WorkerShape, WorkerState
<1>3. CASE WakeCaller(c)
  <2>1. CallsInv'
    BY <1>3, SetResponseEventType DEF WakeCaller, WorkerTypeOK
  <2>2. LeaseShape'
    BY <1>3 DEF WakeCaller, SetResponseEvent, LeaseShape, Holding
  <2>3. MemoryTypeOK' /\ PollShape' /\ ContainersTypeOK' /\ LBInv'
    BY <1>3 DEF WakeCaller, MemoryTypeOK, PollShape, ContainersTypeOK, LBInv, PostedCalls
  <2>4. WorkerTypeOK' /\ WorkerShape'
    BY <1>3 DEF WakeCaller, WorkerTypeOK, WorkerShape, WorkerState
  <2>. QED  BY <2>1, <2>2, <2>3, <2>4
<1>4. CASE RuntimeInitError(c)
  <2>1. CallsInv' /\ LeaseShape'
    BY <1>4, CallsUnchanged DEF RuntimeInitError
  <2>2. ContainersTypeOK'
    BY <1>4, ContainerStatementType, ImageType DEF RuntimeInitError
  <2>. QED  BY <1>4, <2>1, <2>2 DEF RuntimeInitError, MemoryTypeOK, WorkerTypeOK, LBInv,
              PostedCalls, PollShape, WorkerShape, WorkerState, Dead
<1>. QED  BY <1>1, <1>2, <1>3, <1>4 DEF WorkerStep

LEMMA FleetType ==
  ASSUME TypeParts, NEW c \in Container, FleetStep(c)
  PROVE  TypeParts'
<1>. USE AddrType DEF TypeParts
<1>1. UNCHANGED <<callVars, memoryVars, poll, report, ran, restarts, lb>>
  BY DEF FleetStep, Provision, Launch, Publish, Die, Reap, Forget, workVars
<1>2. CallsInv' /\ LeaseShape' /\ MemoryTypeOK' /\ PollShape' /\ LBInv'
  BY <1>1, CallsUnchanged DEF memoryVars, MemoryTypeOK, PollShape, LBInv, PostedCalls
<1>3. CASE Provision(c) \/ Publish(c) \/ Reap(c) \/ Forget(c)
  <2>1. ContainersTypeOK'
    BY <1>3, ContainerStatementType, ImageType DEF Provision, Publish, Reap, Forget
  <2>. QED  BY <1>2, <1>3, <2>1 DEF Provision, Publish, Reap, Forget, workVars, WorkerTypeOK,
                                    WorkerShape
<1>4. CASE Launch(c) \/ Die(c)
  <2>1. UNCHANGED containers
    BY <1>4 DEF Launch, Die
  <2>2. worker' = [worker EXCEPT ![c].st = "boot"] \/ worker' = [worker EXCEPT ![c] = Dead]
    BY <1>4 DEF Launch, Die
  <2>3. WorkerTypeOK'
    BY <1>1, <2>2 DEF WorkerTypeOK, WorkerState, Dead
  <2>4. WorkerShape'
    BY <1>1, <2>2 DEF WorkerTypeOK, WorkerShape, Dead
  <2>. QED  BY <1>2, <2>1, <2>3, <2>4 DEF ContainersTypeOK
<1>. QED  BY <1>3, <1>4 DEF FleetStep

LEMMA RestartType ==
  ASSUME TypeParts, NexusRestart
  PROVE  TypeParts'
<1>. USE DEF TypeParts
<1>1. CallsInv'
  BY ForgetType DEF NexusRestart
<1>2. LeaseShape'
  BY DEF NexusRestart, ForgetCalls, LeaseShape, Holding, NoCall, CallsInv, CallsTypeOK
<1>3. MemoryTypeOK' /\ PollShape'
  BY DEF NexusRestart, MemoryTypeOK, PollShape, NoLease, NoPoll, PollPC
<1>4. restarts' \in 0..MaxRestarts
  BY CallType DEF NexusRestart, WorkerTypeOK
<1>5. WorkerTypeOK' /\ WorkerShape'
  BY <1>4 DEF NexusRestart, WorkerTypeOK, WorkerShape, WorkerState, Dead
<1>. QED  BY <1>1, <1>2, <1>3, <1>5 DEF NexusRestart, ContainersTypeOK, LBInv, PostedCalls

-----------------------------------------------------------------------------
(* The steps of the Load Balancer *)

\* What the Load Balancer does not touch keeps its type.
LEMMA NexusUnchanged ==
  ASSUME TypeParts, UNCHANGED <<containers, memoryVars, workVars, restarts>>
  PROVE  ContainersTypeOK' /\ MemoryTypeOK' /\ WorkerTypeOK' /\ PollShape' /\ WorkerShape'
BY DEF TypeParts, ContainersTypeOK, MemoryTypeOK, WorkerTypeOK, PollShape, WorkerShape,
       memoryVars, workVars

\* Leaving the calls ends no hold.
LEMMA LeaveHolding ==
  ASSUME CallsTypeOK, NEW K, LeaveCalls(K), NEW j \in Call
  PROVE  /\ Holding(j)' <=> Holding(j)
         /\ Holding(j) => call'[j].req = call[j].req /\ call'[j].pc = call[j].pc
<1>1. call'[j] = IF j \notin K THEN call[j]
                 ELSE IF call[j].pc = "done" THEN NoCall ELSE [call[j] EXCEPT !.answer = "closed"]
  BY DEF LeaveCalls
<1>. QED  BY <1>1 DEF CallsTypeOK, Holding, NoCall

LEMMA LBType ==
  ASSUME TypeParts, NEW r \in Request, LBStep(r)
  PROVE  TypeParts'
<1>. USE DEF TypeParts
<1>1. CASE Refuse(r)
  <2>1. CallsInv' /\ LeaseShape' /\ ContainersTypeOK' /\ MemoryTypeOK' /\ WorkerTypeOK'
          /\ PollShape' /\ WorkerShape'
    BY <1>1, CallsUnchanged, NexusUnchanged DEF Refuse, nexusVars, memoryVars
  <2>. QED  BY <1>1, <2>1 DEF Refuse, LBInv, PostedCalls, LBPC
<1>2. ASSUME NEW w \in Container \cup {None}, CreateRequest(r, w)
      PROVE  TypeParts'
  <2>1. RequestsTypeOK'
    BY <1>2, RowStatementType DEF CreateRequest, CallsInv, RequestStatus, ResponseData
  <2>2. CallsInv' /\ LeaseShape'
    BY <1>2, <2>1 DEF CreateRequest, otherVars, memoryVars, CallsInv, CallsTypeOK, CallShape, At,
                      Open, LeaseShape, Holding
  <2>3. ContainersTypeOK' /\ MemoryTypeOK' /\ WorkerTypeOK' /\ PollShape' /\ WorkerShape'
    BY <1>2, NexusUnchanged DEF CreateRequest, otherVars
  <2>4. LBInv'
    <3>1. AfterInsert(KindOf[r]) \in LBPC \ {"posted"}
      BY DEF AfterInsert, LBPC
    <3>2. (IF KindOf[r] = "RequestResponse" THEN w ELSE None) \in Container \cup {None}
      OBVIOUS
    <3>. QED  BY <1>2, <3>1, <3>2 DEF CreateRequest, LBInv, PostedCalls
  <2>. QED  BY <2>2, <2>3, <2>4
<1>3. ASSUME NEW k \in Call, Post(r, k)
      PROVE  TypeParts'
  <2>1. CallsInv'
    BY <1>3, EnterType DEF Post, ProxyRequest
  <2>2. LeaseShape'
    BY <1>3 DEF Post, ProxyRequest, Enter, LeaseShape, Holding, NoCall, CallsInv, CallsTypeOK
  <2>3. ContainersTypeOK' /\ MemoryTypeOK' /\ WorkerTypeOK' /\ PollShape' /\ WorkerShape'
    BY <1>3, NexusUnchanged DEF Post, ProxyRequest, memoryVars
  <2>. QED  BY <1>3, <2>1, <2>2, <2>3 DEF Post, LBInv, PostedCalls, LBPC
<1>4. CASE Answered(r)
  <2>1. lb[r].call \in Call
    BY <1>4 DEF Answered, LBInv, PostedCalls
  <2>2. call[lb[r].call].answer \in FinalAnswer \ {"reset"}
    BY <1>4, <2>1 DEF Answered, CallsInv, CallShape
  <2>3. RequestsTypeOK'
    BY <1>4, <2>2, BodyType, RowStatementType DEF Answered, CallsInv, RequestStatus
  <2>4. CallsInv'
    BY <1>4, <2>3, LeaveType DEF Answered, otherVars, CallsInv
  <2>5. LeaseShape'
    BY <1>4, LeaveHolding DEF Answered, otherVars, memoryVars, LeaseShape, CallsInv
  <2>6. ContainersTypeOK' /\ MemoryTypeOK' /\ WorkerTypeOK' /\ PollShape' /\ WorkerShape'
    BY <1>4, NexusUnchanged DEF Answered, otherVars
  <2>7. LBInv'
    BY <1>4 DEF Answered, Ended, NoClient, LBInv, PostedCalls, LBPC
  <2>. QED  BY <2>4, <2>5, <2>6, <2>7
<1>5. CASE PostFails(r)
  <2>1. RequestsTypeOK'
    BY <1>5, RowStatementType DEF PostFails, CallsInv, RequestStatus, ResponseData
  <2>2. CallsInv'
    BY <1>5, <2>1, LeaveType DEF PostFails, otherVars, CallsInv
  <2>3. LeaseShape'
    BY <1>5, LeaveHolding DEF PostFails, otherVars, memoryVars, LeaseShape, CallsInv
  <2>4. ContainersTypeOK' /\ MemoryTypeOK' /\ WorkerTypeOK' /\ PollShape' /\ WorkerShape'
    BY <1>5, NexusUnchanged DEF PostFails, otherVars
  <2>5. LBInv'
    BY <1>5 DEF PostFails, Ended, NoClient, LBInv, PostedCalls, LBPC
  <2>. QED  BY <2>2, <2>3, <2>4, <2>5
<1>. QED  BY <1>1, <1>2, <1>3, <1>4, <1>5 DEF LBStep

LEMMA CrashAndCleanUpType ==
  ASSUME TypeParts, LBCrash \/ \E S \in SUBSET Request : CleanUpStuck(S)
  PROVE  TypeParts'
<1>. USE DEF TypeParts
<1>1. ContainersTypeOK' /\ MemoryTypeOK' /\ WorkerTypeOK' /\ PollShape' /\ WorkerShape'
  BY NexusUnchanged DEF LBCrash, CleanUpStuck, otherVars
<1>2. CASE LBCrash
  <2>1. CallsInv'
    BY <1>2, LeaveType DEF LBCrash, otherVars, CallsInv, RequestsTypeOK
  <2>2. LeaseShape'
    BY <1>2, LeaveHolding DEF LBCrash, otherVars, memoryVars, LeaseShape, CallsInv
  <2>3. LBInv'
    BY <1>2 DEF LBCrash, Ended, NoClient, LBInv, PostedCalls, LBPC
  <2>. QED  BY <1>1, <2>1, <2>2, <2>3
<1>3. CASE \E S \in SUBSET Request : CleanUpStuck(S)
  <2>1. RequestsTypeOK'
    BY <1>3, CleanUpType DEF CleanUpStuck, CallsInv
  <2>2. CallsInv' /\ LeaseShape' /\ LBInv'
    BY <1>3, <2>1 DEF CleanUpStuck, otherVars, memoryVars, CallsInv, CallsTypeOK, CallShape, At,
                      Open, LeaseShape, Holding, LBInv, PostedCalls
  <2>. QED  BY <1>1, <2>2
<1>. QED  BY <1>2, <1>3

\* The typing invariant is inductive.
LEMMA NextTypeParts == TypeParts /\ [Next]_vars => TypeParts'
<1>. SUFFICES ASSUME TypeParts, [Next]_vars
              PROVE  TypeParts'
  OBVIOUS
<1>1. CASE Next
  BY <1>1, ProxyType, PollType, WorkerType, FleetType, RestartType, LBType, CrashAndCleanUpType
  DEF Next, NexusNext
<1>2. CASE UNCHANGED vars
  <2>1. UNCHANGED <<callVars, lease, containers, memoryVars, workVars, restarts, lb>>
    BY <1>2 DEF vars, nexusVars, memoryVars
  <2>. QED  BY <2>1, CallsUnchanged, NexusUnchanged DEF TypeParts, LBInv, PostedCalls
<1>. QED  BY <1>1, <1>2

\* Type correctness of the Load Balancer, the Nexus and both tables.
THEOREM TypeCorrect == Spec => []TypeOK
<1>1. TypeParts => TypeOK
  BY DEF TypeParts, TypeOK, NexusTypeOK, CallsInv, MemoryTypeOK, WorkerTypeOK, LBInv
<1>2. Spec => []TypeParts
  BY InitTypeParts, NextTypeParts, PTL DEF Spec
<1>. QED  BY <1>1, <1>2, PTL
=============================================================================
