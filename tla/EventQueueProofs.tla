-------------------------- MODULE EventQueueProofs --------------------------
(***************************************************************************)
(* Proofs about EventQueue for any number of Events, activations, workers, *)
(* retries and restarts.                                                   *)
(***************************************************************************)
EXTENDS EventQueue, CallsProofs

WorkTypeOK ==
  /\ copies \in [Request -> Nat] /\ executing \in [Request -> Nat]
  /\ reports \in [Request -> Nat]
  /\ ran \subseteq Request /\ restarts \in 0..MaxRestarts

QueueTypeOK == task \in [Call -> Request \cup {None}] /\ enqueued \subseteq Request

TypeParts == CallsInv /\ WorkTypeOK /\ QueueTypeOK

LEMMA InitTypeParts == Init => TypeParts
BY CallType, NoRequestIsNone
DEF Init, InvocationInit, RequestsInit, CallsInit, TypeParts, CallsInv, RequestsTypeOK,
    CallsTypeOK, CallShape, WorkTypeOK, QueueTypeOK, NoRow, NoCall, At, Open, RequestStatus,
    ResponseData, CheckedOut, CallPC, Answer

\* A statement on rows that concerns no activation.
LEMMA RowsOnly ==
  ASSUME CallsInv, RequestsTypeOK', UNCHANGED <<response_events, signalled, call>>
  PROVE  CallsInv'
BY DEF CallsInv, CallsTypeOK, CallShape, At, Open

-----------------------------------------------------------------------------
(* The Nexus *)

LEMMA ServiceType ==
  ASSUME TypeParts, ServiceStep
  PROVE  TypeParts'
<1>. USE DEF TypeParts
<1>1. QueueTypeOK'
  BY DEF ServiceStep, queueVars, QueueTypeOK
<1>2. ASSUME NEW k \in Call, CallStep(k) \/ TimePasses(k)
      PROVE  CallsInv' /\ WorkTypeOK'
  <2>1. CallsInv'
    BY <1>2, RequestSideType DEF CallStep, TimePasses
  <2>2. WorkTypeOK'
    BY <1>2 DEF CallStep, TimePasses, workVars, WorkTypeOK
  <2>. QED  BY <2>1, <2>2
<1>3. ASSUME NEW k \in Call, FindWorker(k)
      PROVE  CallsInv' /\ WorkTypeOK'
  <2>1. CallsInv'
    BY <1>3, GotoType DEF FindWorker, At, Open, CallPC
  <2>2. WorkTypeOK'
    <3>1. call[k].req \in Request
      BY <1>3 DEF FindWorker, CallsInv, CallShape, At, Open
    <3>2. copies[call[k].req] + 1 \in Nat
      BY <3>1 DEF WorkTypeOK
    <3>. QED  BY <1>3, <3>1, <3>2 DEF FindWorker, WorkTypeOK
  <2>. QED  BY <2>1, <2>2
<1>4. ASSUME NEW r \in Request, WorkStep(r)
      PROVE  CallsInv' /\ WorkTypeOK'
  <2>1. WorkTypeOK'
    BY <1>4 DEF WorkStep, Deliver, Revert, WorkerDies, Outcome, WakeCaller, WorkTypeOK
  <2>2. CASE UNCHANGED callVars
    BY <2>1, <2>2, RowsOnly DEF callVars, CallsInv, RequestsTypeOK
  <2>3. CASE Revert(r) \/ Outcome(r)
    <3>1. RequestsTypeOK'
      BY <2>3, RowStatementType DEF Revert, Outcome, CallsInv, RequestStatus, ResponseData
    <3>. QED  BY <2>1, <2>3, <3>1, RowsOnly DEF Revert, Outcome
  <2>4. CASE WakeCaller(r)
    BY <2>1, <2>4, SetResponseEventType DEF WakeCaller
  <2>. QED  BY <1>4, <2>1, <2>2, <2>3, <2>4 DEF WorkStep, Deliver, WorkerDies
<1>5. ASSUME NexusRestart
      PROVE  CallsInv' /\ WorkTypeOK'
  <2>1. CallsInv'
    BY <1>5, ForgetType DEF NexusRestart
  <2>2. WorkTypeOK'
    BY <1>5, CallType DEF NexusRestart, WorkTypeOK
  <2>. QED  BY <2>1, <2>2
<1>. QED  BY <1>1, <1>2, <1>3, <1>4, <1>5 DEF ServiceStep, ServiceNext

-----------------------------------------------------------------------------
(* The handler, its tasks and the cleanup *)

\* A task that ends without an answer requeues its row.
LEMMA RequeueType ==
  ASSUME RequestsTypeOK, NEW r \in Request, RetryRequest(r)
  PROVE  RequestsTypeOK'
<1>. DEFINE Row == [status : RequestStatus, retries : Nat, data : ResponseData, out : CheckedOut]
<1>1. requests[r] \in Row
  BY DEF RequestsTypeOK
<1>2. OneMore(requests[r].retries) \in Nat
  BY <1>1 DEF OneMore
<1>3. (IF requests[r].retries >= RetryEventCount THEN "failed" ELSE "pending") \in RequestStatus
  BY DEF RequestStatus
<1>4. requests'[r] \in Row
  BY <1>1, <1>2, <1>3 DEF RequestsTypeOK, RetryRequest, ResponseData, CheckedOut
<1>5. ASSUME NEW q \in Request
      PROVE  requests'[q] \in Row
  BY <1>4 DEF RequestsTypeOK, RetryRequest
<1>. QED  BY <1>5 DEF RequestsTypeOK, RetryRequest

LEMMA TaskType ==
  ASSUME TypeParts, NEW k \in Call, TaskAnswered(k) \/ TaskRetries(k)
  PROVE  TypeParts'
<1>. USE DEF TypeParts
<1>1. task[k] \in Request
  BY DEF TaskAnswered, TaskRetries, QueueTypeOK
<1>2. RequestsTypeOK'
  <2>1. CASE TaskAnswered(k)
    <3>1. call[k].answer \in FinalAnswer \ {"reset"}
      BY <2>1 DEF TaskAnswered, CallsInv, CallShape
    <3>. QED  BY <1>1, <2>1, <3>1, BodyType, RowStatementType
              DEF TaskAnswered, CallsInv, RequestStatus
  <2>2. CASE TaskRetries(k)
    BY <1>1, <2>2, RequeueType DEF TaskRetries, CallsInv
  <2>. QED  BY <2>1, <2>2
<1>3. CallsInv'
  BY <1>2, LeaveType DEF TaskAnswered, TaskRetries, CallsInv
<1>4. WorkTypeOK' /\ QueueTypeOK'
  BY DEF TaskAnswered, TaskRetries, workVars, WorkTypeOK, QueueTypeOK
<1>. QED  BY <1>3, <1>4

LEMMA QueueType ==
  ASSUME TypeParts,
         \/ \E S \in SUBSET Request : GetEnqueuedEvents(S) \/ CleanUpStuck(S)
         \/ \E r \in Request : Accept(r) \/ AgeCheckout(r) \/ TaskRefused(r)
  PROVE  TypeParts'
<1>. USE DEF TypeParts
<1>1. WorkTypeOK' /\ QueueTypeOK' /\ UNCHANGED <<response_events, signalled, call>>
  BY DEF GetEnqueuedEvents, CleanUpStuck, Accept, AgeCheckout, TaskRefused, workVars, queueVars,
         WorkTypeOK, QueueTypeOK
<1>2. ASSUME NEW S \in SUBSET Request, GetEnqueuedEvents(S)
      PROVE  RequestsTypeOK'
  BY <1>2 DEF GetEnqueuedEvents, CallsInv, RequestsTypeOK, CheckedOut
<1>3. ASSUME NEW S \in SUBSET Request, CleanUpStuck(S)
      PROVE  RequestsTypeOK'
  BY <1>3, CleanUpType DEF CleanUpStuck, CallsInv
<1>4. ASSUME NEW r \in Request, Accept(r)
      PROVE  RequestsTypeOK'
  BY <1>4, RowStatementType DEF Accept, CallsInv, RequestStatus, ResponseData
<1>5. ASSUME NEW r \in Request, AgeCheckout(r)
      PROVE  RequestsTypeOK'
  BY <1>5 DEF AgeCheckout, CallsInv, RequestsTypeOK, CheckedOut
<1>6. ASSUME NEW r \in Request, TaskRefused(r)
      PROVE  RequestsTypeOK'
  BY <1>6, RequeueType DEF TaskRefused, CallsInv
<1>. QED  BY <1>1, <1>2, <1>3, <1>4, <1>5, <1>6, RowsOnly

LEMMA PostAndRestartType ==
  ASSUME TypeParts,
         EventsHandlerRestart \/ \E r \in Request, k \in Call : TaskPosts(r, k)
  PROVE  TypeParts'
<1>. USE DEF TypeParts
<1>1. CASE EventsHandlerRestart
  <2>1. CallsInv'
    BY <1>1, LeaveType DEF EventsHandlerRestart, CallsInv, RequestsTypeOK
  <2>2. WorkTypeOK' /\ QueueTypeOK'
    BY <1>1, CallType DEF EventsHandlerRestart, WorkTypeOK, QueueTypeOK
  <2>. QED  BY <2>1, <2>2
<1>2. ASSUME NEW r \in Request, NEW k \in Call, TaskPosts(r, k)
      PROVE  TypeParts'
  <2>1. CallsInv'
    BY <1>2, EnterType DEF TaskPosts, ProxyRequest
  <2>2. WorkTypeOK' /\ QueueTypeOK'
    BY <1>2 DEF TaskPosts, ProxyRequest, workVars, WorkTypeOK, QueueTypeOK
  <2>. QED  BY <2>1, <2>2
<1>. QED  BY <1>1, <1>2

LEMMA NextTypeParts == TypeParts /\ [Next]_vars => TypeParts'
<1>. SUFFICES ASSUME TypeParts, [Next]_vars
              PROVE  TypeParts'
  OBVIOUS
<1>1. CASE Next
  BY <1>1, ServiceType, TaskType, QueueType, PostAndRestartType DEF Next
<1>2. CASE UNCHANGED vars
  BY <1>2, RowsOnly DEF vars, serviceVars, callVars, workVars, queueVars, TypeParts, CallsInv,
                        RequestsTypeOK, WorkTypeOK, QueueTypeOK
<1>. QED  BY <1>1, <1>2

LEMMA TypePartsAlways == Spec => []TypeParts
BY InitTypeParts, NextTypeParts, PTL DEF Spec

\* Type correctness of the events handler, its rows and the service it uses.
THEOREM QueueTypeCorrect == Spec => []TypeOK
<1>1. TypeParts => TypeOK
  BY DEF TypeParts, TypeOK, InvocationTypeOK, CallsInv, WorkTypeOK, QueueTypeOK
<1>. QED  BY <1>1, TypePartsAlways, PTL

-----------------------------------------------------------------------------
(* Retries.  A row becomes failed by the function's error, by a task that has used up *)
(* retry_event_count, or by a cleanup that has used up retry_request_count.           *)

Exhausted(row) == row.retries >= Lesser(RetryEventCount, RetryRequestCount)

GivenUp(r, row) == KindOf[r] = "Event" /\ row.status = "failed" /\ row.data # "error"

\* A statement leaves a row as it was, but for its check-out time, or does not give it
\* up, or gives it up rightly.
Rightly(r) ==
  \/ /\ requests'[r].status = requests[r].status /\ requests'[r].data = requests[r].data
     /\ requests'[r].retries = requests[r].retries
  \/ GivenUp(r, requests'[r]) => Exhausted(requests'[r])

LEMMA StatementRightly ==
  ASSUME RequestsTypeOK, NEW q \in Request, NEW d \in ResponseData, NEW r \in Request,
         \/ InsertRequest(q) \/ StoreProcessed(q, d) \/ UpdateRequest(q, "pending", d)
         \/ UpdateRequest(q, "in_progress", d) \/ UpdateRequest(q, "failed", "error")
  PROVE  Rightly(r)
BY DEF RequestsTypeOK, InsertRequest, StoreProcessed, UpdateRequest, NoRow, Rightly, GivenUp

LEMMA RetryRightly ==
  ASSUME RequestsTypeOK, NEW q \in Request, RetryRequest(q), NEW r \in Request
  PROVE  Rightly(r)
<1>1. CASE r # q
  BY <1>1 DEF RequestsTypeOK, RetryRequest, Rightly
<1>2. CASE r = q
  <2>1. requests'[r].retries = OneMore(requests[r].retries)
    BY <1>2 DEF RequestsTypeOK, RetryRequest
  <2>2. GivenUp(r, requests'[r]) => requests[r].retries >= RetryEventCount
    BY <1>2 DEF RequestsTypeOK, RetryRequest, GivenUp
  <2>3. requests[r].retries \in Nat
    BY DEF RequestsTypeOK
  <2>. QED  BY <2>1, <2>2, <2>3, RetryType DEF OneMore, Rightly, Exhausted, Lesser
<1>. QED  BY <1>1, <1>2

LEMMA CleanUpRightly ==
  ASSUME RequestsTypeOK, NEW S \in SUBSET Request, DeleteStuck(S), NEW r \in Request
  PROVE  Rightly(r)
<1>. requests[r].retries \in Nat
  BY DEF RequestsTypeOK
<1>1. CASE r \in S /\ KindOf[r] = "Event" /\ requests[r].retries < RetryRequestCount
  <2>1. requests'[r].status = "pending"
    BY <1>1 DEF DeleteStuck, RequestsTypeOK
  <2>. QED  BY <2>1 DEF Rightly, GivenUp
<1>2. CASE r \in S /\ KindOf[r] # "Event"
  BY <1>2 DEF Rightly, GivenUp
<1>3. CASE r \in S /\ ~(requests[r].retries < RetryRequestCount)
  <2>1. requests'[r].retries = requests[r].retries
    BY <1>3 DEF DeleteStuck, RequestsTypeOK
  <2>. QED  BY <1>3, <2>1, RetryType DEF Rightly, Exhausted, Lesser
<1>4. CASE r \notin S
  BY <1>4 DEF DeleteStuck, Rightly
<1>. QED  BY <1>1, <1>2, <1>3, <1>4

\* Every step treats every row rightly.
LEMMA StepRightly ==
  ASSUME TypeParts, Next, NEW r \in Request
  PROVE  Rightly(r)
<1>. USE DEF TypeParts, CallsInv
<1>1. CASE UNCHANGED requests
  BY <1>1 DEF Rightly
<1>2. ASSUME NEW k \in Call, Bind(k)
      PROVE  Rightly(r)
  BY <1>2, StatementRightly DEF Bind, At, CallShape, Open, ResponseData
<1>3. ASSUME NEW q \in Request, Revert(q) \/ Outcome(q) \/ Accept(q)
      PROVE  Rightly(r)
  BY <1>3, StatementRightly DEF Revert, Outcome, Accept, ResponseData
<1>4. ASSUME NEW k \in Call, TaskAnswered(k)
      PROVE  Rightly(r)
  <2>1. task[k] \in Request /\ call[k].answer \in FinalAnswer \ {"reset"}
    BY <1>4 DEF TaskAnswered, QueueTypeOK, CallShape
  <2>. QED  BY <1>4, <2>1, BodyType, StatementRightly DEF TaskAnswered
<1>5. ASSUME NEW k \in Call, TaskRetries(k)
      PROVE  Rightly(r)
  BY <1>5, RetryRightly DEF TaskRetries, QueueTypeOK
<1>6. ASSUME NEW q \in Request, TaskRefused(q)
      PROVE  Rightly(r)
  BY <1>6, RetryRightly DEF TaskRefused
<1>7. ASSUME NEW S \in SUBSET Request, CleanUpStuck(S)
      PROVE  Rightly(r)
  BY <1>7, CleanUpRightly DEF CleanUpStuck
<1>8. ASSUME NEW S \in SUBSET Request, GetEnqueuedEvents(S)
      PROVE  Rightly(r)
  BY <1>8 DEF GetEnqueuedEvents, RequestsTypeOK, Rightly
<1>9. ASSUME NEW q \in Request, AgeCheckout(q)
      PROVE  Rightly(r)
  BY <1>9 DEF AgeCheckout, RequestsTypeOK, Rightly
<1>10. ASSUME NEW k \in Call, Expire(k) \/ StartWaiting(k) \/ Wake(k) \/ Check(k) \/ TimeUp(k)
       PROVE  UNCHANGED requests
  BY <1>10 DEF Expire, StartWaiting, Wake, Check, TimeUp, Goto, Finish
<1>. QED  BY <1>1, <1>2, <1>3, <1>4, <1>5, <1>6, <1>7, <1>8, <1>9, <1>10
          DEF Next, ServiceStep, ServiceNext, CallStep, TimePasses, FindWorker, Goto, WorkStep,
              Deliver, WorkerDies, WakeCaller, SetResponseEvent, NexusRestart, ForgetCalls,
              callVars, TaskPosts, ProxyRequest, Enter, EventsHandlerRestart

\* An Event is given up only by its function's error or after the retries one of the two
\* counters grants it: RetryRequest and DeleteStuck count on the same column.
THEOREM RetriesUsedUp == Spec => []GivenUpAfterRetries
<1>. DEFINE Inv == \A r \in Request : GivenUp(r, requests[r]) => Exhausted(requests[r])
<1>1. Init => Inv
  BY DEF Init, InvocationInit, RequestsInit, NoRow, GivenUp
<1>2. TypeParts /\ Inv /\ [Next]_vars => Inv'
  <2>. SUFFICES ASSUME TypeParts, Inv, [Next]_vars, NEW r \in Request, GivenUp(r, requests'[r])
                PROVE  Exhausted(requests'[r])
    OBVIOUS
  <2>1. CASE Next
    BY <2>1, StepRightly DEF Rightly, GivenUp, Exhausted
  <2>2. CASE UNCHANGED vars
    BY <2>2 DEF vars, serviceVars, callVars
  <2>. QED  BY <2>1, <2>2
<1>3. Inv => GivenUpAfterRetries
  BY DEF GivenUp, Exhausted, GivenUpAfterRetries
<1>. QED  BY <1>1, <1>2, <1>3, TypePartsAlways, PTL DEF Spec
=============================================================================
