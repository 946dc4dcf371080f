---------------------------- MODULE CallsProofs ----------------------------
(***************************************************************************)
(* Lemmas about the table of requests and the request side of              *)
(* proxy_request, for LoadBalancerProofs and EventQueueProofs.             *)
(***************************************************************************)
EXTENDS Calls, TLAPS

-----------------------------------------------------------------------------
(* What is stored in a row is well typed because of the answers an activation can *)
(* end with.                                                                      *)

FinalAnswer == ResponseData \cup {"504", "500", "reset"}

Open(k) == call[k].pc \notin {"idle", "done"}

CallShape ==
  \A k \in Call : /\ At(k, "done") => call[k].answer \in FinalAnswer
                  /\ Open(k) => call[k].req \in Request

CallsInv == RequestsTypeOK /\ CallsTypeOK /\ CallShape

\* The single-row statements keep the table's type.
LEMMA RowStatementType ==
  ASSUME RequestsTypeOK, NEW r \in Request, NEW s \in RequestStatus, NEW d \in ResponseData,
         InsertRequest(r) \/ UpdateRequest(r, s, d) \/ StoreProcessed(r, d)
  PROVE  RequestsTypeOK'
BY DEF RequestsTypeOK, InsertRequest, UpdateRequest, StoreProcessed, NoRow, RequestStatus,
       ResponseData, CheckedOut

\* So does the cleanup.
LEMMA CleanUpType ==
  ASSUME RequestsTypeOK, NEW S \in SUBSET Request, DeleteStuck(S)
  PROVE  RequestsTypeOK'
<1>. DEFINE retried == {r \in S : KindOf[r] = "Event" /\ requests[r].retries < RetryRequestCount}
            Row == [status : RequestStatus, retries : Nat, data : ResponseData, out : CheckedOut]
<1>1. ASSUME NEW r \in Request
      PROVE  requests'[r] \in Row
  <2>. requests[r] \in Row
    BY DEF RequestsTypeOK
  <2>1. CASE r \in retried
    <3>1. requests'[r] = [requests[r] EXCEPT !.status = "pending",
                                             !.retries = requests[r].retries + 1]
      BY <2>1 DEF DeleteStuck
    <3>2. requests[r].retries + 1 \in Nat
      OBVIOUS
    <3>. QED  BY <3>1, <3>2 DEF RequestStatus
  <2>2. CASE r \in S /\ r \notin retried
    <3>1. requests'[r] = [requests[r] EXCEPT !.status = "failed"]
      BY <2>2 DEF DeleteStuck
    <3>. QED  BY <3>1 DEF RequestStatus
  <2>3. CASE r \notin S
    BY <2>3 DEF DeleteStuck
  <2>. QED  BY <2>1, <2>2, <2>3
<1>. QED  BY <1>1 DEF RequestsTypeOK, DeleteStuck

\* A step of an activation that only moves it keeps the types of the request side.
LEMMA GotoType ==
  ASSUME CallsInv, NEW k \in Call, Open(k), NEW label \in CallPC \ {"done"}, Goto(k, label)
  PROVE  CallsInv'
BY DEF CallsInv, CallsTypeOK, RequestsTypeOK, CallShape, Open, Goto, At, CallPC

\* An activation ends with an answer its client can store.
LEMMA FinishType ==
  ASSUME CallsInv, NEW k \in Call, Open(k), NEW answer \in FinalAnswer, Finish(k, answer)
  PROVE  CallsInv'
BY DEF CallsInv, CallsTypeOK, RequestsTypeOK, CallShape, Open, FinalAnswer, Finish, At, CallPC,
       NoCall, Answer

\* A new activation knows its request.
LEMMA EnterType ==
  ASSUME CallsInv, NEW k \in Call, NEW r \in Request, Enter(k, r)
  PROVE  CallsInv'
BY DEF CallsInv, CallsTypeOK, RequestsTypeOK, CallShape, Open, Enter, At, CallPC, NoCall, Answer

\* Clients that take their answers or hang up.
LEMMA LeaveType ==
  ASSUME CallsTypeOK, CallShape, NEW K, LeaveCalls(K), UNCHANGED <<response_events, signalled>>
  PROVE  CallsTypeOK' /\ CallShape'
BY DEF CallsTypeOK, CallShape, Open, LeaveCalls, At, CallPC, NoCall, Answer

\* The steps of proxy_request that concern the row and the response event.
LEMMA RequestSideType ==
  ASSUME CallsInv, NEW k \in Call,
         Expire(k) \/ Bind(k) \/ StartWaiting(k) \/ Wake(k) \/ Check(k) \/ TimeUp(k)
  PROVE  CallsInv'
<1>1. CASE Expire(k)
  BY <1>1, FinishType DEF Expire, At, Open, FinalAnswer
<1>2. CASE Bind(k)
  <2>1. RequestsTypeOK'
    BY <1>2, RowStatementType
    DEF CallsInv, CallShape, Open, Bind, At, RequestStatus, ResponseData
  <2>2. CallsTypeOK' /\ CallShape'
    BY <1>2 DEF CallsInv, CallsTypeOK, CallShape, Open, Bind, At, CallPC
  <2>. QED  BY <2>1, <2>2 DEF CallsInv
<1>3. CASE StartWaiting(k)
  <2>1. CASE response_events[call[k].req] = None
    BY <1>3, <2>1, FinishType DEF StartWaiting, At, Open, FinalAnswer
  <2>2. CASE response_events[call[k].req] # None
    BY <1>3, <2>2 DEF StartWaiting, CallsInv, CallsTypeOK, RequestsTypeOK, CallShape, Open, At,
                      CallPC
  <2>. QED  BY <2>1, <2>2
<1>4. CASE Wake(k)
  BY <1>4, GotoType DEF Wake, At, Open, CallPC
<1>5. CASE Check(k)
  <2>. requests[call[k].req].data \in ResponseData
    BY <1>5 DEF Check, CallsInv, CallShape, RequestsTypeOK, Open, At
  <2>1. CASE Goto(k, "claim")
    BY <1>5, <2>1, GotoType DEF Check, At, Open, CallPC
  <2>2. CASE \E answer \in FinalAnswer : Finish(k, answer)
    BY <1>5, <2>2, FinishType DEF Check, At, Open
  <2>. QED  BY <1>5, <2>1, <2>2 DEF Check, Reply, FinalAnswer
<1>6. CASE TimeUp(k)
  BY <1>6 DEF TimeUp, CallsInv, CallsTypeOK, RequestsTypeOK, CallShape, Open, At, CallPC
<1>. QED  BY <1>1, <1>2, <1>3, <1>4, <1>5, <1>6

\* A restart of the Nexus resets the open activations.
LEMMA ForgetType ==
  ASSUME CallsInv, ForgetCalls
  PROVE  CallsInv'
BY DEF CallsInv, CallsTypeOK, RequestsTypeOK, CallShape, Open, FinalAnswer, ForgetCalls, At,
       CallPC, NoCall, Answer

\* Waking a caller changes flags only.
LEMMA SetResponseEventType ==
  ASSUME CallsInv, NEW r \in Request, SetResponseEvent(r)
  PROVE  CallsInv'
BY DEF CallsInv, CallsTypeOK, RequestsTypeOK, CallShape, Open, SetResponseEvent, At

\* An activation that ends is open no more, and the others do not notice.
LEMMA FinishEffect ==
  ASSUME CallsTypeOK, NEW k \in Call, NEW answer, Finish(k, answer)
  PROVE  /\ call'[k].pc \in {"idle", "done"}
         /\ \A j \in Call : j # k => call'[j] = call[j]
<1>1. CASE call[k].answer = "closed"
  BY <1>1 DEF CallsTypeOK, Finish, NoCall
<1>2. CASE call[k].answer # "closed"
  BY <1>2 DEF CallsTypeOK, Finish, NoCall
<1>. QED  BY <1>1, <1>2

\* What is left in a row after an answer has been taken.
LEMMA BodyType ==
  ASSUME NEW answer \in FinalAnswer, answer # "reset"
  PROVE  Body(answer) \in ResponseData
BY DEF FinalAnswer, Body, ResponseData
=============================================================================
