----------------------------- MODULE Invocation -----------------------------
(***************************************************************************)
(* What the Nexus promises the Load Balancer and the events handler: how   *)
(* an activation of proxy_request and the workers it reaches may change    *)
(* the request's row, with no containers, addresses or polls.  A request   *)
(* that was bound exists as copies: handed over but not yet received, or   *)
(* executing in a worker.  LoadBalancer's runs check that the Nexus        *)
(* implements this; EventQueue builds on it.                               *)
(***************************************************************************)
EXTENDS Calls

CONSTANT Workers      \* containers that may be waiting for work

ASSUME WorkersType == Workers \in Nat

VARIABLES
  copies,             \* request -> payloads on their way to a worker
  executing,          \* request -> workers running it
  reports,            \* request -> outcomes stored, caller not yet woken
  ran,                \* history: requests some worker has received
  restarts            \* deaths of control-plane processes so far

workVars == <<copies, executing, reports, ran, restarts>>
serviceVars == <<callVars, workVars>>

InvocationTypeOK ==
  /\ RequestsTypeOK /\ CallsTypeOK
  /\ copies \in [Request -> Nat] /\ executing \in [Request -> Nat]
  /\ reports \in [Request -> Nat]
  /\ ran \subseteq Request /\ restarts \in 0..MaxRestarts

InvocationInit ==
  /\ RequestsInit /\ CallsInit
  /\ copies = [r \in Request |-> 0] /\ executing = [r \in Request |-> 0]
  /\ reports = [r \in Request |-> 0]
  /\ ran = {} /\ restarts = 0

ProxyRequest(k, r) == Enter(k, r) /\ UNCHANGED workVars

CallStep(k) ==
  /\ Expire(k) \/ Bind(k) \/ StartWaiting(k) \/ Wake(k) \/ Check(k)
  /\ UNCHANGED workVars

TimePasses(k) == TimeUp(k) /\ UNCHANGED workVars

InFlight(r) == copies[r] + executing[r] + reports[r]

\* A worker of the function was waiting, and each takes one copy at a time: the payload
\* is put where it finds it.
FindWorker(k) ==
  /\ At(k, "claim")
  /\ InFlight(call[k].req) < Workers
  /\ Goto(k, "bind")
  /\ copies' = [copies EXCEPT ![call[k].req] = @ + 1]
  /\ UNCHANGED <<executing, reports, ran, restarts>>

Deliver(r) ==
  /\ copies[r] > 0
  /\ copies' = [copies EXCEPT ![r] = @ - 1]
  /\ executing' = [executing EXCEPT ![r] = @ + 1]
  /\ ran' = ran \cup {r}
  /\ UNCHANGED <<callVars, reports, restarts>>

\* The worker turned out to be gone.
Revert(r) ==
  /\ copies[r] > 0
  /\ copies' = [copies EXCEPT ![r] = @ - 1]
  /\ UpdateRequest(r, "pending", "worker_disconnected")
  /\ UNCHANGED <<response_events, signalled, call, executing, reports, ran, restarts>>

\* A worker dies with the request.
WorkerDies(r) ==
  /\ executing[r] > 0
  /\ executing' = [executing EXCEPT ![r] = @ - 1]
  /\ UNCHANGED <<callVars, copies, reports, ran, restarts>>

Outcome(r) ==
  /\ executing[r] > 0
  /\ StoreProcessed(r, "result") \/ UpdateRequest(r, "failed", "error")
  /\ executing' = [executing EXCEPT ![r] = @ - 1]
  /\ reports' = [reports EXCEPT ![r] = @ + 1]
  /\ UNCHANGED <<response_events, signalled, call, copies, ran, restarts>>

WakeCaller(r) ==
  /\ reports[r] > 0
  /\ SetResponseEvent(r)
  /\ reports' = [reports EXCEPT ![r] = @ - 1]
  /\ UNCHANGED <<copies, executing, ran, restarts>>

\* Payloads and handlers are lost; a running function goes on.
NexusRestart ==
  /\ restarts < MaxRestarts
  /\ restarts' = restarts + 1
  /\ ForgetCalls
  /\ copies' = [r \in Request |-> 0] /\ reports' = [r \in Request |-> 0]
  /\ UNCHANGED <<executing, ran>>

WorkStep(r) ==
  Deliver(r) \/ Revert(r) \/ WorkerDies(r) \/ Outcome(r) \/ WakeCaller(r)

ServiceNext ==
  \/ \E k \in Call : CallStep(k) \/ TimePasses(k) \/ FindWorker(k)
  \/ \E r \in Request : WorkStep(r)
  \/ NexusRestart

-----------------------------------------------------------------------------
(* The statements a client of the service may run, taking answers or hanging up. *)
ClientStep ==
  /\ \/ \E r \in Request : \/ InsertRequest(r)
                           \/ UpdateRequest(r, "failed", "text")
                           \/ \E d \in ResponseData : StoreProcessed(r, d)
     \/ \E S \in SUBSET Request : DeleteStuck(S)
     \/ UNCHANGED requests
  /\ \E K \in SUBSET {k \in Call : ~At(k, "idle")} : LeaveCalls(K)
  /\ UNCHANGED <<response_events, signalled, workVars>>

InvocationSpec ==
  /\ InvocationInit
  /\ [][\/ ServiceNext
        \/ \E k \in Call, r \in Request : ProxyRequest(k, r)
        \/ ClientStep]_serviceVars
=============================================================================
