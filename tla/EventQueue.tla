----------------------------- MODULE EventQueue -----------------------------
(***************************************************************************)
(* handle_lambda_events_queue.py: the consumer of Event requests.  Every   *)
(* second it checks out pending rows and starts a task for each, which     *)
(* posts the request to the Nexus and settles or requeues the row by what  *)
(* comes back.  Runs beside LoadBalancer, Nexus and the Scaler's cleanup.  *)
(***************************************************************************)
EXTENDS Invocation

CONSTANT GlobalScaleLimit     \* individual_lambda_scale_limit

ASSUME LimitType == GlobalScaleLimit \in Nat

VARIABLES
  task,               \* activation -> the Event whose task waits for its answer
  enqueued            \* Events checked out whose task has not posted yet

queueVars == <<task, enqueued>>
vars == <<serviceVars, queueVars>>

TypeOK ==
  /\ InvocationTypeOK
  /\ task \in [Call -> Request \cup {None}]
  /\ enqueued \subseteq Request

Init == InvocationInit /\ task = [k \in Call |-> None] /\ enqueued = {}

\* The Load Balancer has accepted an invocation: its row is in the table.
Accept(r) ==
  /\ requests[r].status = "absent"
  /\ InsertRequest(r)
  /\ UNCHANGED <<response_events, signalled, call, workVars, queueVars>>

\* get_enqueued_events: one statement checks out, for each function, as many pending
\* rows as its limit leaves room for; a row counts as active while it is in_progress
\* or was checked out less than a minute ago.
OfFn(f, S) == {r \in S : FnOf[r] = f}

Active ==
  {r \in Request : \/ requests[r].status = "in_progress"
                   \/ requests[r].status = "pending" /\ requests[r].out = "fresh"}

Eligible ==
  {r \in Request : /\ requests[r].status = "pending" /\ KindOf[r] = "Event"
                   /\ requests[r].out \in {"null", "expired"}}

Lesser(m, n) == IF m < n THEN m ELSE n

Quota(f) ==
  LET active == Cardinality(OfFn(f, Active)) IN
  IF active >= GlobalScaleLimit THEN 0
  ELSE Lesser(Cardinality(OfFn(f, Eligible)), GlobalScaleLimit - active)

GetEnqueuedEvents(S) ==
  /\ S # {} /\ S \subseteq Eligible
  /\ \A f \in Fn : Cardinality(OfFn(f, S)) = Quota(f)
  /\ requests' = [r \in Request |->
       IF r \in S THEN [requests[r] EXCEPT !.out = "fresh"] ELSE requests[r]]
  /\ enqueued' = enqueued \cup S
  /\ UNCHANGED <<response_events, signalled, call, workVars, task>>

\* checked_out_at passes one minute, then stuck_interval.
AgeCheckout(r) ==
  /\ requests[r].out \in {"fresh", "cooling"}
  /\ requests' = [requests EXCEPT ![r].out = IF @ = "fresh" THEN "cooling" ELSE "expired"]
  /\ UNCHANGED <<response_events, signalled, call, workVars, queueVars>>

TaskPosts(r, k) ==
  /\ r \in enqueued /\ task[k] = None
  /\ enqueued' = enqueued \ {r}
  /\ task' = [task EXCEPT ![k] = r]
  /\ ProxyRequest(k, r)

\* Any HTTP answer settles the row: the status code is not looked at.
TaskAnswered(k) ==
  /\ task[k] # None
  /\ At(k, "done") /\ call[k].answer # "reset"
  /\ StoreProcessed(task[k], Body(call[k].answer))
  /\ task' = [task EXCEPT ![k] = None]
  /\ LeaveCalls({k})
  /\ UNCHANGED <<response_events, signalled, workVars, enqueued>>

\* No connection, a reset one, or no answer within LAMBDA_TIMEOUT + 5 seconds.
TaskRetries(k) ==
  /\ task[k] # None
  /\ (call[k].late /\ ~At(k, "done")) \/ call[k].answer = "reset"
  /\ RetryRequest(task[k])
  /\ task' = [task EXCEPT ![k] = None]
  /\ LeaveCalls({k})
  /\ UNCHANGED <<response_events, signalled, workVars, enqueued>>

TaskRefused(r) ==
  /\ r \in enqueued
  /\ RetryRequest(r)
  /\ enqueued' = enqueued \ {r}
  /\ UNCHANGED <<response_events, signalled, call, workVars, task>>

\* The handler dies and is started again; its tasks are lost, its rows are not.
EventsHandlerRestart ==
  /\ restarts < MaxRestarts
  /\ restarts' = restarts + 1
  /\ task' = [k \in Call |-> None] /\ enqueued' = {}
  /\ LeaveCalls({k \in Call : task[k] # None})
  /\ UNCHANGED <<requests, response_events, signalled, copies, executing, reports, ran>>

\* delete_stuck_requests of the Scaler.
CleanUpStuck(S) ==
  /\ S # {} /\ \A r \in S : MayBeStuck(r)
  /\ DeleteStuck(S)
  /\ UNCHANGED <<response_events, signalled, call, workVars, queueVars>>

\* The Nexus and its workers go on by themselves.
ServiceStep == ServiceNext /\ UNCHANGED queueVars
HandlerStep(k) == CallStep(k) /\ UNCHANGED queueVars
PollStep(r) == (Deliver(r) \/ Revert(r) \/ WakeCaller(r)) /\ UNCHANGED queueVars

Next ==
  \/ ServiceStep
  \/ \E S \in SUBSET Request : GetEnqueuedEvents(S) \/ CleanUpStuck(S)
  \/ \E r \in Request : Accept(r) \/ AgeCheckout(r) \/ TaskRefused(r)
                        \/ \E k \in Call : TaskPosts(r, k)
  \/ \E k \in Call : TaskAnswered(k) \/ TaskRetries(k)
  \/ EventsHandlerRestart

Spec == Init /\ [][Next]_vars

\* Time, handlers and tasks go on; no worker has to be found or to answer.
Fairness ==
  /\ WF_vars(\E S \in SUBSET Request : GetEnqueuedEvents(S))
  /\ \A r \in Request :
       /\ WF_vars(AgeCheckout(r))
       /\ WF_vars(CleanUpStuck({r}))
       /\ WF_vars(TaskRefused(r) \/ \E k \in Call : TaskPosts(r, k))
       /\ WF_vars(PollStep(r))
  /\ \A k \in Call :
       /\ WF_vars(HandlerStep(k)) /\ WF_vars(TimePasses(k) /\ UNCHANGED queueVars)
       /\ WF_vars(TaskAnswered(k) \/ TaskRetries(k))

FairSpec == Spec /\ Fairness

-----------------------------------------------------------------------------
(* Properties *)

\* An Event that was given up without the function's own error has used up the
\* retries one of the two counters grants it.
GivenUpAfterRetries ==
  \A r \in Request :
    KindOf[r] = "Event" /\ requests[r].status = "failed" /\ requests[r].data # "error"
      => requests[r].retries >= Lesser(RetryEventCount, RetryRequestCount)

\* At-least-once: an Event marked processed has run to the end of its function, and
\* its row holds the result; it is not settled by a call that gave up waiting.
ProcessedHasOutcome ==
  \A r \in Request : requests[r].status = "processed" => requests[r].data = "result"

\* A processed row is settled: no late answer, timeout or retry reopens it.
ProcessedIsFinal ==
  [][\A r \in Request :
       requests[r].status = "processed" => requests'[r].status = "processed"]_vars

\* Every Event is settled for good in the end, whatever failed on the way, unless
\* workers keep vanishing with its payload: such a hand-over returns the row to the
\* queue without counting as a retry.
EventsSettle ==
  <>[][\A r \in Request : ~Revert(r)]_vars =>
    \A r \in Request :
      requests[r].status # "absent" ~> [](requests[r].status \in {"processed", "failed"})
=============================================================================
