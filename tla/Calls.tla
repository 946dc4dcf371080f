-------------------------------- MODULE Calls --------------------------------
(***************************************************************************)
(* The request side of proxy_request in worker_manager.py: what an         *)
(* activation does with its row and with response_events, apart from how   *)
(* it finds a worker.  Each operator is the part of a step that concerns   *)
(* the variables of this module; Nexus adds the worker side, Invocation an *)
(* abstraction of it.                                                      *)
(***************************************************************************)
EXTENDS Requests

CONSTANTS
  Call,               \* activations of proxy_request
  MaxRestarts         \* bound: deaths of control-plane processes

ASSUME CallType == None \notin Call /\ MaxRestarts \in Nat

VARIABLES
  response_events,    \* request -> the activation that created the entry's event
  signalled,          \* activation -> is the event it created set
  call                \* activation -> where it is

callVars == <<requests, response_events, signalled, call>>

CallPC == {"idle", "claim", "lookup", "probe", "ghost", "bind", "signal", "wait",
           "check", "done"}
\* "closed": the client has hung up, the answer will reach nobody.
Answer == ResponseData \cup {"none", "504", "500", "reset", "closed"}

CallsTypeOK ==
  /\ response_events \in [Request -> Call \cup {None}]
  /\ signalled \in [Call -> BOOLEAN]
  /\ call \in [Call -> [pc : CallPC, req : Request \cup {None}, on : Call \cup {None},
                        late : BOOLEAN, answer : Answer]]

NoCall == [pc |-> "idle", req |-> None, on |-> None, late |-> FALSE, answer |-> "none"]

CallsInit ==
  /\ response_events = [r \in Request |-> None]
  /\ signalled = [k \in Call |-> FALSE]
  /\ call = [k \in Call |-> NoCall]

At(k, label) == call[k].pc = label

\* A call id names an activation; it is free again once nothing refers to its event.
Named(k) ==
  \/ \E r \in Request : response_events[r] = k
  \/ \E j \in Call : call[j].on = k

Unused(k) == At(k, "idle") /\ ~Named(k)

\* The clients of the activations in K take their answers or hang up.  proxy_request
\* does not notice: an open activation runs to its end.
LeaveCalls(K) ==
  call' = [k \in Call |->
    IF k \notin K THEN call[k]
    ELSE IF call[k].pc = "done" THEN NoCall ELSE [call[k] EXCEPT !.answer = "closed"]]

\* The POST arrives: the response event is registered before the loop starts.
Enter(k, r) ==
  /\ Unused(k)
  /\ call' = [call EXCEPT ![k] = [NoCall EXCEPT !.pc = "claim", !.req = r]]
  /\ response_events' = [response_events EXCEPT ![r] = k]
  /\ signalled' = [signalled EXCEPT ![k] = FALSE]
  /\ UNCHANGED requests

\* A step inside the activation that leaves the row and the events alone.
Goto(k, label) ==
  /\ call' = [call EXCEPT ![k].pc = label]
  /\ UNCHANGED <<requests, response_events, signalled>>

\* The return or raise and its `finally`: the dictionary entry of the request is
\* popped, whichever activation put it there.
Finish(k, answer) ==
  /\ call' = [call EXCEPT ![k] = IF call[k].answer = "closed" THEN NoCall
                                 ELSE [NoCall EXCEPT !.pc = "done", !.answer = answer]]
  /\ response_events' = [response_events EXCEPT ![call[k].req] = None]
  /\ signalled' = [j \in Call |-> signalled[j] /\ Named(j)']
  /\ UNCHANGED requests

\* LAMBDA_TIMEOUT has passed since the activation started.
TimeUp(k) ==
  /\ call[k].pc \notin {"idle", "done"}
  /\ ~call[k].late
  /\ call' = [call EXCEPT ![k].late = TRUE]
  /\ UNCHANGED <<requests, response_events, signalled>>

Expire(k) == At(k, "claim") /\ call[k].late /\ Finish(k, "504")

Bind(k) ==
  /\ At(k, "bind")
  /\ UpdateRequest(call[k].req, "in_progress", "empty")
  /\ call' = [call EXCEPT ![k].pc = "signal"]
  /\ UNCHANGED <<response_events, signalled>>

\* worker_event.set() has been called; response_events[request_id] is a KeyError (500)
\* if another activation for the same request has popped the entry.
StartWaiting(k) ==
  /\ At(k, "signal")
  /\ LET j == response_events[call[k].req] IN
     IF j = None
     THEN Finish(k, "500")
     ELSE /\ call' = [call EXCEPT ![k].pc = "wait", ![k].on = j]
          /\ UNCHANGED <<requests, response_events, signalled>>

\* wait_for ends: the event is set, or LAMBDA_TIMEOUT passed since the wait began.
Wake(k) ==
  /\ At(k, "wait")
  /\ signalled[call[k].on] \/ call[k].late
  /\ Goto(k, "check")

\* json.loads of what is neither JSON nor empty raises.
Reply(d) == IF d \in {"worker_disconnected", "text"} THEN "500" ELSE d

\* Variant: whatever was not processed is tried again.
CheckRetriesFailures(k) ==
  /\ At(k, "check")
  /\ LET row == requests[call[k].req] IN
     IF row.status # "processed" THEN Goto(k, "claim") ELSE Finish(k, Reply(row.data))

Check(k) ==
  /\ At(k, "check")
  /\ LET row == requests[call[k].req] IN
     IF row.status = "pending" /\ row.data = "worker_disconnected"
     THEN Goto(k, "claim")
     ELSE Finish(k, IF Unfinished(call[k].req) THEN "504" ELSE Reply(row.data))

\* The end of the /response and /error handlers.
SetResponseEvent(r) ==
  /\ signalled' = [k \in Call |-> signalled[k] \/ response_events[r] = k]
  /\ UNCHANGED <<requests, response_events, call>>

\* The Nexus dies: every open activation is a reset connection to its client.
ForgetCalls ==
  /\ response_events' = [r \in Request |-> None]
  /\ signalled' = [k \in Call |-> FALSE]
  /\ call' = [k \in Call |->
       IF call[k].pc \in {"idle", "done"} THEN call[k]
       ELSE IF call[k].answer = "closed" THEN NoCall
       ELSE [NoCall EXCEPT !.pc = "done", !.answer = "reset"]]
  /\ UNCHANGED requests

\* Variant: the status code is stored instead of the text.
BodyIsStatus(answer) == answer

\* What `response.text` holds of each answer of the Nexus.
Body(answer) ==
  IF answer = "504" THEN "detail" ELSE IF answer = "500" THEN "text" ELSE answer
=============================================================================
