---------------------------- MODULE LoadBalancer ----------------------------
(***************************************************************************)
(* load_balance_lambdas.py in front of the Nexus: the life of a client's   *)
(* invocation from the public API to its answer.  A RequestResponse call   *)
(* is posted to the Nexus once; an Event is left in `requests` for the     *)
(* events handler.  The Scaler's cleanup of stuck rows runs beside it.     *)
(***************************************************************************)
EXTENDS Nexus

CONSTANT Inner        \* the requests that functions make, not outside clients

ASSUME InnerType == Inner \subseteq Request

\* lb: request -> progress of the client's HTTP call; `from` is the worker whose function
\* makes it and waits, while it is open.
LBPC == {"idle", "refused", "created", "accepted", "invalid", "posted", "ok",
         "failed", "lost"}

TypeOK ==
  /\ NexusTypeOK
  /\ lb \in [Request -> [pc : LBPC, call : Call \cup {None},
                      from : Container \cup {None}]]

NoClient == [pc |-> "idle", call |-> None, from |-> None]

Init ==
  /\ NexusInit
  /\ lb = [r \in Request |-> NoClient]

\* The Scaler's heartbeat is missing or over 20 seconds old (503), or the function is
\* not deployed (400): no row is written.
Refuse(r) ==
  /\ lb[r].pc = "idle"
  /\ lb' = [lb EXCEPT ![r].pc = "refused"]
  /\ UNCHANGED nexusVars

\* The row is inserted whatever the type; an Event is accepted at once, a type that is
\* neither raises and leaves the row "pending".
AfterInsert(kind) ==
  IF kind = "RequestResponse" THEN "created" ELSE IF kind = "Event" THEN "accepted"
  ELSE "invalid"

otherVars == <<response_events, signalled, containers, memoryVars, workVars, restarts>>

\* The caller is outside, or a function that runs in worker w and does nothing else until
\* its call has ended.
CreateRequest(r, w) ==
  /\ lb[r].pc = "idle"
  /\ IF r \in Inner THEN w # None /\ worker[w].st = "running" /\ ~Awaiting(w)
                     ELSE w = None
  /\ lb' = [lb EXCEPT ![r].pc = AfterInsert(KindOf[r]),
                      ![r].from = IF KindOf[r] = "RequestResponse" THEN w ELSE None]
  /\ InsertRequest(r)
  /\ UNCHANGED <<call, otherVars>>

Post(r, k) ==
  /\ lb[r].pc = "created"
  /\ lb' = [lb EXCEPT ![r].pc = "posted", ![r].call = k]
  /\ ProxyRequest(k, r)

Ended(label) == [NoClient EXCEPT !.pc = label]

\* Any HTTP answer, 504 and 500 too, is stored if the row is still in_progress and
\* returned to the client with status 200.
Answered(r) ==
  /\ lb[r].pc = "posted"
  /\ At(lb[r].call, "done") /\ call[lb[r].call].answer # "reset"
  /\ lb' = [lb EXCEPT ![r] = Ended("ok")]
  /\ StoreProcessed(r, Body(call[lb[r].call].answer))
  /\ LeaveCalls({lb[r].call})
  /\ UNCHANGED otherVars

\* Variant: only timeouts and refused connections are caught.
PostTimesOut(r) ==
  /\ \/ lb[r].pc = "created"
     \/ lb[r].pc = "posted" /\ call[lb[r].call].late /\ ~At(lb[r].call, "done")
  /\ lb' = [lb EXCEPT ![r] = Ended("failed")]
  /\ UpdateRequest(r, "failed", "text")
  /\ LeaveCalls({lb[r].call})
  /\ UNCHANGED otherVars

\* The `except`: the connection was refused or reset, or LAMBDA_TIMEOUT + 5 seconds
\* passed without an answer.  The Nexus's handler goes on.
PostFails(r) ==
  /\ \/ lb[r].pc = "created"
     \/ /\ lb[r].pc = "posted"
        /\ \/ call[lb[r].call].late /\ ~At(lb[r].call, "done")
           \/ call[lb[r].call].answer = "reset"
  /\ lb' = [lb EXCEPT ![r] = Ended("failed")]
  /\ UpdateRequest(r, "failed", "text")
  /\ LeaveCalls({lb[r].call})
  /\ UNCHANGED otherVars

\* The Load Balancer dies: nobody updates the rows of its calls in flight.
LBCrash ==
  LET open == {r \in Request : lb[r].pc \in {"created", "posted"}} IN
  /\ open # {}
  /\ lb' = [r \in Request |-> IF r \in open THEN Ended("lost") ELSE lb[r]]
  /\ LeaveCalls({lb[r].call : r \in open})
  /\ UNCHANGED <<requests, otherVars>>

\* The Scaler's periodic cleanup; any unfinished rows may be old enough.
CleanUpStuck(S) ==
  /\ S # {}
  /\ \A r \in S : MayBeStuck(r)
  /\ DeleteStuck(S)
  /\ UNCHANGED <<call, otherVars, lb>>

LBStep(r) ==
  \/ Refuse(r) \/ Answered(r) \/ PostFails(r)
  \/ \E w \in Container \cup {None} : CreateRequest(r, w)
  \/ \E k \in Call : Post(r, k)

Next ==
  \/ NexusNext
  \/ \E r \in Request : LBStep(r)
  \/ LBCrash
  \/ \E S \in SUBSET Request : CleanUpStuck(S)

Spec == Init /\ [][Next]_vars

\* Handlers run to their next await, clocks advance, clients take their answers, /next
\* goes on and the cleanup comes round; nobody has to invoke, no container has to start
\* and no worker has to answer.
Fairness ==
  /\ \A k \in Call : WF_vars(CallStep(k) \/ TimePasses(k))
  /\ \A c \in Container : WF_vars(PollStep(c))
  /\ \A r \in Request :
       /\ WF_vars(PostFails(r) \/ Answered(r) \/ \E k \in Call : Post(r, k))
       /\ WF_vars(CleanUpStuck({r}))

FairSpec == Spec /\ Fairness

-----------------------------------------------------------------------------
(* Properties *)

\* The calls between get_available_containers and worker_event.set().
Holding(k) == call[k].pc \in {"lookup", "probe", "ghost", "bind", "signal"}

\* get_available_containers hands an address to one call at a time: two calls never
\* drive the same waiting worker, although nothing but the row's status keeps them
\* apart and /next sets that status without looking at it.
ExclusiveClaim ==
  \A k, j \in Call : Holding(k) /\ Holding(j) /\ lease[k].ip = lease[j].ip => k = j

\* worker_payloads is keyed by address: a payload that waits there was put by the
\* call about to signal, or its worker's event is set.  None is left behind.
PayloadHasOwner ==
  \A c \in Container : worker_payloads[AddrOf[c]] # None =>
    \/ Awake(c)
    \/ \E k \in Call : /\ call[k].pc \in {"bind", "signal"} /\ lease[k].ip = AddrOf[c]
                       /\ call[k].req = worker_payloads[AddrOf[c]]

\* A /next that wakes up finds a payload under its address: pop cannot raise, although
\* the event is set in one step of the call and the payload was stored in another.
AwakeHasPayload ==
  \A c \in Container : Awake(c) => worker_payloads[AddrOf[c]] # None

\* A call never replaces a payload another call has bound to the address.
NoPayloadOverwrite ==
  [][\A a \in Addr : worker_payloads'[a] \in {worker_payloads[a], None}
                      \/ worker_payloads[a] = None]_vars

\* A worker runs requests of its own function only, although a payload reaches it by
\* address and the row, the payload and the /next connection are looked up apart.
RightFunction ==
  \A c \in Container : worker[c].job # None => FnOf[worker[c].job] = ImageOf[c]

\* A worker that waits in /next is reserved (its row busy) only for a call that is
\* about to use it: no claim is dropped while the worker goes on waiting.
NoStrandedWorker ==
  \A c \in Container :
    poll[c].pc = "wait" /\ ~poll[c].set /\ Alive(c) /\ containers[c].status = "busy"
      => \E k \in Call : Holding(k) /\ lease[k].ip = AddrOf[c]

\* Once a worker's outcome is in the row and its handler has returned, the call that
\* waits for it has been woken, however fast the worker was.
NoLostWakeup ==
  \A k \in Call :
    At(k, "wait") /\ requests[call[k].req].data \in {"result", "error"} =>
      \/ signalled[call[k].on]
      \/ \E c \in Container : report[c] = call[k].req

\* A failed row stays out of service: no late /next makes it available again, although
\* the handler sets the status without looking at it.
FailedIsFinal ==
  [][\A c \in Container :
       containers[c].status = "failed" =>
         containers'[c].status \in {"failed", "destroying", "absent"}]_vars

\* A RequestResponse invocation is handed to at most one worker: neither the retry
\* of proxy_request nor the cleanup makes it run twice.
SyncRunsOnce ==
  [][\A c \in Container :
       worker[c].job = None /\ worker'[c].job # None => worker'[c].job \notin ran]_vars

\* A client's call comes to an end: an answer, an error, or a dead Load Balancer; also
\* when functions wait for functions and no worker is left for the innermost.
ClientAnswered ==
  \A r \in Request :
    lb[r].pc \in {"created", "posted"} ~> lb[r].pc \in {"ok", "failed", "lost"}

\* Every row of a known type is settled for good in the end, whichever of the call, the
\* worker, the Load Balancer or the Nexus went first.
RowsSettle ==
  \A r \in {q \in Request : KindOf[q] # "Other"} :
    requests[r].status # "absent" ~> [](requests[r].status \in {"processed", "failed"})

-----------------------------------------------------------------------------
(* The Nexus implements what its clients rely on. *)

PayloadsOf(r) == {a \in Addr : worker_payloads[a] = r}
DroppedOf(r) == {c \in Container : poll[c].job = r}

SeenCall == [k \in Call |-> IF call[k].pc \in {"lookup", "probe", "ghost"}
                            THEN [call[k] EXCEPT !.pc = "claim"] ELSE call[k]]
Copies == [r \in Request |-> Cardinality(PayloadsOf(r)) + Cardinality(DroppedOf(r))]
Executing == [r \in Request |-> Cardinality({c \in Container : worker[c].job = r})]
Reports == [r \in Request |-> Cardinality({c \in Container : report[c] = r})]

Service == INSTANCE Invocation WITH
  Workers <- Cardinality(Container), call <- SeenCall,
  copies <- Copies, executing <- Executing, reports <- Reports

\* Seen through its rows, answers and hand-overs, the Nexus with its tables of waiting
\* workers behaves like the Invocation service that EventQueue is built on.
ImplementsInvocation == Service!InvocationSpec
=============================================================================
