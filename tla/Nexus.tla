-------------------------------- MODULE Nexus --------------------------------
(***************************************************************************)
(* worker_manager.py: the handlers of proxy_request and of the Lambda      *)
(* runtime API share four in-memory dictionaries and the two tables.  A    *)
(* handler is a sequence of steps cut where the code awaits; all handlers  *)
(* interleave.  The containers' runtime client and what the Scaler and     *)
(* Docker may do to a container are the environment.                       *)
(***************************************************************************)
EXTENDS Calls, Containers

VARIABLES
  listening_workers,  \* address -> the container whose /next registered last
  worker_payloads,    \* address -> request bound to the waiting worker
  lease,              \* activation -> the address it claimed and the event it looked up
  poll,               \* container -> its /next activation
  report,             \* container -> request whose /response or /error is being handled
  worker,             \* container -> its process and the request it runs
  ran,                \* history: requests some worker has received
  restarts,           \* deaths of control-plane processes so far
  lb                  \* the client's side, changed by LoadBalancer.tla only

workVars == <<poll, report, worker, ran>>
nexusVars == <<callVars, containers, listening_workers, worker_payloads, lease,
               workVars, restarts>>
vars == <<nexusVars, lb>>

PollPC == {"none", "mark", "wait", "fail", "revert"}
WorkerState == {"off", "boot", "ready", "polling", "running", "reporting", "dead"}

NexusTypeOK ==
  /\ RequestsTypeOK /\ CallsTypeOK /\ ContainersTypeOK
  /\ listening_workers \in [Addr -> Container \cup {None}]
  /\ worker_payloads \in [Addr -> Request \cup {None}]
  /\ lease \in [Call -> [ip : Addr \cup {None}, ev : Container \cup {None}]]
  /\ poll \in [Container -> [pc : PollPC, set : BOOLEAN, job : Request \cup {None}]]
  /\ report \in [Container -> Request \cup {None}]
  /\ worker \in [Container -> [st : WorkerState, job : Request \cup {None}]]
  /\ ran \subseteq Request
  /\ restarts \in 0..MaxRestarts

NoLease == [ip |-> None, ev |-> None]
NoPoll == [pc |-> "none", set |-> FALSE, job |-> None]
Dead == [st |-> "dead", job |-> None]

NexusInit ==
  /\ RequestsInit /\ CallsInit /\ ContainersInit
  /\ listening_workers = [a \in Addr |-> None]
  /\ worker_payloads = [a \in Addr |-> None]
  /\ lease = [k \in Call |-> NoLease]
  /\ poll = [c \in Container |-> NoPoll]
  /\ report = [c \in Container |-> None]
  /\ worker = [c \in Container |-> [st |-> "off", job |-> None]]
  /\ ran = {}
  /\ restarts = 0

Alive(c) == worker[c].st \notin {"off", "dead"}

\* The function a worker runs waits for an invocation of its own.
Awaiting(c) == \E r \in Request : lb[r].from = c

-----------------------------------------------------------------------------
(* proxy_request *)

ProxyRequest(k, r) ==
  /\ Enter(k, r)
  /\ UNCHANGED <<containers, listening_workers, worker_payloads, lease, workVars, restarts>>

TimePasses(k) ==
  /\ TimeUp(k)
  /\ UNCHANGED <<containers, listening_workers, worker_payloads, lease, workVars,
                 restarts, lb>>

\* The steps that only concern the row and the response event.
RowStep(k) ==
  /\ Expire(k) \/ Bind(k) \/ Wake(k) \/ Check(k)
  /\ UNCHANGED <<containers, listening_workers, worker_payloads, lease, workVars,
                 restarts, lb>>

\* With no row available the handler pokes the Scaler, sleeps and stays here.
Claim(k) ==
  /\ At(k, "claim") /\ ~call[k].late
  /\ \E a \in Addr : /\ ClaimAddress(FnOf[call[k].req], a)
                     /\ lease' = [lease EXCEPT ![k].ip = a]
  /\ Goto(k, "lookup")
  /\ UNCHANGED <<listening_workers, worker_payloads, workVars, restarts, lb>>

\* Without a registered /next ("worker_registration_gap") the claimed row stays busy.
LookUp(k) ==
  /\ At(k, "lookup")
  /\ LET c == listening_workers[lease[k].ip] IN
     IF c = None
     THEN Goto(k, "claim") /\ lease' = [lease EXCEPT ![k] = NoLease]
     ELSE Goto(k, "probe") /\ lease' = [lease EXCEPT ![k].ev = c]
  /\ UNCHANGED <<containers, listening_workers, worker_payloads, workVars, restarts, lb>>

\* is_disconnected() on the connection of the /next that was looked up: its worker
\* has gone or its handler has answered (None: an activation that was replaced).
Gone(e) == e = None \/ poll[e].pc = "none" \/ ~Alive(e)

\* Variant: a call whose time is up drops the worker it has claimed.
ProbeLate(k) ==
  /\ At(k, "probe")
  /\ IF call[k].late
     THEN Goto(k, "claim") /\ UNCHANGED worker_payloads
     ELSE /\ Goto(k, IF Gone(lease[k].ev) THEN "ghost" ELSE "bind")
          /\ worker_payloads' = IF Gone(lease[k].ev) THEN worker_payloads
                                ELSE [worker_payloads EXCEPT ![lease[k].ip] = call[k].req]
  /\ UNCHANGED <<containers, listening_workers, lease, workVars, restarts, lb>>

Probe(k) ==
  /\ At(k, "probe")
  /\ IF Gone(lease[k].ev)
     THEN Goto(k, "ghost") /\ UNCHANGED worker_payloads
     ELSE /\ Goto(k, "bind")
          /\ worker_payloads' = [worker_payloads EXCEPT ![lease[k].ip] = call[k].req]
  /\ UNCHANGED <<containers, listening_workers, lease, workVars, restarts, lb>>

Ghost(k) ==
  /\ At(k, "ghost")
  /\ MarkFailed(lease[k].ip)
  /\ Goto(k, "claim")
  /\ lease' = [lease EXCEPT ![k] = NoLease]
  /\ UNCHANGED <<listening_workers, worker_payloads, workVars, restarts, lb>>

\* Variant: the payload is cleared as soon as the worker has been woken.
SignalClears(k) ==
  /\ StartWaiting(k)
  /\ poll' = [c \in Container |-> IF c = lease[k].ev /\ poll[c].pc # "none"
                                  THEN [poll[c] EXCEPT !.set = TRUE] ELSE poll[c]]
  /\ worker_payloads' = [worker_payloads EXCEPT ![lease[k].ip] = None]
  /\ lease' = [lease EXCEPT ![k] = NoLease]
  /\ UNCHANGED <<containers, listening_workers, report, worker, ran, restarts, lb>>

\* worker_event.set(): setting the event of a replaced or finished /next wakes nobody.
Signal(k) ==
  /\ StartWaiting(k)
  /\ poll' = [c \in Container |-> IF c = lease[k].ev /\ poll[c].pc # "none"
                                  THEN [poll[c] EXCEPT !.set = TRUE] ELSE poll[c]]
  /\ lease' = [lease EXCEPT ![k] = NoLease]
  /\ UNCHANGED <<containers, listening_workers, worker_payloads,
                 report, worker, ran, restarts, lb>>

-----------------------------------------------------------------------------
(* GET /runtime/invocation/next.  poll[c].pc is "none" between activations. *)

\* The `finally` of the handler: pops the entry of the address, whoever's it is.
EndPoll(c) ==
  /\ poll' = [poll EXCEPT ![c] = NoPoll]
  /\ listening_workers' = [listening_workers EXCEPT ![AddrOf[c]] = None]

RuntimeNext(c) ==
  /\ worker[c].st \in {"boot", "ready"} /\ poll[c].pc = "none"
  /\ worker' = [worker EXCEPT ![c].st = "polling"]
  /\ listening_workers' = [listening_workers EXCEPT ![AddrOf[c]] = c]
  /\ poll' = [poll EXCEPT ![c] = [NoPoll EXCEPT !.pc = "mark"]]
  /\ lease' = [k \in Call |-> IF lease[k].ev = c THEN [lease[k] EXCEPT !.ev = None]
                                                 ELSE lease[k]]
  /\ UNCHANGED <<callVars, containers, worker_payloads, report, ran, restarts, lb>>

\* Variant: the mark is repeated while the worker waits.
NextMarkAgain(c) ==
  /\ poll[c].pc \in {"mark", "wait"}
  /\ RowsAt(AddrOf[c]) # {}
  /\ MarkAvailable(AddrOf[c])
  /\ poll' = [poll EXCEPT ![c].pc = "wait"]
  /\ UNCHANGED <<callVars, listening_workers, worker_payloads, lease,
                 report, worker, ran, restarts, lb>>

\* Retried every second until some row has the worker's address, connected or not.
NextMark(c) ==
  /\ poll[c].pc = "mark"
  /\ RowsAt(AddrOf[c]) # {}
  /\ MarkAvailable(AddrOf[c])
  /\ poll' = [poll EXCEPT ![c].pc = "wait"]
  /\ UNCHANGED <<callVars, listening_workers, worker_payloads, lease,
                 report, worker, ran, restarts, lb>>

Awake(c) == poll[c].pc = "wait" /\ poll[c].set

\* Variant: the payload is sent and stays in the dictionary.
NextDeliverKeeps(c) ==
  /\ Awake(c) /\ Alive(c)
  /\ worker_payloads[AddrOf[c]] # None
  /\ worker' = [worker EXCEPT ![c] = [st |-> "running", job |-> worker_payloads[AddrOf[c]]]]
  /\ ran' = ran \cup {worker_payloads[AddrOf[c]]}
  /\ EndPoll(c)
  /\ UNCHANGED <<callVars, containers, worker_payloads, lease, report, restarts, lb>>

\* The payload is popped and sent; if the address has none the pop raises, and the
\* runtime client, answered with a 500, exits.
NextDeliver(c) ==
  /\ Awake(c) /\ Alive(c)
  /\ LET r == worker_payloads[AddrOf[c]] IN
     IF r = None
     THEN worker' = [worker EXCEPT ![c] = Dead] /\ UNCHANGED ran
     ELSE /\ worker' = [worker EXCEPT ![c] = [st |-> "running", job |-> r]]
          /\ ran' = ran \cup {r}
  /\ worker_payloads' = [worker_payloads EXCEPT ![AddrOf[c]] = None]
  /\ EndPoll(c)
  /\ UNCHANGED <<callVars, containers, lease, report, restarts, lb>>

\* Variant: the payload is read, not taken back.
NextDropKeeps(c) ==
  /\ Awake(c) /\ ~Alive(c)
  /\ poll' = [poll EXCEPT ![c].pc = "fail", ![c].job = worker_payloads[AddrOf[c]]]
  /\ UNCHANGED <<callVars, containers, listening_workers, worker_payloads, lease,
                 report, worker, ran, restarts, lb>>

\* The worker is gone: take the payload back, fail the row, return the request.
NextDrop(c) ==
  /\ Awake(c) /\ ~Alive(c)
  /\ poll' = [poll EXCEPT ![c].pc = "fail", ![c].job = worker_payloads[AddrOf[c]]]
  /\ worker_payloads' = [worker_payloads EXCEPT ![AddrOf[c]] = None]
  /\ UNCHANGED <<callVars, containers, listening_workers, lease,
                 report, worker, ran, restarts, lb>>

NextFail(c) ==
  /\ poll[c].pc = "fail"
  /\ MarkFailed(AddrOf[c])
  /\ IF poll[c].job = None
     THEN EndPoll(c)
     ELSE poll' = [poll EXCEPT ![c].pc = "revert"] /\ UNCHANGED listening_workers
  /\ UNCHANGED <<callVars, worker_payloads, lease, report, worker, ran, restarts, lb>>

NextRevert(c) ==
  /\ poll[c].pc = "revert"
  /\ UpdateRequest(poll[c].job, "pending", "worker_disconnected")
  /\ EndPoll(c)
  /\ UNCHANGED <<response_events, signalled, call, containers, worker_payloads, lease,
                 report, worker, ran, restarts, lb>>

-----------------------------------------------------------------------------
(* POST /response, /error and /init/error.  The row is written, then the caller woken. *)

Reporting(c) ==
  /\ worker[c].st = "running" /\ report[c] = None /\ ~Awaiting(c)
  /\ worker' = [worker EXCEPT ![c] = [st |-> "reporting", job |-> None]]
  /\ report' = [report EXCEPT ![c] = worker[c].job]
  /\ UNCHANGED <<response_events, signalled, call, containers, listening_workers,
                 worker_payloads, lease, poll, ran, restarts, lb>>

\* Variant: the outcome is stored whatever has become of the row.
RuntimeResponseAlways(c) ==
  Reporting(c) /\ UpdateRequest(worker[c].job, "processed", "result")

RuntimeResponse(c) == Reporting(c) /\ StoreProcessed(worker[c].job, "result")

\* Variant: an error is stored and nobody is woken.
RuntimeErrorUnsignalled(c) ==
  /\ worker[c].st = "running" /\ report[c] = None /\ ~Awaiting(c)
  /\ UpdateRequest(worker[c].job, "failed", "error")
  /\ worker' = [worker EXCEPT ![c] = [st |-> "ready", job |-> None]]
  /\ UNCHANGED <<response_events, signalled, call, containers, listening_workers,
                 worker_payloads, lease, poll, report, ran, restarts, lb>>

RuntimeError(c) == Reporting(c) /\ UpdateRequest(worker[c].job, "failed", "error")

WakeCaller(c) ==
  /\ report[c] # None
  /\ SetResponseEvent(report[c])
  /\ report' = [report EXCEPT ![c] = None]
  /\ worker' = IF worker[c].st = "reporting" THEN [worker EXCEPT ![c].st = "ready"]
                                             ELSE worker
  /\ UNCHANGED <<containers, listening_workers, worker_payloads, lease,
                 poll, ran, restarts, lb>>

RuntimeInitError(c) ==
  /\ worker[c].st = "boot"
  /\ MarkFailed(AddrOf[c])
  /\ worker' = [worker EXCEPT ![c] = Dead]
  /\ UNCHANGED <<callVars, listening_workers, worker_payloads, lease,
                 poll, report, ran, restarts, lb>>

-----------------------------------------------------------------------------
(* What the Scaler, Docker and the watchdog may do. *)

memoryVars == <<listening_workers, worker_payloads, lease>>

Provision(c) ==
  /\ containers[c].status = "absent" /\ worker[c].st = "off"
  /\ InsertProvisioning(c)
  /\ UNCHANGED <<callVars, memoryVars, workVars, restarts, lb>>

\* container.start(): Docker hands out an address no running container has.  The
\* provisioning row may have been reaped or deleted since it was inserted.
Launch(c) ==
  /\ worker[c].st = "off"
  /\ \A d \in Container : Alive(d) => AddrOf[d] # AddrOf[c]
  /\ worker' = [worker EXCEPT ![c].st = "boot"]
  /\ UNCHANGED <<callVars, containers, memoryVars, poll, report, ran, restarts, lb>>

Publish(c) ==
  /\ worker[c].st # "off"
  /\ containers[c].status # "absent" /\ containers[c].ip = None
  /\ PublishDeployed(c)
  /\ UNCHANGED <<callVars, memoryVars, workVars, restarts, lb>>

\* The process exits or is killed; its handlers at the Nexus go on.
Die(c) ==
  /\ Alive(c)
  /\ worker' = [worker EXCEPT ![c] = Dead]
  /\ UNCHANGED <<callVars, containers, memoryVars, poll, report, ran, restarts, lb>>

\* get_containers_to_destroy: a failed row at once, any other once it is old enough.
Reap(c) ==
  /\ containers[c].status \notin {"absent", "destroying"}
  /\ MarkDestroying({c})
  /\ UNCHANGED <<callVars, memoryVars, workVars, restarts, lb>>

\* The reaper's or the ghost sync's DELETE, once Docker does not run the container.
Forget(c) ==
  /\ containers[c].status # "absent" /\ ~Alive(c)
  /\ RemoveRows({c})
  /\ UNCHANGED <<callVars, memoryVars, workVars, restarts, lb>>

\* The Nexus dies and the watchdog starts it again: the dictionaries are empty, every
\* open connection is reset, and a runtime client whose request is reset exits.
NexusRestart ==
  /\ restarts < MaxRestarts
  /\ restarts' = restarts + 1
  /\ ForgetCalls
  /\ listening_workers' = [a \in Addr |-> None]
  /\ worker_payloads' = [a \in Addr |-> None]
  /\ lease' = [k \in Call |-> NoLease]
  /\ poll' = [c \in Container |-> NoPoll]
  /\ report' = [c \in Container |-> None]
  /\ worker' = [c \in Container |->
       IF worker[c].st \in {"polling", "reporting"} THEN Dead ELSE worker[c]]
  /\ UNCHANGED <<containers, ran, lb>>

-----------------------------------------------------------------------------
CallStep(k) ==
  RowStep(k) \/ Claim(k) \/ LookUp(k) \/ Probe(k) \/ Ghost(k) \/ Signal(k)

PollStep(c) ==
  NextMark(c) \/ NextDeliver(c) \/ NextDrop(c) \/ NextFail(c) \/ NextRevert(c)

WorkerStep(c) ==
  RuntimeNext(c) \/ RuntimeResponse(c) \/ RuntimeError(c) \/ WakeCaller(c)
    \/ RuntimeInitError(c)

FleetStep(c) ==
  Provision(c) \/ Launch(c) \/ Publish(c) \/ Die(c) \/ Reap(c) \/ Forget(c)

NexusNext ==
  \/ \E k \in Call : CallStep(k) \/ TimePasses(k)
  \/ \E c \in Container : PollStep(c) \/ WorkerStep(c) \/ FleetStep(c)
  \/ NexusRestart
=============================================================================
