----------------------------- MODULE Containers -----------------------------
(***************************************************************************)
(* The table `containers` of control_plane_db.py and its statements, one   *)
(* atomic step each.                                                       *)
(***************************************************************************)
EXTENDS Deployment

CONSTANTS
  Container,          \* containers the Scaler may create (fresh uuids)
  Addr,               \* addresses of the Docker bridge network
  ImageOf,            \* the function a container is built from
  AddrOf              \* the address Docker gives it

ContainerStatus ==
  {"absent", "provisioning", "deployed", "available", "busy", "failed", "destroying"}

ASSUME NoContainerIsNone == None \notin Container /\ None \notin Addr
ASSUME ImageType == ImageOf \in [Container -> Fn]
ASSUME AddrType == AddrOf \in [Container -> Addr]

VARIABLE containers   \* a row has no address until its container runs

NoContainer == [status |-> "absent", ip |-> None]

ContainersTypeOK ==
  containers \in [Container -> [status : ContainerStatus, ip : Addr \cup {None}]]

ContainersInit == containers = [c \in Container |-> NoContainer]

\* Variant: a status no other statement knows.
InsertStarting(c) ==
  containers' = [containers EXCEPT ![c] = [NoContainer EXCEPT !.status = "starting"]]

InsertProvisioning(c) ==
  containers' = [containers EXCEPT ![c] = [NoContainer EXCEPT !.status = "provisioning"]]

\* UPDATE ... SET container_id, ip_address, status WHERE container_id = <name>: a row
\* is found by its name until this statement replaces it by the Docker id.
PublishDeployed(c) ==
  containers' = IF containers[c].status # "absent" /\ containers[c].ip = None
                THEN [containers EXCEPT ![c] = [status |-> "deployed", ip |-> AddrOf[c]]]
                ELSE containers

RowsAt(a) == {c \in Container : containers[c].ip = a}

\* Every UPDATE ... WHERE ip_address = a touches all rows with that address.
WithStatusAt(a, s) ==
  [c \in Container |->
     IF containers[c].ip = a THEN [containers[c] EXCEPT !.status = s] ELSE containers[c]]

AvailableFor(f) ==
  {c \in Container : containers[c].status = "available" /\ ImageOf[c] = f}

\* Variants: the row is only read, the function is not compared.
ClaimWithoutReserving(f, a) ==
  (\E c \in AvailableFor(f) : containers[c].ip = a) /\ UNCHANGED containers

ClaimAnyFunction(f, a) ==
  /\ \E c \in RowsAt(a) : containers[c].status = "available"
  /\ containers' = WithStatusAt(a, "busy")

\* get_available_containers: the inner SELECT picks one row of the function (the
\* newest; here any), the outer UPDATE reserves every row with that row's address.
ClaimAddress(f, a) ==
  /\ \E c \in AvailableFor(f) : containers[c].ip = a
  /\ containers' = WithStatusAt(a, "busy")

MarkAvailable(a) == containers' = WithStatusAt(a, "available")

MarkFailed(a) == containers' = WithStatusAt(a, "failed")

MarkDestroying(S) ==
  containers' = [c \in Container |->
     IF c \in S THEN [containers[c] EXCEPT !.status = "destroying"] ELSE containers[c]]

RemoveRows(S) ==
  containers' = [c \in Container |-> IF c \in S THEN NoContainer ELSE containers[c]]
=============================================================================
