------------------------------ MODULE Requests ------------------------------
(***************************************************************************)
(* The table `requests` of control_plane_db.py and the statements the      *)
(* components run on it.  PGlite serialises statements, so each one is one *)
(* atomic step: an operator here gives the next value of the table, and    *)
(* the component that issues the statement adds the rest of its step.      *)
(* Time is not modelled: a row is old enough when the component that asks  *)
(* for old rows picks it.                                                  *)
(***************************************************************************)
EXTENDS Deployment, Naturals, FiniteSets

CONSTANTS
  Request,            \* request ids (fresh uuids)
  FnOf,               \* the function a request names
  KindOf,             \* its X-Amz-Invocation-Type header
  RetryEventCount,    \* config retry_event_count
  RetryRequestCount   \* retry_request_count, fixed to 3 in the code

RequestStatus == {"absent", "pending", "in_progress", "processed", "failed"}
\* response_data: "" or NULL, the text proxy_request looks for, a worker's answer
\* or error report, the JSON body of an HTTPException, any other text.
ResponseData == {"empty", "worker_disconnected", "result", "error", "detail", "text"}
\* checked_out_at: NULL, under a minute old, older, older than stuck_interval.
CheckedOut == {"null", "fresh", "cooling", "expired"}
Kind == {"RequestResponse", "Event", "Other"}

ASSUME NoRequestIsNone == None \notin Request
ASSUME RequestKind == FnOf \in [Request -> Fn] /\ KindOf \in [Request -> Kind]
ASSUME RetryType == RetryEventCount \in Nat /\ RetryRequestCount \in Nat

VARIABLE requests

NoRow == [status |-> "absent", retries |-> 0, data |-> "empty", out |-> "null"]

RequestsTypeOK ==
  requests \in [Request -> [status : RequestStatus, retries : Nat,
                            data : ResponseData, out : CheckedOut]]

RequestsInit == requests = [r \in Request |-> NoRow]

InsertRequest(r) == requests' = [requests EXCEPT ![r] = [NoRow EXCEPT !.status = "pending"]]

\* update_lambda_request, plain branch: no condition on the present status.
UpdateRequest(r, s, d) ==
  requests' = [requests EXCEPT ![r].status = s, ![r].data = d]

\* ... the "processed" branch: only WHERE status = 'in_progress'.
StoreProcessed(r, d) ==
  requests' = IF requests[r].status = "in_progress"
              THEN [requests EXCEPT ![r].status = "processed", ![r].data = d]
              ELSE requests

\* The counter is only compared with the two limits: beyond both it need not grow.
OneMore(n) == IF n > RetryEventCount /\ n > RetryRequestCount THEN n ELSE n + 1

\* ... the increment_retry branch: no condition on the present status either.
RetryRequest(r) ==
  requests' = [requests EXCEPT
     ![r].status = IF requests[r].retries >= RetryEventCount THEN "failed" ELSE "pending",
     ![r].retries = OneMore(@), ![r].data = "text", ![r].out = "null"]

\* Variants of the cleanup: an Event is given up the first time, is not counted.
DeleteStuckAtOnce(S) ==
  requests' = [r \in Request |->
    IF r \in S THEN [requests[r] EXCEPT !.status = "failed"] ELSE requests[r]]

DeleteStuckUncounted(S) ==
  requests' = [r \in Request |->
    IF r \notin S THEN requests[r]
    ELSE [requests[r] EXCEPT !.status =
            IF KindOf[r] = "Event" /\ requests[r].retries < RetryRequestCount
            THEN "pending" ELSE "failed"]]

\* delete_stuck_requests, where S are the rows older than their stuck time.  A
\* RequestResponse row fails, an Event row goes back to the queue a bounded number
\* of times; response_data and checked_out_at keep their values.
DeleteStuck(S) ==
  LET retried == {r \in S : KindOf[r] = "Event" /\ requests[r].retries < RetryRequestCount}
  IN requests' = [r \in Request |->
       IF r \in retried
       THEN [requests[r] EXCEPT !.status = "pending", !.retries = @ + 1]
       ELSE IF r \in S THEN [requests[r] EXCEPT !.status = "failed"] ELSE requests[r]]

Unfinished(r) == requests[r].status \in {"pending", "in_progress"}

\* Variant: only rows some worker was given.
MayBeStuckInProgress(r) == requests[r].status = "in_progress" /\ KindOf[r] # "Other"

\* Rows the cleanup's WHERE clause can select.
MayBeStuck(r) == Unfinished(r) /\ KindOf[r] # "Other"
=============================================================================
