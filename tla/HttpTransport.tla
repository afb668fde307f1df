---------------------------- MODULE HttpTransport ----------------------------
(***************************************************************************)
(* The worker's HTTP transport (transport/http.rs): a queue and a status map  *)
(* in memory, each with a lock.  A submission writes the map while it holds     *)
(* the queue's lock, and waits for the map in between; a client that goes away  *)
(* then ends it there.  A fetch is never dropped, so its two writes are one      *)
(* step.  The queue has no bound.                                            *)
(***************************************************************************)
EXTENDS Integers, Sequences

CONSTANTS
  Ids,        \* job ids a client may submit
  MaxSubmits  \* bound: submissions of one id

VARIABLES
  queue,      \* Sequence of jobs
  submitting, \* the job whose submission holds the queue's lock, if any
  statusMap,  \* job -> status, "none" if the map has no entry
  submits     \* job -> submissions in this life of the worker

httpVars == <<queue, submitting, statusMap, submits>>

HttpTypeOK ==
  /\ queue \in Seq(Ids) /\ submitting \in SUBSET Ids
  /\ statusMap \in [Ids -> {"none", "pending", "assigned", "completed", "failed"}]
  /\ submits \in [Ids -> 0 .. MaxSubmits]

HttpInit ==
  /\ queue = <<>> /\ submitting = {}
  /\ statusMap = [j \in Ids |-> "none"]
  /\ submits = [j \in Ids |-> 0]

(* submit_job puts the job into the queue, ... *)
Submit(j) ==
  /\ submits[j] < MaxSubmits
  /\ submitting = {} /\ submitting' = {j}
  /\ queue' = Append(queue, j)
  /\ submits' = [submits EXCEPT ![j] = @ + 1]
  /\ UNCHANGED statusMap

(* ... and its entry, in place of an earlier one, into the map; ... *)
Track(j) ==
  /\ submitting = {j} /\ submitting' = {}
  /\ statusMap' = [statusMap EXCEPT ![j] = "pending"]
  /\ UNCHANGED <<queue, submits>>

(* ... or its future is dropped at the await with the request. *)
DropSubmit(j) ==
  /\ submitting = {j} /\ submitting' = {}
  /\ UNCHANGED <<queue, statusMap, submits>>

(* An entry is changed where there is one. *)
SetStatus(j, s) ==
  statusMap' = IF statusMap[j] = "none" THEN statusMap ELSE [statusMap EXCEPT ![j] = s]

\* Mutant: the map is left alone when the job is taken.
HttpFetchSilent(j) ==
  /\ submitting = {} /\ queue # <<>> /\ Head(queue) = j
  /\ queue' = Tail(queue)
  /\ UNCHANGED <<submitting, statusMap, submits>>

(* fetch_job *)
HttpFetch(j) ==
  /\ submitting = {} /\ queue # <<>> /\ Head(queue) = j
  /\ queue' = Tail(queue)
  /\ SetStatus(j, "assigned")
  /\ UNCHANGED <<submitting, submits>>

(* ack_job, nack_job *)
Settle(j, s) ==
  /\ SetStatus(j, s)
  /\ UNCHANGED <<queue, submitting, submits>>

HttpRestart == queue' = <<>> /\ submitting' = {}
               /\ statusMap' = [j \in Ids |-> "none"]
               /\ submits' = [j \in Ids |-> 0]

=============================================================================
