---------------------------- MODULE JobPipeline ----------------------------
(***************************************************************************)
(* The job pipeline of the platform: the API enqueues a job and records it *)
(* (zyvor-api jobs.rs), Redis keeps the stream, the consumer group's       *)
(* pending entries and the status and result keys, workers take jobs       *)
(* through RedisTransport (transport/redis.rs) and run them (JobExecutor), *)
(* and GET /jobs/{id} (routes/jobs.rs) joins the database row with the     *)
(* live keys and writes the status back.  Every command to Redis or to     *)
(* PostgreSQL is a step of its own.                                        *)
(***************************************************************************)
EXTENDS JobExecutor, Sequences

CONSTANTS
  Readers,     \* concurrent GET /jobs/{id} requests
  MaxCrashes,  \* bound: worker crashes
  MaxMishaps   \* bound: failed commands, lost replies and expired keys

ASSUME PipelineAssumption == MaxCrashes \in Nat /\ MaxMishaps \in Nat

VARIABLES
  submit,      \* where submit_disk_path_job is for the job
  stream,      \* entries of zyvor:jobs the group has not delivered yet
  pel,         \* delivered and not acknowledged: <<consumer, job>>
  link,        \* where the worker's transport call is
  handed,      \* the job fetch_job is about to return
  pending,     \* the transport's job_id -> stream_id map
  statusKey,   \* zyvor:job-status:<id>
  resultKey,   \* zyvor:results:<id>
  row,         \* the jobs row: its status, or "absent"
  completedAt, \* the row's completed_at is not NULL
  reader,      \* the GET request: its program counter and local record
  crashes,     \* worker crashes so far
  mishaps      \* mishaps so far

queueVars == <<stream, pel, link, handed, pending>>
keyVars == <<statusKey, resultKey>>
dbVars == <<row, completedAt>>
pipeVars == <<submit, queueVars, keyVars, dbVars, reader, crashes, mishaps>>
vars == <<execVars, pipeVars>>

Statuses == {"pending", "running", "completed", "failed"}
Finished == {"completed", "failed"}

Idle == [at |-> "idle", job |-> NoJob, status |-> "none", done |-> FALSE,
         live |-> "none", result |-> "none"]

QueueTypeOK ==
  /\ submit \in [Jobs -> {"new", "added", "announced", "done", "error"}]
  /\ stream \in Seq(Jobs)
  /\ pel \subseteq Workers \X Jobs
  /\ link \in [Workers -> {"ready", "announce", "publish_result",
                           "publish_status"}]
  /\ handed \in [Workers -> Jobs \cup {NoJob}]
  /\ pending \in [Workers -> SUBSET Jobs]
  /\ crashes \in 0 .. MaxCrashes
  /\ mishaps \in 0 .. MaxMishaps

StoreTypeOK ==
  /\ statusKey \in [Jobs -> Statuses \cup {"none"}]
  /\ resultKey \in [Jobs -> FileContents]
  /\ row \in [Jobs -> Statuses \cup {"absent"}]
  /\ completedAt \in [Jobs -> BOOLEAN]

Requests ==
  [at : {"idle", "live", "sync", "status", "result", "answered"},
   job : Jobs \cup {NoJob}, status : Statuses \cup {"none"},
   done : BOOLEAN, live : Statuses \cup {"none"}, result : FileContents]

TypeOK ==
  /\ ExecTypeOK
  /\ QueueTypeOK
  /\ StoreTypeOK
  /\ reader \in [Readers -> Requests]

Init ==
  /\ ExecInit
  /\ submit = [j \in Jobs |-> "new"]
  /\ stream = <<>>
  /\ pel = {}
  /\ link = [w \in Workers |-> "ready"]
  /\ handed = [w \in Workers |-> NoJob]
  /\ pending = [w \in Workers |-> {}]
  /\ statusKey = [j \in Jobs |-> "none"]
  /\ resultKey = [j \in Jobs |-> "none"]
  /\ row = [j \in Jobs |-> "absent"]
  /\ completedAt = [j \in Jobs |-> FALSE]
  /\ reader = [r \in Readers |-> Idle]
  /\ crashes = 0
  /\ mishaps = 0

\* A command fails, its reply is lost, or a key expires.
Mishap == mishaps < MaxMishaps /\ mishaps' = mishaps + 1

\* SET key value, whose error the caller may ignore.
SetOrMiss(key, j, value) ==
  \/ key' = [key EXCEPT ![j] = value] /\ UNCHANGED mishaps
  \/ Mishap /\ UNCHANGED key

-----------------------------------------------------------------------------
\* submit_disk_path_job: XADD, SET pending, INSERT, each after the other; an
\* error ends the request where it stands, whether the command was carried
\* out and its reply lost or not.
SubmitVars == <<execVars, pel, link, handed, pending, resultKey, completedAt,
                reader, crashes>>

EnqueueAdd(j) ==
  /\ submit[j] = "new"
  /\ \/ /\ stream' = Append(stream, j)
        /\ submit' = [submit EXCEPT ![j] = "added"]
        /\ UNCHANGED mishaps
     \/ /\ stream' \in {stream, Append(stream, j)}
        /\ submit' = [submit EXCEPT ![j] = "error"]
        /\ Mishap
  /\ UNCHANGED <<SubmitVars, statusKey, row>>

EnqueueAnnounce(j) ==
  /\ submit[j] = "added"
  /\ \/ /\ statusKey' = [statusKey EXCEPT ![j] = "pending"]
        /\ submit' = [submit EXCEPT ![j] = "announced"]
        /\ UNCHANGED mishaps
     \/ /\ statusKey' \in {statusKey, [statusKey EXCEPT ![j] = "pending"]}
        /\ submit' = [submit EXCEPT ![j] = "error"]
        /\ Mishap
  /\ UNCHANGED <<SubmitVars, stream, row>>

InsertRow(j) ==
  /\ submit[j] = "announced"
  /\ \/ /\ row' = [row EXCEPT ![j] = "pending"]
        /\ submit' = [submit EXCEPT ![j] = "done"]
        /\ UNCHANGED mishaps
     \/ /\ row' \in {row, [row EXCEPT ![j] = "pending"]}
        /\ submit' = [submit EXCEPT ![j] = "error"]
        /\ Mishap
  /\ UNCHANGED <<SubmitVars, stream, statusKey>>

-----------------------------------------------------------------------------
\* fetch_job: XREADGROUP with ">" delivers the oldest new entry to this
\* consumer; the stream id is remembered.
FetchVars == <<execVars, submit, keyVars, dbVars, reader, crashes>>

\* Mutant of Fetch: reads its own pending entries (id "0") as well.
FetchRereadsPending(w) ==
  /\ stage[w] = "idle"
  /\ link[w] = "ready"
  /\ \/ /\ stream # <<>>
        /\ handed' = [handed EXCEPT ![w] = Head(stream)]
        /\ stream' = Tail(stream)
     \/ /\ \E j \in Jobs :
             <<w, j>> \in pel /\ handed' = [handed EXCEPT ![w] = j]
        /\ UNCHANGED stream
  /\ pel' = pel \cup {<<w, handed'[w]>>}
  /\ pending' = [pending EXCEPT ![w] = @ \cup {handed'[w]}]
  /\ link' = [link EXCEPT ![w] = "announce"]
  /\ UNCHANGED <<FetchVars, mishaps>>

\* Mutant of Fetch: the group reads with NOACK.
FetchNoAck(w) ==
  /\ stage[w] = "idle"
  /\ link[w] = "ready"
  /\ stream # <<>>
  /\ handed' = [handed EXCEPT ![w] = Head(stream)]
  /\ stream' = Tail(stream)
  /\ pending' = [pending EXCEPT ![w] = @ \cup {Head(stream)}]
  /\ link' = [link EXCEPT ![w] = "announce"]
  /\ UNCHANGED <<FetchVars, pel, mishaps>>

Fetch(w) ==
  /\ stage[w] = "idle"
  /\ link[w] = "ready"
  /\ stream # <<>>
  /\ handed' = [handed EXCEPT ![w] = Head(stream)]
  /\ stream' = Tail(stream)
  /\ pel' = pel \cup {<<w, Head(stream)>>}
  /\ pending' = [pending EXCEPT ![w] = @ \cup {Head(stream)}]
  /\ link' = [link EXCEPT ![w] = "announce"]
  /\ UNCHANGED <<FetchVars, mishaps>>

\* The reply is lost, or the entry does not parse as a JobDocument: fetch_job
\* returns an error and the entry stays pending.
FetchFails(w) ==
  /\ stage[w] = "idle"
  /\ link[w] = "ready"
  /\ stream # <<>>
  /\ stream' = Tail(stream)
  /\ pel' = pel \cup {<<w, Head(stream)>>}
  /\ Mishap
  /\ UNCHANGED <<FetchVars, link, handed, pending>>

\* Mutant of Announce: the status is the internal state "assigned".
AnnounceAssigned(w) ==
  /\ link[w] = "announce"
  /\ SetOrMiss(statusKey, handed[w], "assigned")
  /\ Receive(w, handed[w])
  /\ link' = [link EXCEPT ![w] = "ready"]
  /\ handed' = [handed EXCEPT ![w] = NoJob]
  /\ UNCHANGED <<submit, stream, pel, pending, resultKey, dbVars, reader,
                 crashes>>

\* publish_status "running", then the loop calls execute().
Announce(w) ==
  /\ link[w] = "announce"
  /\ SetOrMiss(statusKey, handed[w], "running")
  /\ Receive(w, handed[w])
  /\ link' = [link EXCEPT ![w] = "ready"]
  /\ handed' = [handed EXCEPT ![w] = NoJob]
  /\ UNCHANGED <<submit, stream, pel, pending, resultKey, dbVars, reader,
                 crashes>>

-----------------------------------------------------------------------------
\* ack_job and nack_job: XACK, then the result (ack only), then the status.
Xack(w) ==
  /\ stage[w] \in {"ok", "err"}
  /\ link[w] = "ready"
  /\ pending' = [pending EXCEPT ![w] = @ \ {job[w]}]
  /\ pel' = pel \ {<<w, job[w]>>}
  /\ link' = [link EXCEPT ![w] = IF stage[w] = "ok" THEN "publish_result"
                                                    ELSE "publish_status"]
  /\ UNCHANGED <<execVars, submit, stream, handed, keyVars, dbVars, reader,
                 crashes, mishaps>>

\* Mutant of XackFails: the stream id is looked up, not removed.
XackFailsKeepsId(w) ==
  /\ stage[w] \in {"ok", "err"}
  /\ link[w] = "ready"
  /\ pel' \in {pel, pel \ {<<w, job[w]>>}}
  /\ Mishap
  /\ Release(w)
  /\ UNCHANGED <<submit, stream, link, handed, pending, keyVars, dbVars,
                 reader, crashes>>

\* XACK fails, or its reply is lost: nothing is published, the loop goes on.
XackFails(w) ==
  /\ stage[w] \in {"ok", "err"}
  /\ link[w] = "ready"
  /\ pending' = [pending EXCEPT ![w] = @ \ {job[w]}]
  /\ pel' \in {pel, pel \ {<<w, job[w]>>}}
  /\ Mishap
  /\ Release(w)
  /\ UNCHANGED <<submit, stream, link, handed, keyVars, dbVars, reader,
                 crashes>>

\* publish_result: the result file, if it can be read, is copied to Redis.
PublishResult(w) ==
  /\ link[w] = "publish_result"
  /\ IF resultFile[job[w]] = "none"
       THEN UNCHANGED <<resultKey, mishaps>>
       ELSE SetOrMiss(resultKey, job[w], resultFile[job[w]])
  /\ link' = [link EXCEPT ![w] = "publish_status"]
  /\ UNCHANGED <<execVars, submit, stream, pel, handed, pending, statusKey,
                 dbVars, reader, crashes>>

\* Mutant of PublishStatus: nack_job reports completed, too.
PublishCompleted(w) ==
  /\ link[w] = "publish_status"
  /\ SetOrMiss(statusKey, job[w], "completed")
  /\ link' = [link EXCEPT ![w] = "ready"]
  /\ Release(w)
  /\ UNCHANGED <<submit, stream, pel, handed, pending, resultKey, dbVars,
                 reader, crashes>>

PublishStatus(w) ==
  /\ link[w] = "publish_status"
  /\ SetOrMiss(statusKey, job[w],
               IF stage[w] = "ok" THEN "completed" ELSE "failed")
  /\ link' = [link EXCEPT ![w] = "ready"]
  /\ Release(w)
  /\ UNCHANGED <<submit, stream, pel, handed, pending, resultKey, dbVars,
                 reader, crashes>>

-----------------------------------------------------------------------------
\* GET /jobs/{id}: SELECT the row, hydrate_job_record (GET the status, UPDATE
\* the row), then GET the status and the result for the answer.
ReadVars == <<execVars, submit, queueVars, keyVars, crashes>>

\* A GET whose error is turned into None.
GetOrMiss(v, value) ==
  \/ v = value /\ UNCHANGED mishaps
  \/ v = "none" /\ Mishap

SelectRow(r, j) ==
  /\ reader[r].at = "idle"
  /\ row[j] # "absent"
  /\ reader' = [reader EXCEPT ![r] =
       [@ EXCEPT !.at = "live", !.job = j, !.status = row[j],
                 !.done = completedAt[j]]]
  /\ UNCHANGED <<ReadVars, dbVars, mishaps>>

\* hydrate_job_record up to the UPDATE: the live status replaces the row's,
\* a finished one also sets completed_at, a pending one is not written back.
ReadLive(r) ==
  /\ reader[r].at = "live"
  /\ \E live \in Statuses \cup {"none"} :
       /\ GetOrMiss(live, statusKey[reader[r].job])
       /\ reader' = [reader EXCEPT ![r] =
            [@ EXCEPT !.at = IF live \in Finished \cup {"running"}
                               THEN "sync" ELSE "status",
                      !.status = IF live = "none" THEN reader[r].status
                                                  ELSE live,
                      !.done = reader[r].done \/ live \in Finished]]
  /\ UNCHANGED <<ReadVars, dbVars>>

\* Mutant of SyncRow: completed_at = $2, without COALESCE.
SyncRowNoCoalesce(r) ==
  /\ reader[r].at = "sync"
  /\ row' = [row EXCEPT ![reader[r].job] = reader[r].status]
  /\ completedAt' = [completedAt EXCEPT ![reader[r].job] = reader[r].done]
  /\ UNCHANGED mishaps
  /\ reader' = [reader EXCEPT ![r].at = "status"]
  /\ UNCHANGED ReadVars

\* sync_job_to_db: UPDATE ... completed_at = COALESCE($2, completed_at).
SyncRow(r) ==
  /\ reader[r].at = "sync"
  /\ \/ /\ row' = [row EXCEPT ![reader[r].job] = reader[r].status]
        /\ completedAt' = [completedAt EXCEPT ![reader[r].job] =
                             @ \/ reader[r].done]
        /\ UNCHANGED mishaps
     \/ Mishap /\ UNCHANGED dbVars
  /\ reader' = [reader EXCEPT ![r].at = "status"]
  /\ UNCHANGED ReadVars

ReadStatus(r) ==
  /\ reader[r].at = "status"
  /\ \E live \in Statuses \cup {"none"} :
       /\ GetOrMiss(live, statusKey[reader[r].job])
       /\ reader' = [reader EXCEPT ![r].live = live, ![r].at = "result"]
  /\ UNCHANGED <<ReadVars, dbVars>>

\* A torn result does not parse and is left out.
ReadResult(r) ==
  /\ reader[r].at = "result"
  /\ \E result \in FileContents \ {"torn"} :
       /\ GetOrMiss(result, IF resultKey[reader[r].job] = "torn" THEN "none"
                            ELSE resultKey[reader[r].job])
       /\ reader' = [reader EXCEPT ![r].result = result, ![r].at = "answered"]
  /\ UNCHANGED <<ReadVars, dbVars>>

NextRequest(r) ==
  /\ reader[r].at = "answered"
  /\ reader' = [reader EXCEPT ![r] = Idle]
  /\ UNCHANGED <<ReadVars, dbVars, mishaps>>

-----------------------------------------------------------------------------
\* The worker process dies with its transport; Redis and the database stay.
WorkerCrash(w) ==
  /\ crashes < MaxCrashes
  /\ Crash(w)
  /\ crashes' = crashes + 1
  /\ link' = [link EXCEPT ![w] = "ready"]
  /\ handed' = [handed EXCEPT ![w] = NoJob]
  /\ pending' = [pending EXCEPT ![w] = {}]
  /\ UNCHANGED <<submit, stream, pel, keyVars, dbVars, reader, mishaps>>

WorkerRestart(w) == Restart(w) /\ UNCHANGED pipeVars

\* The 24 hours of set_ex are over.
Expire(j) ==
  /\ Mishap
  /\ \/ /\ statusKey[j] # "none"
        /\ statusKey' = [statusKey EXCEPT ![j] = "none"]
        /\ UNCHANGED resultKey
     \/ /\ resultKey[j] # "none"
        /\ resultKey' = [resultKey EXCEPT ![j] = "none"]
        /\ UNCHANGED statusKey
  /\ UNCHANGED <<execVars, submit, queueVars, dbVars, reader, crashes>>

SubmitStep(j) == EnqueueAdd(j) \/ EnqueueAnnounce(j) \/ InsertRow(j)

ReaderStep(r) ==
  ReadLive(r) \/ SyncRow(r) \/ ReadStatus(r) \/ ReadResult(r) \/ NextRequest(r)

\* The worker loop: fetch, execute, ack or nack.
LoopStep(w) ==
  \/ Fetch(w)  \/ FetchFails(w) \/ Announce(w)
  \/ ExecuteStep(w) /\ UNCHANGED pipeVars
  \/ Xack(w)   \/ XackFails(w)  \/ PublishResult(w) \/ PublishStatus(w)

HandlerStep(w) ==
  /\ \/ HandlerOk(w)
     \/ HandlerErr(w)
     \/ \E j \in Jobs : BlockingWorkEnds(w, j)
  /\ UNCHANGED pipeVars

Next ==
  \/ \E j \in Jobs : SubmitStep(j) \/ Expire(j)
  \/ \E w \in Workers :
       LoopStep(w) \/ HandlerStep(w) \/ WorkerCrash(w) \/ WorkerRestart(w)
  \/ \E r \in Readers :
       ReaderStep(r) \/ \E j \in Jobs : SelectRow(r, j)

\* The API request and the worker loop run on, a supervisor restarts a dead
\* worker; a handler may hang and nobody has to poll.
Spec ==
  /\ Init
  /\ [][Next]_vars
  /\ \A j \in Jobs : WF_vars(EnqueueAnnounce(j) \/ InsertRow(j))
  /\ \A w \in Workers : WF_vars(LoopStep(w)) /\ WF_vars(WorkerRestart(w))

-----------------------------------------------------------------------------
InStream(j) == \E i \in DOMAIN stream : stream[i] = j

InPel(j) == \E w \in Workers : <<w, j>> \in pel

Holds(w, j) == handed[w] = j \/ job[w] = j

\* An entry the group counts as delivered that no worker will ever finish:
\* the code neither claims pending entries nor reads them again.
Orphan(j) == InPel(j) /\ \A w \in Workers : ~Holds(w, j)

\* Where the job is, as the abstract queue sees it.
PlaceOf(j) ==
  IF submit[j] = "new" THEN "new"
  ELSE IF InStream(j) THEN "queued"
  ELSE IF \E w \in Workers : Holds(w, j) THEN "held"
  ELSE "gone"

Delivery == INSTANCE JobDelivery WITH place <- [j \in Jobs |-> PlaceOf(j)]

\* The pipeline implements the abstract queue: a job moves forward from the
\* API to the stream to one worker, and is started there once.
DeliveryImplemented == Delivery!DeliverySpec

\* However many workers compete, crash and restart, and whatever commands or
\* replies get lost, the handler of a job is started at most once: fetch_job
\* reads only new entries and nack_job acknowledges, too.
AtMostOnce == \A j \in Jobs : starts[j] <= 1

\* A job a worker has taken and not finished is still among the group's
\* pending entries, so that a crash leaves a trace of it: ack_job and
\* nack_job come after execute() has returned.
UnfinishedStaysPending ==
  \A j \in Jobs :
    /\ verdict[j] = "none"
    /\ starts[j] > 0 \/ \E w \in Workers : Holds(w, j)
    => InPel(j)

\* No status anyone can read (the key, the row, an answer being put together)
\* claims an outcome other than the one execute() returned.
StatusTruthful ==
  \A j \in Jobs :
    LET Says(s) == \/ statusKey[j] = s
                   \/ row[j] = s
                   \/ \E r \in Readers :
                        /\ reader[r].job = j
                        /\ s \in {reader[r].status, reader[r].live}
    IN  /\ Says("completed") => verdict[j] = "ok"
        /\ Says("failed") => verdict[j] = "err"

\* A client that sees live_status "completed" gets the result in the same
\* answer: the worker publishes the result first and get_job reads it last.
\* (Without mishaps; a job answered from the idempotency cache has no result
\* under its own id.)
CompletedComesWithResult ==
  \A r \in Readers :
    /\ reader[r].at = "answered"
    /\ reader[r].live = "completed"
    /\ mishaps = 0
    /\ KeyOf[reader[r].job] = NoKey
    => reader[r].result = "completed"

\* A pending entry without a worker that is on it exists only after a crash
\* or a failed command.
OrphanedOnlyByFault ==
  crashes = 0 /\ mishaps = 0 => \A j \in Jobs : ~Orphan(j)

\* An entry is pending exactly while it is worked on, whatever the order of
\* XREADGROUP, execution and XACK in two workers, but for faults, which may
\* leave it pending and never lose it.
PendingIsExact == UnfinishedStaysPending /\ OrphanedOnlyByFault

\* The transport's id map holds nothing but the job in hand: no path through
\* ack_job and nack_job, the failing ones included, leaves an entry behind.
PendingMapBounded ==
  \A w \in Workers : \A j \in pending[w] : Holds(w, j)

\* completed_at, once set, is not cleared by a request that read the row
\* before it was set (COALESCE in sync_job_to_db).
CompletedAtSticks ==
  [][\A j \in Jobs : completedAt[j] => completedAt'[j]]_vars

\* Once a client is told that its job is completed it has the result, and no
\* later request takes the completion back.
CompletedIsFinal == []CompletedComesWithResult /\ CompletedAtSticks

\* Every entry of the stream is eventually acknowledged or orphaned: neither
\* a hanging handler nor another worker's crash blocks the queue.
EntriesSettle ==
  \A j \in Jobs : InStream(j) ~> (~InStream(j) /\ (InPel(j) => Orphan(j)))

-----------------------------------------------------------------------------
\* What a client of the repository relies on and the code does not keep: the
\* live status of a submitted job reaches "completed" or "failed".
LiveStatusSettles ==
  \A j \in Jobs : submit[j] = "done" ~> statusKey[j] \in Finished

=============================================================================
