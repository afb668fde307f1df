---------------------------- MODULE JobExecutor ----------------------------
(***************************************************************************)
(* The job executor of guestkit-worker (executor.rs), the result writer it *)
(* calls (result.rs) and the process it lives in (worker.rs), for a set of *)
(* worker processes.  A worker handles one job at a time; the stages of    *)
(* JobExecutor::execute are separated where the code awaits, because the   *)
(* process may die there and other processes run meanwhile.  Where a job   *)
(* comes from and what follows execute() is the transport's part.          *)
(***************************************************************************)
EXTENDS JobState, Integers, FiniteSets

CONSTANTS
  Workers,        \* worker processes
  Jobs,           \* job documents, one per job_id
  Keys,           \* idempotency keys
  NoKey,          \* stands for execution.idempotency_key = None
  NoJob,          \* a worker that holds no job
  KeyOf,          \* job -> its idempotency key or NoKey
  MaxDeliveries   \* bound: how many times a job is handed to a worker

ASSUME ExecutorAssumption ==
  /\ NoJob \notin Jobs
  /\ NoKey \notin Keys
  /\ KeyOf \in [Jobs -> Keys \cup {NoKey}]
  /\ MaxDeliveries \in Nat

VARIABLES
  stage,       \* where the worker is in its loop and in execute()
  job,         \* the job it holds
  machine,     \* current_state of the job's JobStateMachine
  cache,       \* idempotency_cache: keys with a stored result path
  active,      \* the active_jobs gauge
  working,     \* jobs whose handler code is running on the worker's threads
  cleanupDue,  \* jobs whose handler started and whose cleanup() has not run
  resultFile,  \* <job_id>-result.json in the results directory
  verdict,     \* what execute() last returned for the job
  deliveries,  \* how many jobs were handed to workers (history, bounded)
  starts,      \* how often the job's handler was started (history)
  saved        \* successful results saved per key, in this process (history)

execVars == <<stage, job, machine, cache, active, working, cleanupDue,
              resultFile, verdict, deliveries, starts, saved>>

Stages == {"idle", "fetched", "validating", "assigned", "running",
           "saving_ok", "saving_err", "ok", "err", "rejected", "down"}

FileContents == {"none", "torn", "completed", "failed"}

ExecTypeOK ==
  /\ stage \in [Workers -> Stages]
  /\ job \in [Workers -> Jobs \cup {NoJob}]
  /\ machine \in [Workers -> States]
  /\ cache \in [Workers -> SUBSET Keys]
  /\ active \in [Workers -> Int]
  /\ working \in [Workers -> SUBSET Jobs]
  /\ cleanupDue \in [Workers -> SUBSET Jobs]
  /\ resultFile \in [Jobs -> FileContents]
  /\ verdict \in [Jobs -> {"none", "ok", "err"}]
  /\ deliveries \in 0 .. MaxDeliveries
  /\ starts \in [Jobs -> Nat]
  /\ saved \in [Workers -> [Keys -> Nat]]

ExecInit ==
  /\ stage = [w \in Workers |-> "idle"]
  /\ job = [w \in Workers |-> NoJob]
  /\ machine = [w \in Workers |-> "pending"]
  /\ cache = [w \in Workers |-> {}]
  /\ active = [w \in Workers |-> 0]
  /\ working = [w \in Workers |-> {}]
  /\ cleanupDue = [w \in Workers |-> {}]
  /\ resultFile = [j \in Jobs |-> "none"]
  /\ verdict = [j \in Jobs |-> "none"]
  /\ deliveries = 0
  /\ starts = [j \in Jobs |-> 0]
  /\ saved = [w \in Workers |-> [k \in Keys |-> 0]]

-----------------------------------------------------------------------------
\* state.transition(to)?: on a legal target go on at `next`; otherwise
\* execute() returns InvalidStateTransition, here the stage "rejected".
Transition(w, to, next) ==
  IF IsValidTransition(machine[w], to)
    THEN /\ machine' = [machine EXCEPT ![w] = to]
         /\ stage' = [stage EXCEPT ![w] = next]
    ELSE /\ stage' = [stage EXCEPT ![w] = "rejected"]
         /\ UNCHANGED machine

\* execute() returns: the verdict the worker loop acks or nacks on.
Return(w, v) ==
  /\ stage' = [stage EXCEPT ![w] = v]
  /\ verdict' = [verdict EXCEPT ![job[w]] = v]

\* The loop has a job in hand (the transport's fetch_job returned it) and
\* calls execute(), which makes a fresh state machine.
Receive(w, j) ==
  /\ stage[w] = "idle"
  /\ deliveries < MaxDeliveries
  /\ stage' = [stage EXCEPT ![w] = "fetched"]
  /\ job' = [job EXCEPT ![w] = j]
  /\ machine' = [machine EXCEPT ![w] = "pending"]
  /\ deliveries' = deliveries + 1
  /\ UNCHANGED <<cache, active, working, cleanupDue, resultFile,
                 verdict, starts, saved>>

\* A known idempotency key: execute() returns Ok at once, with the gauge
\* already incremented.
CacheHit(w) ==
  /\ stage[w] = "fetched"
  /\ KeyOf[job[w]] \in cache[w]
  /\ active' = [active EXCEPT ![w] = @ + 1]
  /\ Return(w, "ok")
  /\ UNCHANGED <<job, machine, cache, working, cleanupDue, resultFile,
                 deliveries, starts, saved>>

\* Mutants of CacheMiss: the key is not looked up; the gauge is not raised.
CacheMissUnchecked(w) ==
  /\ stage[w] = "fetched"
  /\ active' = [active EXCEPT ![w] = @ + 1]
  /\ Transition(w, "queued", "validating")
  /\ UNCHANGED <<job, cache, working, cleanupDue, resultFile, verdict,
                 deliveries, starts, saved>>

CacheMissNoIncrement(w) ==
  /\ stage[w] = "fetched"
  /\ KeyOf[job[w]] \notin cache[w]
  /\ Transition(w, "queued", "validating")
  /\ UNCHANGED <<job, cache, active, working, cleanupDue, resultFile,
                 verdict, deliveries, starts, saved>>

\* An unknown key, or none: Pending -> Queued, then validate_job.
CacheMiss(w) ==
  /\ stage[w] = "fetched"
  /\ KeyOf[job[w]] \notin cache[w]
  /\ active' = [active EXCEPT ![w] = @ + 1]
  /\ Transition(w, "queued", "validating")
  /\ UNCHANGED <<job, cache, working, cleanupDue, resultFile, verdict,
                 deliveries, starts, saved>>

\* validate_job fails: a VALIDATION_ERROR result is written, the gauge is
\* not decremented.
ValidateFails(w) ==
  /\ stage[w] = "validating"
  /\ stage' = [stage EXCEPT ![w] = "saving_err"]
  /\ UNCHANGED <<job, machine, cache, active, working, cleanupDue,
                 resultFile, verdict, deliveries, starts, saved>>

ValidateOk(w) ==
  /\ stage[w] = "validating"
  /\ Transition(w, "assigned", "assigned")
  /\ UNCHANGED <<job, cache, active, working, cleanupDue, resultFile,
                 verdict, deliveries, starts, saved>>

\* Assigned -> Running, then execute_with_handler starts the handler.
StartHandler(w) ==
  /\ stage[w] = "assigned"
  /\ Transition(w, "running", "running")
  /\ working' = [working EXCEPT ![w] = @ \cup {job[w]}]
  /\ cleanupDue' = [cleanupDue EXCEPT ![w] = @ \cup {job[w]}]
  /\ starts' = [starts EXCEPT ![job[w]] = @ + 1]
  /\ UNCHANGED <<job, cache, active, resultFile, verdict, deliveries, saved>>

\* Mutant of HandlerReturns: cleanup() runs after a success only.
HandlerReturnsUncleaned(w, to, next) ==
  /\ stage[w] = "running"
  /\ Transition(w, to, next)
  /\ active' = [active EXCEPT ![w] = @ - 1]
  /\ working' = [working EXCEPT ![w] = @ \ {job[w]}]
  /\ cleanupDue' = IF to = "completed" THEN [cleanupDue EXCEPT ![w] = @ \ {job[w]}]
                   ELSE cleanupDue
  /\ UNCHANGED <<job, cache, resultFile, verdict, deliveries, starts, saved>>

\* The handler returned in time: cleanup() has run, the gauge goes down.
HandlerReturns(w, to, next) ==
  /\ stage[w] = "running"
  /\ Transition(w, to, next)
  /\ active' = [active EXCEPT ![w] = @ - 1]
  /\ working' = [working EXCEPT ![w] = @ \ {job[w]}]
  /\ cleanupDue' = [cleanupDue EXCEPT ![w] = @ \ {job[w]}]
  /\ UNCHANGED <<job, cache, resultFile, verdict, deliveries, starts, saved>>

HandlerOk(w) == HandlerReturns(w, "completed", "saving_ok")

HandlerErr(w) == HandlerReturns(w, "failed", "saving_err")

\* Mutant of HandlerTimeout: no default timer for a job without an
\* execution section.
HandlerTimeoutWithKeyOnly(w) ==
  /\ stage[w] = "running"
  /\ KeyOf[job[w]] # NoKey
  /\ Transition(w, "timeout", "saving_err")
  /\ active' = [active EXCEPT ![w] = @ - 1]
  /\ UNCHANGED <<job, cache, working, cleanupDue, resultFile, verdict,
                 deliveries, starts, saved>>

\* The timer fires first: the handler's future is dropped before its
\* cleanup() call, and work it put on a blocking thread (spawn_blocking)
\* goes on.
HandlerTimeout(w) ==
  /\ stage[w] = "running"
  /\ Transition(w, "timeout", "saving_err")
  /\ active' = [active EXCEPT ![w] = @ - 1]
  /\ UNCHANGED <<job, cache, working, cleanupDue, resultFile, verdict,
                 deliveries, starts, saved>>

\* The blocking work of a timed-out job ends by itself.
BlockingWorkEnds(w, j) ==
  /\ j \in working[w]
  /\ ~(stage[w] = "running" /\ job[w] = j)
  /\ working' = [working EXCEPT ![w] = @ \ {j}]
  /\ UNCHANGED <<stage, job, machine, cache, active, cleanupDue, resultFile,
                 verdict, deliveries, starts, saved>>

\* Mutant of SaveSuccess: the key is not remembered.
SaveSuccessNoCache(w) ==
  /\ stage[w] = "saving_ok"
  /\ resultFile' = [resultFile EXCEPT ![job[w]] = "completed"]
  /\ saved' = [saved EXCEPT ![w] = [k \in Keys |-> IF k = KeyOf[job[w]]
                                                   THEN @[k] + 1 ELSE @[k]]]
  /\ Return(w, "ok")
  /\ UNCHANGED <<job, machine, cache, active, working, cleanupDue, deliveries,
                 starts>>

\* write_success, then the key is remembered and execute() returns Ok.
SaveSuccess(w) ==
  /\ stage[w] = "saving_ok"
  /\ resultFile' = [resultFile EXCEPT ![job[w]] = "completed"]
  /\ cache' = [cache EXCEPT ![w] = @ \cup ({KeyOf[job[w]]} \cap Keys)]
  /\ saved' = [saved EXCEPT ![w] = [k \in Keys |-> IF k = KeyOf[job[w]]
                                                   THEN @[k] + 1 ELSE @[k]]]
  /\ Return(w, "ok")
  /\ UNCHANGED <<job, machine, active, working, cleanupDue, deliveries, starts>>

\* Mutant of SaveFailure: the machine's state is written as the status.
SaveFailureByState(w) ==
  /\ stage[w] = "saving_err"
  /\ resultFile' = [resultFile EXCEPT ![job[w]] = machine[w]]
  /\ Return(w, "err")
  /\ UNCHANGED <<job, machine, cache, active, working, cleanupDue, deliveries,
                 starts, saved>>

\* write_failure, then execute() returns the error.
SaveFailure(w) ==
  /\ stage[w] = "saving_err"
  /\ resultFile' = [resultFile EXCEPT ![job[w]] = "failed"]
  /\ Return(w, "err")
  /\ UNCHANGED <<job, machine, cache, active, working, cleanupDue, deliveries,
                 starts, saved>>

\* create_dir_all or fs::write fails (fs::write truncates before it writes):
\* the `?` turns even a completed job into an error.
SaveFails(w) ==
  /\ stage[w] \in {"saving_ok", "saving_err"}
  /\ \E content \in {resultFile[job[w]], "torn"} :
       resultFile' = [resultFile EXCEPT ![job[w]] = content]
  /\ Return(w, "err")
  /\ UNCHANGED <<job, machine, cache, active, working, cleanupDue, deliveries,
                 starts, saved>>

\* The loop is done with the job (ack_job or nack_job returned).
Release(w) ==
  /\ stage[w] \in {"ok", "err"}
  /\ stage' = [stage EXCEPT ![w] = "idle"]
  /\ job' = [job EXCEPT ![w] = NoJob]
  /\ UNCHANGED <<machine, cache, active, working, cleanupDue, resultFile,
                 verdict, deliveries, starts, saved>>

\* The process dies: everything in memory goes, a result being written may
\* be torn.
Crash(w) ==
  /\ stage[w] # "down"
  /\ stage' = [stage EXCEPT ![w] = "down"]
  /\ job' = [job EXCEPT ![w] = NoJob]
  /\ machine' = [machine EXCEPT ![w] = "pending"]
  /\ cache' = [cache EXCEPT ![w] = {}]
  /\ active' = [active EXCEPT ![w] = 0]
  /\ working' = [working EXCEPT ![w] = {}]
  /\ cleanupDue' = [cleanupDue EXCEPT ![w] = {}]
  /\ saved' = [saved EXCEPT ![w] = [k \in Keys |-> 0]]
  /\ \/ UNCHANGED resultFile
     \/ /\ stage[w] \in {"saving_ok", "saving_err"}
        /\ resultFile' = [resultFile EXCEPT ![job[w]] = "torn"]
  /\ UNCHANGED <<verdict, deliveries, starts>>

Restart(w) ==
  /\ stage[w] = "down"
  /\ stage' = [stage EXCEPT ![w] = "idle"]
  /\ UNCHANGED <<job, machine, cache, active, working, cleanupDue, resultFile,
                 verdict, deliveries, starts, saved>>

-----------------------------------------------------------------------------
\* Steps of execute() that the worker takes by itself once it has a job.
ExecuteStep(w) ==
  \/ CacheHit(w)     \/ CacheMiss(w)
  \/ ValidateFails(w) \/ ValidateOk(w)
  \/ StartHandler(w) \/ HandlerTimeout(w)
  \/ SaveSuccess(w)  \/ SaveFailure(w)  \/ SaveFails(w)

\* Every step inside the process, the handler's own included.
ExecStep(w) ==
  \/ ExecuteStep(w)
  \/ HandlerOk(w)
  \/ HandlerErr(w)
  \/ \E j \in Jobs : BlockingWorkEnds(w, j)

\* The executor under a transport that may hand it any job, again and again.
ExecNext ==
  \E w \in Workers :
    \/ \E j \in Jobs : Receive(w, j)
    \/ ExecStep(w)
    \/ Release(w)
    \/ Crash(w)
    \/ Restart(w)

\* Fairness: the loop and the timer run; a handler may hang for ever.
ExecSpec ==
  /\ ExecInit
  /\ [][ExecNext]_execVars
  /\ \A w \in Workers : WF_execVars(ExecuteStep(w))

-----------------------------------------------------------------------------
\* No call of state.transition in execute() is ever refused: the table has
\* every transition the executor takes, in every order it takes them.
TransitionsAccepted == \A w \in Workers : stage[w] # "rejected"

\* When execute() returns Ok the job's result file says completed, or the key
\* was already completed in this process (the early return on a cache hit).
OkMeansSaved ==
  \A w \in Workers :
    stage[w] = "ok" =>
      resultFile[job[w]] = "completed" \/ KeyOf[job[w]] \in cache[w]

\* Within one process life a key is executed to success at most once, however
\* often and under whatever job_id it is delivered.
IdempotentInProcess ==
  \A w \in Workers : \A k \in Keys : saved[w][k] <= 1

\* The gauge never reports fewer jobs than execute() is working on: no path
\* decrements it twice or before it was incremented.
GaugeCoversInFlight ==
  \A w \in Workers :
    active[w] >= IF stage[w] \in {"validating", "assigned", "running"}
                   THEN 1 ELSE 0

\* Blocking work that still runs and a cleanup() that has not run belong to the
\* handler at work or to a job whose last execution timed out: "Cleanup (always
\* run, even on failure)" and the limit of concurrent jobs hold but for those.
LeftBehindOnlyByTimeout ==
  \A w \in Workers : \A j \in cleanupDue[w] \cup working[w] :
    \/ job[w] = j /\ (stage[w] = "running" \/ machine[w] = "timeout")
    \/ verdict[j] = "err"
    \/ KeyOf[j] \in cache[w]    \* answered from the cache since

\* Once a key is remembered, no later delivery, failed write or timeout may
\* destroy the completed result file the cache entry points to.
CachedResultStable ==
  [][\A w \in Workers : \A j \in Jobs :
        /\ resultFile[j] = "completed"
        /\ KeyOf[j] \in cache[w]
        => resultFile'[j] = "completed"]_execVars

\* execute() answers Ok only for a result that is saved, and what a repetition
\* is answered from stays there.
ResultsAreKept == []OkMeansSaved /\ CachedResultStable

-----------------------------------------------------------------------------
\* What the repository says of the executor and the code does not keep.

\* "Cleanup (always run, even on failure)": once the worker is done with a job
\* the handler's cleanup() has run.
CleanupAlwaysRuns ==
  \A w \in Workers : stage[w] = "idle" => cleanupDue[w] = {}

\* "Maximum concurrent jobs" (max_concurrent_jobs, here set to 1): the worker
\* never does the work of two jobs at once.
ConcurrencyLimited ==
  \A w \in Workers : Cardinality(working[w]) <= 1

=============================================================================
