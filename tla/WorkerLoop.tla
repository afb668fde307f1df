------------------------------ MODULE WorkerLoop ------------------------------
(***************************************************************************)
(* The worker's main loop (worker.rs) over the file transport or the HTTP      *)
(* transport: fetch, execute, ack or nack.  What execute does is JobExecutor;   *)
(* here it ends with or without an error.  The worker may die at any step.     *)
(***************************************************************************)
EXTENDS FileTransport, HttpTransport

CONSTANTS
  NoJob,
  MaxCrashes,     \* bound: deaths of the worker
  MaxMishaps      \* bound: renames that fail

ASSUME LoopAssumption ==
  /\ Ids = Jobs /\ NoJob \notin Jobs
  /\ MaxSubmits \in Nat /\ MaxCrashes \in Nat /\ MaxMishaps \in Nat

VARIABLES
  using,      \* the transport the worker was started with
  current,    \* the job in the loop
  verdict,    \* what execute returned for it
  runs,       \* job -> executions in this life of the worker
  crashes, mishaps

loopVars == <<using, current, verdict, runs, crashes, mishaps>>
vars == <<fileVars, httpVars, loopVars>>

TypeOK ==
  /\ FileTypeOK /\ HttpTypeOK
  /\ using \in {"file", "http"}
  /\ current \in Jobs \cup {NoJob}
  /\ verdict \in {"none", "ok", "error"}
  /\ runs \in [Jobs -> Nat]
  /\ crashes \in 0 .. MaxCrashes /\ mishaps \in 0 .. MaxMishaps

Init ==
  /\ FileInit /\ HttpInit
  /\ using \in {"file", "http"}
  /\ current = NoJob /\ verdict = "none"
  /\ runs = [j \in Jobs |-> 0]
  /\ crashes = 0 /\ mishaps = 0

-----------------------------------------------------------------------------
(* The file transport is created before the loop starts. *)
StartUp ==
  /\ using = "file"
  /\ Open \/ Scan
  /\ UNCHANGED <<httpVars, loopVars>>

Fetch ==
  /\ current = NoJob
  /\ \E j \in Jobs :
       /\ current' = j
       /\ \/ using = "file" /\ FileFetch(j) /\ UNCHANGED httpVars
          \/ using = "http" /\ HttpFetch(j) /\ UNCHANGED fileVars
  /\ UNCHANGED <<using, verdict, runs, crashes, mishaps>>

(* Transport error: the loop sleeps and goes on. *)
FetchError ==
  /\ current = NoJob /\ using = "file"
  /\ FileFetchFails
  /\ UNCHANGED <<httpVars, loopVars>>

Execute ==
  /\ current # NoJob /\ verdict = "none"
  /\ verdict' \in {"ok", "error"}
  /\ runs' = [runs EXCEPT ![current] = @ + 1]
  /\ UNCHANGED <<fileVars, httpVars, using, current, crashes, mishaps>>

(* ack_job after Ok, nack_job after Err; their errors are logged. *)
Acknowledge ==
  /\ verdict # "none"
  /\ \/ /\ using = "file" /\ UNCHANGED httpVars
        /\ \/ MoveTo(current, IF verdict = "ok" THEN "done" ELSE "failed", TRUE)
              /\ UNCHANGED mishaps
           \/ /\ mishaps < MaxMishaps /\ mishaps' = mishaps + 1
              /\ MoveTo(current, "watch", FALSE)
     \/ /\ using = "http" /\ UNCHANGED <<fileVars, mishaps>>
        /\ Settle(current, IF verdict = "ok" THEN "completed" ELSE "failed")
  /\ current' = NoJob /\ verdict' = "none"
  /\ UNCHANGED <<using, runs, crashes>>

WorkerStep == StartUp \/ Fetch \/ FetchError \/ Execute \/ Acknowledge

Crash ==
  /\ crashes < MaxCrashes /\ crashes' = crashes + 1
  /\ FileRestart /\ HttpRestart
  /\ current' = NoJob /\ verdict' = "none"
  /\ runs' = [j \in Jobs |-> 0]
  /\ UNCHANGED <<using, mishaps>>

Produce(j) ==
  /\ \/ /\ using = "file" /\ (CreateFile(j) \/ WriteFile(j) \/ RenameIn(j))
        /\ UNCHANGED httpVars
     \/ /\ using = "http" /\ (Submit(j) \/ Track(j) \/ DropSubmit(j))
        /\ UNCHANGED fileVars
  /\ UNCHANGED loopVars

Next == WorkerStep \/ Crash \/ \E j \in Jobs : Produce(j)

Spec == Init /\ [][Next]_vars /\ WF_vars(WorkerStep)

-----------------------------------------------------------------------------
InChannel(j) == \E i \in 1 .. Len(paths) : paths[i] = j

(* A complete job file in the watched directory is on its way to the loop, or was run    *)
(* by this worker, unless its path was received before the file was complete or it came   *)
(* by a rename behind the watcher's back (FileTransport::new, fetch_job).                *)
FileIsOnItsWay ==
  \A j \in Jobs : watching # "off" /\ place[j] = "watch" =>
    j \in toScan \/ InChannel(j) \/ current = j \/ runs[j] > 0 \/ j \in early \cup silent

(* The watcher and the scan may both announce a file, yet within one life of the         *)
(* worker it is run once, unless this file was not moved out of the directory after the   *)
(* first time; over HTTP a job is run no more often than it was submitted.               *)
RunsAreAccounted ==
  \A j \in Jobs :
    /\ using = "file" => runs[j] <= 1 \/ j \in stayed
    /\ using = "http" => runs[j] <= submits[j]

(* The entry of a job that was submitted once tells where the job is: queued, in the      *)
(* loop, or done with (HttpTransport); a submission that was cut off leaves no entry.     *)
StatusTellsPlace ==
  \A j \in Jobs : submits[j] = 1 /\ statusMap[j] # "none" =>
    /\ statusMap[j] = "pending" <=> \E i \in 1 .. Len(queue) : queue[i] = j
    /\ statusMap[j] = "assigned" <=> current = j

(* Such a file, one left from before the worker started included, is run, across crashes  *)
(* of the worker and whatever else is in the directory.                                  *)
CompleteFileIsRun ==
  \A j \in Jobs :
    using = "file" /\ place[j] = "watch" /\ j \notin early \cup silent ~> runs[j] > 0

(* No complete job file is forgotten, but in the two ways FileIsOnItsWay names.            *)
NoFileIsForgotten == []FileIsOnItsWay /\ CompleteFileIsRun

-----------------------------------------------------------------------------
(* What crates/guestkit-worker/README.md and examples/worker-jobs/README.md say and the   *)
(* code does not keep: a job file put into the directory is picked up automatically.      *)
EveryFileIsRun ==
  \A j \in Jobs : using = "file" /\ place[j] = "watch" ~> runs[j] > 0

=============================================================================
