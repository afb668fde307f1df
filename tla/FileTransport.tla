---------------------------- MODULE FileTransport ----------------------------
(***************************************************************************)
(* The worker's file transport (transport/file.rs): a watched directory, a     *)
(* scan when the worker starts, a channel of paths, and the move of a job file  *)
(* to the done or the failed directory.                                      *)
(***************************************************************************)
EXTENDS Integers, FiniteSets, Sequences

CONSTANT Jobs

VARIABLES
  place,      \* job -> where its file is: "none", "writing", "watch", "done", "failed"
  misnamed,   \* jobs whose file is not called <job_id>.json
  watching,   \* "off", "scan" (watch set, directory being read), "on"
  toScan,     \* entries the directory stream has still to return
  paths,      \* job_queue
  early,      \* jobs whose path was received before the file was complete (history)
  silent,     \* jobs whose file came without an event and behind the scan (history)
  stayed      \* jobs whose file was not moved after they were run (history)

historyVars == <<early, silent, stayed>>
fileVars == <<place, misnamed, watching, toScan, paths, historyVars>>

Present == {j \in Jobs : place[j] \in {"writing", "watch"}}

FileTypeOK ==
  /\ place \in [Jobs -> {"none", "writing", "watch", "done", "failed"}]
  /\ misnamed \subseteq Jobs
  /\ early \subseteq Jobs /\ silent \subseteq Jobs /\ stayed \subseteq Jobs
  /\ watching \in {"off", "scan", "on"}
  /\ toScan \subseteq Jobs /\ paths \in Seq(Jobs)

FileInit ==
  /\ place = [j \in Jobs |-> "none"]
  /\ misnamed \in SUBSET Jobs
  /\ watching = "off" /\ toScan = {} /\ paths = <<>>
  /\ early = {} /\ silent = {} /\ stayed = {}

(* A producer creates the file, which is the event the watcher passes on (and an     *)
(* entry the directory stream may return as well), ...                             *)
CreateFile(j) ==
  /\ place[j] = "none"
  /\ place' = [place EXCEPT ![j] = "writing"]
  /\ paths' = IF watching = "off" THEN paths ELSE Append(paths, j)
  /\ toScan' \in {toScan} \cup IF watching = "scan" THEN {toScan \cup {j}} ELSE {}
  /\ UNCHANGED <<misnamed, watching, historyVars>>

(* ... and fills it. *)
WriteFile(j) ==
  /\ place[j] = "writing"
  /\ place' = [place EXCEPT ![j] = "watch"]
  /\ UNCHANGED <<misnamed, watching, toScan, paths, historyVars>>

(* Or it moves a complete file in.  A rename is no Create event; the directory    *)
(* stream may still return it.                                                 *)
RenameIn(j) ==
  /\ place[j] = "none"
  /\ place' = [place EXCEPT ![j] = "watch"]
  /\ \/ toScan' = toScan /\ silent' = IF watching = "off" THEN silent ELSE silent \cup {j}
     \/ watching = "scan" /\ toScan' = toScan \cup {j} /\ UNCHANGED silent
  /\ UNCHANGED <<misnamed, watching, paths, early, stayed>>

(* new: the watch is set first, then the directory is read. *)
Open ==
  /\ watching = "off"
  /\ watching' = "scan" /\ toScan' = Present
  /\ UNCHANGED <<place, misnamed, paths, historyVars>>

Scan ==
  /\ watching = "scan"
  /\ \/ \E j \in toScan : /\ toScan' = toScan \ {j}
                          /\ paths' = Append(paths, j)
        /\ UNCHANGED watching
     \/ toScan = {} /\ watching' = "on" /\ UNCHANGED <<toScan, paths>>
  /\ UNCHANGED <<place, misnamed, historyVars>>

(* fetch_job: the next path, whose file is complete ... *)
FileFetch(j) ==
  /\ watching = "on" /\ paths # <<>> /\ Head(paths) = j
  /\ place[j] = "watch"
  /\ paths' = Tail(paths)
  /\ UNCHANGED <<place, misnamed, watching, toScan, historyVars>>

\* Mutant: a path whose file cannot be read is tried again.
FileFetchFailsRetries ==
  /\ watching = "on" /\ paths # <<>>
  /\ place[Head(paths)] # "watch"
  /\ UNCHANGED fileVars

(* ... or cannot be parsed yet, or has been moved: the path is dropped. *)
FileFetchFails ==
  /\ watching = "on" /\ paths # <<>>
  /\ place[Head(paths)] # "watch"
  /\ paths' = Tail(paths)
  /\ early' = early \cup {j \in {Head(paths)} : place[j] = "writing"}
  /\ UNCHANGED <<place, misnamed, watching, toScan, silent, stayed>>

\* Mutant: the file is copied and stays in the watched directory.
MoveToCopies(j, dir, moved) == UNCHANGED fileVars

(* move_to_done, move_to_failed: the file <job_id>.json, if there is one; the      *)
(* rename may fail.                                                             *)
MoveTo(j, dir, moved) ==
  LET moves == moved /\ j \notin misnamed
  IN /\ place' = IF moves THEN [place EXCEPT ![j] = dir] ELSE place
     /\ stayed' = IF moves THEN stayed ELSE stayed \cup {j}
     /\ UNCHANGED <<misnamed, watching, toScan, paths, early, silent>>

(* The process ends, and with it the channel and the watch. *)
FileRestart ==
  /\ watching' = "off" /\ toScan' = {} /\ paths' = <<>>
  /\ early' = {} /\ silent' = {} /\ stayed' = {}
  /\ UNCHANGED <<place, misnamed>>

=============================================================================
