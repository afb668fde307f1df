------------------------------ MODULE SelfUpdate ------------------------------
(***************************************************************************)
(* The guest agent's self-update (agent/updater.rs): the daily timer runs       *)
(* check, staging and, through the privileged helper, the installation over      *)
(* the agent's binaries in place.  An archive and the binary in it have          *)
(* different SHA-256 sums.                                                    *)
(***************************************************************************)
EXTENDS Integers, FiniteSets

CONSTANTS
  Targets,    \* install paths that are real files in this guest
  Latest,     \* newest version the server offers; versions are 1 .. Latest
  MaxFaults   \* bound: failed downloads, writes and deaths of the updater

VARIABLES
  offered,    \* version of the bundle on the server
  version,    \* version of the running agent
  installed,  \* target -> version of its file, 0 when the copy broke off
  staged,     \* content of STAGED_AGENT: version, 0 when there is none or half of one
  meta,       \* STAGED_META: [version, sha256], NoMeta
  step,       \* where --scheduled-update is
  got,        \* version of the archive in memory
  todo,       \* targets still to be written
  faults

vars == <<offered, version, installed, staged, meta, step, got, todo, faults>>

Versions == 1 .. Latest
Sha(kind, v) == <<kind, v>>
NoMeta == [version |-> 0, sha256 |-> Sha("none", 0)]

Init ==
  /\ offered = 1 /\ version = 1
  /\ installed = [t \in Targets |-> 1]
  /\ staged = 0 /\ meta = NoMeta
  /\ step = "idle" /\ got = 0 /\ todo = {}
  /\ faults = 0

Fault == faults < MaxFaults /\ faults' = faults + 1
files == <<installed, staged, meta>>

Publish ==
  /\ offered < Latest /\ offered' = offered + 1
  /\ UNCHANGED <<version, files, step, got, todo, faults>>

(* run_scheduled_update: check_update and version_greater, with auto_apply on. *)
Check ==
  /\ step = "idle" /\ offered > version
  /\ step' = "stage"
  /\ UNCHANGED <<offered, version, files, got, todo, faults>>

(* stage_update: the second check, signature, download and sum of the archive. *)
Download ==
  /\ step = "stage"
  /\ got' = offered /\ step' = IF offered > version THEN "extract" ELSE "idle"
  /\ UNCHANGED <<offered, version, files, todo, faults>>

(* extract_agent_binary_from_tar_gz *)
Extract ==
  /\ step = "extract"
  /\ staged' = got /\ step' = "describe"
  /\ UNCHANGED <<offered, version, installed, meta, got, todo, faults>>

(* The metadata holds the sum of the downloaded archive. *)
Describe ==
  /\ step = "describe"
  /\ meta' = [version |-> got, sha256 |-> Sha("archive", got)]
  /\ step' = "apply"
  /\ UNCHANGED <<offered, version, installed, staged, got, todo, faults>>

(* apply_staged_update_privileged: the sum of the staged binary is compared. *)
Apply ==
  /\ step = "apply"
  /\ IF meta # NoMeta /\ staged # 0 /\ Sha("binary", staged) = meta.sha256
     THEN step' = "install" /\ todo' = Targets
     ELSE step' = "idle" /\ UNCHANGED todo
  /\ UNCHANGED <<offered, version, files, got, faults>>

(* fs::copy onto a target, in place. *)
Install ==
  /\ step = "install"
  /\ \E t \in todo :
       /\ installed' = [installed EXCEPT ![t] = staged]
       /\ todo' = todo \ {t}
       /\ step' = IF todo = {t} THEN "restart" ELSE "install"
  /\ UNCHANGED <<offered, version, staged, meta, got, faults>>

(* try-restart of the services: the agent starts from one of the targets. *)
Restart ==
  /\ step = "restart"
  /\ version' \in {installed[t] : t \in Targets} \ {0}
  /\ step' = "idle"
  /\ UNCHANGED <<offered, files, got, todo, faults>>

(* An error or the end of the process, which leaves the file being written cut off. *)
Fails ==
  /\ step # "idle" /\ Fault
  /\ step' = "idle" /\ todo' = {}
  /\ staged' = IF step = "extract" THEN 0 ELSE staged
  /\ meta' = IF step = "describe" THEN NoMeta ELSE meta
  /\ \/ step # "install" /\ UNCHANGED installed
     \/ step = "install" /\ \E t \in todo : installed' = [installed EXCEPT ![t] = 0]
  /\ UNCHANGED <<offered, version, got>>

UpdaterStep == Check \/ Download \/ Extract \/ Describe \/ Apply \/ Install \/ Restart

Next == Publish \/ UpdaterStep \/ Fails

Spec == Init /\ [][Next]_vars /\ WF_vars(UpdaterStep)

(* docs/features/guest-agent.md: the timer keeps the agent up to date where the policy     *)
(* allows it: a version that the server offers is installed in the end.                   *)
UpdateArrives == \A v \in Versions : offered = v ~> version >= v

=============================================================================
