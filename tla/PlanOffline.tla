------------------------------ MODULE PlanOffline ------------------------------
(***************************************************************************)
(* PlanApplicator (cli/plan/apply.rs): a plan applied to the disk image of a     *)
(* VM that is not running.  The image is copied first; operations go on after      *)
(* a failure; a rollback copies a backup over the image.                        *)
(***************************************************************************)
EXTENDS PlanOrder

CONSTANTS MaxOfflineFaults, MaxOfflineApplies

ASSUME OfflineAssumption == MaxOfflineFaults \in Nat /\ MaxOfflineApplies \in Nat \ {0}

VARIABLES
  skipBackup,
  image,      \* operations whose change the image holds; with Unknown: cut off
  backups,    \* the backup files, by what they hold
  sameSecond, \* a backup took the name, and the place, of an earlier one
  stage,      \* how far apply is; "off": another executor has the plan
  loopAt,     \* position of the next operation in sorted
  tally,      \* operation -> "none", "applied", "skipped", "failed"
  answer,     \* result of the last apply
  offlineFaults, offlineApplies

imageVars == <<image, backups, sameSecond>>
offlineVars == <<skipBackup, imageVars, stage, loopAt, tally, answer, offlineFaults,
                 offlineApplies>>

CutOffImage == {Unknown}

OfflineInit ==
  /\ skipBackup \in BOOLEAN
  /\ image = {} /\ backups = {} /\ sameSecond = FALSE
  /\ stage \in {"validate", "off"} /\ loopAt = 1
  /\ tally = [o \in Ops |-> "none"] /\ answer = "none"
  /\ offlineApplies = 1 /\ offlineFaults = 0

-----------------------------------------------------------------------------
OfflineFault == offlineFaults < MaxOfflineFaults /\ offlineFaults' = offlineFaults + 1

Stage(s) == stage' = s /\ UNCHANGED <<phase, answer>>
Answers(r) == stage' = "idle" /\ phase' = "end" /\ answer' = r

(* validate, before `plan apply` applies anything. *)
PlanIsValid == ~HasCircular /\ \A o \in Ops : Unknown \notin deps[o]

ValidatePlan ==
  /\ stage = "validate"
  /\ IF PlanIsValid THEN Stage("backup") ELSE Answers("refused")
  /\ UNCHANGED <<orderVars, skipBackup, imageVars, loopAt, tally, offlineApplies, offlineFaults>>

\* Mutant: the plan is applied although the copy failed.
BackupBestEffort ==
  /\ stage = "backup" /\ Stage("open")
  /\ \/ backups' = (IF skipBackup THEN backups ELSE backups \cup {image})
        /\ UNCHANGED offlineFaults
     \/ OfflineFault /\ UNCHANGED backups
  /\ UNCHANGED <<orderVars, skipBackup, image, sameSecond, loopAt, tally, offlineApplies>>

(* The copy of the image, under a name of its own or, within one second of an earlier    *)
(* backup, in that one's place.                                                       *)
CopyTo(copy) ==
  \/ backups' = backups \cup {copy} /\ UNCHANGED sameSecond
  \/ /\ \E b \in backups : backups' = (backups \ {b}) \cup {copy}
     /\ sameSecond' = TRUE

(* create_backup, unless --skip-backup; its failure refuses the plan and leaves what  *)
(* was copied.                                                                    *)
Backup ==
  /\ stage = "backup"
  /\ \/ skipBackup /\ Stage("open") /\ UNCHANGED <<backups, sameSecond, offlineFaults>>
     \/ ~skipBackup /\ Stage("open") /\ CopyTo(image) /\ UNCHANGED offlineFaults
     \/ /\ ~skipBackup /\ OfflineFault /\ Answers("refused")
        /\ CopyTo(CutOffImage) \/ UNCHANGED <<backups, sameSecond>>
  /\ UNCHANGED <<orderVars, skipBackup, image, loopAt, tally, offlineApplies>>

(* The handle, its launch, the inspection and the mounts.  An image that was cut off    *)
(* may have no operating system to find, or still have one.                           *)
OpenImage ==
  /\ stage = "open"
  /\ \/ Stage("sort") /\ UNCHANGED offlineFaults
     \/ Answers("refused") /\ OfflineFault
     \/ Unknown \in image /\ Answers("refused") /\ UNCHANGED offlineFaults
  /\ UNCHANGED <<orderVars, skipBackup, imageVars, loopAt, tally, offlineApplies>>

SortOffline ==
  /\ stage = "sort"
  /\ \/ (StartSort \/ Pop) /\ UNCHANGED stage
     \/ /\ phase = "sort" /\ queue = <<>>
        /\ phase' = "run" /\ stage' = "loop" /\ UNCHANGED orderVars
  /\ UNCHANGED <<skipBackup, imageVars, loopAt, tally, answer, offlineApplies, offlineFaults>>

(* One operation; a failed one may have made its change, or some of it. *)
Operate ==
  /\ stage = "loop" /\ loopAt <= Len(sorted)
  /\ loopAt' = loopAt + 1
  /\ LET done == image \cup {sorted[loopAt]}
     IN \/ tally' = [tally EXCEPT ![sorted[loopAt]] = "applied"]
           /\ image' = done /\ UNCHANGED offlineFaults
        \/ tally' = [tally EXCEPT ![sorted[loopAt]] = "skipped"]
           /\ UNCHANGED <<image, offlineFaults>>
        \/ tally' = [tally EXCEPT ![sorted[loopAt]] = "failed"]
           /\ image' \in {image, done} /\ OfflineFault
  /\ UNCHANGED <<orderVars, phase, skipBackup, backups, sameSecond, stage, answer,
                 offlineApplies>>

(* umount_all and shutdown, whose errors are logged, and the result. *)
EndApply ==
  /\ stage = "loop" /\ loopAt > Len(sorted)
  /\ Answers(IF \E o \in Ops : tally[o] = "failed" THEN "failed" ELSE "success")
  /\ UNCHANGED <<orderVars, skipBackup, imageVars, loopAt, tally, offlineApplies, offlineFaults>>

(* The process dies in apply, in the middle of a copy or an operation perhaps. *)
OfflineDies ==
  /\ stage \in {"backup", "open", "sort", "loop"} /\ OfflineFault
  /\ stage' = "idle" /\ phase' = "down"
  /\ \/ UNCHANGED <<backups, sameSecond>>
     \/ stage = "backup" /\ ~skipBackup /\ CopyTo(CutOffImage)
  /\ image' \in {image} \cup (IF stage = "loop" /\ loopAt <= Len(sorted)
                             THEN {image \cup {sorted[loopAt]}} ELSE {})
  /\ UNCHANGED <<orderVars, skipBackup, loopAt, tally, answer, offlineApplies>>

(* rollback: a backup is copied over the image; the copy may break off. *)
RollbackImage ==
  /\ stage = "idle"
  /\ \E b \in backups : \/ image' = b /\ UNCHANGED offlineFaults
                        \/ image' = CutOffImage /\ OfflineFault
  /\ UNCHANGED <<orderVars, phase, skipBackup, backups, sameSecond, stage, loopAt, tally,
                 answer, offlineApplies>>

(* The plan again, on what the image holds by now. *)
ApplyAgain ==
  /\ stage = "idle"
  /\ offlineApplies < MaxOfflineApplies /\ offlineApplies' = offlineApplies + 1
  /\ stage' = "validate" /\ phase' = "count" /\ answer' = "none"
  /\ degree' = [o \in Ops |-> Cardinality(deps[o])]
  /\ queue' = <<>> /\ sorted' = <<>>
  /\ loopAt' = 1 /\ tally' = [o \in Ops |-> "none"]
  /\ UNCHANGED <<deps, skipBackup, imageVars, offlineFaults>>

OfflineStep == ValidatePlan \/ Backup \/ OpenImage \/ SortOffline \/ Operate \/ EndApply
OfflineNext == OfflineStep \/ OfflineDies \/ RollbackImage \/ ApplyAgain

OfflineSpec == OrderInit /\ OfflineInit /\ [][OfflineNext]_<<orderVars, phase, offlineVars>>

-----------------------------------------------------------------------------
(* Unless the caller skipped it, there is a complete backup of the original image as   *)
(* soon as the image differs from it, across failures, deaths, further applications     *)
(* and rollbacks that broke off.  Two exceptions: create_backup leaves a copy that broke  *)
(* off under the name of a backup, rollback takes it and the plan may be applied to it;    *)
(* and backups are named by the second, so that of a second application can replace the     *)
(* first one's.                                                                          *)
OriginalIsKept ==
  image # {} /\ ~skipBackup /\ ~sameSecond =>
    {} \in backups \/ (Unknown \in image /\ \E b \in backups : Unknown \in b)

=============================================================================
