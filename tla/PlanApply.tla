------------------------------ MODULE PlanApply ------------------------------
(***************************************************************************)
(* LivePlanExecutor (cli/plan/executor_live.rs): the operations of a plan    *)
(* applied in the guest, snapshots of the files they change, validation,     *)
(* fail_fast and auto_rollback; a crash of the agent at any step, a rollback  *)
(* on request and a second application of the same plan.                    *)
(***************************************************************************)
EXTENDS PlanOrder

CONSTANTS
  Files,
  MaxFaults,      \* bound: errors, failed validations and crashes
  MaxApplies      \* bound: applications of the plan

ASSUME ApplyAssumption == MaxFaults \in Nat /\ MaxApplies \in Nat \ {0}

\* A file's content before the plan is the file itself, an operation stands for
\* what it writes, and the rest are marks.
Marks == {"absent", "dangling", "partial"}
ASSUME FilesAssumption == Files \cap Ops = {} /\ (Files \cup Ops) \cap Marks = {}

VARIABLES
  kind,       \* operation -> what apply_operation does
  file,       \* operation -> the file it changes
  failFast, autoRollback,
  backupName, \* file -> the name of its copy; paths may differ and names agree
  initial,    \* file -> its content before the plan
  content,    \* file -> its content
  backup,     \* name of a copy -> what it holds
  manifest,   \* files the manifest lists
  torn,       \* the manifest is cut off and cannot be parsed
  pos,        \* position of the next operation in sorted
  inner,      \* how far that operation is
  status,     \* operation -> OpStatus
  outcome,    \* what apply returned
  rolledBack, \* a rollback ended without error
  applies, faults

planVars == <<kind, file, failFast, autoRollback, backupName, initial>>
diskVars == <<content, backup, manifest, torn>>
vars == <<orderVars, phase, planVars, diskVars, pos, inner, status, outcome, rolledBack, applies,
          faults>>

Kinds == {"edit",      \* FileEdit, FilePermissions, SelinuxMode
          "delete",    \* FileDelete
          "write",     \* FileWrite, FileCopy with backup
          "link",      \* Symlink, FileCopy without backup
          "command",   \* CommandExec, packages, services, directories
          "registry"}  \* RegistryEdit, skipped on Linux
Contents == Marks \cup Files \cup Ops

TypeOK ==
  /\ OrderTypeOK
  /\ phase \in {"count", "sort", "run", "rollback", "post", "end", "down"}
  /\ kind \in [Ops -> Kinds] /\ file \in [Ops -> Files]
  /\ failFast \in BOOLEAN /\ autoRollback \in BOOLEAN
  /\ backupName \in [Files -> Files]
  /\ initial \in [Files -> Contents] /\ content \in [Files -> Contents]
  /\ backup \in [Files -> Contents]
  /\ manifest \subseteq Files /\ torn \in BOOLEAN
  /\ pos \in 1 .. Cardinality(Ops) + 1
  /\ inner \in {"begin", "copied", "ready"}
  /\ status \in [Ops -> {"none", "applied", "skipped", "failed", "rolled_back", "not_reached"}]
  /\ outcome \in {"none", "success", "failure", "error"}
  /\ rolledBack \in BOOLEAN
  /\ applies \in 1 .. MaxApplies /\ faults \in 0 .. MaxFaults

Init ==
  /\ OrderInit
  /\ kind \in [Ops -> Kinds] /\ file \in [Ops -> Files]
  /\ failFast \in BOOLEAN /\ autoRollback \in BOOLEAN
  /\ backupName \in [Files -> Files]
  /\ initial \in [Files -> Contents]
  /\ \A f \in Files : initial[f] \in {"absent", "dangling", f}
  /\ content = initial
  /\ backup = [f \in Files |-> "absent"] /\ manifest = {} /\ torn = FALSE
  /\ pos = 1 /\ inner = "begin"
  /\ status = [o \in Ops |-> "none"]
  /\ outcome = "none" /\ rolledBack = FALSE
  /\ applies = 1 /\ faults = 0

-----------------------------------------------------------------------------
Fault == faults < MaxFaults /\ faults' = faults + 1

Current == sorted[pos]
Target == file[Current]
Slot == backupName[Target]
Running == phase = "run" /\ pos <= Len(sorted)
Snapshots(o) == kind[o] \in {"edit", "delete", "write"}

\* Path::exists, which follows links.
Exists(f) == content[f] \notin {"absent", "dangling"}

(* The rollback directory is created, and the loop over the operations starts. *)
StartRun ==
  /\ phase = "sort" /\ queue = <<>>
  /\ phase' = "run"
  /\ UNCHANGED <<orderVars, planVars, diskVars, pos, inner, status, outcome, rolledBack, applies,
                 faults>>

\* Mutant: fail_fast is not looked at.
FinishGoesOn(r) ==
  /\ inner' = "begin"
  /\ pos' = pos + 1 /\ status' = [status EXCEPT ![Current] = r]

(* The outcome of an operation.  After a failure under fail_fast the rest are   *)
(* not reached.                                                              *)
Finish(r) ==
  LET rest == {sorted[i] : i \in pos + 1 .. Len(sorted)}
  IN /\ inner' = "begin"
     /\ IF r = "failed" /\ failFast
        THEN /\ pos' = Len(sorted) + 1
             /\ status' = [o \in Ops |-> IF o = Current THEN r
                                         ELSE IF o \in rest THEN "not_reached" ELSE status[o]]
        ELSE pos' = pos + 1 /\ status' = [status EXCEPT ![Current] = r]

runStill == <<orderVars, phase, planVars, outcome, rolledBack, applies>>

(* The operation fails before it has written anything. *)
OpFails ==
  /\ Running /\ kind[Current] # "registry"
  /\ Fault
  /\ Finish("failed")
  /\ UNCHANGED <<runStill, diskVars>>

(* The file to edit or delete is not there: an error, or (SelinuxMode, missing_ok)  *)
(* an operation that has nothing to do.  Only an edit takes a dangling link for it.  *)
Missing ==
  /\ Running /\ inner = "begin"
  /\ \/ kind[Current] \in {"edit", "delete"} /\ content[Target] = "absent"
     \/ kind[Current] = "edit" /\ content[Target] = "dangling"
  /\ Finish("failed") \/ Finish("applied")
  /\ UNCHANGED <<runStill, diskVars, faults>>

(* What is to be copied before it is changed. *)
Copying == Running /\ inner = "begin" /\ Snapshots(Current) /\ Exists(Target)

\* Mutant: the copy is made after the first write to the file.
SnapshotCopyLate ==
  /\ Copying
  /\ content' = [content EXCEPT ![Target] = Current]
  /\ backup' = [backup EXCEPT ![Slot] = Current]
  /\ inner' = "copied"
  /\ UNCHANGED <<runStill, manifest, torn, pos, status, faults>>

(* snapshot_file: the copy replaces an earlier one of that name, or breaks off; ... *)
SnapshotCopy ==
  /\ Copying
  /\ \/ /\ backup' = [backup EXCEPT ![Slot] = content[Target]]
        /\ inner' = "copied"
        /\ UNCHANGED <<pos, status, faults>>
     \/ /\ backup' = [backup EXCEPT ![Slot] = "partial"]
        /\ Fault /\ Finish("failed")
  /\ UNCHANGED <<runStill, content, manifest, torn>>

\* Mutant: a manifest that cannot be parsed is passed over.
SnapshotEntryIgnoresTorn ==
  /\ Running /\ inner = "copied"
  /\ \/ torn /\ inner' = "ready" /\ UNCHANGED <<manifest, torn, pos, status, faults>>
     \/ /\ ~torn /\ manifest' = manifest \cup {Target}
        /\ inner' = "ready" /\ UNCHANGED <<torn, pos, status, faults>>
     \/ /\ ~torn /\ Target \notin manifest
        /\ manifest' = {} /\ torn' = TRUE
        /\ Fault /\ Finish("failed")
  /\ UNCHANGED <<runStill, content, backup>>

(* ... and the manifest is written again with the file's entry, or cut off. *)
SnapshotEntry ==
  /\ Running /\ inner = "copied"
  /\ \/ torn /\ Finish("failed") /\ UNCHANGED <<manifest, torn, faults>>
     \/ /\ ~torn /\ manifest' = manifest \cup {Target}
        /\ inner' = "ready" /\ UNCHANGED <<torn, pos, status, faults>>
     \/ /\ ~torn /\ Target \notin manifest
        /\ manifest' = {} /\ torn' = TRUE
        /\ Fault /\ Finish("failed")
  /\ UNCHANGED <<runStill, content, backup>>

(* No snapshot is missing: none is made of a file that does not exist. *)
Ready ==
  \/ inner = "ready"
  \/ inner = "begin" /\ kind[Current] \in {"link", "command"}
  \/ inner = "begin" /\ kind[Current] = "write" /\ ~Exists(Target)
  \/ inner = "begin" /\ kind[Current] = "delete" /\ content[Target] = "dangling"

Become(results) == {[content EXCEPT ![Target] = c] : c \in results}

(* What the files hold after the operation; a new link may lead nowhere. *)
Written ==
  CASE kind[Current] = "command" -> {content}
    [] kind[Current] = "delete" -> Become({"absent"})
    [] kind[Current] = "link" -> Become({Current, "dangling"})
    [] OTHER -> Become({Current})

(* What one that breaks off leaves: a removal has no such state, and a link's old      *)
(* file is removed first.                                                         *)
CutOff ==
  CASE kind[Current] \in {"command", "delete"} -> {content}
    [] kind[Current] = "link" -> Become({"partial", "absent"})
    [] OTHER -> Become({"partial"})

(* The change and the operation's validation; either may fail. *)
Change ==
  /\ Running /\ Ready
  /\ \/ content' \in Written /\ Finish("applied") /\ UNCHANGED faults
     \/ content' \in Written \cup CutOff /\ Finish("failed") /\ Fault
  /\ UNCHANGED <<runStill, backup, manifest, torn>>

Skip ==
  /\ Running /\ kind[Current] = "registry"
  /\ Finish("skipped")
  /\ UNCHANGED <<runStill, diskVars, faults>>

AnyFailed == \E o \in Ops : status[o] = "failed"

(* After the last operation. *)
EndRun ==
  /\ phase = "run" /\ pos > Len(sorted)
  /\ phase' = IF ~AnyFailed THEN "post" ELSE IF autoRollback THEN "rollback" ELSE "end"
  /\ outcome' = IF AnyFailed /\ ~autoRollback THEN "failure" ELSE outcome
  /\ UNCHANGED <<orderVars, planVars, diskVars, pos, inner, status, rolledBack, applies, faults>>

Restored(S) == [f \in Files |-> IF f \in S THEN backup[backupName[f]] ELSE content[f]]

\* Some files are copied back and the copy of the next one breaks off.
HalfRestored == {[Restored(S) EXCEPT ![f] = "partial"] : S \in SUBSET manifest, f \in manifest}

\* Mutant: the loop leaves out the file that was listed last.
RestoreAllButOne ==
  /\ ~torn /\ UNCHANGED faults /\ rolledBack' = TRUE
  /\ \E f \in Files : content' = Restored(manifest \ {f})

(* rollback: every listed file is copied back; an error ends the loop, in the     *)
(* middle of a file perhaps.                                                   *)
Restore ==
  \/ /\ ~torn /\ content' = Restored(manifest)
     /\ rolledBack' = TRUE /\ UNCHANGED faults
  \/ torn /\ UNCHANGED <<content, rolledBack, faults>>
  \/ /\ ~torn /\ content' \in HalfRestored
     /\ Fault /\ UNCHANGED rolledBack

AutoRollback ==
  /\ phase = "rollback"
  /\ Restore
  /\ status' = IF rolledBack' THEN [o \in Ops |-> IF status[o] = "applied" THEN "rolled_back"
                                                  ELSE status[o]]
               ELSE status
  /\ phase' = "end" /\ outcome' = "failure"
  /\ UNCHANGED <<orderVars, planVars, backup, manifest, torn, pos, inner, applies>>

(* run_post_apply, whose error is returned although the plan is applied. *)
PostApply ==
  /\ phase = "post"
  /\ phase' = "end"
  /\ \/ outcome' = "success" /\ UNCHANGED faults
     \/ outcome' = "error" /\ Fault
  /\ UNCHANGED <<orderVars, planVars, diskVars, pos, inner, status, rolledBack, applies>>

(* The agent dies in the middle of apply: between two steps, or in a copy to the       *)
(* rollback directory, a rewrite of the manifest, a write or a copy back.            *)
Crash ==
  /\ phase \in {"run", "rollback", "post"}
  /\ Fault
  /\ phase' = "down"
  /\ \/ UNCHANGED diskVars
     \/ /\ Copying /\ backup' = [backup EXCEPT ![Slot] = "partial"]
        /\ UNCHANGED <<content, manifest, torn>>
     \/ /\ Running /\ inner = "copied" /\ ~torn /\ Target \notin manifest
        /\ manifest' = {} /\ torn' = TRUE
        /\ UNCHANGED <<content, backup>>
     \/ /\ \/ Running /\ Ready /\ content' \in CutOff
           \/ phase = "rollback" /\ ~torn /\ content' \in HalfRestored
        /\ UNCHANGED <<backup, manifest, torn>>
  /\ UNCHANGED <<orderVars, planVars, pos, inner, status, outcome, rolledBack, applies>>

(* run_fix_plan_rollback, by plan id, whatever became of apply. *)
RollbackRequest ==
  /\ phase \in {"end", "down"} /\ ~rolledBack
  /\ Restore
  /\ UNCHANGED <<orderVars, phase, planVars, backup, manifest, torn, pos, inner, status, outcome,
                 applies>>

(* The same plan again: its id, and so its rollback directory, are the same. *)
Reapply ==
  /\ phase \in {"end", "down"} /\ applies < MaxApplies
  /\ applies' = applies + 1
  /\ phase' = "count"
  /\ degree' = [o \in Ops |-> Cardinality(deps[o])]
  /\ queue' = <<>> /\ sorted' = <<>>
  /\ pos' = 1 /\ inner' = "begin" /\ status' = [o \in Ops |-> "none"]
  /\ outcome' = "none" /\ rolledBack' = FALSE
  /\ UNCHANGED <<deps, planVars, diskVars, faults>>

sortStill == <<planVars, diskVars, pos, inner, status, outcome, rolledBack, applies, faults>>

ExecutorStep ==
  \/ (StartSort \/ Pop) /\ UNCHANGED sortStill
  \/ StartRun \/ Missing \/ SnapshotCopy \/ SnapshotEntry \/ Change \/ Skip \/ OpFails
  \/ EndRun \/ AutoRollback \/ PostApply

Next == ExecutorStep \/ Crash \/ RollbackRequest \/ Reapply

Spec == Init /\ [][Next]_vars

-----------------------------------------------------------------------------
\* o is the only operation that may change its file, or one whose copy has the
\* same name.
Alone(o) ==
  \A p \in Ops \ {o} :
    kind[p] \in {"command", "registry"} \/ backupName[file[p]] # backupName[file[o]]

(* At every moment, across errors and crashes, a file that differs from what it was      *)
(* before the plan is listed in the manifest, unless the operation takes no snapshot      *)
(* or the manifest itself was cut off; and in the first application the copy under its      *)
(* name is the original, if one operation alone uses that name (snapshot_file).  A second   *)
(* operation, a path that gives the same name, or a second application overwrite it.        *)
ChangesAreKept ==
  \A f \in Files : initial[f] = f /\ content[f] # f =>
    \/ torn \/ \E o \in Ops : kind[o] = "link" /\ file[o] = f
    \/ /\ f \in manifest
       /\ \A o \in Ops : applies = 1 /\ file[o] = f /\ Snapshots(o) /\ Alone(o)
            => backup[backupName[f]] = f

(* Once the manifest cannot be parsed no file of the guest is changed any more      *)
(* without the possibility to undo it: snapshot_file fails before the change.       *)
TornStopsChanges ==
  [][torn => \A f \in Files : content'[f] # content[f] =>
       ~Exists(f) \/ \E o \in Ops : file[o] = f /\ ~Snapshots(o)]_vars

(* While a file differs from its original, the manifest lists it and, if only one        *)
(* operation uses the name of its copy, the original is there; and once the manifest is    *)
(* cut off no file is changed.                                                          *)
UndoStaysPossible == []ChangesAreKept /\ TornStopsChanges

(* Under fail_fast an operation runs only when everything it depends on was          *)
(* applied or skipped, and nothing runs after a failure (aborted in apply).        *)
FailFastStops ==
  failFast =>
    /\ Cardinality({o \in Ops : status[o] = "failed"}) <= 1
    /\ \A o \in Ops : status[o] \in {"applied", "skipped", "failed", "rolled_back"} =>
         \A d \in deps[o] : status[d] \in {"applied", "skipped", "rolled_back"}

(* After a rollback without error a file that one operation changed, in the first     *)
(* application of the plan, is as it was before, whatever failed or crashed, if no     *)
(* other operation uses the name of its copy.                                       *)
RollbackUndoes ==
  rolledBack /\ applies = 1 =>
    \A o \in Ops : Alone(o) /\ Snapshots(o) /\ initial[file[o]] = file[o] =>
      content[file[o]] = file[o]

(* executor_live.rs, tests: a rollback restores the original content.  Refuted by the   *)
(* second operation on a file, by two paths with one name, by a second application.     *)
OriginalRestored ==
  rolledBack =>
    \A f \in Files : initial[f] = f /\ (\A o \in Ops : file[o] = f => Snapshots(o)) =>
      content[f] = f

=============================================================================
