------------------------------ MODULE LvmClone ------------------------------
(***************************************************************************)
(* Cloning of a logical volume (guestfs/lvm_clone.rs): lvm_clone and        *)
(* lvm_clone_podman, for several processes that clone one source at once.   *)
(* The snapshot is named after the source, so they share its name.  Every   *)
(* external command is a step of its own, because other processes run and   *)
(* the process may die between two of them; any command may fail.           *)
(***************************************************************************)
EXTENDS Integers, FiniteSets, Sequences

CONSTANTS
  Clones,       \* processes that run lvm_clone on the source
  Targets,      \* names of target volumes
  NoClone,      \* a volume that does not exist has no creator
  MaxFaults     \* bound: commands that fail and processes that die

ASSUME CloneAssumption ==
  /\ NoClone \notin Clones /\ "host" \notin Targets
  /\ MaxFaults \in Nat

Files == {"fstab", "bootloader", "crypttab"}

VARIABLES
  \* configuration of a clone
  mode,        \* "sudo" (lvm_clone) or "podman"
  targetOf,    \* clone -> its clone_lv_name
  wants,       \* what is asked for
  fs,          \* what the source holds, a member of FileSystems
  original,    \* file -> "old" if it names the source's UUID, else "none"
  \* the host
  snapOwner,   \* the clone that created <source>-clone-snap, NoClone if absent
  owner,       \* target -> the clone that created it, NoClone if absent
  data,        \* target -> "empty", "partial" or "copy"
  newUuid,     \* targets whose device carries a new UUID
  named,       \* target -> file -> which UUID it names
  rooted,      \* clones whose target is mounted on their temporary directory
  binds,       \* clone -> directory -> bind mounts on it below that directory
  wiped,       \* targets, and "host", whose files a TempDir drop has deleted
  container,   \* clones whose podman container runs
  \* the process
  pc,          \* clone -> its next step
  mapped,      \* clones with a UuidMapping
  flags,       \* clone -> the *_updated flags of its CloneResult
  tries,       \* clone -> tools of this step that have failed
  result,      \* clone -> "none", "ok", "err" or "dead"
  faults,      \* failures so far
  dirty        \* clone -> kinds of failures it met (history)

hostVars == <<snapOwner, owner, data, newUuid, named>>
mountVars == <<rooted, binds, wiped>>
configVars == <<mode, targetOf, wants, fs, original>>
vars == <<configVars, hostVars, mountVars, container, pc, mapped, flags, tries,
          result, faults, dirty>>

Steps == {"start", "validate", "snapshot", "target", "drop_snap", "copy", "drop_both",
          "drop_target", "unsnap", "uuid", "mount", "files", "hostname", "initramfs",
          "grub", "unmount", "end"}
Wishes == Files \cup {"dry_run", "uuid", "hostname", "initramfs", "grub", "verify"}
FileSystems == {"ext",     \* also xfs and btrfs: mounted, and its UUID can be set
                "swap",    \* its UUID can be set
                "fat",     \* also NTFS: mounted, its UUID is skipped
                "other",   \* mounted, setting its UUID is an error
                "luks", "bare"}
Uuids == {"none", "old", "new", "cut"}   \* "cut": the file was cut off
Tools == [initramfs |-> 3, grub |-> 2]

TypeOK ==
  /\ mode \in [Clones -> {"sudo", "podman"}]
  /\ wants \in [Clones -> SUBSET Wishes]
  /\ targetOf \in [Clones -> Targets]
  /\ fs \in FileSystems /\ original \in [Files -> {"none", "old"}]
  /\ snapOwner \in Clones \cup {NoClone}
  /\ owner \in [Targets -> Clones \cup {NoClone}]
  /\ data \in [Targets -> {"empty", "partial", "copy"}]
  /\ newUuid \subseteq Targets
  /\ named \in [Targets -> [Files -> Uuids]]
  /\ rooted \subseteq Clones
  /\ binds \in [Clones -> [1 .. 3 -> Nat]]
  /\ wiped \subseteq Targets \cup {"host"}
  /\ container \subseteq Clones
  /\ pc \in [Clones -> Steps]
  /\ mapped \subseteq Clones
  /\ flags \in [Clones -> SUBSET Files]
  /\ tries \in [Clones -> 0 .. 2]
  /\ result \in [Clones -> {"none", "ok", "err", "dead"}]
  /\ faults \in 0 .. MaxFaults
  /\ dirty \in [Clones -> SUBSET {"early", "cleanup", "late", "bind"}]

Init ==
  /\ mode \in [Clones -> {"sudo", "podman"}]
  /\ wants \in [Clones -> SUBSET Wishes]
  /\ targetOf \in [Clones -> Targets]
  /\ fs \in FileSystems /\ original \in [Files -> {"none", "old"}]
  /\ snapOwner = NoClone
  /\ owner = [v \in Targets |-> NoClone]
  /\ data = [v \in Targets |-> "empty"]
  /\ newUuid = {} /\ named = [v \in Targets |-> [f \in Files |-> "none"]]
  /\ rooted = {} /\ binds = [c \in Clones |-> [d \in 1 .. 3 |-> 0]] /\ wiped = {}
  /\ container = {}
  /\ pc = [c \in Clones |-> "start"]
  /\ mapped = {} /\ flags = [c \in Clones |-> {}]
  /\ tries = [c \in Clones |-> 0]
  /\ result = [c \in Clones |-> "none"]
  /\ faults = 0 /\ dirty = [c \in Clones |-> {}]

-----------------------------------------------------------------------------
Go(c, step) == pc' = [pc EXCEPT ![c] = step] /\ UNCHANGED <<result, container, mountVars>>

(* A command of clone c fails. *)
Fault(c, k) ==
  /\ faults < MaxFaults
  /\ faults' = faults + 1
  /\ dirty' = [dirty EXCEPT ![c] = @ \cup {k}]

NoFault == UNCHANGED <<faults, dirty>>

(* An error that the state of the host makes certain. *)
Refused(c) == dirty' = [dirty EXCEPT ![c] = @ \cup {"late"}] /\ UNCHANGED faults

Leaked(c) == \E d \in 1 .. 3 : binds[c][d] > 0

(* The function returns.  The temporary directory, if there is one, is     *)
(* deleted with everything below it, mounted or not (the process runs as    *)
(* root); then the container is stopped.                                    *)
Return(c, r) ==
  /\ pc' = [pc EXCEPT ![c] = "end"]
  /\ result' = [result EXCEPT ![c] = r]
  /\ wiped' = IF c \notin rooted THEN wiped
              ELSE wiped \cup {targetOf[c]} \cup (IF Leaked(c) THEN {"host"} ELSE {})
  /\ container' = container \ {c}
  /\ UNCHANGED <<rooted, binds>>

(* What is left alone by every step up to the mount. *)
early == <<configVars, mapped, flags, tries, newUuid>>

(* Namespace isolation, or the start of the container. *)
Start(c) ==
  /\ pc[c] = "start"
  /\ \/ /\ pc' = [pc EXCEPT ![c] = "validate"]
        /\ container' = IF mode[c] = "podman" THEN container \cup {c} ELSE container
        /\ NoFault /\ UNCHANGED <<result, mountVars>>
     \/ Fault(c, "early") /\ Return(c, "err")
  /\ UNCHANGED <<early, snapOwner, owner, data, named>>

(* The source exists and is not mounted, as far as findmnt tells; the       *)
(* target must not exist.  A dry run ends here.                             *)
Validate(c) ==
  /\ pc[c] = "validate"
  /\ \/ owner[targetOf[c]] # NoClone /\ Return(c, "err") /\ NoFault
     \/ Fault(c, "early") /\ Return(c, "err")
     \/ /\ owner[targetOf[c]] = NoClone /\ NoFault
        /\ IF "dry_run" \in wants[c] THEN Return(c, "ok") ELSE Go(c, "snapshot")
  /\ UNCHANGED <<early, snapOwner, owner, data, named>>

\* Mutant: the error path removes the snapshot, whoever created it.
SnapshotCleansUp(c) ==
  /\ pc[c] = "snapshot"
  /\ IF snapOwner = NoClone
     THEN Go(c, "target") /\ snapOwner' = c
     ELSE Return(c, "err") /\ snapOwner' = NoClone
  /\ NoFault /\ UNCHANGED <<early, owner, data, named>>

(* create_snapshot: lvcreate refuses a name that exists. *)
Snapshot(c) ==
  /\ pc[c] = "snapshot"
  /\ \/ snapOwner = NoClone /\ Go(c, "target") /\ snapOwner' = c /\ NoFault
     \/ snapOwner # NoClone /\ Return(c, "err") /\ UNCHANGED snapOwner /\ NoFault
     \/ snapOwner = NoClone /\ Fault(c, "early") /\ Return(c, "err") /\ UNCHANGED snapOwner
  /\ UNCHANGED <<early, owner, data, named>>

(* create_target_lv: lvcreate refuses a name that exists; after any error the  *)
(* snapshot is removed.                                                     *)
CreateTarget(c) ==
  /\ pc[c] = "target"
  /\ \/ /\ owner[targetOf[c]] = NoClone
        /\ Go(c, "copy")
        /\ owner' = [owner EXCEPT ![targetOf[c]] = c]
        /\ data' = [data EXCEPT ![targetOf[c]] = "empty"]
        /\ NoFault
     \/ /\ owner[targetOf[c]] # NoClone /\ Go(c, "drop_snap") /\ NoFault
        /\ UNCHANGED <<owner, data>>
     \/ /\ owner[targetOf[c]] = NoClone /\ Go(c, "drop_snap") /\ Fault(c, "early")
        /\ UNCHANGED <<owner, data>>
  /\ UNCHANGED <<early, snapOwner, named>>

\* Mutant: a failed copy removes the snapshot and leaves its target behind.
CopyKeepsTarget(c) ==
  /\ pc[c] = "copy"
  /\ Go(c, "drop_snap") /\ Fault(c, "early")
  /\ data' = [data EXCEPT ![targetOf[c]] = "partial"]
  /\ UNCHANGED <<early, snapOwner, owner, named>>

(* dd of the snapshot to the target; on failure both are removed. *)
Copy(c) ==
  /\ pc[c] = "copy"
  /\ \/ /\ Go(c, "unsnap") /\ NoFault
        /\ data' = [data EXCEPT ![targetOf[c]] = "copy"]
        /\ named' = [named EXCEPT ![targetOf[c]] = original]
     \/ /\ Go(c, "drop_both") /\ Fault(c, "early") /\ UNCHANGED named
        /\ data' = [data EXCEPT ![targetOf[c]] = "partial"]
  /\ UNCHANGED <<early, snapOwner, owner>>

(* The clean-up of the two error paths: each removal is a command of its own,  *)
(* by name, and its error is only logged.                                   *)
DropSnapshot(c) ==
  /\ pc[c] \in {"drop_snap", "drop_both"}
  /\ \/ snapOwner' = NoClone /\ NoFault
     \/ Fault(c, "cleanup") /\ UNCHANGED snapOwner
  /\ IF pc[c] = "drop_snap" THEN Return(c, "err") ELSE Go(c, "drop_target")
  /\ UNCHANGED <<early, owner, data, named>>

DropTarget(c) ==
  /\ pc[c] = "drop_target"
  /\ \/ owner' = [owner EXCEPT ![targetOf[c]] = NoClone] /\ NoFault
     \/ Fault(c, "cleanup") /\ UNCHANGED owner
  /\ Return(c, "err")
  /\ UNCHANGED <<early, snapOwner, data, named>>

(* remove_lv(&snap_path)? *)
RemoveSnapshot(c) ==
  /\ pc[c] = "unsnap"
  /\ \/ Go(c, "uuid") /\ snapOwner' = NoClone /\ NoFault
     \/ Return(c, "err") /\ Fault(c, "late") /\ UNCHANGED snapOwner
  /\ UNCHANGED <<early, owner, data, named>>

NeedsMount(c) == wants[c] \ {"uuid"} # {}
AfterUuid(c) == IF NeedsMount(c) THEN Go(c, "mount") ELSE Return(c, "ok")

uuidStill == <<configVars, snapOwner, owner, data, named, flags, tries>>

\* Mutant: a file-system tool that fails is taken for one that succeeded.
RegenerateUuidsIgnoresStatus(c) ==
  /\ pc[c] = "uuid"
  /\ AfterUuid(c)
  /\ mapped' = IF "uuid" \in wants[c] /\ fs # "bare" THEN mapped \cup {c} ELSE mapped
  /\ \/ newUuid' = newUuid \cup {targetOf[c]} /\ NoFault
     \/ Fault(c, "late") /\ UNCHANGED newUuid
  /\ UNCHANGED uuidStill

(* regenerate_clone_uuids, with detect_luks, change_luks_uuid, get_blkid_uuid *)
(* and set_filesystem_uuid.  Without a UUID there is nothing to do.  FAT and   *)
(* NTFS are skipped and still get a mapping.  An error of blkid or of the      *)
(* change of a LUKS UUID gives no mapping and no error; any other ends the     *)
(* clone, and so does a LUKS volume that isLuks failed to recognize.          *)
RegenerateUuids(c) ==
  /\ pc[c] = "uuid"
  /\ \/ /\ "uuid" \notin wants[c] \/ fs = "bare"
        /\ AfterUuid(c) /\ NoFault /\ UNCHANGED <<mapped, newUuid>>
     \/ /\ "uuid" \in wants[c] /\ fs \in {"ext", "swap", "luks"}
        /\ AfterUuid(c) /\ NoFault
        /\ mapped' = mapped \cup {c}
        /\ newUuid' = newUuid \cup {targetOf[c]}
     \/ /\ "uuid" \in wants[c] /\ fs = "fat"
        /\ AfterUuid(c) /\ NoFault
        /\ mapped' = mapped \cup {c} /\ UNCHANGED newUuid
     \/ /\ "uuid" \in wants[c] /\ fs = "other"
        /\ Return(c, "err") /\ Refused(c) /\ UNCHANGED <<mapped, newUuid>>
     \/ /\ "uuid" \in wants[c] /\ fs # "bare"
        /\ AfterUuid(c) /\ Fault(c, "late") /\ UNCHANGED <<mapped, newUuid>>
     \/ /\ "uuid" \in wants[c] /\ fs # "bare"
        /\ Return(c, "err") /\ Fault(c, "late") /\ UNCHANGED mapped
        /\ \/ UNCHANGED newUuid
           \/ fs \in {"ext", "swap"} /\ newUuid' = newUuid \cup {targetOf[c]}
  /\ UNCHANGED uuidStill

late == <<configVars, snapOwner, owner, data, newUuid, mapped>>

(* mount_device.  The temporary directory is the host's: in the container   *)
(* there is no such directory and mount fails, as it does on a LUKS header, *)
(* on swap or on a volume without a file system.                             *)
Mount(c) ==
  LET mountable == mode[c] = "sudo" /\ fs \in {"ext", "fat", "other"}
  IN /\ pc[c] = "mount"
     /\ \/ /\ mountable
           /\ pc' = [pc EXCEPT ![c] = "files"]
           /\ rooted' = rooted \cup {c}
           /\ NoFault /\ UNCHANGED <<binds, wiped, result, container>>
        \/ ~mountable /\ Return(c, "err") /\ Refused(c)
        \/ mountable /\ Return(c, "err") /\ Fault(c, "late")
     /\ UNCHANGED <<late, named, flags, tries>>

Rewritten(u) == IF u = "old" THEN "new" ELSE u

\* Mutant: the files are reported as updated without a mapping as well.
UpdateFilesUnguarded(c) ==
  /\ pc[c] = "files"
  /\ Go(c, "hostname") /\ NoFault
  /\ flags' = [flags EXCEPT ![c] = wants[c] \cap Files]
  /\ named' = [named EXCEPT ![targetOf[c]] =
                 [f \in Files |-> IF c \in mapped /\ f \in wants[c] THEN Rewritten(@[f]) ELSE @[f]]]
  /\ UNCHANGED <<late, tries>>

(* update_clone_fstab, update_clone_bootloader and update_clone_crypttab,   *)
(* only if there is a mapping: every old UUID is replaced.  The flag is set   *)
(* also for a file that is absent or names none; an error is logged, leaves   *)
(* the flag, and may have cut the file off.                                  *)
UpdateFiles(c) ==
  LET asked == IF c \in mapped THEN wants[c] \cap Files ELSE {}
  IN /\ pc[c] = "files"
     /\ Go(c, "hostname")
     /\ \E failed \in SUBSET asked : \E cut \in SUBSET failed :
          /\ IF failed = {} THEN NoFault ELSE Fault(c, "late")
          /\ flags' = [flags EXCEPT ![c] = asked \ failed]
          /\ named' = [named EXCEPT ![targetOf[c]] =
                         [f \in Files |-> IF f \in cut THEN "cut"
                                          ELSE IF f \in asked \ failed THEN Rewritten(@[f])
                                          ELSE @[f]]]
     /\ UNCHANGED <<late, tries>>

(* The step after the hostname or after a chroot step. *)
After(c, step) ==
  LET rest == IF step = "hostname" THEN {"initramfs", "grub"}
              ELSE IF step = "initramfs" THEN {"grub"} ELSE {}
      asked == rest \cap wants[c]
  IN IF "initramfs" \in asked THEN "initramfs"
     ELSE IF "grub" \in asked THEN "grub" ELSE "unmount"

(* set_hostname(..)? returns with the clone still mounted. *)
SetHostname(c) ==
  /\ pc[c] = "hostname"
  /\ \/ Go(c, After(c, "hostname")) /\ NoFault
     \/ "hostname" \in wants[c] /\ Return(c, "err") /\ Fault(c, "late")
  /\ UNCHANGED <<late, named, flags, tries>>

Finish(c, step) ==
  pc' = [pc EXCEPT ![c] = After(c, step)] /\ tries' = [tries EXCEPT ![c] = 0]

(* regenerate_initramfs and regenerate_grub_config: the tools are tried in  *)
(* turn until one succeeds; that all have failed is only logged.            *)
ToolEnds(c, step) ==
  \/ Finish(c, step)
  \/ /\ tries[c] + 1 < Tools[step]
     /\ tries' = [tries EXCEPT ![c] = @ + 1]
     /\ UNCHANGED pc

chrootUnchanged == <<late, named, flags, rooted, wiped, result, container>>

\* Mutant: the bind mounts are cleaned up only after a command that worked.
RunInChrootLeaks(c, step) ==
  /\ pc[c] = step
  /\ ToolEnds(c, step) /\ NoFault
  /\ binds' \in {binds, [binds EXCEPT ![c] = [d \in 1 .. 3 |-> @[d] + 1]]}
  /\ UNCHANGED chrootUnchanged

(* run_in_chroot: mount_chroot_binds, the command, unmount_chroot_binds.     *)
(* An umount that fails is ignored.  A bind mount that fails returns at      *)
(* once, which leaves the ones before it and ends the step.                 *)
RunInChroot(c, step) ==
  /\ pc[c] = step
  /\ \/ ToolEnds(c, step) /\ NoFault /\ UNCHANGED binds
     \/ /\ ToolEnds(c, step) /\ Fault(c, "bind")
        /\ \E d \in 1 .. 3 : binds' = [binds EXCEPT ![c][d] = @ + 1]
     \/ /\ Finish(c, step) /\ Fault(c, "bind")
        /\ \E n \in 1 .. 3 :
             binds' = [binds EXCEPT ![c] = [d \in 1 .. 3 |-> IF d < n THEN @[d] + 1 ELSE @[d]]]
  /\ UNCHANGED chrootUnchanged

(* unmount_device(..)?: a mount with bind mounts below it is busy. *)
Unmount(c) ==
  /\ pc[c] = "unmount"
  /\ \/ /\ ~Leaked(c)
        /\ pc' = [pc EXCEPT ![c] = "end"]
        /\ result' = [result EXCEPT ![c] = "ok"]
        /\ rooted' = rooted \ {c}
        /\ container' = container \ {c}
        /\ NoFault /\ UNCHANGED <<binds, wiped>>
     \/ Leaked(c) /\ Return(c, "err") /\ NoFault
     \/ ~Leaked(c) /\ Return(c, "err") /\ Fault(c, "late")
  /\ UNCHANGED <<late, named, flags, tries>>

(* The process is killed: nothing is dropped. *)
Die(c) ==
  /\ pc[c] # "end"
  /\ Fault(c, "late")
  /\ pc' = [pc EXCEPT ![c] = "end"]
  /\ result' = [result EXCEPT ![c] = "dead"]
  /\ UNCHANGED <<late, named, flags, tries, mountVars, container>>

CloneStep(c) ==
  \/ Start(c) \/ Validate(c) \/ Snapshot(c) \/ CreateTarget(c) \/ Copy(c)
  \/ DropSnapshot(c) \/ DropTarget(c)
  \/ RemoveSnapshot(c) \/ RegenerateUuids(c) \/ Mount(c) \/ UpdateFiles(c)
  \/ SetHostname(c) \/ RunInChroot(c, "initramfs") \/ RunInChroot(c, "grub")
  \/ Unmount(c)

Next == \E c \in Clones : CloneStep(c) \/ Die(c)

Spec == Init /\ [][Next]_vars

-----------------------------------------------------------------------------
(* A clone, not a dry run, that returns Ok has left its own target with a full copy, no      *)
(* snapshot, no mount and no bind mount, and nothing of it was deleted by    *)
(* the drop of the temporary directory.                                     *)
OkIsClean ==
  \A c \in Clones : result[c] = "ok" /\ "dry_run" \notin wants[c] =>
    /\ owner[targetOf[c]] = c /\ data[targetOf[c]] = "copy"
    /\ snapOwner # c /\ c \notin rooted /\ ~Leaked(c)
    /\ targetOf[c] \notin wiped

(* A clone that fails up to the copy, whichever command failed and whoever else   *)
(* clones the source, removes what it has created.  The exception is a removal     *)
(* that fails itself, which is only logged; and the steps after the copy leave the  *)
(* target behind.                                                                *)
EarlyFailureCleans ==
  \A c \in Clones : result[c] = "err" /\ dirty[c] \subseteq {"early"} =>
    snapOwner # c /\ \A v \in Targets : owner[v] # c

(* What a clone leaves on the host is its target after Ok, and nothing when  *)
(* it fails early.                                                         *)
LeavesNoRest == OkIsClean /\ EarlyFailureCleans

(* After Ok a file of the clone names the new UUID only if the device carries it,      *)
(* and a file that CloneResult reports as updated does not name the old one any more,   *)
(* whatever blkid, cryptsetup, the file system's tool and the writes did.  Excepted are   *)
(* the file systems whose UUID set_filesystem_uuid skips, FAT and NTFS.                 *)
UpdatedFilesMatchDevice ==
  \A c \in Clones : result[c] = "ok" /\ fs # "fat" =>
    \A f \in Files :
      /\ named[targetOf[c]][f] = "new" => targetOf[c] \in newUuid
      /\ f \in flags[c] => named[targetOf[c]][f] # "old"

(* The drop of a temporary directory reaches the host's /proc, /sys and      *)
(* /dev only after a bind mount or its umount has failed (run_in_chroot).    *)
HostWipedOnlyByLeak ==
  "host" \in wiped => \E c \in Clones : "bind" \in dirty[c] /\ result[c] = "err"

(* The snapshot, which all clones of a source name alike, disappears only    *)
(* by a step of the clone that created it.                                  *)
RemovesOnlyOwn ==
  [][\A c \in Clones :
       snapOwner # c /\ pc'[c] # pc[c] => snapOwner' \in {snapOwner, c}]_vars

-----------------------------------------------------------------------------
\* What the code's comments say and the code does not keep.

(* "Returns one UuidMapping per device whose UUID was successfully changed."       *)
(* (regenerate_clone_uuids): FAT and NTFS get a mapping without a change.           *)
MappingMeansChanged ==
  \A c \in Clones : c \in mapped => targetOf[c] \in newUuid

(* "Bind mounts are always cleaned up even if the command fails." (run_in_chroot):   *)
(* a bind mount that fails leaves the ones before it, and a failing umount is ignored. *)
BindsAlwaysCleaned == \A c \in Clones : ~Leaked(c)

=============================================================================
