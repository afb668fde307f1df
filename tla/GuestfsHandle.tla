---------------------------- MODULE GuestfsHandle ----------------------------
(***************************************************************************)
(* The life of a Guestfs handle (guestfs/handle.rs, guestfs/mount.rs,       *)
(* disk/loop_device.rs): drive, launch, mount, shutdown and drop, over the   *)
(* NBD devices all handles share.  One file system per handle stands for     *)
(* its tree of mounts.                                                      *)
(***************************************************************************)
EXTENDS NbdDevices

VARIABLES
  state,      \* handle -> GuestfsState, or "dropped"
  drive,      \* handle -> "none", "raw" (loop device) or "qcow2" (NBD)
  job,        \* handle -> what it is doing across the steps of NbdDevices
  loopDev,    \* handle -> the field loop_device is Some
  nbdDev,     \* handle -> the field nbd_device is Some
  loopLive,   \* handle -> the kernel has a loop device on its image
  mounted,    \* handle -> the map of mounts is not empty
  live,       \* handle -> "none", "attached", or "detached" but active
  root,       \* handle -> mount_root is Some
  lazy,       \* handle -> lazy_unmount_used
  dropping,   \* handle -> Drop has called shutdown
  unclean     \* handle -> an umount has failed (history)

handleVars == <<state, drive, job, loopDev, nbdDev, loopLive, mounted, live, root, lazy,
                dropping, unclean>>
vars == <<nbdVars, handleVars>>

Jobs == {"none", "launch", "setup", "fail", "detach", "drop", "root", "close",
         "fields"}

TypeOK ==
  /\ NbdTypeOK
  /\ state \in [Handles -> {"config", "launching", "ready", "error", "closed", "dropped"}]
  /\ drive \in [Handles -> {"none", "raw", "qcow2"}]
  /\ job \in [Handles -> Jobs]
  /\ live \in [Handles -> {"none", "attached", "detached"}]
  /\ \A f \in {loopDev, nbdDev, loopLive, mounted, root, lazy, dropping, unclean} :
       f \in [Handles -> BOOLEAN]

Init ==
  LET no == [h \in Handles |-> FALSE]
  IN /\ NbdInit
     /\ state = [h \in Handles |-> "config"]
     /\ drive = [h \in Handles |-> "none"]
     /\ job = [h \in Handles |-> "none"]
     /\ live = [h \in Handles |-> "none"]
     /\ loopDev = no /\ nbdDev = no /\ loopLive = no /\ mounted = no /\ root = no
     /\ lazy = no /\ dropping = no /\ unclean = no

-----------------------------------------------------------------------------
Set(f, h, v) == f' = [f EXCEPT ![h] = v]

Idle(h) == job[h] = "none" /\ step[h] = "idle" /\ state[h] # "dropped"
At(h, j) == job[h] = j /\ step[h] = "idle"

nbdStill == <<dev, lock, step, outcome, cand, at, connected, foreign, cut>>
mountStill == <<mounted, live, root, lazy, unclean>>

(* add_drive_opts *)
AddDrive(h) ==
  /\ Idle(h) /\ state[h] = "config" /\ drive[h] = "none"
  /\ \E d \in {"raw", "qcow2"} : Set(drive, h, d)
  /\ UNCHANGED <<nbdVars, state, job, loopDev, nbdDev, loopLive, mountStill, dropping>>

(* launch without a drive, or on a raw image; whatever fails, the loop device *)
(* is detached again.                                                       *)
LaunchLoop(h) ==
  /\ Idle(h) /\ state[h] = "config" /\ drive[h] # "qcow2"
  /\ \/ /\ drive[h] = "raw" /\ NoFault
        /\ Set(state, h, "ready") /\ Set(loopDev, h, TRUE) /\ Set(loopLive, h, TRUE)
     \/ drive[h] = "raw" /\ Fault /\ Set(state, h, "error") /\ UNCHANGED <<loopDev, loopLive>>
     \/ drive[h] = "none" /\ NoFault /\ Set(state, h, "error") /\ UNCHANGED <<loopDev, loopLive>>
  /\ UNCHANGED <<nbdStill, drive, job, nbdDev, mountStill, dropping>>

(* launch on another image, and setup_nbd_if_needed, which operations of a     *)
(* ready handle call and which does not look at the loop device.              *)
LaunchNbd(h) ==
  /\ Idle(h)
  /\ \/ /\ state[h] = "config" /\ drive[h] = "qcow2"
        /\ Set(state, h, "launching") /\ Set(job, h, "launch")
     \/ /\ state[h] = "ready" /\ drive[h] = "raw" /\ ~nbdDev[h]
        /\ Set(job, h, "setup") /\ UNCHANGED state
  /\ Connect(h)
  /\ UNCHANGED <<dev, lock, cand, at, connected, faults, foreign, cut, drive, loopDev, nbdDev,
                 loopLive, mountStill, dropping>>

\* Mutant: the result of connect is not looked at.
LaunchEndsReady(h) ==
  /\ job[h] \in {"launch", "setup"} /\ step[h] = "idle" /\ outcome[h] # "none"
  /\ Set(state, h, "ready") /\ Set(nbdDev, h, TRUE) /\ Set(job, h, "none")
  /\ UNCHANGED <<nbdVars, drive, loopDev, loopLive, mountStill, dropping>>

(* connect has returned.  When the partition table cannot be read the device   *)
(* is dropped again, which disconnects it.                                    *)
LaunchEnds(h) ==
  /\ job[h] \in {"launch", "setup"} /\ step[h] = "idle" /\ outcome[h] # "none"
  /\ \/ /\ outcome[h] = "ok"
        /\ Set(state, h, "ready") /\ Set(nbdDev, h, TRUE) /\ Set(job, h, "none")
        /\ NoFault /\ UNCHANGED <<step, outcome>>
     \/ /\ outcome[h] = "err"
        /\ Set(state, h, IF job[h] = "launch" THEN "error" ELSE state[h])
        /\ Set(job, h, "none")
        /\ NoFault /\ UNCHANGED <<step, outcome, nbdDev>>
     \/ /\ outcome[h] = "ok" /\ job[h] = "launch"
        /\ Fault /\ Disconnect(h) /\ Set(job, h, "fail")
        /\ UNCHANGED <<state, nbdDev>>
  /\ UNCHANGED <<dev, lock, cand, at, connected, foreign, cut, drive, loopDev, loopLive,
                 mountStill, dropping>>

LaunchFails(h) ==
  /\ At(h, "fail") /\ outcome[h] # "none"
  /\ Set(state, h, "error") /\ Set(job, h, "none")
  /\ UNCHANGED <<nbdVars, drive, loopDev, nbdDev, loopLive, mountStill, dropping>>

(* mount, mount_ro, mount_options, mount_vfs *)
MountFs(h) ==
  /\ Idle(h) /\ state[h] = "ready" /\ ~mounted[h]
  /\ loopDev[h] \/ nbdDev[h]
  /\ Set(root, h, TRUE)
  /\ \/ Set(mounted, h, TRUE) /\ Set(live, h, "attached") /\ NoFault
     \/ Fault /\ UNCHANGED <<mounted, live>>
  /\ UNCHANGED <<nbdStill, state, drive, job, loopDev, nbdDev, loopLive, lazy, unclean, dropping>>

(* umount: an error leaves the mount and the map. *)
Umount(h) ==
  /\ Idle(h) /\ state[h] = "ready" /\ mounted[h]
  /\ \/ Set(mounted, h, FALSE) /\ Set(live, h, "none") /\ NoFault
     \/ Fault /\ UNCHANGED <<mounted, live>>
  /\ UNCHANGED <<nbdStill, state, drive, job, loopDev, nbdDev, loopLive, root, lazy, unclean,
                 dropping>>

(* The last user of a file system that is no longer in the tree closes it; a    *)
(* loop device whose removal was deferred goes with it.                       *)
FsReleased(h) ==
  /\ live[h] = "detached"
  /\ Set(live, h, "none")
  /\ Set(loopLive, h, loopDev[h])
  /\ UNCHANGED <<nbdVars, state, drive, job, loopDev, nbdDev, mounted, root, lazy, dropping, unclean>>

-----------------------------------------------------------------------------
\* Shutdown returns before the end; Drop goes on to drop the fields.
ShutdownStops(h, drop) == Set(job, h, IF drop THEN "fields" ELSE "none")

\* Mutant: the lazy unmount is tried at once and not recorded.
ShutdownLazily(h) ==
  /\ Idle(h) /\ state[h] # "closed"
  /\ dropping' \in {dropping, [dropping EXCEPT ![h] = TRUE]}
  /\ Set(job, h, "detach") /\ Set(mounted, h, FALSE)
  /\ Set(live, h, IF mounted[h] THEN "detached" ELSE live[h])
  /\ UNCHANGED <<nbdVars, state, drive, loopDev, nbdDev, loopLive, root, lazy, unclean>>

(* shutdown, called by the user or by Drop, up to the check with findmnt.        *)
(* umount_all tries umount -R, -f and -l in turn, after which the map is         *)
(* cleared whatever they did; or it fails before the map is cleared, and          *)
(* shutdown itself tries umount -l.  A tree that is still mounted is an error.   *)
Shutdown(h) ==
  /\ Idle(h) /\ state[h] # "closed"
  /\ dropping' \in {dropping, [dropping EXCEPT ![h] = TRUE]}
  /\ \/ /\ ~mounted[h] /\ Set(job, h, "detach")
        /\ NoFault /\ UNCHANGED <<mounted, live, lazy, unclean>>
     \/ /\ mounted[h] /\ Set(job, h, "detach")
        /\ Set(mounted, h, FALSE) /\ Set(live, h, "none")
        /\ NoFault /\ UNCHANGED <<lazy, unclean>>
     \/ /\ mounted[h] /\ Fault /\ Set(unclean, h, TRUE)
        /\ mounted' \in {mounted, [mounted EXCEPT ![h] = FALSE]}
        /\ \/ Set(lazy, h, TRUE) /\ Set(live, h, "detached") /\ Set(job, h, "detach")
           \/ /\ Set(lazy, h, lazy[h] \/ mounted'[h])
              /\ ShutdownStops(h, dropping'[h]) /\ UNCHANGED live
  /\ UNCHANGED <<nbdStill, state, drive, loopDev, nbdDev, loopLive, root>>

\* losetup -d defers the removal of a device that is in use, and may fail.
LoopDetached(h) ==
  /\ Set(loopDev, h, FALSE)
  /\ \/ NoFault /\ Set(loopLive, h, IF loopDev[h] THEN live[h] # "none" ELSE loopLive[h])
     \/ loopDev[h] /\ Fault /\ UNCHANGED loopLive

\* The NbdDevice, if there is one, is disconnected: a drop does that too.
NbdDetached(h) ==
  /\ Set(nbdDev, h, FALSE)
  /\ IF nbdDev[h] THEN Disconnect(h) ELSE UNCHANGED <<step, outcome>>

detachStill == <<dev, lock, cand, at, connected, foreign, cut, state, drive, mountStill>>

(* The loop device and the NbdDevice are taken.  With mounts still in the tree    *)
(* shutdown drops the NbdDevice and ends; after a lazy unmount it drops it and     *)
(* goes on; else it calls disconnect before the drop.                          *)
DetachDevices(h) ==
  /\ At(h, "detach")
  /\ LoopDetached(h) /\ NbdDetached(h)
  /\ Set(job, h, IF ~nbdDev[h] \/ lazy[h] THEN "root"
                 ELSE IF root[h] /\ live[h] = "attached" THEN "close" ELSE "drop")
  /\ UNCHANGED <<detachStill, dropping>>

(* Its drop calls disconnect again, which tries again if it is still connected.   *)
DropNbd(h) ==
  /\ At(h, "drop")
  /\ Disconnect(h) /\ Set(job, h, "root")
  /\ NoFault /\ UNCHANGED <<detachStill, loopDev, nbdDev, loopLive, dropping>>

(* The mount root is removed and the handle closed.  With mounts still below the  *)
(* root shutdown returns Ok without closing the handle.                         *)
RemoveRoot(h) ==
  /\ job[h] \in {"root", "close"} /\ step[h] = "idle"
  /\ Set(root, h, root[h] /\ job[h] = "close")
  /\ IF job[h] = "root" /\ root[h] /\ ~lazy[h] /\ live[h] = "attached"
     THEN ShutdownStops(h, dropping[h]) /\ UNCHANGED state
     ELSE Set(job, h, "none") /\ Set(state, h, IF dropping[h] THEN "dropped" ELSE "closed")
  /\ UNCHANGED <<nbdVars, drive, loopDev, nbdDev, loopLive, mounted, live, lazy, unclean,
                 dropping>>

(* Drop of a closed handle, or of the fields after shutdown has stopped. *)
DropFields(h) ==
  /\ \/ At(h, "fields") \/ (Idle(h) /\ state[h] = "closed")
  /\ Set(dropping, h, TRUE)
  /\ LoopDetached(h) /\ NbdDetached(h)
  /\ Set(job, h, "close")
  /\ UNCHANGED detachStill

(* The process dies, and nothing is dropped. *)
Die(h) ==
  /\ state[h] # "dropped" /\ NbdDies(h)
  /\ Set(state, h, "dropped") /\ Set(unclean, h, TRUE) /\ Set(job, h, "none")
  /\ UNCHANGED <<drive, loopDev, nbdDev, loopLive, mounted, live, root, lazy, dropping>>

HandleStep(h) ==
  \/ LaunchEnds(h) \/ LaunchFails(h) \/ DetachDevices(h) \/ DropNbd(h)
  \/ RemoveRoot(h)
  \/ job[h] = "fields" /\ DropFields(h)

UserCall(h) ==
  \/ AddDrive(h) \/ LaunchLoop(h) \/ LaunchNbd(h) \/ MountFs(h) \/ Umount(h) \/ Shutdown(h)
  \/ job[h] = "none" /\ DropFields(h)

Next ==
  \/ \E h \in Handles :
       \/ UserCall(h) \/ HandleStep(h) \/ Die(h) \/ FsReleased(h)
       \/ NbdStep(h) /\ UNCHANGED handleVars
  \/ \E d \in Devices : (ForeignAttach(d) \/ ForeignDetach(d)) /\ UNCHANGED handleVars

(* A process that runs keeps running, and flock is granted to every waiter. *)
Fairness ==
  \A h \in Handles :
    /\ WF_vars(NbdStep(h) /\ UNCHANGED handleVars)
    /\ SF_vars(Acquire(h) /\ UNCHANGED <<foreign, handleVars>>)
    /\ WF_vars(HandleStep(h))

Spec == Init /\ [][Next]_vars /\ Fairness

-----------------------------------------------------------------------------
Undisturbed == cut = {} /\ foreign = 0 /\ OneLockFile

HasDevice(h) == (loopDev[h] /\ loopLive[h]) \/ (connected[h] /\ dev[at[h]] = h)

(* A ready handle on which no umount has failed has its device: launch and      *)
(* shutdown never leave it ready without one.                                 *)
ReadyHasDevice ==
  \A h \in Handles :
    state[h] = "ready" /\ Idle(h) /\ ~unclean[h] /\ Undisturbed => HasDevice(h)

(* The device is taken away under an active file system only after an umount     *)
(* has failed: shutdown unmounts first and detaches then.                      *)
NotPulledUnderMount ==
  \A h \in Handles : live[h] # "none" /\ ~unclean[h] /\ Undisturbed => HasDevice(h)

(* A handle that is closed or dropped without any failure leaves no device, no   *)
(* mount and no mount root behind.                                            *)
ClosedIsClean ==
  \A h \in Handles : state[h] \in {"closed", "dropped"} /\ step[h] # "dead" /\ faults = 0 =>
    /\ live[h] = "none" /\ ~loopLive[h] /\ ~root[h] /\ ~connected[h]
    /\ \A d \in Devices : dev[d] # h

(* The state of a handle tells whether it has a device, at both ends of its life. *)
StateTellsDevice == ReadyHasDevice /\ ClosedIsClean

(* handle.rs: a lazy unmount leaves the file system active, so the NBD device is  *)
(* not disconnected.                                                           *)
LazyKeepsDevice ==
  \A h \in Handles : lazy[h] /\ live[h] = "detached" /\ drive[h] = "qcow2" /\ cut = {} =>
    connected[h] \/ step[h] = "dead"

=============================================================================
