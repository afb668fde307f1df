----------------------------- MODULE NbdDevices -----------------------------
(***************************************************************************)
(* NbdDevice (disk/nbd.rs): several processes attach images to /dev/nbdN    *)
(* and detach them.  connect() holds a file lock from the choice of the      *)
(* device to the end; disconnect() does not take it.  A program outside      *)
(* guestkit may take a free device at any time.                             *)
(***************************************************************************)
EXTENDS Integers, FiniteSets, FiniteSetsExt

CONSTANTS
  Handles,      \* processes, each with one NbdDevice
  LockFile,     \* handle -> the lock file NbdAllocLock::acquire can open
  NumDevices,   \* /dev/nbd0 .. /dev/nbd<NumDevices - 1>
  Nobody,       \* a free device, a free lock
  Foreign,      \* a program outside guestkit
  MaxFaults,    \* bound: commands that fail, time out, or processes that die
  MaxForeign    \* bound: attachments by the foreign program

ASSUME DevicesAssumption ==
  /\ NumDevices \in Nat \ {0}
  /\ Nobody \notin Handles /\ Foreign \notin Handles /\ Foreign # Nobody
  /\ MaxFaults \in Nat /\ MaxForeign \in Nat

Devices == 0 .. NumDevices - 1
NoDevice == -1
Locks == {LockFile[h] : h \in Handles}

VARIABLES
  dev,        \* device -> who has attached an image to it
  lock,       \* lock file -> who holds it
  step,       \* handle -> where it is inside connect or disconnect
  outcome,    \* handle -> result of the last connect or disconnect
  cand,       \* handle -> candidates not tried yet
  at,         \* handle -> device_path
  connected,  \* handle -> the field of that name, of its last NbdDevice
  faults, foreign,  \* how often each has happened
  cut         \* attachments ended by another handle (history)

nbdVars == <<dev, lock, step, outcome, cand, at, connected, faults, foreign, cut>>

NbdSteps == {"idle", "lock", "list", "check", "spawn", "wait", "recleanup", "cleanup",
             "cut", "poll", "force", "dead"}

NbdTypeOK ==
  /\ dev \in [Devices -> Handles \cup {Nobody, Foreign}]
  /\ lock \in [Locks -> Handles \cup {Nobody}]
  /\ step \in [Handles -> NbdSteps]
  /\ outcome \in [Handles -> {"none", "ok", "err"}]
  /\ cand \in [Handles -> SUBSET Devices]
  /\ at \in [Handles -> Devices \cup {NoDevice}]
  /\ connected \in [Handles -> BOOLEAN]
  /\ faults \in 0 .. MaxFaults /\ foreign \in 0 .. MaxForeign
  /\ cut \subseteq [where : {"connect", "disconnect"}, by : Handles,
                    of : Handles \cup {Foreign}]

NbdInit ==
  /\ dev = [d \in Devices |-> Nobody]
  /\ lock = [l \in Locks |-> Nobody]
  /\ step = [h \in Handles |-> "idle"]
  /\ outcome = [h \in Handles |-> "none"]
  /\ cand = [h \in Handles |-> {}]
  /\ at = [h \in Handles |-> NoDevice]
  /\ connected = [h \in Handles |-> FALSE]
  /\ faults = 0 /\ foreign = 0
  /\ cut = {}

-----------------------------------------------------------------------------
Fault == faults < MaxFaults /\ faults' = faults + 1
NoFault == UNCHANGED faults

Goto(h, s) == step' = [step EXCEPT ![h] = s] /\ UNCHANGED outcome

Release(h) == lock' = [l \in Locks |-> IF lock[l] = h THEN Nobody ELSE lock[l]]

\* The function ends; the lock, if held, is dropped.
Ends(h, r) ==
  /\ step' = [step EXCEPT ![h] = "idle"]
  /\ outcome' = [outcome EXCEPT ![h] = r]
  /\ Release(h)

(* qemu-nbd --disconnect: the attachment ends whoever made it. *)
Detach(h, where) ==
  /\ dev' = [dev EXCEPT ![at[h]] = Nobody]
  /\ cut' = IF dev[at[h]] \in {h, Nobody} THEN cut
            ELSE cut \cup {[where |-> where, by |-> h, of |-> dev[at[h]]]}

Connect(h) ==
  /\ step[h] = "idle" /\ ~connected[h]
  /\ step' = [step EXCEPT ![h] = "lock"]
  /\ outcome' = [outcome EXCEPT ![h] = "none"]

(* NbdAllocLock::acquire *)
Acquire(h) ==
  /\ step[h] = "lock"
  /\ lock[LockFile[h]] = Nobody
  /\ lock' = [lock EXCEPT ![LockFile[h]] = h]
  /\ Goto(h, "list")
  /\ NoFault /\ UNCHANGED <<dev, cand, at, connected, cut>>

Free == {d \in Devices : dev[d] = Nobody}

\* Mutant: the lock is dropped once the candidates are listed.
ListUnlocks(h) ==
  /\ step[h] = "list"
  /\ cand' = [cand EXCEPT ![h] = Free]
  /\ Release(h)
  /\ IF Free = {} THEN Ends(h, "err") ELSE Goto(h, "check")
  /\ NoFault /\ UNCHANGED <<dev, at, connected, cut>>

(* free_nbd_devices *)
List(h) ==
  /\ step[h] = "list"
  /\ cand' = [cand EXCEPT ![h] = Free]
  /\ IF Free = {} THEN Ends(h, "err") ELSE Goto(h, "check") /\ UNCHANGED lock
  /\ NoFault /\ UNCHANGED <<dev, at, connected, cut>>

(* The next candidate, and whether it is still free (connect_one). *)
Check(h) ==
  LET d == Min(cand[h])
  IN /\ step[h] = "check"
     /\ at' = [at EXCEPT ![h] = d]
     /\ cand' = [cand EXCEPT ![h] = @ \ {d}]
     /\ Goto(h, IF dev[d] = Nobody THEN "spawn" ELSE "cleanup")
     /\ NoFault /\ UNCHANGED <<dev, lock, connected, cut>>

(* qemu-nbd -c: it cannot take a device that is attached, and may fail. *)
Spawn(h) ==
  /\ step[h] = "spawn"
  /\ Goto(h, "wait")
  /\ \/ /\ dev[at[h]] = Nobody /\ NoFault
        /\ dev' = [dev EXCEPT ![at[h]] = h]
     \/ dev[at[h]] # Nobody /\ NoFault /\ UNCHANGED dev
     \/ Fault /\ UNCHANGED dev
  /\ UNCHANGED <<lock, cand, at, connected, cut>>

\* Mutant: the device is taken to be ready without a look at its size.
WaitSkipped(h) ==
  /\ step[h] = "wait"
  /\ connected' = [connected EXCEPT ![h] = TRUE]
  /\ Ends(h, "ok")
  /\ NoFault /\ UNCHANGED <<dev, cand, at, cut>>

\* Mutant: the lock lives as long as the NbdDevice.
WaitKeepsLock(h) ==
  /\ step[h] = "wait"
  /\ IF dev[at[h]] = Nobody
     THEN Goto(h, "recleanup") /\ UNCHANGED connected
     ELSE /\ step' = [step EXCEPT ![h] = "idle"]
          /\ outcome' = [outcome EXCEPT ![h] = "ok"]
          /\ connected' = [connected EXCEPT ![h] = TRUE]
  /\ NoFault /\ UNCHANGED <<dev, lock, cand, at, cut>>

(* wait_for_device: a device with a size is ready, whoever attached it; ten  *)
(* seconds without one are an error.                                        *)
Wait(h) ==
  /\ step[h] = "wait"
  /\ \/ /\ dev[at[h]] # Nobody /\ NoFault
        /\ connected' = [connected EXCEPT ![h] = TRUE]
        /\ Ends(h, "ok")
     \/ /\ dev[at[h]] = Nobody /\ NoFault
        /\ Goto(h, "recleanup") /\ UNCHANGED <<lock, connected>>
     \/ /\ dev[at[h]] = h /\ Fault
        /\ Goto(h, "recleanup") /\ UNCHANGED <<lock, connected>>
  /\ UNCHANGED <<dev, cand, at, cut>>

(* cleanup_failed_connect, whose --disconnect may fail unnoticed; after a failed *)
(* wait it runs twice.  Then the next candidate, or the end.                  *)
Cleanup(h) ==
  /\ step[h] \in {"recleanup", "cleanup"}
  /\ Detach(h, "connect") \/ UNCHANGED <<dev, cut>>
  /\ \/ step[h] = "recleanup" /\ Goto(h, "cleanup") /\ UNCHANGED <<lock, at>>
     \/ /\ step[h] = "cleanup" /\ cand[h] # {}
        /\ Goto(h, "check") /\ UNCHANGED <<lock, at>>
     \/ /\ step[h] = "cleanup" /\ cand[h] = {}
        /\ Ends(h, "err") /\ at' = [at EXCEPT ![h] = NoDevice]
  /\ NoFault /\ UNCHANGED <<cand, connected>>

-----------------------------------------------------------------------------
Disconnect(h) ==
  /\ step[h] = "idle"
  /\ IF connected[h]
     THEN /\ step' = [step EXCEPT ![h] = "cut"]
          /\ outcome' = [outcome EXCEPT ![h] = "none"]
     ELSE outcome' = [outcome EXCEPT ![h] = "ok"] /\ UNCHANGED step

(* The first --disconnect.  Its failure is only a warning; when it cannot be    *)
(* started, disconnect returns at once and the device stays connected.         *)
CutDevice(h) ==
  /\ step[h] = "cut"
  /\ \/ Detach(h, "disconnect") /\ NoFault /\ Goto(h, "poll") /\ UNCHANGED lock
     \/ Fault /\ UNCHANGED <<dev, cut>> /\ Goto(h, "poll") /\ UNCHANGED lock
     \/ Fault /\ UNCHANGED <<dev, cut>> /\ Ends(h, "err")
  /\ UNCHANGED <<cand, at, connected>>

(* Poll until the device is free, or give up after two seconds. *)
Poll(h) ==
  /\ step[h] = "poll"
  /\ \/ /\ dev[at[h]] = Nobody
        /\ connected' = [connected EXCEPT ![h] = FALSE]
        /\ Ends(h, "ok")
     \/ /\ dev[at[h]] # Nobody
        /\ Goto(h, "force") /\ UNCHANGED <<lock, connected>>
  /\ NoFault /\ UNCHANGED <<dev, cand, at, cut>>

(* The second --disconnect, and no more whatever it does. *)
ForceDevice(h) ==
  /\ step[h] = "force"
  /\ \/ Detach(h, "disconnect") /\ NoFault /\ Ends(h, "ok")
     \/ Fault /\ UNCHANGED <<dev, cut>> /\ Ends(h, "err")
  /\ connected' = [connected EXCEPT ![h] = FALSE]
  /\ UNCHANGED <<cand, at>>

NbdStep(h) ==
  /\ Acquire(h) \/ List(h) \/ Check(h) \/ Spawn(h) \/ Wait(h) \/ Cleanup(h)
     \/ CutDevice(h) \/ Poll(h) \/ ForceDevice(h)
  /\ UNCHANGED foreign

(* The process dies: the kernel drops its lock, qemu-nbd lives on. *)
NbdDies(h) ==
  /\ step[h] # "dead"
  /\ Fault
  /\ step' = [step EXCEPT ![h] = "dead"]
  /\ connected' = [connected EXCEPT ![h] = FALSE]
  /\ Release(h)
  /\ UNCHANGED <<dev, outcome, cand, at, foreign, cut>>

ForeignAttach(d) ==
  /\ foreign < MaxForeign /\ dev[d] = Nobody
  /\ foreign' = foreign + 1
  /\ dev' = [dev EXCEPT ![d] = Foreign]
  /\ UNCHANGED <<lock, step, outcome, cand, at, connected, faults, cut>>

ForeignDetach(d) ==
  /\ dev[d] = Foreign
  /\ dev' = [dev EXCEPT ![d] = Nobody]
  /\ UNCHANGED <<lock, step, outcome, cand, at, connected, faults, foreign, cut>>

-----------------------------------------------------------------------------
Settled(h) == step[h] = "idle" /\ connected[h]

\* All handles can open the same lock file.
OneLockFile == \A g, h \in Handles : LockFile[g] = LockFile[h]

(* What a handle believes to be its device carries its image, so no two handles *)
(* share one.  wait_for_device only looks at the size: this rests on the lock,   *)
(* and a disconnect that hits somebody else's attachment or a foreign program    *)
(* ends it.                                                                    *)
OwnImage ==
  \A h \in Handles :
    Settled(h) /\ cut = {} /\ foreign = 0 /\ OneLockFile => dev[at[h]] = h

(* The --disconnect of a failed connect, which runs under the lock, hits an    *)
(* attachment of another handle only when the two lock different files.       *)
ConnectSparesHandles ==
  \A x \in cut : x.where = "connect" /\ x.of \in Handles => LockFile[x.of] # LockFile[x.by]

(* The lock never stays with a handle that has left connect, so that everyone   *)
(* who waits for it gets it: an attempt to connect ends.                      *)
ConnectEnds == \A h \in Handles : step[h] = "lock" ~> step[h] \in {"idle", "dead"}

=============================================================================
