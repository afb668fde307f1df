-------------------------- MODULE HostDeviceProofs --------------------------
(***************************************************************************)
(* Proofs about GuestfsHandle: who holds a device and when, for any number  *)
(* of processes, devices, lock files, failures and foreign programs.        *)
(***************************************************************************)
EXTENDS GuestfsHandle, FiniteSetTheorems, TLAPS

InConnect == {"list", "check", "spawn", "wait", "recleanup", "cleanup"}
Leaving == {"cut", "poll", "force"}

\* connect holds its lock from the list of free devices to the end.
LockFits(h) == step[h] \in InConnect => lock[LockFile[h]] = h

\* Where device_path is set, and when the handle counts as connected.
PathFits(h) ==
  /\ connected[h] \/ step[h] \in (InConnect \ {"list", "check"}) => at[h] \in Devices
  /\ step[h] = "check" => cand[h] # {}
  /\ connected[h] => step[h] \in Leaving \cup {"idle"}
  /\ step[h] \in Leaving => connected[h]

\* The devices a connect may still try.
Trying(h) == IF step[h] = "check" THEN cand[h] ELSE cand[h] \cup {at[h]}

\* No handle that locks the same file has attached to one of them.
CandFits(h) ==
  step[h] \in InConnect \ {"list"} =>
    \A d \in Trying(h) : dev[d] \in Handles /\ dev[d] # h => LockFile[dev[d]] # LockFile[h]

\* Undisturbed, a connect never meets the attachment of another.
OwnFits(h) ==
  Undisturbed =>
    /\ connected[h] /\ step[h] \in {"idle", "cut"} => dev[at[h]] = h
    /\ step[h] = "spawn" => dev[at[h]] = Nobody
    /\ step[h] = "wait" => dev[at[h]] \in {h, Nobody}

\* Without failures a device carries the image of a handle that knows of it.
KnownFits(h) ==
  faults = 0 => \A d \in Devices : dev[d] = h =>
    d = at[h] /\ (step[h] = "wait" \/ (connected[h] /\ step[h] \in {"idle", "cut"}))

NoStranger == foreign = 0 => \A d \in Devices : dev[d] # Foreign

DeviceFits(h) == LockFits(h) /\ PathFits(h) /\ CandFits(h) /\ OwnFits(h) /\ KnownFits(h)
DeviceInv ==
  NbdTypeOK /\ NoStranger /\ ConnectSparesHandles /\ \A h \in Handles : DeviceFits(h)

-----------------------------------------------------------------------------
\* What a handle does across the steps of connect and disconnect.
JobFits(h) ==
  /\ job[h] = "none" => step[h] \in {"idle", "dead"}
  /\ job[h] \in {"launch", "setup"} =>
       /\ step[h] \in InConnect \cup {"idle", "lock"} /\ ~nbdDev[h]
       /\ step[h] = "idle" => outcome[h] \in {"ok", "err"} /\ (outcome[h] = "ok" <=> connected[h])
  /\ job[h] \in {"fail", "drop", "root", "close"} =>
       step[h] \in Leaving \cup {"idle"} /\ ~nbdDev[h]
  /\ job[h] \in {"drop", "root", "close"} => ~loopDev[h]
  /\ job[h] \in {"detach", "fields"} => step[h] = "idle"
  /\ connected[h] =>
       nbdDev[h] \/ job[h] \in {"launch", "setup"} \/ step[h] \in Leaving \/ faults # 0

\* What the state of a handle says of its fields.
StateFits(h) ==
  /\ job[h] \in {"launch", "fail"} <=> state[h] = "launching"
  /\ job[h] = "launch" => drive[h] = "qcow2"
  /\ job[h] = "setup" => state[h] = "ready" /\ drive[h] = "raw"
  /\ step[h] = "dead" => state[h] = "dropped"
  /\ nbdDev[h] /\ state[h] # "dropped" => connected[h] /\ step[h] = "idle" /\ state[h] = "ready"
  /\ state[h] \in {"config", "launching", "error"} =>
       ~loopDev[h] /\ ~loopLive[h] /\ ~mounted[h] /\ ~root[h] /\ live[h] = "none"
  /\ state[h] = "closed" =>
       ~nbdDev[h] /\ ~loopDev[h] /\ step[h] = "idle" /\ job[h] \in {"none", "close"}
  /\ state[h] = "dropped" =>
       job[h] = "none" /\ (step[h] # "dead" => ~nbdDev[h] /\ ~loopDev[h] /\ step[h] = "idle")

\* What holds as long as no umount has failed.
CleanFits(h) ==
  ~unclean[h] =>
    /\ live[h] # "none" =>
         live[h] = "attached" /\ mounted[h] /\ state[h] = "ready" /\ job[h] \in {"none", "setup"}
    /\ state[h] = "ready" /\ job[h] \in {"none", "setup"} =>
         /\ drive[h] # "none"
         /\ IF drive[h] = "raw" THEN loopDev[h] /\ loopLive[h] ELSE nbdDev[h]
    /\ job[h] # "fields"

\* And as long as nothing has.
FaultlessFits(h) ==
  faults = 0 =>
    /\ ~unclean[h] /\ loopLive[h] = loopDev[h] /\ step[h] # "dead"
    /\ state[h] \in {"closed", "dropped"} => ~root[h]
    /\ job[h] = "close" => state[h] = "closed"

HandleFits(h) == JobFits(h) /\ StateFits(h) /\ CleanFits(h) /\ FaultlessFits(h)
HandleInv == TypeOK /\ DeviceInv /\ \A h \in Handles : HandleFits(h)

-----------------------------------------------------------------------------
\* The smallest candidate is a candidate (connect tries them in order).
LEMMA MinIsIn ==
  ASSUME NEW S \in SUBSET Nat, S # {}
  PROVE  Min(S) \in S
<1> DEFINE R == OpToRel(<, Nat)
<1>1. PICK x \in S : \A y \in S : ~(<<y, x>> \in R)
  <2>1. IsWellFoundedOn(R, Nat)
    BY Zenon, NatLessThanWellFounded
  <2> HIDE DEF R
  <2> QED
    BY Zenon, <2>1, WFMin
<1>2. ASSUME NEW y \in S, y < x
      PROVE  <<y, x>> \in R
  BY <1>2 DEF OpToRel
<1> HIDE DEF R
<1>3. ASSUME NEW y \in S PROVE x <= y
  <2>1. ~(y < x)
    BY Zenon, <1>1, <1>2
  <2>2. x \in Nat /\ y \in Nat
    OBVIOUS
  <2> QED
    BY <2>1, <2>2
<1> QED
  BY Zenon, <1>3 DEF Min

\* What the operations of a handle do to the devices: a step of connect or
\* disconnect, the call of one of them, the end of the process, or nothing.
CallsConnect(h) ==
  Connect(h) /\ UNCHANGED <<dev, lock, cand, at, connected, faults, foreign, cut>>
CallsDisconnect(h) ==
  /\ Disconnect(h) /\ (NoFault \/ Fault)
  /\ UNCHANGED <<dev, lock, cand, at, connected, foreign, cut>>
DeviceStep(h) ==
  \/ NbdStep(h) \/ NbdDies(h) \/ CallsConnect(h) \/ CallsDisconnect(h)
  \/ UNCHANGED nbdStill /\ (NoFault \/ Fault)

\* The calls and steps of a handle, and the end of its process, are such steps.
LEMMA StepIsDeviceStep ==
  ASSUME NEW h \in Handles, UserCall(h) \/ HandleStep(h) \/ Die(h) \/ FsReleased(h)
  PROVE  DeviceStep(h)
<1>1. CASE AddDrive(h) \/ LaunchFails(h) \/ RemoveRoot(h) \/ FsReleased(h)
  BY <1>1 DEF AddDrive, LaunchFails, RemoveRoot, FsReleased, DeviceStep, nbdVars, nbdStill, NoFault
<1>2. CASE LaunchLoop(h) \/ MountFs(h) \/ Umount(h) \/ Shutdown(h)
  BY Zenon, <1>2 DEF LaunchLoop, MountFs, Umount, Shutdown, DeviceStep
<1>3. CASE LaunchNbd(h)
  BY <1>3 DEF LaunchNbd, DeviceStep, CallsConnect
<1>4. CASE LaunchEnds(h)
  BY Zenon, <1>4 DEF LaunchEnds, DeviceStep, CallsDisconnect, nbdStill
<1>7. CASE DropNbd(h)
  BY <1>7 DEF DropNbd, DeviceStep, CallsDisconnect, detachStill
<1>5. CASE DetachDevices(h) \/ DropFields(h)
  <2>1. LoopDetached(h) /\ NbdDetached(h) /\ UNCHANGED detachStill
    BY Zenon, <1>5 DEF DetachDevices, DropFields, detachStill
  <2>2. NoFault \/ Fault
    BY <2>1 DEF LoopDetached
  <2>3. UNCHANGED <<dev, lock, cand, at, connected, foreign, cut>>
    BY <2>1 DEF detachStill
  <2>4. Disconnect(h) \/ UNCHANGED <<step, outcome>>
    BY <2>1 DEF NbdDetached
  <2> QED
    BY <2>2, <2>3, <2>4 DEF DeviceStep, CallsDisconnect, nbdStill
<1>6. CASE Die(h)
  BY <1>6 DEF Die, DeviceStep
<1> QED
  BY Zenon, <1>1, <1>2, <1>3, <1>4, <1>5, <1>6, <1>7 DEF UserCall, HandleStep

\* Every step is one of these, for one handle, or a foreign program's.
LEMMA StepsOfDevices ==
  Next => \/ \E h \in Handles : DeviceStep(h)
          \/ \E d \in Devices : ForeignAttach(d) \/ ForeignDetach(d)
BY Zenon, StepIsDeviceStep DEF Next, DeviceStep

\* A step of g changes at most the device g is at: qemu-nbd -c takes a free one, and
\* qemu-nbd --disconnect frees it.
Moves(g) ==
  \/ UNCHANGED <<dev, cut>>
  \/ /\ step[g] = "spawn" /\ dev[at[g]] = Nobody
     /\ dev' = [dev EXCEPT ![at[g]] = g] /\ UNCHANGED cut
  \/ step[g] \in {"recleanup", "cleanup"} /\ Detach(g, "connect")
  \/ step[g] \in {"cut", "force"} /\ Detach(g, "disconnect")

\* Every step of connect and disconnect, and every call, moves devices so.
LEMMA StepMoves ==
  ASSUME NEW g \in Handles, DeviceStep(g)
  PROVE  Moves(g)
<1>1. CASE UNCHANGED <<dev, cut>>
  BY <1>1 DEF Moves
<1>2. CASE Spawn(g)
  BY <1>2 DEF Spawn, Moves
<1>3. CASE Cleanup(g)
  BY <1>3 DEF Cleanup, Moves
<1>4. CASE CutDevice(g) \/ ForceDevice(g)
  BY <1>4 DEF CutDevice, ForceDevice, Moves
<1> QED
  BY <1>1, <1>2, <1>3, <1>4 DEF DeviceStep, NbdStep, NbdDies, CallsConnect, CallsDisconnect,
     nbdStill, Acquire, List, Check, Wait, Poll

\* It leaves the locals of every other handle alone, and the locks they hold.
Spares(h) ==
  /\ step'[h] = step[h] /\ cand'[h] = cand[h] /\ at'[h] = at[h]
  /\ connected'[h] = connected[h] /\ outcome'[h] = outcome[h]
  /\ \A l \in Locks : lock[l] = h => lock'[l] = h

\* A step of one handle spares every other.
LEMMA StepSpares ==
  ASSUME NbdTypeOK, NEW g \in Handles, DeviceStep(g), NEW h \in Handles, h # g
  PROVE  Spares(h)
<1>1. CASE Acquire(g)
  BY <1>1, DevicesAssumption DEF Acquire, Goto, Spares, NbdTypeOK
<1>2. CASE List(g)
  BY <1>2 DEF List, Ends, Release, Goto, Spares, NbdTypeOK
<1>3. CASE Check(g)
  BY <1>3 DEF Check, Goto, Spares, NbdTypeOK
<1>4. CASE Spawn(g)
  BY <1>4 DEF Spawn, Goto, Spares, NbdTypeOK
<1>5. CASE Wait(g)
  BY <1>5 DEF Wait, Ends, Release, Goto, Spares, NbdTypeOK
<1>6. CASE Cleanup(g)
  BY <1>6 DEF Cleanup, Ends, Release, Goto, Spares, NbdTypeOK
<1>7. CASE CutDevice(g)
  BY <1>7 DEF CutDevice, Ends, Release, Goto, Spares, NbdTypeOK
<1>8. CASE Poll(g)
  BY <1>8 DEF Poll, Ends, Release, Goto, Spares, NbdTypeOK
<1>9. CASE ForceDevice(g)
  BY <1>9 DEF ForceDevice, Ends, Release, Spares, NbdTypeOK
<1>10. CASE NbdDies(g)
  BY <1>10 DEF NbdDies, Release, Spares, NbdTypeOK
<1>11. CASE CallsConnect(g) \/ CallsDisconnect(g)
  BY <1>11 DEF CallsConnect, Connect, CallsDisconnect, Disconnect, Spares, NbdTypeOK
<1>12. CASE UNCHANGED nbdStill
  BY <1>12 DEF nbdStill, Spares
<1> QED
  BY Zenon, <1>1, <1>2, <1>3, <1>4, <1>5, <1>6, <1>7, <1>8, <1>9, <1>10, <1>11, <1>12
     DEF DeviceStep, NbdStep

\* Failures and foreign attachments are counted up only.
LEMMA StepCounts ==
  ASSUME NbdTypeOK, NEW g \in Handles, DeviceStep(g)
  PROVE  /\ foreign' = foreign
         /\ faults' \in 0 .. MaxFaults /\ (faults' = 0 => faults = 0)
         /\ NoFault \/ Fault
<1>1. foreign' = foreign /\ (NoFault \/ Fault)
  BY Zenon DEF DeviceStep, NbdStep, NbdDies, CallsConnect, CallsDisconnect, nbdStill, Acquire, List,
     Check, Spawn, Wait, Cleanup, CutDevice, Poll, ForceDevice, NoFault
<1>2. faults' \in 0 .. MaxFaults /\ (faults' = 0 => faults = 0)
  BY <1>1, DevicesAssumption DEF NoFault, Fault, NbdTypeOK
<1> QED
  BY <1>1, <1>2

\* Two handles that lock one file are not both past its acquisition.
LEMMA OneInConnect ==
  ASSUME NEW g \in Handles, NEW h \in Handles, LockFits(g), LockFits(h),
         step[g] \in InConnect, step[h] \in InConnect, LockFile[g] = LockFile[h]
  PROVE  g = h
BY DEF LockFits

\* The handles that do not take the step keep their part of the invariant.
LEMMA OthersDeviceFits ==
  ASSUME DeviceInv, NEW g \in Handles, DeviceStep(g), NEW h \in Handles, h # g
  PROVE  DeviceFits(h)'
<1> USE DevicesAssumption
<1>1. NbdTypeOK /\ DeviceFits(g) /\ DeviceFits(h) /\ Moves(g) /\ Spares(h)
  BY Zenon, StepMoves, StepSpares DEF DeviceInv
<1>2. foreign' = foreign /\ (faults' = 0 => faults = 0)
  BY <1>1, StepCounts
<1>3. LockFits(h)'
  BY <1>1 DEF DeviceFits, LockFits, Spares, Locks
<1>4. PathFits(h)'
  BY <1>1 DEF DeviceFits, PathFits, Spares
<1>5. ASSUME NEW d \in Devices
      PROVE  \/ dev'[d] = dev[d]
             \/ /\ dev'[d] = Nobody /\ d = at[g]
                /\ cut' = {} => cut = {} /\ dev[d] \in {g, Nobody}
             \/ dev'[d] = g /\ dev[d] = Nobody /\ step[g] = "spawn"
  BY Zenon, <1>1 DEF Moves, Detach, NbdTypeOK
<1>6. cut' = {} => cut = {}
  BY <1>1 DEF Moves, Detach
<1>7. connected[h] \/ step[h] \in (InConnect \ {"list", "check"}) => at[h] \in Devices
  BY <1>1 DEF DeviceFits, PathFits
<1>8. CandFits(h)'
  <2> SUFFICES ASSUME step[h] \in InConnect \ {"list"}, NEW d \in Trying(h),
                      dev'[d] \in Handles, dev'[d] # h
               PROVE  LockFile[dev'[d]] # LockFile[h]
    BY <1>1 DEF CandFits, Spares, Trying
  <2>1. d \in Devices
    BY <1>1, <1>7 DEF Trying, NbdTypeOK
  <2>2. CASE dev'[d] = dev[d]
    BY <1>1, <2>2 DEF DeviceFits, CandFits
  <2>3. CASE dev'[d] = g /\ step[g] = "spawn"
    BY Zenon, <1>1, <2>3, OneInConnect DEF DeviceFits, InConnect
  <2> QED
    BY <1>5, <2>1, <2>2, <2>3
<1>9. OwnFits(h)'
  <2> SUFFICES ASSUME Undisturbed'
               PROVE  /\ connected[h] /\ step[h] \in {"idle", "cut"} => dev'[at[h]] = h
                      /\ step[h] = "spawn" => dev'[at[h]] = Nobody
                      /\ step[h] = "wait" => dev'[at[h]] \in {h, Nobody}
    BY <1>1 DEF OwnFits, Spares
  <2>1. Undisturbed /\ cut' = {} /\ OneLockFile
    BY <1>2, <1>6 DEF Undisturbed, OneLockFile
  <2>2. /\ connected[h] /\ step[h] \in {"idle", "cut"} => dev[at[h]] = h
        /\ step[h] = "spawn" => dev[at[h]] = Nobody
        /\ step[h] = "wait" => dev[at[h]] \in {h, Nobody}
    BY Zenon, <1>1, <2>1 DEF DeviceFits, OwnFits
  <2>3. step[h] \in {"spawn", "wait"} => step[g] # "spawn"
    BY <1>1, <2>1, OneInConnect DEF DeviceFits, InConnect, OneLockFile
  <2> QED
    BY Zenon, <1>5, <1>7, <2>1, <2>2, <2>3 DEF InConnect
<1>10. KnownFits(h)'
  <2> SUFFICES ASSUME faults' = 0, NEW d \in Devices, dev'[d] = h
               PROVE  d = at[h] /\ (step[h] = "wait" \/ (connected[h] /\ step[h] \in {"idle", "cut"}))
    BY <1>1 DEF KnownFits, Spares
  <2>1. dev[d] = h
    BY <1>5
  <2> QED
    BY <1>1, <1>2, <2>1 DEF DeviceFits, KnownFits
<1> QED
  BY Zenon, <1>3, <1>4, <1>8, <1>9, <1>10 DEF DeviceFits

\* The types of what a handle keeps to itself.
LocalTypes ==
  /\ lock \in [Locks -> Handles \cup {Nobody}]
  /\ step \in [Handles -> NbdSteps]
  /\ outcome \in [Handles -> {"none", "ok", "err"}]
  /\ cand \in [Handles -> SUBSET Devices]
  /\ at \in [Handles -> Devices \cup {NoDevice}]
  /\ connected \in [Handles -> BOOLEAN]

\* The handle that takes the step keeps its part: first inside connect, ...
LEMMA ConnectFits ==
  ASSUME DeviceInv, NEW h \in Handles, UNCHANGED foreign, faults' = 0 => faults = 0,
         Acquire(h) \/ List(h) \/ Check(h) \/ Spawn(h) \/ Wait(h) \/ Cleanup(h)
  PROVE  LocalTypes' /\ DeviceFits(h)'
<1> USE DevicesAssumption
<1>0. /\ NbdTypeOK /\ LockFits(h) /\ PathFits(h) /\ CandFits(h) /\ OwnFits(h) /\ KnownFits(h)
      /\ LockFile[h] \in Locks
  BY Zenon DEF DeviceInv, DeviceFits, Locks
<1>u. Undisturbed' /\ UNCHANGED cut => Undisturbed
  BY DEF Undisturbed, OneLockFile
<1>1. CASE Acquire(h)
  <2>1. /\ step[h] = "lock" /\ step'[h] = "list" /\ lock'[LockFile[h]] = h
        /\ connected' = connected /\ dev' = dev
    BY <1>0, <1>1 DEF Acquire, Goto, NbdTypeOK
  <2>2. LocalTypes'
    BY Zenon, <1>0, <1>1 DEF Acquire, Goto, NbdTypeOK, LocalTypes, NbdSteps
  <2>3. ~connected[h]
    BY Zenon, <1>0, <2>1 DEF PathFits, Leaving
  <2>4. LockFits(h)' /\ PathFits(h)' /\ CandFits(h)' /\ OwnFits(h)'
    BY ZenonT(40), <2>1, <2>3 DEF LockFits, PathFits, CandFits, OwnFits, Leaving
  <2>5. KnownFits(h)'
    BY <1>0, <2>1, <2>3 DEF KnownFits
  <2> QED
    BY Zenon, <2>2, <2>4, <2>5 DEF DeviceFits
<1>2. CASE List(h)
  <2>1. /\ step[h] = "list" /\ step'[h] \in {"idle", "check"} /\ cand'[h] = Free
        /\ step'[h] = "check" => Free # {} /\ lock' = lock
        /\ connected' = connected /\ dev' = dev
    BY Zenon, <1>0, <1>2 DEF List, Goto, Ends, NbdTypeOK
  <2>2. LocalTypes'
    BY <1>0, <1>2 DEF List, Goto, Ends, Release, Free, NbdTypeOK, LocalTypes, NbdSteps
  <2>3. ~connected[h]
    BY Zenon, <1>0, <2>1 DEF PathFits, Leaving
  <2>4. LockFits(h)' /\ PathFits(h)' /\ OwnFits(h)'
    BY ZenonT(40), <1>0, <2>1, <2>3 DEF LockFits, PathFits, OwnFits, Leaving, InConnect
  <2>5. KnownFits(h)'
    BY <1>0, <2>1, <2>3 DEF KnownFits
  <2>6. CandFits(h)'
    BY <2>1 DEF CandFits, Trying, Free, InConnect
  <2> QED
    BY Zenon, <2>2, <2>4, <2>5, <2>6 DEF DeviceFits
<1>3. CASE Check(h)
  <2> DEFINE d == Min(cand[h])
  <2>1. step[h] = "check" /\ d \in cand[h] /\ d \in Devices
    <3>1. step[h] = "check"
      BY Zenon, <1>3 DEF Check
    <3>2. cand[h] \in SUBSET Nat /\ cand[h] # {} /\ cand[h] \subseteq Devices
      BY <1>0, <3>1 DEF PathFits, NbdTypeOK, Devices
    <3>3. Min(cand[h]) \in cand[h]
      BY Zenon, <3>2, MinIsIn
    <3> QED
      BY <3>1, <3>2, <3>3
  <2> HIDE DEF d
  <2>2. /\ at'[h] = d /\ cand'[h] = cand[h] \ {d}
        /\ step'[h] = IF dev[d] = Nobody THEN "spawn" ELSE "cleanup"
        /\ connected' = connected /\ dev' = dev /\ lock' = lock /\ cut' = cut
    BY Zenon, <1>0, <1>3 DEF Check, Goto, NbdTypeOK, d
  <2>3. LocalTypes'
    BY Zenon, <1>0, <1>3, <2>1 DEF Check, Goto, NbdTypeOK, LocalTypes, NbdSteps, d
  <2>4. ~connected[h]
    BY ZenonT(40), <1>0, <2>1 DEF PathFits, Leaving
  <2>5. LockFits(h)' /\ PathFits(h)' /\ OwnFits(h)'
    BY <1>0, <2>1, <2>2, <2>4 DEF LockFits, PathFits, OwnFits, Leaving, InConnect
  <2>6. KnownFits(h)'
    BY Zenon, <1>0, <2>1, <2>2, <2>4 DEF KnownFits
  <2>7. CandFits(h)'
    BY Zenon, <1>0, <2>1, <2>2 DEF CandFits, Trying, InConnect
  <2> QED
    BY Zenon, <2>3, <2>5, <2>6, <2>7 DEF DeviceFits
<1>4. CASE Spawn(h)
  <2>1. /\ step[h] = "spawn" /\ step'[h] = "wait" /\ connected' = connected /\ lock' = lock
        /\ at' = at /\ cand' = cand /\ cut' = cut
    BY <1>0, <1>4 DEF Spawn, Goto, NbdTypeOK
  <2>2. at[h] \in Devices /\ ~connected[h]
    BY Zenon, <1>0, <2>1 DEF PathFits, Leaving, InConnect
  <2>3. \A x \in Devices : dev'[x] = dev[x] \/ (x = at[h] /\ dev'[x] = h)
    BY Zenon, <1>0, <1>4 DEF Spawn, NbdTypeOK
  <2>4. LocalTypes'
    BY Zenon, <1>0, <1>4 DEF Spawn, Goto, NbdTypeOK, LocalTypes, NbdSteps
  <2>5. LockFits(h)' /\ PathFits(h)'
    BY Zenon, <1>0, <2>1, <2>2 DEF LockFits, PathFits, Leaving, InConnect
  <2>6. OwnFits(h)'
    BY Zenon, <1>0, <1>u, <2>1, <2>2, <2>3 DEF OwnFits
  <2>7. KnownFits(h)'
    BY Zenon, <1>0, <2>1, <2>2, <2>3 DEF KnownFits
  <2>8. CandFits(h)'
    <3>1. Trying(h)' = Trying(h) /\ Trying(h) \subseteq Devices
      BY <1>0, <2>1, <2>2 DEF Trying, NbdTypeOK
    <3>2. \A x \in Trying(h) : dev[x] \in Handles /\ dev[x] # h => LockFile[dev[x]] # LockFile[h]
      BY ZenonT(40), <1>0, <2>1 DEF CandFits, InConnect
    <3> QED
      BY ZenonT(40), <2>3, <3>1, <3>2 DEF CandFits
  <2> QED
    BY Zenon, <2>4, <2>5, <2>6, <2>7, <2>8 DEF DeviceFits
<1>5. CASE Wait(h)
  <2>1. /\ step[h] = "wait" /\ dev' = dev /\ at' = at /\ cand' = cand /\ cut' = cut
        /\ \/ step'[h] = "idle" /\ connected'[h] /\ dev[at[h]] # Nobody
           \/ /\ step'[h] = "recleanup" /\ connected'[h] = connected[h] /\ lock' = lock
              /\ dev[at[h]] = Nobody \/ faults' # 0
    BY <1>0, <1>5 DEF Wait, Ends, Goto, Fault, NbdTypeOK
  <2>2. at[h] \in Devices /\ ~connected[h]
    BY Zenon, <1>0, <2>1 DEF PathFits, Leaving, InConnect
  <2>3. LocalTypes'
    BY Zenon, <1>0, <1>5 DEF Wait, Ends, Release, Goto, NbdTypeOK, LocalTypes, NbdSteps
  <2>4. LockFits(h)' /\ PathFits(h)'
    BY Zenon, <1>0, <2>1, <2>2 DEF LockFits, PathFits, Leaving, InConnect
  <2>5. OwnFits(h)'
    BY Zenon, <1>0, <1>u, <2>1, <2>2 DEF OwnFits
  <2>6. KnownFits(h)'
    BY Zenon, <1>0, <2>1, <2>2 DEF KnownFits
  <2>7. CandFits(h)'
    BY Zenon, <1>0, <2>1 DEF CandFits, Trying, InConnect
  <2> QED
    BY Zenon, <2>3, <2>4, <2>5, <2>6, <2>7 DEF DeviceFits
<1>6. CASE Cleanup(h)
  <2>1. step[h] \in {"recleanup", "cleanup"}
    BY Zenon, <1>6 DEF Cleanup
  <2>2. at[h] \in Devices /\ ~connected[h]
    BY Zenon, <1>0, <2>1 DEF PathFits, Leaving, InConnect
  <2>3. /\ connected' = connected /\ cand' = cand
        /\ \/ step'[h] = "cleanup" /\ lock' = lock /\ at' = at
           \/ step'[h] = "check" /\ cand[h] # {} /\ lock' = lock
           \/ step'[h] = "idle"
    BY Zenon, <1>0, <1>6 DEF Cleanup, Ends, Goto, NbdTypeOK
  <2>4. \A x \in Devices : dev'[x] = dev[x] \/ (x = at[h] /\ dev'[x] = Nobody)
    BY Zenon, <1>0, <1>6 DEF Cleanup, Detach, NbdTypeOK
  <2>5. LocalTypes'
    BY <1>0, <1>6 DEF Cleanup, Ends, Release, Goto, NbdTypeOK, LocalTypes, NbdSteps
  <2>6. LockFits(h)' /\ PathFits(h)' /\ OwnFits(h)'
    BY Zenon, <1>0, <2>1, <2>2, <2>3 DEF LockFits, PathFits, OwnFits, Leaving, InConnect
  <2>7. KnownFits(h)'
    BY ZenonT(40), <1>0, <2>1, <2>2, <2>4 DEF KnownFits
  <2>8. CandFits(h)'
    <3>1. step'[h] \in InConnect => \A x \in Trying(h)' : x \in Trying(h) /\ x \in Devices
      BY Zenon, <1>0, <2>1, <2>2, <2>3 DEF Trying, NbdTypeOK, InConnect
    <3>2. \A x \in Trying(h) : dev[x] \in Handles /\ dev[x] # h => LockFile[dev[x]] # LockFile[h]
      BY Zenon, <1>0, <2>1 DEF CandFits, InConnect
    <3> QED
      BY <2>4, <3>1, <3>2 DEF CandFits
  <2> QED
    BY Zenon, <2>5, <2>6, <2>7, <2>8 DEF DeviceFits
<1> QED
  BY Zenon, <1>1, <1>2, <1>3, <1>4, <1>5, <1>6

\* ... then inside disconnect, ...
LEMMA DisconnectFits ==
  ASSUME DeviceInv, NEW h \in Handles, UNCHANGED foreign, faults' = 0 => faults = 0,
         CutDevice(h) \/ Poll(h) \/ ForceDevice(h)
  PROVE  LocalTypes' /\ DeviceFits(h)'
<1> USE DevicesAssumption
<1>0. NbdTypeOK /\ PathFits(h) /\ OwnFits(h) /\ KnownFits(h)
  BY Zenon DEF DeviceInv, DeviceFits
<1>1. /\ step[h] \in Leaving /\ cand' = cand /\ at' = at
      /\ \/ step'[h] \in {"poll", "force"} /\ connected' = connected
         \/ step'[h] = "idle" /\ ~connected'[h]
         \/ /\ step[h] = "cut" /\ step'[h] = "idle" /\ connected' = connected
            /\ UNCHANGED <<dev, cut>>
  BY Zenon, <1>0 DEF CutDevice, Poll, ForceDevice, Goto, Ends, NbdTypeOK, Leaving
<1>2. connected[h] /\ at[h] \in Devices
  BY ZenonT(40), <1>0, <1>1 DEF PathFits
<1>3. \A d \in Devices :
        \/ dev'[d] = dev[d] /\ (step[h] = "cut" => faults' # 0)
        \/ dev'[d] = dev[d] /\ d # at[h]
        \/ dev'[d] = Nobody
  BY <1>0 DEF CutDevice, Poll, ForceDevice, Detach, Fault, NbdTypeOK
<1>4. LocalTypes'
  BY ZenonT(40), <1>0 DEF CutDevice, Poll, ForceDevice, Goto, Ends, Release, NbdTypeOK, LocalTypes, NbdSteps
<1>5. LockFits(h)' /\ PathFits(h)' /\ CandFits(h)'
  BY Zenon, <1>1, <1>2 DEF LockFits, PathFits, CandFits, Leaving, InConnect
<1>6. KnownFits(h)'
  BY ZenonT(40), <1>0, <1>1, <1>3 DEF KnownFits, Leaving
<1>7. OwnFits(h)'
  <2>1. Undisturbed' /\ UNCHANGED cut => Undisturbed
    BY Zenon DEF Undisturbed, OneLockFile
  <2> QED
    BY ZenonT(40), <1>0, <1>1, <1>2, <2>1 DEF OwnFits
<1> QED
  BY Zenon, <1>4, <1>5, <1>6, <1>7 DEF DeviceFits

\* ... and at the calls and the end of the process.
LEMMA CallFits ==
  ASSUME DeviceInv, NEW h \in Handles, faults' = 0 => faults = 0,
         \/ NbdDies(h) \/ CallsConnect(h) \/ CallsDisconnect(h) \/ UNCHANGED nbdStill
  PROVE  LocalTypes' /\ DeviceFits(h)'
<1> USE DevicesAssumption
<1>0. NbdTypeOK /\ DeviceFits(h)
  BY Zenon DEF DeviceInv
<1>u. UNCHANGED <<cut, foreign>> => Undisturbed' = Undisturbed
  BY Zenon DEF Undisturbed, OneLockFile
<1>1. CASE NbdDies(h)
  <2>1. step'[h] = "dead" /\ ~connected'[h] /\ faults' # 0
    BY <1>0, <1>1 DEF NbdDies, Fault, NbdTypeOK
  <2>2. LocalTypes'
    BY <1>0, <1>1 DEF NbdDies, Release, NbdTypeOK, LocalTypes, NbdSteps
  <2>3. LockFits(h)' /\ CandFits(h)' /\ OwnFits(h)' /\ KnownFits(h)'
    BY Zenon, <2>1 DEF LockFits, CandFits, OwnFits, KnownFits, InConnect
  <2>4. PathFits(h)'
    BY Zenon, <2>1 DEF PathFits, InConnect, Leaving
  <2> QED
    BY Zenon, <2>2, <2>3, <2>4 DEF DeviceFits
<1>2. CASE CallsConnect(h) \/ CallsDisconnect(h)
  <2>1. /\ step[h] = "idle" /\ UNCHANGED <<dev, lock, cand, at, connected, foreign, cut>>
        /\ \/ step'[h] = "lock" /\ ~connected[h]
           \/ step'[h] = "cut" /\ connected[h]
           \/ step'[h] = "idle"
    BY Zenon, <1>0, <1>2 DEF CallsConnect, CallsDisconnect, Connect, Disconnect, NbdTypeOK
  <2>2. LocalTypes'
    BY ZenonT(40), <1>0, <1>2 DEF CallsConnect, CallsDisconnect, Connect, Disconnect, NbdTypeOK, LocalTypes, NbdSteps
  <2>3. LockFits(h)' /\ CandFits(h)'
    BY Zenon, <2>1 DEF LockFits, CandFits, InConnect
  <2>4. PathFits(h)'
    BY <1>0, <2>1 DEF DeviceFits, PathFits, InConnect, Leaving
  <2>5. OwnFits(h)'
    BY Zenon, <1>0, <1>u, <2>1 DEF DeviceFits, OwnFits
  <2>6. KnownFits(h)'
    BY <1>0, <2>1 DEF DeviceFits, KnownFits
  <2> QED
    BY Zenon, <2>2, <2>3, <2>4, <2>5, <2>6 DEF DeviceFits
<1>3. CASE UNCHANGED nbdStill
  <2>1. LocalTypes'
    BY <1>0, <1>3 DEF nbdStill, NbdTypeOK, LocalTypes
  <2>2. LockFits(h)' /\ PathFits(h)' /\ CandFits(h)'
    BY Zenon, <1>0, <1>3 DEF nbdStill, DeviceFits, LockFits, PathFits, CandFits, Trying
  <2>3. OwnFits(h)'
    BY Zenon, <1>0, <1>3, <1>u DEF nbdStill, DeviceFits, OwnFits
  <2>4. KnownFits(h)'
    BY <1>0, <1>3 DEF nbdStill, DeviceFits, KnownFits
  <2> QED
    BY Zenon, <2>1, <2>2, <2>3, <2>4 DEF DeviceFits
<1> QED
  BY Zenon, <1>1, <1>2, <1>3

\* A program outside the handles takes a free device or gives its own back.
LEMMA ForeignInv ==
  ASSUME DeviceInv, NEW x \in Devices, ForeignAttach(x) \/ ForeignDetach(x)
  PROVE  DeviceInv'
<1> USE DevicesAssumption
<1>0. NbdTypeOK /\ NoStranger /\ ConnectSparesHandles
  BY Zenon DEF DeviceInv
<1>1. /\ UNCHANGED <<lock, step, outcome, cand, at, connected, faults, cut>>
      /\ foreign' \in 0 .. MaxForeign /\ (foreign' = 0 => foreign = 0)
      /\ dev[x] \in {Nobody, Foreign} /\ dev'[x] \in {Nobody, Foreign}
      /\ \A d \in Devices : d # x => dev'[d] = dev[d]
      /\ foreign' = 0 => dev'[x] # Foreign
  BY <1>0 DEF ForeignAttach, ForeignDetach, NbdTypeOK
<1>2. NbdTypeOK'
  BY Zenon, <1>0, <1>1 DEF ForeignAttach, ForeignDetach, NbdTypeOK
<1>3. NoStranger' /\ ConnectSparesHandles'
  BY <1>0, <1>1 DEF NoStranger, ConnectSparesHandles
<1>4. ASSUME NEW h \in Handles
      PROVE  DeviceFits(h)'
  <2>0. LockFits(h) /\ PathFits(h) /\ CandFits(h) /\ OwnFits(h) /\ KnownFits(h)
    BY Zenon DEF DeviceInv, DeviceFits
  <2>1. LockFits(h)' /\ PathFits(h)'
    BY Zenon, <1>1, <2>0 DEF LockFits, PathFits
  <2>2. CandFits(h)'
    <3>1. step[h] \in InConnect \ {"list"} => Trying(h) \subseteq Devices
      BY Zenon, <1>0, <2>0 DEF PathFits, Trying, NbdTypeOK
    <3>2. Trying(h)' = Trying(h)
      BY ZenonT(40), <1>1 DEF Trying
    <3> QED
      BY Zenon, <1>1, <2>0, <3>1, <3>2 DEF CandFits
  <2>3. OwnFits(h)'
    <3>1. SUFFICES ASSUME Undisturbed' PROVE OwnFits(h)'
      BY Zenon DEF OwnFits
    <3>2. foreign = 0 /\ foreign' = 0 /\ Undisturbed
      BY Zenon, <1>1, <3>1 DEF Undisturbed, OneLockFile
    <3>3. dev' = dev
      BY <1>0, <1>1, <3>2 DEF ForeignAttach, ForeignDetach, NoStranger, NbdTypeOK
    <3> QED
      BY <1>1, <2>0, <3>2, <3>3 DEF OwnFits
  <2>4. KnownFits(h)'
    BY Zenon, <1>1, <2>0 DEF KnownFits
  <2> QED
    BY Zenon, <2>1, <2>2, <2>3, <2>4 DEF DeviceFits
<1> QED
  BY Zenon, <1>2, <1>3, <1>4 DEF DeviceInv

\* The device part of the invariant, step by step.
LEMMA DeviceInvStep == DeviceInv /\ [Next]_vars => DeviceInv'
<1> USE DevicesAssumption
<1> SUFFICES ASSUME DeviceInv, [Next]_vars
             PROVE  DeviceInv'
  OBVIOUS
<1>1. ASSUME NEW g \in Handles, DeviceStep(g)
      PROVE  DeviceInv'
  <2>0. NbdTypeOK /\ NoStranger /\ ConnectSparesHandles /\ DeviceFits(g)
    BY Zenon DEF DeviceInv
  <2>1. /\ foreign' = foreign /\ faults' \in 0 .. MaxFaults /\ (faults' = 0 => faults = 0)
        /\ Moves(g)
    BY Zenon, <1>1, <2>0, StepCounts, StepMoves
  <2>2. LocalTypes' /\ DeviceFits(g)'
    <3>1. UNCHANGED foreign
      BY <2>1
    <3> QED
      BY Zenon, <1>1, <2>1, <3>1, ConnectFits, DisconnectFits, CallFits DEF DeviceStep, NbdStep
  <2>3. \A h \in Handles : DeviceFits(h)'
    BY Zenon, <1>1, <2>2, OthersDeviceFits
  <2>4. step[g] \in {"recleanup", "cleanup", "cut", "force", "spawn"} => at[g] \in Devices
    BY Zenon, <2>0 DEF DeviceFits, PathFits, InConnect, Leaving
  <2>5. dev' \in [Devices -> Handles \cup {Nobody, Foreign}]
    BY ZenonT(40), <2>0, <2>1 DEF Moves, Detach, NbdTypeOK
  <2>6. \A x \in cut' : x \in cut \/
          /\ x = [where |-> "connect", by |-> g, of |-> dev[at[g]]]
             \/ x = [where |-> "disconnect", by |-> g, of |-> dev[at[g]]]
          /\ dev[at[g]] \notin {g, Nobody} /\ at[g] \in Devices
          /\ x.where = "connect" => step[g] \in {"recleanup", "cleanup"}
    BY <2>1, <2>4 DEF Moves, Detach
  <2>7. cut' \subseteq [where : {"connect", "disconnect"}, by : Handles,
                        of : Handles \cup {Foreign}]
    BY <2>0, <2>6 DEF NbdTypeOK
  <2>8. NbdTypeOK'
    BY Zenon, <2>0, <2>1, <2>2, <2>5, <2>7 DEF NbdTypeOK, LocalTypes
  <2>9. NoStranger'
    BY <2>0, <2>1 DEF Moves, Detach, NoStranger, NbdTypeOK
  <2>10. ConnectSparesHandles'
    <3> SUFFICES ASSUME NEW x \in cut', x.where = "connect", x.of \in Handles
                 PROVE  LockFile[x.of] # LockFile[x.by]
      BY DEF ConnectSparesHandles
    <3>1. CASE x \in cut
      BY Zenon, <2>0, <3>1 DEF ConnectSparesHandles
    <3>2. CASE x \notin cut
      <4>1. /\ x.by = g /\ x.of = dev[at[g]] /\ dev[at[g]] # g
            /\ step[g] \in {"recleanup", "cleanup"}
        BY <2>6, <3>2
      <4>2. at[g] \in Trying(g) /\ step[g] \in InConnect \ {"list"}
        BY <4>1 DEF Trying, InConnect
      <4> QED
        BY <2>0, <4>1, <4>2 DEF DeviceFits, CandFits
    <3> QED
      BY <3>1, <3>2
  <2> QED
    BY Zenon, <2>3, <2>8, <2>9, <2>10 DEF DeviceInv
<1>2. CASE UNCHANGED vars
  <2>1. UNCHANGED nbdVars
    BY Zenon, <1>2 DEF vars
  <2>2. NbdTypeOK' /\ NoStranger' /\ ConnectSparesHandles'
    BY <2>1 DEF nbdVars, DeviceInv, NbdTypeOK, NoStranger, ConnectSparesHandles
  <2>3. ASSUME NEW h \in Handles PROVE DeviceFits(h)'
    <3>1. UNCHANGED nbdStill /\ (faults' = 0 => faults = 0)
      BY <2>1 DEF nbdVars, nbdStill
    <3> QED
      BY Zenon, <3>1, CallFits
  <2> QED
    BY Zenon, <2>2, <2>3 DEF DeviceInv
<1> QED
  BY Zenon, <1>1, <1>2, StepsOfDevices, ForeignInv

-----------------------------------------------------------------------------
\* The types of a handle's fields, one by one.
FieldTypes ==
  /\ state \in [Handles -> {"config", "launching", "ready", "error", "closed", "dropped"}]
  /\ drive \in [Handles -> {"none", "raw", "qcow2"}]
  /\ job \in [Handles -> Jobs]
  /\ live \in [Handles -> {"none", "attached", "detached"}]
  /\ loopDev \in [Handles -> BOOLEAN] /\ nbdDev \in [Handles -> BOOLEAN]
  /\ loopLive \in [Handles -> BOOLEAN] /\ mounted \in [Handles -> BOOLEAN]
  /\ root \in [Handles -> BOOLEAN] /\ lazy \in [Handles -> BOOLEAN]
  /\ dropping \in [Handles -> BOOLEAN] /\ unclean \in [Handles -> BOOLEAN]

\* The types of a handle are those of its device and of its fields.
LEMMA TypesOfFields == TypeOK <=> NbdTypeOK /\ FieldTypes
BY ZenonT(40) DEF TypeOK, FieldTypes

\* A failure shows in the counter for good.
LEMMA FaultShows == NbdTypeOK => (Fault => faults' # 0) /\ (NoFault => faults' = faults)
BY DEF NbdTypeOK, Fault, NoFault

\* What a step of connect or disconnect means for the handle that waits for it.
LEMMA NbdChange ==
  ASSUME NbdTypeOK, NEW h \in Handles, PathFits(h), NbdStep(h)
  PROVE  \/ /\ step[h] \in InConnect \cup {"lock"} /\ step'[h] \in InConnect
            /\ ~connected[h] /\ ~connected'[h]
         \/ /\ step[h] \in InConnect /\ step'[h] = "idle" /\ ~connected[h]
            /\ (outcome'[h] = "ok" /\ connected'[h]) \/ (outcome'[h] = "err" /\ ~connected'[h])
         \/ step[h] \in Leaving /\ step'[h] \in Leaving /\ connected[h] /\ connected'[h]
         \/ step[h] \in Leaving /\ step'[h] = "idle" /\ (~connected'[h] \/ faults' # 0)
<1>1. CASE step[h] \in InConnect \cup {"lock"}
  <2>1. ~connected[h]
    BY Zenon, <1>1 DEF PathFits, InConnect, Leaving
  <2>2. CASE Wait(h)
    BY Zenon, <2>1, <2>2 DEF Wait, Ends, Goto, NbdTypeOK, InConnect
  <2>3. CASE Acquire(h) \/ List(h)
    BY Zenon, <2>1, <2>3 DEF Acquire, List, Ends, Goto, NbdTypeOK, InConnect
  <2>4. CASE Check(h) \/ Spawn(h)
    BY Zenon, <2>1, <2>4 DEF Check, Spawn, Goto, NbdTypeOK, InConnect
  <2>5. CASE Cleanup(h)
    BY <2>1, <2>5 DEF Cleanup, Ends, Goto, NbdTypeOK, InConnect
  <2> QED
    BY Zenon, <1>1, <2>2, <2>3, <2>4, <2>5 DEF NbdStep, CutDevice, Poll, ForceDevice, InConnect
<1>2. CASE step[h] \in Leaving
  <2>1. connected[h]
    BY Zenon, <1>2 DEF PathFits
  <2>2. CASE CutDevice(h)
    BY Zenon, <1>2, <2>1, <2>2, FaultShows DEF CutDevice, Ends, Goto, NbdTypeOK, Leaving
  <2>3. CASE Poll(h)
    BY Zenon, <1>2, <2>1, <2>3 DEF Poll, Ends, Goto, NbdTypeOK, Leaving
  <2>4. CASE ForceDevice(h)
    BY Zenon, <1>2, <2>1, <2>4 DEF ForceDevice, Ends, NbdTypeOK, Leaving
  <2> QED
    BY Zenon, <1>2, <2>2, <2>3, <2>4 DEF NbdStep, Acquire, List, Check, Spawn, Wait, Cleanup, Leaving
<1> QED
  BY Zenon, <1>1, <1>2 DEF NbdStep, Acquire, List, Check, Spawn, Wait, Cleanup, CutDevice, Poll,
     ForceDevice, InConnect, Leaving

\* A handle that waits for connect or disconnect goes on with it.
LEMMA WaitingFits ==
  ASSUME TypeOK, NEW h \in Handles, PathFits(h), HandleFits(h), NbdStep(h), UNCHANGED handleVars,
         faults' = 0 => faults = 0
  PROVE  HandleFits(h)'
<1>0. NbdTypeOK /\ FieldTypes
  BY Zenon, TypesOfFields
<1>1. UNCHANGED <<state, drive, job, loopDev, nbdDev, loopLive, mounted, live, root, unclean>>
  BY DEF handleVars
<1>2. JobFits(h) /\ StateFits(h) /\ CleanFits(h) /\ FaultlessFits(h)
  BY Zenon DEF HandleFits
<1>3. CASE step[h] \in InConnect \cup {"lock"}
  <2>1. job[h] \in {"launch", "setup"} /\ ~nbdDev[h]
    BY Zenon, <1>0, <1>2, <1>3 DEF JobFits, StateFits, InConnect, Leaving, FieldTypes, Jobs
  <2>2. \/ step'[h] \in InConnect /\ ~connected'[h]
        \/ step'[h] = "idle" /\ outcome'[h] = "ok" /\ connected'[h]
        \/ step'[h] = "idle" /\ outcome'[h] = "err" /\ ~connected'[h]
    BY <1>0, <1>3, NbdChange DEF InConnect, Leaving
  <2>3. JobFits(h)'
    BY Zenon, <1>1, <2>1, <2>2 DEF JobFits, InConnect, Leaving
  <2>4. StateFits(h)' /\ CleanFits(h)' /\ FaultlessFits(h)'
    BY Zenon, <1>1, <1>2, <2>1, <2>2 DEF StateFits, CleanFits, FaultlessFits, InConnect, Leaving
  <2> QED
    BY Zenon, <2>3, <2>4 DEF HandleFits
<1>4. CASE step[h] \in Leaving
  <2>1. job[h] \in {"fail", "drop", "root", "close"} /\ ~nbdDev[h]
    BY Zenon, <1>0, <1>2, <1>4 DEF JobFits, StateFits, InConnect, Leaving, FieldTypes, Jobs
  <2>2. \/ step'[h] \in Leaving
        \/ step'[h] = "idle" /\ (~connected'[h] \/ faults' # 0)
    BY ZenonT(40), <1>0, <1>4, NbdChange DEF InConnect, Leaving
  <2>3. JobFits(h)'
    BY <1>1, <1>2, <2>1, <2>2 DEF JobFits, InConnect, Leaving
  <2>4. StateFits(h)' /\ CleanFits(h)' /\ FaultlessFits(h)'
    BY Zenon, <1>1, <1>2, <1>4, <2>1, <2>2 DEF StateFits, CleanFits, FaultlessFits, InConnect, Leaving
  <2> QED
    BY Zenon, <2>3, <2>4 DEF HandleFits
<1> QED
  BY <1>0, <1>3, <1>4, NbdChange

\* The calls before a device is there, and the end of launch.
LEMMA LaunchFits ==
  ASSUME TypeOK, NEW h \in Handles, PathFits(h), HandleFits(h),
         AddDrive(h) \/ LaunchLoop(h) \/ LaunchNbd(h) \/ LaunchEnds(h) \/ LaunchFails(h)
  PROVE  FieldTypes' /\ HandleFits(h)'
<1>0. NbdTypeOK /\ FieldTypes /\ JobFits(h) /\ StateFits(h) /\ CleanFits(h) /\ FaultlessFits(h)
  BY Zenon, TypesOfFields DEF HandleFits
<1>1. (Fault => faults' # 0) /\ (NoFault => faults' = faults)
  BY <1>0, FaultShows
<1>2. CASE AddDrive(h)
  <2>1. /\ job[h] = "none" /\ step[h] = "idle" /\ state[h] = "config"
        /\ UNCHANGED <<step, outcome, connected, faults, state, job, loopDev, nbdDev, loopLive,
                       mounted, live, root, unclean>>
    BY Zenon, <1>2 DEF AddDrive, Idle, nbdVars, mountStill
  <2>2. FieldTypes'
    BY <1>0, <1>2 DEF AddDrive, Set, FieldTypes, mountStill
  <2>3. JobFits(h)' /\ StateFits(h)' /\ CleanFits(h)' /\ FaultlessFits(h)'
    BY ZenonT(40), <1>0, <2>1 DEF JobFits, StateFits, CleanFits, FaultlessFits
  <2> QED
    BY Zenon, <2>2, <2>3 DEF HandleFits
<1>3. CASE LaunchLoop(h)
  <2>1. /\ job[h] = "none" /\ step[h] = "idle" /\ state[h] = "config"
        /\ UNCHANGED <<step, outcome, connected, drive, job, nbdDev, mounted, live, root, unclean>>
        /\ \/ /\ state'[h] = "ready" /\ drive[h] = "raw" /\ loopDev'[h] /\ loopLive'[h]
              /\ faults' = faults
           \/ /\ state'[h] = "error" /\ UNCHANGED <<loopDev, loopLive>>
              /\ faults' = 0 => faults = 0
    BY <1>0, <1>1, <1>3 DEF LaunchLoop, Idle, nbdStill, mountStill, Set, FieldTypes
  <2>2. FieldTypes'
    BY Zenon, <1>0, <1>3 DEF LaunchLoop, Set, FieldTypes, mountStill
  <2>3. JobFits(h)' /\ StateFits(h)' /\ CleanFits(h)' /\ FaultlessFits(h)'
    BY Zenon, <1>0, <2>1 DEF JobFits, StateFits, CleanFits, FaultlessFits
  <2> QED
    BY Zenon, <2>2, <2>3 DEF HandleFits
<1>4. CASE LaunchNbd(h)
  <2>1. /\ job[h] = "none" /\ step[h] = "idle" /\ ~connected[h] /\ step'[h] = "lock"
        /\ UNCHANGED <<connected, faults, drive, loopDev, nbdDev, loopLive, mounted, live, root,
                       unclean>>
        /\ \/ state[h] = "config" /\ drive[h] = "qcow2" /\ state'[h] = "launching" /\ job'[h] = "launch"
           \/ /\ state[h] = "ready" /\ drive[h] = "raw" /\ ~nbdDev[h] /\ state' = state
              /\ job'[h] = "setup"
    BY ZenonT(40), <1>0, <1>4 DEF LaunchNbd, Connect, Idle, mountStill, Set, FieldTypes, NbdTypeOK
  <2>2. FieldTypes'
    BY <1>0, <1>4 DEF LaunchNbd, Set, FieldTypes, Jobs, mountStill
  <2>3. JobFits(h)' /\ StateFits(h)' /\ CleanFits(h)' /\ FaultlessFits(h)'
    BY Zenon, <1>0, <2>1 DEF JobFits, StateFits, CleanFits, FaultlessFits, Leaving
  <2> QED
    BY Zenon, <2>2, <2>3 DEF HandleFits
<1>5. CASE LaunchEnds(h)
  <2>1. /\ job[h] \in {"launch", "setup"} /\ step[h] = "idle"
        /\ UNCHANGED <<connected, drive, loopDev, loopLive, mounted, live, root, unclean>>
        /\ \/ /\ outcome[h] = "ok" /\ state'[h] = "ready" /\ nbdDev'[h] /\ job'[h] = "none"
              /\ UNCHANGED <<step, outcome, faults>>
           \/ /\ outcome[h] = "err" /\ job'[h] = "none" /\ UNCHANGED <<step, outcome, nbdDev, faults>>
              /\ state'[h] = IF job[h] = "launch" THEN "error" ELSE state[h]
           \/ /\ outcome[h] = "ok" /\ job[h] = "launch" /\ job'[h] = "fail" /\ faults' # 0
              /\ UNCHANGED <<state, nbdDev>> /\ (connected[h] => step'[h] = "cut")
    <3>1. /\ job[h] \in {"launch", "setup"} /\ step[h] = "idle"
          /\ UNCHANGED <<connected, drive, loopDev, loopLive, mounted, live, root, unclean>>
      BY Zenon, <1>5 DEF LaunchEnds, mountStill
    <3>2. \/ /\ outcome[h] = "ok" /\ state' = [state EXCEPT ![h] = "ready"]
             /\ nbdDev' = [nbdDev EXCEPT ![h] = TRUE] /\ job' = [job EXCEPT ![h] = "none"]
             /\ UNCHANGED <<step, outcome, faults>>
          \/ /\ outcome[h] = "err" /\ job' = [job EXCEPT ![h] = "none"]
             /\ UNCHANGED <<step, outcome, nbdDev, faults>>
             /\ state' = [state EXCEPT ![h] = IF job[h] = "launch" THEN "error" ELSE state[h]]
          \/ /\ outcome[h] = "ok" /\ job[h] = "launch" /\ job' = [job EXCEPT ![h] = "fail"]
             /\ faults' # 0 /\ UNCHANGED <<state, nbdDev>>
             /\ connected[h] => step' = [step EXCEPT ![h] = "cut"]
      BY Zenon, <1>1, <1>5 DEF LaunchEnds, Disconnect, Set, NoFault
    <3> QED
      BY ZenonT(40), <1>0, <3>1, <3>2 DEF FieldTypes, NbdTypeOK
  <2>2. FieldTypes'
    BY ZenonT(40), <1>0, <1>5 DEF LaunchEnds, Set, FieldTypes, Jobs, mountStill
  <2>3. outcome[h] \in {"ok", "err"} /\ (outcome[h] = "ok" <=> connected[h]) /\ ~nbdDev[h]
    BY Zenon, <1>0, <2>1 DEF JobFits
  <2>4. JobFits(h)' /\ StateFits(h)' /\ CleanFits(h)' /\ FaultlessFits(h)'
    BY Zenon, <1>0, <2>1, <2>3 DEF JobFits, StateFits, CleanFits, FaultlessFits, Leaving, FieldTypes
  <2> QED
    BY Zenon, <2>2, <2>4 DEF HandleFits
<1>6. CASE LaunchFails(h)
  <2>1. /\ job[h] = "fail" /\ step[h] = "idle" /\ state'[h] = "error" /\ job'[h] = "none"
        /\ UNCHANGED <<step, outcome, connected, faults, drive, loopDev, nbdDev, loopLive,
                       mounted, live, root, unclean>>
    BY Zenon, <1>0, <1>6 DEF LaunchFails, At, nbdVars, mountStill, Set, FieldTypes
  <2>2. FieldTypes'
    BY <1>0, <1>6 DEF LaunchFails, Set, FieldTypes, Jobs, mountStill
  <2>3. JobFits(h)' /\ StateFits(h)' /\ CleanFits(h)' /\ FaultlessFits(h)'
    BY Zenon, <1>0, <2>1 DEF JobFits, StateFits, CleanFits, FaultlessFits
  <2> QED
    BY Zenon, <2>2, <2>3 DEF HandleFits
<1> QED
  BY Zenon, <1>2, <1>3, <1>4, <1>5, <1>6

\* Mounts come and go.
LEMMA MountFits ==
  ASSUME TypeOK, NEW h \in Handles, HandleFits(h),
         MountFs(h) \/ Umount(h) \/ FsReleased(h) \/ Shutdown(h)
  PROVE  FieldTypes' /\ HandleFits(h)'
<1>0. NbdTypeOK /\ FieldTypes /\ JobFits(h) /\ StateFits(h) /\ CleanFits(h) /\ FaultlessFits(h)
  BY Zenon, TypesOfFields DEF HandleFits
<1>1. (Fault => faults' # 0) /\ (NoFault => faults' = faults)
  BY <1>0, FaultShows
<1>2. CASE MountFs(h) \/ Umount(h)
  <2>1. /\ job[h] = "none" /\ step[h] = "idle" /\ state[h] = "ready"
        /\ UNCHANGED <<step, outcome, connected, state, drive, job, loopDev, nbdDev, loopLive, unclean>>
        /\ faults' = 0 => faults = 0
        /\ \/ mounted'[h] /\ live'[h] = "attached"
           \/ ~mounted'[h] /\ live'[h] = "none"
           \/ UNCHANGED <<mounted, live>>
    BY Zenon, <1>0, <1>1, <1>2 DEF MountFs, Umount, Idle, nbdStill, Set, FieldTypes
  <2>2. FieldTypes'
    BY Zenon, <1>0, <1>2 DEF MountFs, Umount, Set, FieldTypes
  <2>3. JobFits(h)' /\ StateFits(h)' /\ CleanFits(h)' /\ FaultlessFits(h)'
    BY Zenon, <1>0, <2>1 DEF JobFits, StateFits, CleanFits, FaultlessFits
  <2> QED
    BY Zenon, <2>2, <2>3 DEF HandleFits
<1>3. CASE FsReleased(h)
  <2>1. /\ live[h] = "detached" /\ live'[h] = "none" /\ loopLive'[h] = loopDev[h]
        /\ UNCHANGED <<step, outcome, connected, faults, state, drive, job, loopDev, nbdDev, mounted,
                       root, unclean>>
    BY Zenon, <1>0, <1>3 DEF FsReleased, nbdVars, Set, FieldTypes
  <2>2. FieldTypes'
    BY Zenon, <1>0, <1>3 DEF FsReleased, Set, FieldTypes
  <2>3. unclean[h] /\ faults # 0
    BY Zenon, <1>0, <2>1 DEF CleanFits, FaultlessFits
  <2>4. JobFits(h)' /\ StateFits(h)' /\ CleanFits(h)' /\ FaultlessFits(h)'
    BY Zenon, <1>0, <2>1, <2>3 DEF JobFits, StateFits, CleanFits, FaultlessFits
  <2> QED
    BY Zenon, <2>2, <2>4 DEF HandleFits
<1>4. CASE Shutdown(h)
  <2>1. /\ job[h] = "none" /\ step[h] = "idle" /\ state[h] \notin {"closed", "dropped"}
        /\ UNCHANGED <<step, outcome, connected, state, drive, loopDev, nbdDev, loopLive, root>>
        /\ \/ ~mounted[h] /\ job'[h] = "detach" /\ UNCHANGED <<mounted, live, unclean, faults>>
           \/ /\ mounted[h] /\ job'[h] = "detach" /\ ~mounted'[h] /\ live'[h] = "none"
              /\ UNCHANGED <<unclean, faults>>
           \/ /\ mounted[h] /\ faults' # 0 /\ unclean'[h] /\ job'[h] \in {"detach", "fields", "none"}
    BY ZenonT(40), <1>0, <1>1, <1>4 DEF Shutdown, ShutdownStops, Idle, nbdStill, Set, FieldTypes, NoFault
  <2>2. FieldTypes'
    <3>0. dropping' \in [Handles -> BOOLEAN]
      BY Zenon, <1>0, <1>4 DEF Shutdown, FieldTypes
    <3>1. mounted' \in [Handles -> BOOLEAN] /\ unclean' \in [Handles -> BOOLEAN]
      <4>1. mounted' \in {mounted, [mounted EXCEPT ![h] = FALSE]}
        BY ZenonT(40), <1>4 DEF Shutdown, Set
      <4>2. unclean' = unclean \/ unclean' = [unclean EXCEPT ![h] = TRUE]
        BY <1>4 DEF Shutdown, Set
      <4> QED
        BY Zenon, <1>0, <4>1, <4>2 DEF FieldTypes
    <3>2. lazy' \in [Handles -> BOOLEAN]
      <4>1. \/ lazy' = lazy \/ lazy' = [lazy EXCEPT ![h] = TRUE]
            \/ lazy' = [lazy EXCEPT ![h] = lazy[h] \/ mounted'[h]]
        BY ZenonT(40), <1>4 DEF Shutdown, Set
      <4> QED
        BY Zenon, <1>0, <3>1, <4>1 DEF FieldTypes
    <3>3. job' \in [Handles -> Jobs] /\ live' \in [Handles -> {"none", "attached", "detached"}]
      BY <1>0, <1>4 DEF Shutdown, ShutdownStops, Set, FieldTypes, Jobs
    <3> QED
      BY Zenon, <1>0, <2>1, <3>0, <3>1, <3>2, <3>3 DEF FieldTypes
  <2>3. mounted[h] => state[h] = "ready"
    BY Zenon, <1>0, <2>1 DEF StateFits, FieldTypes
  <2>4. JobFits(h)' /\ StateFits(h)' /\ CleanFits(h)' /\ FaultlessFits(h)'
    BY ZenonT(40), <1>0, <2>1, <2>3 DEF JobFits, StateFits, CleanFits, FaultlessFits
  <2> QED
    BY Zenon, <2>2, <2>4 DEF HandleFits
<1> QED
  BY Zenon, <1>2, <1>3, <1>4

\* What shutdown and Drop do to the devices of a handle.
LEMMA DetachedFields ==
  ASSUME NbdTypeOK, FieldTypes, NEW h \in Handles, step[h] = "idle",
         LoopDetached(h), NbdDetached(h)
  PROVE  /\ ~loopDev'[h] /\ ~nbdDev'[h] /\ (faults' = 0 => faults = 0)
         /\ loopDev' \in [Handles -> BOOLEAN] /\ nbdDev' \in [Handles -> BOOLEAN]
         /\ loopLive' \in [Handles -> BOOLEAN]
         /\ \/ loopLive'[h] = loopLive[h] /\ faults' # 0
            \/ loopLive'[h] = IF loopDev[h] THEN live[h] # "none" ELSE loopLive[h]
         /\ step'[h] = IF nbdDev[h] /\ connected[h] THEN "cut" ELSE "idle"
<1>1. (Fault => faults' # 0) /\ (NoFault => faults' = faults)
  BY FaultShows
<1>2. /\ ~loopDev'[h] /\ (faults' = 0 => faults = 0)
      /\ loopDev' \in [Handles -> BOOLEAN] /\ loopLive' \in [Handles -> BOOLEAN]
      /\ \/ loopLive'[h] = loopLive[h] /\ faults' # 0
         \/ loopLive'[h] = IF loopDev[h] THEN live[h] # "none" ELSE loopLive[h]
  BY Zenon, <1>1 DEF LoopDetached, Set, FieldTypes
<1>3. /\ ~nbdDev'[h] /\ nbdDev' \in [Handles -> BOOLEAN]
      /\ step'[h] = IF nbdDev[h] /\ connected[h] THEN "cut" ELSE "idle"
  BY DEF NbdDetached, Disconnect, Set, FieldTypes, NbdTypeOK
<1> QED
  BY <1>2, <1>3

\* Shutdown and Drop take the devices and close the handle.
LEMMA CloseFits ==
  ASSUME TypeOK, NEW h \in Handles, HandleFits(h),
         DetachDevices(h) \/ DropNbd(h) \/ DropFields(h) \/ RemoveRoot(h) \/ Die(h)
  PROVE  FieldTypes' /\ HandleFits(h)'
<1>0. NbdTypeOK /\ FieldTypes /\ JobFits(h) /\ StateFits(h) /\ CleanFits(h) /\ FaultlessFits(h)
  BY Zenon, TypesOfFields DEF HandleFits
<1>2. CASE DetachDevices(h)
  <2>1. /\ job[h] = "detach" /\ step[h] = "idle" /\ LoopDetached(h) /\ NbdDetached(h)
        /\ UNCHANGED <<connected, state, drive, mounted, live, root, lazy, unclean, dropping>>
        /\ job' = [job EXCEPT ![h] = IF ~nbdDev[h] \/ lazy[h] THEN "root"
                     ELSE IF root[h] /\ live[h] = "attached" THEN "close" ELSE "drop"]
    BY Zenon, <1>2 DEF DetachDevices, At, detachStill, mountStill, Set
  <2>2. /\ ~loopDev'[h] /\ ~nbdDev'[h] /\ (faults' = 0 => faults = 0)
        /\ loopDev' \in [Handles -> BOOLEAN] /\ nbdDev' \in [Handles -> BOOLEAN]
        /\ loopLive' \in [Handles -> BOOLEAN]
        /\ \/ loopLive'[h] = loopLive[h] /\ faults' # 0
           \/ loopLive'[h] = IF loopDev[h] THEN live[h] # "none" ELSE loopLive[h]
        /\ step'[h] = IF nbdDev[h] /\ connected[h] THEN "cut" ELSE "idle"
    BY Zenon, <1>0, <2>1, DetachedFields
  <2>3. job'[h] \in {"close", "drop", "root"} /\ (live[h] # "attached" => job'[h] # "close")
    BY <1>0, <2>1 DEF FieldTypes
  <2>4. FieldTypes'
    BY Zenon, <1>0, <2>1, <2>2 DEF FieldTypes, Jobs
  <2>5. connected[h] => nbdDev[h] \/ faults' # 0
    BY Zenon, <1>0, <2>1, <2>2 DEF JobFits, Leaving
  <2>6. JobFits(h)'
    BY Zenon, <2>1, <2>2, <2>3, <2>5 DEF JobFits, Leaving
  <2>7. StateFits(h)'
    BY Zenon, <1>0, <2>1, <2>2, <2>3 DEF StateFits
  <2>8. CleanFits(h)' /\ FaultlessFits(h)'
    BY Zenon, <1>0, <2>1, <2>2, <2>3 DEF StateFits, CleanFits, FaultlessFits
  <2> QED
    BY Zenon, <2>4, <2>6, <2>7, <2>8 DEF HandleFits
<1>3. CASE DropFields(h)
  <2>1. /\ job[h] = "fields" \/ (job[h] = "none" /\ state[h] = "closed")
        /\ step[h] = "idle" /\ LoopDetached(h) /\ NbdDetached(h)
        /\ UNCHANGED <<connected, state, drive, mounted, live, root, lazy, unclean>>
        /\ job' = [job EXCEPT ![h] = "close"] /\ dropping' = [dropping EXCEPT ![h] = TRUE]
    BY Zenon, <1>3 DEF DropFields, At, Idle, detachStill, mountStill, Set
  <2>2. /\ ~loopDev'[h] /\ ~nbdDev'[h] /\ (faults' = 0 => faults = 0)
        /\ loopDev' \in [Handles -> BOOLEAN] /\ nbdDev' \in [Handles -> BOOLEAN]
        /\ loopLive' \in [Handles -> BOOLEAN]
        /\ \/ loopLive'[h] = loopLive[h] /\ faults' # 0
           \/ loopLive'[h] = IF loopDev[h] THEN live[h] # "none" ELSE loopLive[h]
        /\ step'[h] = IF nbdDev[h] /\ connected[h] THEN "cut" ELSE "idle"
    BY Zenon, <1>0, <2>1, DetachedFields
  <2>3. job'[h] = "close"
    BY <1>0, <2>1 DEF FieldTypes
  <2>4. FieldTypes'
    BY Zenon, <1>0, <2>1, <2>2 DEF FieldTypes, Jobs
  <2>5. connected[h] => nbdDev[h] \/ faults' # 0
    BY Zenon, <1>0, <2>1, <2>2 DEF JobFits, Leaving
  <2>6. JobFits(h)'
    BY Zenon, <2>1, <2>2, <2>3, <2>5 DEF JobFits, Leaving
  <2>7. StateFits(h)'
    BY Zenon, <1>0, <2>1, <2>2, <2>3 DEF StateFits
  <2>8. CleanFits(h)' /\ FaultlessFits(h)'
    BY Zenon, <1>0, <2>1, <2>2, <2>3 DEF StateFits, CleanFits, FaultlessFits
  <2> QED
    BY Zenon, <2>4, <2>6, <2>7, <2>8 DEF HandleFits
<1>4. CASE RemoveRoot(h)
  <2>1. /\ job[h] \in {"root", "close"} /\ step[h] = "idle"
        /\ UNCHANGED <<step, outcome, connected, faults, drive, loopDev, nbdDev, loopLive, mounted,
                       live, unclean>>
        /\ root'[h] => root[h] /\ job[h] = "close"
        /\ \/ /\ job[h] = "root" /\ live[h] = "attached" /\ job'[h] \in {"fields", "none"}
              /\ state' = state
           \/ job'[h] = "none" /\ state'[h] \in {"closed", "dropped"}
    BY ZenonT(40), <1>0, <1>4 DEF RemoveRoot, ShutdownStops, nbdVars, Set, FieldTypes
  <2>2. FieldTypes'
    BY <1>0, <1>4 DEF RemoveRoot, ShutdownStops, Set, FieldTypes, Jobs
  <2>3. /\ ~nbdDev[h] /\ ~loopDev[h] /\ state[h] # "launching"
        /\ connected[h] => faults # 0
    BY Zenon, <1>0, <2>1 DEF JobFits, StateFits, Leaving
  <2>4. JobFits(h)' /\ StateFits(h)'
    BY Zenon, <1>0, <2>1, <2>3 DEF JobFits, StateFits, FieldTypes
  <2>5. CleanFits(h)' /\ FaultlessFits(h)'
    BY Zenon, <1>0, <2>1, <2>3 DEF StateFits, CleanFits, FaultlessFits
  <2> QED
    BY Zenon, <2>2, <2>4, <2>5 DEF HandleFits
<1>5. CASE Die(h)
  <2>1. /\ step'[h] = "dead" /\ ~connected'[h] /\ faults' # 0
        /\ state'[h] = "dropped" /\ unclean'[h] /\ job'[h] = "none"
    BY ZenonT(40), <1>0, <1>5, FaultShows DEF Die, NbdDies, Set, FieldTypes, NbdTypeOK
  <2>2. FieldTypes'
    BY <1>0, <1>5 DEF Die, Set, FieldTypes, Jobs
  <2> QED
    BY Zenon, <2>1, <2>2 DEF HandleFits, JobFits, StateFits, CleanFits, FaultlessFits
<1>6. CASE DropNbd(h)
  <2>1. /\ job[h] = "drop" /\ step[h] = "idle"
        /\ UNCHANGED <<connected, faults, state, drive, loopDev, nbdDev, loopLive, mounted, live,
                       root, lazy, unclean, dropping>>
        /\ job' = [job EXCEPT ![h] = "root"]
        /\ step' = IF connected[h] THEN [step EXCEPT ![h] = "cut"] ELSE step
    BY Zenon, <1>6 DEF DropNbd, At, Disconnect, detachStill, mountStill, Set, NoFault
  <2>2. job'[h] = "root" /\ step'[h] = IF connected[h] THEN "cut" ELSE "idle"
    BY <1>0, <2>1 DEF FieldTypes, NbdTypeOK
  <2>3. FieldTypes'
    BY <1>0, <2>1 DEF FieldTypes, Jobs
  <2>4. JobFits(h)'
    BY Zenon, <1>0, <2>1, <2>2 DEF JobFits, Leaving
  <2>5. /\ ~nbdDev[h] /\ ~loopDev[h] /\ step'[h] # "dead"
        /\ state[h] \notin {"launching", "closed", "dropped"}
    <3>1. ~nbdDev[h] /\ ~loopDev[h]
      BY Zenon, <1>0, <2>1 DEF JobFits
    <3>2. state[h] # "launching" /\ state[h] # "closed" /\ state[h] # "dropped"
      BY Zenon, <1>0, <2>1 DEF StateFits
    <3>3. step'[h] # "dead"
      BY <2>2
    <3> QED
      BY <3>1, <3>2, <3>3
  <2>6. StateFits(h)'
    BY Zenon, <1>0, <2>1, <2>2, <2>5 DEF StateFits
  <2>7. CleanFits(h)' /\ FaultlessFits(h)'
    BY Zenon, <1>0, <2>1, <2>2, <2>5 DEF CleanFits, FaultlessFits
  <2> QED
    BY Zenon, <2>3, <2>4, <2>6, <2>7 DEF HandleFits
<1> QED
  BY Zenon, <1>2, <1>3, <1>4, <1>5, <1>6

\* A step of one handle leaves the fields of another alone.
KeepsFields(h) ==
  /\ state'[h] = state[h] /\ drive'[h] = drive[h] /\ job'[h] = job[h] /\ live'[h] = live[h]
  /\ loopDev'[h] = loopDev[h] /\ nbdDev'[h] = nbdDev[h] /\ loopLive'[h] = loopLive[h]
  /\ mounted'[h] = mounted[h] /\ root'[h] = root[h] /\ unclean'[h] = unclean[h]

\* Every call, step and end of one handle does.
LEMMA StepKeepsFields ==
  ASSUME FieldTypes, NEW g \in Handles, NEW h \in Handles, h # g,
         UserCall(g) \/ HandleStep(g) \/ Die(g) \/ FsReleased(g)
  PROVE  KeepsFields(h)
<1>1. CASE AddDrive(g) \/ LaunchLoop(g) \/ LaunchNbd(g)
  BY <1>1 DEF AddDrive, LaunchLoop, LaunchNbd, mountStill, Set, FieldTypes, KeepsFields
<1>2. CASE LaunchEnds(g) \/ LaunchFails(g)
  BY Zenon, <1>2 DEF LaunchEnds, LaunchFails, mountStill, Set, FieldTypes, KeepsFields
<1>3. CASE MountFs(g) \/ Umount(g) \/ FsReleased(g)
  BY Zenon, <1>3 DEF MountFs, Umount, FsReleased, Set, FieldTypes, KeepsFields
<1>4. CASE Shutdown(g)
  BY ZenonT(40), <1>4 DEF Shutdown, ShutdownStops, Set, FieldTypes, KeepsFields
<1>7. CASE DropNbd(g)
  BY <1>7 DEF DropNbd, detachStill, mountStill, Set, FieldTypes, KeepsFields
<1>5. CASE DetachDevices(g) \/ DropFields(g)
  BY Zenon, <1>5 DEF DetachDevices, DropFields, LoopDetached, NbdDetached, detachStill, mountStill, Set,
     FieldTypes, KeepsFields
<1>6. CASE RemoveRoot(g) \/ Die(g)
  BY <1>6 DEF RemoveRoot, ShutdownStops, Die, Set, FieldTypes, KeepsFields
<1> QED
  BY ZenonT(40), <1>1, <1>2, <1>3, <1>4, <1>5, <1>6, <1>7 DEF UserCall, HandleStep

\* What holds of a handle survives the steps of others.
LEMMA OthersHandleFits ==
  ASSUME NEW h \in Handles, HandleFits(h), KeepsFields(h), Spares(h), faults' = 0 => faults = 0
  PROVE  HandleFits(h)'
<1>1. JobFits(h)'
  BY Zenon DEF HandleFits, JobFits, KeepsFields, Spares
<1>2. StateFits(h)'
  BY Zenon DEF HandleFits, StateFits, KeepsFields, Spares
<1>3. CleanFits(h)' /\ FaultlessFits(h)'
  BY ZenonT(40) DEF HandleFits, CleanFits, FaultlessFits, KeepsFields, Spares
<1> QED
  BY Zenon, <1>1, <1>2, <1>3 DEF HandleFits

-----------------------------------------------------------------------------
\* Handles start without devices.
LEMMA HandleInitInv == Init => HandleInv
<1> USE DevicesAssumption
<1> SUFFICES ASSUME Init PROVE HandleInv
  BY Zenon
<1>1. NbdTypeOK
  BY DEF Init, NbdInit, NbdTypeOK, NbdSteps
<1>2. FieldTypes
  BY DEF Init, FieldTypes, Jobs
<1>3. TypeOK
  BY Zenon, <1>1, <1>2, TypesOfFields
<1>4. NoStranger /\ ConnectSparesHandles
  BY Zenon DEF Init, NbdInit, NoStranger, ConnectSparesHandles
<1>5. ASSUME NEW h \in Handles PROVE DeviceFits(h) /\ HandleFits(h)
  <2>1. /\ step[h] = "idle" /\ ~connected[h] /\ \A d \in Devices : dev[d] = Nobody
        /\ state[h] = "config" /\ job[h] = "none" /\ live[h] = "none" /\ drive[h] = "none"
        /\ ~loopDev[h] /\ ~nbdDev[h] /\ ~loopLive[h] /\ ~mounted[h] /\ ~root[h] /\ ~unclean[h]
    BY Zenon DEF Init, NbdInit
  <2>2. DeviceFits(h)
    BY Zenon, <2>1 DEF DeviceFits, LockFits, PathFits, CandFits, OwnFits, KnownFits, InConnect, Leaving
  <2>3. JobFits(h) /\ StateFits(h)
    BY Zenon, <2>1 DEF JobFits, StateFits
  <2>4. CleanFits(h) /\ FaultlessFits(h)
    BY <1>2, <2>1 DEF CleanFits, FaultlessFits, FieldTypes
  <2> QED
    BY Zenon, <2>2, <2>3, <2>4 DEF HandleFits
<1> QED
  BY Zenon, <1>1, <1>3, <1>4, <1>5 DEF HandleInv, DeviceInv

\* Every step of a handle, of its process and of a foreign program keeps HandleInv.
LEMMA HandleInvStep == HandleInv /\ [Next]_vars => HandleInv'
<1> SUFFICES ASSUME HandleInv, [Next]_vars
             PROVE  HandleInv'
  OBVIOUS
<1>0. TypeOK /\ NbdTypeOK /\ FieldTypes /\ DeviceInv /\ \A h \in Handles : HandleFits(h)
  BY Zenon, TypesOfFields DEF HandleInv, DeviceInv
<1>1. DeviceInv' /\ NbdTypeOK'
  BY Zenon, <1>0, DeviceInvStep DEF DeviceInv
<1>t. FieldTypes' => TypeOK'
  BY <1>1, TypesOfFields, PTL
<1>2. ASSUME NEW g \in Handles, UserCall(g) \/ HandleStep(g) \/ Die(g) \/ FsReleased(g)
      PROVE  HandleInv'
  <2>1. DeviceStep(g)
    BY Zenon, <1>2, StepIsDeviceStep
  <2>2. PathFits(g) /\ HandleFits(g)
    BY Zenon, <1>0 DEF DeviceInv, DeviceFits
  <2>3. FieldTypes' /\ HandleFits(g)'
    BY Zenon, <1>0, <1>2, <2>2, LaunchFits, MountFits, CloseFits DEF UserCall, HandleStep
  <2>4. faults' = 0 => faults = 0
    BY Zenon, <1>0, <2>1, StepCounts
  <2>5. ASSUME NEW h \in Handles, h # g PROVE HandleFits(h)'
    BY Zenon, <1>0, <1>2, <2>1, <2>4, <2>5, StepKeepsFields, StepSpares, OthersHandleFits
  <2> QED
    BY Zenon, <1>1, <1>t, <2>3, <2>5 DEF HandleInv
<1>3. ASSUME NEW g \in Handles, NbdStep(g), UNCHANGED handleVars
      PROVE  HandleInv'
  <2>1. DeviceStep(g)
    BY Zenon, <1>3 DEF DeviceStep
  <2>2. FieldTypes' /\ \A h \in Handles : KeepsFields(h)
    BY <1>0, <1>3 DEF handleVars, FieldTypes, KeepsFields
  <2>3. faults' = 0 => faults = 0
    BY Zenon, <1>0, <2>1, StepCounts
  <2>4. PathFits(g) /\ HandleFits(g)
    BY Zenon, <1>0 DEF DeviceInv, DeviceFits
  <2>5. HandleFits(g)'
    BY Zenon, <1>0, <1>3, <2>3, <2>4, WaitingFits
  <2>6. ASSUME NEW h \in Handles, h # g PROVE HandleFits(h)'
    BY Zenon, <1>0, <2>1, <2>2, <2>3, <2>6, StepSpares, OthersHandleFits
  <2> QED
    BY Zenon, <1>1, <1>t, <2>2, <2>5, <2>6 DEF HandleInv
<1>4. CASE UNCHANGED handleVars /\ UNCHANGED <<lock, step, outcome, cand, at, connected, faults>>
  <2>1. FieldTypes' /\ \A h \in Handles : KeepsFields(h) /\ Spares(h)
    BY Zenon, <1>0, <1>4 DEF handleVars, FieldTypes, KeepsFields, Spares
  <2>2. faults' = 0 => faults = 0
    BY <1>4
  <2>3. \A h \in Handles : HandleFits(h)'
    BY Zenon, <1>0, <2>1, <2>2, OthersHandleFits
  <2> QED
    BY Zenon, <1>1, <1>t, <2>1, <2>3 DEF HandleInv
<1>5. CASE UNCHANGED vars
  BY Zenon, <1>4, <1>5 DEF vars, nbdVars
<1>6. ASSUME NEW d \in Devices, ForeignAttach(d) \/ ForeignDetach(d), UNCHANGED handleVars
      PROVE  HandleInv'
  BY <1>4, <1>6 DEF ForeignAttach, ForeignDetach
<1> QED
  BY Zenon, <1>2, <1>3, <1>5, <1>6 DEF Next

-----------------------------------------------------------------------------
\* HandleInv holds in every state that any number of processes reach with connect,
\* disconnect, launch, mount, umount, shutdown, drop and death (nbd.rs, handle.rs).
THEOREM HandleInvariant == Spec => []HandleInv
BY HandleInitInv, HandleInvStep, PTL DEF Spec

\* The state of handles, devices and locks has its type.
THEOREM HandleTypeCorrect == Spec => []TypeOK
<1>1. HandleInv => TypeOK
  BY Zenon DEF HandleInv
<1> QED
  BY <1>1, HandleInvariant, PTL

\* The device a connected handle believes to have carries its image, as long as no
\* disconnect has hit somebody else's attachment (NbdDevice::connect).
THEOREM ImagesAreOwn == Spec => []OwnImage
<1>1. HandleInv => OwnImage
  BY Zenon DEF HandleInv, DeviceInv, DeviceFits, OwnFits, OwnImage, Settled, Undisturbed
<1> QED
  BY <1>1, HandleInvariant, PTL

\* The --disconnect of a failed connect hits no handle that locks the same file
\* (cleanup_failed_connect).
THEOREM ConnectIsHarmless == Spec => []ConnectSparesHandles
<1>1. HandleInv => ConnectSparesHandles
  BY Zenon DEF HandleInv, DeviceInv
<1> QED
  BY <1>1, HandleInvariant, PTL

\* A ready handle has its device, and a closed one has left nothing behind
\* (Guestfs::launch, Guestfs::shutdown).
THEOREM StatesTellDevices == Spec => []StateTellsDevice
<1>1. ASSUME HandleInv, NEW h \in Handles
      PROVE  TypeOK /\ FieldTypes /\ DeviceFits(h) /\ HandleFits(h)
  BY Zenon, <1>1, TypesOfFields DEF HandleInv, DeviceInv
<1>2. HandleInv => ReadyHasDevice
  <2> SUFFICES ASSUME HandleInv, NEW h \in Handles, state[h] = "ready", Idle(h), ~unclean[h],
                      Undisturbed
               PROVE  HasDevice(h)
    BY Zenon DEF ReadyHasDevice
  <2>1. (loopDev[h] /\ loopLive[h]) \/ nbdDev[h]
    BY <1>1 DEF HandleFits, CleanFits, Idle
  <2>2. nbdDev[h] => connected[h] /\ step[h] = "idle"
    BY Zenon, <1>1 DEF HandleFits, StateFits
  <2> QED
    BY <1>1, <2>1, <2>2 DEF DeviceFits, OwnFits, HasDevice
<1>3. HandleInv => ClosedIsClean
  <2> SUFFICES ASSUME HandleInv, NEW h \in Handles, state[h] \in {"closed", "dropped"},
                      step[h] # "dead", faults = 0
               PROVE  /\ live[h] = "none" /\ ~loopLive[h] /\ ~root[h] /\ ~connected[h]
                      /\ \A d \in Devices : dev[d] # h
    BY Zenon DEF ClosedIsClean
  <2>1. ~unclean[h] /\ loopLive[h] = loopDev[h] /\ ~root[h]
    BY Zenon, <1>1 DEF HandleFits, FaultlessFits
  <2>2. ~nbdDev[h] /\ ~loopDev[h] /\ step[h] = "idle" /\ job[h] \in {"none", "close"}
    BY Zenon, <1>1 DEF HandleFits, StateFits
  <2>3. live[h] = "none"
    BY Zenon, <1>1, <2>1 DEF HandleFits, CleanFits
  <2>4. ~connected[h]
    BY Zenon, <1>1, <2>2 DEF HandleFits, JobFits, Leaving
  <2>5. \A d \in Devices : dev[d] # h
    BY Zenon, <1>1, <2>2, <2>4 DEF DeviceFits, KnownFits
  <2> QED
    BY Zenon, <2>1, <2>2, <2>3, <2>4, <2>5
<1>4. HandleInv => StateTellsDevice
  BY ZenonT(40), <1>2, <1>3 DEF StateTellsDevice
<1> QED
  BY <1>4, HandleInvariant, PTL

\* No device goes from under an active file system unless an umount has failed
\* (Guestfs::shutdown unmounts before it detaches).
THEOREM MountsKeepDevices == Spec => []NotPulledUnderMount
<1>1. ASSUME HandleInv, NEW h \in Handles, live[h] # "none", ~unclean[h], Undisturbed
      PROVE  HasDevice(h)
  <2>0. DeviceFits(h) /\ HandleFits(h)
    BY Zenon, <1>1 DEF HandleInv, DeviceInv
  <2>1. state[h] = "ready" /\ ((loopDev[h] /\ loopLive[h]) \/ nbdDev[h])
    BY Zenon, <1>1, <2>0 DEF HandleFits, CleanFits
  <2>2. nbdDev[h] => connected[h] /\ step[h] = "idle"
    BY Zenon, <2>0, <2>1 DEF HandleFits, StateFits
  <2> QED
    BY <1>1, <2>0, <2>1, <2>2 DEF DeviceFits, OwnFits, HasDevice
<1>2. HandleInv => NotPulledUnderMount
  BY Zenon, <1>1 DEF NotPulledUnderMount
<1> QED
  BY <1>2, HandleInvariant, PTL

=============================================================================
