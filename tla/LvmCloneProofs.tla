--------------------------- MODULE LvmCloneProofs ---------------------------
(***************************************************************************)
(* Proofs about the cloning of a logical volume, for any number of clones  *)
(* of one source, of targets and of failures.                              *)
(***************************************************************************)
EXTENDS LvmClone, TLAPS

\* The steps at which the snapshot exists, the target exists, the copy is
\* complete, and the target is mounted.
SnapSteps == {"target", "drop_snap", "copy", "drop_both", "unsnap"}
MountSteps == {"files", "hostname", "initramfs", "grub", "unmount"}
CopiedSteps == {"unsnap", "uuid", "mount"} \cup MountSteps
TargetSteps == {"copy", "drop_both", "drop_target"} \cup CopiedSteps

\* The clone ended with an error that it does not have to clean up after.
LeftRest(c) == pc[c] = "end" /\ result[c] # "ok" /\ ~(dirty[c] \subseteq {"early"})

\* A clone has a result exactly when it has returned or died.
EndInv == \A c \in Clones : result[c] = "none" <=> pc[c] # "end"

\* The snapshot belongs to the clone between its creation and its removal, and after
\* that only if the removal has failed.
SnapFits(c) ==
  /\ pc[c] \in SnapSteps => snapOwner = c
  /\ snapOwner = c => \/ pc[c] \in SnapSteps \/ LeftRest(c)
                      \/ pc[c] = "drop_target" /\ "cleanup" \in dirty[c]

SnapInv == \A c \in Clones : SnapFits(c)

\* So does the target, which stays.
TargetFits(c) ==
  /\ pc[c] \in TargetSteps => owner[targetOf[c]] = c
  /\ result[c] = "ok" /\ "dry_run" \notin wants[c] => owner[targetOf[c]] = c
  /\ \A v \in Targets : owner[v] = c =>
       v = targetOf[c] /\ (pc[c] \in TargetSteps \/ result[c] = "ok" \/ LeftRest(c))

TargetInv == \A c \in Clones : TargetFits(c)

\* Nobody else writes to a target that was copied.
CopyFits(c) ==
  pc[c] \in CopiedSteps \/ (result[c] = "ok" /\ "dry_run" \notin wants[c]) =>
    data[targetOf[c]] = "copy"

CopyInv == \A c \in Clones : CopyFits(c)

\* A mount is left only by a clone that did not return Ok, and a bind mount below
\* it only after a failure of run_in_chroot.
RootFits(c) ==
  /\ pc[c] \in MountSteps => c \in rooted
  /\ c \in rooted => pc[c] \in MountSteps \/ result[c] \in {"err", "dead"}
  /\ Leaked(c) => c \in rooted /\ "bind" \in dirty[c]

RootInv == \A c \in Clones : RootFits(c)

\* What a TempDir deletes is the target of a clone that failed, or the host's.
WipedInv ==
  /\ \A v \in Targets : v \in wiped => owner[v] \in Clones /\ result[owner[v]] = "err"
  /\ HostWipedOnlyByLeak

\* Where a clone is once it has updated its files.
FlagSteps == {"hostname", "initramfs", "grub", "unmount", "end"}

\* A mapping, and a new UUID in a file, mean that the device carries it; a file
\* reported as updated belongs to the clone that has the target.
FlagInv ==
  /\ \A c \in Clones : c \in mapped /\ fs # "fat" => targetOf[c] \in newUuid
  /\ \A v \in Targets, f \in Files : named[v][f] = "new" /\ fs # "fat" => v \in newUuid
  /\ \A c \in Clones : flags[c] # {} =>
       /\ owner[targetOf[c]] = c
       /\ pc[c] \in FlagSteps
       /\ \A f \in flags[c] : named[targetOf[c]][f] # "old"

CloneInv ==
  TypeOK /\ EndInv /\ SnapInv /\ TargetInv /\ CopyInv /\ RootInv /\ WipedInv /\ FlagInv

-----------------------------------------------------------------------------
\* Nothing exists before the first command of a clone.
LEMMA CloneInitInv == Init => CloneInv
<1> SUFFICES ASSUME Init PROVE CloneInv
  OBVIOUS
<1>1. TypeOK
  BY CloneAssumption DEF Init, TypeOK, Steps, Wishes, Files, Uuids
<1>2. EndInv /\ SnapInv /\ TargetInv
  BY CloneAssumption DEF Init, EndInv, SnapInv, SnapFits, TargetInv, TargetFits, SnapSteps, TargetSteps,
     CopiedSteps, MountSteps
<1>3. CopyInv /\ FlagInv
  BY DEF Init, CopyInv, CopyFits, FlagInv, CopiedSteps, MountSteps
<1>4. \A c \in Clones : ~Leaked(c)
  BY DEF Init, Leaked
<1>5. RootInv /\ WipedInv
  BY <1>4 DEF Init, RootInv, RootFits, MountSteps, WipedInv, HostWipedOnlyByLeak
<1> QED
  BY <1>1, <1>2, <1>3, <1>5 DEF CloneInv

Kinds == {"early", "cleanup", "late", "bind"}

\* Whether a command fails or not, only c's own record of failures grows.
LEMMA FaultTypes ==
  ASSUME TypeOK, NEW c \in Clones,
         NoFault \/ Refused(c) \/ \E k \in Kinds : Fault(c, k)
  PROVE  /\ faults' \in 0 .. MaxFaults
         /\ dirty' \in [Clones -> SUBSET Kinds]
         /\ dirty[c] \subseteq dirty'[c]
         /\ \A d \in Clones : d # c => dirty'[d] = dirty[d]
<1>1. dirty \in [Clones -> SUBSET Kinds] /\ faults \in 0 .. MaxFaults /\ MaxFaults \in Nat
  BY CloneAssumption DEF TypeOK, Kinds
<1>2. CASE NoFault
  BY <1>1, <1>2 DEF NoFault
<1>3. CASE Refused(c)
  BY <1>1, <1>3 DEF Refused, Kinds
<1>5. ASSUME NEW k \in Kinds, Fault(c, k)
      PROVE  /\ faults' \in 0 .. MaxFaults
             /\ dirty' \in [Clones -> SUBSET Kinds]
             /\ dirty[c] \subseteq dirty'[c]
             /\ \A d \in Clones : d # c => dirty'[d] = dirty[d]
  BY <1>1, <1>5 DEF Fault
<1> QED
  BY <1>2, <1>3, <1>5

\* What the return of lvm_clone, with the drop of its TempDir, does to the state.
LEMMA ReturnTypes ==
  ASSUME TypeOK, NEW c \in Clones, NEW r \in {"ok", "err"}, Return(c, r)
  PROVE  /\ pc' \in [Clones -> Steps] /\ pc'[c] = "end"
         /\ result' \in [Clones -> {"none", "ok", "err", "dead"}] /\ result'[c] = r
         /\ rooted' = rooted /\ binds' = binds
         /\ wiped' \subseteq Targets \cup {"host"} /\ container' \subseteq Clones
         /\ \A d \in Clones : d # c => pc'[d] = pc[d] /\ result'[d] = result[d]
<1>1. pc \in [Clones -> Steps] /\ result \in [Clones -> {"none", "ok", "err", "dead"}]
      /\ wiped \subseteq Targets \cup {"host"} /\ container \subseteq Clones
      /\ targetOf[c] \in Targets
  BY DEF TypeOK
<1>2. pc' \in [Clones -> Steps] /\ pc'[c] = "end"
      /\ \A d \in Clones : d # c => pc'[d] = pc[d]
  BY <1>1 DEF Return, Steps
<1>3. result' \in [Clones -> {"none", "ok", "err", "dead"}] /\ result'[c] = r
      /\ \A d \in Clones : d # c => result'[d] = result[d]
  BY <1>1 DEF Return
<1>4. wiped' \subseteq Targets \cup {"host"} /\ container' \subseteq Clones
  BY <1>1 DEF Return
<1> QED
  BY <1>2, <1>3, <1>4 DEF Return

\* Going on to the next command moves the clone and nothing else.
LEMMA GoTypes ==
  ASSUME TypeOK, NEW c \in Clones, NEW s \in Steps, Go(c, s)
  PROVE  /\ pc' \in [Clones -> Steps] /\ pc'[c] = s
         /\ \A d \in Clones : d # c => pc'[d] = pc[d]
         /\ UNCHANGED <<result, container, rooted, binds, wiped>>
  BY DEF TypeOK, Go, mountVars

\* What a step of clone c does to the records of the clones: it leaves those of the
\* others alone and keeps the types.
Moves(c) ==
  /\ pc' \in [Clones -> Steps]
  /\ result' \in [Clones -> {"none", "ok", "err", "dead"}]
  /\ rooted' \subseteq Clones /\ binds' \in [Clones -> [1 .. 3 -> Nat]]
  /\ wiped' \subseteq Targets \cup {"host"} /\ container' \subseteq Clones
  /\ faults' \in 0 .. MaxFaults /\ dirty' \in [Clones -> SUBSET Kinds]
  /\ dirty[c] \subseteq dirty'[c]
  /\ \A d \in Clones : d # c =>
       /\ pc'[d] = pc[d] /\ result'[d] = result[d] /\ dirty'[d] = dirty[d]
       /\ binds'[d] = binds[d] /\ (d \in rooted' <=> d \in rooted)

\* A return is a move of its clone alone.
LEMMA ReturnMoves ==
  ASSUME TypeOK, NEW c \in Clones, NEW r \in {"ok", "err"}, Return(c, r),
         NoFault \/ Refused(c) \/ \E k \in Kinds : Fault(c, k)
  PROVE  Moves(c)
<1>1. rooted \subseteq Clones /\ binds \in [Clones -> [1 .. 3 -> Nat]]
  BY DEF TypeOK
<1> QED
  BY <1>1, ReturnTypes, FaultTypes DEF Moves

\* So is a step to the next command.
LEMMA GoMoves ==
  ASSUME TypeOK, NEW c \in Clones, NEW s \in Steps, Go(c, s),
         NoFault \/ \E k \in Kinds : Fault(c, k)
  PROVE  Moves(c)
<1>1. /\ rooted \subseteq Clones /\ binds \in [Clones -> [1 .. 3 -> Nat]]
      /\ result \in [Clones -> {"none", "ok", "err", "dead"}]
      /\ wiped \subseteq Targets \cup {"host"} /\ container \subseteq Clones
  BY DEF TypeOK
<1> QED
  BY <1>1, GoTypes, FaultTypes DEF Moves

\* Every step of a clone, and its death, leaves where the others are and what they met.
LEMMA StepMoves ==
  ASSUME TypeOK, NEW c \in Clones, CloneStep(c) \/ Die(c)
  PROVE  Moves(c)
<1>1. {"early", "cleanup", "late", "bind"} \subseteq Kinds
      /\ {"validate", "snapshot", "target", "drop_snap", "copy", "drop_both", "drop_target",
          "unsnap", "uuid", "mount", "files",
          "hostname", "initramfs", "grub", "unmount", "end"} \subseteq Steps
  BY DEF Kinds, Steps
<1>2. /\ pc \in [Clones -> Steps] /\ result \in [Clones -> {"none", "ok", "err", "dead"}]
      /\ rooted \subseteq Clones /\ binds \in [Clones -> [1 .. 3 -> Nat]]
      /\ wiped \subseteq Targets \cup {"host"} /\ container \subseteq Clones
  BY DEF TypeOK
<1>3. CASE Start(c)
  <2>1. CASE NoFault /\ pc' = [pc EXCEPT ![c] = "validate"]
             /\ container' \in {container, container \cup {c}} /\ UNCHANGED <<result, mountVars>>
    BY <1>1, <1>2, <2>1, FaultTypes DEF Moves, mountVars
  <2> QED
    BY <1>1, <1>3, <2>1, ReturnMoves DEF Start
<1>4. CASE Validate(c)
  BY <1>1, <1>4, ReturnMoves, GoMoves DEF Validate
<1>5. CASE Snapshot(c)
  BY <1>1, <1>5, ReturnMoves, GoMoves DEF Snapshot
<1>6. CASE CreateTarget(c)
  BY <1>1, <1>6, ReturnMoves, GoMoves DEF CreateTarget
<1>7. CASE Copy(c) \/ DropSnapshot(c) \/ DropTarget(c)
  BY <1>1, <1>7, ReturnMoves, GoMoves DEF Copy, DropSnapshot, DropTarget
<1>8. CASE RemoveSnapshot(c)
  BY <1>1, <1>8, ReturnMoves, GoMoves DEF RemoveSnapshot
<1>9. CASE RegenerateUuids(c)
  BY <1>1, <1>9, ReturnMoves, GoMoves DEF RegenerateUuids, uuidStill, AfterUuid
<1>10. CASE Mount(c)
  <2>1. CASE /\ pc' = [pc EXCEPT ![c] = "files"] /\ rooted' = rooted \cup {c}
             /\ NoFault /\ UNCHANGED <<binds, wiped, result, container>>
    BY <1>1, <1>2, <2>1, FaultTypes DEF Moves
  <2> QED
    BY <1>1, <1>10, <2>1, ReturnMoves DEF Mount
<1>11. CASE UpdateFiles(c)
  BY <1>1, <1>11, GoMoves DEF UpdateFiles
<1>12. CASE SetHostname(c)
  <2>1. After(c, "hostname") \in Steps
    BY DEF After, Steps
  <2> QED
    BY <1>1, <1>12, <2>1, ReturnMoves, GoMoves DEF SetHostname
<1>13. ASSUME NEW step \in {"initramfs", "grub"}, RunInChroot(c, step) PROVE Moves(c)
  <2>1. After(c, step) \in Steps
    BY DEF After, Steps
  <2>2. pc' \in [Clones -> Steps] /\ \A d \in Clones : d # c => pc'[d] = pc[d]
    BY <1>2, <1>13, <2>1 DEF RunInChroot, ToolEnds, Finish
  <2>3. UNCHANGED <<rooted, wiped, result, container>>
    BY <1>13 DEF RunInChroot, chrootUnchanged
  <2>4. NoFault \/ \E k \in Kinds : Fault(c, k)
    BY <1>1, <1>13 DEF RunInChroot
  <2>5. binds' \in [Clones -> [1 .. 3 -> Nat]] /\ \A d \in Clones : d # c => binds'[d] = binds[d]
    <3>1. CASE UNCHANGED binds
      BY <1>2, <3>1
    <3>2. ASSUME NEW e \in 1 .. 3, binds' = [binds EXCEPT ![c][e] = @ + 1]
          PROVE  binds' \in [Clones -> [1 .. 3 -> Nat]]
                 /\ \A d \in Clones : d # c => binds'[d] = binds[d]
      <4>1. [binds[c] EXCEPT ![e] = @ + 1] \in [1 .. 3 -> Nat]
        BY <1>2
      <4> QED
        BY <1>2, <3>2, <4>1
    <3>3. ASSUME NEW n \in 1 .. 3,
                 binds' = [binds EXCEPT ![c] = [d \in 1 .. 3 |-> IF d < n THEN @[d] + 1 ELSE @[d]]]
          PROVE  binds' \in [Clones -> [1 .. 3 -> Nat]]
                 /\ \A d \in Clones : d # c => binds'[d] = binds[d]
      <4>1. [d \in 1 .. 3 |-> IF d < n THEN binds[c][d] + 1 ELSE binds[c][d]] \in [1 .. 3 -> Nat]
        BY <1>2
      <4> QED
        BY <1>2, <3>3, <4>1
    <3> QED
      BY <1>13, <3>1, <3>2, <3>3 DEF RunInChroot
  <2> QED
    BY <1>2, <2>2, <2>3, <2>4, <2>5, FaultTypes DEF Moves
<1>14. CASE Unmount(c)
  <2>1. CASE /\ pc' = [pc EXCEPT ![c] = "end"] /\ result' = [result EXCEPT ![c] = "ok"]
             /\ rooted' = rooted \ {c} /\ container' = container \ {c}
             /\ NoFault /\ UNCHANGED <<binds, wiped>>
    BY <1>1, <1>2, <2>1, FaultTypes DEF Moves
  <2> QED
    BY <1>1, <1>14, <2>1, ReturnMoves DEF Unmount
<1>15. CASE Die(c)
  <2>1. /\ pc' = [pc EXCEPT ![c] = "end"] /\ result' = [result EXCEPT ![c] = "dead"]
        /\ Fault(c, "late") /\ UNCHANGED <<rooted, binds, wiped, container>>
    BY <1>15 DEF Die, mountVars
  <2> QED
    BY <1>1, <1>2, <2>1, FaultTypes DEF Moves
<1> QED
  BY <1>3, <1>4, <1>5, <1>6, <1>7, <1>8, <1>9, <1>10, <1>11, <1>12, <1>13, <1>14, <1>15
  DEF CloneStep

\* The state keeps its type.
LEMMA CloneTypeStep ==
  ASSUME TypeOK, NEW c \in Clones, CloneStep(c) \/ Die(c)
  PROVE  TypeOK'
<1>1. Moves(c)
  BY StepMoves
<1>2. /\ owner \in [Targets -> Clones \cup {NoClone}] /\ snapOwner \in Clones \cup {NoClone}
      /\ data \in [Targets -> {"empty", "partial", "copy"}] /\ targetOf[c] \in Targets
      /\ newUuid \subseteq Targets /\ named \in [Targets -> [Files -> Uuids]]
      /\ original \in [Files -> {"none", "old"}]
      /\ mapped \subseteq Clones /\ flags \in [Clones -> SUBSET Files]
      /\ tries \in [Clones -> 0 .. 2]
  BY Zenon DEF TypeOK
<1>3. UNCHANGED configVars
  BY Zenon DEF CloneStep, Start, Validate, Snapshot, CreateTarget, Copy,
         DropSnapshot, DropTarget, RemoveSnapshot,
         RegenerateUuids, uuidStill, Mount, UpdateFiles, SetHostname, RunInChroot, chrootUnchanged,
         Unmount, Die, early, late
<1>4. /\ snapOwner' \in Clones \cup {NoClone}
      /\ owner' \in [Targets -> Clones \cup {NoClone}]
      /\ data' \in [Targets -> {"empty", "partial", "copy"}]
  <2>1. CASE Snapshot(c) \/ RemoveSnapshot(c)
    BY <1>2, <2>1 DEF Snapshot, RemoveSnapshot
  <2>2. CASE CreateTarget(c) \/ Copy(c)
    BY <1>2, <2>2 DEF CreateTarget, Copy
  <2>3. CASE DropSnapshot(c) \/ DropTarget(c)
    BY <1>2, <2>3 DEF DropSnapshot, DropTarget
  <2>4. CASE UNCHANGED <<snapOwner, owner, data>>
    BY Zenon, <1>2, <2>4
  <2> QED
    BY ZenonT(40), <2>1, <2>2, <2>3, <2>4 DEF CloneStep, Start, Validate, RegenerateUuids, uuidStill, Mount,
       UpdateFiles, SetHostname, RunInChroot, chrootUnchanged, Unmount, Die, late
<1>5. newUuid' \subseteq Targets /\ mapped' \subseteq Clones
  <2>1. CASE RegenerateUuids(c)
    BY <1>2, <2>1 DEF RegenerateUuids
  <2>2. CASE UNCHANGED <<newUuid, mapped>>
    BY Zenon, <1>2, <2>2
  <2> QED
    BY Zenon, <2>1, <2>2 DEF CloneStep, Start, Validate, Snapshot, CreateTarget, Copy,
       DropSnapshot, DropTarget,
       RemoveSnapshot, Mount, UpdateFiles, SetHostname, RunInChroot, chrootUnchanged,
       Unmount, Die, early, late
<1>6. named' \in [Targets -> [Files -> Uuids]] /\ flags' \in [Clones -> SUBSET Files]
  <2>1. CASE UpdateFiles(c)
    <3> DEFINE asked == IF c \in mapped THEN wants[c] \cap Files ELSE {}
               Result(failed, cut) ==
                 /\ flags' = [flags EXCEPT ![c] = asked \ failed]
                 /\ named' = [named EXCEPT ![targetOf[c]] =
                                [f \in Files |-> IF f \in cut THEN "cut"
                                                 ELSE IF f \in asked \ failed THEN Rewritten(@[f])
                                                 ELSE @[f]]]
    <3>1. \E failed \in SUBSET asked : \E cut \in SUBSET failed : Result(failed, cut)
      BY Zenon, <2>1 DEF UpdateFiles
    <3>2. \A u \in Uuids : Rewritten(u) \in Uuids
      BY DEF Rewritten, Uuids
    <3>3. "cut" \in Uuids /\ named[targetOf[c]] \in [Files -> Uuids]
      BY <1>2 DEF Uuids
    <3>4. asked \subseteq Files
      OBVIOUS
    <3>5. ASSUME NEW failed, NEW cut, Result(failed, cut)
          PROVE  named' \in [Targets -> [Files -> Uuids]] /\ flags' \in [Clones -> SUBSET Files]
      BY <1>2, <3>2, <3>3, <3>4, <3>5
    <3> HIDE DEF asked, Result
    <3> QED
      BY <3>1, <3>5
  <2>2. CASE Copy(c)
    <3>1. original \in [Files -> Uuids]
      BY <1>2 DEF Uuids
    <3>2. named' \in {named, [named EXCEPT ![targetOf[c]] = original]} /\ flags' = flags
      BY <2>2 DEF Copy, early
    <3> QED
      BY <1>2, <3>1, <3>2
  <2>3. CASE UNCHANGED <<named, flags>>
    BY <1>2, <2>3
  <2> QED
    BY Zenon, <2>1, <2>2, <2>3 DEF CloneStep, Start, Validate, Snapshot, CreateTarget, DropSnapshot,
       DropTarget, RemoveSnapshot, RegenerateUuids, uuidStill, Mount, SetHostname, RunInChroot,
       chrootUnchanged, Unmount, Die, early
<1>7. tries' \in [Clones -> 0 .. 2]
  <2>1. ASSUME NEW step \in {"initramfs", "grub"}, RunInChroot(c, step)
        PROVE  tries' \in [Clones -> 0 .. 2]
    <3>1. Tools[step] \in {2, 3}
      BY DEF Tools
    <3>2. \/ tries' = [tries EXCEPT ![c] = 0]
          \/ tries[c] + 1 < Tools[step] /\ tries' = [tries EXCEPT ![c] = @ + 1]
      BY <2>1 DEF RunInChroot, ToolEnds, Finish
    <3> QED
      BY <1>2, <3>1, <3>2
  <2>2. CASE UNCHANGED tries
    BY <1>2, <2>2
  <2> QED
    BY Zenon, <2>1, <2>2 DEF CloneStep, Start, Validate, Snapshot, CreateTarget, Copy,
       DropSnapshot, DropTarget,
       RemoveSnapshot, RegenerateUuids, uuidStill, Mount, UpdateFiles, SetHostname, Unmount, Die, early
<1> QED
  BY <1>1, <1>3, <1>4, <1>5, <1>6, <1>7 DEF TypeOK, Moves, Kinds, configVars

\* A step of c is one of a clone that has not returned; it has a result afterwards
\* exactly if it returns or dies.
LEMMA EndFlow ==
  ASSUME TypeOK, EndInv, NEW c \in Clones, CloneStep(c) \/ Die(c)
  PROVE  pc[c] # "end" /\ (result'[c] = "none" <=> pc'[c] # "end")
<1>1. pc \in [Clones -> Steps] /\ result \in [Clones -> {"none", "ok", "err", "dead"}]
  BY Zenon DEF TypeOK
<1>2. pc[c] # "end"
  BY DEF CloneStep, Start, Validate, Snapshot, CreateTarget, Copy,
         DropSnapshot, DropTarget, RemoveSnapshot,
         RegenerateUuids, uuidStill, Mount, UpdateFiles, SetHostname, RunInChroot, Unmount, Die
<1>3. result[c] = "none"
  BY Zenon, <1>2 DEF EndInv
<1>4. ASSUME NEW r \in {"ok", "err"}, Return(c, r)
      PROVE  result'[c] = "none" <=> pc'[c] # "end"
  BY <1>4, ReturnTypes
<1>5. ASSUME NEW s \in Steps \ {"end"}, Go(c, s)
      PROVE  result'[c] = "none" <=> pc'[c] # "end"
  BY <1>3, <1>5, GoTypes
<1>6. {"validate", "snapshot", "target", "drop_snap", "copy", "drop_both", "drop_target",
       "unsnap", "uuid", "mount", "files", "hostname", "initramfs", "grub", "unmount"}
      \subseteq Steps \ {"end"}
  BY DEF Steps
<1>7. CASE Start(c) \/ Mount(c)
  <2>1. CASE UNCHANGED result /\ \E s \in {"validate", "files"} : pc' = [pc EXCEPT ![c] = s]
    <3>1. PICK s \in {"validate", "files"} : pc' = [pc EXCEPT ![c] = s]
      BY Zenon, <2>1
    <3>2. pc'[c] = s /\ result'[c] = "none"
      BY <1>1, <1>3, <2>1, <3>1
    <3> QED
      BY <1>2, <3>2
  <2> QED
    BY <1>4, <1>7, <2>1 DEF Start, Mount
<1>8. CASE Validate(c) \/ Snapshot(c) \/ CreateTarget(c)
  BY Zenon, <1>4, <1>5, <1>6, <1>8 DEF Validate, Snapshot, CreateTarget
<1>9. CASE Copy(c) \/ RemoveSnapshot(c) \/ RegenerateUuids(c)
  BY Zenon, <1>4, <1>5, <1>6, <1>9 DEF Copy, RemoveSnapshot, RegenerateUuids, uuidStill, AfterUuid
<1>13. CASE DropSnapshot(c) \/ DropTarget(c)
  BY Zenon, <1>4, <1>5, <1>6, <1>13 DEF DropSnapshot, DropTarget
<1>10. CASE UpdateFiles(c) \/ SetHostname(c)
  <2>1. After(c, "hostname") \in Steps \ {"end"}
    BY DEF After, Steps
  <2> QED
    BY <1>4, <1>5, <1>6, <1>10, <2>1 DEF UpdateFiles, SetHostname
<1>11. ASSUME NEW step \in {"initramfs", "grub"}, RunInChroot(c, step)
       PROVE  result'[c] = "none" <=> pc'[c] # "end"
  <2>1. After(c, step) # "end"
    BY DEF After
  <2>2. pc'[c] # "end" /\ UNCHANGED result
    BY <1>1, <1>2, <1>11, <2>1 DEF RunInChroot, ToolEnds, Finish, chrootUnchanged
  <2> QED
    BY <1>3, <2>2
<1>12. CASE Unmount(c) \/ Die(c)
  <2>1. CASE \E r \in {"ok", "dead"} :
               pc' = [pc EXCEPT ![c] = "end"] /\ result' = [result EXCEPT ![c] = r]
    <3>1. PICK r \in {"ok", "dead"} :
            pc' = [pc EXCEPT ![c] = "end"] /\ result' = [result EXCEPT ![c] = r]
      BY Zenon, <2>1
    <3>2. pc'[c] = "end" /\ result'[c] = r
      BY <1>1, <3>1
    <3> QED
      BY <1>2, <3>2
  <2> QED
    BY <1>4, <1>12, <2>1 DEF Unmount, Die
<1> QED
  BY Zenon, <1>2, <1>7, <1>8, <1>9, <1>10, <1>11, <1>12, <1>13 DEF CloneStep

-----------------------------------------------------------------------------
\* A step that creates and removes no volume, by where it takes the clone.
PlainFlow(c) ==
  /\ UNCHANGED <<snapOwner, owner, data>>
  /\ pc'[c] \notin SnapSteps
  /\ pc'[c] \in TargetSteps => pc[c] \in CopiedSteps
  /\ result'[c] = "ok" => pc[c] \in CopiedSteps \/ "dry_run" \in wants[c]
  /\ pc[c] \in SnapSteps \cup {"drop_target"} => LeftRest(c)'
  /\ pc[c] \in TargetSteps => pc'[c] \in CopiedSteps \/ result'[c] = "ok" \/ LeftRest(c)'

\* All commands but lvcreate, dd and lvremove leave the volumes alone.
LEMMA PlainSteps ==
  ASSUME TypeOK, EndInv, RootInv, NEW c \in Clones,
         \/ Start(c) \/ Validate(c) \/ RegenerateUuids(c) \/ Mount(c) \/ UpdateFiles(c)
         \/ SetHostname(c) \/ RunInChroot(c, "initramfs") \/ RunInChroot(c, "grub")
         \/ Unmount(c) \/ Die(c)
  PROVE  PlainFlow(c)
<1>1. UNCHANGED <<snapOwner, owner, data>>
  BY DEF Start, Validate, RegenerateUuids, uuidStill, Mount, UpdateFiles, SetHostname, RunInChroot,
         chrootUnchanged, Unmount, Die, late
<1>2. /\ pc \in [Clones -> Steps] /\ result \in [Clones -> {"none", "ok", "err", "dead"}]
      /\ dirty \in [Clones -> SUBSET Kinds]
  BY DEF TypeOK, Kinds
<1>3. \A k \in {"late", "bind"} : Fault(c, k) => ~(dirty'[c] \subseteq {"early"})
  BY Zenon, <1>2 DEF Fault
<1>11. Refused(c) => ~(dirty'[c] \subseteq {"early"})
  <2>1. Refused(c) => dirty' = [dirty EXCEPT ![c] = @ \cup {"late"}]
    BY DEF Refused
  <2>2. Refused(c) => "late" \in dirty'[c]
    BY <1>2, <2>1
  <2> QED
    BY <2>2
<1>4. CASE Start(c) \/ Validate(c)
  <2>1. pc[c] \in {"start", "validate"}
    BY <1>4 DEF Start, Validate
  <2>2. pc'[c] \in {"validate", "snapshot", "end"}
    BY Zenon, <1>2, <1>4 DEF Start, Validate, Go, Return
  <2>3. result'[c] = "ok" => "dry_run" \in wants[c]
    <3>1. result[c] = "none"
      BY Zenon, <2>1 DEF EndInv
    <3> QED
      BY Zenon, <1>2, <1>4, <3>1 DEF Start, Validate, Go, Return
  <2> QED
    BY Zenon, <1>1, <2>1, <2>2, <2>3 DEF PlainFlow, SnapSteps, TargetSteps, CopiedSteps, MountSteps
<1>5. CASE RegenerateUuids(c)
  <2>1. pc[c] = "uuid"
    BY <1>5 DEF RegenerateUuids
  <2>2. \/ pc'[c] = "mount"
        \/ pc'[c] = "end" /\ result'[c] = "ok"
        \/ pc'[c] = "end" /\ result'[c] = "err" /\ (Fault(c, "late") \/ Refused(c))
    BY Zenon, <1>2, <1>5 DEF RegenerateUuids, AfterUuid, Go, Return
  <2> QED
    BY Zenon, <1>1, <1>3, <1>11, <2>1, <2>2
    DEF PlainFlow, LeftRest, SnapSteps, TargetSteps, CopiedSteps, MountSteps
<1>6. CASE Mount(c)
  <2>1. pc[c] = "mount"
    BY <1>6 DEF Mount
  <2>3. \/ pc'[c] = "files"
        \/ pc'[c] = "end" /\ result'[c] = "err" /\ (Fault(c, "late") \/ Refused(c))
    BY Zenon, <1>2, <1>6 DEF Mount, Return
  <2> QED
    BY Zenon, <1>1, <1>3, <1>11, <2>1, <2>3
    DEF PlainFlow, LeftRest, SnapSteps, TargetSteps, CopiedSteps, MountSteps
<1>7. CASE UpdateFiles(c) \/ SetHostname(c)
  <2>1. pc[c] \in {"files", "hostname"}
    BY Zenon, <1>7 DEF UpdateFiles, SetHostname
  <2>2. \/ pc'[c] \in MountSteps
        \/ pc'[c] = "end" /\ result'[c] = "err" /\ Fault(c, "late")
    BY Zenon, <1>2, <1>7 DEF UpdateFiles, SetHostname, Go, Return, After, MountSteps
  <2> QED
    BY Zenon, <1>1, <1>3, <2>1, <2>2
    DEF PlainFlow, LeftRest, SnapSteps, TargetSteps, CopiedSteps, MountSteps
<1>8. ASSUME NEW step \in {"initramfs", "grub"}, RunInChroot(c, step) PROVE PlainFlow(c)
  <2>1. pc[c] = step
    BY Zenon, <1>8 DEF RunInChroot
  <2>2. pc'[c] \in MountSteps
    BY Zenon, <1>2, <1>8 DEF RunInChroot, ToolEnds, Finish, After, MountSteps
  <2> QED
    BY Zenon, <1>1, <2>1, <2>2 DEF PlainFlow, SnapSteps, TargetSteps, CopiedSteps, MountSteps
<1>9. CASE Unmount(c)
  <2>1. pc[c] = "unmount" /\ pc'[c] = "end"
    BY Zenon, <1>2, <1>9 DEF Unmount, Return
  <2>2. \/ result'[c] = "ok"
        \/ result'[c] = "err" /\ Fault(c, "late")
        \/ result'[c] = "err" /\ Leaked(c) /\ NoFault
    BY Zenon, <1>2, <1>9 DEF Unmount, Return
  <2>3. Leaked(c) /\ NoFault => ~(dirty'[c] \subseteq {"early"})
    BY DEF RootInv, RootFits, NoFault
  <2> QED
    BY <1>1, <1>3, <2>1, <2>2, <2>3
    DEF PlainFlow, LeftRest, SnapSteps, TargetSteps, CopiedSteps, MountSteps
<1>10. CASE Die(c)
  <2>1. pc'[c] = "end" /\ result'[c] = "dead" /\ Fault(c, "late")
    BY <1>2, <1>10 DEF Die
  <2> QED
    BY <1>1, <1>3, <2>1 DEF PlainFlow, LeftRest, SnapSteps, TargetSteps, CopiedSteps, MountSteps
<1> QED
  BY Zenon, <1>4, <1>5, <1>6, <1>7, <1>8, <1>9, <1>10

\* Who owns the snapshot and the targets, and what these hold.
VolumeInv == SnapInv /\ TargetInv /\ CopyInv
VolumeFits(c) == SnapFits(c) /\ TargetFits(c) /\ CopyFits(c)

\* Step of c leaves the volumes of clone d as they are.
SparesVolumes(d) ==
  /\ snapOwner' = d <=> snapOwner = d
  /\ \A v \in Targets : owner'[v] = d <=> owner[v] = d
  /\ \A v \in Targets : owner[v] = d => data'[v] = data[v]

\* What fits a clone fits it after a step that moves another and spares its volumes.
LEMMA OthersFit ==
  ASSUME TypeOK, NEW c \in Clones, NEW d \in Clones, d # c, Moves(c), SparesVolumes(d),
         UNCHANGED <<targetOf, wants>>, VolumeFits(d)
  PROVE  VolumeFits(d)'
<1>1. /\ pc'[d] = pc[d] /\ result'[d] = result[d] /\ dirty'[d] = dirty[d]
      /\ targetOf' = targetOf /\ wants' = wants
  BY Zenon DEF Moves
<1>2. LeftRest(d)' <=> LeftRest(d)
  BY Zenon, <1>1 DEF LeftRest
<1>3. targetOf[d] \in Targets
  BY DEF TypeOK
<1>4. SnapFits(d)'
  BY Zenon, <1>1, <1>2 DEF VolumeFits, SnapFits, SparesVolumes
<1>5. TargetFits(d)'
  BY Zenon, <1>1, <1>2, <1>3 DEF VolumeFits, TargetFits, SparesVolumes
<1>6. CopyFits(d)'
  BY Zenon, <1>1, <1>3 DEF VolumeFits, TargetFits, CopyFits, SparesVolumes, TargetSteps
<1> QED
  BY Zenon, <1>4, <1>5, <1>6 DEF VolumeFits

\* The volumes stay in order when the step spares those of the other clones and what
\* it does to its own fits.
LEMMA VolumesFit ==
  ASSUME TypeOK, VolumeInv, NEW c \in Clones, Moves(c), UNCHANGED <<targetOf, wants>>,
         \A d \in Clones : d # c => SparesVolumes(d), VolumeFits(c)'
  PROVE  VolumeInv'
<1>1. \A d \in Clones : VolumeFits(d)
  BY Zenon DEF VolumeInv, VolumeFits, SnapInv, TargetInv, CopyInv
<1>2. \A d \in Clones : VolumeFits(d)'
  BY Zenon, <1>1, OthersFit
<1> QED
  BY Zenon, <1>2 DEF VolumeInv, VolumeFits, SnapInv, TargetInv, CopyInv

\* A step that creates and removes no volume.
LEMMA PlainVolumes ==
  ASSUME TypeOK, EndInv, VolumeInv, NEW c \in Clones, Moves(c), PlainFlow(c), pc[c] # "end",
         UNCHANGED <<targetOf, wants>>
  PROVE  VolumeInv'
<1>1. VolumeFits(c) /\ result[c] = "none" /\ ~LeftRest(c)
  BY Zenon DEF VolumeInv, VolumeFits, SnapInv, TargetInv, CopyInv, EndInv, LeftRest
<1>2. snapOwner' = snapOwner /\ owner' = owner /\ data' = data
  BY Zenon DEF PlainFlow
<1>3. \A d \in Clones : d # c => SparesVolumes(d)
  BY Zenon, <1>2 DEF SparesVolumes
<1>4. SnapFits(c)'
  BY Zenon, <1>1, <1>2 DEF PlainFlow, VolumeFits, SnapFits
<1>5. TargetFits(c)'
  BY Zenon, <1>1, <1>2 DEF PlainFlow, VolumeFits, TargetFits, TargetSteps
<1>6. CopyFits(c)'
  BY Zenon, <1>1, <1>2 DEF PlainFlow, VolumeFits, CopyFits, TargetSteps
<1>7. VolumeFits(c)'
  BY Zenon, <1>4, <1>5, <1>6 DEF VolumeFits
<1> QED
  BY Zenon, <1>3, <1>7, VolumesFit

\* The steps that create or remove a volume find the clone as its owner.
LEMMA OwnVolumes ==
  ASSUME TypeOK, EndInv, VolumeInv, NEW c \in Clones
  PROVE  /\ pc[c] = "snapshot" => snapOwner # c
         /\ pc[c] \in SnapSteps => snapOwner = c
         /\ pc[c] \in {"snapshot", "target", "drop_snap"} => \A v \in Targets : owner[v] # c
         /\ pc[c] \in TargetSteps => owner[targetOf[c]] = c
         /\ \A v \in Targets : owner[v] = c => v = targetOf[c]
         /\ pc[c] # "end" => result[c] = "none" /\ ~LeftRest(c)
         /\ pc[c] = "drop_target" /\ snapOwner = c => "cleanup" \in dirty[c]
  BY DEF VolumeInv, SnapInv, SnapFits, TargetInv, TargetFits, EndInv, LeftRest, SnapSteps,
         TargetSteps, CopiedSteps, MountSteps

\* A clone that has returned with an error fits when what it left is accounted for.
LEMMA ErrorFits ==
  ASSUME NEW c \in Clones, pc'[c] = "end", result'[c] = "err",
         snapOwner' = c => LeftRest(c)',
         \A v \in Targets : owner'[v] = c => v = targetOf'[c] /\ LeftRest(c)'
  PROVE  VolumeFits(c)'
<1>1. "end" \notin SnapSteps /\ "end" \notin TargetSteps /\ "end" \notin CopiedSteps
  BY DEF SnapSteps, TargetSteps, CopiedSteps, MountSteps
<1>2. SnapFits(c)'
  BY Zenon, <1>1 DEF SnapFits
<1>3. TargetFits(c)'
  BY Zenon, <1>1 DEF TargetFits
<1>4. CopyFits(c)'
  BY Zenon, <1>1 DEF CopyFits
<1> QED
  BY Zenon, <1>2, <1>3, <1>4 DEF VolumeFits

\* A clone that goes on owns what its next step asks for.
LEMMA GoFits ==
  ASSUME NEW c \in Clones,
         NEW s \in {"target", "drop_snap", "copy", "drop_both", "drop_target", "unsnap", "uuid"},
         pc'[c] = s, result'[c] = "none",
         s \notin {"drop_target", "uuid"} => snapOwner' = c,
         snapOwner' = c => s # "uuid" /\ (s = "drop_target" => "cleanup" \in dirty'[c]),
         \A v \in Targets : owner'[v] = c => v = targetOf'[c] /\ s \notin {"target", "drop_snap"},
         s \notin {"target", "drop_snap"} => owner'[targetOf'[c]] = c,
         s \in {"unsnap", "uuid"} => data'[targetOf'[c]] = "copy"
  PROVE  VolumeFits(c)'
<1>1. /\ s \in SnapSteps <=> s \notin {"drop_target", "uuid"}
      /\ s \in TargetSteps <=> s \notin {"target", "drop_snap"}
      /\ s \in CopiedSteps <=> s \in {"unsnap", "uuid"}
  BY DEF SnapSteps, TargetSteps, CopiedSteps, MountSteps
<1>2. SnapFits(c)'
  BY Zenon, <1>1 DEF SnapFits
<1>3. TargetFits(c)'
  BY Zenon, <1>1 DEF TargetFits
<1>4. CopyFits(c)'
  BY Zenon, <1>1 DEF CopyFits
<1> QED
  BY Zenon, <1>2, <1>3, <1>4 DEF VolumeFits

\* The steps that create or remove a snapshot or a target touch the clone's own.
LEMMA VolumeStep ==
  ASSUME TypeOK, EndInv, VolumeInv, NEW c \in Clones, Moves(c), UNCHANGED <<targetOf, wants>>,
         \/ Snapshot(c) \/ CreateTarget(c) \/ Copy(c) \/ DropSnapshot(c) \/ DropTarget(c)
         \/ RemoveSnapshot(c)
  PROVE  VolumeInv'
<1>1. /\ NoClone \notin Clones /\ snapOwner \in Clones \cup {NoClone}
      /\ owner \in [Targets -> Clones \cup {NoClone}] /\ targetOf[c] \in Targets
      /\ data \in [Targets -> {"empty", "partial", "copy"}]
      /\ pc \in [Clones -> Steps] /\ result \in [Clones -> {"none", "ok", "err", "dead"}]
      /\ dirty \in [Clones -> SUBSET Kinds] /\ targetOf' = targetOf
  BY CloneAssumption DEF TypeOK, Kinds
<1> DEFINE t == targetOf[c]
<1>2. Return(c, "err") => pc'[c] = "end" /\ result'[c] = "err"
  BY <1>1 DEF Return
<1>3. \A s : Go(c, s) => pc'[c] = s /\ result'[c] = result[c]
  BY <1>1 DEF Go
<1>4. \A k : Fault(c, k) => k \in dirty'[c]
  BY <1>1 DEF Fault
<1>5. dirty[c] \subseteq dirty'[c]
  BY Zenon DEF Moves
<1>6. \A k \in {"cleanup", "late"} :
        pc'[c] = "end" /\ result'[c] = "err" /\ k \in dirty'[c] => LeftRest(c)'
  BY DEF LeftRest
<1>7. CASE Snapshot(c)
  <2>1. /\ pc[c] = "snapshot" /\ owner' = owner /\ data' = data
        /\ \/ snapOwner = NoClone /\ Go(c, "target") /\ snapOwner' = c
           \/ Return(c, "err") /\ snapOwner' = snapOwner
    BY Zenon, <1>7 DEF Snapshot
  <2>2. snapOwner # c /\ (\A v \in Targets : owner[v] # c) /\ result[c] = "none"
    BY <2>1, OwnVolumes
  <2>3. \A d \in Clones : d # c => SparesVolumes(d)
    BY Zenon, <1>1, <2>1 DEF SparesVolumes
  <2>4. ASSUME Go(c, "target"), snapOwner' = c PROVE VolumeFits(c)'
    <3>1. pc'[c] = "target" /\ result'[c] = "none"
      BY Zenon, <1>3, <2>2, <2>4
    <3> QED
      BY <2>1, <2>2, <2>4, <3>1, GoFits
  <2>5. ASSUME Return(c, "err"), snapOwner' = snapOwner PROVE VolumeFits(c)'
    BY Zenon, <1>2, <2>1, <2>2, <2>5, ErrorFits
  <2> QED
    BY Zenon, <2>1, <2>3, <2>4, <2>5, VolumesFit
<1>8. CASE CreateTarget(c)
  <2>1. /\ pc[c] = "target"
        /\ \/ /\ owner[t] = NoClone /\ Go(c, "copy") /\ snapOwner' = snapOwner
              /\ owner' = [owner EXCEPT ![t] = c] /\ data' = [data EXCEPT ![t] = "empty"]
           \/ Go(c, "drop_snap") /\ owner' = owner /\ data' = data /\ snapOwner' = snapOwner
    BY Zenon, <1>8 DEF CreateTarget
  <2>2. snapOwner = c /\ (\A v \in Targets : owner[v] # c) /\ result[c] = "none"
    BY <2>1, OwnVolumes DEF SnapSteps
  <2>3. ASSUME owner[t] = NoClone, Go(c, "copy"), snapOwner' = snapOwner,
               owner' = [owner EXCEPT ![t] = c], data' = [data EXCEPT ![t] = "empty"]
        PROVE  VolumeInv'
    <3>1. owner'[t] = c /\ \A v \in Targets : v # t => owner'[v] = owner[v] /\ data'[v] = data[v]
      BY <1>1, <2>3
    <3>2. pc'[c] = "copy" /\ result'[c] = "none"
      BY Zenon, <1>3, <2>2, <2>3
    <3>3. \A d \in Clones : d # c => SparesVolumes(d)
      <4>1. NoClone \notin Clones /\ owner[t] = NoClone /\ snapOwner' = snapOwner
        BY Zenon, <1>1, <2>3
      <4> QED
        BY Zenon, <3>1, <4>1 DEF SparesVolumes
    <3>4. VolumeFits(c)'
      BY Zenon, <1>1, <2>2, <2>3, <3>1, <3>2, GoFits
    <3> QED
      BY Zenon, <3>3, <3>4, VolumesFit
  <2>4. ASSUME Go(c, "drop_snap"), owner' = owner, data' = data, snapOwner' = snapOwner
        PROVE  VolumeInv'
    <3>1. \A d \in Clones : d # c => SparesVolumes(d)
      BY Zenon, <2>4 DEF SparesVolumes
    <3>2. pc'[c] = "drop_snap" /\ result'[c] = "none"
      BY Zenon, <1>3, <2>2, <2>4
    <3>3. VolumeFits(c)'
      BY <2>2, <2>4, <3>2, GoFits
    <3> QED
      BY Zenon, <3>1, <3>3, VolumesFit
  <2> QED
    BY Zenon, <2>1, <2>3, <2>4
<1>9. CASE Copy(c)
  <2>1. /\ pc[c] = "copy" /\ snapOwner' = snapOwner /\ owner' = owner
        /\ \/ Go(c, "unsnap") /\ data' = [data EXCEPT ![t] = "copy"]
           \/ Go(c, "drop_both") /\ data' = [data EXCEPT ![t] = "partial"]
    BY Zenon, <1>9 DEF Copy
  <2>2. /\ snapOwner = c /\ owner[t] = c /\ result[c] = "none"
        /\ \A v \in Targets : owner[v] = c => v = t
    BY <2>1, OwnVolumes DEF SnapSteps, TargetSteps
  <2>3. \A v \in Targets : v # t => data'[v] = data[v]
    BY Zenon, <1>1, <2>1
  <2>4. \A d \in Clones : d # c => SparesVolumes(d)
    BY Zenon, <2>1, <2>2, <2>3 DEF SparesVolumes
  <2>5. \/ pc'[c] = "unsnap" /\ data'[t] = "copy"
        \/ pc'[c] = "drop_both"
    BY <1>1, <1>3, <2>1
  <2>6. result'[c] = "none"
    BY Zenon, <1>3, <2>1, <2>2
  <2>7. VolumeFits(c)'
    BY <1>1, <2>1, <2>2, <2>5, <2>6, GoFits
  <2> QED
    BY Zenon, <2>4, <2>7, VolumesFit
<1>11. CASE DropSnapshot(c)
  <2>1. /\ pc[c] \in {"drop_snap", "drop_both"} /\ owner' = owner /\ data' = data
        /\ \/ snapOwner' = NoClone
           \/ Fault(c, "cleanup") /\ snapOwner' = snapOwner
        /\ IF pc[c] = "drop_snap" THEN Return(c, "err") ELSE Go(c, "drop_target")
    BY Zenon, <1>11 DEF DropSnapshot
  <2>2. /\ snapOwner = c /\ result[c] = "none"
        /\ \A v \in Targets : owner[v] = c => v = t
        /\ pc[c] = "drop_snap" => \A v \in Targets : owner[v] # c
        /\ pc[c] = "drop_both" => owner[t] = c
    BY Zenon, <2>1, OwnVolumes DEF SnapSteps, TargetSteps
  <2>3. \A d \in Clones : d # c => SparesVolumes(d)
    BY Zenon, <1>1, <2>1, <2>2 DEF SparesVolumes
  <2>4. snapOwner' = c => "cleanup" \in dirty'[c]
    BY Zenon, <1>1, <1>4, <2>1
  <2>5. ASSUME pc[c] = "drop_snap" PROVE VolumeFits(c)'
    <3>1. pc'[c] = "end" /\ result'[c] = "err" /\ (snapOwner' = c => LeftRest(c)')
      BY Zenon, <1>2, <1>6, <2>1, <2>4, <2>5
    <3> QED
      BY Zenon, <2>1, <2>2, <2>5, <3>1, ErrorFits
  <2>6. ASSUME pc[c] = "drop_both" PROVE VolumeFits(c)'
    <3>1. Go(c, "drop_target")
      BY <2>1, <2>6
    <3>2. pc'[c] = "drop_target" /\ result'[c] = "none"
      BY Zenon, <1>3, <2>2, <3>1
    <3> QED
      BY <1>1, <2>1, <2>2, <2>4, <2>6, <3>2, GoFits
  <2> QED
    BY Zenon, <2>1, <2>3, <2>5, <2>6, VolumesFit
<1>12. CASE DropTarget(c)
  <2>1. /\ pc[c] = "drop_target" /\ data' = data /\ snapOwner' = snapOwner /\ Return(c, "err")
        /\ \/ owner' = [owner EXCEPT ![t] = NoClone]
           \/ Fault(c, "cleanup") /\ owner' = owner
    BY Zenon, <1>12 DEF DropTarget
  <2>2. /\ snapOwner = c => "cleanup" \in dirty[c]
        /\ owner[t] = c /\ \A v \in Targets : owner[v] = c => v = t
    BY Zenon, <2>1, OwnVolumes DEF TargetSteps
  <2>3. \/ owner'[t] = NoClone /\ \A v \in Targets : v # t => owner'[v] = owner[v]
        \/ Fault(c, "cleanup") /\ owner' = owner
    BY Zenon, <1>1, <2>1
  <2>4. \A d \in Clones : d # c => SparesVolumes(d)
    BY Zenon, <1>1, <2>1, <2>2, <2>3 DEF SparesVolumes
  <2>5. pc'[c] = "end" /\ result'[c] = "err" /\ ("cleanup" \in dirty'[c] => LeftRest(c)')
    BY Zenon, <1>2, <1>6, <2>1
  <2>6. snapOwner' = c => LeftRest(c)'
    BY Zenon, <1>5, <2>1, <2>2, <2>5
  <2>7. \A v \in Targets : owner'[v] = c => v = targetOf'[c] /\ LeftRest(c)'
    BY Zenon, <1>1, <1>4, <2>2, <2>3, <2>5
  <2>8. VolumeFits(c)'
    BY Zenon, <2>5, <2>6, <2>7, ErrorFits
  <2> QED
    BY Zenon, <2>4, <2>8, VolumesFit
<1>10. CASE RemoveSnapshot(c)
  <2>1. /\ pc[c] = "unsnap" /\ owner' = owner /\ data' = data
        /\ \/ Go(c, "uuid") /\ snapOwner' = NoClone
           \/ Return(c, "err") /\ Fault(c, "late") /\ snapOwner' = snapOwner
    BY Zenon, <1>10 DEF RemoveSnapshot
  <2>2. /\ snapOwner = c /\ owner[t] = c /\ result[c] = "none"
        /\ \A v \in Targets : owner[v] = c => v = t
    BY Zenon, <2>1, OwnVolumes DEF SnapSteps, TargetSteps, CopiedSteps
  <2>3. data[t] = "copy"
    BY <2>1 DEF VolumeInv, CopyInv, CopyFits, CopiedSteps
  <2>4. \A d \in Clones : d # c => SparesVolumes(d)
    BY Zenon, <1>1, <2>1, <2>2 DEF SparesVolumes
  <2>5. ASSUME Go(c, "uuid"), snapOwner' = NoClone PROVE VolumeFits(c)'
    <3>1. pc'[c] = "uuid" /\ result'[c] = "none"
      BY Zenon, <1>3, <2>2, <2>5
    <3> QED
      BY <1>1, <2>1, <2>2, <2>3, <2>5, <3>1, GoFits
  <2>6. ASSUME Return(c, "err"), Fault(c, "late"), snapOwner' = snapOwner
        PROVE  VolumeFits(c)'
    <3>1. pc'[c] = "end" /\ result'[c] = "err" /\ LeftRest(c)'
      BY Zenon, <1>2, <1>4, <1>6, <2>6
    <3> QED
      BY Zenon, <1>1, <2>1, <2>2, <3>1, ErrorFits
  <2> QED
    BY Zenon, <2>1, <2>4, <2>5, <2>6, VolumesFit
<1> QED
  BY Zenon, <1>7, <1>8, <1>9, <1>10, <1>11, <1>12

\* A target is taken from its owner only by the owner's clean-up.
LEMMA OwnersStay ==
  ASSUME TypeOK, EndInv, VolumeInv, NEW c \in Clones, CloneStep(c) \/ Die(c)
  PROVE  \A v \in Targets : owner[v] \in Clones =>
           owner'[v] = owner[v] \/ (owner[v] = c /\ pc[c] = "drop_target")
<1>1. /\ NoClone \notin Clones /\ owner \in [Targets -> Clones \cup {NoClone}]
      /\ targetOf[c] \in Targets
  BY CloneAssumption DEF TypeOK
<1>2. CASE CreateTarget(c)
  BY Zenon, <1>1, <1>2 DEF CreateTarget
<1>3. CASE DropTarget(c)
  <2>1. pc[c] = "drop_target" /\ owner[targetOf[c]] = c
    BY Zenon, <1>3, OwnVolumes DEF DropTarget, TargetSteps
  <2>2. owner' \in {[owner EXCEPT ![targetOf[c]] = NoClone], owner}
    BY <1>3 DEF DropTarget
  <2> QED
    BY Zenon, <1>1, <2>1, <2>2
<1>4. CASE UNCHANGED owner
  BY <1>4
<1> QED
  BY Zenon, <1>2, <1>3, <1>4 DEF CloneStep, Start, Validate, Snapshot, Copy, DropSnapshot,
     RemoveSnapshot, RegenerateUuids, uuidStill, Mount, UpdateFiles, SetHostname, RunInChroot, chrootUnchanged,
     Unmount, Die, late

\* What becomes of c's mount: a return leaves it, and then it is an error.
LEMMA RootFlow ==
  ASSUME TypeOK, EndInv, RootInv, NEW c \in Clones, Moves(c), CloneStep(c) \/ Die(c)
  PROVE  /\ RootFits(c)'
         /\ \/ wiped' = wiped
            \/ /\ c \in rooted /\ pc[c] \in {"hostname", "unmount"} /\ result'[c] = "err"
               /\ wiped' = wiped \cup {targetOf[c]} \cup (IF Leaked(c) THEN {"host"} ELSE {})
<1>1. /\ pc \in [Clones -> Steps] /\ result \in [Clones -> {"none", "ok", "err", "dead"}]
      /\ dirty \in [Clones -> SUBSET Kinds] /\ dirty[c] \subseteq dirty'[c]
      /\ rooted \subseteq Clones
  BY Zenon DEF TypeOK, Kinds, Moves
<1>2. RootFits(c) /\ pc[c] # "end" /\ result[c] = "none"
  BY EndFlow DEF RootInv, RootFits, EndInv
<1>3. c \in rooted => pc[c] \in MountSteps
  BY Zenon, <1>2 DEF RootFits
<1>4. ASSUME NEW r \in {"ok", "err"}, Return(c, r), r = "ok" => pc[c] \notin MountSteps
      PROVE  RootFits(c)'
  <2>1. /\ pc'[c] = "end" /\ "end" \notin MountSteps
        /\ result'[c] = r /\ rooted' = rooted /\ binds' = binds
    BY <1>4, ReturnTypes DEF MountSteps
  <2>2. Leaked(c)' <=> Leaked(c)
    BY <2>1 DEF Leaked
  <2> QED
    BY Zenon, <1>1, <1>2, <1>3, <1>4, <2>1, <2>2 DEF RootFits
<1>5. ASSUME NEW r \in {"ok", "err"}, Return(c, r), pc[c] \notin MountSteps
      PROVE  wiped' = wiped
  BY Zenon, <1>3, <1>5 DEF Return
<1>6. ASSUME UNCHANGED mountVars,
             IF pc[c] \in MountSteps THEN pc'[c] \in MountSteps \/ result'[c] = "dead"
                                     ELSE pc'[c] \notin MountSteps
      PROVE  RootFits(c)' /\ wiped' = wiped
  <2>1. rooted' = rooted /\ wiped' = wiped /\ (Leaked(c)' <=> Leaked(c))
    BY Zenon, <1>6 DEF mountVars, Leaked
  <2> QED
    BY <1>1, <1>2, <1>3, <1>6, <2>1 DEF RootFits
<1>7. CASE Start(c) \/ Validate(c) \/ Snapshot(c) \/ CreateTarget(c)
  <2>1. pc[c] \notin MountSteps
    BY Zenon, <1>7 DEF Start, Validate, Snapshot, CreateTarget, MountSteps
  <2>2. \/ UNCHANGED mountVars /\ pc'[c] \notin MountSteps
        \/ Return(c, "ok") \/ Return(c, "err")
    BY Zenon, <1>1, <1>7 DEF Start, Validate, Snapshot, CreateTarget, Go, MountSteps
  <2> QED
    BY <1>4, <1>5, <1>6, <2>1, <2>2
<1>8. CASE Copy(c) \/ RemoveSnapshot(c) \/ RegenerateUuids(c)
  <2>1. pc[c] \notin MountSteps
    BY <1>8 DEF Copy, RemoveSnapshot, RegenerateUuids, uuidStill, MountSteps
  <2>2. \/ UNCHANGED mountVars /\ pc'[c] \notin MountSteps
        \/ Return(c, "ok") \/ Return(c, "err")
    BY Zenon, <1>1, <1>8 DEF Copy, RemoveSnapshot, RegenerateUuids, uuidStill, AfterUuid, Go, MountSteps
  <2> QED
    BY <1>4, <1>5, <1>6, <2>1, <2>2
<1>14. CASE DropSnapshot(c) \/ DropTarget(c)
  <2>1. pc[c] \notin MountSteps
    BY <1>14 DEF DropSnapshot, DropTarget, MountSteps
  <2>2. (UNCHANGED mountVars /\ pc'[c] \notin MountSteps) \/ Return(c, "err")
    BY Zenon, <1>1, <1>14 DEF DropSnapshot, DropTarget, Go, MountSteps
  <2> QED
    BY <1>4, <1>5, <1>6, <2>1, <2>2
<1>9. CASE Mount(c)
  <2>1. pc[c] \notin MountSteps
    BY Zenon, <1>9 DEF Mount, MountSteps
  <2>2. CASE /\ pc' = [pc EXCEPT ![c] = "files"] /\ rooted' = rooted \cup {c}
             /\ UNCHANGED <<binds, wiped>>
    <3>1. pc'[c] \in MountSteps /\ (Leaked(c)' <=> Leaked(c))
      BY <1>1, <2>2 DEF MountSteps, Leaked
    <3> QED
      BY Zenon, <1>1, <1>2, <2>2, <3>1 DEF RootFits
  <2> QED
    BY Zenon, <1>4, <1>5, <1>9, <2>1, <2>2 DEF Mount
<1>10. CASE UpdateFiles(c) \/ SetHostname(c)
  <2>1. CASE Return(c, "err")
    <3>1. pc[c] = "hostname"
      BY Zenon, <1>1, <1>10, <2>1 DEF UpdateFiles, SetHostname, Return, Go
    <3> QED
      BY Zenon, <1>4, <2>1, <3>1, ReturnTypes DEF Return
  <2>2. CASE UNCHANGED mountVars /\ pc[c] \in MountSteps /\ pc'[c] \in MountSteps
    BY Zenon, <1>6, <2>2
  <2> QED
    BY Zenon, <1>1, <1>10, <2>1, <2>2 DEF UpdateFiles, SetHostname, Go, After, MountSteps
<1>11. ASSUME NEW step \in {"initramfs", "grub"}, RunInChroot(c, step)
       PROVE  RootFits(c)' /\ wiped' = wiped
  <2>1. pc[c] \in MountSteps /\ pc'[c] \in MountSteps /\ rooted' = rooted /\ wiped' = wiped
    BY <1>1, <1>11 DEF RunInChroot, ToolEnds, Finish, After, MountSteps, chrootUnchanged
  <2>2. binds' = binds \/ Fault(c, "bind")
    BY <1>11 DEF RunInChroot
  <2>3. Leaked(c)' => Leaked(c) \/ "bind" \in dirty'[c]
    BY Zenon, <1>1, <2>2 DEF Leaked, Fault
  <2>4. c \in rooted
    BY Zenon, <1>2, <2>1 DEF RootFits
  <2> QED
    BY Zenon, <1>1, <1>2, <2>1, <2>3, <2>4 DEF RootFits
<1>12. CASE Unmount(c)
  <2>1. pc[c] = "unmount" /\ "end" \notin MountSteps
    BY Zenon, <1>12 DEF Unmount, MountSteps
  <2>2. CASE ~Leaked(c) /\ pc' = [pc EXCEPT ![c] = "end"] /\ rooted' = rooted \ {c}
             /\ UNCHANGED <<binds, wiped>>
    <3>1. pc'[c] = "end" /\ ~Leaked(c)' /\ c \notin rooted'
      BY Zenon, <1>1, <2>2 DEF Leaked
    <3> QED
      BY Zenon, <2>1, <2>2, <3>1 DEF RootFits
  <2>3. CASE Return(c, "err")
    BY Zenon, <1>4, <2>1, <2>3, ReturnTypes DEF Return
  <2> QED
    BY <1>12, <2>2, <2>3 DEF Unmount
<1>13. CASE Die(c)
  <2>1. UNCHANGED mountVars /\ pc'[c] = "end" /\ result'[c] = "dead" /\ "end" \notin MountSteps
    BY <1>1, <1>13 DEF Die, MountSteps
  <2> QED
    BY Zenon, <1>6, <2>1
<1> QED
  BY Zenon, <1>7, <1>8, <1>9, <1>10, <1>11, <1>12, <1>13, <1>14
  DEF CloneStep

\* What TempDir drops delete stays a failed clone's target, or the host's.
LEMMA WipedStep ==
  ASSUME CloneInv, NEW c \in Clones, CloneStep(c) \/ Die(c)
  PROVE  RootInv' /\ WipedInv'
<1>1. TypeOK /\ EndInv /\ RootInv /\ VolumeInv /\ WipedInv /\ Moves(c)
  BY Zenon, StepMoves DEF CloneInv, VolumeInv
<1>2. /\ owner \in [Targets -> Clones \cup {NoClone}] /\ targetOf[c] \in Targets
      /\ "host" \notin Targets /\ NoClone \notin Clones
  BY Zenon, <1>1, CloneAssumption DEF TypeOK
<1>3. /\ RootFits(c)'
      /\ \/ wiped' = wiped
         \/ /\ c \in rooted /\ pc[c] \in {"hostname", "unmount"} /\ result'[c] = "err"
            /\ wiped' = wiped \cup {targetOf[c]} \cup (IF Leaked(c) THEN {"host"} ELSE {})
  BY Zenon, <1>1, RootFlow
<1>4. \A d \in Clones : d # c =>
        /\ pc'[d] = pc[d] /\ result'[d] = result[d] /\ dirty'[d] = dirty[d]
        /\ binds'[d] = binds[d] /\ (d \in rooted' <=> d \in rooted)
  BY Zenon, <1>1 DEF Moves
<1>5. RootInv'
  BY ZenonT(40), <1>1, <1>3, <1>4 DEF RootInv, RootFits, Leaked
<1>6. result[c] = "none" /\ dirty[c] \subseteq dirty'[c]
  BY Zenon, <1>1, EndFlow DEF EndInv, Moves
<1>7. \A v \in Targets : owner[v] \in Clones =>
        owner'[v] = owner[v] \/ (owner[v] = c /\ pc[c] = "drop_target")
  BY <1>1, OwnersStay
<1>8. \A v \in Targets : v \in wiped => owner'[v] \in Clones /\ result'[owner'[v]] = "err"
  BY Zenon, <1>1, <1>4, <1>6, <1>7 DEF WipedInv
<1>9. pc[c] \in {"hostname", "unmount"} => owner'[targetOf[c]] = c
  BY Zenon, <1>1, <1>2, <1>7, OwnVolumes DEF TargetSteps, CopiedSteps, MountSteps
<1>10. \A v \in Targets : v \in wiped' => owner'[v] \in Clones /\ result'[owner'[v]] = "err"
  BY Zenon, <1>2, <1>3, <1>8, <1>9
<1>11. HostWipedOnlyByLeak'
  <2>1. "host" \in wiped =>
          \E d \in Clones : d # c /\ "bind" \in dirty[d] /\ result[d] = "err"
    BY Zenon, <1>1, <1>6 DEF WipedInv, HostWipedOnlyByLeak
  <2>2. "host" \in wiped' /\ "host" \notin wiped => "bind" \in dirty'[c] /\ result'[c] = "err"
    BY Zenon, <1>1, <1>2, <1>3, <1>6 DEF RootInv, RootFits
  <2> QED
    BY Zenon, <1>4, <2>1, <2>2 DEF HostWipedOnlyByLeak
<1> QED
  BY <1>5, <1>10, <1>11 DEF WipedInv

\* Rewritten files keep naming the UUID of the device.
LEMMA FlagStep ==
  ASSUME CloneInv, NEW c \in Clones, CloneStep(c) \/ Die(c)
  PROVE  FlagInv'
<1>1. TypeOK /\ EndInv /\ VolumeInv /\ FlagInv /\ Moves(c)
  BY Zenon, StepMoves DEF CloneInv, VolumeInv
<1>2. /\ owner \in [Targets -> Clones \cup {NoClone}] /\ targetOf \in [Clones -> Targets]
      /\ named \in [Targets -> [Files -> Uuids]] /\ flags \in [Clones -> SUBSET Files]
      /\ original \in [Files -> {"none", "old"}]
      /\ pc \in [Clones -> Steps] /\ mapped \subseteq Clones /\ NoClone \notin Clones
  BY <1>1, CloneAssumption DEF TypeOK
<1>3. UNCHANGED <<targetOf, fs>>
  BY Zenon DEF CloneStep, Start, Validate, Snapshot, CreateTarget, Copy,
         DropSnapshot, DropTarget, RemoveSnapshot,
         RegenerateUuids, uuidStill, Mount, UpdateFiles, SetHostname, RunInChroot, chrootUnchanged,
         Unmount, Die, early, late, configVars
<1>4. /\ mapped \subseteq mapped' /\ newUuid \subseteq newUuid' /\ mapped' \subseteq mapped \cup {c}
      /\ c \in mapped' /\ c \notin mapped /\ fs # "fat" => targetOf[c] \in newUuid'
  <2>1. CASE RegenerateUuids(c)
    BY Zenon, <2>1 DEF RegenerateUuids
  <2>2. CASE UNCHANGED <<newUuid, mapped>>
    BY Zenon, <2>2
  <2> QED
    BY Zenon, <2>1, <2>2 DEF CloneStep, Start, Validate, Snapshot, CreateTarget, Copy,
       DropSnapshot, DropTarget,
       RemoveSnapshot, Mount, UpdateFiles, SetHostname, RunInChroot, chrootUnchanged,
       Unmount, Die, early, late
<1>5. \A d \in Clones : d \in mapped' /\ fs # "fat" => targetOf[d] \in newUuid'
  BY <1>1, <1>4 DEF FlagInv
<1>6. \A v \in Targets : owner[v] \in Clones =>
        owner'[v] = owner[v] \/ (owner[v] = c /\ pc[c] = "drop_target")
  BY Zenon, <1>1, OwnersStay
<1>7. \A d \in Clones : d # c => pc'[d] = pc[d]
  BY <1>1 DEF Moves
<1>12. \A d \in Clones : flags[d] # {} =>
         /\ owner[targetOf[d]] = d
         /\ pc[d] \in FlagSteps
         /\ \A f \in flags[d] : named[targetOf[d]][f] # "old"
  BY Zenon, <1>1 DEF FlagInv
<1>8. \A d \in Clones : flags[d] # {} => owner'[targetOf[d]] = d
  BY <1>2, <1>6, <1>12 DEF FlagSteps
<1>9. CASE UpdateFiles(c)
  <2>1. pc[c] = "files" /\ owner[targetOf[c]] = c
    BY Zenon, <1>1, <1>9, OwnVolumes DEF UpdateFiles, TargetSteps, CopiedSteps, MountSteps
  <2>2. pc'[c] = "hostname" /\ owner' = owner /\ mapped' = mapped /\ newUuid' = newUuid
    BY Zenon, <1>2, <1>9 DEF UpdateFiles, Go, late
  <2> DEFINE asked == IF c \in mapped THEN wants[c] \cap Files ELSE {}
  <2> DEFINE Result(failed, cut) ==
               /\ flags' = [flags EXCEPT ![c] = asked \ failed]
               /\ named' = [named EXCEPT ![targetOf[c]] =
                              [f \in Files |-> IF f \in cut THEN "cut"
                                               ELSE IF f \in asked \ failed THEN Rewritten(@[f])
                                               ELSE @[f]]]
  <2>12. PICK failed \in SUBSET asked : \E cut \in SUBSET failed : Result(failed, cut)
    BY Zenon, <1>9 DEF UpdateFiles
  <2>3. PICK cut \in SUBSET failed : Result(failed, cut)
    BY Zenon, <2>12
  <2>4. /\ flags'[c] = asked \ failed
        /\ \A v \in Targets : v # targetOf[c] => named'[v] = named[v]
        /\ \A d \in Clones : d # c => flags'[d] = flags[d]
    BY <1>2, <2>3
  <2>5. \A f \in Files : named'[targetOf[c]][f] =
                           IF f \in cut THEN "cut"
                           ELSE IF f \in asked \ failed THEN Rewritten(named[targetOf[c]][f])
                           ELSE named[targetOf[c]][f]
    BY <1>2, <2>3
  <2>6. \A f \in asked \ failed : f \in Files /\ f \notin cut /\ c \in mapped
    BY <2>3
  <2> HIDE DEF asked
  <2>7. \A f \in flags'[c] : named'[targetOf[c]][f] # "old"
    BY <2>4, <2>5, <2>6 DEF Rewritten
  <2>8. \A f \in Files : named'[targetOf[c]][f] = "new" /\ fs # "fat" => targetOf[c] \in newUuid
    BY <1>1, <1>2, <2>5, <2>6 DEF FlagInv, Rewritten
  <2>9. \A d \in Clones : d # c /\ flags[d] # {} => targetOf[d] # targetOf[c]
    BY Zenon, <1>1, <1>2, <2>1 DEF FlagInv
  <2>10. \A v \in Targets, f \in Files : named'[v][f] = "new" /\ fs # "fat" => v \in newUuid
    BY Zenon, <1>1, <2>4, <2>8 DEF FlagInv
  <2>11. \A d \in Clones : flags'[d] # {} =>
           /\ owner[targetOf[d]] = d
           /\ pc'[d] \in FlagSteps
           /\ \A f \in flags'[d] : named'[targetOf[d]][f] # "old"
    <3>1. \A d \in Clones : d # c /\ flags[d] # {} => named'[targetOf[d]] = named[targetOf[d]]
      BY Zenon, <1>2, <2>4, <2>9
    <3>2. \A d \in Clones : d # c /\ flags[d] # {} =>
            /\ owner[targetOf[d]] = d
            /\ pc'[d] \in FlagSteps
            /\ \A f \in flags[d] : named'[targetOf[d]][f] # "old"
      <4> TAKE d \in Clones
      <4> HAVE d # c /\ flags[d] # {}
      <4>1. owner[targetOf[d]] = d /\ pc[d] \in FlagSteps /\ pc'[d] = pc[d]
        BY Zenon, <1>7, <1>12
      <4>2. \A f \in flags[d] : named[targetOf[d]][f] # "old"
        BY Zenon, <1>12
      <4>3. named'[targetOf[d]] = named[targetOf[d]]
        BY Zenon, <3>1
      <4> QED
        BY Zenon, <4>1, <4>2, <4>3
    <3>3. pc'[c] \in FlagSteps
      BY Zenon, <2>2 DEF FlagSteps
    <3> QED
      BY Zenon, <2>1, <2>4, <2>7, <3>2, <3>3
  <2> QED
    BY Zenon, <1>3, <1>5, <2>2, <2>10, <2>11 DEF FlagInv
<1>11. CASE Copy(c)
  <2>1. pc[c] = "copy" /\ owner[targetOf[c]] = c /\ owner' = owner
    BY Zenon, <1>1, <1>11, OwnVolumes DEF Copy, TargetSteps
  <2>2. flags' = flags /\ newUuid' = newUuid /\ named' \in {named, [named EXCEPT ![targetOf[c]] = original]}
    BY Zenon, <1>11 DEF Copy, early
  <2>3. \A v \in Targets : named'[v] = named[v] \/ (v = targetOf[c] /\ named'[v] = original)
    BY <1>2, <2>2
  <2>4. \A v \in Targets, f \in Files : named'[v][f] = "new" /\ fs # "fat" => v \in newUuid
    BY <1>1, <1>2, <2>3 DEF FlagInv
  <2>5. flags[c] = {}
    BY Zenon, <1>1, <2>1 DEF FlagInv, FlagSteps
  <2>6. \A d \in Clones : flags[d] # {} => d # c /\ targetOf[d] # targetOf[c]
    BY Zenon, <1>12, <2>1, <2>5
  <2>7. \A d \in Clones : flags[d] # {} =>
          /\ owner[targetOf[d]] = d
          /\ pc'[d] \in FlagSteps
          /\ \A f \in flags[d] : named'[targetOf[d]][f] # "old"
    <3>1. \A d \in Clones : flags[d] # {} => named'[targetOf[d]] = named[targetOf[d]]
      BY <1>2, <2>3, <2>6
    <3> TAKE d \in Clones
    <3> HAVE flags[d] # {}
    <3>2. owner[targetOf[d]] = d /\ pc[d] \in FlagSteps /\ pc'[d] = pc[d]
      BY Zenon, <1>7, <1>12, <2>6
    <3>3. \A f \in flags[d] : named[targetOf[d]][f] # "old"
      BY Zenon, <1>12
    <3>4. named'[targetOf[d]] = named[targetOf[d]]
      BY Zenon, <3>1
    <3> QED
      BY Zenon, <3>2, <3>3, <3>4
  <2> QED
    BY Zenon, <1>3, <1>5, <2>1, <2>2, <2>4, <2>7 DEF FlagInv
<1>10. CASE UNCHANGED <<named, flags>>
  <2>1. flags[c] # {} => pc'[c] \in FlagSteps
    <3>1. flags[c] # {} => pc[c] \in {"hostname", "initramfs", "grub", "unmount"}
      BY Zenon, <1>1, EndFlow DEF FlagInv, FlagSteps
    <3>2. SUFFICES ASSUME pc[c] \in {"hostname", "initramfs", "grub", "unmount"}
                   PROVE  pc'[c] \in FlagSteps
      BY Zenon, <3>1
    <3>3. CASE SetHostname(c) \/ Unmount(c) \/ Die(c)
      BY Zenon, <1>2, <3>3 DEF SetHostname, Unmount, Die, Go, Return, After, FlagSteps
    <3>4. ASSUME NEW step \in {"initramfs", "grub"}, RunInChroot(c, step)
          PROVE  pc'[c] \in FlagSteps
      BY <1>2, <3>4 DEF RunInChroot, ToolEnds, Finish, After, FlagSteps
    <3> QED
      BY Zenon, <3>2, <3>3, <3>4 DEF CloneStep, Start, Validate, Snapshot, CreateTarget, Copy,
       DropSnapshot, DropTarget,
         RemoveSnapshot, RegenerateUuids, uuidStill, Mount, UpdateFiles
  <2> QED
    BY <1>1, <1>3, <1>4, <1>5, <1>7, <1>8, <1>10, <2>1 DEF FlagInv
<1> QED
  BY Zenon, <1>9, <1>10, <1>11 DEF CloneStep, Start, Validate, Snapshot, CreateTarget,
       DropSnapshot, DropTarget,
     RemoveSnapshot, RegenerateUuids, uuidStill, Mount, SetHostname, RunInChroot, chrootUnchanged,
     Unmount, Die, early

-----------------------------------------------------------------------------
\* Every step of every clone keeps the invariant.
LEMMA CloneInvStep == CloneInv /\ [Next]_vars => CloneInv'
<1>1. ASSUME CloneInv, NEW c \in Clones, CloneStep(c) \/ Die(c) PROVE CloneInv'
  <2>1. TypeOK /\ EndInv /\ RootInv /\ VolumeInv /\ Moves(c)
    BY <1>1, StepMoves DEF CloneInv, VolumeInv
  <2>2. TypeOK'
    BY Zenon, <1>1, <2>1, CloneTypeStep
  <2>3. pc[c] # "end" /\ (result'[c] = "none" <=> pc'[c] # "end")
    BY Zenon, <1>1, <2>1, EndFlow
  <2>4. EndInv'
    BY <2>1, <2>3 DEF EndInv, Moves
  <2>5. UNCHANGED <<targetOf, wants>>
    BY Zenon, <1>1 DEF CloneStep, Start, Validate, Snapshot, CreateTarget, Copy,
         DropSnapshot, DropTarget, RemoveSnapshot,
       RegenerateUuids, uuidStill, Mount, UpdateFiles, SetHostname, RunInChroot, chrootUnchanged,
       Unmount, Die, early, late, configVars
  <2>6. VolumeInv'
    BY Zenon, <1>1, <2>1, <2>3, <2>5, PlainSteps, PlainVolumes, VolumeStep DEF CloneStep
  <2>7. RootInv' /\ WipedInv' /\ FlagInv'
    BY <1>1, WipedStep, FlagStep
  <2> QED
    BY <2>2, <2>4, <2>6, <2>7 DEF CloneInv, VolumeInv
<1>2. ASSUME CloneInv, UNCHANGED vars PROVE CloneInv'
  <2>1. /\ pc' = pc /\ result' = result /\ dirty' = dirty /\ snapOwner' = snapOwner
        /\ owner' = owner /\ data' = data /\ targetOf' = targetOf /\ wants' = wants
        /\ rooted' = rooted /\ binds' = binds /\ wiped' = wiped /\ mapped' = mapped
        /\ flags' = flags /\ named' = named /\ newUuid' = newUuid /\ fs' = fs
    BY Zenon, <1>2 DEF vars, configVars, hostVars, mountVars
  <2>2. TypeOK'
    BY Zenon, <1>2 DEF CloneInv, TypeOK, vars, configVars, hostVars, mountVars
  <2>3. (EndInv /\ SnapInv /\ TargetInv /\ CopyInv)'
    BY <1>2, <2>1 DEF CloneInv, EndInv, SnapInv, SnapFits, TargetInv, TargetFits, CopyInv, CopyFits, LeftRest
  <2>4. (RootInv /\ WipedInv)'
    BY Zenon, <1>2, <2>1 DEF CloneInv, RootInv, RootFits, Leaked, WipedInv, HostWipedOnlyByLeak
  <2>5. FlagInv'
    BY <1>2, <2>1 DEF CloneInv, FlagInv
  <2> QED
    BY <2>2, <2>3, <2>4, <2>5 DEF CloneInv
<1> QED
  BY <1>1, <1>2 DEF Next

\* CloneInv holds in every state, for any number of clones of one source.
THEOREM CloneInvariant == Spec => []CloneInv
  BY CloneInitInv, CloneInvStep, PTL DEF Spec

\* A clone that returned Ok owns a complete target and left nothing else; one that
\* failed before the end of the copy left nothing unless a removal failed (lvm_clone).
THEOREM ClonesLeaveNoRest == Spec => []LeavesNoRest
<1>1. CloneInv => OkIsClean
  <2> SUFFICES ASSUME CloneInv, NEW c \in Clones, result[c] = "ok", "dry_run" \notin wants[c]
               PROVE  /\ owner[targetOf[c]] = c /\ data[targetOf[c]] = "copy"
                      /\ snapOwner # c /\ c \notin rooted /\ ~Leaked(c)
                      /\ targetOf[c] \notin wiped
    BY DEF OkIsClean
  <2>1. pc[c] = "end" /\ targetOf[c] \in Targets
    BY DEF CloneInv, EndInv, TypeOK
  <2>2. owner[targetOf[c]] = c /\ data[targetOf[c]] = "copy"
    BY DEF CloneInv, TargetInv, TargetFits, CopyInv, CopyFits
  <2>3. snapOwner # c
    BY <2>1 DEF CloneInv, SnapInv, SnapFits, SnapSteps, LeftRest
  <2>4. c \notin rooted /\ ~Leaked(c)
    BY Zenon, <2>1 DEF CloneInv, RootInv, RootFits, MountSteps
  <2>5. targetOf[c] \notin wiped
    BY Zenon, <2>1, <2>2 DEF CloneInv, WipedInv
  <2> QED
    BY <2>2, <2>3, <2>4, <2>5
<1>2. CloneInv => EarlyFailureCleans
  <2> SUFFICES ASSUME CloneInv, NEW c \in Clones, result[c] = "err", dirty[c] \subseteq {"early"}
               PROVE  snapOwner # c /\ \A v \in Targets : owner[v] # c
    BY DEF EarlyFailureCleans
  <2>1. pc[c] = "end" /\ ~LeftRest(c)
    BY DEF CloneInv, EndInv, LeftRest
  <2> QED
    BY <2>1 DEF CloneInv, SnapInv, SnapFits, TargetInv, TargetFits, SnapSteps, TargetSteps, CopiedSteps, MountSteps
<1> QED
  BY <1>1, <1>2, CloneInvariant, PTL DEF LeavesNoRest

\* The files that a CloneResult reports as updated name the UUID of the device
\* (update_clone_fstab and the other two).
THEOREM UpdatedFilesAreRight == Spec => []UpdatedFilesMatchDevice
<1>1. CloneInv => UpdatedFilesMatchDevice
  <2>1. CloneInv => FlagInv /\ targetOf \in [Clones -> Targets]
    BY DEF CloneInv, TypeOK
  <2> QED
    BY <2>1 DEF FlagInv, UpdatedFilesMatchDevice
<1> QED
  BY <1>1, CloneInvariant, PTL

\* The host's directories are emptied only after run_in_chroot has leaked a bind mount.
THEOREM HostIsSpared == Spec => []HostWipedOnlyByLeak
<1>1. CloneInv => HostWipedOnlyByLeak
  BY DEF CloneInv, WipedInv
<1> QED
  BY <1>1, CloneInvariant, PTL

\* No clone removes the snapshot of another, though all give it the same name.
THEOREM SnapshotIsOwn == Spec => RemovesOnlyOwn
<1>1. CloneInv /\ [Next]_vars =>
        [\A c \in Clones :
           snapOwner # c /\ pc'[c] # pc[c] => snapOwner' \in {snapOwner, c}]_vars
  <2> SUFFICES ASSUME CloneInv, NEW b \in Clones, CloneStep(b) \/ Die(b), NEW c \in Clones,
                      snapOwner # c, pc'[c] # pc[c]
               PROVE  snapOwner' \in {snapOwner, c}
    BY Zenon DEF Next
  <2>1. TypeOK /\ EndInv /\ VolumeInv /\ Moves(b)
    BY Zenon, StepMoves DEF CloneInv, VolumeInv
  <2>2. b = c
    BY Zenon, <2>1 DEF Moves
  <2>3. pc[c] \notin SnapSteps
    BY <2>1, OwnVolumes
  <2> QED
    BY Zenon, <2>2, <2>3 DEF SnapSteps, CloneStep, Start, Validate, Snapshot, CreateTarget, Copy,
       DropSnapshot, DropTarget,
       RemoveSnapshot, RegenerateUuids, uuidStill, Mount, UpdateFiles, SetHostname, RunInChroot,
       chrootUnchanged, Unmount, Die, late
<1> QED
  BY <1>1, CloneInvariant, PTL DEF Spec, RemovesOnlyOwn

=============================================================================
