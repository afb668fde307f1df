---------------------------- MODULE AgentFreeze ----------------------------
(***************************************************************************)
(* Everything in the guest agent that freezes and thaws the root           *)
(* filesystem: orchestrated snapshots (agent/snapshot/mod.rs), migration   *)
(* cutover (migration/workflow.rs), the plain freeze and thaw commands of  *)
(* the RPC and QGA protocols (agent/handler.rs, agent/qga.rs), the         *)
(* watchdog threads, and the recovery at agent start.  Requests arrive on  *)
(* several channels, each served by a thread of its own, so every call to  *)
(* the privileged helper and every store to shared state is a step.        *)
(***************************************************************************)
EXTENDS Naturals, FiniteSets

CONSTANTS
  Channels,     \* request threads: virtio channels, local socket
  Boot,         \* the thread of AgentDaemon::run that recovers at start
  Ops,          \* the requests hosts send: a subset of Operations
  Services,     \* units cutover may stop
  StateOnRoot,  \* the state directory is on the filesystem that is frozen
  NoSnapshot,   \* ACTIVE is None
  NoMarker,     \* cutover.json does not exist, or does not parse
  MaxRequests,  \* bound: requests
  MaxCrashes,   \* bound: deaths of the agent process
  MaxMishaps    \* bound: failing helper calls and lost replies

Operations == {"prepare", "complete", "enter", "exit",
               "freeze", "thaw", "qga_freeze", "qga_thaw"}

ASSUME FreezeAssumption ==
  /\ IsFiniteSet(Channels)
  /\ Boot \notin Channels
  /\ (Channels \cup {Boot}) \cap (1 .. MaxRequests) = {}
  /\ Ops \subseteq Operations
  /\ StateOnRoot \in BOOLEAN
  /\ MaxRequests \in Nat /\ MaxCrashes \in Nat /\ MaxMishaps \in Nat

VARIABLES
  frozen,    \* the kernel: the root filesystem is frozen
  epoch,     \* the kernel: how often it was frozen
  flag,      \* qga.rs FS_FROZEN
  hint,      \* AgentRuntime::fs_frozen_hint
  active,    \* snapshot/mod.rs ACTIVE
  marker,    \* cutover.json
  quiesced,  \* application plugins have quiesced and not resumed
  stopped,   \* services cutover has stopped
  alive,     \* the agent process runs
  th,        \* threads: channels, boot, and one watchdog per request
  second,    \* the clock, in the resolution of snapshot ids
  made,      \* requests so far
  crashes, mishaps

kernelVars == <<frozen, epoch>>
flagVars == <<flag, hint>>
worldVars == <<quiesced, stopped>>
boundVars == <<second, made, crashes, mishaps>>
vars == <<kernelVars, flagVars, active, marker, worldVars, alive, th, boundVars>>

Requests == 1 .. MaxRequests
Threads == Channels \cup {Boot} \cup Requests

PCs == {"rest", "freeze", "flag_on", "hint_on", "store", "spawn", "final_hint",
        "arm", "armed", "take", "thaw", "flag_off", "hint_off", "resume", "restart",
        "truncate", "write", "unmark", "recover", "clear"}

ThreadStates ==
  [pc : PCs, op : Operations \cup {"none", "snap_dog", "cut_dog", "recover"},
   n : 0 .. MaxRequests, id : 0 .. MaxRequests, froze : BOOLEAN,
   epoch : 0 .. MaxRequests, quiet : BOOLEAN, list : SUBSET Services]

Rest == [pc |-> "rest", op |-> "none", n |-> 0, id |-> 0, froze |-> FALSE,
         epoch |-> 0, quiet |-> FALSE, list |-> {}]

Snapshots == [id : 0 .. MaxRequests, frozen : BOOLEAN, quiet : BOOLEAN,
              epoch : 0 .. MaxRequests]

Markers == [frozen : BOOLEAN, list : SUBSET Services]

TypeOK ==
  /\ frozen \in BOOLEAN /\ epoch \in 0 .. MaxRequests
  /\ flag \in BOOLEAN /\ hint \in BOOLEAN
  /\ active \in Snapshots \cup {NoSnapshot}
  /\ marker \in Markers \cup {NoMarker}
  /\ quiesced \in BOOLEAN /\ stopped \in SUBSET Services
  /\ alive \in BOOLEAN
  /\ th \in [Threads -> ThreadStates]
  /\ second \in 0 .. MaxRequests /\ made \in 0 .. MaxRequests
  /\ crashes \in 0 .. MaxCrashes /\ mishaps \in 0 .. MaxMishaps

Init ==
  /\ frozen = FALSE /\ epoch = 0 /\ flag = FALSE /\ hint = FALSE
  /\ active = NoSnapshot /\ marker = NoMarker
  /\ quiesced = FALSE /\ stopped = {}
  /\ alive = TRUE /\ th = [t \in Threads |-> Rest]
  /\ second = 0 /\ made = 0 /\ crashes = 0 /\ mishaps = 0

Mishap == mishaps < MaxMishaps /\ mishaps' = mishaps + 1

\* AgentRuntime::fs_frozen.
FsFrozen == hint \/ flag

\* A write below the state directory blocks while its filesystem is frozen.
Writable == ~(StateOnRoot /\ frozen)

At(t, pc) == alive /\ th[t].pc = pc

Goto(t, pc) == th' = [th EXCEPT ![t].pc = pc]

Finish(t) == th' = [th EXCEPT ![t] = Rest]

\* A channel's thread takes the next request.
Begin(c, op) ==
  /\ At(c, "rest")
  /\ op \in Ops
  /\ made < MaxRequests
  /\ made' = made + 1
  /\ UNCHANGED <<crashes, mishaps>>

-----------------------------------------------------------------------------
\* freeze_filesystems and freeze_fs: fsfreeze -f / in the helper (EBUSY when
\* frozen already), then FS_FROZEN, then the hint.
FreezeFailed(t) ==
  CASE th[t].op = "prepare" -> Goto(t, "store")
    [] OTHER -> Finish(t)

Freeze(t) ==
  /\ At(t, "freeze")
  /\ \/ /\ ~frozen
        /\ frozen' = TRUE /\ epoch' = epoch + 1
        /\ th' = [th EXCEPT ![t].pc = "flag_on", ![t].froze = TRUE,
                            ![t].epoch = epoch']
        /\ UNCHANGED mishaps
     \/ /\ frozen
        /\ FreezeFailed(t)
        /\ UNCHANGED <<kernelVars, mishaps>>
     \/ /\ Mishap                       \* no helper, or its reply is lost
        /\ \/ UNCHANGED kernelVars
           \/ ~frozen /\ frozen' = TRUE /\ epoch' = epoch + 1
        /\ FreezeFailed(t)
  /\ UNCHANGED <<flagVars, active, marker, worldVars, alive, second, made,
                 crashes>>

FlagOn(t) ==
  /\ At(t, "flag_on")
  /\ flag' = TRUE
  /\ IF th[t].op = "qga_freeze" THEN Finish(t) ELSE Goto(t, "hint_on")
  /\ UNCHANGED <<kernelVars, hint, active, marker, worldVars, alive, boundVars>>

HintOn(t) ==
  /\ At(t, "hint_on")
  /\ hint' = TRUE
  /\ CASE th[t].op = "prepare" -> Goto(t, "store")
       [] th[t].op = "enter" -> Goto(t, "arm")
       [] OTHER -> Finish(t)
  /\ UNCHANGED <<kernelVars, flag, active, marker, worldVars, alive, boundVars>>

\* thaw_filesystems and thaw_fs: fsfreeze -u / (EINVAL when not frozen), then
\* FS_FROZEN, then the hint.  complete, the watchdogs and
\* the recovery go on after an error; a request for nothing else ends with it.
ThawFailed(t) ==
  CASE th[t].op \in {"complete", "snap_dog"} -> Goto(t, "resume")
    [] th[t].op \in {"cut_dog", "recover"} -> Goto(t, "clear")
    [] OTHER -> Finish(t)

Thaw(t) ==
  /\ At(t, "thaw")
  /\ \/ /\ frozen
        /\ frozen' = FALSE
        /\ Goto(t, "flag_off")
        /\ UNCHANGED mishaps
     \/ /\ ~frozen
        /\ ThawFailed(t)
        /\ UNCHANGED <<frozen, mishaps>>
     \/ /\ Mishap
        /\ frozen' \in {frozen, FALSE}
        /\ ThawFailed(t)
  /\ UNCHANGED <<epoch, flagVars, active, marker, worldVars, alive, second,
                 made, crashes>>

FlagOff(t) ==
  /\ At(t, "flag_off")
  /\ flag' = FALSE
  /\ IF th[t].op = "qga_thaw" THEN Finish(t) ELSE Goto(t, "hint_off")
  /\ UNCHANGED <<kernelVars, hint, active, marker, worldVars, alive, boundVars>>

HintOff(t) ==
  /\ At(t, "hint_off")
  /\ hint' = FALSE
  /\ CASE th[t].op \in {"complete", "snap_dog"} -> Goto(t, "resume")
       [] th[t].op = "exit" -> Goto(t, "restart")
       [] th[t].op = "thaw" -> Finish(t)
       [] OTHER -> Goto(t, "clear")
  /\ UNCHANGED <<kernelVars, flag, active, marker, worldVars, alive, boundVars>>

\* The commands freeze and thaw, of the RPC protocol and of QGA; the QGA ones
\* leave the hint alone.
FreezeCommand(c) ==
  \E op \in {"freeze", "qga_freeze"} :
    /\ Begin(c, op)
    /\ th' = [th EXCEPT ![c].pc = "freeze", ![c].op = op]
    /\ UNCHANGED <<kernelVars, flagVars, active, marker, worldVars, alive, second>>

ThawCommand(c) ==
  \E op \in {"thaw", "qga_thaw"} :
    /\ Begin(c, op)
    /\ th' = [th EXCEPT ![c].pc = "thaw", ![c].op = op]
    /\ UNCHANGED <<kernelVars, flagVars, active, marker, worldVars, alive, second>>

-----------------------------------------------------------------------------
\* snapshot::prepare up to the freeze: refused while one is active (an error
\* without effect); the id is the current second; plugins may fail.
PrepareGuard(c) ==
  /\ Begin(c, "prepare")
  /\ active = NoSnapshot
  /\ \E s \in {second, second + 1}, quiet \in BOOLEAN :
       /\ second' = s
       /\ quiesced' = (quiesced \/ quiet)
       /\ th' = [th EXCEPT ![c] =
            [Rest EXCEPT !.pc = "freeze", !.op = "prepare", !.n = made + 1,
                         !.id = s, !.quiet = quiet]]
  /\ UNCHANGED <<kernelVars, flagVars, active, marker, stopped, alive>>

\* ACTIVE is set, ...
Store(t) ==
  /\ At(t, "store")
  /\ active' = [id |-> th[t].id, frozen |-> th[t].froze,
                quiet |-> th[t].quiet, epoch |-> th[t].epoch]
  /\ Goto(t, "spawn")
  /\ UNCHANGED <<kernelVars, flagVars, marker, worldVars, alive, boundVars>>

\* Mutant of Spawn: the watchdog is armed only for a frozen filesystem.
SpawnIfFrozen(t) ==
  /\ At(t, "spawn")
  /\ th' = [th EXCEPT ![t].pc = "final_hint",
                      ![th[t].n] = IF th[t].froze
                        THEN [Rest EXCEPT !.pc = "armed", !.op = "snap_dog",
                                          !.id = th[t].id]
                        ELSE Rest]
  /\ UNCHANGED <<kernelVars, flagVars, active, marker, worldVars, alive, boundVars>>

\* ... and then the watchdog thread is started.
Spawn(t) ==
  /\ At(t, "spawn")
  /\ th' = [th EXCEPT ![t].pc = "final_hint",
                      ![th[t].n] = [Rest EXCEPT !.pc = "armed",
                                      !.op = "snap_dog", !.id = th[t].id]]
  /\ UNCHANGED <<kernelVars, flagVars, active, marker, worldVars, alive, boundVars>>

FinalHint(t) ==
  /\ At(t, "final_hint")
  /\ hint' = th[t].froze
  /\ Finish(t)
  /\ UNCHANGED <<kernelVars, flag, active, marker, worldVars, alive, boundVars>>

\* Mutant of TakeActive: the snapshot is read but stays active.
TakeActiveKept(t, op) ==
  /\ active # NoSnapshot
  /\ th' = [th EXCEPT ![t] =
       [Rest EXCEPT !.pc = IF active.frozen THEN "thaw" ELSE "resume",
                    !.op = op, !.froze = active.frozen,
                    !.quiet = active.quiet]]
  /\ UNCHANGED active

\* snapshot::complete: ACTIVE is taken, then thaw, then resume.  Without an
\* active snapshot the request is an error without effect.
TakeActive(t, op) ==
  /\ active # NoSnapshot
  /\ active' = NoSnapshot
  /\ th' = [th EXCEPT ![t] =
       [Rest EXCEPT !.pc = IF active.frozen THEN "thaw" ELSE "resume",
                    !.op = op, !.froze = active.frozen,
                    !.quiet = active.quiet]]

CompleteTake(c) ==
  /\ Begin(c, "complete")
  /\ TakeActive(c, "complete")
  /\ UNCHANGED <<kernelVars, flagVars, marker, worldVars, alive, second>>

\* Mutant of Resume: the plugins are resumed only after a thaw.
ResumeIfThawed(t) ==
  /\ At(t, "resume")
  /\ quiesced' = (quiesced /\ ~(th[t].quiet /\ th[t].froze))
  /\ hint' = FALSE
  /\ Finish(t)
  /\ UNCHANGED <<kernelVars, flag, active, marker, stopped, alive, boundVars>>

Resume(t) ==
  /\ At(t, "resume")
  /\ \/ quiesced' = (quiesced /\ ~th[t].quiet) /\ UNCHANGED mishaps
     \/ Mishap /\ UNCHANGED quiesced
  /\ hint' = FALSE
  /\ Finish(t)
  /\ UNCHANGED <<kernelVars, flag, active, marker, stopped, alive, second,
                 made, crashes>>

\* The snapshot watchdog wakes up, looks whether its snapshot is still the
\* active one, and completes whatever is active then.
WatchdogCheck(t) ==
  /\ At(t, "armed")
  /\ th[t].op = "snap_dog"
  /\ IF active # NoSnapshot /\ active.id = th[t].id
       THEN Goto(t, "take") ELSE Finish(t)
  /\ UNCHANGED <<kernelVars, flagVars, active, marker, worldVars, alive,
                 boundVars>>

WatchdogTake(t) ==
  /\ At(t, "take")
  /\ IF active = NoSnapshot THEN Finish(t) /\ UNCHANGED active
                            ELSE TakeActive(t, "snap_dog")
  /\ UNCHANGED <<kernelVars, flagVars, marker, worldVars, alive, boundVars>>

-----------------------------------------------------------------------------
\* enter_cutover: stop services, freeze (its error ends the call here), arm
\* the watchdog, write the marker.
EnterStop(c) ==
  /\ Begin(c, "enter")
  /\ \E list \in SUBSET Services, freeze \in BOOLEAN :
       /\ stopped' = stopped \cup list
       /\ th' = [th EXCEPT ![c] =
            [Rest EXCEPT !.pc = IF freeze THEN "freeze" ELSE "truncate",
                         !.op = "enter", !.n = made + 1, !.list = list]]
  /\ UNCHANGED <<kernelVars, flagVars, active, marker, quiesced, alive, second>>

\* Mutant of Arm: the state directory is made first.
ArmBehindWrite(t) ==
  /\ At(t, "arm")
  /\ Writable
  /\ th' = [th EXCEPT ![t].pc = "truncate",
                      ![th[t].n] = [Rest EXCEPT !.pc = "armed",
                                                !.op = "cut_dog"]]
  /\ UNCHANGED <<kernelVars, flagVars, active, marker, worldVars, alive,
                 boundVars>>

Arm(t) ==
  /\ At(t, "arm")
  /\ th' = [th EXCEPT ![t].pc = "truncate",
                      ![th[t].n] = [Rest EXCEPT !.pc = "armed",
                                                !.op = "cut_dog"]]
  /\ UNCHANGED <<kernelVars, flagVars, active, marker, worldVars, alive,
                 boundVars>>

\* std::fs::write of the marker: truncate, then write what the thread holds.
Truncate(t) ==
  /\ At(t, "truncate")
  /\ Writable
  /\ marker' = NoMarker
  /\ Goto(t, "write")
  /\ UNCHANGED <<kernelVars, flagVars, active, worldVars, alive, boundVars>>

Write(t) ==
  /\ At(t, "write")
  /\ Writable
  /\ marker' = [frozen |-> th[t].froze, list |-> th[t].list]
  /\ Finish(t)
  /\ UNCHANGED <<kernelVars, flagVars, active, worldVars, alive, boundVars>>

\* The cutover watchdog thaws whatever is frozen when it wakes up.
CutoverWatchdog(t) ==
  /\ At(t, "armed")
  /\ th[t].op = "cut_dog"
  /\ IF FsFrozen THEN Goto(t, "thaw") ELSE Finish(t)
  /\ UNCHANGED <<kernelVars, flagVars, active, marker, worldVars, alive,
                 boundVars>>

\* clear_marker_frozen: read the marker, then write it without the freeze.
Clear(t) ==
  /\ At(t, "clear")
  /\ IF marker = NoMarker THEN Finish(t)
       ELSE th' = [th EXCEPT ![t].pc = "truncate", ![t].list = marker.list]
  /\ UNCHANGED <<kernelVars, flagVars, active, marker, worldVars, alive,
                 boundVars>>

\* exit_cutover: read the marker, thaw (its error ends the call), restart the
\* services the marker lists, remove the marker.
ExitRead(c) ==
  /\ Begin(c, "exit")
  /\ th' = [th EXCEPT ![c] =
       [Rest EXCEPT !.pc = IF FsFrozen THEN "thaw" ELSE "restart",
                    !.op = "exit",
                    !.list = IF marker = NoMarker THEN {} ELSE marker.list]]
  /\ UNCHANGED <<kernelVars, flagVars, active, marker, worldVars, alive, second>>

RestartServices(t) ==
  /\ At(t, "restart")
  /\ \/ stopped' = stopped \ th[t].list /\ UNCHANGED mishaps
     \/ Mishap /\ \E up \in SUBSET th[t].list : stopped' = stopped \ up
  /\ Goto(t, "unmark")
  /\ UNCHANGED <<kernelVars, flagVars, active, marker, quiesced, alive,
                 second, made, crashes>>

Unmark(t) ==
  /\ At(t, "unmark")
  /\ Writable
  /\ marker' = NoMarker
  /\ Finish(t)
  /\ UNCHANGED <<kernelVars, flagVars, active, worldVars, alive, boundVars>>

-----------------------------------------------------------------------------
\* The agent dies: its memory and its threads are gone, the kernel and the
\* disk are not.  It starts again with recover_cutover_state.
Crash ==
  /\ alive
  /\ crashes < MaxCrashes
  /\ crashes' = crashes + 1
  /\ alive' = FALSE
  /\ flag' = FALSE /\ hint' = FALSE /\ active' = NoSnapshot
  /\ th' = [t \in Threads |-> Rest]
  /\ UNCHANGED <<kernelVars, marker, worldVars, second, made, mishaps>>

Restart ==
  /\ ~alive
  /\ alive' = TRUE
  /\ Goto(Boot, "recover")
  /\ UNCHANGED <<kernelVars, flagVars, active, marker, worldVars, boundVars>>

\* Mutant of Recover: goes by the flags, which a new process has not got.
RecoverByFlag(t) ==
  /\ At(t, "recover")
  /\ IF marker # NoMarker /\ FsFrozen
       THEN th' = [th EXCEPT ![t].pc = "thaw", ![t].op = "recover"]
       ELSE Finish(t)
  /\ UNCHANGED <<kernelVars, flagVars, active, marker, worldVars, alive,
                 boundVars>>

Recover(t) ==
  /\ At(t, "recover")
  /\ IF marker # NoMarker /\ marker.frozen
       THEN th' = [th EXCEPT ![t].pc = "thaw", ![t].op = "recover"]
       ELSE Finish(t)
  /\ UNCHANGED <<kernelVars, flagVars, active, marker, worldVars, alive,
                 boundVars>>

Request(c) ==
  \/ PrepareGuard(c) \/ CompleteTake(c) \/ EnterStop(c) \/ ExitRead(c)
  \/ FreezeCommand(c) \/ ThawCommand(c)

ThreadStep(t) ==
  \/ Freeze(t) \/ FlagOn(t)  \/ HintOn(t)  \/ Store(t) \/ Spawn(t)
  \/ FinalHint(t)
  \/ Thaw(t)   \/ FlagOff(t) \/ HintOff(t) \/ Resume(t)
  \/ WatchdogCheck(t) \/ WatchdogTake(t)
  \/ Arm(t)    \/ Truncate(t) \/ Write(t) \/ CutoverWatchdog(t) \/ Clear(t)
  \/ RestartServices(t)      \/ Unmark(t)  \/ Recover(t)

Next ==
  \/ \E c \in Channels : Request(c)
  \/ \E t \in Threads : ThreadStep(t)
  \/ Crash
  \/ Restart

\* Threads run on, sleeping watchdogs wake up, and the service manager starts
\* the agent again; hosts need not send anything.
Spec ==
  /\ Init
  /\ [][Next]_vars
  /\ \A t \in Threads : WF_vars(ThreadStep(t))
  /\ WF_vars(Restart)

-----------------------------------------------------------------------------
\* While a snapshot whose prepare reported fs_frozen is active, the root has
\* been frozen without a break since that prepare froze it: complete() cannot
\* then certify a snapshot taken over a thawed filesystem.
ActiveFreezeHolds ==
  active # NoSnapshot =>
    (active.frozen => frozen /\ active.epoch = epoch)

\* A snapshot watchdog that has not taken the snapshot yet, or the prepare that
\* starts one with its next step.
Watches(r) ==
  \/ r.op = "snap_dog" /\ r.pc \in {"armed", "take"}
  \/ r.pc = "spawn"

\* An active snapshot is never without a watchdog that will find it: ids have
\* a resolution of one second, a watchdog may belong to an earlier prepare,
\* and complete() may race it, but one is always left for the active id, or is
\* what the prepare that stored it does next.
NeverUnwatched ==
  active # NoSnapshot =>
    \E t \in Threads \ {Boot} : Watches(th[t]) /\ th[t].id = active.id

\* Whatever prepare quiesced is resumed: by complete() or, when the host never
\* calls it, by the watchdog.
QuiesceEnds == quiesced ~> ~quiesced

\* When the agent dies after the marker has recorded the freeze, the next
\* start thaws the root.
MarkedFreezeRecovered ==
  (~alive /\ frozen /\ marker # NoMarker /\ marker.frozen) ~> ~frozen

-----------------------------------------------------------------------------
\* What the code's comments say and the code does not keep.

\* A frozen root is thawed again, host or no host: fails when two prepares
\* interleave, and when a cutover freezes between another one's thaw and the
\* store to FS_FROZEN that follows it ("can therefore never leave the guest
\* frozen", workflow.rs).
FreezeEnds == frozen ~> ~frozen

\* "an agent restarted mid-cutover also thaws" (workflow.rs): a freeze that
\* outlives the agent ends after the restart.
CrashedFreezeEnds == (~alive /\ frozen) ~> ~frozen

=============================================================================
