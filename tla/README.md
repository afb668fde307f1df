# GuestKit: a TLA+ model of its concurrent core

GuestKit inspects and repairs virtual-machine disks, runs such work as jobs on a
worker fleet behind an HTTP API, and has an agent inside the guest.  This
directory models the parts where several actors share state, checks them with
TLC on small instances and proves the central results with TLAPS for all
instances.  Paths below are relative to the repository root.

## 1. The system and its parts

```
  client --HTTP--> zyvor-api --XADD/SET--> Redis --XREADGROUP--> guestkit-worker
                      |  ^                   ^  status, result keys   |
                      v  |                   +------------------------+
                  PostgreSQL                                          v
                                                      guestfs facade (NBD, loop, mount)

  host --virtio / vsock / socket--> guest agent --helper--> fsfreeze, systemd, files
```

| Part | Source | State it keeps | Here |
|---|---|---|---|
| job state machine | `crates/guestkit-worker/src/state.rs` | state of one job | `JobState` |
| job executor | `.../executor.rs`, `result.rs`, `handler.rs` | cache, gauge, result files | `JobExecutor` |
| worker loop, Redis transport | `.../worker.rs`, `transport/redis.rs` | stream, pending entries, id map | `JobPipeline` |
| job API | `crates/zyvor-api/src/jobs.rs`, `routes/jobs.rs` | rows, status keys | `JobPipeline` |
| snapshots, cutover, freeze commands | `src/agent/snapshot/`, `src/migration/workflow.rs`, `src/agent/qga.rs` | frozen root, flags, marker | `AgentFreeze` |
| file and HTTP transports | `.../transport/file.rs`, `http.rs`, `worker.rs` | directory, channel, queue, status map | `FileTransport`, `HttpTransport`, `WorkerLoop` |
| guest action approval, guest control | `crates/zyvor-api/src/guest_actions.rs`, `guest_control/transport.rs` | pending records, index | `GuestActions` |
| agent request dispatch | `src/agent/handler.rs`, `state.rs` | nonces, answers by key | `AgentDispatch` |
| agent self-update | `src/agent/updater.rs` | staged and installed files | `SelfUpdate` |
| NBD and loop devices, guestfs handle | `src/disk/nbd.rs`, `loop_device.rs`, `src/guestfs/handle.rs` | devices, lock files, mounts | `NbdDevices`, `GuestfsHandle` |
| LVM clone | `src/guestfs/lvm_clone.rs` | volumes, mounts, UUIDs, files | `LvmClone` |
| fix plans, live and offline | `src/cli/plan/` | files, snapshots, manifest, image, backups | `PlanOrder`, `PlanApply`, `PlanOffline` |
| fleet waves | `src/fleet/wave.rs` | degrees, frontier, waves | `FleetWaves` |
| framing, cloud cache, retry | `src/agent/transport/mod.rs`, `src/storage/`, `src/core/` | read buffers, cache files | not modelled |
| parsers, reports, CLI, TUI, Python bindings, eBPF | the rest of `src/` and `crates/` | none between calls | not modelled |

`PROJECT.json` has the full list of components with reasons, and the list of
hazards (what can go wrong here that a test would hardly reach) with the line
where each one bites.

## 2. Modules

* **`JobState`**: the states of a job and the table `is_valid_transition`.
* **`JobExecutor`** (extends it): `JobExecutor::execute` for a set of worker
  processes.  `stage` is where the worker is between two awaits; `machine` is the
  job's state machine; `cache`, `active` and `resultFile` are the idempotency
  cache, the metrics gauge and the result file.  `working` and `cleanupDue` say
  whose handler code still runs and whose `cleanup()` is still owed: a timeout
  drops the handler's future, but not the blocking work it started.  `starts`,
  `saved`, `deliveries` are history.  A crash clears the process's memory and
  keeps the files.  A result file may be torn by a crash during the write.
* **`JobPipeline`** (extends it): the API's three writes when a job is submitted
  (XADD, SET, INSERT), the consumer group (`stream`, `pel`), the transport's calls
  (`link`, `handed`, `pending`), the status and result keys, the row, and `GET
  /jobs/{id}` with its five commands as a small program per reader.  `Mishap` is a
  failed command, a lost reply or an expired key; a command of the submission whose
  reply is lost may have been carried out.  Nothing claims pending entries,
  because no code in the repository does.
* **`JobDelivery`**: what the queue promises.  A job is new, queued, held or gone,
  moves forward only, and is started at most once.  `JobPipeline` implements it
  under the mapping `PlaceOf`.
* **`AgentFreeze`**: every command of the agent that freezes or thaws.  The threads
  `th` are the channels, the boot thread and one watchdog per request; a thread's
  record holds its program counter and locals.  `frozen` is the kernel's state and
  `flag`, `hint`, `active`, `marker` are the agent's ideas of it.  A write to the
  state directory blocks while that directory's file system is frozen
  (`StateOnRoot`).  Snapshot ids have a resolution of one second, so ids of
  different prepares may be equal.  `epoch` counts freezes, to tell one unbroken
  freeze from two.
* **`AgentDispatch`**: one mutating request in a thread of the agent: the refusals,
  the nonce (`nonces`, the set, and `nonceOrder`, the list that bounds it), the
  look-up of the idempotency key, the work, the store of the answer.  A restart
  clears both caches.  `retrying` is history: the threads whose request came when an
  answer was stored under its key.
* **`GuestActions`**: `enqueue`, `approve` and `reject` with one action per Redis
  command (`record`, the index), and the ladder of transports an approved action
  climbs (`call` and the clients of each rung): a client that gives up does not
  take back what it has sent.
* **`GuestControl`** composes the two: a delivery of the ladder is a request of the
  agent, and the host may send requests of its own.
* **`NbdDevices`**: `connect` with the list of free devices made under the lock, the
  attempts, the clean-up of a failed one, whose detach may fail unnoticed, `disconnect`
  and `drop`.  A `disconnect` whose qemu-nbd cannot be started leaves `connected` set, and
  the drop tries again.  `dev` tells whose qemu-nbd has a device; `Foreign` is a program outside GuestKit.  The lock file of
  a handle is a constant, because it depends on what the process may write.
* **`GuestfsHandle`** (extends it): the life of a handle: drive, launch, mounts,
  `shutdown` with unmount, lazy unmount and the device, and the end of the process.
* **`LvmClone`**: `lvm_clone` and `lvm_clone_podman`, one action per external command,
  each of which may fail, and a death anywhere.  `snapOwner` and `owner` tell
  which clone made the snapshot and a target, `binds` which bind mounts are there, `fs`
  what kind of content the volume holds (`set_filesystem_uuid` has a branch for each) and
  `named` which UUID a configuration file names.  A failing `lvcreate` or `lvremove` is
  taken to have changed nothing.
* **`PlanOrder`**: `topological_sort` with its counting and its queue, and the check for
  circular dependencies.  **`PlanApply`** (extends it): the live executor; a file is
  absent, a dangling link, original, what an operation wrote, or cut off.  The name of its
  copy is made from its path and may be another file's (`backupName`), and `manifest`
  may be torn.  **`PlanOffline`**: the offline applicator on an image and its backups,
  which are named by the second.
* **`FleetWaves`**: `topo_waves` with its counters, round by round, and `find_cycles`; an
  image may be listed twice.
* **`FileTransport`**, **`HttpTransport`**, and **`WorkerLoop`**, which drives either:
  fetch, execute, ack or nack, with crashes.  `early`, `silent` and `stayed` are history:
  files whose path was read before they were complete, that were moved in behind the scan,
  and that stayed after they were run.  Reading a complete file is taken to succeed.  An
  HTTP submission has two writes with an await between them, where it may be dropped.
* **`SelfUpdate`**: check, stage, apply; a file is a version and a digest.
* **`JobPipelineProofs`** (executor and pipeline), **`JobStatusProofs`**,
  **`GuestControlProofs`** (agent and control plane), **`FreezeProofs`**,
  **`PlanProofs`**, **`HostDeviceProofs`**, **`LvmCloneProofs`**,
  **`WorkerLoopProofs`**: theorems and proofs (section 4).
* **`MC...`**: instances for TLC.

Abstracted everywhere: document contents, messages, logging, time (a timeout or a
watchdog may fire at any moment after it is armed).

## 3. Runs

| Run | Instance | Properties |
|---|---|---|
| `executor` | 1 worker, 3 jobs, 2 with one key, 3 deliveries | `TransitionsAccepted`: execute() asks for no transition the table refuses. `ResultsAreKept`: Ok means a saved result, and a cached one is not destroyed. `IdempotentInProcess`: a key succeeds once per process. `GaugeCoversInFlight`: the gauge is never too low. `LeftBehindOnlyByTimeout`: only a timeout leaves work or a clean-up behind. `ExecTypeOK` |
| `pipeline_queue` | 2 workers, 2 jobs, 1 crash, 1 mishap | `AtMostOnce`: no job is started twice. `PendingIsExact`: an unfinished job stays pending, and only a fault orphans an entry. `PendingMapBounded`: the id map does not grow. `TypeOK` |
| `pipeline_service` | 1 worker, 1 crash; 1 job with requests (one at a time and a mishap, or two at once without faults), or 2 jobs without requests and mishaps | `StatusTruthful`: no final status is false. `CompletedIsFinal`: completed comes with a result, and `completed_at` sticks. `DeliveryImplemented`: refinement of `JobDelivery`. `EntriesSettle`: every entry is acknowledged or orphaned |
| `freeze_all` | 2 channels, all 8 commands, 2 requests, 1 crash, 1 mishap | `NeverUnwatched`: an active snapshot always has a watchdog that finds it, or its prepare starts one next |
| `freeze_liveness` | 1 channel; 3 snapshot requests, or 2 cutover requests, 1 service, 2 crashes | `ActiveFreezeHolds`: a freeze is unbroken while its snapshot is active. `SnapshotReleases`: root and plugins come back. `CutoverReleases`: while the agent lives a root frozen by a cutover is thawed, unless the freeze overtook the thaw before it (below); one the marker has recorded is thawed after a crash |
| `guest_control` | 1 action, 2 verdicts, 2 agent threads, 4 mishaps (2 with both verdicts under way); or 4 host requests, two with one key, and a restart | `NoncesAreKept`: list and set agree, and a nonce comes back only after a whole window of others. `KeysAreHonoured`: a request that comes when an answer is stored under its key is not executed, and an ok answer was executed. `VerdictIsTrue`: approved means the guest answered, and a rejected action ran only in a race. `ListedUntilVerdict`: an accepted action is listed until it has a verdict, and never asks again |
| `lvm_clone` | 2 clones of one source to 1 or 2 targets, 7 sets of options, 6 kinds of content, 2 failures or deaths | `LeavesNoRest`: Ok leaves the copy and nothing else, and an early failure nothing unless a removal fails. `UpdatedFilesMatchDevice`: after Ok a file names a new UUID only if the device has it, and an updated one not the old. `HostWipedOnlyByLeak`: host directories are emptied only after a bind mount or its umount failed. `RemovesOnlyOwn`: the snapshot, which all clones of a source name alike, goes only by a step of its creator |
| `host_devices` | 2 handles, 2 devices, 1 failure or 1 foreign program | `OwnImage`: a connected handle serves its own image. `ConnectSparesHandles`: a failing connect spares every handle that locks the same file. `StateTellsDevice`: a ready handle has its device, and a closed one left nothing. `NotPulledUnderMount`: no device goes from under a mount. `ConnectEnds`: every connect ends |
| `plan` | 3 operations with every dependency graph sorted, the 4 graphs of `Applied` run with failures; 2 files, 2 faults, 2 applications; 3 images, each listed once or twice | `SortIsRight`: the sort is a linear extension and complete, and circularity is exact. `UndoStaysPossible`: a change is listed when it is made, with the original under its name if no other operation uses that name, and a torn manifest stops changes. `FailFastStops`, `RollbackUndoes`: see section 4. `OriginalIsKept`: the offline applicator keeps the original image. `WavesAreRight`: an image comes after all it needs or is reported, if its dependencies are each counted once |
| `worker_loop` | 2 jobs, 3 submissions, 2 crashes, 1 mishap, either transport | `NoFileIsForgotten`: a complete file is run, unless it was read before it was complete or moved in behind the scan (below). `RunsAreAccounted`: a file is run twice only if it was not moved away. `StatusTellsPlace`: an HTTP status entry tells the place |
| `self_update`, `lazy_disconnect` | see below | expected to fail |

`OrderTypeOK`, `AgentTypeOK` and the other type invariants are stated in every module;
the two runs above that name one check it, and the proofs carry the types of the
other modules they are about.

Why these bounds.  Two workers and two jobs are the least for a race about one
entry while another is in progress (1.2 million states; the other runs have between
40 thousand and 3.1 million, and take at most two minutes); one crash and one mishap may fall on any step
and on each other.  Three requests give prepare, complete, prepare: the least for
an old watchdog to meet a new snapshot.  Two crashes let the recovery itself be
interrupted.  For the executor, three deliveries of three jobs give a success, a
repetition under another id, and a job without a key.  In the freeze runs the number
of requests is the tightest bound: `freeze_all` has two, so three-request
interactions of different commands on two channels are not explored.  Liveness runs
have one channel or one worker, and no symmetry.  Two verdicts on one action are the
race of approvals; the nonce window is 2, so that three nonces overflow it.  Two threads
and two requests with one key give a retry before, during and after the execution.  Two
clones of one source share the snapshot's name, and two failures break both a step
and its clean-up.  Two handles on two devices contend for the last one; in the run
they lock one file.  All 4096 dependency relations of three operations, with an
unknown name and self-dependencies, are sorted; a plan that is applied has two
operations on one file and a third one on another.  MC modules restrict some
combinations (mishaps with two verdicts, deaths with snapshots); only steps of the
environment are restricted, none that is fair.  `CHECK_DEADLOCK FALSE` is used
because clients may stop sending and a finished instance then has nothing to do.

**Fairness.**  Weak fairness of a thread's or worker's own steps: the tokio runtime
and the operating system schedule runnable code, `tokio::time::timeout` fires, a
sleeping watchdog wakes up.  Weak fairness of restart: the agent's unit says
`Restart=always` (`templates/agent/guestkit-agent.service:10`) and the worker is a
Kubernetes Deployment or DaemonSet (`deploy/helm/zyvor/templates/`, `k8s/`).  A
connect is sequential code, and its steps are fair one by one; the external commands it
runs end.  Plans, clones and the control plane have safety properties only and no
fairness.  There is none for a handler's progress, for clients and hosts, or for
failures.

### Where the code differs from its text

Two runs are expected to fail; each refutes a sentence of the repository.

* `self_update`: "policy-gated auto-apply when enabled"
  (`docs/features/guest-agent.md:284`).  The staged digest is the archive's
  (`updater.rs:128`, `:153`) and is compared with the binary's (`:370`), so no update
  is ever installed.
* `lazy_disconnect`: "CRITICAL: Do NOT disconnect NBD if lazy unmount was used!"
  (`handle.rs:607`).  The branch drops the `NbdDevice` (`:646`), whose `drop`
  disconnects (`nbd.rs:732`).

Other sentences are not kept either.  The passing runs check exactly what does hold
in their place.  The sentence itself is a definition of the module where one is
named; TLC refutes it when it is added to the configuration in brackets.

* "Cleanup (always run, even on failure)" and the maximum of concurrent jobs
  (`executor.rs:298`, `worker.rs:32`) fail on a timeout: `CleanupAlwaysRuns`,
  `ConcurrencyLimited` (`MCJobExecutor`).  `LeftBehindOnlyByTimeout` says that a
  timeout is the only way to it.
* The API sets "pending" after the XADD and may overwrite the final status
  (`zyvor-api/src/jobs.rs:35`): `LiveStatusSettles` (`MCPipelineService`).
  `StatusTruthful` holds.
* "retried mutating requests return the cached response"
  (`docs/features/guestkit-agent-protocol-1.3.md:58`): two threads that both miss the cache
  (`handler.rs:172`, `:110`) execute one key, and a thread is started per connection
  (`unix_listen.rs:49`): `KeyRunsAlone` (`MCGuestControl`).  `KeysAreHonoured` says that
  only an overlap does this.  The requests of the API's ladder carry no key at all.
* Two prepares pass the guard together and the root stays frozen
  (`snapshot/mod.rs:66`), against "A watchdog always thaws": `FreezeEnds` (two channels).
  `SnapshotReleases` holds for one.
* A death between freeze and marker leaves the root frozen (`workflow.rs:190`):
  `CrashedFreezeEnds` (`MCFreezeLiveness`).  And while the agent lives: a freeze between
  another thread's thaw and its store to FS_FROZEN (`qga.rs:525`) has its flag cleared, and
  its watchdog then does not thaw.  Both are against "can therefore never leave the guest
  frozen" (`workflow.rs:6`): `FreezeEnds`.  `CutoverReleases` holds; it names the second.
* "Worker will pick it up automatically" (`crates/guestkit-worker/README.md:54`, and
  `examples/worker-jobs/README.md:16`): a file read on its create event before its content
  is written loses its path (`file.rs:147`), and one renamed into the directory behind the
  scan has none; both stay until the worker restarts: `EveryFileIsRun` (`MCWorkerLoop`).
  `NoFileIsForgotten` says that these are the only two ways.
* "Bind mounts are always cleaned up even if the command fails" (`lvm_clone.rs:2092`): a
  bind mount that fails returns at once (`:2107`) and a failing umount is ignored (`:2084`):
  `BindsAlwaysCleaned` (`MCLvmClone`).  `HostWipedOnlyByLeak` bounds the damage.
* "one UuidMapping per device whose UUID was successfully changed" (`lvm_clone.rs:1766`):
  FAT and NTFS are skipped and get one: `MappingMeansChanged` (`MCLvmClone`).
  `UpdatedFilesMatchDevice` holds for the others.
* "everything with no unmet dependency lands in wave 0, then wave 1" (`wave.rs:122`): an
  image listed twice is decremented twice and comes before some of what it needs:
  `WavesFollowAllDeps` (`MCPlan`).  Images in no wave are "part of a dependency cycle"
  (`wave.rs:74`): one that only needs such an image is there, too: `StuckAreOnCycles`.
* "Rollback restores the original content from the snapshot." (`executor_live.rs:952`)
  fails when two operations change one file, because the second snapshot replaces the
  first (`:667`).  So it does when two paths give one name, since `/`, `\` and `:` all
  become `_` (`:661`), and when the plan is applied again: `OriginalRestored` (`MCPlan`).
  `RollbackUndoes` holds.
* "do not qemu-nbd --disconnect another owner's device" (`nbd.rs:407`): the error path
  of a device that became busy does (`:534`).  "Concurrent callers never share the
  same device index" (`:336`) needs one lock file, and there are two (`:44`).
  `ConnectSparesHandles` and `OwnImage` state what holds.

Also reached, with no sentence against it: a backup copy that broke off keeps the name
of a backup and a rollback takes it (`apply.rs:699`), after which the plan may be applied to
the cut-off image; a second backup within one second replaces the first (`:686`);
dependents of a failed operation
run in the offline applicator (`apply.rs:177`); two clones of one volume share the
snapshot's name (`lvm_clone.rs:247`); `shutdown` may return Ok and leave the handle
open (`handle.rs:742`); a handle whose `qemu-nbd --disconnect` could not be started still
counts as connected (`nbd.rs:599`); the HTTP queue's maximum is not enforced, and a
submission dropped between its two writes leaves a job without a status (`http.rs:140`).

The freeze model also reaches the following, for which there is no run, because no
text of the repository says otherwise: a cutover exit, cutover watchdog or QGA thaw
interrupts the freeze of an active snapshot whose `complete()` then still reports
"application" (`workflow.rs:200`, `:241`; `snapshot/mod.rs:247`); a late store to the
flags hides a newer freeze from its watchdog (`qga.rs:508`, `:525`); a thaw that fails in
`complete()` is not tried again (`snapshot/mod.rs:204`); a second
`enter_cutover` overwrites the list of stopped services (`workflow.rs:182`), and a
failing freeze loses it (`:174`); with the state directory off the frozen root, a
request served before the recovery replaces the marker (`daemon.rs:107`, `:125`).

## 4. Proofs

Assumptions: `ExecutorAssumption` (`NoJob` and `NoKey` are not jobs or keys, `KeyOf`
is a function, the bound is a natural number), `PipelineAssumption` (the bounds are
natural numbers), `DispatchAssumption` (`NonceOf` and `KeyOf` are functions;
the window is a natural number), `ActionsAssumption` (an action's request has neither nonce nor key),
`ControlAssumption` (bounds), `OrderAssumption` (a plan has finitely many operations, and
`Unknown` is none of them), `ApplyAssumption` and `OfflineAssumption` (bounds),
`CloneAssumption` (`NoClone` is no clone and "host" no target; bound), `LoopAssumption`
(both transports carry the same jobs, `NoJob` is none of them; bounds),
`DevicesAssumption` (there is a device; `Nobody` and `Foreign` are not handles; bounds),
`FreezeAssumption` (finitely many channels, which are threads different from the boot
thread and from the watchdogs; bounds).  No set of workers, jobs, keys, agent threads,
files, readers, handles, clones or targets need be finite.

**Executor.**  `ExecInv` strengthens the properties by where the state machine is at
each stage (needed for `TransitionsAccepted`), by "a worker has a job exactly inside
execute()" (types of `KeyOf[job[w]]`), and by the cache discipline: a key with a
saved result is cached, and a job past the idempotency check has a key that is not.
From it: `ExecTypeCorrect`, `NoTransitionRefused`, `KeyOncePerProcess`,
`GaugeNeverUnder`.  A second invariant counts what a worker has left behind.  With one
process it gives `OneProcessLeavesByTimeout` and `OneProcessKeepsResults`.  The
hypothesis is needed: two processes that a bare transport hands the same job at the
same time write the same result file, and the executor alone does not prevent that.
In the pipeline the queue does, and the two properties are proved there for any number
of workers.

**Pipeline.**  `PipelineRunsExecutor` shows that each step is a step of the executor
or leaves it alone, so the executor's results carry over.  `PipeInv` adds that a job
is in one place (unsubmitted, in the stream once, with one worker, or gone) and not
started before its worker reaches the handler.  Neither `AtMostOnce` nor the
refinement is inductive without it: a job both queued and held could be started
twice.  From it: `PipeTypeCorrect`, `JobRunsAtMostOnce` and
`PipelineImplementsDelivery`, for any number of workers, jobs, readers, crashes and
mishaps.

**Entries, statuses and results.**  `StatusInv` (`JobStatusProofs`) adds to `PipeInv`
what each place of a job means for the other records of it.  A verdict exists exactly
when `execute()` has returned (`VerdictInv`).  A job in hand is in the group's pending
list until its XACK, a started one without a verdict stays there, and the id map forgets
a job before its result is published (`PelInv`).  A result file says completed only for
a job that returned Ok (`FileInv`).  The result is in Redis before anyone can read
"completed" (`ResultInv`), and a request that has not yet asked for the live status has
none (`LiveInv`).  What a handler left behind belongs to a job that no other worker has
(`LeftOwned`).  None of the properties is inductive alone: a status is true because its
writer saw the verdict, and that verdict stays because the job is started once.  From
it: `PendingEntriesExact`, `PendingMapStaysBounded`, `StatusesAreTruthful`,
`CompletionIsFinal`, `PipelineLeavesByTimeout`, `PipelineKeepsResults`, for any number
of workers, jobs, requests, crashes and mishaps.

**Agent.**  `AgentInv` relates the nonce list to the history of accepted nonces: the
list is the end of that history, so whatever is not in it has a whole window behind it
(`NoncesKept`).  For `KeysHonoured` it says that a thread in `retrying` has a key whose
answer is still stored as long as it has not looked it up: other threads may replace that
answer, but only an expiry or a restart removes it, and both end the claim.

**Control plane.**  `ControlRunsAgent` shows that the composition takes only steps of
the agent, so `NoncesKept` and `KeysHonoured` carry over (`ControlKeepsCache`).
`ControlInv` says which approval each client in the guest works for, that the guest has
run an action only for such a client, and when an overlap of calls has been noted in
`broken`.  Without it a late answer could be any action's, and `VerdictIsTrue` is not
inductive.  From it: `VerdictsAreTrue`, `AcceptedStaysListed`.

**Freezes.**  `WatchInv` makes `NeverUnwatched` inductive.  A watchdog is a thread named
after its request, and a request that may still start one has that thread to itself, at
rest until it is started (`SlotsFit`): otherwise the watchdog of a cutover could take the place of the one an
active snapshot depends on.  A watchdog leaves its post only when the active id is not
its own or when it takes the active snapshot itself.  `CountsFit` bounds the freezes by
the requests, and with it the types.  From it: `SnapshotsAreWatched` and
`FreezeTypeCorrect`, for any number of channels and requests of all eight kinds, mishaps
and crashes.  `ActiveFreezeHolds` is not true of all of these: two prepares that overlap,
a cutover and a plain thaw break it (section 3).  `SnapshotFreezeHolds` proves it where
one channel asks for snapshots and plain freezes only.  Its invariant `HoldInv` says that
at most one thread is about to thaw, that it took the snapshot the freeze was for, and
that nobody then counts on the freeze (`ThawsFit`); that while prepare is under way
nothing is active; and that what it has frozen is still frozen, in the same epoch
(`PrepareFits`).  Old watchdogs, lost replies of the helper and deaths of the agent are
all included.

**Plans.**  `OrderInv` is the loop invariant of `topological_sort`: an in-degree counts
the dependencies not yet sorted, queue and result hold each operation once, and what is
queued has all its dependencies in the result.  An empty queue then means that the result
is closed under "all dependencies are in it", hence equal to the least such set
(`SortIsSound`), for every finite plan and every graph.  `ApplyInv` adds that a file
whose snapshot is complete is listed, which makes `UndoIsPossible` inductive.
`OutcomeInv` adds two things.  Operations still to come have no outcome, and under
fail_fast all that has passed went well (`FailureStopsPlan`).  A file that one operation
changes, and whose copy has a name of its own, is untouched before its turn; the copy is
the original from then on, whatever breaks off, and the file is listed once it may differ
(`RollbackRestores`).  Without the name a copy says nothing about a file, and without the
copy a listed file need not come back.  `OfflineInv` is the offline applicator's: whatever
backup there is, the original's is among them, except while the image goes back to a copy
that broke off or two backups shared a second (`OfflineKeepsOriginal`).

**Devices and handles.**  `HandleInv` (`HostDeviceProofs`) has a part about devices and a
part about handles.  A connect holds its lock from the list of free devices to the end
(`LockFits`), so no handle that locks the same file has attached to a device that is
still to be tried (`CandFits`); this is why the clean-up of a failed attempt cannot hit
it, and `ConnectSparesHandles` is not inductive without it.  While nothing disturbs the
devices, a connected handle's device carries its image (`OwnFits`), and without failures
every attachment is known to its handle (`KnownFits`).  The part about handles says in
which call a handle can be at each step of connect and disconnect (`JobFits`), what its
state says of its fields (`StateFits`), and what a mount needs as long as no umount has
failed (`CleanFits`).  From it: `ImagesAreOwn`, `ConnectIsHarmless`, `StatesTellDevices`,
`MountsKeepDevices`, for any handles, devices, failures and foreign programs, and for any
assignment of lock files: where a property needs one lock file for all, it says so.

**LVM clone.**  `CloneInv` ties each thing on the host to the clone that made it.  The
snapshot belongs to a clone between its creation and its removal, and a target from
its creation on (`SnapFits`, `TargetFits`).  A target that was copied is written by
nobody else (`CopyFits`).  A mount is left behind only by a clone that did not return Ok,
and a bind mount below it only after a failure of `run_in_chroot` (`RootFits`).  A mapping
means, except on FAT and NTFS, that the device carries the new UUID, and files are
rewritten only for a mapping (`FlagInv`).  All clones use the same
snapshot name, so without ownership the clean-up of one clone could remove the volume
of another, and none of the properties is inductive.  From it: `ClonesLeaveNoRest`,
`UpdatedFilesAreRight`, `HostIsSpared`, `SnapshotIsOwn`, for any number of clones,
targets, failures and deaths.

**Worker loop.**  `LoopInv` charges each run to a submission: over HTTP the runs, the job
in hand and the entries in the queue together never exceed the submissions
(`HttpRunsInv`), and a file that was run is in the loop still, was moved away for good or
is in `stayed` (`FileRunsInv`).  Watcher and scan may announce a file twice, so a bound on the runs is
not inductive alone.  From it: `RunsHaveReasons`, `StatusesTellPlaces`, and
`FilesAreOnTheirWay`, the safety half of `NoFileIsForgotten`.

Only model-checked: all liveness properties (fairness and ENABLED are out of the
prover's reach); `CircularIsExact`, a part of `SortIsRight`, and `WavesAreRight`
(recursive definitions, which would need induction over data).  `SortIsSound` is the
other part of `SortIsRight`, and `FilesAreOnTheirWay` the part of `NoFileIsForgotten`
that is not liveness.

## 5. What may follow

Models of the write-then-rename files (cloud cache, fleet baseline, binary cache), of the
polling worker of the API, and of LVM activation in a handle.

## 6. Not modelled

The modules cover a small share of the repository's lines, and most of the rest has
nothing for a state model to say: parsers of partition tables, registries and package
databases (pure functions of bytes); the several hundred guestfs operations that run
one external tool each; collectors, rules, reports, exporters and user interfaces;
Kubernetes and object-store clients; Python bindings; kernel probes.  Their state ends
with the call, and their content is the data a model abstracts from.

Left out of the parts that are modelled: contents of job results; what an operation
of a plan edits inside a file; signatures and the Windows installer of the updater;
activation of LVM groups; conversion between disk images and volumes; detection of
dependencies in a fleet; the polling worker and cached reports of the API; framing of
messages; real time (only the order of time-outs and events).
