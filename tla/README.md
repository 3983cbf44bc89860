# Ctrl-PI in TLA+

Ctrl-PI is a FastAPI process that runs a bench of robot arms: it teleoperates
and records episodes, deploys policies on a compute provider, lets a deployed
policy move an arm through a bounded control loop, and supervises training
jobs. One process, one asyncio event loop, a pool of threads, one worker
process per arm, a PostgreSQL store and a remote provider (Modal, or a stub).

This directory holds the formal models of that program, the configurations
that check them with TLC and the proofs TLAPS checks. Source references are
relative to `src/backend/src/ctrl_pi/`.

## 1. The system

| Part | State | Operations | Talks to |
|---|---|---|---|
| Deployment lifecycle (`deployments.py`, `compute.py`) | the rows `Deployment`/`InferenceEndpoint`, `_active_stops`, open transactions | deploy, stop, the compensations of a failed or cancelled deploy, cleanup stops | the store (row locks), the provider (in threads) |
| Provider adapters (`compute_*.py`, `modal_*.py`) | the provider's apps | deploy, inspect, list_owned, stop | the provider |
| Rig leases (`rig.py`) | the set of active tokens and their resources | acquire, release, owns, hold | everything that moves an arm |
| Motion release (`motion_safety.py`) | none | safe idle, else latch the fault, then give back or keep the lease | driver, leases |
| Teleoperation, sync (`recording.py`) | `_RecordingRuntime`: tasks, token, status | start and stop teleoperation, enable and disable sync, compensate, shut down | leases, driver |
| Recording, episodes (`recording.py`, `camera.py`) | the open and the finalizing episode, files, rows | start and stop an episode, finalize, abort | threads, ffmpeg, store |
| Robot inference loop (`robot_inference.py`) | queue, one call in flight, deadline, counters | start, run, stop, wait | leases, driver, transport |
| Runtime contract, transport (`inference_runtime.py`, `inference_transport.py`) | none of its own | validate a chunk, call the endpoint | the deployed policy |
| Inference sessions (`inference_sessions.py`) | `_LiveSession` per deployment and its tasks; the watchdog | start, stop, expire, supervise, start up, shut down | deployments, loop, recordings |
| YAM cell (`drivers/yam_cell.py`) | per arm: worker, bus lock, blocked, fault, idle timer | connect, disconnect, reset, apply_action, safe_idle, latch_fault, handle check | workers |
| Arm worker (`drivers/yam_i2rt_worker.py`) | supervisor, child process, three queues | start, enable, send, idle, shut down; heartbeat, watchdog, forced stop | the cell driver, the device (CAN) |
| Legacy pair (`drivers/real_yam.py`) | devices, sampling thread, two I/O locks | start up, shut down, replace, command, sample | devices in ctrl-pi's own process |
| YAM setup (`yam_setup.py`) | the saved configuration and the driver's | configure, connect, disconnect, reset, restore at boot | leases, driver, store |
| Managed training (`managed_training.py`, `training_compute*.py`) | `ManagedTrainingJob`, a supervisor task per job | create, cancel, launch, monitor, ingest, clean up, reattach | provider, store, Hub |
| Training workload (`modal_training_workload.py`) | LeRobot as a child, its pipe, a queue, checkpoints | run, report, upload checkpoints, verify, publish | the provider's log, the Hub |
| Trainer ingestion (`training_store.py`, `api/trainer.py`) | series on `TrainingRun` | append metrics, checkpoints, console lines; page the console | store |
| Dataset upload (`hf.py`) | reservations; the marker in the repository | convert, create, mark, send, verify | the Hub |
| Hub readers, SDK, settings, frontend | caches, views | requests | HTTP |

### What is hard

* **Interleaving.** Every handler is a coroutine and other coroutines run at
  each of its awaits. Jogs, setup, finalization and provider calls run in
  threads. The leases are the only thing all of them share.
* **Cancellation.** Starts, tasks and the watchdog are cancelled from outside
  and some of them shield, swallow or delay that.
* **Failure.** Storage, provider and driver calls fail after their effect as
  well as before it; the provider's listing omits things; a worker faults on
  its own.
* **Restart.** The process may end between any two steps; rows and apps remain.
* **Time.** Lifetimes, the loop's deadlines, the age of actions, the 125 ms idle
  timer against the 250 ms watchdog of a worker.

### What makes each part correct

* Deployments: a row says `stopped` only when nothing runs for it, what is being
  taken down is never taken for running again, an app always has a row some cleanup
  selects, a deploy's row is moved by nobody else until it has tried to say
  "running", cleanups converge.
* Leases and motion: an arm has one owner; it follows a stream only while the
  stream's owner holds its lease; it is given back idle or knowingly kept.
* The loop: it moves on a fresh observation and a young action, in order, never
  in bursts, never more than a chunk too full; it settles before it lets go.
* Sessions: what ends a session joins the arm before the provider; what a
  session reports, of its episode too, is true; a session that should end does.
* Recordings: an episode is finalized once, its files, its row and the Hub agree, and
  a shutdown closes what it finds at work.
* Training: one active job, one launch, one outcome, nothing left running; a run
  shows what happened or says that something is missing.
* Arms: while ctrl-pi lives a bus goes back only with its device off, and it has one
  owner; nothing is followed that is old, nor after an idle; an arm does not move
  beside a fault.
* Setup: what failed leaves record and driver alike; nothing connects by itself
  without consent or after a failure.
* Provider adapters: what they say of an App was so; only our Apps are stopped.

The hazards behind these are listed with their lines in `PROJECT.json`.

## 2. The modules

```
DeploymentLife  <=  Deployments        <-  MCDeployments, DeploymentsProofs
ArmOwnership    <=  ArmControl         <-  MCArmControl, ArmControlProofs
                       | extends
                    RigLease
                    RobotInference     <-  MCRobotInference, RobotInferenceProofs
                    InferenceSessions  <-  MCInferenceSessions
                    Recordings         <-  MCRecordings, ArmControlProofs
TrainingJob     <=  ManagedTraining    <-  MCManagedTraining, ManagedTrainingProofs
                    ModalTarget        <-  MCModalTarget, ModalTargetProofs
                    TrainingEvents     <-  MCTrainingEvents, ManagedTrainingProofs
                       | extends
                    ModalWorkload, TrainingStore
ArmBus          <=  I2RTWorker         <-  MCI2RTWorker, I2RTWorkerProofs
ArmBus          <=  YamCell            <-  MCYamCell, YamCellProofs    (for each arm)
                    LegacyPair         <-  MCLegacyPair, LegacyPairProofs
                    YamSetup           <-  MCYamSetup, LegacyPairProofs
```

`<=` is a refinement: TLC checks each of them on its run's instance, and TLAPS has
proved all of them for every instance. Three proof modules extend two components
that have nothing to do with each other, the arms' leases and the recordings, the legacy
pair and the setup, the jobs and their events; the second of each has names of its own
for what every specification has (`RecordingsSpec`, `SetupSpec`, `EventsSpec`).
The modules meet at narrow places, and each says what it takes from its neighbour:

* `InferenceSessions` sees `DeploymentService.stop` as a call that is refused or
  runs to an end (what it does is `Deployments`), the loop as something that
  opens, runs and ends (`RobotInference`), and not the arm (`ArmControl`).
* `ManagedTraining` sees a launch as requests that may still arrive, and listings
  (`ModalTarget`), and not the events (`TrainingEvents`).
* `TrainingEvents` composes three parts: the workload (`ModalWorkload`), the row
  (`TrainingStore`) and the monitor between them.
* `I2RTWorker` and `YamCell` both implement `ArmBus`: the first with one arm and
  every step of its worker, the second with the cell and a worker of which it knows
  no more than `ArmBus` does. `ArmControl` has of a driver the stream, the latch
  and the idle; `YamSetup` has it as outcomes of its calls.

A step of a model is the code between two awaits of one coroutine, or between
two points at which a thread can be overtaken. In `PROJECT.json`, `map` names
the lines behind each definition. Operators marked as mutants are plausible
bugs: put in place of the definition below them, they make TLC refute the
property they are listed with.

### Deployments

| Model | Code |
|---|---|
| `row` | `Deployment.status`; the endpoint's status is always written with it |
| `ended` | `stopped_at` is set: the watchdog and the sweeps select no such row |
| `appId`, `held` | `provider_app_id` persisted; the handle `_deploy` has in a local |
| `app` | what the provider runs: absent, running, draining, stopped |
| `op` | where `_deploy` is: creating, persist, health, inspect, confirm, and on failure recover, compensate, markFailed, or "retract" where nothing can be written any more |
| `stopPc` | where `_stop` is, for the slot of `_active_stops` and for the undo of a cancelled deploy |
| `rowLock`, `frozen` | who holds the row `FOR UPDATE`; a second locker waits on the event loop's own thread |
| `closing`, `old`, `restarts` | the lifespan's shutdown; rows created before this process |

`DeployStep` and `StopStep` are `_deploy` and `_stop`. `ClientStop`,
`WatchdogStop`, `StartupSweep`, `ShutdownSweep` are the four that ask for a
stop. `Restart` ends the process at any point: what the coroutines hold is
gone, a creation in flight has happened or has not. A fault (storage, provider,
timeout) costs one unit of `MaxFaults`. A commit that fails has been applied or
not, and the read that follows a commit (`deployments.py:346`) may fail after the
row says "running": `_deploy` then takes its app back while a client's stop or the
watchdog may move the row.

`DeploymentLife` is what the service promises of one deployment: created,
perhaps run, perhaps failed, torn down before it is called stopped, then
nothing more.

Met while modelling:

* The first commit of a deploy, if it fails and was applied all the same, leaves a row
  "deploying" that no stop accepts and no sweep of this process selects: the next
  start's sweep takes it up.
* A `_stop` that fails late writes "failed" from what its session read, also over the
  "stopped" another has written meanwhile (`StopMarkFailed`). Nothing runs then, but its
  `stopped_at` keeps the watchdog and the sweeps from the row
  (`inference_sessions.py:727`, `:824`), so it says "failed" until a client stops it.
  `StaysDown` has both among the ends, and `CleanupConverges` asks for the teardown on
  record, `ended`.

Taken as given: the server drains open requests before the shutdown part of
the lifespan begins; `list_owned` omits a live app at most at the first of the
two looks of `_confirm_owned_absence`; both clocks agree; a thread that calls
`target.stop` runs to its end. `reconcile_startup` and `_reconcile_one` are
left out: `main.py` never calls them.

### RigLease, ArmControl, ArmOwnership

`RigLease` has the lease table (`leases`, a set of tokens with owner and
resources; the wildcard is a resource of its own), per arm the stream it
follows, and `ReleaseMotion`: safe idle, else the latch, and the lease comes
back only if one of them was confirmed. `ArmControl` has the modes that use it:

| Model | Code |
|---|---|
| `StartTeleop`, `EnableSync`, `TeleopStep`, `SyncStep` | `RecordingManager.start_teleop`, `enable_sync`, the bodies of the two tasks |
| `TeleopFails`, `SyncFails` | their `except` branches |
| `StopTeleop`, `Compensate`, `Shutdown`, `CloseEnds` | the three ways to close, and their second half after joining the tasks |
| `DisableSync`, `DisableSyncEnds` | `disable_sync`, around its await |
| `LoopStart` .. `LoopReleases` | the lease of a `RobotInferenceLoop` from `start` to the end of `_run` |
| `JogStart`, `SetupStart` and their ends | a jog, an operation of `YAMSetupManager`: in threads, under `RigLease.hold` |
| `IdleTimer`, `DriverFaults` | the parent's 125 ms timer, a worker's own fault |

No section under `RecordingManager._lock` contains an await, so it is never
found locked. Stop, compensation and shutdown cancel the sync task first and
the teleoperation task is alive ("detached") meanwhile: it may still fail, and
release, on its own. A teleoperation is not started anew while its old task is
detached; the API's own state forbids that. Tokens are `uuid4`; in the model a
nonce is taken again only when nobody refers to it any more. Episodes do not
occur here.

`ArmOwnership` is one arm: free or owned, commanded by its owner only, and
given up quietly or revoked by the driver's latch.

### RobotInference

The event loop turns in `_run` at four awaits: the observer, the wait for the
deadline or the answer, the settling of the call in flight and the closing of
the transport. `Arrives` and `Cycle` are the body between them, `Pop`, `Apply`
and `Observe` the motion, `Request` the rest of a cycle. The answer of the
transport comes at any time after the request (`Answer`), and is a chunk that
keeps to the contract of `validate_action_chunk` or a failure. Time is in
integer ticks which pass between any two steps. Actions are their observation,
chunk and index: positions, mappings and metrics are abstracted.

### InferenceSessions

The session of one deployment. `start`, `cancel`, `stopper`, `sup`, `exp` and
`watchdog` are the progress of the tasks and requests that share it; `row` and
`svc` stand for `DeploymentService.stop`. Some facts of the code that the steps
rest on: the manager's lock never spans an await; `start` runs from its checks
to its first question to the runtime without one; so does a stop's refusal;
`start_inference_episode` never suspends; a stop survives cancellation of its
caller (`_run_to_terminal`). The answer of the runtime takes longer than one
turn of the event loop. `episode` is what the recording manager does for the
session: it may run beside the loop, be finalized, fail or be thrown away, and
`rec` is what the session says of it. Left out: a manager without a store, a refused
target kind, a storage failure at a stop's first look at the row, the health cache.

Met while modelling: a session whose recording row could not be made has no
recording, and its stop passes over the recording (`inference_sessions.py:1077`). If a
watchdog pass then cuts off the clean-up of its start, a later stop reports it
"stopped" with the recording still "starting". `ReportsAreTrue` asks for an ended
recording of the sessions that have one.

### ManagedTraining

A job's row (`job`), its App and call at the provider (`app`, `verdict`), what
of its launch may still reach the provider (`flight`), and the task under its
key in `_tasks` (`sup`, or `orphan` for a cleanup that is not its own). `recon`
and `known` are a pass of the reconciliation, which runs beside the requests
once the first is over; `sd` is the shutdown, which waits for tasks and cancels
none. `Restart` is a crash at any point or the start after a shutdown.

What the steps rest on: nothing awaits between the recorded preparation, the
launch mark and the launch; Modal's listing never names a call, so what is
found by listing is either stopped or left until the deadline; the target
undoes what it began when a later request of a launch fails. Assumptions on
the provider: a listing misses a live App on the first of two looks at most; a
request whose client has gone arrives before the deadline or never. A failed
read, choice or poll may happen in the task that launched the job, which goes
on to its failure path, or in a resumed one, which ends and is rescheduled; the
model allows both. Late listings are in: a pass may compare a listing with
`active_ids` it read before. Left out: the path a forced exit takes
(`_settle_interrupted_supervisor`), target kinds that are unavailable. Events are in
`TrainingEvents`.

`TrainingJob` is the promise: one job open at a time, one outcome, one start of
compute, and no closing while compute runs or may still start.

### Recordings

| Model | Code |
|---|---|
| `row` | status, `episode_count`, the episodes and the upload in the metadata of the `Recording` row |
| `dir` | an episode's directory: absent, open (being written), renamed (complete, no manifest), kept (with its manifest) |
| `rt` | `_RecordingRuntime`: teleoperation, the open episode, the finalizing one and whether its thread is unsettled, count, status, `last_error` |
| `dropping` | episodes an abort has taken and not removed yet |
| `taken` | the episodes a shutdown found recorded or in finalization |
| `busy`, `reserved` | `_filesystem_busy`, `HFDatasetUploader._active` |
| `req` | the requests under way and the copy of the row each works on |
| `hub` | episodes in a verified revision |
| `repo` | the repository an upload is for: absent, bare (ours, without a marker), vacant (another's, empty), ours by its marker, theirs |
| `adrift` | history: episodes published whose commit, or process, then failed, and those removed because their manifest could not be read |

`Arrive`, `Scan` and `Merge` are `_reconcile_episode_manifests`, the beginning
of every request; `Serves` and `Handles` are the handlers up to their first
await that suspends. `Renames` to `FailsRow` are a stop of an episode,
`Converts` to `CleanEnds` an upload (conversion, the look at the repository, its
creation, its marker, the transfer, the clean-up), `Drops` an abort, `Restart` a crash or
the start after a shutdown with `reconcile_recordings_startup`.

The session does not expire on commit, so a request writes what it read on
arrival, column by column, over what others committed meanwhile (`Stored`). The
manager's lock spans no await. A commit that fails has been applied or not.

Assumed: one client changes a recording at a time and pages poll its state
(`Pollers`; `useRecordings.ts` asks every 500 ms). With two or three clients at once
stale copies overwrite each other, and `RowMatchesFiles` and `KeptUntilUploaded` fail in
this model. Both are theorems under that assumption (`OneOperator`), with any number of
pages that poll; `ShutdownClosesItsOwn` needs no such assumption. Requests may be under
way when the shutdown begins, which the server avoids and the manager's tests
do not.

Met while modelling, and excluded or left unstated by the properties:

* A stop whose commit failed leaves the episode in staging "recovered from staging"
  later (`api/recordings.py:753`). If the upload arrives while a poll is scanning,
  it does without a scan, converts the list without the episode and then removes
  all of the staging. `docs/datasets.md:86` says every finalized episode is
  converted. `adrift` exempts such episodes.
* Whoever looks at a directory takes a manifest that cannot be read for none
  (`recording.py:176`): a scan, an abort that comes late, a shutdown and a start remove
  a finalized episode that was never uploaded (`recording.py:1543`, `1687`, `1737`), were
  it for one read that failed. The row goes on listing it, and an upload fails from
  then on. The models lose files that way, at the cost of a fault; `adrift` exempts them.
* A shutdown does not wait for an abort that a failed teleoperation or a compensation
  has already taken, nor for a finalization whose stop has failed: it may return with
  that episode still open (`recording.py:1151`), though `docs/recording.md:110` says that
  graceful shutdown removes an active episode. `ShutdownClosesItsOwn` is about
  what the runtime still named when the shutdown began.
* `GET .../state` writes the runtime's status into the row
  (`api/recordings.py:581`), so a runtime that remembers an error turns
  `uploaded` into `failed`.
* An abort of an episode that ends late removes the directory of a new one that
  took the same index.
* A poll during an upload copies "uploading" into a runtime whose teleoperation is
  still closing; if that release fails, the runtime keeps the status and each poll
  writes it over the row's. A poll with such a copy then marks the upload as
  interrupted, and over a newer attempt's target: the repository is made and not
  remembered. It takes two faults; the last conjunct of `RowMatchesFiles` is stated
  for one.
* A marker that was downloaded and cannot be read locally counts as another's
  (`hf.py:708`) and takes the target off the row: not modelled, a marker is read or
  the attempt fails.
* A recording that has a target marks an empty repository as its own whoever made
  it (`docs/recording.md:169`). Others fill none that is bare in the model.

Left out: directories from before manifests, samples and frames. Episodes recorded
during inference are in `InferenceSessions`.

### I2RTWorker, YamCell, ArmBus

`ArmBus` is one arm on its bus: free, owned or blocked, its device off, idle,
holding a position, or in no known state. A bus goes back with the device off,
else it is blocked. When ctrl-pi dies the kernel frees its `flock`s, which the child,
spawned, does not share: the bus is abandoned with the device as it is (`Abandon`), and
all that is promised then is that the orphan still switches it in order and, under
fairness, ends.

| `I2RTWorker` | Code |
|---|---|
| `parent`, `op` | the supervisor (`I2RTArmWorker`): phase, readiness, fault, last heartbeat, what its shutdown has as evidence; the operation of the cell driver that holds its lock |
| `child` | `i2rt_arm_worker_main`: where its loop is, the device, `accepting_commands`, the age of the command it follows, the time since it took it |
| `control`, `mailbox`, `status` | the queues: control requests, the latest command only, the bounded status |
| `bus`, `latched`, `timer` | the cell driver's share: lease, fault, idle timer |
| `quiet` | history: an idle has been confirmed, no enable since |

The status queue drops its oldest message when it is full (`_put_latest`), a reply
may come after its caller gave up, and the vendor's call may lag, fail or kill the
child. The monitor thread, the timer and the process's own death run beside the
driver's operations. Ages are in ticks of which `MaxAge` make the 250 ms.

`YamCell` is the driver over all arms: `op` goes from arm to arm under the driver's
lock (connect, its roll-back, disconnect, reset, latch), workers fail and adapters
are moved between any two steps, and the check of a teaching handle samples outside
the lock. `leases` are the `flock`s, `runtime` is `_runtimes`, `faults` and `pairFaults`
are `_faults` and `_pair_faults`. `Ids` are the arms as their logical ids are sorted,
which is the order the loops of the driver go in: `Turn` is the arm an operation is at.

Met while modelling:

* A worker that cannot be spawned has `process is None`, which its shutdown takes for
  not clean: the bus is blocked until a restart.
* A target issued just under 250 ms before it is taken may be followed for another
  250 ms. `HoldIsWatched` states that bound.
* `enable_commands` sets its flag after the reply though the monitor may have latched
  a fault meanwhile; `send_command` looks at the fault itself.
* A crash of ctrl-pi frees the `flock` while the child may still have the device on: a
  ctrl-pi that starts at once may open the arm beside the orphan. `ImplementsArmBus`
  excepts it (`ParentDies`, "abandoned"); `GivenUpEnds` says the orphan ends.

### LegacyPair

The driver of one leader and one follower in ctrl-pi's own process. `life` is the
lifecycle operation, of which `YamSetupManager` admits one, `sampler` the thread,
`writer` a command; `lock` are the two I/O locks, taken in turn, and `device` each
pair of devices that was ever made. `shutdown` waits two seconds for the thread: in
the model it goes on at any time, and whoever comes last closes. A vendor's close that
raises is logged and its device let go of (`real_yam.py:1360`): it is "stuck", may
be open beside the next pair, and nobody tries again. So the properties promise that
each device's close is tried, and under the locks, not that it succeeds. `latch_fault` is
left out: `safe_idle` of this driver never fails (it is `YAMDriver`'s), so that a
release of motion never comes to it.

### YamSetup

An operation of `YAMSetupManager` that a request makes holds the lock from end to end,
so it is one action, whose roll-back and its failures are choices of outcome. A pass of
the monitor is three: what it does under the lock, and then, if that raised, a handler
that runs with the lock and the lease given back, which shuts the driver down
(`HandlerShuts`) and says so (`HandlerSays`). A request may come between: its arms are
shut down, or what it said is overwritten. That a handler comes in the middle of a request,
between two of its calls of the driver, is left out. `store` are the
two rows and their consent, `rig` the driver's configuration, the arms that are live
or stuck, and what was found without opening anything; `request` is a connect that
has read the record and waits.

Met while modelling: `_restore_missing_once` (`yam_setup.py:790`) looks at the consent on
record and starts the driver as it is, without applying the saved configuration. The two
differ after a legacy setup was saved beside a cell's row, or a save or a connect failed
half-way: consent for the one then connects the other, against `yam_setup.py:662` and
`docs/yam-setup.md:143`, and `NoBlindRetry` says so. A connect that waited
uses what it read on arrival (`yam_setup.py:527`), which is why `FailureRollsBack`
allows `request`; an exception of the driver's shutdown in a pass of the monitor
ends the monitor, and the manager's shutdown then raises before it shuts the driver
down. A commit that fails never counts as applied here. With nothing on record the driver has what the
environment configures (`Env`), and that is what a roll-back to nothing leaves:
`FailureRollsBack` says so.

### ModalWorkload, TrainingStore, TrainingEvents

`ModalWorkload` is the worker on the provider: LeRobot's steps and checkpoints, the
pipe with its reader thread and its bounded queue, the loop that turns lines into
events, the uploads of checkpoints, the last check and the publication. A checkpoint
directory is unwritten, half written or whole. `TrainingStore` is the row and its
operations, as operators. `TrainingEvents` is the rest: `page` is what the monitor
has read of the log (`Tails`), asked of the call and taken in event by event, with a
commit at the end; a crash drops it. The provider shows any part of the log. An
external trainer sends its reports in order, each again until it is answered; the
copies under way (`wire`) arrive whenever they like. `record` is what the job's row
remembers of the log (cursor, gap, outcome, output). `reader` pages the console.

`Inserted` and `LinesAfter` of `TrainingStore` say with a minimum what the code does
with a sort and a search. The proofs show them to be that: a row stays in the order of
its steps, with one point of a step (`InsertedInOrder`, `MetricAppended`,
`CheckpointAppended`), and a page is the lines after the cursor (`PageAfterIs`).

Met while modelling:

* What a call printed and nobody read when it fails or is cancelled is not told as a
  gap; `LossIsTold` is about jobs that succeeded.
* A late copy of a `PATCH` may set a status back, and a late copy of an older
  checkpoint moves `checkpoint_revision` back. A point that was corrected by a later
  report of its step may come back with a late copy of the earlier one:
  `ReportsSurviveRetries` promises a point of the step, and that it was reported.
* A line of the console that looks like the tracker's is taken for a metric.
* Console lines the store refuses become a line that says so; one supervisor is
  assumed.

### ModalTarget

Both adapters of the provider, with the identity of one App: the launch with its
requests and their undoing, and listing, inspecting, stopping and cancelling, by
one thread that launches and others that do not. `task` is what a thread has
seen so far; the provider moves between any two requests, its list and its names are
late, a request may fail after its effect. `theirs` is an App of another owner that
may bear our name. The call of a launch is made by name, on whichever App Modal has
under it by then (`callee`), and what keeps a cancellation off another App is the
question whose call it is, on the way to the handle and before the cancellation. A deploy
arrives only where theirs is not up (`Lands`): one onto a live App of the name, which Modal
makes another version of it, is not modelled. Left out: names that do not match, endpoint URLs, the states
"unknown" and "failed". Met: an App that was deployed and cannot be found
when the launch looks for it is left without an undo (`FailedLaunchIsUndone` is about
those that were verified).

## 3. The runs

| Run | Bounds | States | Shows |
|---|---|---|---|
| `deployments` | 1 deployment, 4 faults, 2 restarts | 15 thousand | no app without a row, `DeploymentLife` implemented; a running, failed or interrupted deployment is torn down in the end |
| `arm_control` | 2 recordings of one pair, 1 loop on the follower, jogs, setup of the cell and of an arm, 1 nonce | 45 thousand | streams under a lease, arms handed over quiet, `ArmOwnership` implemented; a lease nothing runs under comes back or is known to be kept |
| `robot_inference` | chunks of up to 4, queue of 5, age 3, interval 2, 3 steps, 8 ticks | 148 thousand | freshness, room, settling; a requested stop ends the loop |
| `sessions` | none: the whole space | 23 thousand | ordered teardown, truthful reports; an expired or ended session's deployment is stopped in the end |
| `recordings` | 2 episodes, an operator and a poller, 2 faults, 1 restart | 4.3 million | row, files and Hub agree; a finalized episode's files stay until they are on the Hub, unless their manifest cannot be read; a shutdown closes what it found at work |
| `training` | 2 jobs, 3 troubles (failures and restarts) | 1.0 million | `TrainingJob` implemented, also through late listings; verified success; a shutdown keeps healthy jobs; a job ends |
| `training_events` | 2 steps, each logged and saved, a queue of 1, 8 events, pages of 3, a console of 2 lines; 7 reports (one corrects another), each sent twice | 6.6 million | what a succeeded run shows is all, or it says that it is not; its output is whole and last; reports survive being repeated and late |
| `i2rt_worker` | an age limit of 1 tick, queues of 2 | 1.1 million | `ArmBus` implemented, death of ctrl-pi included; an idle holds; a held device is watched and given up in the end |
| `yam_cell` | a pair and a single arm, 3 interfaces, 2 adapters that move | 2.1 million | one owner per bus, `ArmBus` implemented, no motion beside a fault, a failed connect undone |
| `legacy_pair` | 2 configurations, 2 pairs of devices | 178 thousand | a command reaches an open arm of this configuration, none is forgotten, both are closed in the end, or their close has raised |
| `yam_setup` | a legacy pair, two cells that share an arm | 128 thousand | a failure rolls back or shows; nothing connects without consent or after a failure |
| `modal_target` | 1 launching thread, 1 other, 2 faults | 2.2 million | answers are true, only our App is stopped, a failed launch is undone |

Why the bounds are enough. Deployments meet in nothing but the two
flags `closing` and `frozen`, which one deployment raises for itself as well;
two faults are the failure of a step and of its compensation, the others and the
restarts let the same happen to the retry. Two
recordings and a loop on one follower give every pair of kinds of owners that
can meet on an arm. With one nonce a late release of an old token would return
the next lease of the same recording, which the real nonces prevent: the
properties hold even so. Five cycles of the
loop let two chunks meet in the queue with one answer late, and half a chunk
is more than the room left, so the watermark matters. The proofs remove the
bounds for the safety properties. Jobs of managed training follow each other,
so two show what one leaves for the next; three troubles let a step, the record
of its failure and the retry fail, or a pass of the reconciliation, a task and the
process. A job that is over gives one back. Two
episodes let an index be free, taken again or skipped, and one request besides
the operator's is enough for a scan, and a stale copy, under each of his steps.
Two steps that the tracker shows alike, and a queue of one, let a line be lost
between two that look the same; a page of three events and a console of two lines
are full and over before a run ends (a queue so short never refuses an event the code
calls essential; the theorems cover that case). A queue of two is full with one message nobody
has read and one more; a tick of age is enough for fresh, due and too old. Three
arms are a pair and one that is in none; two adapters can change places. Two
pairs of devices: one that a late thread still holds, or whose close raised, and the one
that replaced it. Two faults at the provider are one in the launch and one in its undoing.

Deadlock is checked where a state without a successor would be a wait that nobody
ends: in the two drivers of whole rigs (`yam_cell`, `legacy_pair`), the setup and the
provider's adapters. The other systems rightly stop (everything stopped, the process
ended, an arm blocked until a restart, the end of the bounded time).

### Fairness

* Deployments: weak fairness of every coroutine that is under way, of restarts'
  sweeps and of the watchdog; strong fairness of the startup sweep's stop, which
  rules out a client who is inside a stop of his own at every single pass. The
  fault budget ends faults.
* ArmControl: weak fairness of what is already under way (closing, releasing,
  jogs and setup operations, which are bounded); no start, command or failure is
  ever forced.
* RobotInference: weak fairness of the loop's own coroutine and of the answer,
  since transports have timeouts.
* InferenceSessions: weak fairness of the tasks, of the loop's end once it has
  been told, of the watchdog's passes; a teardown tried again and again succeeds
  (strong fairness, as the provider is not broken for ever). Nobody's request is
  forced.
* ManagedTraining: weak fairness of tasks, passes and the shutdown, of the
  provider doing what it accepted, and of deadlines.
* I2RTWorker: weak fairness of the supervisor's threads, of time, of a kill and of a
  child that catches up after a lag; strong fairness of the child's loop, which a lag
  may hold up again and again but not for ever. Commands and failures are not forced.
* LegacyPair: weak fairness of the three threads: what they call in the vendor's
  code returns.

The other runs check safety only, and state no fairness.

## 4. What the properties leave out

Schedules of the code in which it does not do what its documents say, met while
modelling. The models have these schedules; the properties are stated for the rest
and say so.

* **A row lock kept over awaits freezes the process** (`deployments.py:1115`). `_stop` takes `SELECT ... FOR UPDATE` and, if it refuses
  the row, finds it stopped or already stopping, goes on without a commit. The
  next synchronous locker of that row waits on the event loop's thread, where the
  first can never commit. The tests use SQLite, which has no such lock.
  `CleanupConverges` excepts `frozen`.
* **A start passes a stop that has not reached the row**
  (`inference_sessions.py:1018`; `docs/inference.md:11`). A client's stop that
  found no session tears the provider down under the loop that started meanwhile.
  `OrderedTeardown` is about all the other stops.
* **A session stays `stopping`** (`inference_sessions.py:930`). A watchdog pass cancels the cleanup of a start that had
  failed on its own. `Backstop` is about the deployment, not the session's status.
* **A shutdown waits for ever** (`inference_sessions.py:1410`). `_settle_task` swallows the cancellation of the
  watchdog. `Backstop` ends with the shutdown's beginning.
* **A job loses its supervisor to an orphan cleanup** (`managed_training.py:272`). A retried reconciliation compares a listing with
  ids read before it; a job newer than those, caught while its task waits to be
  rescheduled, is stopped as an orphan and nobody takes it up again. `JobEnds`
  excepts it; the other properties hold with it.
* The ones named with `Recordings`, `YamSetup`, `TrainingEvents` and `ModalTarget`
  above.

## 5. The proofs

All for any values of the constants under the assumptions the modules name, and for
any number of faults, restarts, failing requests and threads, which the runs bound.
Each component has an inductive invariant (`IInv`; of the second component of a module
`EpisodesInv` and `FilesInv`, `SetupInv`, `EventsInv`), proved to hold at first and to be
kept by every action; the other theorems follow from it. TLC has checked each of them on
the instance of the component's run before it was proved. What some theorems state is in
no run of its own, because the runs check refinements that imply it, or because it is
a step towards another: `StaysDown`, `StoppedIsTornDown`, `DeployOwnsItsRow`,
`OneOwnerPerArm`, `NoLeaseForgotten`, `QueueInOrder`, `NoBursts`, `DropsWholeChunks`,
the type invariants, and two action properties of `LegacyPairProofs`.

* **DeploymentsProofs**: `TypeOK`; `StoppedIsTornDown`, `DeployOwnsItsRow`,
  `NoOrphanApp`, `StaysDown`, and that `DeploymentLife` is implemented. The
  invariants are not inductive by themselves: the strengthening says for each
  position of the two coroutines what the row, the handle and the app are there. A
  deploy owns its row until it has tried to commit "running"; what comes after a commit
  that failed has to do with any row, and needs that the app is taken back whatever
  the row says. `NoOrphanApp` also needs that a row with a `stopped_at`
  is of an app that is down (`EndedSound`): it is then no loss that no sweep selects it.
* **ArmControlProofs**: `OneOwnerPerArm`, `StreamIsOwned`, `HandsOffStreams`,
  `NoLeaseForgotten`, and that each arm implements `ArmOwnership`. `IInv` adds who
  may follow a stream at which stage of its mode (`StreamsInPlace`), which token
  each mode holds then (`TeleopHolds`, `OthersHold`), that a token is active for
  whoever believes so (`TokenKnown`) and that none is lost (`Accounted`).
  The one assumption on leases is that resources conflict when they meet.
* **ArmControlProofs, of Recordings**: `ShutdownClosesItsOwn`, for any number of
  requests. A directory that is open belongs to someone who will see to it: the
  runtime's open or finalizing episode, a finalization that has yet to rename it or
  failed to, an abort (`OpenIsKnown`); nobody opens another once the shutdown has begun
  (`NoneRecorded`), and what the shutdown took over is closed when it returns
  (`TakenIsClosed`).
* **ArmControlProofs, of Recordings with one operator** (`OneOperator`: of the requests that
  are not a page's poll there is one at a time): `RowMatchesFiles` and `KeptUntilUploaded`,
  for any number of pages, episodes, faults and restarts. Neither is near inductive: a
  request writes the row from a copy it took before it waited, so the row is right only
  if every copy that may still be written is (`CopiesSound`), if nobody scans past an
  episode that is being finalized (`ScanSound`, `MergeSound`, `KeptSound`), and if an upload
  that is under way has its reservation and the only mutable turn (`PlacesSound`,
  `StatusSound`, `TurnsSound`). Files go after an upload because whoever says "uploaded",
  the row, the runtime or a copy, is right (`UploadedSound`). An unreadable manifest takes
  files from under all of this: what a copy lists is then kept or adrift (`Loses`,
  `Elsewhere`). `ListSound` and `TargetSound`
  then say what `RowMatchesFiles` says, of every stage of an upload. A handler changes row,
  runtime and requests several times between two awaits, so these are conditions of
  three values (`Fit`), kept by each part of a handler, not of the three variables.
  That a finalization finds its files until something fails is `Untouched`. Pages do
  not count as clients because a poll writes only statuses and what a scan found.
* **RobotInferenceProofs**: `TypeOK`, every safety and action property of the run,
  and `QueueInOrder`, `NoBursts`, `DropsWholeChunks`.
  `IInv` = one call in flight, asked for when there was room for its chunk
  (`CallInFlight`), later than all that is queued (`QueueSound`, `HeadSound`),
  no step past a stop or the limit (`StopsInTime`). `ContractSuffices` needs that
  the watermark leaves room for a chunk, which is all the proof uses of it.
  `NoBursts` has an invariant of its own about the deadline and a lemma on the
  division.
* **ManagedTrainingProofs**: `RowIsTrue`, `ShutdownKeepsJobs`, and that `TrainingJob` is
  implemented, for any number of jobs. `IInv` is one condition per job (`Sound`): what
  its row says, what its supervisor knows at each of its stages, and about the App.
  The last is what the refinement rests on: whoever can stop or poll an App has its
  handle from an App that was there (`Handle`), and a launch that may still arrive
  belongs to a job that is open and, past the deadline, to its own supervisor; without
  it a job could be closed and then started. A step concerns one job (`Local`) and is
  one of the six steps of `TrainingJob` or none (`Promised`).
* **ManagedTrainingProofs, of TrainingEvents**: `LossIsTold`, `OutputIsWhole`,
  `ReportsSurviveRetries`, for any sizes of the pipe, the pages and the console, any
  rounding of what the tracker prints and any reports. What a run shows depends on
  every place a line can be lost, so `EventsInv` follows it through all of them:
  the steps whose lines are in the pipe or the queue are those LeRobot logged and the
  worker has not seen, unless one was dropped (`PipeInv`, `LinesTold`); what was dropped
  or not saved becomes the truncation the end reports (`UploadsTold`, `MetricsTold`,
  `LastTurnInv`); the run shows every event before the cursor or a gap is on record
  (`CursorInv`). The output: a directory that is uploaded is whole and stays so
  (`DirsInv`, `HubInv`), and the revision on the job's row is the one with the last step
  (`OutputInv`). The reports: what was answered is shown (`AnsweredInv`), what a reader
  was not given it was told of (`ReaderInv`).
* **ModalTargetProofs**: `AnswersAreTrue`, `OnlyOursIsStopped`, `FailedLaunchIsUndone`.
  An operation concludes from answers of different moments, so `IInv` says of each
  answer what it still bounds: an App seen down is down (`SeenSound`), one that was
  listed or named can still be found unless it is down (`Findable`, `Sighted`), a
  cancellation is sent only for a call that was found to be our App's, and
  before its call is made no task of a training App runs (`Uncalled`), which is why the
  undoing of a launch is never refused while the App is up. The provider's own steps
  and every other thread's keep all of that (`Drifts`, `Stable`), so an action is
  proved for the thread that takes it alone (`Moves`). `Uncalled` is not kept by the
  launch that makes the call (`Waits`, `Restrained`).
* **I2RTWorkerProofs**: `IdleHolds`, `HoldIsWatched`, and that one arm implements
  `ArmBus`, for any age limit and any sizes of the queues. A confirmed idle holds because
  commands are `Settled`: not enabled, not about to be, and not by a request still in a
  queue. `IdleAsked` orders a request to idle after every request to enable that is
  on its way, `WordsSound` makes what the child said of its end true, also when
  the message is read late or dropped. Two facts about bounded queues (`_put_latest`,
  a fresh id) are lemmas of their own; the second is a pigeonhole argument.
* **YamCellProofs**: `OneOwnerPerBus`, `MovesBesideNoFault`, `FailedConnectUndone`, and that
  each arm implements `ArmBus`, for any cells, interfaces and pairs of which an
  arm is in one at most (`PairOf`). `LeasesSound` adds to the one owner who holds a lock
  for what, and that a device which may be on has a worker's; `OpSound` what an
  operation has still to do and whom it has started, which is what its roll-back
  stops; `FaultsSound` that the pair of a faulted arm is marked.
* **LegacyPairProofs**: `CommandReachesOpenArm`, `NoneForgotten`, and, stated there, that
  nobody closes a follower between the checks of a command and its end and that
  a configuration changes only with no thread alive and every device's close tried. `IInv` ties each
  lock to the places of its holder (`LocksHeld`), the open devices to the driver's
  present pair (`OnePair`), and says which thread may be where beside which
  (`ThreadSound`, `DevicesSound`, `WriterSound`).
* **LegacyPairProofs, of YamSetup**: `FailureRollsBack`, `NoBlindRetry`, for any
  configurations, however they share arms, and any environment. `SetupInv` says that
  only arms of the driver's configuration are live (`Placed`), that a failed
  attempt is remembered by the manager until a request succeeds (`Remembered`), also
  while a handler of the monitor is still to come. Each function of
  the driver has a lemma on all its outcomes.

Only model-checked:

* liveness: it needs fairness and ENABLED, which are beyond this prover;
* `InferenceSessions`, which has no constants: its run visits every state it has, so a
  proof would say nothing more.

No module with a theorem reaches a RECURSIVE operator, and none of the others declares
one, so that all can be proved about.

## 6. The plan

Modelled: every part of section 1 that has a protocol of its own. What is left, in
this order:

1. Abstract specifications: an episode (open, finalizing, kept or aborted, once) for
   `Recordings`, a session for `InferenceSessions`, each arm of `ArmControl`'s driver as
   `ArmBus`.
2. The path of a forced exit in `ManagedTraining`; directories from before manifests.
3. The contract of `validate_action_chunk` and the mapping of `inference_runtime.py`, as
   operators against a reference definition.

Not modelled, and not planned: views, the SDK (its repeated reports are in
`TrainingEvents`), seed and smoke programs, the readers of datasets, episodes and models
on the Hub, migrations, CAN frames and calibration: input and output with next to no
state that two actors share.
