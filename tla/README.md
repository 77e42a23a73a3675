# Neu Box: a verification project

TLA+ specifications of the Neu Box Worker, the TLC runs that check them on small
instances, and TLAPS proofs of what matters most. Paths are relative to the
repository. `PROJECT.json` says which lines each definition translates.

## The system

| Part | Code | State | Operations |
|---|---|---|---|
| Task queue | `src/neu_box/worker/executor/command.py` | `_pending`, `_running` under one lock; the rows of `tasks` | `POST /tasks`, `DELETE /tasks`, the consumer thread, one executor thread per admitted task, recovery at start |
| SQLite layer | `executor/db.py` | tables `tasks`, `sandboxes`; every call is its own transaction | insert, update, delete, prune |
| Sandbox manager, Reaper | `executor/sbx_manager.py` | records of sandboxes and their devices, one re-entrant lock | allocate, create, join, destroy, `cleanup_orphaned`, recovery |
| sandbox.sh | `worker/resources/sandbox/v2/sandbox.sh` | cgroups, eBPF maps `reserved_devices` and `reserved_majors`, `/tmp/neu_box_devices_*`, `/tmp/neu_box_cgid_*` | create, join, destroy, list, status, cleanup |
| Device filter | `device_block.bpf.c` | none (reads the maps) | allows or denies an open of a device |
| Docker executor | `executor/command_docker.py` | the stopped launcher inside a container | stop, verify, join, continue, cancel |
| Sandbox API | `executor/sandbox_api.py` | none | acquire, release, join, list |
| Worker entry | `worker/app.py` | the two singletons | starts the queue, the Reaper, the HTTP server |
| Migrations | `src/neu_box/database/` | history table of a database | validate, apply, back up |
| Installer | `deploy/install.py` | releases, `current`, deployment state, backups | deploy, roll back |
| Go client | `client/neubox/` | none | submit, wait, follow a log, acquire, docker intents |
| Launcher, information scripts, WebUI | `run.sh`, `resources/info/`, submodule | | not modelled: a development launcher, parsers of vendor tools, an empty submodule |

How the parts meet: HTTP threads, the consumer and the executor threads share the
memory of the queue; all of them and the Reaper call the sandbox manager, which
calls sandbox.sh, which changes the kernel. Only SQLite, the kernel and `/tmp`
survive the Worker. systemd starts the Worker again after a failure; the cgroups
of the sandboxes are outside its unit, so their processes go on meanwhile.

What is hard, and what makes each part correct:

- **Queue.** Rows are written outside the lock; the consumer allocates without
  it; a crash can fall between any two writes; a DELETE can meet a task anywhere
  on its way. Correct: a command starts at most once; a running row always has an
  owner; no accepted task is lost; the order is kept, also across restarts;
  "completed" means that everything is given back; a cancellation ends the command.
- **Sandboxes.** Choice, kernel reservation and record are three steps; scripts
  are cut at 30 seconds or fail half-way; the Reaper competes with starts that
  take no lock and may fall in the middle of a destruction. Correct: one device, one
  record; a device that leaves its record is free in the kernel; only the sandbox opens
  its devices; nothing leaks for ever.
- **Docker executor.** A process in somebody else's container is stopped,
  identified, moved and continued while it may exit, be replaced or be cancelled.
- **Migrations and installer.** Crashes between the steps of an upgrade, restore
  of databases together with the release, concurrent migrators.
- **Client.** A log is followed by byte offsets while it is written.

## Modules

| Module | Contents |
|---|---|
| `TaskLifecycle` | What a client is promised about a task: its states and the steps between them. |
| `TaskQueue` | The queue in detail: one action per critical section, SQLite transaction or call of the sandbox manager. Implements `TaskLifecycle`. |
| `TaskQueueProofs` | Inductive invariant and theorems of `TaskQueue`: types, starts, order. |
| `TaskResultProofs` | Theorems of `TaskQueue` on results, cancellations, losses and restarts; it implements `TaskLifecycle`. |
| `SbxManager` | Sandbox records, sandbox.sh, the eBPF maps and rule, the Reaper. |
| `SbxManagerProofs` | Inductive invariant and theorems of `SbxManager`: types and records. |
| `SbxDeviceProofs` | Theorems of `SbxManager` on the kernel, the release of devices and the Reaper. |
| `DockerExec`, `DockerExecProofs` | One task in an existing container: the executor thread, its exec, the process, the container, a DELETE. Inductive invariant and theorems. |
| `LogFollow`, `LogFollowProofs` | `neubox wait` on a log that is being written. Inductive invariant and theorems. |
| `Migrations`, `MigrationsProofs` | The migration runner, run by several processes at once, and the check of a Worker that starts. Inductive invariant and theorems. |
| `Deployment` | What the installer promises: the installed release, its data, the way back. |
| `Installer` | install, upgrade and rollback step by step, with their undo steps, and the service. Implements `Deployment`. |
| `InstallerProofs` | Inductive invariants and theorems of `Installer`; it implements `Deployment`. |
| `MCTaskQueue`, `MCSbxManager`, `MCMigrations`, `MCInstaller` | Instances for TLC. |

`TaskQueue` sees a sandbox only as there, broken or gone; `SbxManager` has its
details. `TaskQueue` sees a command as a process that ends or is killed;
`DockerExec` is that process when it runs in a container. `Installer` migrates
one version at a time; `Migrations` has the inside of `db migrate`.

### TaskQueue

`row`, `dbAt`, `endAt` are the columns `status`, `created_at` and `finished_at`;
`pending`, `running`, `memAt` and `canceled` are the dictionaries of the queue;
`cons` and `ex` are the program counters of the consumer and of each executor
thread; `del` is what is left to do of a `DELETE` after its locked section; `sub`
is the progress of a `POST`. `sbx`, `proc` and `rc` are what the queue sees of a
sandbox, its processes and the exit status. `starts` only counts; `escaped` are the
tasks whose command runs in the root cgroup.

- `submit` is `SubmitInsert` (the row commits) and `SubmitEnqueue` (the locked
  section). `delete_tasks` is `DeleteBegin`, then `DeleteRow` and `DeleteCancel`
  for each task.
- `_consume_loop` is `ConsTake`, `ConsAllocate` or `ConsRefused`, `ConsAdmit` or
  `ConsStale` and `ConsDropSandbox`, `ConsPersist`, `ConsSpawn`; its except clause
  is `ConsUndo`, `ConsGiveUp`, `ConsDrop`. A second exception, in that clause,
  ends the thread (step `"dead"`).
- `_execute_one` is `ExecStart`, `ExecWait` or `ExecTimeout`, `ExecCleanup`,
  `ExecJudge`, `ExecRecord`, `ExecPrune`, `ExecLeave`; `ExecAbort` is the except
  clause and `ExecFinally` the finally clause.
- `Crash` takes the memory of the Worker and, when it is the host that dies, the
  cgroups too. `Restart` is `_recover_orphaned`, one step, since repeating a part
  of it changes nothing.

A destruction ends what is in the cgroup (`Kill`). The child of an executor enters
without a lock, so a destruction by another thread may also meet it behind the kill:
`DestroyedBehind` is the kill, the entry and the move to the root cgroup in one step,
which nothing can tell from three, since no thread looks in between. From then on the
command counts for its executor only: `Populated`, the cgroup, no longer has it.

Abstractions: a clock is read in the same step as the write that uses it, and no
two readings are equal; `_reindex` writes positions, which no decision reads, so
only its exception is modelled; `cpu`, `mem`, logs and messages are left out. A
failed destroy leaves a sandbox `"live"` or, without its cgroup, `"broken"`. The Reaper
of the queue model has no grace period, so that it may act at any time.
`Known` are the ids a client can name: those of a finished `POST`, or, with
`EarlyDelete`, also those it reads from `GET /tasks` while their `POST` is in
progress.

### SbxManager

`cg`, `inside`, `owner`, `limited` and `list` are the kernel and `/tmp`: the cgroup
directories, whether processes are in them, the two eBPF maps and the device list
of sandbox.sh. `recorded`, `rec` and `young` are the table. `get_instance` is not
synchronized, so a Worker may start with two `SbxManager` objects: `mgr` is the object
of each thread, chosen from `Outcomes` at every start, and `lock` the lock of each
object. `pc`, `on`, `devs` belong to the threads; `todo` and `phase` are a pass of the
Reaper or the recovery. `by`, `split`, `slipped` and `late` only record, for the
properties: which of two objects made a record, whether a Worker ever had two, which
sandboxes a process slipped through the end of, and which had a start that outlived
the grace period.

`Allocate`, then `CreateExists`, `CreateRefused`, `CreateScript` or `CreateCut`,
then `CreateRecord` are `allocate_sandbox`; `DestroyBegin`, then `DestroyKill`, then
`DestroyClear`, `DestroyStuck` or `DestroyCut`, then `DestroyForget` are
`destroy_sandbox`. The `...Cut` actions leave any prefix of the script's commands done.
Between the kill and the rest a `Preexec` may put a process into the cgroup: it is
moved out (`DestroyClear`) or, if it came behind the move, keeps the directory
(`DestroyStuck`, for which nothing has to fail). `PassBegin`, `Scan`, `Confirm`,
`ScanOrphans`, `PassEnd` are `cleanup_orphaned`; `Restart`, `Recover`, `Serve` are
`_recover_on_startup`. `Join` takes the lock, `Preexec`, the `preexec_fn` of a command,
does not.

Abstractions: apart from the cut between kill and rest, a script is one step; that
matters only to two `SbxManager` objects whose scripts run at the same time, and to
a process that enters in the middle of a creation, of which there is none, since it
is granted later. The second object's own recovery, which repeats the first's, is left
out. A process may find its cgroup frozen and wait at the entry; it then enters when
the script lets it, as in the model.

`owner` maps a device to the sandbox whose present cgroup has its key; a key whose
cgroup went without it belongs to `Dead`, since a new cgroup has a new id. All
devices have one major; other majors and the control node 195:255 are open to
everybody (`device_block.bpf.c:105-108`) and are left out. Devices busy outside the sandboxes only shrink the free
set, of which `Allocate` may take any part, so they are left out.

### DockerExec

`box`, `gen`, `exec`, `proc`, `cgroup`, `alien` are what Docker and the kernel
show: the container and how often it was started (its init PID and `StartedAt`),
the exec as `exec_inspect` reports it, its process, the cgroup of the process, and
a foreign process that got the PID when ours had gone; `late` and `harm` record, for
the properties, the calls whose last check was over when it came, and those that hit
it; `blind` and `kept` whose look at the exec raised and whose destruction failed.
`pc` is the step of `run`,
`back` where its call of `cancel()` returns to; `pid`, `runtime`, `mygen`, `event`
are the variables of the code of these names; `del` is the thread of
`DELETE /tasks`.

`Validate`, `Create`, `StartStream`, `WaitInspect`, `WaitState` lead to the stopped
process; `AssertContainer`, `AssertExec`, `Verify`, `Join`, `CheckCgroup`,
`AssertAgain`, `CheckEvent`, `Continue` are `_verify_exec_pid` and
`_join_and_continue`; `LoopInspect` and `LoopTimeout` wait for the end;
`CancelInspect`, `CancelKill` are `cancel()`, which DELETE runs too; `Except` and
`ApiRaises` are the two except clauses; `Destroy` is what `_execute_one` does after.
Any call of the API may raise (`ApiRaises`, `CancelRaises`) and any `destroy_sandbox`
fail, before or after its kill (`Destroyed`); the Reaper may take an empty sandbox
(`Reap`), the container stop and start, the process end and its PID be used again
(`Reuse`) between any two steps. An alien is the worst one: stopped, and in the same
container. Docker is trusted in one thing: an exec is shown as running only while its
process is there. The log and the exit status are left out.

### LogFollow

`size` and `status` are the file and the row, `request` and `total` the variables of
`get_task_log` between its `stat` and its read, `pc`, `seen`, `offset`, `page` those
of `runWait` and `drainTaskLog`. `printed` counts how often each byte was written.
`Append`, `Finish`, `Delete` are the writer, the executor and a `DELETE`;
`Measure` and `Read` the request; `FetchStatus`, `RequestLog`, `WritePage`,
`GiveUp` the client. A late write may follow the end of the task, since the
executor joins the reader of the output for some seconds only.

### Migrations

A script is its content (name and checksum); a release is the sequence of its
scripts. `db` is the committed database: which scripts took effect, whether it has
all required columns and indexes, and its history. `draft` is the database as the
owner of `lock` (BEGIN IMMEDIATE) sees it. `tables` and `hist` are what a process
has read, which others may have made stale.

`ReadTables`, `ReadHistory`, `AdoptValidate` are the reads of `migrate_database`
before its transactions; `Begin`, then `AdoptWrite`, `CreateWrite` or `ApplyOne`
and `Insert`, then `Commit` a transaction; `Reread`, `Final`, `Return` what follows.
`ReadStatus` and `RequireSchema` are `require_current_schema`. `Dies` is a death or an
SQLite error in any step; `Retry` gives the command again. A script fails on a
database that it has changed already, unless it is in `Repeatable`.

### Installer

`current`, `state`, `files`, `svc`, `enabled` are the link, the state file, what was
copied to the host, and the unit of the Worker; `op` is the command in progress with
what it has captured. One action per step of the `try` statements of `deploy` and
`rollback`, in their order, and one per step of the except clauses. `Fail` is a step
that raises, `Interrupt` an end of the installer that no except clause sees,
`PowerLoss` that of the host. A database is its schema version and the set of the
writes that it holds; `saved`, `exposed`, `written` and `missed` only record, for the
properties: writes in any backup, writes that the restore of a failed command took back because
they came after its backup, all writes, and whether a stop met a service that systemd was about to start again.
A step that fails has done nothing or, in `MigrateLive` and across steps, a part;
steps that replace several files are one.

Definitions directly before another that are named after what they get wrong
(`RowsOfAll`, `ScanRecordNoGrace`, ...) are faulty variants: with one in the place
of the definition below it, TLC must find the property that `PROJECT.json` pairs
with it violated. They are used nowhere else.

## Runs

| Run | Question | Result |
|---|---|---|
| `queue_crash` | Safety of the queue and its refinement of `TaskLifecycle`, with a crash, an exception and failing destroys | holds |
| `queue_live` | Does every accepted task settle? | holds |
| `queue_cancel` | Does a cancelled command end, unless it escapes, and not as a success? | holds |
| `sbx_faults` | Records, kernel, freeing and the Reaper, with a failed script and a crash | holds |
| `sbx_retry` | Does the Reaper get rid of every empty sandbox? | holds |
| `docker_exec` | Does a command run only in its sandbox and not begin after its DELETE, and is a foreign process safe that came before the last look? | holds |
| `log_follow` | Does a wait print the whole log? | holds |
| `migrations` | Is the history always what took effect, and does a repeated command complete? | holds |
| `deploy` | Are upgrades and rollbacks atomic (`Deployment`), and is no write lost? | holds |
| `sbx_orphan` | Do sandboxes keep their devices after a crash? | **no** |
| `sbx_two_managers` | Is a device in one record only (`sbx_manager.py:551`)? | **no**, if two threads start together |
| `deploy_crash` | Does a rollback restore the database from before the upgrade (`docs/deployment.md:210`)? | **no**, if the upgrade was interrupted and given again |

Bounds. The queue runs have two tasks that need the only device, the second
urgent, and one deleting client (none in `queue_live`); with two tasks one can be
head, be overtaken, block the other or be pruned for it (`Keep = 1`). `queue_crash`
allows one crash and one exception, in any order. `RunningHasOwner` is claimed for one
exception, since two break it; `NoLostTask` for none, since one is enough: a DELETE
whose `_reindex` raises has taken its tasks out of `_pending` and leaves their rows.
`queue_cancel` has `DestroyMayFail = FALSE`: a destruction that fails before its kill
leaves the command to its time limit. The sandbox runs have two names and two client
threads, so that one allocation or destruction meets another and the Reaper;
`sbx_faults` has two devices, so that a script can be cut between them, and symmetry in
names, devices and clients (it checks safety only); `sbx_retry` has none: what becomes
of directories, processes and records does not depend on what a sandbox holds, and the
liveness check needs the smaller state space. One fault and one crash together cover
every single cut and its retry. `FreedForEveryone` is claimed for one failure: a second
can cut the re-creation of a half-destroyed sandbox, and the key is then lost.

`Reuse` is set in `sbx_faults` and `sbx_retry`. `ReaperSparesTheLiving` excepts by name
(`late`) a start that takes longer than the grace period of one Reaper interval and one
that was given a sandbox which was there: of these it is false, for `Preexec` takes no
lock. `sbx_faults` has one `SbxManager` object, since with two and a failure its states
are too many; `sbx_two_managers` lets one thread be apart from the rest: the consumer
keeps the object it got (`command.py:674`), the Reaper is started from one
(`app.py:106`), everybody else asks again and gets the last. The theorems hold for any.

`docker_exec` has two restarts of the container, so that one can fall before and
one after the exec is made, and three failures, so that one can hit `run`, one
`cancel()` and one a destruction. `log_follow` has five bytes in pages of two: full pages, a short one and
an empty one. `migrations` has a release of two scripts and one of three, the second
script repeatable like `0003_tighten_task_priority.sql`, a Worker of the newer one,
two deaths, and every kind of database a host may have, among them edited, incomplete
and untracked ones. `deploy` has a release with one migration and without the client,
one with three, and one that adds none, four commands, so that upgrade, upgrade,
rollback, rollback fits, and one failure, one interruption, one death of the Worker.
`deploy_crash` needs one interruption only.

Fairness. `ThreadFairness`: every thread of the Worker that can take a step takes
one, and systemd (`Restart=on-failure`) starts a dead Worker. `ScriptFairness`: a
create tried again and again with enough devices, and the Reaper's destroy of an
empty sandbox, succeed in the end. `CommandFairness`: commands end; `queue_cancel`
does without it, so that only the cancellation can end them. (A script that dies between
its freeze and its kill leaves the processes frozen until the next destruction; that a
command ends then is part of `CommandFairness`.) In `SbxManager` the
Reaper's pass and the holders of locks go on, and the Reaper gets the lock again
and again (`SF` on `PassBegin`; it is a thread that retries every interval).
Faults are bounded, so retries win in the end. In `DockerExec` the threads and Docker
go on and the 15 seconds of the wait pass; nothing is assumed of the command, the
container or a DELETE. In `Migrations` a process goes on and a command that failed is
given again, which is the operator's doing: `MigrationCompletes` says that giving it
again is enough.

No run checks for deadlock: every system here stops for good in a legal way (all
tasks settled and nobody submits, the task over, the wait returned, the commands
used up), and TLC would report that.

## Proofs

Every safety property, action property and refinement of the runs above that hold is
stated by a theorem, for every value of the constants unless a hypothesis is named.
The assumptions on the constants are those of the component modules
(`QueueAssumption`, `SbxAssumption`, ...), which TLC evaluates; each inductive
invariant also holds, under TLC, of the instances of the runs.

**TaskQueueProofs**, for any finite set of tasks, any clients, crashes and faults:

- `TypeCorrect`: `Spec => []TypeOK`. Stamps are numbers because a finite set of
  numbers has a greatest (`GreatestExists`, by well-founded induction over the
  finite subsets).
- `StartedOnce`: `Spec => []AtMostOnce`. `AtMostOnce` is not inductive: a state in
  which a task has started and is still in the queue satisfies it. `OnceOnly` says
  that as long as anybody may start a task (its row is queued, it is in the queue,
  its `POST` is in progress, or the consumer is about to start it) it has not
  started and has no executor. `Places` says that a task leaves these places in
  one direction: a POST comes before queue and consumer, and the row stops saying
  "queued" before the thread starts, so that a restart never brings it back.
- `OrderKept`: `Spec => NoOvertaking`: only `ConsAdmit` adds to `running`, and it
  looks at the head again under the lock.
- `Safety`: the inductive invariant itself.

**TaskResultProofs**, on top of that invariant, for as many tasks, clients, crashes and
faults:

- `CompletedMeansReleased`: `Spec => []CompletedReleased`. A verdict is given while the
  sandbox is still there, and judged later. `Verdicts` follows it: from the end of the
  main process on the verdict "completed" belongs to a command that has run, from
  `judge` on to one whose processes and sandbox are gone, and that is for good because
  only a start brings them back, of which there is one (`OnceOnly`).
- `EveryRunningHasOwner`: `Spec => []RunningHasOwner`. `Owners` says for every step of the
  consumer and of an executor whether the task is in `_running`, what its row says, and
  how many exceptions it took to get there; the two must go together, since each
  except clause trusts that the thread was still the owner.
- `NoTaskLost`: `Spec => []NoLostTask`, inductive with the two above; like the property it
  speaks of the time before the first exception.
- `StartIsRecorded`: `Spec => StartsRecorded`, if `EarlyDelete = FALSE`. `RowsFollow`: a
  DELETE takes the row only of a task that is in neither dictionary and whose `POST` has
  returned. Without the hypothesis the property is violated (below).
- `RestartKeepsFifo`: `Spec => FifoAcrossRestart`. The queue is ordered by stamps in
  memory, a restart orders it by those of the rows; `Stamps` says that a row's is never
  later.
- `CancellationSticks`: `Spec => CancelSticks`. From a cancellation before the judgement
  on, `NeverCompletes` is preserved by every step, a crash and a restart included:
  nobody may start the task again, and its thread has the flag or a verdict other than
  "completed".
- `ImplementsLifecycle`: `Spec => RefinesLifecycle`, if `EarlyDelete = FALSE` and
  `MaxFaults <= 1`. One lemma per thread says which step of `TaskLifecycle` each of its
  actions is. A second exception leaves a thread without its row written
  (`command.py:741`), hence the bound; crashes are not bounded.

**SbxManagerProofs**, for any names, devices, threads, crashes and faults:

- `TypeCorrect`: `Spec => []TypeOK`, with any number of manager objects. The part that
  needs an argument is `LocksHeld`: who is in a critical section holds the lock of its
  object. A thread at work on a sandbox knows which (`KnowsItsSandbox`).
- `DeviceInOneRecord`: `Spec => []NoDoubleAllocation`, with any number of objects. The
  choice of devices and the record are one critical section, so what a thread is about
  to record is in no record, or only in one that another object of the same Worker has
  made meanwhile (`ChosenIsFree`); a thread of the next Worker finds all of them. That no
  two records share a device at all is what `sbx_two_managers` refutes.

**SbxDeviceProofs**, for any names, devices and threads. No constant says that there is
one `SbxManager` object; the properties speak of the time in which there was (`~split`):

- `DevicesAreExclusive`: `Spec => []ExclusiveUnlessFailed`, and `NoKeyLeaks`:
  `Spec => []NoLeakedKey`. Both speak of the time before the first failure. `Tidy` ties
  the four places where an owner of a device is written (record, list, map, limit bit)
  together: they agree, but for the one sandbox that the holder of the lock has made
  and not recorded, or destroyed and not forgotten, and for those a process slipped
  through, which have neither keys nor a list. `Housed` and `Gone` say where directories
  and processes can be meanwhile.
- `NothingLeftBehind`: `Spec => FreedForEveryone`. One failure may end `Tidy` at any
  prefix of a script. `Listed` is what survives it: the list, which a destruction reads,
  names every key that a record's device has, and no other sandbox has one of these
  devices. So the destruction that succeeds at last removes them (`Removed`). A second
  failure breaks `Listed`, as the bounds above say.
- `LivingAreSpared`: `Spec => []ReaperSparesTheLiving`, for any number of failures and
  crashes. The Reaper looks at the processes of a sandbox under the lock, but a command
  enters without it. `Condemned`: what it is about to destroy is empty and nobody is on
  the way in, because who is on the way has a young sandbox (`Started`) or is named by
  `late`.

**DockerExecProofs**, for any number of restarts and faults: `TypeCorrect`,
`CommandConfined`, `AliensSpared`, `SeenEnds`, `NothingAfterDelete`. Confinement is
not inductive: what `Continue` continues was checked three steps before. `InSandbox`
says that from `CheckCgroup` on a process that lives is in the sandbox and that a
process in it keeps the sandbox, whose destruction ends it; `Known` that an exec
whose PID was read never gets another process; `NoAlien` that the PID is free for
others only when the process has gone, and that an alien which came before the last
look at the exec is found by it; `Ending` that on the way from a failure to the end
either no PID is known, and then somebody has killed before, or the except clause will.
`NothingAfterDelete` needs both halves of a DELETE: one that destroyed the sandbox leaves
no process in it that `Continue` could meet; of one whose destruction failed `Found` says
that its look, if it did not raise, has met the process that is about to be continued,
because the container is still the one that was validated.

**LogFollowProofs**, for a log of any length and pages of any size: `TypeCorrect`,
`NoGap`, `WholeLog`. `Growing` says that whoever looked at the log, even before its
last growth, saw at least what was printed; `Printed` that the byte at the offset may
be out already but then every look since has seen it, so that the next page counts
it; `Final` that a client that knows of the end measures the log after it.

**MigrationsProofs**, for any releases, migrators, Workers, deaths and databases that
`OriginsAssumption` allows: `TypeCorrect`, `AllOrNothing`, `ServedComplete`,
`SuccessExact`, and `UnderstoodChanges`, for releases whose common versions are the
same scripts (`Compatible`). What a migrator decides on was read before its
transaction. `Reads` says what of it is still true: as long as there is no history
table nobody has changed anything, and who is about to apply a migration knows that
the history is what took effect (`Tracked`), perhaps with more rows than it has read.
`Writes` says what the open transaction has done. A stale choice of the next version
does no harm, because its row is there already and the insertion fails, and because a
script runs only on what it changes (`FollowsOn`). The history is validated only once,
before the first migration, so that what others add later has to fit (`AllFit`); with
releases that differ in a common version it may not, and `OnlyUnderstoodChanges` would
be false.

**InstallerProofs**, for any releases, commands and writes, and failures,
interruptions and deaths of the Worker in any number and at any step:

- `TypeCorrect`: `Spec => []TypeOK`. `Shape` adds what a command is: only a bundled
  release is deployed, a rollback has where to go, the backup is complete from the step
  after it on.
- `NoWriteLost`: `Spec => []EveryWriteKept`, as long as no stop met a service that waits
  for its restart (`missed`); for such a stop it is false (below). It holds through
  interruptions and power losses: `Kept` says that what was written before a backup is
  in one, and that the service is off from the backup of a rollback to its restore, so
  that nothing comes between the two.
- `InstallationIsOne`: `Spec => []InstallationConsistent`. `Whole` holds until the first
  interruption: at rest everything is of one release (`Rest`), a command knows the way
  back (`WayBack`), and link, files and schema change in the order of the steps
  (`LinkInStep`, `FilesInStep`, `SchemaInStep`), so that each undo step finds what it has
  to undo.
- `WayBackIsUsable`: `Spec => [](crashes = 0 => PreviousUsable)`, from the same invariant:
  the backup of the way back is one its release can run on. Without `crashes = 0` it is
  the property that `deploy_crash` refutes: an interruption is all it takes.
- `WorkerServesItsSchema`: `Spec => []ServesOwnSchema`, and `FailureKeepsServing`:
  `Spec => FailedCommandServes`. `Serving` says that no Worker runs from the stop of a
  command to its start; the properties except a stop that met a service which systemd
  was about to start again (`Regular`), for which it is false.
- `ImplementsDeployment`: `Spec => RefinesDeployment`. A command happens when its state
  is written; every other step, those of a failing command included, is a stutter,
  which is where `Carried` is needed: what the new release starts with are the data of
  the backup, or those of the way back.

Only model-checked is liveness (`EveryTaskSettles`, `CancelEnds`, `EmptySandboxGoes`,
`MigrationCompletes`, `NeverStuck`): it rests on fairness, hence on `ENABLED`, which is
outside the prover's reach.

## Findings

Each is shown by a run:

1. `sandbox.sh:251` (`sbx_orphan`): the destruction of an orphan deletes the
   reservations of whoever has its devices now.
2. `install.py:1197` (`deploy_crash`): an upgrade that is killed between the migration
   and the write of the state, and given again, takes the migrated database for the
   backup of the old release; a rollback then restores a database on which the old
   release does not start.
3. `sbx_manager.py:66` (`sbx_two_managers`): `get_instance` is not synchronized, and the
   consumer thread and the main thread call it at the same time at start (`app.py:105`);
   two objects, with a lock each, give one device to two sandboxes.

Seen while modelling; the models have the steps, and properties are stated so that
they are true of the code:

- `sandbox.sh:173`: a command that enters its sandbox behind the kill of its cancellation
  is moved to the root cgroup and runs on, although `docs/worker-api.md:362` has it
  cancelled; without `escaped`, TLC finds `CancelEnds` violated.
- `sandbox.sh:60`: a command that enters its sandbox between the move and the rmdir of a
  destruction keeps the directory alive; the script deletes the keys all the same and
  exits with 0. Without `slipped`, TLC finds `ExclusiveUnlessFailed` violated.
- `command_docker.py:423`: `cancel()` sends SIGKILL to a number it has checked before; if
  its process ends in between and the PID is used again, a foreign process dies, which
  the comment at line 382 means to exclude. `join_sandbox` is the longer window of the
  kind: it may wait for a script of 30 seconds between the check of the PID and its use.
  Without `late`, TLC finds `AlienSpared` violated.
- `command.py:930`: a page that begins at the end of a growing log carries a byte that its
  `total_size` does not count; the client prints it twice (`client/neubox/README.md:116`
  says that `wait` reads only what is new). `PagesMeet` allows two.
- `command.py:606`: a cancellation accepted after the one look at `_canceled` leaves
  the task `completed` (`docs/worker-api.md:362` says `failed`); `CancelSticks` speaks
  of those accepted before.
- `command.py:429`: a task deleted while its `POST` is in progress runs without a row;
  with `EarlyDelete = TRUE`, `StartsRecorded` is violated.
- `sbx_manager.py:532`: for a sandbox that exists, `allocate_sandbox` answers with devices
  that the sandbox does not have (`CreateExists`).
- `command.py:741`: a second exception, inside the except clause of the consumer,
  ends its thread (step `"dead"`).
- `command_docker.py:401`, `:499`: a stopped process that `exec_inspect` does not show
  yet when its launch is cancelled or times out is left behind, and so is the process
  of a container that was started again before the exec was made; `SeenProcessEnds`
  speaks of the others.
- `install.py:871`: a Worker that died and waits for its restart is not active, so it is
  not stopped, and systemd starts it in the middle of the command. In a rollback it may
  accept a write behind the backup, which the restore drops, although
  `docs/deployment.md:210-211` says that the data of the new release are kept; with
  `--no-start` that rollback even succeeds. In a migration (`docs/database-migrations.md:116`
  has it stopped) it may run on a schema that is not its own. Without `missed`, TLC finds
  `EveryWriteKept` and `ServesOwnSchema` violated.
- `sandbox.sh:138`: a script that dies between its freeze and its kill leaves a sandbox
  whose processes are frozen: they do nothing until the next destruction.
- `command_docker.py:427`: if the look of a DELETE at the exec raises, which is only logged,
  and its destruction of the sandbox fails, a thread behind its last look at the
  cancellation continues the command after the DELETE has returned; the loop of the
  thread then kills it.
- `install.py:1132`: interrupted between the switch and the write of the state, the link
  and the state disagree, and every later command is refused.
- `install.py:743`: a first install that imports a legacy database and then fails
  leaves the copy, and the same command refuses to import over it.

## Not modelled

Request validation, target validation, status, the other ways to ask for a log,
configuration, logging, the launcher, the information scripts: they keep no state that
other parts race for. `move_pid_to_cgroup` and the lookup of a PID in a container
(`resolve_container_pid`, `sandbox_api.py`) wait for `SandboxApi`. The script's
`cleanup` is an operator's command for a stopped Worker. Resource limits and nested
container cgroups (whose ids the device filter does not know) are outside the model,
and so are processes that survive SIGKILL (`_cg_kill_all` moves those to the root cgroup
too). Of the installer, accounts, configuration files, SELinux contexts,
the download and the checksums of a release, and `--no-systemd` are left out; of the
client, everything but `wait`, since the effect of its requests is the server's.

## Plan

Done, in this order: `TaskQueue`, `TaskLifecycle`, `TaskQueueProofs`, `SbxManager`,
`SbxManagerProofs`, `Migrations`, `Deployment`, `Installer`, `DockerExec`, `LogFollow`,
`LogFollowProofs`, `DockerExecProofs`, `MigrationsProofs`, `TaskResultProofs`,
`SbxDeviceProofs`, `InstallerProofs`. Left:

1. `SandboxApi`: acquire, release and join by PID over `SbxManager`, the lookup of a PID
   in a container and its reuse; terminals that hold a sandbox.
2. `DeviceLease`: an abstract lease of devices (held, released, free) that `SbxManager`
   implements while it does not fail; the lost reservation of an orphan whose map
   clean-up failed.
3. Proofs about these two, in `SbxDeviceProofs`: the step simulation of `DeviceLease`, and
   that no request is answered with a sandbox that another one destroys.
