------------------------------ MODULE Installer ------------------------------
(***************************************************************************)
(* deploy/install.py on a host with systemd: install, upgrade and rollback *)
(* of the Worker, step by step, each of which may fail, be interrupted     *)
(* (a kill, Ctrl-C, which is no Exception, or the loss of the host) or be  *)
(* followed by the restore of the except clause; and the Worker's service, *)
(* which systemd starts again when it dies.                                *)
(*                                                                         *)
(* A database is its schema version (0: there is no file) and the writes   *)
(* it holds.  Module Migrations models what `db migrate` does inside.      *)
(***************************************************************************)
EXTENDS Naturals

CONSTANTS
    Releases,        \* release versions
    Schema,          \* [Releases -> 1..]: how many migrations a release has
    Bundled,         \* the releases that bring the neubox client with them
    Launchers,       \* the releases that bring the launcher, run.sh
    Installed,       \* what a host may have before: releases, or None
    MaxCommands,     \* bound: how many commands are given
    MaxWrites,       \* bound: how many writes Workers commit
    MaxFaults,       \* bound: how many steps of the installer raise
    MaxCrashes,      \* bound: how many commands are interrupted
    MaxWorkerFails,  \* bound: how often a Worker dies by itself
    None             \* no release

ASSUME InstallerAssumption ==
    /\ Schema \in [Releases -> Nat \ {0}]
    /\ Bundled \subseteq Releases
    /\ Launchers \subseteq Releases
    /\ None \notin Releases
    /\ Installed \subseteq Releases \cup {None}
    /\ {MaxCommands, MaxWrites, MaxFaults, MaxCrashes, MaxWorkerFails} \subseteq Nat

VARIABLES
    db,       \* /var/lib/neu-box/worker/neu_box.db
    current,  \* the release /opt/neu-box/current points to
    state,    \* the state file: current_version and previous
    files,    \* where the unit, the installer and the launcher in sbin, and the
              \* client come from
    svc,      \* the service: its run state and the release of its process
    enabled,  \* is the service enabled?
    op,       \* the command in progress
    saved,    \* the writes in any backup under /var/backups/neu-box
    written,  \* how many writes were acknowledged: 1..written
    exposed,  \* those acknowledged after the backup of a command that failed
    missed,   \* has a stop met a service that systemd is about to start again?
    commands, faults, crashes, fails   \* bookkeeping of the bounds

hostVars == <<db, current, state, files, svc, enabled>>
counters == <<missed, commands, faults, crashes, fails>>
vars == <<hostVars, op, saved, written, exposed, counters>>

Maybe    == Releases \cup {None}
Writes   == 1..MaxWrites
DB       == [schema: Nat, writes: SUBSET Writes]
Files    == [unit: Maybe, self: Maybe, launcher: Maybe, client: {"missing", "link"}]
Previous == [version: Releases, backup: DB, client: {"missing", "link"}]
Step     == {"idle", "capture", "stop", "backup", "preflight", "migrate", "restore",
             "switch", "units", "start", "health", "self", "client", "write",
             "undostop", "undodb", "undocurrent", "undofiles", "undoservice"}

NoDB == [schema |-> 0, writes |-> {}]
Idle == [pc |-> "idle"]

\* The state file has a null where there is no way back.
ASSUME NoneIsNoRecord == None \notin Previous \cup [version: Releases, data: SUBSET Writes]

OpType == [pc: Step \ {"idle"}, cmd: {"deploy", "rollback"}, target: Releases,
           from: Maybe, start: BOOLEAN, backup: DB, since: Nat, complete: BOOLEAN,
           switched: BOOLEAN, files: Files, active: BOOLEAN, enabled: BOOLEAN]

TypeOK ==
    /\ db \in DB
    /\ current \in Maybe
    /\ state.version \in Maybe /\ state.previous \in {None} \cup Previous
    /\ files \in Files
    /\ svc \in [run: {"off", "active", "waiting"}, release: Maybe]
    /\ enabled \in BOOLEAN
    /\ op = Idle \/ op \in OpType
    /\ missed \in BOOLEAN
    /\ saved \subseteq Writes /\ exposed \subseteq Writes /\ written \in 0..MaxWrites

InitWith(r, run) ==
    /\ db = IF r = None THEN NoDB ELSE [schema |-> Schema[r], writes |-> {}]
    /\ current = r
    /\ state = [version |-> r, previous |-> None]
    /\ files = [unit |-> r, self |-> r, launcher |-> IF r \in Launchers THEN r ELSE None,
                client |-> IF r \in Bundled THEN "link" ELSE "missing"]
    /\ enabled = (r # None)
    /\ svc = [run |-> run, release |-> IF run = "active" THEN r ELSE None]

Init ==
    /\ \E r \in Installed, run \in {"off", "active"} :
           InitWith(r, run) /\ (r = None => run = "off")
    /\ op = Idle
    /\ saved = {} /\ written = 0 /\ exposed = {} /\ missed = FALSE
    /\ commands = 0 /\ faults = 0 /\ crashes = 0 /\ fails = 0

-----------------------------------------------------------------------------
(* The Worker and systemd. *)

\* require_current_schema: the Worker of the current release starts only on
\* its own schema, and is tried again every RestartSec otherwise.
Launched ==
    IF current # None /\ db.schema = Schema[current]
    THEN [run |-> "active", release |-> current]
    ELSE [run |-> "waiting", release |-> None]
Stopped == [run |-> "off", release |-> None]

WorkerWrites ==
    /\ svc.run = "active" /\ written < MaxWrites
    /\ written' = written + 1
    /\ db' = [db EXCEPT !.writes = @ \cup {written'}]
    /\ UNCHANGED <<current, state, files, svc, enabled, op, saved, exposed, counters>>

WorkerDies ==
    /\ svc.run = "active" /\ fails < MaxWorkerFails
    /\ fails' = fails + 1
    /\ svc' = [run |-> "waiting", release |-> None]
    /\ UNCHANGED <<db, current, state, files, enabled, op, saved, written, exposed,
                   missed, commands, faults, crashes>>

WorkerRestarts ==
    /\ svc.run = "waiting" /\ Launched.run = "active"
    /\ svc' = Launched
    /\ UNCHANGED <<db, current, state, files, enabled, op, saved, written, exposed, counters>>

-----------------------------------------------------------------------------
(* The checks of a command; a command they refuse changes nothing. *)

\* The same check opens deploy and rollback.
Consistent == current = state.version

NewOp(cmd, target, start) ==
    [pc |-> "capture", cmd |-> cmd, target |-> target, from |-> current,
     start |-> start, backup |-> NoDB, since |-> 0, complete |-> FALSE, switched |-> FALSE,
     files |-> files, active |-> FALSE, enabled |-> FALSE]

Given == op = Idle /\ commands < MaxCommands /\ commands' = commands + 1

\* verify_release wants the client in a release that is deployed.  install
\* does not switch versions, upgrade needs an installation.
Deploy(r, start) ==
    /\ Given /\ Consistent /\ r \in Bundled
    /\ op' = NewOp("deploy", r, start)
    /\ UNCHANGED <<hostVars, saved, written, exposed, missed, faults, crashes, fails>>

\* _import_legacy, before the try statement: only with a first install, and
\* never over a database that is there.
Import(r, start) ==
    /\ Given /\ Consistent /\ r \in Bundled
    /\ current = None /\ db = NoDB /\ written < MaxWrites
    /\ db' = [schema |-> 1, writes |-> {written + 1}]
    /\ written' = written + 1
    /\ op' = NewOp("deploy", r, start)
    /\ UNCHANGED <<current, state, files, svc, enabled, saved, exposed, missed, faults, crashes, fails>>

Rollback(start) ==
    /\ Given /\ Consistent
    /\ state.version # None /\ state.previous # None
    /\ op' = NewOp("rollback", state.previous.version, start)
    /\ UNCHANGED <<hostVars, saved, written, exposed, missed, faults, crashes, fails>>

-----------------------------------------------------------------------------
(* The steps of the try statement. *)

Goto(step) == op' = [op EXCEPT !.pc = step]

\* _snapshot_path of every file that will be replaced, _capture_service_states.
Capture ==
    /\ op.pc = "capture"
    /\ op' = [op EXCEPT !.pc = "stop", !.files = files,
                        !.active = (svc.run = "active"), !.enabled = enabled]
    /\ UNCHANGED <<hostVars, saved, written, exposed, counters>>

\* _stop_services stops a service that is active: not one that systemd is
\* about to start again.
StopIfActive ==
    /\ svc' = IF svc.run = "active" THEN Stopped ELSE svc
    /\ missed' = (missed \/ svc.run = "waiting")

StopNothing ==
    /\ op.pc = "stop"
    /\ Goto("backup")
    /\ UNCHANGED <<db, current, state, files, svc, enabled, saved, written, exposed, counters>>
Stop ==
    /\ op.pc = "stop"
    /\ StopIfActive
    /\ Goto("backup")
    /\ UNCHANGED <<db, current, state, files, enabled, saved, written, exposed,
                   commands, faults, crashes, fails>>

\* _backup_databases, _backup_configs
Backup ==
    /\ op.pc = "backup"
    /\ op' = [op EXCEPT !.backup = db, !.since = written, !.complete = TRUE,
                        !.pc = IF op.cmd = "deploy" THEN "preflight" ELSE "restore"]
    /\ saved' = saved \cup db.writes
    /\ UNCHANGED <<hostVars, written, exposed, counters>>

\* _preflight_migrations on a copy: a newer schema is refused.
Preflight ==
    /\ op.pc = "preflight"
    /\ Goto(IF op.backup.schema <= Schema[op.target] THEN "migrate" ELSE "undostop")
    /\ UNCHANGED <<hostVars, saved, written, exposed, counters>>

\* _migrate_live: one transaction after the other.
MigrateLive ==
    /\ op.pc = "migrate"
    /\ IF db.schema < Schema[op.target]
       THEN db' = [db EXCEPT !.schema = @ + 1] /\ UNCHANGED op
       ELSE Goto("switch") /\ UNCHANGED db
    /\ UNCHANGED <<current, state, files, svc, enabled, saved, written, exposed, counters>>

\* In rollback: the backup of the previous release comes back.
RestorePrevious ==
    /\ op.pc = "restore"
    /\ db' = state.previous.backup
    /\ Goto("switch")
    /\ UNCHANGED <<current, state, files, svc, enabled, saved, written, exposed, counters>>

Switch ==
    /\ op.pc = "switch"
    /\ current' = op.target
    /\ op' = [op EXCEPT !.pc = "units", !.switched = TRUE]
    /\ UNCHANGED <<db, state, files, svc, enabled, saved, written, exposed, counters>>

InstallUnits ==
    /\ op.pc = "units"
    /\ files' = [files EXCEPT !.unit = op.target]
    /\ Goto("start")
    /\ UNCHANGED <<db, current, state, svc, enabled, saved, written, exposed, counters>>

\* _enable_and_start; `systemctl start` leaves a running service alone.
Start ==
    /\ op.pc = "start"
    /\ enabled' = TRUE
    /\ svc' = IF op.start /\ svc.run # "active" THEN Launched ELSE svc
    /\ Goto(IF op.start THEN "health" ELSE "self")
    /\ UNCHANGED <<db, current, state, files, saved, written, exposed, counters>>

\* _healthcheck wants an answer of the new version.
Health ==
    /\ op.pc = "health"
    /\ Goto(IF svc.run = "active" /\ svc.release = op.target THEN "self" ELSE "undostop")
    /\ UNCHANGED <<hostVars, saved, written, exposed, counters>>

\* run.sh only if the release has one: the launcher may be of another release.
InstallSelf ==
    /\ op.pc = "self"
    /\ files' = [files EXCEPT !.self = op.target,
                              !.launcher = IF op.target \in Launchers THEN op.target ELSE @]
    /\ Goto("client")
    /\ UNCHANGED <<db, current, state, svc, enabled, saved, written, exposed, counters>>

\* _install_worker_client; a release without a client gets back the one that
\* was there before it was replaced.
InstallClient ==
    /\ op.pc = "client"
    /\ files' = [files EXCEPT !.client =
           IF op.target \in Bundled THEN "link" ELSE state.previous.client]
    /\ Goto("write")
    /\ UNCHANGED <<db, current, state, svc, enabled, saved, written, exposed, counters>>

\* A reinstallation of the same version keeps the way back it had.
NewPreviousAlways ==
    [version |-> op.from, backup |-> op.backup, client |-> op.files.client]
NewPreviousInstalled ==
    IF op.cmd = "deploy" /\ op.from = None THEN state.previous
    ELSE [version |-> op.from, backup |-> op.backup, client |-> op.files.client]
NewPrevious ==
    IF op.cmd = "deploy" /\ op.from \in {None, op.target} THEN state.previous
    ELSE [version |-> op.from, backup |-> op.backup, client |-> op.files.client]

WriteState ==
    /\ op.pc = "write"
    /\ state' = [version |-> op.target, previous |-> NewPrevious]
    /\ op' = Idle
    /\ UNCHANGED <<db, current, files, svc, enabled, saved, written, exposed, counters>>

-----------------------------------------------------------------------------
(* Failures. *)

\* A step of the try statement raises.
Fail ==
    /\ op.pc \in Step \ {"idle", "capture", "undostop", "undodb", "undocurrent",
                         "undofiles", "undoservice"}
    /\ faults < MaxFaults
    /\ faults' = faults + 1
    /\ Goto("undostop")
    /\ UNCHANGED <<hostVars, saved, written, exposed, missed, commands, crashes, fails>>

UndoStop ==
    /\ op.pc = "undostop"
    /\ StopIfActive
    /\ Goto("undodb")
    /\ UNCHANGED <<db, current, state, files, enabled, saved, written, exposed,
                   commands, faults, crashes, fails>>

AfterBackup == {w \in 1..written : op.since < w}

\* _restore_databases, when there is a backup; a database that did not exist
\* is removed.
UndoDatabaseAlways ==
    /\ op.pc = "undodb"
    /\ db' = op.backup
    /\ exposed' = IF op.complete THEN exposed \cup AfterBackup ELSE exposed
    /\ Goto("undocurrent")
    /\ UNCHANGED <<current, state, files, svc, enabled, saved, written, counters>>
UndoDatabase ==
    /\ op.pc = "undodb"
    /\ IF op.complete THEN db' = op.backup /\ exposed' = exposed \cup AfterBackup
       ELSE UNCHANGED <<db, exposed>>
    /\ Goto("undocurrent")
    /\ UNCHANGED <<current, state, files, svc, enabled, saved, written, counters>>

UndoCurrentFirst ==
    /\ op.pc = "undocurrent"
    /\ current' = IF op.from = None THEN None ELSE current
    /\ Goto("undofiles")
    /\ UNCHANGED <<db, state, files, svc, enabled, saved, written, exposed, counters>>
UndoCurrent ==
    /\ op.pc = "undocurrent"
    /\ current' = IF op.from # None THEN op.from
                  ELSE IF op.switched THEN None ELSE current
    /\ Goto("undofiles")
    /\ UNCHANGED <<db, state, files, svc, enabled, saved, written, exposed, counters>>

UndoFilesUnitsOnly ==
    /\ op.pc = "undofiles"
    /\ files' = [files EXCEPT !.unit = op.files.unit]
    /\ Goto("undoservice")
    /\ UNCHANGED <<db, current, state, svc, enabled, saved, written, exposed, counters>>
UndoFiles ==
    /\ op.pc = "undofiles"
    /\ files' = op.files
    /\ Goto("undoservice")
    /\ UNCHANGED <<db, current, state, svc, enabled, saved, written, exposed, counters>>

UndoService ==
    /\ op.pc = "undoservice"
    /\ enabled' = op.enabled
    /\ svc' = IF ~op.active THEN Stopped
              ELSE IF svc.run = "active" THEN svc ELSE Launched
    /\ op' = Idle
    /\ UNCHANGED <<db, current, state, files, saved, written, exposed, counters>>

\* The installer ends at any step, or raises a second time while it restores.
Interrupt ==
    /\ op # Idle /\ crashes < MaxCrashes
    /\ crashes' = crashes + 1
    /\ op' = Idle
    /\ UNCHANGED <<hostVars, saved, written, exposed, missed, commands, faults, fails>>

\* The host goes down and boots; an enabled service is started.
PowerLoss ==
    /\ op # Idle /\ crashes < MaxCrashes
    /\ crashes' = crashes + 1
    /\ op' = Idle
    /\ svc' = IF enabled THEN Launched ELSE Stopped
    /\ UNCHANGED <<db, current, state, files, enabled, saved, written, exposed,
                   missed, commands, faults, fails>>

Next ==
    \/ WorkerWrites \/ WorkerDies \/ WorkerRestarts
    \/ \E start \in BOOLEAN :
           Rollback(start) \/ \E r \in Releases : Deploy(r, start) \/ Import(r, start)
    \/ Capture \/ Stop \/ Backup \/ Preflight \/ MigrateLive \/ RestorePrevious
    \/ Switch \/ InstallUnits \/ Start \/ Health \/ InstallSelf \/ InstallClient
    \/ WriteState
    \/ Fail \/ UndoStop \/ UndoDatabase \/ UndoCurrent \/ UndoFiles \/ UndoService
    \/ Interrupt \/ PowerLoss

Spec == Init /\ [][Next]_vars

-----------------------------------------------------------------------------
(* Properties. *)

\* Nothing was interrupted, and every stop really stopped the service.
Regular == crashes = 0 /\ ~missed

\* No Worker runs on a schema that is not its own: migrations and restores
\* (MigrateLive, RestorePrevious, UndoDatabase) happen while it is stopped.
\* A service that systemd is about to start again is not stopped, and may then
\* run on a schema in between (missed).
ServesOwnSchema ==
    svc.run = "active" /\ Regular => db.schema = Schema[svc.release]

\* Between commands that were not interrupted, and whether they succeeded or
\* failed, the parts of an installation are of one release: the link, the
\* state, the unit, the installer, the client and the database, and the launcher
\* if the release brings one.
InstallationConsistent ==
    op = Idle /\ crashes = 0 =>
        /\ current = state.version
        /\ files.unit = current /\ files.self = current
        /\ current \in Launchers => files.launcher = current
        /\ current # None => db.schema = Schema[current]
        /\ files.client = "link" => current \in Bundled

\* A write that was acknowledged is in the database or in a backup, through any
\* sequence of upgrades, rollbacks, failures and interruptions; except what was
\* accepted after the backup of a command that then failed, which its restore
\* takes back.  Only a stop that did not stop the service breaks it (missed).
EveryWriteKept == ~missed => 1..written \subseteq db.writes \cup saved \cup exposed

\* A command that fails leaves the Worker running if it ran before: the old
\* release is back on a schema it accepts (the except clauses).
FailedCommandServes ==
    [][op.pc = "undoservice" /\ op' = Idle /\ op.active /\ Regular /\ crashes' = 0
          => svc'.run = "active" /\ svc'.release = op.from]_vars

\* Uninterrupted commands are atomic: an upgrade keeps the data and remembers
\* the data before it, a rollback brings exactly that back, a failure changes
\* nothing.  Until its state is written a command has not happened, and its
\* data are those of its backup.
Pending == op # Idle /\ op.complete /\ op.pc \notin {"undocurrent", "undofiles", "undoservice"}
Promised == INSTANCE Deployment WITH
    version  <- state.version,
    data     <- IF Pending THEN op.backup.writes ELSE db.writes,
    previous <- IF state.previous = None THEN None
                ELSE [version |-> state.previous.version, data |-> state.previous.backup.writes]
RefinesDeployment ==
    Promised!Init /\ [][crashes' = 0 => Promised!Next]_(Promised!vars)

\* docs/deployment.md:210: rollback restores the database "from the snapshot
\* before the upgrade": the backup a rollback would restore is one its release
\* can run on.
PreviousUsable ==
    state.previous # None => state.previous.backup.schema = Schema[state.previous.version]

=============================================================================
