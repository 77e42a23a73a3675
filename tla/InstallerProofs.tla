---------------------------- MODULE InstallerProofs ----------------------------
(***************************************************************************)
(* Theorems about Installer for any releases, any number of commands and   *)
(* writes, and failures, interruptions and deaths of the Worker in any     *)
(* number and at any step.                                                 *)
(***************************************************************************)
EXTENDS Installer, TLAPS

-----------------------------------------------------------------------------
(* The inductive invariants.                                               *)

\* The steps before the link is switched, and after.
Before == {"capture", "stop", "backup", "preflight", "migrate", "restore", "switch"}
After  == {"units", "start", "health", "self", "client", "write"}

\* The steps with the database of the new release.
Made == {"switch"} \cup After

\* The steps between a stop and the next start.
Still == {"backup", "preflight", "migrate", "restore", "switch", "units", "start",
          "undodb", "undocurrent", "undofiles", "undoservice"}

\* What a command is: only complete releases are deployed, a rollback has where
\* to go, and its backup is complete from the step after it on.
Shape ==
    op # Idle =>
        /\ op.cmd = "deploy" => op.target \in Bundled
        /\ op.cmd = "rollback" => /\ state.previous # None /\ op.from # None
                                  /\ op.target = state.previous.version
        /\ op.pc \in {"capture", "stop", "backup"} => ~op.complete
        /\ op.pc \in {"preflight", "migrate", "restore"} \cup Made => op.complete
        /\ op.pc \in {"preflight", "migrate"} => op.cmd = "deploy"
        /\ op.pc = "restore" => op.cmd = "rollback"

\* While every stop has stopped the service: what was written before a backup
\* is safe, and a rollback restores nothing before it is.
Kept ==
    /\ EveryWriteKept
    /\ ~missed /\ op # Idle =>
        /\ op.complete => 1..op.since \subseteq saved \cup exposed
        /\ op.pc \in {"backup", "restore"} => svc.run = "off"
        /\ op.pc = "restore" => op.since = written

\* What the new release starts with: the data of the backup when it is deployed,
\* those it had when it was left when it is rolled back to.
Carried ==
    op # Idle =>
        /\ op.cmd = "deploy" /\ op.pc \in {"preflight", "migrate"} \cup Made =>
              op.backup.writes \subseteq db.writes
        /\ op.cmd = "rollback" /\ op.pc \in Made =>
              state.previous.backup.writes \subseteq db.writes

OfRelease(f, r) ==
    /\ f.unit = r /\ f.self = r
    /\ r \in Launchers => f.launcher = r
    /\ f.client = "link" => r \in Bundled
Runs(d, r) == r # None => d.schema = Schema[r]

PreviousWhole ==
    state.previous # None =>
        /\ Runs(state.previous.backup, state.previous.version)
        /\ state.previous.client = "link" => state.previous.version \in Bundled

Rest == op = Idle => current = state.version /\ OfRelease(files, current) /\ Runs(db, current)

\* Where a command came from, which is where it goes back to when it fails.
WayBack ==
    op # Idle =>
        /\ op.from = state.version
        /\ OfRelease(op.files, op.from)
        /\ op.complete => Runs(op.backup, op.from)

\* The parts of the installation change in the order of the steps.
LinkInStep ==
    op # Idle =>
        /\ op.pc \in Before => ~op.switched
        /\ op.pc \in After => op.switched
        /\ current = IF op.switched /\ op.pc \notin {"undofiles", "undoservice"}
                     THEN op.target ELSE op.from

FilesInStep ==
    op # Idle =>
        /\ op.pc \in Before \cup {"units", "undoservice"} => files = op.files
        /\ op.pc \in After \ {"units"} => files.unit = op.target
        /\ op.pc \in {"client", "write"} =>
              files.self = op.target /\ (op.target \in Launchers => files.launcher = op.target)
        /\ op.pc = "write" => OfRelease(files, op.target)

SchemaInStep ==
    op # Idle =>
        /\ op.pc \in {"capture", "stop", "backup", "preflight", "undocurrent", "undofiles",
                      "undoservice"} => Runs(db, op.from)
        /\ op.pc \in {"undostop", "undodb"} /\ ~op.complete => Runs(db, op.from)
        /\ op.pc = "preflight" => db.schema = op.backup.schema
        /\ op.pc = "migrate" => db.schema <= Schema[op.target]
        /\ op.pc \in Made => db.schema = Schema[op.target]

Whole == PreviousWhole /\ Rest /\ WayBack /\ LinkInStep /\ FilesInStep /\ SchemaInStep

WholeUnlessInterrupted == crashes = 0 => Whole

\* While nothing was interrupted or missed, the Worker that runs is that of the
\* link, on its schema; and none runs from the stop to the start of a command.
Serving ==
    /\ svc.run = "active" => current # None /\ svc.release = current /\ db.schema = Schema[current]
    /\ op # Idle =>
        /\ op.pc \in Still => svc.run = "off"
        /\ op.active => op.from # None

ServingWhenRegular == Regular => Serving

-----------------------------------------------------------------------------
(* Types, and what a command is. *)

\* A command is either over or has all its fields.
LEMMA InCommand ==
    ASSUME TypeOK
    PROVE  /\ op # Idle => op \in OpType
           /\ op.pc # "idle" => op \in OpType /\ op # Idle
           /\ Idle.pc = "idle"
           /\ op # Idle => op.pc # "idle"
BY DEF TypeOK, Idle, OpType

LEMMA GotoOnly ==
    ASSUME op \in OpType, NEW step \in Step \ {"idle"}, Goto(step)
    PROVE  /\ op' \in OpType /\ op' # Idle /\ op'.pc = step
           /\ UNCHANGED <<op.cmd, op.target, op.from, op.start, op.backup, op.since, op.complete,
                          op.switched, op.files, op.active, op.enabled>>
BY DEF Goto, OpType, Idle

LEMMA NewOpFields ==
    ASSUME TypeOK, NEW cmd \in {"deploy", "rollback"}, NEW r \in Releases,
           NEW start \in BOOLEAN, op' = NewOp(cmd, r, start)
    PROVE  /\ op' \in OpType /\ op' # Idle /\ op'.pc = "capture"
           /\ op'.cmd = cmd /\ op'.target = r /\ op'.from = current /\ op'.files = files
           /\ op'.backup = NoDB /\ ~op'.complete /\ ~op'.switched /\ ~op'.active
<1>1. current \in Maybe /\ files \in Files /\ NoDB \in DB
  BY DEF TypeOK, NoDB, DB
<1> QED BY <1>1 DEF NewOp, OpType, Step, Idle

LEMMA CommandTypes ==
    ASSUME TypeOK, NEW start \in BOOLEAN
    PROVE  /\ \A r \in Releases : Deploy(r, start) \/ Import(r, start) => TypeOK' /\ Shape'
           /\ Rollback(start) => TypeOK' /\ Shape'
<1> USE DEF hostVars, counters
<1>1. ASSUME NEW r \in Releases, Deploy(r, start) PROVE TypeOK' /\ Shape'
  <2>1. op' = NewOp("deploy", r, start) /\ r \in Bundled
    BY <1>1 DEF Deploy
  <2>2. /\ op' \in OpType /\ op'.pc = "capture" /\ op'.cmd = "deploy" /\ op'.target = r
        /\ ~op'.complete
    BY <2>1, NewOpFields
  <2>3. TypeOK'
    BY <1>1, <2>2 DEF Deploy, Given, TypeOK
  <2> QED BY <2>1, <2>2, <2>3 DEF Shape, Made, After
<1>2. ASSUME NEW r \in Releases, Import(r, start) PROVE TypeOK' /\ Shape'
  <2>1. op' = NewOp("deploy", r, start) /\ r \in Bundled
    BY <1>2 DEF Import
  <2>2. /\ op' \in OpType /\ op'.pc = "capture" /\ op'.cmd = "deploy" /\ op'.target = r
        /\ ~op'.complete
    BY <2>1, NewOpFields
  <2>3. db' \in DB /\ written' \in 0..MaxWrites
    BY <1>2, InstallerAssumption DEF Import, TypeOK, DB, Writes
  <2>4. TypeOK'
    BY <1>2, <2>2, <2>3 DEF Import, Given, TypeOK
  <2> QED BY <2>1, <2>2, <2>4 DEF Shape, Made, After
<1>3. ASSUME Rollback(start) PROVE TypeOK' /\ Shape'
  <2>1. /\ op' = NewOp("rollback", state.previous.version, start)
        /\ state.version # None /\ state.previous # None /\ current = state.version
    BY <1>3 DEF Rollback, Consistent
  <2>2. state.previous.version \in Releases
    BY <2>1 DEF TypeOK, Previous
  <2>3. /\ op' \in OpType /\ op'.pc = "capture" /\ op'.cmd = "rollback"
        /\ op'.target = state.previous.version /\ op'.from = current /\ ~op'.complete
    BY <2>1, <2>2, NewOpFields
  <2>4. TypeOK'
    BY <1>3, <2>3 DEF Rollback, Given, TypeOK
  <2> QED BY <1>3, <2>1, <2>3, <2>4 DEF Rollback, Shape, Made, After
<1> QED BY <1>1, <1>2, <1>3

LEMMA WorkerTypes ==
    ASSUME TypeOK, Shape
    PROVE  /\ WorkerWrites => TypeOK' /\ Shape'
           /\ WorkerDies \/ WorkerRestarts => TypeOK' /\ Shape'
           /\ Interrupt \/ PowerLoss => TypeOK' /\ Shape'
<1> USE DEF hostVars, counters
<1>0. Launched \in [run: {"off", "active", "waiting"}, release: Maybe]
      /\ Stopped \in [run: {"off", "active", "waiting"}, release: Maybe]
  BY DEF Launched, Stopped, Maybe, TypeOK
<1>1. ASSUME WorkerWrites PROVE TypeOK' /\ Shape'
  <2>1. written' \in Writes /\ written' \in 0..MaxWrites
    BY <1>1, InstallerAssumption DEF WorkerWrites, TypeOK, Writes
  <2>2. db' \in DB
    BY <1>1, <2>1 DEF WorkerWrites, TypeOK, DB
  <2> QED BY <1>1, <2>1, <2>2 DEF WorkerWrites, TypeOK, Shape
<1>2. ASSUME WorkerDies \/ WorkerRestarts PROVE TypeOK' /\ Shape'
  <2>1. svc' \in [run: {"off", "active", "waiting"}, release: Maybe]
    BY <1>0, <1>2 DEF WorkerDies, WorkerRestarts, Maybe
  <2> QED BY <1>2, <2>1 DEF WorkerDies, WorkerRestarts, TypeOK, Shape
<1>3. ASSUME Interrupt \/ PowerLoss PROVE TypeOK' /\ Shape'
  <2>1. op' = Idle
    BY <1>3 DEF Interrupt, PowerLoss
  <2>2. svc' \in [run: {"off", "active", "waiting"}, release: Maybe]
    BY <1>0, <1>3 DEF Interrupt, PowerLoss, TypeOK
  <2> QED BY <1>3, <2>1, <2>2 DEF Interrupt, PowerLoss, TypeOK, Shape
<1> QED BY <1>1, <1>2, <1>3

\* Every other step of a command.
Steps ==
    Capture \/ Stop \/ Backup \/ Preflight \/ MigrateLive \/ RestorePrevious \/ Switch
    \/ InstallUnits \/ Start \/ Health \/ InstallSelf \/ InstallClient \/ WriteState
    \/ Fail \/ UndoStop \/ UndoDatabase \/ UndoCurrent \/ UndoFiles \/ UndoService

LEMMA StepTypes ==
    ASSUME TypeOK, Shape, Steps
    PROVE  TypeOK' /\ Shape'
<1> USE DEF hostVars, counters
<1>0. /\ op \in OpType /\ op # Idle
      /\ op.from \in Maybe /\ op.target \in Releases /\ op.backup \in DB /\ op.files \in Files
  <2>1. op.pc # "idle"
    BY DEF Steps, Capture, Stop, Backup, Preflight, MigrateLive, RestorePrevious,
           Switch, InstallUnits, Start, Health, InstallSelf, InstallClient, WriteState,
           Fail, UndoStop, UndoDatabase, UndoCurrent, UndoFiles, UndoService
  <2> QED BY <2>1, InCommand DEF OpType
<1>1. /\ Launched \in [run: {"off", "active", "waiting"}, release: Maybe]
      /\ Stopped \in [run: {"off", "active", "waiting"}, release: Maybe]
      /\ StopIfActive => /\ svc' \in [run: {"off", "active", "waiting"}, release: Maybe]
                         /\ missed' \in BOOLEAN
  <2>1. /\ Launched \in [run: {"off", "active", "waiting"}, release: Maybe]
        /\ Stopped \in [run: {"off", "active", "waiting"}, release: Maybe]
    BY DEF Launched, Stopped, Maybe, TypeOK
  <2>2. StopIfActive => svc' \in {svc, Stopped} /\ missed' \in BOOLEAN
    BY DEF StopIfActive
  <2> QED BY <2>1, <2>2 DEF TypeOK
<1>2. CASE Capture
  <2>1. /\ op' \in OpType /\ op'.pc = "stop"
        /\ UNCHANGED <<op.cmd, op.target, op.from, op.complete>>
    BY <1>0, <1>2 DEF Capture, TypeOK, OpType, Step
  <2>2. TypeOK'
    BY <1>2, <2>1 DEF Capture, TypeOK
  <2> QED BY <1>0, <1>2, <2>1, <2>2 DEF Capture, Shape, Made, After
<1>3. CASE Stop
  BY <1>0, <1>1, <1>3, GotoOnly DEF Stop, TypeOK, Shape, Made, After, Step
<1>4. CASE Backup
  <2>1. /\ op' \in OpType /\ op'.complete /\ op'.pc \in {"preflight", "restore"}
        /\ op'.cmd = op.cmd /\ op'.target = op.target /\ op'.from = op.from
        /\ op'.pc = IF op.cmd = "deploy" THEN "preflight" ELSE "restore"
    <3>1. written \in Nat /\ db \in DB
      BY InstallerAssumption DEF TypeOK
    <3> QED BY <1>0, <1>4, <3>1 DEF Backup, OpType, Step
  <2>2. saved' \subseteq Writes
    BY <1>4 DEF Backup, TypeOK, DB
  <2>3. TypeOK'
    BY <1>4, <2>1, <2>2 DEF Backup, TypeOK
  <2> QED BY <1>0, <1>4, <2>1, <2>3 DEF Backup, Shape, OpType
<1>5. CASE Preflight \/ Health
  <2>1. PICK step \in {"migrate", "undostop", "self"} :
          /\ Goto(step)
          /\ step = "migrate" => op.pc = "preflight"
          /\ step = "self" => op.pc = "health"
    BY <1>5 DEF Preflight, Health
  <2>2. /\ op' \in OpType /\ op'.pc = step
        /\ UNCHANGED <<op.cmd, op.target, op.from, op.complete>>
    BY <1>0, <2>1, GotoOnly DEF Step
  <2>3. TypeOK'
    BY <1>5, <2>2 DEF Preflight, Health, TypeOK
  <2> QED BY <1>0, <1>5, <2>1, <2>2, <2>3 DEF Preflight, Health, Shape, Made, After
<1>6. CASE MigrateLive
  <2>1. CASE UNCHANGED op
    <3>1. db' \in DB
      BY <1>6, <2>1 DEF MigrateLive, TypeOK, DB, Goto
    <3> QED BY <1>6, <2>1, <3>1 DEF MigrateLive, TypeOK, Shape
  <2>2. CASE Goto("switch") /\ UNCHANGED db
    BY <1>0, <1>6, <2>2, GotoOnly DEF MigrateLive, TypeOK, Shape, Made, After, Step
  <2> QED BY <1>6, <2>1, <2>2 DEF MigrateLive
<1>7. CASE RestorePrevious
  <2>1. db' \in DB
    BY <1>0, <1>7 DEF RestorePrevious, Shape, TypeOK, Previous, OpType
  <2> QED BY <1>0, <1>7, <2>1, GotoOnly DEF RestorePrevious, TypeOK, Shape, Made, After, Step
<1>8. CASE Switch
  <2>1. /\ op' \in OpType /\ op'.pc = "units"
        /\ UNCHANGED <<op.cmd, op.target, op.from, op.complete>>
    BY <1>0, <1>8 DEF Switch, OpType, Step
  <2>2. TypeOK'
    BY <1>0, <1>8, <2>1 DEF Switch, TypeOK, Maybe
  <2> QED BY <1>0, <1>8, <2>1, <2>2 DEF Switch, Shape, Made, After
<1>9. CASE InstallUnits \/ InstallSelf
  <2>1. files' \in Files
    BY <1>0, <1>9 DEF InstallUnits, InstallSelf, TypeOK, Files, Maybe
  <2> QED BY <1>0, <1>9, <2>1, GotoOnly DEF InstallUnits, InstallSelf, TypeOK, Shape, Made,
                                            After, Step
<1>10. CASE Start
  <2>1. PICK step \in {"health", "self"} : Goto(step)
    BY <1>10 DEF Start
  <2>2. svc' \in [run: {"off", "active", "waiting"}, release: Maybe] /\ enabled' \in BOOLEAN
    BY <1>1, <1>10 DEF Start, TypeOK
  <2> QED BY <1>0, <1>10, <2>1, <2>2, GotoOnly DEF Start, TypeOK, Shape, Made, After, Step
<1>11. CASE InstallClient
  <2>1. op.target \notin Bundled => state.previous \in Previous
    BY <1>0 DEF Shape, TypeOK, OpType
  <2>2. files' \in Files
    BY <1>11, <2>1 DEF InstallClient, TypeOK, Files, Previous
  <2> QED BY <1>0, <1>11, <2>2, GotoOnly DEF InstallClient, TypeOK, Shape, Made, After, Step
<1>12. CASE WriteState
  <2>1. state'.version = op.target /\ state'.previous = NewPrevious /\ op' = Idle
    BY <1>12 DEF WriteState
  <2>2. NewPrevious \in {None} \cup Previous
    BY <1>0 DEF NewPrevious, Previous, Shape, TypeOK, OpType, Maybe, Files
  <2> QED BY <1>0, <1>12, <2>1, <2>2 DEF WriteState, TypeOK, Shape, Maybe
<1>13. CASE Fail
  BY <1>0, <1>13, GotoOnly DEF Fail, TypeOK, Shape, Made, After, Step
<1>14. CASE UndoStop
  BY <1>0, <1>1, <1>14, GotoOnly DEF UndoStop, TypeOK, Shape, Made, After, Step
<1>15. CASE UndoDatabase \/ UndoCurrent \/ UndoFiles
  <2>1. PICK step \in {"undocurrent", "undofiles", "undoservice"} : Goto(step)
    BY <1>15 DEF UndoDatabase, UndoCurrent, UndoFiles
  <2>2. db' \in DB /\ current' \in Maybe /\ files' \in Files
    BY <1>0, <1>15 DEF UndoDatabase, UndoCurrent, UndoFiles, TypeOK, Maybe
  <2>3. UNCHANGED <<state, svc, enabled, missed, saved, written>>
    BY <1>15 DEF UndoDatabase, UndoCurrent, UndoFiles
  <2>4. AfterBackup \subseteq Writes
    BY InstallerAssumption DEF AfterBackup, Writes, TypeOK
  <2>5. exposed' \subseteq Writes
    BY <1>15, <2>4 DEF UndoDatabase, UndoCurrent, UndoFiles, TypeOK
  <2> QED BY <1>0, <2>1, <2>2, <2>3, <2>5, GotoOnly DEF TypeOK, Shape, Made, After, Step
<1>16. CASE UndoService
  <2>1. svc' \in [run: {"off", "active", "waiting"}, release: Maybe] /\ enabled' \in BOOLEAN
    BY <1>0, <1>1, <1>16 DEF UndoService, TypeOK, OpType
  <2> QED BY <1>16, <2>1 DEF UndoService, TypeOK, Shape
<1> QED BY <1>2, <1>3, <1>4, <1>5, <1>6, <1>7, <1>8, <1>9, <1>10, <1>11, <1>12, <1>13,
           <1>14, <1>15, <1>16 DEF Steps

LEMMA TypeStep ==
    ASSUME TypeOK, Shape, [Next]_vars
    PROVE  TypeOK' /\ Shape'
<1>1. CASE UNCHANGED vars
  BY <1>1 DEF vars, hostVars, counters, TypeOK, Shape
<1> QED BY <1>1, CommandTypes, WorkerTypes, StepTypes DEF Next, Steps

LEMMA TypesAlways == Spec => [](TypeOK /\ Shape)
<1>1. ASSUME Init PROVE TypeOK /\ Shape
  <2>1. PICK r \in Installed, run \in {"off", "active"} : InitWith(r, run)
    BY <1>1 DEF Init
  <2>2. r \in Maybe /\ op = Idle
    BY <1>1, InstallerAssumption DEF Init, Maybe
  <2>3. db \in DB
    BY <2>1, <2>2, InstallerAssumption DEF InitWith, DB, NoDB, Maybe
  <2>4. files \in Files /\ svc \in [run: {"off", "active", "waiting"}, release: Maybe]
    BY <2>1, <2>2 DEF InitWith, Files, Maybe
  <2>5. written \in 0..MaxWrites /\ enabled \in BOOLEAN /\ missed \in BOOLEAN
        /\ saved = {} /\ exposed = {}
    <3>1. written = 0 /\ saved = {} /\ exposed = {}
      BY <1>1 DEF Init
    <3>2. enabled \in BOOLEAN /\ missed \in BOOLEAN
      <4>1. enabled = (r # None) /\ missed = FALSE
        BY <1>1, <2>1, Zenon DEF Init, InitWith
      <4> QED BY <4>1, Zenon
    <3>3. MaxWrites \in Nat
      BY InstallerAssumption
    <3> QED BY <3>1, <3>2, <3>3
  <2> QED BY <2>1, <2>2, <2>3, <2>4, <2>5 DEF InitWith, TypeOK, Shape
<1> QED BY <1>1, TypeStep, PTL DEF Spec

\* The installer's variables keep their types: every command knows the release
\* it installs and, when it rolls back, has one to roll back to.
THEOREM TypeCorrect == Spec => []TypeOK
BY TypesAlways, PTL

-----------------------------------------------------------------------------
(* Writes. *)

LEMMA CommandKeeps ==
    ASSUME TypeOK, Kept, Carried, NEW start \in BOOLEAN
    PROVE  /\ \A r \in Releases : Deploy(r, start) \/ Import(r, start) => Kept' /\ Carried'
           /\ Rollback(start) => Kept' /\ Carried'
<1> USE DEF hostVars, counters
<1>1. ASSUME NEW cmd \in {"deploy", "rollback"}, NEW r \in Releases, op' = NewOp(cmd, r, start),
             EveryWriteKept'
      PROVE  Kept' /\ Carried'
  <2>1. op' # Idle /\ op'.pc = "capture" /\ ~op'.complete
    BY <1>1, NewOpFields
  <2> QED BY <1>1, <2>1 DEF Kept, Carried, Made, After
<1>2. ASSUME NEW r \in Releases, Deploy(r, start) PROVE Kept' /\ Carried'
  <2>1. EveryWriteKept'
    BY <1>2 DEF Deploy, Kept, EveryWriteKept
  <2> QED BY <1>1, <1>2, <2>1 DEF Deploy
<1>3. ASSUME NEW r \in Releases, Import(r, start) PROVE Kept' /\ Carried'
  <2>1. 1..written' = 1..written \cup {written + 1}
    BY <1>3 DEF Import, TypeOK
  <2>2. db.writes = {} /\ db'.writes = {written + 1} /\ UNCHANGED <<saved, exposed, missed>>
    BY <1>3 DEF Import, NoDB
  <2>3. EveryWriteKept'
    BY <2>1, <2>2 DEF Kept, EveryWriteKept
  <2> QED BY <1>1, <1>3, <2>3 DEF Import
<1>4. ASSUME Rollback(start) PROVE Kept' /\ Carried'
  <2>1. EveryWriteKept'
    BY <1>4 DEF Rollback, Kept, EveryWriteKept
  <2>2. state.previous.version \in Releases
    BY <1>4 DEF Rollback, TypeOK, Previous
  <2> QED BY <1>1, <1>4, <2>1, <2>2 DEF Rollback
<1> QED BY <1>2, <1>3, <1>4

\* The steps that leave the database, the state and the writes alone.
LEMMA OnlyGoesOn ==
    ASSUME Kept, Carried, UNCHANGED <<db, state, saved, exposed, written>>,
           missed => missed',
           op' # Idle => /\ op # Idle
                         /\ UNCHANGED <<op.cmd, op.backup, op.since, op.complete>>
                         /\ op'.pc \in {"preflight", "migrate"} => op.pc \in {"preflight", "migrate"}
                         /\ op'.pc \in Made \ {"switch"} => op.pc \in Made
                         /\ op'.pc \in {"switch", "restore"} => op.pc = op'.pc
                         /\ op'.pc \in {"backup", "restore"} => missed' \/ svc'.run = "off"
    PROVE  Kept' /\ Carried'
<1>1. Kept'
  BY DEF Kept, EveryWriteKept
<1>2. Carried'
  BY DEF Carried, Made, After
<1> QED BY <1>1, <1>2

LEMMA StepKeeps ==
    ASSUME TypeOK, Shape, Kept, Carried, Steps
    PROVE  Kept' /\ Carried'
<1> USE DEF hostVars, counters
<1>0. op \in OpType /\ op # Idle /\ op.backup \in DB /\ op.since \in Nat
      /\ written \in Nat
  <2>1. op.pc # "idle"
    BY DEF Steps, Capture, Stop, Backup, Preflight, MigrateLive, RestorePrevious,
           Switch, InstallUnits, Start, Health, InstallSelf, InstallClient, WriteState,
           Fail, UndoStop, UndoDatabase, UndoCurrent, UndoFiles, UndoService
  <2>2. written \in Nat
    BY InstallerAssumption DEF TypeOK
  <2> QED BY <2>1, <2>2, InCommand DEF OpType
<1>1. CASE Capture \/ Switch
  <2>1. /\ op' # Idle /\ UNCHANGED <<op.cmd, op.backup, op.since, op.complete>>
        /\ op'.pc \in {"stop", "units"} /\ (op'.pc = "units" => op.pc = "switch")
    BY <1>0, <1>1 DEF Capture, Switch, OpType, Idle
  <2> QED BY <1>0, <1>1, <2>1, OnlyGoesOn DEF Capture, Switch, Made, After
\* The service is off, so what it wrote last is in the backup.
<1>2. CASE Backup
  <2>1. /\ op' # Idle /\ op'.pc \in {"preflight", "restore"} /\ op'.cmd = op.cmd
        /\ op'.backup = db /\ op'.since = written /\ saved' = saved \cup db.writes
        /\ op'.pc = "restore" => op.cmd = "rollback"
        /\ op.pc = "backup"
    BY <1>0, <1>2 DEF Backup, OpType, Idle
  <2>2. UNCHANGED <<db, state, exposed, written, svc, missed>>
    BY <1>2 DEF Backup
  <2>3. Kept'
    BY <1>0, <2>1, <2>2 DEF Kept, EveryWriteKept
  <2> QED BY <2>1, <2>2, <2>3 DEF Carried, Made, After
<1>3. CASE MigrateLive
  <2>1. UNCHANGED <<state, saved, exposed, written, missed>> /\ db'.writes = db.writes
    BY <1>3 DEF MigrateLive, TypeOK, DB
  <2>2. op' # Idle /\ UNCHANGED <<op.cmd, op.backup, op.since, op.complete>>
        /\ op.pc = "migrate" /\ op'.pc \in {"migrate", "switch"}
    BY <1>0, <1>3, GotoOnly DEF MigrateLive, Step
  <2> QED BY <1>0, <2>1, <2>2 DEF Kept, Carried, Shape, EveryWriteKept, Made, After
\* Everything is in the backup, or excused, before anything is restored.
<1>4. CASE RestorePrevious
  <2>1. /\ op' # Idle /\ UNCHANGED <<op.cmd, op.backup, op.since, op.complete>>
        /\ op.pc = "restore" /\ op'.pc = "switch" /\ op.cmd = "rollback" /\ op.complete
        /\ state.previous # None
    BY <1>0, <1>4, GotoOnly DEF RestorePrevious, Shape, Step
  <2>2. UNCHANGED <<state, saved, exposed, written, missed>> /\ db' = state.previous.backup
    BY <1>4 DEF RestorePrevious
  <2>3. Kept'
    BY <1>0, <2>1, <2>2 DEF Kept, EveryWriteKept
  <2> QED BY <1>0, <2>1, <2>2, <2>3 DEF Carried
<1>5. CASE WriteState
  <2>1. op' = Idle /\ UNCHANGED <<db, saved, written, exposed, missed>>
    BY <1>5 DEF WriteState
  <2> QED BY <2>1 DEF Kept, Carried, EveryWriteKept
<1>6. CASE UndoDatabase
  <2>1. /\ op' # Idle /\ UNCHANGED <<op.cmd, op.backup, op.since, op.complete>>
        /\ op'.pc = "undocurrent"
    BY <1>0, <1>6, GotoOnly DEF UndoDatabase, Step
  <2>2. /\ UNCHANGED <<state, saved, written, missed>>
        /\ IF op.complete THEN exposed' = exposed \cup AfterBackup ELSE UNCHANGED <<db, exposed>>
    BY <1>6 DEF UndoDatabase
  <2>3. 1..written \subseteq 1..op.since \cup AfterBackup
    BY <1>0 DEF AfterBackup
  <2>4. Kept'
    BY <1>0, <2>1, <2>2, <2>3 DEF Kept, EveryWriteKept
  <2> QED BY <2>1, <2>4 DEF Carried, Made, After
<1>7. CASE Stop \/ Preflight \/ InstallUnits \/ Start \/ Health \/ InstallSelf \/ InstallClient
           \/ Fail \/ UndoStop \/ UndoCurrent \/ UndoFiles
  <2>1. PICK step \in Step \ {"idle", "preflight", "switch", "units", "restore"} :
          /\ Goto(step)
          /\ step = "migrate" => op.pc = "preflight"
          /\ step = "backup" => Stop
          /\ step \in Made => op.pc \in Made
    <3>1. CASE Stop
      BY <3>1 DEF Stop, Step, Made, After
    <3>2. CASE Preflight
      BY <3>2 DEF Preflight, Step, Made, After
    <3>3. CASE InstallUnits \/ Start
      BY <3>3 DEF InstallUnits, Start, Step, Made, After
    <3>4. CASE Health \/ InstallSelf \/ InstallClient
      BY <3>4 DEF Health, InstallSelf, InstallClient, Step, Made, After
    <3>5. CASE Fail \/ UndoStop \/ UndoCurrent \/ UndoFiles
      BY <3>5 DEF Fail, UndoStop, UndoCurrent, UndoFiles, Step, Made, After
    <3> QED BY <1>7, <3>1, <3>2, <3>3, <3>4, <3>5
  <2>2. UNCHANGED <<db, state, saved, exposed, written>>
    BY <1>7 DEF Stop, Preflight, InstallUnits, Start, Health, InstallSelf, InstallClient,
                Fail, UndoStop, UndoCurrent, UndoFiles
  <2>3. missed => missed'
    <3>1. missed' = missed \/ StopIfActive
      BY <1>7 DEF Stop, Preflight, InstallUnits, Start, Health, InstallSelf, InstallClient,
                  Fail, UndoStop, UndoCurrent, UndoFiles
    <3> QED BY <3>1, Zenon DEF StopIfActive
  <2>4. op'.pc = step /\ UNCHANGED <<op.cmd, op.backup, op.since, op.complete>>
    BY <1>0, <2>1, GotoOnly
  <2>5. Stop => missed' \/ svc'.run = "off"
    <3>1. Stop /\ svc.run # "waiting" => svc'.run = "off"
      BY DEF Stop, StopIfActive, Stopped, TypeOK
    <3>2. Stop /\ svc.run = "waiting" => missed'
      BY Zenon DEF Stop, StopIfActive
    <3> QED BY <3>1, <3>2
  <2> QED BY <1>0, <2>1, <2>2, <2>3, <2>4, <2>5, OnlyGoesOn DEF Made, After
<1>8. CASE UndoService
  BY <1>8, OnlyGoesOn DEF UndoService
<1> QED BY <1>1, <1>2, <1>3, <1>4, <1>5, <1>6, <1>7, <1>8 DEF Steps

\* A Worker writes while it runs: not between the stop and the restore.
LEMMA WorkerKeeps ==
    ASSUME TypeOK, Kept, Carried
    PROVE  /\ WorkerWrites => Kept' /\ Carried'
           /\ WorkerDies \/ WorkerRestarts \/ Interrupt \/ PowerLoss => Kept' /\ Carried'
<1> USE DEF hostVars, counters
<1>1. ASSUME WorkerWrites PROVE Kept' /\ Carried'
  <2>1. /\ 1..written' = 1..written \cup {written'}
        /\ db'.writes = db.writes \cup {written'}
        /\ UNCHANGED <<state, saved, exposed, missed, svc, op>> /\ svc.run = "active"
    BY <1>1 DEF WorkerWrites, TypeOK, DB
  <2> QED BY <2>1 DEF Kept, Carried, EveryWriteKept
<1>2. ASSUME WorkerDies \/ WorkerRestarts PROVE Kept' /\ Carried'
  <2>1. UNCHANGED <<op, db, state, saved, exposed, written, missed>> /\ svc.run # "off"
    BY <1>2 DEF WorkerDies, WorkerRestarts
  <2> QED BY <2>1 DEF Kept, Carried, EveryWriteKept
<1>3. ASSUME Interrupt \/ PowerLoss PROVE Kept' /\ Carried'
  BY <1>3, OnlyGoesOn DEF Interrupt, PowerLoss
<1> QED BY <1>1, <1>2, <1>3

LEMMA KeepStep ==
    ASSUME TypeOK, Shape, Kept, Carried, [Next]_vars
    PROVE  Kept' /\ Carried'
<1>1. CASE UNCHANGED vars
  BY <1>1 DEF vars, hostVars, counters, Kept, Carried, EveryWriteKept
<1> QED BY <1>1, CommandKeeps, WorkerKeeps, StepKeeps DEF Next, Steps

LEMMA KeptAlways == Spec => [](TypeOK /\ Shape /\ Kept /\ Carried)
<1>1. ASSUME Init PROVE Kept /\ Carried
  <2>1. /\ op = Idle /\ written = 0 /\ state.previous = None
    BY <1>1 DEF Init, InitWith
  <2> QED BY <2>1 DEF Kept, Carried, EveryWriteKept
<1> QED BY <1>1, KeepStep, TypesAlways, PTL DEF Spec

\* No write that a Worker acknowledged is lost: it is in the database or in a
\* backup, or came after the backup of a command that failed, whose restore takes
\* it back; through any upgrades, rollbacks, failures, interruptions and power
\* losses, as long as no stop met a service that waits for its restart.
THEOREM NoWriteLost == Spec => []EveryWriteKept
BY KeptAlways, PTL DEF Kept

-----------------------------------------------------------------------------
(* Installations without interruptions. *)

LEMMA CommandWhole ==
    ASSUME TypeOK, Whole, NEW start \in BOOLEAN
    PROVE  /\ \A r \in Releases : Deploy(r, start) \/ Import(r, start) => Whole'
           /\ Rollback(start) => Whole'
<1> USE DEF hostVars, counters
<1>1. ASSUME NEW cmd \in {"deploy", "rollback"}, NEW r \in Releases, op' = NewOp(cmd, r, start),
             op = Idle, UNCHANGED <<state, current, files>>,
             UNCHANGED db \/ current = None
      PROVE  Whole'
  <2>1. /\ op' # Idle /\ op'.pc = "capture" /\ op'.from = current /\ op'.files = files
        /\ ~op'.complete /\ ~op'.switched
    BY <1>1, NewOpFields
  <2>2. current = state.version /\ OfRelease(files, current) /\ Runs(db, current)
    BY <1>1 DEF Whole, Rest
  <2>3. Runs(db', current)
    BY <1>1, <2>2 DEF Runs
  <2>4. PreviousWhole'
    BY <1>1 DEF Whole, PreviousWhole, Runs
  <2>5. WayBack' /\ Rest'
    BY <1>1, <2>1, <2>2 DEF WayBack, Rest, OfRelease
  <2>6. LinkInStep' /\ FilesInStep'
    BY <1>1, <2>1 DEF LinkInStep, FilesInStep, Before, After
  <2>7. SchemaInStep'
    BY <2>1, <2>3 DEF SchemaInStep, Made, After, Runs
  <2> QED BY <2>4, <2>5, <2>6, <2>7 DEF Whole
<1>2. ASSUME NEW r \in Releases, Deploy(r, start) PROVE Whole'
  BY <1>1, <1>2 DEF Deploy, Given
<1>3. ASSUME NEW r \in Releases, Import(r, start) PROVE Whole'
  BY <1>1, <1>3 DEF Import, Given
<1>4. ASSUME Rollback(start) PROVE Whole'
  <2>1. state.previous.version \in Releases
    BY <1>4 DEF Rollback, TypeOK, Previous
  <2> QED BY <1>1, <1>4, <2>1 DEF Rollback, Given
<1> QED BY <1>2, <1>3, <1>4

\* What a step within a command leaves as it was.
Fields == <<op.cmd, op.target, op.from, op.backup, op.complete, op.files>>

LEMMA StillOnItsWay ==
    ASSUME Whole, op # Idle, op' # Idle, UNCHANGED state, UNCHANGED Fields
    PROVE  PreviousWhole' /\ Rest' /\ WayBack'
BY DEF Whole, PreviousWhole, Rest, WayBack, Runs, OfRelease, Fields

LEMMA StepWhole ==
    ASSUME TypeOK, Shape, Whole, Steps
    PROVE  Whole'
<1> USE DEF hostVars, counters
<1>0. /\ op \in OpType /\ op # Idle /\ op.target \in Releases /\ op.from \in Maybe
      /\ op.backup \in DB /\ db \in DB
  <2>1. op.pc # "idle"
    BY DEF Steps, Capture, Stop, Backup, Preflight, MigrateLive, RestorePrevious,
           Switch, InstallUnits, Start, Health, InstallSelf, InstallClient, WriteState,
           Fail, UndoStop, UndoDatabase, UndoCurrent, UndoFiles, UndoService
  <2> QED BY <2>1, InCommand DEF OpType, TypeOK
<1>1. PreviousWhole /\ WayBack /\ LinkInStep /\ FilesInStep /\ SchemaInStep
  BY DEF Whole
<1>a. ASSUME NEW step \in Step \ {"idle"}, Goto(step)
      PROVE  /\ op' \in OpType /\ op' # Idle /\ op'.pc = step
             /\ UNCHANGED Fields /\ UNCHANGED op.switched
  BY <1>0, <1>a, GotoOnly DEF Fields
<1>2. CASE Capture
  <2>1. /\ op' # Idle /\ op.pc = "capture" /\ op'.pc = "stop" /\ op'.files = files
        /\ UNCHANGED <<op.cmd, op.target, op.from, op.backup, op.complete, op.switched>>
    BY <1>0, <1>2 DEF Capture, OpType, Idle
  <2>2. UNCHANGED <<db, state, current, files>> /\ files = op.files
    BY <1>0, <1>1, <1>2 DEF Capture, FilesInStep, Before
  <2>3. UNCHANGED Fields
    BY <2>1, <2>2 DEF Fields
  <2>4. LinkInStep'
    BY <1>0, <1>1, <2>1, <2>2 DEF LinkInStep, Before, After
  <2>5. FilesInStep'
    BY <2>1, <2>2 DEF FilesInStep, Before, After
  <2>6. SchemaInStep'
    BY <1>0, <1>1, <2>1, <2>2 DEF SchemaInStep, Made, After, Runs
  <2> QED BY <1>0, <2>1, <2>2, <2>3, <2>4, <2>5, <2>6, StillOnItsWay DEF Whole
<1>3. CASE Stop
  <2>1. op.pc = "stop" /\ Goto("backup") /\ UNCHANGED <<db, state, current, files>>
    BY <1>3 DEF Stop
  <2>2. op' # Idle /\ op'.pc = "backup" /\ UNCHANGED Fields /\ UNCHANGED op.switched
    BY <1>a, <2>1 DEF Step
  <2>3. LinkInStep' /\ FilesInStep'
    BY <1>0, <1>1, <2>1, <2>2 DEF LinkInStep, FilesInStep, Before, After, Fields
  <2>4. SchemaInStep'
    BY <1>0, <1>1, <2>1, <2>2 DEF SchemaInStep, Made, After, Runs, Fields
  <2> QED BY <1>0, <2>1, <2>2, <2>3, <2>4, StillOnItsWay DEF Whole
<1>4. CASE Backup
  <2>1. /\ op' # Idle /\ op.pc = "backup" /\ op'.pc \in {"preflight", "restore"}
        /\ op'.backup = db /\ UNCHANGED <<op.cmd, op.target, op.from, op.files, op.switched>>
        /\ UNCHANGED <<db, state, current, files>>
    BY <1>0, <1>4 DEF Backup, OpType, Idle
  <2>2. Runs(db, op.from)
    BY <1>0, <1>1, <2>1 DEF SchemaInStep
  <2>3. PreviousWhole' /\ Rest' /\ WayBack'
    BY <1>0, <1>1, <2>1, <2>2 DEF PreviousWhole, Rest, WayBack, Runs, OfRelease
  <2>4. LinkInStep' /\ FilesInStep'
    BY <1>0, <1>1, <2>1 DEF LinkInStep, FilesInStep, Before, After
  <2>5. SchemaInStep'
    BY <2>1, <2>2 DEF SchemaInStep, Made, After, Runs
  <2> QED BY <2>3, <2>4, <2>5 DEF Whole
<1>5. CASE Preflight
  <2>1. /\ op.pc = "preflight" /\ UNCHANGED <<db, state, current, files>>
        /\ Goto(IF op.backup.schema <= Schema[op.target] THEN "migrate" ELSE "undostop")
    BY <1>5 DEF Preflight
  <2>2. /\ op' # Idle /\ op'.pc \in {"migrate", "undostop"} /\ UNCHANGED Fields
        /\ UNCHANGED op.switched
        /\ op'.pc = "migrate" => op.backup.schema <= Schema[op.target]
    BY <1>a, <2>1 DEF Step
  <2>3. LinkInStep' /\ FilesInStep'
    BY <1>0, <1>1, <2>1, <2>2 DEF LinkInStep, FilesInStep, Before, After, Fields
  <2>4. op.complete
    BY <1>0, <2>1 DEF Shape
  <2>5. SchemaInStep'
    BY <1>0, <1>1, <2>1, <2>2, <2>4 DEF SchemaInStep, Made, After, Runs, Fields
  <2> QED BY <1>0, <2>1, <2>2, <2>3, <2>5, StillOnItsWay DEF Whole
<1>6. CASE MigrateLive
  <2>0. op.pc = "migrate" /\ UNCHANGED <<state, current, files>>
    BY <1>6 DEF MigrateLive
  <2>1. CASE /\ db.schema < Schema[op.target] /\ UNCHANGED op
             /\ db' = [db EXCEPT !.schema = @ + 1]
    <3>1. db'.schema = db.schema + 1 /\ db.schema \in Nat /\ Schema[op.target] \in Nat
      BY <1>0, <2>1, InstallerAssumption DEF DB
    <3>2. SchemaInStep'
      BY <1>0, <2>0, <2>1, <3>1 DEF SchemaInStep, Made, After
    <3>3. LinkInStep' /\ FilesInStep'
      BY <1>1, <2>0, <2>1 DEF LinkInStep, FilesInStep
    <3> QED BY <1>0, <2>0, <2>1, <3>2, <3>3, StillOnItsWay DEF Whole, Fields
  <2>2. CASE ~(db.schema < Schema[op.target]) /\ Goto("switch") /\ UNCHANGED db
    <3>1. op' # Idle /\ op'.pc = "switch" /\ UNCHANGED Fields /\ UNCHANGED op.switched
      BY <1>a, <2>2 DEF Step
    <3>2. db.schema = Schema[op.target]
      <4>1. db.schema \in Nat /\ Schema[op.target] \in Nat
        BY <1>0, InstallerAssumption DEF DB
      <4> QED BY <1>0, <1>1, <2>0, <2>2, <4>1 DEF SchemaInStep
    <3>3. LinkInStep' /\ FilesInStep'
      BY <1>0, <1>1, <2>0, <3>1 DEF LinkInStep, FilesInStep, Before, After, Fields
    <3>4. SchemaInStep'
      BY <2>2, <3>1, <3>2 DEF SchemaInStep, Fields
    <3> QED BY <1>0, <2>0, <3>1, <3>3, <3>4, StillOnItsWay DEF Whole
  <2> QED BY <1>6, <2>1, <2>2 DEF MigrateLive
<1>7. CASE RestorePrevious
  <2>1. /\ op.pc = "restore" /\ Goto("switch") /\ UNCHANGED <<state, current, files>>
        /\ db' = state.previous.backup
    BY <1>7 DEF RestorePrevious
  <2>2. op' # Idle /\ op'.pc = "switch" /\ UNCHANGED Fields /\ UNCHANGED op.switched
    BY <1>a, <2>1 DEF Step
  <2>3. state.previous # None /\ op.target = state.previous.version /\ op.target # None
    BY <1>0, <2>1, InstallerAssumption DEF Shape
  <2>4. db'.schema = Schema[op.target]
    BY <1>1, <2>1, <2>3 DEF PreviousWhole, Runs
  <2>5. LinkInStep' /\ FilesInStep'
    BY <1>0, <1>1, <2>1, <2>2 DEF LinkInStep, FilesInStep, Before, After, Fields
  <2>6. SchemaInStep'
    BY <2>2, <2>4 DEF SchemaInStep, Fields
  <2> QED BY <1>0, <2>1, <2>2, <2>5, <2>6, StillOnItsWay DEF Whole
<1>8. CASE Switch
  <2>1. /\ op' # Idle /\ op.pc = "switch" /\ op'.pc = "units" /\ op'.switched
        /\ UNCHANGED Fields /\ UNCHANGED <<db, state, files>> /\ current' = op.target
    BY <1>0, <1>8 DEF Switch, OpType, Idle, Fields
  <2>2. LinkInStep' /\ FilesInStep'
    BY <1>0, <1>1, <2>1 DEF LinkInStep, FilesInStep, Before, After, Fields
  <2>3. SchemaInStep'
    BY <1>0, <1>1, <2>1 DEF SchemaInStep, Made, After, Fields
  <2> QED BY <1>0, <2>1, <2>2, <2>3, StillOnItsWay DEF Whole
<1>9. CASE InstallUnits \/ InstallSelf \/ InstallClient
  <2>1. PICK step \in {"start", "client", "write"} :
          /\ Goto(step)
          /\ step = "start" => op.pc = "units" /\ files'.unit = op.target
          /\ step = "client" => op.pc = "self" /\ files'.self = op.target
                                /\ files'.unit = files.unit
                                /\ (op.target \in Launchers => files'.launcher = op.target)
          /\ step = "write" => op.pc = "client" /\ InstallClient
                               /\ files'.self = files.self /\ files'.unit = files.unit
                               /\ files'.launcher = files.launcher
    BY <1>9 DEF InstallUnits, InstallSelf, InstallClient, TypeOK, Files
  <2>2. UNCHANGED <<db, state, current>>
    BY <1>9 DEF InstallUnits, InstallSelf, InstallClient
  <2>3. op' # Idle /\ op'.pc = step /\ UNCHANGED Fields /\ UNCHANGED op.switched
    BY <1>a, <2>1 DEF Step
  <2>4. LinkInStep'
    BY <1>0, <1>1, <2>1, <2>2, <2>3 DEF LinkInStep, Before, After, Fields
  <2>5. SchemaInStep'
    BY <1>0, <1>1, <2>1, <2>2, <2>3 DEF SchemaInStep, Made, After, Fields
  <2>6. step = "write" /\ files'.client = "link" => op.target \in Bundled
    <3>1. CASE op.target \in Bundled
      BY <3>1
    <3>2. CASE op.target \notin Bundled /\ step = "write"
      <4>1. state.previous # None /\ op.target = state.previous.version
        BY <1>0, <3>2 DEF Shape, OpType
      <4>2. files'.client = state.previous.client
        BY <2>1, <3>2 DEF InstallClient, TypeOK, Files
      <4> QED BY <1>1, <4>1, <4>2 DEF PreviousWhole
    <3> QED BY <3>1, <3>2
  <2>7. FilesInStep'
    BY <1>0, <1>1, <2>1, <2>3, <2>6 DEF FilesInStep, Before, After, Fields, OfRelease
  <2> QED BY <1>0, <2>2, <2>3, <2>4, <2>5, <2>7, StillOnItsWay DEF Whole
<1>10. CASE Start \/ Health
  <2>1. PICK step \in {"health", "self", "undostop"} :
          /\ Goto(step)
          /\ op.pc \in {"start", "health"}
    BY <1>10 DEF Start, Health
  <2>2. UNCHANGED <<db, state, current, files>>
    BY <1>10 DEF Start, Health
  <2>3. op' # Idle /\ op'.pc = step /\ UNCHANGED Fields /\ UNCHANGED op.switched
    BY <1>a, <2>1 DEF Step
  <2>4. LinkInStep' /\ FilesInStep'
    BY <1>0, <1>1, <2>1, <2>2, <2>3 DEF LinkInStep, FilesInStep, Before, After, Fields
  <2>5. op.complete
    BY <1>0, <2>1 DEF Shape, Made, After
  <2>6. SchemaInStep'
    BY <1>0, <1>1, <2>1, <2>2, <2>3, <2>5 DEF SchemaInStep, Made, After, Fields
  <2> QED BY <1>0, <2>2, <2>3, <2>4, <2>6, StillOnItsWay DEF Whole
<1>11. CASE WriteState
  <2>1. /\ op.pc = "write" /\ op' = Idle /\ state'.version = op.target
        /\ state'.previous = NewPrevious /\ UNCHANGED <<db, current, files>>
    BY <1>11 DEF WriteState
  <2>2. op.complete
    BY <1>0, <2>1 DEF Shape, Made, After
  <2>3. Rest'
    BY <1>0, <1>1, <2>1 DEF Rest, LinkInStep, FilesInStep, SchemaInStep, OfRelease, Runs,
                            Made, After
  <2>4. PreviousWhole'
    <3>1. CASE NewPrevious = state.previous
      BY <1>1, <2>1, <3>1 DEF PreviousWhole, Runs
    <3>2. CASE NewPrevious = [version |-> op.from, backup |-> op.backup, client |-> op.files.client]
      BY <1>0, <1>1, <2>1, <2>2, <3>2 DEF PreviousWhole, WayBack, Runs, OfRelease
    <3> QED BY <3>1, <3>2 DEF NewPrevious
  <2> QED BY <2>1, <2>3, <2>4 DEF Whole, WayBack, LinkInStep, FilesInStep, SchemaInStep
<1>12. CASE Fail
  <2>1. /\ Goto("undostop") /\ UNCHANGED <<db, state, current, files>>
        /\ op.pc \in {"stop", "backup", "preflight", "migrate", "restore"} \cup Made
    BY <1>12 DEF Fail, Step, Made, After
  <2>2. op' # Idle /\ op'.pc = "undostop" /\ UNCHANGED Fields /\ UNCHANGED op.switched
    BY <1>a, <2>1 DEF Step
  <2>3. LinkInStep' /\ FilesInStep'
    BY <1>0, <1>1, <2>1, <2>2 DEF LinkInStep, FilesInStep, Before, After, Made, Fields
  <2>4. SchemaInStep'
    BY <1>0, <1>1, <2>1, <2>2 DEF Shape, SchemaInStep, Made, After, Runs, Fields
  <2> QED BY <1>0, <2>1, <2>2, <2>3, <2>4, StillOnItsWay DEF Whole
<1>13. CASE UndoStop
  <2>1. op.pc = "undostop" /\ Goto("undodb") /\ UNCHANGED <<db, state, current, files>>
    BY <1>13 DEF UndoStop
  <2>2. op' # Idle /\ op'.pc = "undodb" /\ UNCHANGED Fields /\ UNCHANGED op.switched
    BY <1>a, <2>1 DEF Step
  <2>3. LinkInStep' /\ FilesInStep'
    BY <1>0, <1>1, <2>1, <2>2 DEF LinkInStep, FilesInStep, Before, After, Fields
  <2>4. SchemaInStep'
    BY <1>0, <1>1, <2>1, <2>2 DEF SchemaInStep, Made, After, Runs, Fields
  <2> QED BY <1>0, <2>1, <2>2, <2>3, <2>4, StillOnItsWay DEF Whole
<1>14. CASE UndoDatabase
  <2>1. /\ op.pc = "undodb" /\ Goto("undocurrent") /\ UNCHANGED <<state, current, files>>
        /\ db' = IF op.complete THEN op.backup ELSE db
    BY <1>14 DEF UndoDatabase
  <2>2. op' # Idle /\ op'.pc = "undocurrent" /\ UNCHANGED Fields /\ UNCHANGED op.switched
    BY <1>a, <2>1 DEF Step
  <2>3. LinkInStep' /\ FilesInStep'
    BY <1>0, <1>1, <2>1, <2>2 DEF LinkInStep, FilesInStep, Before, After, Fields
  <2>4. Runs(db', op.from)
    BY <1>0, <1>1, <2>1 DEF WayBack, SchemaInStep, Runs
  <2>5. SchemaInStep'
    BY <2>2, <2>4 DEF SchemaInStep, Made, After, Runs, Fields
  <2> QED BY <1>0, <2>1, <2>2, <2>3, <2>5, StillOnItsWay DEF Whole
<1>15. CASE UndoCurrent
  <2>1. /\ op.pc = "undocurrent" /\ Goto("undofiles") /\ UNCHANGED <<db, state, files>>
        /\ current' = IF op.from # None THEN op.from ELSE IF op.switched THEN None ELSE current
    BY <1>15 DEF UndoCurrent
  <2>2. op' # Idle /\ op'.pc = "undofiles" /\ UNCHANGED Fields /\ UNCHANGED op.switched
    BY <1>a, <2>1 DEF Step
  <2>3. current' = op.from
    BY <1>0, <1>1, <2>1 DEF LinkInStep
  <2>4. LinkInStep' /\ FilesInStep'
    BY <2>2, <2>3 DEF LinkInStep, FilesInStep, Before, After, Fields
  <2>5. SchemaInStep'
    BY <1>0, <1>1, <2>1, <2>2 DEF SchemaInStep, Made, After, Runs, Fields
  <2> QED BY <1>0, <2>1, <2>2, <2>4, <2>5, StillOnItsWay DEF Whole
<1>16. CASE UndoFiles
  <2>1. /\ op.pc = "undofiles" /\ Goto("undoservice") /\ UNCHANGED <<db, state, current>>
        /\ files' = op.files
    BY <1>16 DEF UndoFiles
  <2>2. op' # Idle /\ op'.pc = "undoservice" /\ UNCHANGED Fields /\ UNCHANGED op.switched
    BY <1>a, <2>1 DEF Step
  <2>3. LinkInStep' /\ FilesInStep'
    BY <1>0, <1>1, <2>1, <2>2 DEF LinkInStep, FilesInStep, Before, After, Fields
  <2>4. SchemaInStep'
    BY <1>0, <1>1, <2>1, <2>2 DEF SchemaInStep, Made, After, Runs, Fields
  <2> QED BY <1>0, <2>1, <2>2, <2>3, <2>4, StillOnItsWay DEF Whole
<1>17. CASE UndoService
  <2>1. op.pc = "undoservice" /\ op' = Idle /\ UNCHANGED <<db, state, current, files>>
    BY <1>17 DEF UndoService
  <2>2. /\ current = op.from /\ files = op.files /\ Runs(db, op.from)
        /\ op.from = state.version /\ OfRelease(op.files, op.from)
    BY <1>0, <1>1, <2>1 DEF LinkInStep, FilesInStep, SchemaInStep, WayBack
  <2>3. Rest' /\ PreviousWhole'
    BY <1>1, <2>1, <2>2 DEF Rest, PreviousWhole, Runs, OfRelease
  <2> QED BY <2>1, <2>3 DEF Whole, WayBack, LinkInStep, FilesInStep, SchemaInStep
<1> QED BY <1>2, <1>3, <1>4, <1>5, <1>6, <1>7, <1>8, <1>9, <1>10, <1>11, <1>12, <1>13,
           <1>14, <1>15, <1>16, <1>17 DEF Steps

LEMMA WorkerWhole ==
    ASSUME TypeOK, Whole, WorkerWrites \/ WorkerDies \/ WorkerRestarts \/ UNCHANGED vars
    PROVE  Whole'
<1>1. UNCHANGED <<op, state, current, files>> /\ db'.schema = db.schema
  <2>1. CASE WorkerWrites
    BY <2>1 DEF WorkerWrites, TypeOK, DB
  <2>2. CASE WorkerDies \/ WorkerRestarts \/ UNCHANGED vars
    BY <2>2 DEF WorkerDies, WorkerRestarts, vars, hostVars
  <2> QED BY <2>1, <2>2
<1> QED BY <1>1 DEF Whole, PreviousWhole, Rest, WayBack, LinkInStep, FilesInStep, SchemaInStep,
                    Runs, OfRelease

\* Interruptions are only ever counted up, and so is a stop that missed.
LEMMA IrregularForEver ==
    ASSUME crashes \in Nat, missed \in BOOLEAN, [Next]_vars
    PROVE  /\ crashes' = IF Interrupt \/ PowerLoss THEN crashes + 1 ELSE crashes
           /\ missed => missed'
<1> USE DEF counters
<1>1. CASE Steps
  <2>1. crashes' = crashes
    BY <1>1 DEF Steps, Capture, Stop, Backup, Preflight, MigrateLive, RestorePrevious,
           Switch, InstallUnits, Start, Health, InstallSelf, InstallClient, WriteState,
           Fail, UndoStop, UndoDatabase, UndoCurrent, UndoFiles, UndoService
  <2>2. missed => missed'
    BY <1>1 DEF Steps, Capture, Stop, Backup, Preflight, MigrateLive, RestorePrevious,
           Switch, InstallUnits, Start, Health, InstallSelf, InstallClient, WriteState,
           Fail, UndoStop, UndoDatabase, UndoCurrent, UndoFiles, UndoService, StopIfActive
  <2>3. Interrupt \/ PowerLoss => crashes' = crashes + 1
    BY DEF Interrupt, PowerLoss
  <2> QED BY <2>1, <2>2, <2>3
<1>2. CASE Interrupt \/ PowerLoss
  BY <1>2 DEF Interrupt, PowerLoss
<1>3. CASE WorkerWrites \/ WorkerDies \/ WorkerRestarts \/ UNCHANGED vars
  BY <1>3, <1>2 DEF WorkerWrites, WorkerDies, WorkerRestarts, vars
<1>4. ASSUME NEW start \in BOOLEAN,
             Rollback(start) \/ \E r \in Releases : Deploy(r, start) \/ Import(r, start)
      PROVE  crashes' = crashes /\ missed' = missed
  BY <1>4 DEF Rollback, Deploy, Import
<1>5. CASE \E start \in BOOLEAN :
              Rollback(start) \/ \E r \in Releases : Deploy(r, start) \/ Import(r, start)
  BY <1>2, <1>4, <1>5
<1> QED BY <1>1, <1>2, <1>3, <1>5 DEF Next, Steps

IInv ==
    /\ TypeOK /\ Shape /\ Kept /\ Carried
    /\ crashes \in Nat
    /\ WholeUnlessInterrupted

LEMMA WholeStep ==
    ASSUME IInv, [Next]_vars
    PROVE  crashes' \in Nat /\ WholeUnlessInterrupted'
<1>1. crashes' = IF Interrupt \/ PowerLoss THEN crashes + 1 ELSE crashes
  BY IrregularForEver DEF IInv, TypeOK
<1>2. ASSUME crashes' = 0 PROVE Whole'
  <2>1. crashes = 0 /\ ~Interrupt /\ ~PowerLoss
    BY <1>1, <1>2 DEF IInv
  <2> QED BY <2>1, CommandWhole, StepWhole, WorkerWhole
          DEF IInv, WholeUnlessInterrupted, Next, Steps
<1> QED BY <1>1, <1>2 DEF IInv, WholeUnlessInterrupted

LEMMA InvariantAlways == Spec => []IInv
<1>1. ASSUME Init PROVE crashes \in Nat /\ WholeUnlessInterrupted
  <2>1. PICK r \in Installed, run \in {"off", "active"} : InitWith(r, run)
    BY <1>1 DEF Init
  <2>2. /\ op = Idle /\ crashes = 0 /\ state.previous = None /\ state.version = current
        /\ current = r
    BY <1>1, <2>1 DEF Init, InitWith
  <2>3. OfRelease(files, current) /\ Runs(db, current)
    BY <2>1 DEF InitWith, OfRelease, Runs
  <2> QED BY <2>2, <2>3 DEF WholeUnlessInterrupted, Whole, PreviousWhole, Rest, WayBack,
                            LinkInStep, FilesInStep, SchemaInStep
<1>2. IInv /\ [Next]_vars => (crashes \in Nat /\ WholeUnlessInterrupted)'
  BY WholeStep
<1> QED BY <1>1, <1>2, KeptAlways, PTL DEF Spec, IInv

\* After any number of upgrades, rollbacks and failures of their steps, but no
\* interruption, the link, the state, the unit, the installer, the client and
\* the schema of the database are of one release.
THEOREM InstallationIsOne == Spec => []InstallationConsistent
<1>1. IInv => InstallationConsistent
  BY DEF IInv, WholeUnlessInterrupted, Whole, Rest, OfRelease, Runs, InstallationConsistent
<1> QED BY <1>1, InvariantAlways, PTL

\* The way back is one the previous release can run on, as docs/deployment.md:210
\* has it: unless an interrupted command left a database that the next one then
\* kept as its backup.
THEOREM WayBackIsUsable == Spec => [](crashes = 0 => PreviousUsable)
<1>1. IInv => (crashes = 0 => PreviousUsable)
  <2> SUFFICES ASSUME IInv, Whole, state.previous # None
               PROVE  state.previous.backup.schema = Schema[state.previous.version]
    BY DEF IInv, WholeUnlessInterrupted, PreviousUsable
  <2>1. state.previous.version # None
    BY InstallerAssumption DEF IInv, TypeOK, Previous
  <2> QED BY <2>1 DEF Whole, PreviousWhole, Runs
<1> QED BY <1>1, InvariantAlways, PTL

-----------------------------------------------------------------------------
(* The Worker that runs. *)

LEMMA CommandServes ==
    ASSUME IInv, Serving, Regular, NEW start \in BOOLEAN
    PROVE  /\ \A r \in Releases : Deploy(r, start) \/ Import(r, start) => Serving'
           /\ Rollback(start) => Serving'
<1> USE DEF hostVars, counters
<1>1. ASSUME NEW cmd \in {"deploy", "rollback"}, NEW r \in Releases, op' = NewOp(cmd, r, start),
             UNCHANGED <<svc, current>>, svc.run = "active" => UNCHANGED db
      PROVE  Serving'
  <2>1. op'.pc = "capture" /\ ~op'.active
    BY <1>1, NewOpFields DEF IInv
  <2> QED BY <1>1, <2>1 DEF Serving, Still
<1>2. ASSUME NEW r \in Releases, Deploy(r, start) PROVE Serving'
  BY <1>1, <1>2 DEF Deploy
<1>3. ASSUME NEW r \in Releases, Import(r, start) PROVE Serving'
  <2>1. svc.run # "active"
    BY <1>3 DEF Import, Serving
  <2> QED BY <1>1, <1>3, <2>1 DEF Import
<1>4. ASSUME Rollback(start) PROVE Serving'
  <2>1. state.previous.version \in Releases
    BY <1>4 DEF Rollback, IInv, TypeOK, Previous
  <2> QED BY <1>1, <1>4, <2>1 DEF Rollback
<1> QED BY <1>2, <1>3, <1>4

LEMMA StepServes ==
    ASSUME IInv, Serving, Regular, Steps, ~missed'
    PROVE  Serving'
<1> USE DEF hostVars, counters
<1>0. /\ op \in OpType /\ op # Idle /\ Whole /\ TypeOK
      /\ svc.run \in {"off", "active", "waiting"} /\ Stopped.run = "off"
  <2>1. op.pc # "idle"
    BY DEF Steps, Capture, Stop, Backup, Preflight, MigrateLive, RestorePrevious,
           Switch, InstallUnits, Start, Health, InstallSelf, InstallClient, WriteState,
           Fail, UndoStop, UndoDatabase, UndoCurrent, UndoFiles, UndoService
  <2> QED BY <2>1, InCommand
          DEF IInv, WholeUnlessInterrupted, Regular, TypeOK, Stopped
<1>a. ASSUME NEW step \in Step \ {"idle"}, Goto(step)
      PROVE  op' # Idle /\ op'.pc = step /\ UNCHANGED <<op.from, op.active>>
  BY <1>0, <1>a, GotoOnly
<1>b. StopIfActive => svc'.run = "off"
  BY <1>0 DEF StopIfActive
<1>c. Launched.run = "active" =>
        Launched.release = current /\ current # None /\ db.schema = Schema[current]
  BY DEF Launched
\* The steps that neither stop nor start the Worker.
<1>d. ASSUME UNCHANGED svc, op' # Idle => UNCHANGED <<op.from, op.active>>,
             svc.run = "active" => UNCHANGED <<db, current>>,
             op' # Idle /\ op'.pc \in Still => op.pc \in Still
      PROVE  Serving'
  BY <1>0, <1>d DEF Serving
<1>1. CASE Capture
  <2>1. /\ op' # Idle /\ op'.pc = "stop" /\ op'.from = op.from /\ op.pc = "capture"
        /\ op'.active = (svc.run = "active") /\ UNCHANGED <<db, current, svc>>
    BY <1>0, <1>1 DEF Capture, OpType, Idle
  <2>2. current = op.from
    BY <1>0, <2>1 DEF Whole, LinkInStep, Before
  <2> QED BY <2>1, <2>2 DEF Serving, Still
<1>2. CASE Stop \/ UndoStop
  <2>1. (Goto("backup") \/ Goto("undodb")) /\ svc'.run = "off"
    BY <1>2, <1>b DEF Stop, UndoStop
  <2>2. UNCHANGED <<op.from, op.active>>
    BY <1>a, <2>1 DEF Step
  <2> QED BY <1>0, <2>1, <2>2 DEF Serving
<1>3. CASE Backup
  <2>1. /\ op' # Idle /\ UNCHANGED <<op.from, op.active>> /\ op.pc = "backup"
        /\ UNCHANGED <<db, current, svc>>
    BY <1>0, <1>3 DEF Backup, OpType, Idle
  <2> QED BY <1>d, <2>1 DEF Still
<1>4. CASE Switch
  <2>1. /\ op' # Idle /\ UNCHANGED <<op.from, op.active>> /\ op.pc = "switch" /\ UNCHANGED svc
    BY <1>0, <1>4 DEF Switch, OpType, Idle
  <2>2. svc.run = "off"
    BY <1>0, <2>1 DEF Serving, Still
  <2> QED BY <1>d, <2>1, <2>2 DEF Still
<1>5. CASE MigrateLive \/ RestorePrevious \/ UndoDatabase \/ UndoCurrent \/ UndoFiles
  <2>1. op.pc \in Still /\ UNCHANGED svc
    BY <1>5 DEF MigrateLive, RestorePrevious, UndoDatabase, UndoCurrent, UndoFiles, Still
  <2>2. svc.run = "off"
    BY <1>0, <2>1 DEF Serving
  <2>3. UNCHANGED op \/ \E step \in Step \ {"idle"} : Goto(step)
    BY <1>5 DEF MigrateLive, RestorePrevious, UndoDatabase, UndoCurrent, UndoFiles, Step
  <2>4. UNCHANGED <<op.from, op.active>>
    BY <1>a, <2>3
  <2> QED BY <1>d, <2>1, <2>2, <2>4
<1>6. CASE Preflight \/ InstallUnits \/ Health \/ InstallSelf \/ InstallClient \/ Fail
  <2>1. UNCHANGED <<db, current, svc>>
    BY <1>6 DEF Preflight, InstallUnits, Health, InstallSelf, InstallClient, Fail
  <2>2. PICK step \in Step \ {"idle"} : Goto(step) /\ (step \in Still => op.pc \in Still)
    <3>1. CASE Preflight \/ InstallUnits
      BY <3>1 DEF Preflight, InstallUnits, Still, Step
    <3>2. CASE Health \/ InstallSelf \/ InstallClient \/ Fail
      BY <3>2 DEF Health, InstallSelf, InstallClient, Fail, Still, Step
    <3> QED BY <1>6, <3>1, <3>2
  <2>3. op'.pc = step /\ UNCHANGED <<op.from, op.active>>
    BY <1>a, <2>2
  <2> QED BY <1>d, <2>1, <2>2, <2>3
<1>7. CASE Start
  <2>1. PICK step \in {"health", "self"} : Goto(step)
    BY <1>7 DEF Start
  <2>2. op' # Idle /\ op'.pc = step /\ UNCHANGED <<op.from, op.active>>
    BY <1>a, <2>1 DEF Step
  <2>3. svc' \in {svc, Launched} /\ UNCHANGED <<db, current>>
    BY <1>7 DEF Start
  <2> QED BY <1>0, <1>c, <2>2, <2>3 DEF Serving, Still
<1>8. CASE WriteState
  BY <1>8, <1>d DEF WriteState
<1>9. CASE UndoService
  <2>1. svc' \in {Stopped, svc, Launched} /\ UNCHANGED <<db, current>> /\ op' = Idle
    BY <1>9 DEF UndoService
  <2> QED BY <1>0, <1>c, <2>1 DEF Serving
<1> QED BY <1>1, <1>2, <1>3, <1>4, <1>5, <1>6, <1>7, <1>8, <1>9 DEF Steps

LEMMA WorkerServes ==
    ASSUME IInv, Serving, WorkerWrites \/ WorkerDies \/ WorkerRestarts \/ UNCHANGED vars
    PROVE  Serving'
<1>1. UNCHANGED <<op, current>> /\ db'.schema = db.schema
  <2>1. CASE WorkerWrites
    BY <2>1 DEF WorkerWrites, IInv, TypeOK, DB
  <2>2. CASE WorkerDies \/ WorkerRestarts \/ UNCHANGED vars
    BY <2>2 DEF WorkerDies, WorkerRestarts, vars, hostVars
  <2> QED BY <2>1, <2>2
<1>2. \/ UNCHANGED svc
      \/ svc.run # "off" /\ svc'.run # "active"
      \/ svc.run # "off" /\ svc' = Launched
  BY DEF WorkerWrites, WorkerDies, WorkerRestarts, vars, hostVars
<1> QED BY <1>1, <1>2 DEF Serving, Launched

LEMMA ServingStep ==
    ASSUME IInv, ServingWhenRegular, [Next]_vars
    PROVE  ServingWhenRegular'
<1> SUFFICES ASSUME Regular' PROVE Serving'
  BY DEF ServingWhenRegular
<1>1. Regular /\ ~missed' /\ ~Interrupt /\ ~PowerLoss
  BY IrregularForEver DEF IInv, TypeOK, Regular
<1> QED BY <1>1, CommandServes, StepServes, WorkerServes DEF ServingWhenRegular, Next, Steps

LEMMA ServingAlways == Spec => [](IInv /\ ServingWhenRegular)
<1>1. ASSUME Init PROVE Serving
  <2>1. PICK r \in Installed, run \in {"off", "active"} :
          InitWith(r, run) /\ (r = None => run = "off")
    BY <1>1 DEF Init
  <2>2. op = Idle /\ current = r /\ svc.run = run
        /\ (run = "active" => svc.release = r /\ r # None /\ db.schema = Schema[r])
    BY <1>1, <2>1 DEF Init, InitWith
  <2> QED BY <2>2 DEF Serving
<1>2. Init => ServingWhenRegular
  BY <1>1 DEF ServingWhenRegular
<1>3. IInv /\ ServingWhenRegular /\ [Next]_vars => ServingWhenRegular'
  BY ServingStep
<1> QED BY <1>2, <1>3, InvariantAlways, PTL DEF Spec

\* While nothing is interrupted and every stop meets a service that runs or is
\* off, no Worker ever runs on a schema that is not its own: the migrations and
\* the restores happen between a stop and the next start.
THEOREM WorkerServesItsSchema == Spec => []ServesOwnSchema
<1>1. IInv /\ ServingWhenRegular => ServesOwnSchema
  BY DEF ServingWhenRegular, Serving, ServesOwnSchema
<1> QED BY <1>1, ServingAlways, PTL

\* A command that failed leaves the old release running if it ran before, on its
\* own database.
THEOREM FailureKeepsServing == Spec => FailedCommandServes
<1>1. ASSUME IInv, ServingWhenRegular, [Next]_vars,
             op.pc = "undoservice", op' = Idle, op.active, Regular, crashes' = 0
      PROVE  svc'.run = "active" /\ svc'.release = op.from
  <2>1. ~Interrupt /\ ~PowerLoss
    BY <1>1, IrregularForEver DEF IInv, TypeOK, Regular
  <2>2. op # Idle /\ op \in OpType /\ Whole /\ Serving
    BY <1>1, InCommand DEF IInv, WholeUnlessInterrupted, ServingWhenRegular, Regular
  <2>3. UndoService
    <3>1. ~ UNCHANGED vars
      BY <1>1, <2>2 DEF vars
    <3>2. ~WorkerWrites /\ ~WorkerDies /\ ~WorkerRestarts
      BY <1>1, <2>2 DEF WorkerWrites, WorkerDies, WorkerRestarts
    <3>3. \A start \in BOOLEAN :
            ~Rollback(start) /\ \A r \in Releases : ~Deploy(r, start) /\ ~Import(r, start)
      BY <2>2 DEF Rollback, Deploy, Import, Given
    <3>4. ~WriteState
      BY <1>1 DEF WriteState
    <3> QED BY <1>1, <2>1, <3>1, <3>2, <3>3, <3>4
            DEF Next, Capture, Stop, Backup, Preflight, MigrateLive, RestorePrevious, Switch,
                InstallUnits, Start, Health, InstallSelf, InstallClient, Fail, UndoStop,
                UndoDatabase, UndoCurrent, UndoFiles
  <2>4. svc.run = "off" /\ op.from # None
    BY <1>1, <2>2 DEF Serving, Still
  <2>5. current = op.from /\ Runs(db, op.from)
    BY <1>1, <2>2 DEF Whole, LinkInStep, SchemaInStep
  <2> QED BY <1>1, <2>3, <2>4, <2>5 DEF UndoService, Launched, Runs
<1>2. IInv /\ ServingWhenRegular /\ [Next]_vars =>
        [op.pc = "undoservice" /\ op' = Idle /\ op.active /\ Regular /\ crashes' = 0
          => svc'.run = "active" /\ svc'.release = op.from]_vars
  BY <1>1
<1> QED BY <1>2, ServingAlways, PTL DEF Spec, FailedCommandServes

-----------------------------------------------------------------------------
(* What the installer promises. *)

\* The data that the host has, seen from outside of a command.
Data == IF Pending THEN op.backup.writes ELSE db.writes
Previously == IF state.previous = None THEN None
              ELSE [version |-> state.previous.version, data |-> state.previous.backup.writes]

LEMMA Promises ==
    /\ Promised!vars = <<state.version, Data, Previously>>
    /\ Promised!vars' = <<state'.version, Data', Previously'>>
BY DEF Promised!vars, Data, Previously

\* Within a command nothing happens that can be seen: until the state is
\* written, or everything is undone.
LEMMA NothingToSee ==
    ASSUME IInv, Steps, ~WriteState
    PROVE  state' = state /\ Data' = Data
<1> USE DEF hostVars, counters
<1>0. op \in OpType /\ op # Idle /\ Shape
  <2>1. op.pc # "idle"
    BY DEF Steps, Capture, Stop, Backup, Preflight, MigrateLive, RestorePrevious,
           Switch, InstallUnits, Start, Health, InstallSelf, InstallClient, WriteState,
           Fail, UndoStop, UndoDatabase, UndoCurrent, UndoFiles, UndoService
  <2> QED BY <2>1, InCommand DEF IInv
<1>1. state' = state
  BY DEF Steps, Capture, Stop, Backup, Preflight, MigrateLive, RestorePrevious,
         Switch, InstallUnits, Start, Health, InstallSelf, InstallClient,
         Fail, UndoStop, UndoDatabase, UndoCurrent, UndoFiles, UndoService
<1>a. ASSUME NEW step \in Step \ {"idle"}, Goto(step)
      PROVE  op' # Idle /\ op'.pc = step /\ UNCHANGED <<op.backup, op.complete>>
  BY <1>0, <1>a, GotoOnly
<1>2. CASE Capture
  <2>1. op' # Idle /\ ~op.complete /\ ~op'.complete /\ UNCHANGED db
    BY <1>0, <1>2 DEF Capture, Shape, OpType, Idle
  <2> QED BY <1>1, <2>1 DEF Data, Pending
<1>3. CASE Backup
  <2>1. /\ op' # Idle /\ ~op.complete /\ op'.backup = db /\ UNCHANGED db
        /\ op'.pc \in {"preflight", "restore"}
    BY <1>0, <1>3 DEF Backup, Shape, OpType, Idle
  <2> QED BY <1>1, <2>1 DEF Data, Pending
<1>4. CASE MigrateLive
  <2>1. op.pc = "migrate" /\ op.complete
    BY <1>0, <1>4 DEF MigrateLive, Shape
  <2>2. op' # Idle /\ op'.pc \in {"migrate", "switch"} /\ UNCHANGED <<op.backup, op.complete>>
    BY <1>0, <1>4, <1>a DEF MigrateLive, Step
  <2> QED BY <1>1, <1>0, <2>1, <2>2 DEF Data, Pending
<1>5. CASE RestorePrevious
  <2>1. op.pc = "restore" /\ op.complete /\ Goto("switch")
    BY <1>0, <1>5 DEF RestorePrevious, Shape
  <2>2. op' # Idle /\ op'.pc = "switch" /\ UNCHANGED <<op.backup, op.complete>>
    BY <1>a, <2>1 DEF Step
  <2> QED BY <1>1, <1>0, <2>1, <2>2 DEF Data, Pending
<1>6. CASE Switch
  <2>1. /\ op' # Idle /\ op.pc = "switch" /\ op'.pc = "units" /\ UNCHANGED db
        /\ UNCHANGED <<op.backup, op.complete>>
    BY <1>0, <1>6 DEF Switch, OpType, Idle
  <2> QED BY <1>1, <1>0, <2>1 DEF Data, Pending
<1>7. CASE UndoDatabase
  <2>1. op.pc = "undodb" /\ Goto("undocurrent") /\ db' = IF op.complete THEN op.backup ELSE db
    BY <1>7 DEF UndoDatabase
  <2>2. op' # Idle /\ op'.pc = "undocurrent" /\ UNCHANGED <<op.backup, op.complete>>
    BY <1>a, <2>1 DEF Step
  <2> QED BY <1>1, <1>0, <2>1, <2>2 DEF Data, Pending
<1>8. CASE UndoService
  BY <1>1, <1>8 DEF UndoService, Data, Pending
<1>9. CASE Stop \/ Preflight \/ InstallUnits \/ Start \/ Health \/ InstallSelf \/ InstallClient
           \/ Fail \/ UndoStop \/ UndoCurrent \/ UndoFiles
  <2>1. PICK step \in Step \ {"idle"} :
          /\ Goto(step)
          /\ step \in {"undocurrent", "undofiles", "undoservice"}
                <=> op.pc \in {"undocurrent", "undofiles", "undoservice"}
    <3>1. CASE Stop \/ Preflight \/ InstallUnits \/ Start
      BY <3>1 DEF Stop, Preflight, InstallUnits, Start, Step
    <3>2. CASE Health \/ InstallSelf \/ InstallClient
      BY <3>2 DEF Health, InstallSelf, InstallClient, Step
    <3>3. CASE Fail \/ UndoStop \/ UndoCurrent \/ UndoFiles
      BY <3>3 DEF Fail, UndoStop, UndoCurrent, UndoFiles, Step
    <3> QED BY <1>9, <3>1, <3>2, <3>3
  <2>2. UNCHANGED db
    BY <1>9 DEF Stop, Preflight, InstallUnits, Start, Health, InstallSelf, InstallClient,
                Fail, UndoStop, UndoCurrent, UndoFiles
  <2>3. op' # Idle /\ op'.pc = step /\ UNCHANGED <<op.backup, op.complete>>
    BY <1>a, <2>1
  <2> QED BY <1>1, <1>0, <2>1, <2>2, <2>3 DEF Data, Pending
<1> QED BY <1>1, <1>2, <1>3, <1>4, <1>5, <1>6, <1>7, <1>8, <1>9 DEF Steps

\* A command that is given changes nothing yet but what it imports.
LEMMA OnlyImports ==
    ASSUME IInv, NEW start \in BOOLEAN,
           Rollback(start) \/ \E r \in Releases : Deploy(r, start) \/ Import(r, start)
    PROVE  state' = state /\ Data \subseteq Data'
<1> USE DEF hostVars
<1>1. ASSUME NEW cmd \in {"deploy", "rollback"}, NEW r \in Releases,
             op = Idle, op' = NewOp(cmd, r, start), UNCHANGED db \/ db = NoDB
      PROVE  Data \subseteq Data'
  <2>1. ~op'.complete
    BY <1>1, NewOpFields DEF IInv
  <2> QED BY <1>1, <2>1 DEF Data, Pending, NoDB
<1>2. ASSUME NEW r \in Releases, Deploy(r, start) \/ Import(r, start)
      PROVE  state' = state /\ Data \subseteq Data'
  BY <1>1, <1>2 DEF Deploy, Import, Given
<1>3. ASSUME Rollback(start) PROVE state' = state /\ Data \subseteq Data'
  <2>1. state.previous.version \in Releases
    BY <1>3 DEF Rollback, IInv, TypeOK, Previous
  <2> QED BY <1>1, <1>3, <2>1 DEF Rollback, Given
<1> QED BY <1>2, <1>3

\* When the state is written the command has happened, all of it.
LEMMA WrittenAtOnce ==
    ASSUME IInv, Whole, WriteState
    PROVE  Promised!Next
<1>0. /\ op \in OpType /\ op # Idle /\ op.pc = "write" /\ op.complete
      /\ op.target \in Releases /\ op.from \in Maybe /\ op.backup.writes \subseteq Writes
      /\ op.from = state.version /\ op' = Idle
      /\ state'.version = op.target /\ state'.previous = NewPrevious /\ db' = db
  <2>1. op.pc = "write" /\ op' = Idle /\ state' = [version |-> op.target, previous |-> NewPrevious]
        /\ db' = db
    BY DEF WriteState
  <2>2. op \in OpType /\ op # Idle /\ op.complete
    BY <2>1, InCommand DEF IInv, Shape, Made, After
  <2> QED BY <2>1, <2>2 DEF OpType, DB, Whole, WayBack
<1>1. Data = op.backup.writes /\ Data' = db.writes
  BY <1>0 DEF Data, Pending
<1>2. ASSUME NewPrevious = [version |-> op.from, backup |-> op.backup, client |-> op.files.client],
             op.from # None
      PROVE  Previously' = [version |-> state.version, data |-> Data]
  <2>1. NewPrevious \in Previous
    BY <1>0, <1>2 DEF Previous, OpType, Files, Maybe
  <2> QED BY <1>0, <1>1, <1>2, <2>1, NoneIsNoRecord DEF Previously
<1>3. CASE op.cmd = "deploy"
  <2>1. Data \subseteq Data'
    BY <1>0, <1>1, <1>3 DEF IInv, Carried, Made, After
  <2>2. Previously' = IF state.version \in {None, op.target} THEN Previously
                      ELSE [version |-> state.version, data |-> Data]
    <3>1. CASE state.version \in {None, op.target}
      BY <1>0, <1>3, <3>1 DEF NewPrevious, Previously
    <3>2. CASE state.version \notin {None, op.target}
      BY <1>0, <1>2, <1>3, <3>2 DEF NewPrevious
    <3> QED BY <3>1, <3>2
  <2>3. Promised!Deploy(op.target)
    BY <1>0, <2>1, <2>2 DEF Promised!Deploy, Data, Previously
  <2> QED BY <1>0, <2>3 DEF Promised!Next
<1>4. CASE op.cmd = "rollback"
  <2>1. /\ state.previous # None /\ op.from # None /\ op.target = state.previous.version
        /\ state.previous \in Previous
    BY <1>0, <1>4 DEF IInv, Shape, TypeOK
  <2>2. Previously = [version |-> op.target, data |-> state.previous.backup.writes]
    BY <2>1 DEF Previously
  <2>3. Previously # None
    BY <1>0, <2>1, <2>2, NoneIsNoRecord DEF Previous, DB
  <2>4. Previously.data \subseteq Data'
    BY <1>0, <1>1, <1>4, <2>2 DEF IInv, Carried, Made, After
  <2>5. Previously' = [version |-> state.version, data |-> Data]
    BY <1>0, <1>2, <1>4, <2>1 DEF NewPrevious
  <2>6. Promised!Rollback
    BY <1>0, <2>2, <2>3, <2>4, <2>5 DEF Promised!Rollback, Data, Previously
  <2> QED BY <2>6 DEF Promised!Next
<1> QED BY <1>0, <1>3, <1>4 DEF OpType

\* The installer keeps the promise of docs/deployment.md: a deployment or a
\* rollback that nothing interrupts is one step, or none at all when it fails;
\* an upgrade keeps the data and remembers those before it, and a rollback
\* brings them back.
THEOREM ImplementsDeployment == Spec => RefinesDeployment
<1>1. ASSUME Init PROVE Promised!Init
  <2>1. state.version \in Releases \cup {None} /\ state.previous = None
    BY <1>1, InstallerAssumption DEF Init, InitWith
  <2> QED BY <2>1 DEF Promised!Init
<1>2. ASSUME IInv, [Next]_vars, crashes' = 0
      PROVE  Promised!Next \/ UNCHANGED Promised!vars
  <2>1. ~Interrupt /\ ~PowerLoss /\ Whole
    BY <1>2, IrregularForEver DEF IInv, TypeOK, WholeUnlessInterrupted
  <2>2. ASSUME state' = state, Data \subseteq Data' PROVE Promised!Next
    <3>1. Previously' = Previously
      BY <2>2 DEF Previously
    <3>2. Promised!Work
      BY <2>2, <3>1 DEF Promised!Work, Data, Previously
    <3> QED BY <3>2 DEF Promised!Next
  <2>3. CASE \E start \in BOOLEAN :
                Rollback(start) \/ \E r \in Releases : Deploy(r, start) \/ Import(r, start)
    BY <1>2, <2>2, <2>3, OnlyImports
  <2>4. CASE WorkerWrites
    <3>1. db.writes \subseteq db'.writes /\ UNCHANGED <<state, op>>
      BY <1>2, <2>4 DEF WorkerWrites, IInv, TypeOK, DB
    <3> QED BY <2>2, <3>1 DEF Data, Pending
  <2>5. CASE WorkerDies \/ WorkerRestarts \/ UNCHANGED vars
    <3>1. UNCHANGED <<db, state, op>>
      BY <2>5 DEF WorkerDies, WorkerRestarts, vars, hostVars
    <3> QED BY <2>2, <3>1 DEF Data, Pending
  <2>6. CASE Steps /\ ~WriteState
    BY <1>2, <2>2, <2>6, NothingToSee
  <2>7. CASE WriteState
    BY <1>2, <2>1, <2>7, WrittenAtOnce
  <2> QED BY <1>2, <2>1, <2>3, <2>4, <2>5, <2>6, <2>7 DEF Next, Steps
<1>3. IInv /\ [Next]_vars => [crashes' = 0 => Promised!Next]_(Promised!vars)
  BY <1>2
<1> QED BY <1>1, <1>3, InvariantAlways, PTL DEF Spec, RefinesDeployment

=============================================================================
