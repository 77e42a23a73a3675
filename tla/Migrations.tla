----------------------------- MODULE Migrations -----------------------------
(***************************************************************************)
(* The migration runner of database/migrations.py: migrate_database, run   *)
(* by hand and by the installer, perhaps twice at once and from different  *)
(* releases, and require_current_schema, run by a Worker that starts.      *)
(*                                                                         *)
(* A script is known by its content, that is by its name and checksum.  A  *)
(* release is the sequence discover_migrations returns: version v is its   *)
(* v-th script.  A step is one SQL read, one statement or group of         *)
(* statements inside a transaction, or a COMMIT.                           *)
(***************************************************************************)
EXTENDS Naturals, Sequences, FiniteSets

CONSTANTS
    Migrators,   \* processes that run `db migrate`
    Servers,     \* Worker processes
    Scripts,     \* the contents of migration files
    Release,     \* [Migrators \cup Servers -> Seq(Scripts)]
    Repeatable,  \* scripts that do not fail on a database they already changed
    Origins,     \* the databases that exist before
    MaxFaults,   \* bound: how many processes die or get an error from SQLite
    None         \* nobody

Procs == Migrators \cup Servers

ASSUME MigrationsAssumption ==
    /\ Migrators \cap Servers = {}
    /\ Release \in [Procs -> Seq(Scripts)]
    /\ \A p \in Procs : Release[p] # <<>>
    /\ Repeatable \subseteq Scripts
    /\ MaxFaults \in Nat
    /\ None \notin Procs

\* A database.  applied: the scripts whose effects are in it, in order;
\* whole: does it have every required column and index?  table and rows: the
\* table schema_migrations and its rows.
Row      == [version: Nat, script: Scripts]
Database == [applied: Seq(Scripts), whole: BOOLEAN, table: BOOLEAN,
             rows: SUBSET Row]

VARIABLES
    db,      \* the committed database
    lock,    \* who is between BEGIN IMMEDIATE and COMMIT or ROLLBACK
    draft,   \* the database as that process sees it
    pc,      \* the step of each process
    tables,  \* what _user_tables returned: history table? business tables?
    hist,    \* what _read_history returned
    faults   \* bookkeeping of the bound

vars == <<db, lock, draft, pc, tables, hist, faults>>

MigrateStep == {"idle", "history", "adopt", "adoptbegin", "createbegin",
                "applybegin", "adoptwrite", "createwrite", "script", "insert",
                "adoptcommit", "createcommit", "applycommit", "readopt",
                "reread", "final", "status", "done", "failed"}
ServeStep   == {"idle", "require", "serving", "failed"}

InTransaction == {"adoptwrite", "createwrite", "script", "insert",
                  "adoptcommit", "createcommit", "applycommit"}

\* Types; and a transaction is open exactly while its process is in one.
TypeOK ==
    /\ db \in Database /\ draft \in Database
    /\ lock \in Migrators \cup {None}
    /\ pc \in [Procs -> MigrateStep \cup ServeStep]
    /\ tables \in [Migrators -> [table: BOOLEAN, business: BOOLEAN]]
    /\ hist \in [Migrators -> SUBSET Row]
    /\ faults \in Nat
    /\ \A m \in Migrators : lock = m <=> pc[m] \in InTransaction
    /\ lock = None => draft = db

-----------------------------------------------------------------------------
VersionsOf(rows) == {r.version : r \in rows}
RowsOf(p)        == {[version |-> v, script |-> Release[p][v]] : v \in 1..Len(Release[p])}
Pending(p, rows) == (1..Len(Release[p])) \ VersionsOf(rows)
NextVersion(p)   == CHOOSE v \in Pending(p, hist[p]) : \A w \in Pending(p, hist[p]) : v <= w

\* _validate_history: every recorded version is known to the program, with
\* the same name and checksum, and no version is missing in between.
ValidHistoryAnyScript(p, rows) ==
    /\ VersionsOf(rows) \subseteq 1..Len(Release[p])
    /\ VersionsOf(rows) = 1..Cardinality(VersionsOf(rows))
ValidHistory(p, rows) ==
    /\ rows \subseteq RowsOf(p)
    /\ VersionsOf(rows) = 1..Cardinality(VersionsOf(rows))

\* validate_existing_schema; the columns and indexes it requires are all
\* created by version 1.
ValidSchema(d) == d.applied # <<>> /\ d.whole

\* The database a history of rows describes, what took effect, and the
\* databases of which the history does not tell that.
Described(rows) == {<<r.version, r.script>> : r \in rows}
EffectsOf(d)    == {<<i, d.applied[i]>> : i \in 1..Len(d.applied)}
Tampered == {d \in Origins : d.rows # {} /\ Described(d.rows) # EffectsOf(d)}

\* What may be there before: a complete database from before the runner is at
\* version 1, which every release begins with; a history somebody wrote that is
\* not what took effect is one that no release accepts (its checksums).
ASSUME OriginsAssumption ==
    \A d \in Origins :
        /\ d \in Database
        /\ d.rows # {} => d.table
        /\ ~d.table /\ ValidSchema(d) => \A m \in Migrators : d.applied = <<Release[m][1]>>
        /\ d \in Tampered => \A m \in Migrators : ~ValidHistory(m, d.rows)

\* schema_status: a database whose tables are business tables without a
\* recorded migration is "untracked"; one that _validate_history refuses is
\* an error.
Status(p, d) ==
    IF d.applied = <<>> /\ d.rows = {} THEN "empty"
    ELSE IF d.rows = {} THEN "untracked"
    ELSE IF ~ValidHistory(p, d.rows) THEN "error"
    ELSE IF Pending(p, d.rows) = {} THEN "current" ELSE "pending"

Init ==
    /\ db \in Origins
    /\ lock = None
    /\ draft = db
    /\ pc = [p \in Procs |-> "idle"]
    /\ tables = [m \in Migrators |-> [table |-> FALSE, business |-> FALSE]]
    /\ hist = [m \in Migrators |-> {}]
    /\ faults = 0

-----------------------------------------------------------------------------
(* migrate_database: the reads before its transactions. *)

Goto(p, step) == pc' = [pc EXCEPT ![p] = step]

\* The loop over the migrations, after a history it has just read.
LoopStep(m, rows) == IF Pending(m, rows) = {} THEN "final" ELSE "applybegin"

ReadTables(m) ==
    /\ pc[m] = "idle"
    /\ tables' = [tables EXCEPT ![m] = [table |-> db.table, business |-> db.applied # <<>>]]
    /\ Goto(m, "history")
    /\ UNCHANGED <<db, lock, draft, hist, faults>>

\* The history is read after the tables: another migrator may have come
\* between.  Business tables with an empty history are refused.
EntryNoEmptyTable(m, t, rows) ==
    IF t.business /\ ~t.table THEN "adopt"
    ELSE IF rows = {} /\ t.table THEN "failed"
    ELSE IF ~t.table THEN "createbegin"
    ELSE IF ValidHistory(m, rows) THEN LoopStep(m, rows) ELSE "failed"
Entry(m, t, rows) ==
    IF t.business /\ ~t.table THEN "adopt"
    ELSE IF rows = {} /\ t.business THEN "failed"
    ELSE IF ~t.table THEN "createbegin"
    ELSE IF ValidHistory(m, rows) THEN LoopStep(m, rows) ELSE "failed"

ReadHistory(m) ==
    /\ pc[m] = "history"
    /\ hist' = [hist EXCEPT ![m] = db.rows]
    /\ Goto(m, Entry(m, tables[m], db.rows))
    /\ UNCHANGED <<db, lock, draft, tables, faults>>

AdoptValidate(m) ==
    /\ pc[m] = "adopt"
    /\ Goto(m, IF ValidSchema(db) THEN "adoptbegin" ELSE "failed")
    /\ UNCHANGED <<db, lock, draft, tables, hist, faults>>

-----------------------------------------------------------------------------
(* Its transactions. *)

\* BEGIN IMMEDIATE
Begin(m) ==
    /\ lock = None
    /\ lock' = m /\ draft' = db
    /\ \/ pc[m] = "adoptbegin"  /\ Goto(m, "adoptwrite")
       \/ pc[m] = "createbegin" /\ Goto(m, "createwrite")
       \/ pc[m] = "applybegin"  /\ Goto(m, "script")
    /\ UNCHANGED <<db, tables, hist, faults>>

\* The lock is not free within busy_timeout.
Busy(m) ==
    /\ lock \notin {None, m}
    /\ pc[m] \in {"adoptbegin", "createbegin", "applybegin"}
    /\ Goto(m, "failed")
    /\ UNCHANGED <<db, lock, draft, tables, hist, faults>>

\* The except clause: ROLLBACK and raise.
Rollback(m) == lock' = None /\ draft' = db /\ Goto(m, "failed")

FirstRow(m) == [version |-> 1, script |-> Release[m][1]]

\* CREATE TABLE schema_migrations fails when another migrator created it since.
AdoptWrite(m) ==
    /\ pc[m] = "adoptwrite"
    /\ IF draft.table THEN Rollback(m)
       ELSE /\ draft' = [draft EXCEPT !.table = TRUE, !.rows = {FirstRow(m)}]
            /\ Goto(m, "adoptcommit") /\ UNCHANGED lock
    /\ UNCHANGED <<db, tables, hist, faults>>

CreateWrite(m) ==
    /\ pc[m] = "createwrite"
    /\ IF draft.table THEN Rollback(m)
       ELSE /\ draft' = [draft EXCEPT !.table = TRUE]
            /\ Goto(m, "createcommit") /\ UNCHANGED lock
    /\ UNCHANGED <<db, tables, hist, faults>>

\* A script fails when its tables, columns or indexes are there already, or
\* when those it changes are not.
Runs(m, v) ==
    LET s == Release[m][v] IN
    /\ \/ s \in Repeatable
       \/ \A i \in 1..Len(draft.applied) : draft.applied[i] # s
    /\ Len(draft.applied) >= v - 1

AfterScript(m) ==
    [draft EXCEPT !.applied = Append(@, Release[m][NextVersion(m)]),
                  !.whole = IF draft.applied = <<>> THEN TRUE ELSE @]

\* _apply_one.  The authorizer denies COMMIT, so the effects stay in the draft.
ApplyOneCommits(m) ==
    /\ pc[m] = "script"
    /\ IF Runs(m, NextVersion(m))
       THEN draft' = AfterScript(m) /\ db' = draft' /\ Goto(m, "insert") /\ UNCHANGED lock
       ELSE Rollback(m) /\ UNCHANGED db
    /\ UNCHANGED <<tables, hist, faults>>
ApplyOne(m) ==
    /\ pc[m] = "script"
    /\ IF Runs(m, NextVersion(m))
       THEN draft' = AfterScript(m) /\ Goto(m, "insert") /\ UNCHANGED lock
       ELSE Rollback(m)
    /\ UNCHANGED <<db, tables, hist, faults>>

NextRow(m) == [version |-> NextVersion(m), script |-> Release[m][NextVersion(m)]]

\* INSERT INTO schema_migrations: version is the primary key.
Insert(m) ==
    /\ pc[m] = "insert"
    /\ IF NextVersion(m) \in VersionsOf(draft.rows) THEN Rollback(m)
       ELSE /\ draft' = [draft EXCEPT !.rows = @ \cup {NextRow(m)}]
            /\ Goto(m, "applycommit") /\ UNCHANGED lock
    /\ UNCHANGED <<db, tables, hist, faults>>

Commit(m) ==
    /\ db' = draft /\ lock' = None
    /\ \/ pc[m] = "adoptcommit"  /\ Goto(m, "readopt") /\ UNCHANGED hist
       \/ /\ pc[m] = "createcommit" /\ Goto(m, "applybegin")
          /\ hist' = [hist EXCEPT ![m] = {}]
       \/ pc[m] = "applycommit"  /\ Goto(m, "reread") /\ UNCHANGED hist
    /\ UNCHANGED <<draft, tables, faults>>

\* After the adoption the history is validated, after a migration it is not.
Reread(m) ==
    /\ hist' = [hist EXCEPT ![m] = db.rows]
    /\ \/ /\ pc[m] = "readopt"
          /\ Goto(m, IF ValidHistory(m, db.rows) THEN LoopStep(m, db.rows) ELSE "failed")
       \/ pc[m] = "reread" /\ Goto(m, LoopStep(m, db.rows))
    /\ UNCHANGED <<db, lock, draft, tables, faults>>

\* The last validation is of the history as it was last read ...
Final(m) ==
    /\ pc[m] = "final"
    /\ Goto(m, IF ValidHistory(m, hist[m]) /\ ValidSchema(db) THEN "status" ELSE "failed")
    /\ UNCHANGED <<db, lock, draft, tables, hist, faults>>

\* ... and schema_status, whose result is returned, reads it once more.
ReturnBlind(m) ==
    /\ pc[m] = "status"
    /\ Goto(m, "done")
    /\ UNCHANGED <<db, lock, draft, tables, hist, faults>>
Return(m) ==
    /\ pc[m] = "status"
    /\ Goto(m, IF Status(m, db) = "error" THEN "failed" ELSE "done")
    /\ UNCHANGED <<db, lock, draft, tables, hist, faults>>

-----------------------------------------------------------------------------
(* A Worker that starts: require_current_schema. *)

ReadStatusPending(s) ==
    /\ pc[s] = "idle"
    /\ Goto(s, IF Status(s, db) \in {"current", "pending"} THEN "require" ELSE "failed")
    /\ UNCHANGED <<db, lock, draft, tables, hist, faults>>
ReadStatus(s) ==
    /\ pc[s] = "idle"
    /\ Goto(s, IF Status(s, db) = "current" THEN "require" ELSE "failed")
    /\ UNCHANGED <<db, lock, draft, tables, hist, faults>>

RequireSchema(s) ==
    /\ pc[s] = "require"
    /\ Goto(s, IF ValidSchema(db) THEN "serving" ELSE "failed")
    /\ UNCHANGED <<db, lock, draft, tables, hist, faults>>

-----------------------------------------------------------------------------
\* A process is killed or SQLite returns an error; SQLite rolls back what it
\* had not committed.
DiesLocked(p) ==
    /\ faults < MaxFaults
    /\ pc[p] \notin {"idle", "done", "failed"}
    /\ faults' = faults + 1
    /\ Goto(p, "failed")
    /\ UNCHANGED <<db, lock, draft, tables, hist>>
Dies(p) ==
    /\ faults < MaxFaults
    /\ pc[p] \notin {"idle", "done", "failed"}
    /\ faults' = faults + 1
    /\ Goto(p, "failed")
    /\ IF lock = p THEN lock' = None /\ draft' = db ELSE UNCHANGED <<lock, draft>>
    /\ UNCHANGED <<db, tables, hist>>

\* The command is given again; systemd starts the Worker again.
Retry(p) ==
    /\ pc[p] = "failed"
    /\ Goto(p, "idle")
    /\ UNCHANGED <<db, lock, draft, tables, hist, faults>>

Migrate(m) ==
    \/ ReadTables(m) \/ ReadHistory(m) \/ AdoptValidate(m)
    \/ Begin(m) \/ Busy(m) \/ AdoptWrite(m) \/ CreateWrite(m)
    \/ ApplyOne(m) \/ Insert(m) \/ Commit(m) \/ Reread(m) \/ Final(m) \/ Return(m)

Start(s) == ReadStatus(s) \/ RequireSchema(s)

Next ==
    \/ \E m \in Migrators : Migrate(m)
    \/ \E s \in Servers : Start(s)
    \/ \E p \in Procs : Dies(p) \/ Retry(p)

Spec == Init /\ [][Next]_vars

\* A process goes on, and a command that failed is given again.
FairSpec == Spec /\ \A m \in Migrators : WF_vars(Migrate(m)) /\ WF_vars(Retry(m))

-----------------------------------------------------------------------------
(* Properties. *)

\* All or nothing (migrate_database, one transaction for each migration): in a
\* database with a history, the scripts that took effect are those of the
\* history, in its order and each once, whatever crashed or ran beside.  A
\* database the runner did not write (Tampered) is left out.
HistoryTellsSchema ==
    db.rows # {} => Described(db.rows) = EffectsOf(db) \/ db \in Tampered

\* A program changes only a database it understands: one whose history, when
\* the change commits, is a part of its own migrations, and which has either
\* no tables at all, or a history, or the complete schema of version 1.
Understands(m, d) ==
    /\ \E n \in 0..Len(Release[m]) : d.rows = {r \in RowsOf(m) : r.version <= n}
    /\ d.rows = {} => d.applied = <<>> \/ (~d.table /\ ValidSchema(d))
OnlyUnderstoodChanges ==
    [][db' # db => \E m \in Migrators : pc[m] # pc'[m] /\ Understands(m, db)]_vars

\* A migration that returns leaves the database at exactly its release, and
\* complete, although the history it last validated may be an old one.
SuccessMeansCurrent ==
    [][\A m \in Migrators : pc[m] # "done" /\ pc'[m] = "done" =>
        Described(db.rows) = {<<v, Release[m][v]>> : v \in 1..Len(Release[m])} /\ ValidSchema(db)]_vars

\* A Worker serves on no database that lacks one of its migrations.
ServedSchemaComplete ==
    \A s \in Servers : pc[s] = "serving" => RowsOf(s) \subseteq db.rows /\ db.whole

\* Every interrupted or disturbed migration can be completed by giving the
\* command again: a database that all migrators understand gets the longest of
\* their releases.
AllUnderstand == \A m \in Migrators : Understands(m, db)
Completed     == \A m \in Migrators : RowsOf(m) \subseteq db.rows
MigrationCompletes == AllUnderstand ~> Completed
=============================================================================
