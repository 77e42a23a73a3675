------------------------- MODULE MigrationsProofs --------------------------
(***************************************************************************)
(* Proofs about Migrations, for any releases, migrators, Workers, deaths   *)
(* and databases that OriginsAssumption allows.                            *)
(***************************************************************************)
EXTENDS Migrations, SequenceTheorems, WellFoundedInduction, TLAPS

-----------------------------------------------------------------------------
(* Versions. *)

LEMMA LeastExists ==
    ASSUME NEW S \in SUBSET Nat, S # {}
    PROVE  \E v \in S : \A w \in S : v <= w
<1> DEFINE R == OpToRel(<, Nat)
<1>1. PICK v \in S : \A w \in S : <<w, v>> \notin R
  <2>1. IsWellFoundedOn(R, Nat)
    BY NatLessThanWellFounded
  <2> HIDE DEF R
  <2> QED BY <2>1, WFMin
<1>2. \A w \in S : ~ (w < v)
  BY <1>1 DEF OpToRel
<1> QED BY <1>2

\* The next migration of a process that has one to apply.
LEMMA NextVersionType ==
    ASSUME NEW m \in Migrators, Pending(m, hist[m]) # {}
    PROVE  /\ NextVersion(m) \in 1..Len(Release[m])
           /\ Release[m][NextVersion(m)] \in Scripts
<1>1. Release[m] \in Seq(Scripts)
  BY MigrationsAssumption DEF Procs
<1>2. Pending(m, hist[m]) \in SUBSET Nat /\ Pending(m, hist[m]) \subseteq 1..Len(Release[m])
  BY <1>1 DEF Pending
<1>3. \E v \in Pending(m, hist[m]) : \A w \in Pending(m, hist[m]) : v <= w
  BY <1>2, LeastExists
<1>4. NextVersion(m) \in Pending(m, hist[m])
  BY <1>3 DEF NextVersion
<1> QED BY <1>1, <1>2, <1>4

LEMMA FirstRowType ==
    ASSUME NEW m \in Migrators
    PROVE  Release[m][1] \in Scripts /\ FirstRow(m) \in Row /\ 1 \in 1..Len(Release[m])
<1>1. Release[m] \in Seq(Scripts) /\ Release[m] # <<>>
  BY MigrationsAssumption DEF Procs
<1>2. Len(Release[m]) \in Nat /\ Len(Release[m]) # 0
  BY <1>1, EmptySeq
<1>3. Release[m][1] \in Scripts
  BY <1>1, <1>2
<1> QED BY <1>2, <1>3 DEF FirstRow, Row

-----------------------------------------------------------------------------
(* Histories and what took effect. *)

\* The history of this database is what took effect.
Tracked(d) == d.table /\ Described(d.rows) = EffectsOf(d)

Effects(a) == {<<i, a[i]>> : i \in 1..Len(a)}

\* A script that ran on a true history and has no row in it is the next one.
LEMMA FollowsOn ==
    ASSUME NEW rows, NEW a \in Seq(Scripts), NEW v \in Nat, v >= 1,
           v \notin VersionsOf(rows), Len(a) >= v - 1, Described(rows) = Effects(a)
    PROVE  v = Len(a) + 1
<1>1. SUFFICES ASSUME v \in 1..Len(a) PROVE FALSE
  OBVIOUS
<1>2. <<v, a[v]>> \in Described(rows)
  BY <1>1 DEF Effects
<1>3. PICK r \in rows : <<v, a[v]>> = <<r.version, r.script>>
  BY <1>2 DEF Described
<1>4. r.version = v
  BY <1>3
<1> QED BY <1>4 DEF VersionsOf

\* A script that ran and its row: the history stays what took effect.
LEMMA Extended ==
    ASSUME NEW rows \in SUBSET Row, NEW a \in Seq(Scripts), NEW s \in Scripts, NEW v \in Nat,
           v >= 1, v \notin VersionsOf(rows), Len(a) >= v - 1,
           Described(rows) = Effects(a)
    PROVE  Described(rows \cup {[version |-> v, script |-> s]}) = Effects(Append(a, s))
<1>1. v = Len(a) + 1
  BY FollowsOn
<1> DEFINE b == Append(a, s)
<1>2. /\ Len(b) = Len(a) + 1 /\ b[Len(a) + 1] = s
      /\ \A i \in 1..Len(a) : b[i] = a[i]
  OBVIOUS
<1>3. 1..Len(b) = (1..Len(a)) \cup {v}
  BY <1>1, <1>2
<1> HIDE DEF b
<1>4. Effects(b) = Effects(a) \cup {<<v, s>>}
  BY <1>1, <1>2, <1>3 DEF Effects
<1>5. Described(rows \cup {[version |-> v, script |-> s]}) = Described(rows) \cup {<<v, s>>}
  <2> DEFINE new == [version |-> v, script |-> s]
  <2>1. new.version = v /\ new.script = s
    OBVIOUS
  <2> HIDE DEF new
  <2>2. {<<r.version, r.script>> : r \in rows \cup {new}}
          = {<<r.version, r.script>> : r \in rows} \cup {<<new.version, new.script>>}
    BY Zenon
  <2> QED BY <2>1, <2>2 DEF Described, new
<1> QED BY <1>4, <1>5 DEF b

\* The rows of a history that a release is current for are all of its rows.
LEMMA CurrentRows ==
    ASSUME NEW p \in Procs, NEW rows \in SUBSET Row, ValidHistory(p, rows), Pending(p, rows) = {}
    PROVE  RowsOf(p) \subseteq rows
<1> SUFFICES ASSUME NEW v \in 1..Len(Release[p])
             PROVE  [version |-> v, script |-> Release[p][v]] \in rows
  BY DEF RowsOf
<1>1. PICK r \in rows : r.version = v
  BY DEF Pending, VersionsOf
<1>2. PICK w \in 1..Len(Release[p]) : r = [version |-> w, script |-> Release[p][w]]
  BY <1>1 DEF ValidHistory, RowsOf
<1>3. w = v
  BY <1>1, <1>2
<1> QED BY <1>1, <1>2, <1>3

-----------------------------------------------------------------------------
(* The inductive invariant. *)

Before   == {"history", "adopt", "adoptbegin", "adoptwrite", "createbegin", "createwrite"}
Tracking == {"applybegin", "script", "insert", "applycommit", "readopt", "reread"}

\* What the tables and the history a migrator has read still say of the
\* database: before there is a history table nobody changes anything, and when
\* there is one, whoever is about to apply a migration knows a true history.
Reads(m) ==
    /\ pc[m] = "history" /\ tables[m].table =>
          db.table /\ (~tables[m].business => Tracked(db) \/ db \in Tampered)
    /\ pc[m] \in Before /\ ~db.table =>
          ~tables[m].table /\ (tables[m].business <=> db.applied # <<>>)
    /\ pc[m] \in {"adopt", "adoptbegin", "adoptwrite"} => tables[m].business
    /\ pc[m] \in {"adoptbegin", "adoptwrite"} /\ ~db.table => ValidSchema(db)
    /\ pc[m] \in {"createbegin", "createwrite"} => ~tables[m].business
    /\ pc[m] \in Tracking => Tracked(db)
    /\ pc[m] \in {"applybegin", "script", "insert"} => Pending(m, hist[m]) # {}
    /\ pc[m] \in {"final", "status"} => Pending(m, hist[m]) = {} /\ hist[m] \subseteq db.rows
    /\ pc[m] = "status" => ValidHistory(m, hist[m]) /\ ValidSchema(db)

\* What the open transaction has done.
Writes(m) ==
    /\ pc[m] \in {"adoptwrite", "createwrite", "script"} => draft = db
    /\ pc[m] = "insert" =>
          /\ Len(db.applied) >= NextVersion(m) - 1
          /\ draft.table = db.table /\ draft.rows = db.rows
          /\ draft.applied = Append(db.applied, Release[m][NextVersion(m)])
    /\ pc[m] \in {"adoptcommit", "createcommit", "applycommit"} => Tracked(draft)
    /\ pc[m] = "adoptcommit"  => ~db.table /\ ValidSchema(db) /\ draft.rows = {FirstRow(m)}
    /\ pc[m] = "createcommit" => ~db.table /\ db.applied = <<>> /\ draft.rows = {}
    /\ pc[m] = "applycommit"  =>
          /\ Len(db.applied) < Len(Release[m])
          /\ \E v \in 1..Len(Release[m]) :
                draft.rows = db.rows \cup {[version |-> v, script |-> Release[m][v]]}

\* The database is one of those there were, or its history is true; no
\* transaction takes anything away.
Grows ==
    /\ db \in Origins \/ Tracked(db)
    /\ ~db.table => db \in Origins
    /\ db.rows \subseteq draft.rows
    /\ db.whole => draft.whole
    /\ db.applied # <<>> => draft.applied # <<>>

\* A Worker that got past require_current_schema.
Served ==
    \A s \in Servers :
        /\ pc[s] \in {"require", "serving"} => RowsOf(s) \subseteq db.rows
        /\ pc[s] = "serving" => db.whole

Inv ==
    /\ TypeOK /\ Grows /\ Served
    /\ \A m \in Migrators : Reads(m)
    /\ \A m \in Migrators : lock = m => Writes(m)

-----------------------------------------------------------------------------
(* The kinds of steps. *)

LEMMA GotoEffect ==
    ASSUME TypeOK, NEW p \in Procs, NEW step \in MigrateStep \cup ServeStep, Goto(p, step)
    PROVE  /\ pc' \in [Procs -> MigrateStep \cup ServeStep]
           /\ pc'[p] = step
           /\ \A q \in Procs : q # p => pc'[q] = pc[q]
BY DEF TypeOK, Goto

\* What others have read stays true while nothing is committed.
LEMMA OthersRead ==
    ASSUME NEW q \in Migrators, Reads(q), db' = db,
           pc'[q] = pc[q], tables'[q] = tables[q], hist'[q] = hist[q]
    PROVE  Reads(q)'
BY DEF Reads, Tracked, ValidSchema, Pending, ValidHistory

LEMMA OthersWrite ==
    ASSUME NEW q \in Migrators, Writes(q), db' = db, draft' = draft,
           pc'[q] = pc[q], hist'[q] = hist[q]
    PROVE  Writes(q)'
BY DEF Writes, Tracked, NextVersion, Pending, ValidSchema

\* Outside a transaction.
LEMMA ReadStep ==
    ASSUME Inv, NEW m \in Migrators, NEW step \in MigrateStep, Goto(m, step),
           UNCHANGED <<db, lock, draft>>, pc[m] \notin InTransaction, step \notin InTransaction,
           tables' \in [Migrators -> [table: BOOLEAN, business: BOOLEAN]],
           hist' \in [Migrators -> SUBSET Row], faults' \in Nat,
           \A q \in Migrators : q # m => tables'[q] = tables[q] /\ hist'[q] = hist[q],
           Reads(m)'
    PROVE  Inv'
<1>1. m \in Procs /\ m \notin Servers /\ step \in MigrateStep \cup ServeStep
  BY MigrationsAssumption DEF Procs
<1>2. /\ pc' \in [Procs -> MigrateStep \cup ServeStep]
      /\ pc'[m] = step
      /\ \A q \in Procs : q # m => pc'[q] = pc[q]
  BY <1>1, GotoEffect DEF Inv
<1>3. \A q \in Migrators : q # m => pc'[q] = pc[q]
  BY <1>2 DEF Procs
<1>4. lock # m
  BY DEF Inv, TypeOK
<1>5. TypeOK'
  BY <1>2, <1>3, <1>4 DEF Inv, TypeOK
<1>6. Grows'
  BY DEF Inv, Grows, Tracked
<1>7. Served'
  BY <1>1, <1>2 DEF Inv, Served, Procs
<1>8. \A q \in Migrators : Reads(q)'
  BY <1>3, OthersRead DEF Inv
<1>9. \A q \in Migrators : lock' = q => Writes(q)'
  BY <1>3, <1>4, OthersWrite DEF Inv
<1> QED BY <1>5, <1>6, <1>7, <1>8, <1>9 DEF Inv

\* BEGIN, and the statements of a transaction.
LEMMA WriteStep ==
    ASSUME Inv, NEW m \in Migrators, NEW step \in InTransaction, Goto(m, step),
           lock \in {None, m}, lock' = m, UNCHANGED <<db, tables, hist, faults>>,
           draft' \in Database, db.rows \subseteq draft'.rows, db.whole => draft'.whole,
           db.applied # <<>> => draft'.applied # <<>>,
           Reads(m)', Writes(m)'
    PROVE  Inv'
<1>1. /\ m \in Procs /\ m \notin Servers /\ m # None
      /\ step \in MigrateStep /\ step \in MigrateStep \cup ServeStep
  BY MigrationsAssumption DEF Procs, InTransaction, MigrateStep
<1>2. /\ pc' \in [Procs -> MigrateStep \cup ServeStep]
      /\ pc'[m] = step
      /\ \A q \in Procs : q # m => pc'[q] = pc[q]
  BY <1>1, GotoEffect DEF Inv
<1>3. \A q \in Migrators : q # m => pc'[q] = pc[q]
  BY <1>2 DEF Procs
<1>4. TypeOK'
  <2>1. None \notin Migrators
    BY MigrationsAssumption DEF Procs
  <2>2. \A q \in Migrators : lock' = q <=> pc'[q] \in InTransaction
    BY <1>2, <1>3, <2>1 DEF Inv, TypeOK
  <2> QED BY <1>1, <1>2, <2>2 DEF Inv, TypeOK
<1>5. Grows'
  BY DEF Inv, Grows, Tracked
<1>6. Served'
  BY <1>1, <1>2 DEF Inv, Served, Procs
<1>7. \A q \in Migrators : Reads(q)'
  BY <1>3, OthersRead DEF Inv
<1> QED BY <1>4, <1>5, <1>6, <1>7 DEF Inv

\* ROLLBACK, by the process or because it dies.
LEMMA RollbackStep ==
    ASSUME Inv, NEW m \in Migrators, Rollback(m), lock = m, UNCHANGED <<db, tables, hist>>,
           faults' \in Nat
    PROVE  Inv'
<1>1. /\ m \in Procs /\ m \notin Servers /\ m # None
      /\ "failed" \in MigrateStep \cup ServeStep
  BY MigrationsAssumption DEF Procs, MigrateStep
<1>2. /\ pc' \in [Procs -> MigrateStep \cup ServeStep]
      /\ pc'[m] = "failed"
      /\ \A q \in Procs : q # m => pc'[q] = pc[q]
      /\ lock' = None /\ draft' = db
  BY <1>1, GotoEffect DEF Inv, Rollback
<1>3. \A q \in Migrators : q # m => pc'[q] = pc[q]
  BY <1>2 DEF Procs
<1>4. None \notin Migrators
  BY MigrationsAssumption DEF Procs
<1>5. TypeOK'
  BY <1>1, <1>2, <1>3, <1>4 DEF Inv, TypeOK, InTransaction
<1>6. Grows'
  BY <1>2 DEF Inv, Grows, Tracked
<1>7. Served'
  BY <1>1, <1>2 DEF Inv, Served, Procs
<1>8. Reads(m)'
  BY <1>2 DEF Reads, Before, Tracking
<1>9. \A q \in Migrators : Reads(q)'
  BY <1>3, <1>8, OthersRead DEF Inv
<1> QED BY <1>2, <1>4, <1>5, <1>6, <1>7, <1>9 DEF Inv

\* A Worker; it only reads.
LEMMA ServeStepInv ==
    ASSUME Inv, NEW s \in Servers, NEW step \in ServeStep, Goto(s, step),
           UNCHANGED <<db, lock, draft, tables, hist>>, faults' \in Nat,
           step \in {"require", "serving"} => RowsOf(s) \subseteq db.rows,
           step = "serving" => db.whole
    PROVE  Inv'
<1>1. s \in Procs /\ s \notin Migrators /\ step \in MigrateStep \cup ServeStep
  BY MigrationsAssumption DEF Procs
<1>2. /\ pc' \in [Procs -> MigrateStep \cup ServeStep]
      /\ pc'[s] = step
      /\ \A q \in Procs : q # s => pc'[q] = pc[q]
  BY <1>1, GotoEffect DEF Inv
<1>3. \A q \in Migrators : pc'[q] = pc[q]
  BY <1>1, <1>2 DEF Procs
<1>4. TypeOK'
  BY <1>2, <1>3 DEF Inv, TypeOK
<1>5. Grows'
  BY DEF Inv, Grows, Tracked
<1>6. Served'
  BY <1>2 DEF Inv, Served, Procs
<1>7. \A q \in Migrators : Reads(q)'
  BY <1>3, OthersRead DEF Inv
<1>8. \A q \in Migrators : lock' = q => Writes(q)'
  BY <1>3, OthersWrite DEF Inv
<1> QED BY <1>4, <1>5, <1>6, <1>7, <1>8 DEF Inv

-----------------------------------------------------------------------------
(* The actions. *)

\* A database there was is untracked only when no release accepts it.
LEMMA OriginTracked ==
    ASSUME Inv, db.table
    PROVE  /\ db.rows # {} /\ db \notin Tampered => Tracked(db)
           /\ db.applied = <<>> => Tracked(db) \/ db \in Tampered
<1>1. CASE Tracked(db)
  <2> QED BY <1>1
<1>2. CASE db \in Origins
  <2>1. db.rows # {} => Tracked(db) \/ db \in Tampered
    BY <1>2 DEF Tracked, Tampered
  <2>2. db.rows = {} /\ db.applied = <<>> => Described(db.rows) = EffectsOf(db)
    BY DEF Described, EffectsOf
  <2> QED BY <2>1, <2>2 DEF Tracked
<1> QED BY <1>1, <1>2 DEF Inv, Grows

LEMMA ReadTablesInv == ASSUME Inv, NEW m \in Migrators, ReadTables(m) PROVE Inv'
<1>1. /\ pc[m] = "idle" /\ Goto(m, "history")
      /\ tables' = [tables EXCEPT ![m] = [table |-> db.table, business |-> db.applied # <<>>]]
      /\ UNCHANGED <<db, lock, draft, hist, faults>>
  BY DEF ReadTables
<1>2. db.table \in BOOLEAN /\ (db.applied # <<>>) \in BOOLEAN
  BY DEF Inv, TypeOK, Database
<1>3. /\ tables' \in [Migrators -> [table: BOOLEAN, business: BOOLEAN]]
      /\ tables'[m] = [table |-> db.table, business |-> db.applied # <<>>]
      /\ \A q \in Migrators : q # m => tables'[q] = tables[q]
  BY <1>1, <1>2 DEF Inv, TypeOK
<1>4. /\ tables'[m].table <=> db.table
      /\ tables'[m].business <=> db.applied # <<>>
  BY <1>3
<1>5. pc'[m] = "history"
  BY <1>1, GotoEffect DEF Inv, Procs, MigrateStep
<1>6. Reads(m)'
  BY <1>1, <1>4, <1>5, OriginTracked DEF Reads, Before, Tracking, Tracked
<1>7. hist' \in [Migrators -> SUBSET Row] /\ faults' \in Nat
  BY <1>1 DEF Inv, TypeOK
<1>8. "history" \in MigrateStep /\ "history" \notin InTransaction /\ "idle" \notin InTransaction
  BY DEF MigrateStep, InTransaction
<1> QED BY <1>1, <1>3, <1>6, <1>7, <1>8, ReadStep

LEMMA ReadHistoryInv == ASSUME Inv, NEW m \in Migrators, ReadHistory(m) PROVE Inv'
<1> DEFINE step == Entry(m, tables[m], db.rows)
<1>1. /\ pc[m] = "history" /\ Goto(m, step)
      /\ hist' = [hist EXCEPT ![m] = db.rows]
      /\ UNCHANGED <<db, lock, draft, tables, faults>>
  BY DEF ReadHistory
<1>2. /\ hist' \in [Migrators -> SUBSET Row] /\ hist'[m] = db.rows
      /\ \A q \in Migrators : q # m => hist'[q] = hist[q]
  BY <1>1 DEF Inv, TypeOK, Database
<1>3. step \in {"adopt", "failed", "createbegin", "applybegin", "final"}
  BY DEF Entry, LoopStep
<1>4. step \in MigrateStep /\ step \notin InTransaction /\ "history" \notin InTransaction
  BY <1>3 DEF MigrateStep, InTransaction
<1>5. pc'[m] = step
  BY <1>1, <1>4, GotoEffect DEF Inv, Procs
<1>6. step = "adopt" => tables[m].business
  BY <1>3 DEF Entry, LoopStep
<1>7. step = "createbegin" => ~tables[m].business
  BY <1>3 DEF Entry, LoopStep
<1>8. step = "applybegin" => Pending(m, db.rows) # {} /\ Tracked(db)
  <2> SUFFICES ASSUME step = "applybegin" PROVE Pending(m, db.rows) # {} /\ Tracked(db)
    OBVIOUS
  <2>1. /\ ~(tables[m].business /\ ~tables[m].table) /\ ~(db.rows = {} /\ tables[m].business)
        /\ tables[m].table /\ ValidHistory(m, db.rows) /\ Pending(m, db.rows) # {}
    BY DEF Entry, LoopStep
  <2>2. db.table /\ (~tables[m].business => Tracked(db) \/ db \in Tampered)
    BY <1>1, <2>1 DEF Inv, Reads
  <2>3. db \notin Tampered
    BY <2>1, OriginsAssumption DEF Tampered
  <2>4. CASE db.rows = {}
    BY <2>1, <2>2, <2>3, <2>4
  <2>5. CASE db.rows # {}
    BY <2>1, <2>2, <2>3, <2>5, OriginTracked
  <2> QED BY <2>4, <2>5
<1>11. step = "final" => Pending(m, db.rows) = {}
  BY <1>3 DEF Entry, LoopStep
<1>9. Reads(m)'
  <2>1. /\ tables'[m] = tables[m] /\ db' = db /\ hist'[m] = db.rows
        /\ ~db.table => ~tables[m].table /\ (tables[m].business <=> db.applied # <<>>)
    BY <1>1, <1>2 DEF Inv, Reads, Before
  <2> HIDE DEF step
  <2> QED BY <1>3, <1>5, <1>6, <1>7, <1>8, <1>11, <2>1 DEF Reads, Before, Tracking, Tracked, Pending
<1>10. tables' \in [Migrators -> [table: BOOLEAN, business: BOOLEAN]] /\ faults' \in Nat
  BY <1>1 DEF Inv, TypeOK
<1> HIDE DEF step
<1> QED BY <1>1, <1>2, <1>4, <1>9, <1>10, ReadStep

\* The other reads: what they decide follows from what was known before.
LEMMA PlainRead ==
    ASSUME Inv, NEW m \in Migrators, NEW step \in MigrateStep, Goto(m, step),
           UNCHANGED <<db, lock, draft, tables, hist>>, faults' \in Nat,
           pc[m] \notin InTransaction,
           \/ step \in {"idle", "failed", "done"}
           \/ pc[m] = "final" /\ step = "status" /\ ValidHistory(m, hist[m]) /\ ValidSchema(db)
           \/ pc[m] = "adopt" /\ step = "adoptbegin" /\ ValidSchema(db)
    PROVE  Inv'
<1>1. pc'[m] = step
  BY GotoEffect DEF Inv, Procs
<1>2. step \notin InTransaction
  BY DEF InTransaction
<1>3. Reads(m)'
  <2>1. CASE step \in {"idle", "failed", "done"}
    BY <1>1, <2>1 DEF Reads, Before, Tracking
  <2>3. CASE pc[m] = "final" /\ step = "status" /\ ValidHistory(m, hist[m]) /\ ValidSchema(db)
    BY <1>1, <2>3 DEF Inv, Reads, Before, Tracking, ValidSchema, ValidHistory, Pending
  <2>2. CASE pc[m] = "adopt" /\ step = "adoptbegin" /\ ValidSchema(db)
    BY <1>1, <2>2 DEF Inv, Reads, Before, Tracking, ValidSchema
  <2> QED BY <2>1, <2>2, <2>3
<1>4. /\ tables' \in [Migrators -> [table: BOOLEAN, business: BOOLEAN]]
      /\ hist' \in [Migrators -> SUBSET Row]
  BY DEF Inv, TypeOK
<1> QED BY <1>2, <1>3, <1>4, ReadStep

LEMMA PlainReadsInv ==
    ASSUME Inv, NEW m \in Migrators, AdoptValidate(m) \/ Busy(m) \/ Final(m) \/ Return(m)
    PROVE  Inv'
<1>0. faults \in Nat
  BY DEF Inv, TypeOK
<1>1. CASE AdoptValidate(m)
  <2>1. CASE ValidSchema(db)
    BY <1>0, <1>1, <2>1, PlainRead DEF AdoptValidate, MigrateStep, InTransaction
  <2>2. CASE ~ValidSchema(db)
    BY <1>0, <1>1, <2>2, PlainRead DEF AdoptValidate, MigrateStep, InTransaction
  <2> QED BY <2>1, <2>2
<1>2. CASE Busy(m)
  BY <1>0, <1>2, PlainRead DEF Busy, MigrateStep, InTransaction
<1>3. CASE Final(m)
  <2> DEFINE step == IF ValidHistory(m, hist[m]) /\ ValidSchema(db) THEN "status" ELSE "failed"
  <2>1. /\ step \in {"status", "failed"}
        /\ step = "status" => ValidHistory(m, hist[m]) /\ ValidSchema(db)
    OBVIOUS
  <2>2. pc[m] = "final" /\ Goto(m, step) /\ UNCHANGED <<db, lock, draft, tables, hist, faults>>
    BY <1>3 DEF Final
  <2> HIDE DEF step
  <2> QED BY <1>0, <2>1, <2>2, PlainRead DEF MigrateStep, InTransaction
<1>4. CASE Return(m)
  <2> DEFINE step == IF Status(m, db) = "error" THEN "failed" ELSE "done"
  <2>1. step \in {"done", "failed"}
    OBVIOUS
  <2>2. pc[m] = "status" /\ Goto(m, step) /\ UNCHANGED <<db, lock, draft, tables, hist, faults>>
    BY <1>4 DEF Return
  <2> HIDE DEF step
  <2> QED BY <1>0, <2>1, <2>2, PlainRead DEF MigrateStep, InTransaction
<1> QED BY <1>1, <1>2, <1>3, <1>4

LEMMA RereadInv == ASSUME Inv, NEW m \in Migrators, Reread(m) PROVE Inv'
<1>1. PICK step \in {"applybegin", "final", "failed"} :
        /\ Goto(m, step)
        /\ step = "applybegin" => Pending(m, db.rows) # {}
        /\ step = "final" => Pending(m, db.rows) = {}
  BY DEF Reread, LoopStep
<1>2. /\ pc[m] \in {"readopt", "reread"} /\ hist' = [hist EXCEPT ![m] = db.rows]
      /\ UNCHANGED <<db, lock, draft, tables, faults>>
  BY DEF Reread
<1>3. step \in MigrateStep /\ step \notin InTransaction /\ pc[m] \notin InTransaction
  BY <1>1, <1>2 DEF MigrateStep, InTransaction
<1>4. pc'[m] = step
  BY <1>1, <1>3, GotoEffect DEF Inv, Procs
<1>5. /\ hist' \in [Migrators -> SUBSET Row] /\ hist'[m] = db.rows
      /\ \A q \in Migrators : q # m => hist'[q] = hist[q]
      /\ tables' \in [Migrators -> [table: BOOLEAN, business: BOOLEAN]] /\ faults' \in Nat
  BY <1>2 DEF Inv, TypeOK, Database
<1>6. Tracked(db)
  BY <1>2 DEF Inv, Reads, Tracking
<1>7. Reads(m)'
  BY <1>1, <1>2, <1>4, <1>5, <1>6 DEF Reads, Before, Tracking, Tracked, Pending
<1> QED BY <1>1, <1>2, <1>3, <1>5, <1>7, ReadStep

LEMMA BeginInv == ASSUME Inv, NEW m \in Migrators, Begin(m) PROVE Inv'
<1>1. PICK step \in {"adoptwrite", "createwrite", "script"} :
        /\ Goto(m, step)
        /\ \/ pc[m] = "adoptbegin" /\ step = "adoptwrite"
           \/ pc[m] = "createbegin" /\ step = "createwrite"
           \/ pc[m] = "applybegin" /\ step = "script"
  BY DEF Begin
<1>2. lock = None /\ lock' = m /\ draft' = db /\ UNCHANGED <<db, tables, hist, faults>>
  BY DEF Begin
<1>3. step \in InTransaction /\ step \in MigrateStep /\ db \in Database
  BY <1>1 DEF InTransaction, MigrateStep, Inv, TypeOK
<1>4. pc'[m] = step
  BY <1>1, <1>3, GotoEffect DEF Inv, Procs
<1>5. Reads(m)'
  BY <1>1, <1>2, <1>4 DEF Inv, Reads, Before, Tracking, Tracked, ValidSchema, Pending
<1>6. Writes(m)'
  BY <1>1, <1>2, <1>4 DEF Writes
<1> QED BY <1>1, <1>2, <1>3, <1>5, <1>6, WriteStep

\* Before there is a history table the database is one of those there were.
LEMMA Untouched == ASSUME Inv, ~db.table PROVE db \in Origins /\ db.rows = {}
<1>1. db \in Origins
  BY DEF Inv, Grows
<1> QED BY <1>1, OriginsAssumption

LEMMA AdoptWriteInv == ASSUME Inv, NEW m \in Migrators, AdoptWrite(m) PROVE Inv'
<1>1. pc[m] = "adoptwrite" /\ lock = m /\ UNCHANGED <<db, tables, hist, faults>>
  BY DEF AdoptWrite, Inv, TypeOK, InTransaction
<1>2. draft = db
  BY <1>1 DEF Inv, Writes
<1>3. CASE draft.table
  BY <1>1, <1>3, RollbackStep DEF AdoptWrite, Inv, TypeOK
<1>4. CASE ~draft.table
  <2>1. /\ draft' = [draft EXCEPT !.table = TRUE, !.rows = {FirstRow(m)}]
        /\ Goto(m, "adoptcommit") /\ lock' = m
    BY <1>1, <1>4 DEF AdoptWrite
  <2>2. draft \in Database /\ FirstRow(m) \in Row
    BY FirstRowType DEF Inv, TypeOK
  <2>3. /\ draft' \in Database /\ draft'.table = TRUE /\ draft'.rows = {FirstRow(m)}
        /\ draft'.whole = db.whole /\ draft'.applied = db.applied
    BY <1>2, <2>1, <2>2 DEF Database
  <2>4. db \in Origins /\ db.rows = {}
    BY <1>2, <1>4, Untouched
  <2>10. ValidSchema(db)
    BY <1>1, <1>2, <1>4 DEF Inv, Reads
  <2>5. db.applied = <<Release[m][1]>>
    BY <1>2, <1>4, <2>4, <2>10, OriginsAssumption
  <2>6. Tracked(draft')
    <3>1. Described({FirstRow(m)}) = {<<1, Release[m][1]>>}
      <4>1. FirstRow(m).version = 1 /\ FirstRow(m).script = Release[m][1]
        BY DEF FirstRow
      <4>2. {<<r.version, r.script>> : r \in {FirstRow(m)}}
              = {<<FirstRow(m).version, FirstRow(m).script>>}
        BY Zenon
      <4> QED BY <4>1, <4>2 DEF Described
    <3>2. EffectsOf(draft') = {<<1, Release[m][1]>>}
      <4> DEFINE a == <<Release[m][1]>>
      <4>1. Len(a) = 1 /\ a[1] = Release[m][1] /\ 1..1 = {1}
        OBVIOUS
      <4>2. EffectsOf(draft') = {<<i, a[i]>> : i \in 1..Len(a)}
        BY <2>3, <2>5 DEF EffectsOf
      <4> HIDE DEF a
      <4> QED BY <4>1, <4>2
    <3> QED BY <2>3, <3>1, <3>2 DEF Tracked
  <2>7. "adoptcommit" \in InTransaction /\ "adoptcommit" \in MigrateStep
    BY DEF InTransaction, MigrateStep
  <2>8. pc'[m] = "adoptcommit"
    BY <2>1, <2>7, GotoEffect DEF Inv, Procs
  <2>9. Reads(m)' /\ Writes(m)'
    BY <1>1, <1>2, <1>4, <2>3, <2>10, <2>6, <2>8 DEF Reads, Writes, Before, Tracking, Tracked, ValidSchema
  <2> QED BY <1>1, <2>1, <2>3, <2>4, <2>7, <2>9, WriteStep
<1> QED BY <1>3, <1>4

LEMMA CreateWriteInv == ASSUME Inv, NEW m \in Migrators, CreateWrite(m) PROVE Inv'
<1>1. pc[m] = "createwrite" /\ lock = m /\ UNCHANGED <<db, tables, hist, faults>>
  BY DEF CreateWrite, Inv, TypeOK, InTransaction
<1>2. draft = db
  BY <1>1 DEF Inv, Writes
<1>3. CASE draft.table
  BY <1>1, <1>3, RollbackStep DEF CreateWrite, Inv, TypeOK
<1>4. CASE ~draft.table
  <2>1. /\ draft' = [draft EXCEPT !.table = TRUE]
        /\ Goto(m, "createcommit") /\ lock' = m
    BY <1>1, <1>4 DEF CreateWrite
  <2>2. draft \in Database
    BY DEF Inv, TypeOK
  <2>3. /\ draft' \in Database /\ draft'.table = TRUE /\ draft'.rows = db.rows
        /\ draft'.whole = db.whole /\ draft'.applied = db.applied
    BY <1>2, <2>1, <2>2 DEF Database
  <2>4. db.rows = {}
    BY <1>2, <1>4, Untouched
  <2>5. db.applied = <<>>
    <3>1. ~tables[m].business /\ (tables[m].business <=> db.applied # <<>>)
      BY <1>1, <1>2, <1>4 DEF Inv, Reads, Before
    <3> QED BY <3>1
  <2>6. Tracked(draft')
    BY <2>3, <2>4, <2>5 DEF Tracked, Described, EffectsOf
  <2>7. "createcommit" \in InTransaction /\ "createcommit" \in MigrateStep
    BY DEF InTransaction, MigrateStep
  <2>8. pc'[m] = "createcommit"
    BY <2>1, <2>7, GotoEffect DEF Inv, Procs
  <2>9. Reads(m)' /\ Writes(m)'
    BY <1>1, <1>2, <1>4, <2>3, <2>4, <2>5, <2>6, <2>8 DEF Reads, Writes, Before, Tracking, Tracked
  <2> QED BY <1>1, <2>1, <2>3, <2>7, <2>9, WriteStep
<1> QED BY <1>3, <1>4

LEMMA ApplyOneInv == ASSUME Inv, NEW m \in Migrators, ApplyOne(m) PROVE Inv'
<1> DEFINE v == NextVersion(m)
<1>1. pc[m] = "script" /\ lock = m /\ UNCHANGED <<db, tables, hist, faults>>
  BY DEF ApplyOne, Inv, TypeOK, InTransaction
<1>2. draft = db /\ draft \in Database
  BY <1>1 DEF Inv, Writes, TypeOK
<1>3. v \in 1..Len(Release[m]) /\ Release[m][v] \in Scripts
  BY <1>1, NextVersionType DEF Inv, Reads
<1>4. CASE ~Runs(m, v)
  BY <1>1, <1>4, RollbackStep DEF ApplyOne, Inv, TypeOK
<1>5. CASE Runs(m, v)
  <2>1. draft' = AfterScript(m) /\ Goto(m, "insert") /\ lock' = m
    BY <1>1, <1>5 DEF ApplyOne
  <2>2. Len(db.applied) >= v - 1
    BY <1>2, <1>5 DEF Runs
  <2>3. Append(draft.applied, Release[m][v]) \in Seq(Scripts)
    BY <1>2, <1>3 DEF Database
  <2>4. /\ draft'.table = db.table /\ draft'.rows = db.rows
        /\ draft'.applied = Append(db.applied, Release[m][v])
        /\ draft'.whole = IF db.applied = <<>> THEN TRUE ELSE db.whole
        /\ draft' \in Database
    <3> HIDE DEF v
    <3>1. draft' = [draft EXCEPT !.applied = Append(@, Release[m][v]),
                                 !.whole = IF draft.applied = <<>> THEN TRUE ELSE @]
      BY <2>1 DEF AfterScript, v
    <3> QED BY <1>2, <2>3, <3>1 DEF Database
  <2>5. "insert" \in InTransaction /\ "insert" \in MigrateStep
    BY DEF InTransaction, MigrateStep
  <2>6. pc'[m] = "insert"
    BY <2>1, <2>5, GotoEffect DEF Inv, Procs
  <2>7. Reads(m)'
    BY <1>1, <2>6 DEF Inv, Reads, Before, Tracking, Tracked, Pending
  <2>8. NextVersion(m)' = v
    BY <1>1 DEF NextVersion, Pending
  <2>9. Writes(m)'
    <3> HIDE DEF v
    <3> QED BY <1>1, <2>2, <2>4, <2>6, <2>8 DEF Writes
  <2> QED BY <1>1, <2>1, <2>4, <2>5, <2>7, <2>9, WriteStep
<1> QED BY <1>4, <1>5

LEMMA InsertInv == ASSUME Inv, NEW m \in Migrators, Insert(m) PROVE Inv'
<1> DEFINE v == NextVersion(m)
<1>1. pc[m] = "insert" /\ lock = m /\ UNCHANGED <<db, tables, hist, faults>>
  BY DEF Insert, Inv, TypeOK, InTransaction
<1>2. /\ Len(db.applied) >= v - 1 /\ draft.table = db.table /\ draft.rows = db.rows
      /\ draft.applied = Append(db.applied, Release[m][v])
      /\ draft \in Database /\ db \in Database
      /\ db.whole => draft.whole
  BY <1>1 DEF Inv, Writes, TypeOK, Grows
<1>3. v \in 1..Len(Release[m]) /\ Release[m][v] \in Scripts /\ v \in Nat /\ v >= 1
  BY <1>1, NextVersionType DEF Inv, Reads
<1>4. Tracked(db)
  BY <1>1 DEF Inv, Reads, Tracking
<1>5. CASE v \in VersionsOf(draft.rows)
  BY <1>1, <1>5, RollbackStep DEF Insert, Inv, TypeOK
<1>6. CASE v \notin VersionsOf(draft.rows)
  <2>1. /\ draft' = [draft EXCEPT !.rows = @ \cup {NextRow(m)}]
        /\ Goto(m, "applycommit") /\ lock' = m
    BY <1>1, <1>6 DEF Insert
  <2>2. NextRow(m) = [version |-> v, script |-> Release[m][v]] /\ NextRow(m) \in Row
    BY <1>3 DEF NextRow, Row
  <2>3. /\ draft' \in Database /\ draft'.table = db.table
        /\ draft'.rows = db.rows \cup {NextRow(m)}
        /\ draft'.applied = Append(db.applied, Release[m][v]) /\ draft'.whole = draft.whole
    <3> HIDE DEF v
    <3> QED BY <1>2, <2>1, <2>2 DEF Database
  <2>4. Described(draft'.rows) = EffectsOf(draft')
    <3>1. db.rows \in SUBSET Row /\ db.applied \in Seq(Scripts)
      BY <1>2 DEF Database
    <3>2. Described(db.rows) = Effects(db.applied)
      BY <1>4 DEF Tracked, EffectsOf, Effects
    <3>3. v \notin VersionsOf(db.rows)
      BY <1>2, <1>6
    <3> HIDE DEF v
    <3>4. Described(db.rows \cup {[version |-> v, script |-> Release[m][v]]})
            = Effects(Append(db.applied, Release[m][v]))
      BY <1>2, <1>3, <3>1, <3>2, <3>3, Extended
    <3> QED BY <2>2, <2>3, <3>4 DEF EffectsOf, Effects
  <2>5. Tracked(draft')
    BY <1>4, <2>3, <2>4 DEF Tracked
  <2>6. "applycommit" \in InTransaction /\ "applycommit" \in MigrateStep
    BY DEF InTransaction, MigrateStep
  <2>7. pc'[m] = "applycommit"
    BY <2>1, <2>6, GotoEffect DEF Inv, Procs
  <2>9. Len(db.applied) < Len(Release[m])
    <3>1. Len(db.applied) \in Nat
      BY <1>2 DEF Database
    <3>2. v = Len(db.applied) + 1
      <4>1. Described(db.rows) = Effects(db.applied) /\ db.applied \in Seq(Scripts)
        BY <1>2, <1>4 DEF Tracked, EffectsOf, Effects, Database
      <4> HIDE DEF v
      <4> QED BY <1>2, <1>3, <1>6, <4>1, FollowsOn
    <3> QED BY <1>3, <3>1, <3>2
  <2>8. Reads(m)' /\ Writes(m)'
    BY <1>1, <1>3, <1>4, <2>2, <2>3, <2>5, <2>7, <2>9 DEF Reads, Writes, Before, Tracking, Tracked
  <2>10. draft'.applied # <<>>
    <3>1. db.applied \in Seq(Scripts)
      BY <1>2 DEF Database
    <3> QED BY <1>3, <2>3, <3>1
  <2> QED BY <1>1, <1>2, <2>1, <2>3, <2>6, <2>8, <2>10, WriteStep
<1> QED BY <1>5, <1>6

LEMMA CommitInv == ASSUME Inv, NEW m \in Migrators, Commit(m) PROVE Inv'
<1>1. /\ pc[m] \in {"adoptcommit", "createcommit", "applycommit"}
      /\ db' = draft /\ lock' = None /\ UNCHANGED <<draft, tables, faults>>
  BY DEF Commit
<1>2. PICK step \in {"readopt", "applybegin", "reread"} :
        /\ Goto(m, step)
        /\ step = "applybegin" => hist' = [hist EXCEPT ![m] = {}]
        /\ step # "applybegin" => hist' = hist
  BY DEF Commit
<1>3. lock = m /\ Tracked(draft)
  BY <1>1 DEF Inv, TypeOK, InTransaction, Writes
<1>4. /\ m \in Procs /\ m \notin Servers /\ m # None /\ None \notin Migrators
      /\ step \in MigrateStep \cup ServeStep /\ step \notin InTransaction
  BY <1>2, MigrationsAssumption DEF Procs, MigrateStep, InTransaction
<1>5. /\ pc' \in [Procs -> MigrateStep \cup ServeStep]
      /\ pc'[m] = step
      /\ \A q \in Procs : q # m => pc'[q] = pc[q]
  BY <1>2, <1>4, GotoEffect DEF Inv
<1>6. \A q \in Migrators : q # m => pc'[q] = pc[q]
  BY <1>5 DEF Procs
<1>7. /\ hist' \in [Migrators -> SUBSET Row]
      /\ \A q \in Migrators : q # m => hist'[q] = hist[q]
      /\ step = "applybegin" => hist'[m] = {}
  BY <1>2 DEF Inv, TypeOK
<1>8. TypeOK'
  <2>1. \A q \in Migrators : lock' = q <=> pc'[q] \in InTransaction
    BY <1>1, <1>3, <1>4, <1>5, <1>6 DEF Inv, TypeOK
  <2> QED BY <1>1, <1>4, <1>5, <1>7, <2>1 DEF Inv, TypeOK
<1>9. Grows'
  BY <1>1, <1>3 DEF Inv, Grows, Tracked
<1>10. Served'
  BY <1>1, <1>4, <1>5 DEF Inv, Served, Grows, Procs
<1>11. Reads(m)'
  <2>1. Pending(m, {}) # {}
    BY FirstRowType DEF Pending, VersionsOf
  <2> QED BY <1>1, <1>2, <1>3, <1>5, <1>7, <2>1 DEF Reads, Before, Tracking, Tracked, Pending
<1>12. \A q \in Migrators : q # m => Reads(q)'
  <2> SUFFICES ASSUME NEW q \in Migrators, q # m PROVE Reads(q)'
    OBVIOUS
  <2>1. /\ Reads(q) /\ pc'[q] = pc[q] /\ tables'[q] = tables[q] /\ hist'[q] = hist[q]
        /\ db.rows \subseteq db'.rows /\ Tracked(db')
        /\ ValidSchema(db) => ValidSchema(db')
    BY <1>1, <1>3, <1>6, <1>7 DEF Inv, Grows, ValidSchema
  <2> QED BY <2>1 DEF Reads, Before, Tracking, Tracked, Pending, ValidHistory, ValidSchema
<1> QED BY <1>1, <1>4, <1>8, <1>9, <1>10, <1>11, <1>12 DEF Inv

LEMMA StartInv == ASSUME Inv, NEW s \in Servers, Start(s) PROVE Inv'
<1>1. s \in Procs /\ db.rows \in SUBSET Row /\ faults \in Nat
  BY DEF Procs, Inv, TypeOK, Database
<1>2. CASE ReadStatus(s)
  <2> DEFINE step == IF Status(s, db) = "current" THEN "require" ELSE "failed"
  <2>1. Goto(s, step) /\ UNCHANGED <<db, lock, draft, tables, hist, faults>>
    BY <1>2 DEF ReadStatus
  <2>2. step = "require" => RowsOf(s) \subseteq db.rows
    <3>1. Status(s, db) = "current" => ValidHistory(s, db.rows) /\ Pending(s, db.rows) = {}
      BY DEF Status
    <3> QED BY <1>1, <3>1, CurrentRows
  <2>3. step \in {"require", "failed"}
    OBVIOUS
  <2> HIDE DEF step
  <2> QED BY <1>1, <2>1, <2>2, <2>3, ServeStepInv DEF ServeStep
<1>3. CASE RequireSchema(s)
  <2> DEFINE step == IF ValidSchema(db) THEN "serving" ELSE "failed"
  <2>1. pc[s] = "require" /\ Goto(s, step) /\ UNCHANGED <<db, lock, draft, tables, hist, faults>>
    BY <1>3 DEF RequireSchema
  <2>2. step \in {"serving", "failed"} /\ (step = "serving" => db.whole)
    BY DEF ValidSchema
  <2>3. RowsOf(s) \subseteq db.rows
    BY <2>1 DEF Inv, Served
  <2> HIDE DEF step
  <2> QED BY <1>1, <2>1, <2>2, <2>3, ServeStepInv DEF ServeStep
<1> QED BY <1>2, <1>3 DEF Start

LEMMA DiesInv == ASSUME Inv, NEW p \in Procs, Dies(p) \/ Retry(p) PROVE Inv'
<1>1. PICK step \in {"failed", "idle"} : Goto(p, step)
  BY DEF Dies, Retry
<1>2. /\ step \in MigrateStep /\ step \in ServeStep /\ step \notin InTransaction
      /\ step \notin {"require", "serving"} /\ faults' \in Nat
  BY <1>1 DEF MigrateStep, ServeStep, InTransaction, Dies, Retry, Inv, TypeOK
<1>3. CASE p \in Servers
  <2>1. lock # p
    BY <1>3, MigrationsAssumption DEF Inv, TypeOK, Procs
  <2>2. UNCHANGED <<db, lock, draft, tables, hist>>
    BY <2>1 DEF Dies, Retry
  <2> QED BY <1>1, <1>2, <1>3, <2>2, ServeStepInv
<1>4. CASE p \in Migrators /\ lock = p
  <2>1. Rollback(p) /\ UNCHANGED <<db, tables, hist>>
    BY <1>4 DEF Dies, Retry, Rollback, Inv, TypeOK, InTransaction
  <2> QED BY <1>2, <1>4, <2>1, RollbackStep
<1>5. CASE p \in Migrators /\ lock # p
  <2>1. UNCHANGED <<db, lock, draft, tables, hist>> /\ pc[p] \notin InTransaction
    BY <1>5 DEF Dies, Retry, Inv, TypeOK
  <2> QED BY <1>1, <1>2, <1>5, <2>1, PlainRead
<1> QED BY <1>3, <1>4, <1>5 DEF Procs

LEMMA InitInv == Init => Inv
<1> SUFFICES ASSUME Init PROVE Inv
  OBVIOUS
<1>1. /\ db \in Origins /\ db \in Database /\ lock = None /\ draft = db
      /\ \A p \in Procs : pc[p] = "idle"
      /\ None \notin Migrators
  BY OriginsAssumption, MigrationsAssumption DEF Init, Procs
<1>2. TypeOK
  BY <1>1 DEF Init, TypeOK, MigrateStep, InTransaction, Procs
<1>3. Grows /\ Served
  BY <1>1 DEF Grows, Served, Procs
<1>4. \A m \in Migrators : Reads(m)
  BY <1>1 DEF Reads, Before, Tracking, Procs
<1> QED BY <1>1, <1>2, <1>3, <1>4 DEF Inv

LEMMA StepInv == Inv /\ [Next]_vars => Inv'
<1> SUFFICES ASSUME Inv, [Next]_vars PROVE Inv'
  OBVIOUS
<1>1. ASSUME NEW m \in Migrators, Migrate(m) PROVE Inv'
  BY <1>1, ReadTablesInv, ReadHistoryInv, PlainReadsInv, BeginInv, AdoptWriteInv, CreateWriteInv,
     ApplyOneInv, InsertInv, CommitInv, RereadInv DEF Migrate
<1>2. ASSUME NEW s \in Servers, Start(s) PROVE Inv'
  BY <1>2, StartInv
<1>3. ASSUME NEW p \in Procs, Dies(p) \/ Retry(p) PROVE Inv'
  BY <1>3, DiesInv
<1>4. CASE UNCHANGED vars
  <2>1. \A q \in Migrators : Reads(q)'
    BY <1>4, OthersRead DEF vars, Inv
  <2>2. \A q \in Migrators : lock' = q => Writes(q)'
    BY <1>4, OthersWrite DEF vars, Inv
  <2>3. TypeOK' /\ Grows' /\ Served'
    BY <1>4 DEF vars, Inv, TypeOK, Grows, Served, Tracked
  <2> QED BY <2>1, <2>2, <2>3 DEF Inv
<1> QED BY <1>1, <1>2, <1>3, <1>4 DEF Next

-----------------------------------------------------------------------------
\* The inductive invariant itself.
THEOREM Safety == Spec => []Inv
BY InitInv, StepInv, PTL DEF Spec

\* Types, and a transaction is open exactly while its process is in one.
THEOREM TypeCorrect == Spec => []TypeOK
BY Safety, PTL DEF Inv

\* A migration and its row in the history take effect together or not at all.
THEOREM AllOrNothing == Spec => []HistoryTellsSchema
<1>1. Inv => HistoryTellsSchema
  BY DEF Inv, Grows, Tracked, Tampered, HistoryTellsSchema
<1> QED BY <1>1, Safety, PTL

\* No Worker serves on a database that lacks one of its migrations.
THEOREM ServedComplete == Spec => []ServedSchemaComplete
<1>1. Inv => ServedSchemaComplete
  BY DEF Inv, Served, ServedSchemaComplete
<1> QED BY <1>1, Safety, PTL

\* A migration that returns leaves exactly its release: the history it read
\* last had all of it, nothing is taken away, and schema_status refuses more.
THEOREM SuccessExact == Spec => SuccessMeansCurrent
<1> DEFINE Exact(m) == Described(db.rows) = {<<v, Release[m][v]>> : v \in 1..Len(Release[m])}
                       /\ ValidSchema(db)
<1>1. ASSUME Inv, [Next]_vars, NEW m \in Migrators, pc[m] # "done", pc'[m] = "done"
      PROVE  Exact(m)
  <2>1. m \in Procs /\ m \notin Servers
    BY MigrationsAssumption DEF Procs
  <2>2. Return(m)
    <3>1. CASE UNCHANGED vars
      BY <1>1, <3>1 DEF vars
    <3>2. ASSUME NEW q \in Procs, NEW step, Goto(q, step), step # "done" PROVE FALSE
      BY <1>1, <2>1, <3>2 DEF Goto, Inv, TypeOK
    <3>3. ASSUME NEW q \in Migrators, Migrate(q), ~Return(q) PROVE FALSE
      <4>1. \E step : Goto(q, step) /\ step # "done"
        BY <3>3 DEF Migrate, ReadTables, ReadHistory, Entry, LoopStep, AdoptValidate, Begin, Busy,
           AdoptWrite, CreateWrite, Rollback, ApplyOne, Insert, Commit, Reread, Final
      <4> QED BY <3>2, <4>1 DEF Procs
    <3>4. ASSUME NEW q \in Servers, Start(q) PROVE FALSE
      <4>1. \E step : Goto(q, step) /\ step # "done"
        BY <3>4 DEF Start, ReadStatus, RequireSchema
      <4> QED BY <3>2, <4>1 DEF Procs
    <3>5. ASSUME NEW q \in Procs, Dies(q) \/ Retry(q) PROVE FALSE
      <4>1. \E step : Goto(q, step) /\ step # "done"
        BY <3>5 DEF Dies, Retry
      <4> QED BY <3>2, <4>1
    <3>6. ASSUME NEW q \in Migrators, Return(q) PROVE q = m
      BY <1>1, <2>1, <3>6 DEF Return, Goto, Inv, TypeOK, Procs
    <3> QED BY <1>1, <3>1, <3>3, <3>4, <3>5, <3>6 DEF Next
  <2>3. /\ pc[m] = "status" /\ Status(m, db) # "error"
    BY <1>1, <2>1, <2>2, GotoEffect DEF Return, Goto, Inv, TypeOK
  <2>4. /\ Pending(m, hist[m]) = {} /\ hist[m] \subseteq db.rows
        /\ ValidHistory(m, hist[m]) /\ ValidSchema(db) /\ hist[m] \in SUBSET Row
    <3>1. Reads(m) /\ TypeOK
      BY <1>1 DEF Inv
    <3>2. hist[m] \in SUBSET Row
      BY <3>1 DEF TypeOK
    <3> QED BY <2>3, <3>1, <3>2 DEF Reads
  <2>5. RowsOf(m) \subseteq db.rows
    BY <2>1, <2>4, CurrentRows
  <2>6. db.rows # {}
    BY <2>5, FirstRowType DEF RowsOf
  <2>7. ValidHistory(m, db.rows)
    BY <2>3, <2>6 DEF Status
  <2>8. db.rows = RowsOf(m)
    BY <2>5, <2>7 DEF ValidHistory
  <2>9. Described(RowsOf(m)) = {<<v, Release[m][v]>> : v \in 1..Len(Release[m])}
    <3> DEFINE row(v) == [version |-> v, script |-> Release[m][v]]
    <3>1. \A v \in 1..Len(Release[m]) : row(v).version = v /\ row(v).script = Release[m][v]
      OBVIOUS
    <3>2. RowsOf(m) = {row(v) : v \in 1..Len(Release[m])}
      BY DEF RowsOf
    <3> HIDE DEF row
    <3>3. Described(RowsOf(m)) = {<<row(v).version, row(v).script>> : v \in 1..Len(Release[m])}
      BY <3>2 DEF Described
    <3> QED BY <3>1, <3>3
  <2> QED BY <2>4, <2>8, <2>9
<1>2. Inv /\ [Next]_vars =>
        [\A m \in Migrators : pc[m] # "done" /\ pc'[m] = "done" => Exact(m)]_vars
  BY <1>1
<1> QED BY <1>2, Safety, PTL DEF Spec, SuccessMeansCurrent

-----------------------------------------------------------------------------
(* Programs of one lineage. *)

\* Releases whose common versions are the same scripts.
Compatible ==
    \A p, q \in Migrators : \A v \in (1..Len(Release[p])) \cap (1..Len(Release[q])) :
        Release[p][v] = Release[q][v]

\* The rows of versions that a migrator knows are of its own scripts.
Fits(m) == \A r \in db.rows : r.version \in 1..Len(Release[m]) => r.script = Release[m][r.version]

\* A history is validated once, before the first migration; what others add
\* later fits as well.
AllFit == \A m \in Migrators : pc[m] \in Tracking => Fits(m)

LEMMA FitsAfterCommit ==
    ASSUME Compatible, Inv, AllFit, NEW q \in Migrators, Commit(q),
           NEW m \in Migrators, pc'[m] \in Tracking
    PROVE  Fits(m)'
<1>1. /\ pc[q] \in {"adoptcommit", "createcommit", "applycommit"} /\ db' = draft
      /\ Writes(q)
  BY DEF Commit, Inv, TypeOK, InTransaction
<1>2. m # q => pc'[m] = pc[m]
  BY DEF Commit, Goto, Inv, TypeOK, Procs
<1>3. m # q => db.table
  BY <1>2 DEF Inv, Reads, Tracked
<1>4. CASE pc[q] = "adoptcommit"
  <2>1. m = q /\ db'.rows = {FirstRow(m)}
    BY <1>1, <1>3, <1>4 DEF Writes
  <2> QED BY <2>1 DEF Fits, FirstRow
<1>5. CASE pc[q] = "createcommit"
  BY <1>1, <1>5 DEF Writes, Fits
<1>6. CASE pc[q] = "applycommit"
  <2>1. Fits(m)
    BY <1>2, <1>6 DEF AllFit, Tracking
  <2>2. PICK v \in 1..Len(Release[q]) :
           draft.rows = db.rows \cup {[version |-> v, script |-> Release[q][v]]}
    BY <1>1, <1>6 DEF Writes
  <2>3. v \in 1..Len(Release[m]) => Release[q][v] = Release[m][v]
    BY DEF Compatible
  <2> QED BY <1>1, <2>1, <2>2, <2>3 DEF Fits
<1> QED BY <1>1, <1>4, <1>5, <1>6

\* Whoever commits understands what was there.
LEMMA CommitUnderstands ==
    ASSUME Inv, AllFit, NEW m \in Migrators, Commit(m)
    PROVE  Understands(m, db)
<1>1. /\ pc[m] \in {"adoptcommit", "createcommit", "applycommit"} /\ Writes(m) /\ Reads(m)
      /\ db \in Database
  BY DEF Commit, Inv, TypeOK, InTransaction
<1>2. \A r \in RowsOf(m) : r.version \in 1..Len(Release[m])
  BY DEF RowsOf
<1>3. Len(Release[m]) \in Nat
  BY MigrationsAssumption DEF Procs
<1>4. CASE pc[m] \in {"adoptcommit", "createcommit"}
  <2>1. db.rows = {} /\ (db.applied = <<>> \/ (~db.table /\ ValidSchema(db)))
    BY <1>1, <1>4, Untouched DEF Writes
  <2>2. db.rows = {r \in RowsOf(m) : r.version <= 0} /\ 0 \in 0..Len(Release[m])
    BY <1>2, <1>3, <2>1
  <2> QED BY <2>1, <2>2 DEF Understands
<1>5. CASE pc[m] = "applycommit"
  <2> DEFINE n == Len(db.applied)
  <2>1. Tracked(db) /\ Fits(m) /\ n < Len(Release[m]) /\ n \in Nat
    BY <1>1, <1>5 DEF Reads, Writes, AllFit, Tracking, Database
  <2>2. Described(db.rows) = {<<i, db.applied[i]>> : i \in 1..n}
    BY <2>1 DEF Tracked, EffectsOf
  <2>3. ASSUME NEW r \in db.rows PROVE r \in RowsOf(m) /\ r.version <= n
    <3>1. <<r.version, r.script>> \in Described(db.rows)
      BY DEF Described
    <3>2. r.version \in 1..n
      BY <2>2, <3>1
    <3>3. r.version \in 1..Len(Release[m])
      BY <1>3, <2>1, <3>2
    <3>4. r.script = Release[m][r.version]
      BY <2>1, <3>3 DEF Fits
    <3>5. r = [version |-> r.version, script |-> r.script]
      BY <1>1 DEF Database, Row
    <3> QED BY <2>1, <3>2, <3>3, <3>4, <3>5 DEF RowsOf
  <2>4. ASSUME NEW r \in RowsOf(m), r.version <= n PROVE r \in db.rows
    <3>1. PICK v \in 1..Len(Release[m]) : r = [version |-> v, script |-> Release[m][v]]
      BY DEF RowsOf
    <3>2. v \in 1..n
      BY <1>3, <2>1, <2>4, <3>1
    <3>3. <<v, db.applied[v]>> \in Described(db.rows)
      BY <2>2, <3>2
    <3>4. PICK w \in db.rows : <<v, db.applied[v]>> = <<w.version, w.script>>
      BY <3>3 DEF Described
    <3>5. w.version = v /\ w.script = Release[m][v]
      BY <2>1, <3>1, <3>4 DEF Fits
    <3>6. w = [version |-> w.version, script |-> w.script]
      BY <1>1 DEF Database, Row
    <3> QED BY <3>1, <3>5, <3>6
  <2>5. db.rows = {r \in RowsOf(m) : r.version <= n}
    BY <2>3, <2>4
  <2>6. db.rows = {} => db.applied = <<>>
    <3> SUFFICES ASSUME db.rows = {}, 1 \in 1..n PROVE FALSE
      BY <1>1, <2>1 DEF Database
    <3>1. <<1, db.applied[1]>> \in Described(db.rows)
      BY <2>2
    <3> QED BY <3>1 DEF Described
  <2>7. n \in 0..Len(Release[m])
    BY <1>3, <2>1
  <2> QED BY <2>5, <2>6, <2>7 DEF Understands
<1> QED BY <1>1, <1>4, <1>5

\* Only a commit changes the database.
LEMMA OnlyCommits ==
    ASSUME [Next]_vars, db' # db
    PROVE  \E m \in Migrators : Commit(m)
BY DEF Next, Migrate, ReadTables, ReadHistory, AdoptValidate, Begin, Busy, AdoptWrite, CreateWrite,
   ApplyOne, Insert, Reread, Final, Return, Start, ReadStatus, RequireSchema, Dies, Retry, vars

\* A migrator comes to apply migrations by a commit or from a history it has
\* validated.
LEMMA FitsBegins ==
    ASSUME Inv, AllFit, [Next]_vars, db' = db, NEW m \in Migrators, pc'[m] \in Tracking,
           \A q \in Migrators : ~Commit(q)
    PROVE  Fits(m)
<1>1. CASE pc[m] \in Tracking
  BY <1>1 DEF AllFit
<1>2. CASE pc[m] \notin Tracking
  <2>1. m \in Procs
    BY DEF Procs
  <2>2. ASSUME NEW q \in Procs, NEW step, Goto(q, step), step \notin Tracking PROVE FALSE
    BY <1>2, <2>1, <2>2 DEF Goto, Inv, TypeOK
  <2>3. ASSUME NEW q \in Procs, NEW step, Goto(q, step), q # m PROVE FALSE
    BY <1>2, <2>1, <2>3 DEF Goto, Inv, TypeOK
  <2>4. CASE UNCHANGED vars
    BY <1>2, <2>4 DEF vars
  <2>5. ASSUME NEW q \in Migrators, Migrate(q) PROVE Fits(m)
    <3>1. q \in Procs /\ ~Commit(q)
      BY DEF Procs
    <3>2. CASE ReadHistory(q)
      <4>1. Goto(q, Entry(q, tables[q], db.rows))
        BY <3>2 DEF ReadHistory
      <4>2. q = m /\ Entry(q, tables[q], db.rows) \in Tracking
        BY <2>2, <2>3, <3>1, <4>1
      <4>3. ValidHistory(m, db.rows)
        BY <4>2 DEF Entry, Tracking
      <4> QED BY <4>3 DEF ValidHistory, RowsOf, Fits
    <3>3. CASE ApplyOne(q) \/ Insert(q) \/ Reread(q)
      <4>1. \E step : Goto(q, step)
        BY <3>3 DEF ApplyOne, Insert, Reread, Rollback
      <4>2. pc[q] \in Tracking
        BY <3>3 DEF ApplyOne, Insert, Reread, Tracking
      <4> QED BY <1>2, <2>3, <3>1, <4>1, <4>2
    <3>4. CASE Begin(q)
      <4>1. \E step : Goto(q, step) /\ (pc[q] \in Tracking \/ step \notin Tracking)
        BY <3>4 DEF Begin, Tracking
      <4> QED BY <1>2, <2>2, <2>3, <3>1, <4>1
    <3>5. CASE \/ ReadTables(q) \/ AdoptValidate(q) \/ Busy(q) \/ AdoptWrite(q)
               \/ CreateWrite(q) \/ Final(q) \/ Return(q)
      <4>1. \E step : Goto(q, step) /\ step \notin Tracking
        BY <3>5 DEF ReadTables, AdoptValidate, Busy, AdoptWrite, CreateWrite, Final, Return,
           Rollback, Tracking
      <4> QED BY <2>2, <3>1, <4>1
    <3> QED BY <2>5, <3>1, <3>2, <3>3, <3>4, <3>5 DEF Migrate
  <2>6. ASSUME NEW s \in Servers, Start(s) PROVE FALSE
    <3>1. \E step : Goto(s, step) /\ step \notin Tracking
      BY <2>6 DEF Start, ReadStatus, RequireSchema, Tracking
    <3> QED BY <2>2, <3>1 DEF Procs
  <2>7. ASSUME NEW p \in Procs, Dies(p) \/ Retry(p) PROVE FALSE
    <3>1. \E step : Goto(p, step) /\ step \notin Tracking
      BY <2>7 DEF Dies, Retry, Tracking
    <3> QED BY <2>2, <3>1
  <2> QED BY <2>4, <2>5, <2>6, <2>7 DEF Next
<1> QED BY <1>1, <1>2

\* Of releases of one lineage, a program changes only a database it
\* understands, although it validates the history only once.
THEOREM UnderstoodChanges == ASSUME Compatible PROVE Spec => OnlyUnderstoodChanges
<1>1. Init => AllFit
  BY DEF Init, AllFit, Tracking, Procs
<1>2. Inv /\ AllFit /\ [Next]_vars => AllFit'
  <2> SUFFICES ASSUME Inv, AllFit, [Next]_vars, NEW m \in Migrators, pc'[m] \in Tracking
               PROVE  Fits(m)'
    BY DEF AllFit
  <2>1. CASE \E q \in Migrators : Commit(q)
    BY <2>1, FitsAfterCommit
  <2>2. CASE \A q \in Migrators : ~Commit(q)
    <3>1. db' = db
      BY <2>2, OnlyCommits
    <3> QED BY <2>2, <3>1, FitsBegins DEF Fits
  <2> QED BY <2>1, <2>2
<1>3. Inv /\ AllFit /\ [Next]_vars =>
        [db' # db => \E m \in Migrators : pc[m] # pc'[m] /\ Understands(m, db)]_vars
  <2> SUFFICES ASSUME Inv, AllFit, [Next]_vars, db' # db
               PROVE  \E m \in Migrators : pc[m] # pc'[m] /\ Understands(m, db)
    OBVIOUS
  <2>1. PICK m \in Migrators : Commit(m)
    BY OnlyCommits
  <2>2. pc[m] # pc'[m]
    BY <2>1 DEF Commit, Goto, Inv, TypeOK, Procs
  <2> QED BY <2>1, <2>2, CommitUnderstands
<1> QED BY <1>1, <1>2, <1>3, Safety, PTL DEF Spec, OnlyUnderstoodChanges
=============================================================================
