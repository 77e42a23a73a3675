--------------------------- MODULE TaskQueueProofs ---------------------------
(***************************************************************************)
(* Theorems about TaskQueue for every number of tasks, clients, crashes    *)
(* and faults: its variables keep their types, and no command is ever      *)
(* started twice.                                                          *)
(***************************************************************************)
EXTENDS TaskQueue, FiniteSetTheorems, WellFoundedInduction, TLAPS

-----------------------------------------------------------------------------
(* Stamps. *)

\* A finite set of numbers that is not empty has a greatest element: else take
\* a smallest such set without one, and remove an element from it.
LEMMA GreatestExists ==
    ASSUME NEW S \in SUBSET Nat, IsFiniteSet(S), S # {}
    PROVE  \E m \in S : \A n \in S : m >= n
<1> DEFINE Fin == FiniteSubsetsOf(Nat)
           R   == StrictSubsetOrdering(Nat)
           Bad == {T \in Fin : T # {} /\ ~ \E m \in T : \A n \in T : m >= n}
<1>1. SUFFICES ASSUME Bad # {} PROVE FALSE
  <2>1. S \in Fin
    BY DEF FiniteSubsetsOf
  <2> QED BY <2>1
<1>2. IsWellFoundedOn(R, Fin)
  BY FS_StrictSubsetOrderingWellFounded
<1>3. PICK T \in Bad : \A U \in Bad : <<U, T>> \notin R
  <2> HIDE DEF R, Fin
  <2> QED BY <1>1, <1>2, WFMin
<1>4. T \subseteq Nat /\ IsFiniteSet(T) /\ T # {}
  BY <1>3 DEF FiniteSubsetsOf
<1>5. PICK x \in T : TRUE
  BY <1>4
<1> DEFINE U == T \ {x}
<1>6. U \in Fin
  BY <1>4, FS_Subset DEF FiniteSubsetsOf
<1>7. <<U, T>> \in R
  BY <1>4, <1>5 DEF StrictSubsetOrdering
<1>8. U \notin Bad
  BY <1>3, <1>7
<1>9. CASE U = {}
  <2>1. T = {x}
    BY <1>5, <1>9
  <2> QED BY <2>1, <1>3, <1>4
<1>10. CASE U # {}
  <2>1. PICK m \in U : \A n \in U : m >= n
    BY <1>6, <1>8, <1>10
  <2>2. m \in T /\ m \in Nat /\ x \in Nat
    BY <1>4, <1>5
  <2>3. IF x >= m THEN \A n \in T : x >= n ELSE \A n \in T : m >= n
    BY <1>4, <2>1, <2>2
  <2> QED BY <1>3, <1>5, <2>2, <2>3
<1> QED BY <1>9, <1>10

\* The greatest stamp is a number, and no stamp is later.
LEMMA LatestType ==
    ASSUME NEW f \in [Tasks -> Nat]
    PROVE  Latest(f) \in Nat /\ \A t \in Tasks : f[t] <= Latest(f)
<1> DEFINE S == {f[t] : t \in Tasks}
<1>1. IsFiniteSet(S)
  <2>1. f \in Surjection(Tasks, S)
    BY DEF Surjection
  <2> QED BY <2>1, FS_Surjection, QueueAssumption
<1>2. IsFiniteSet({0} \cup S) /\ {0} \cup S \in SUBSET Nat
  <2>1. IsFiniteSet(S \cup {0})
    BY <1>1, FS_AddElement
  <2> QED BY <2>1
<1>3. \E m \in {0} \cup S : \A n \in {0} \cup S : m >= n
  BY <1>2, GreatestExists
<1> HIDE DEF S
<1>4. /\ Max({0} \cup S) \in {0} \cup S
      /\ \A n \in {0} \cup S : Max({0} \cup S) >= n
  BY <1>3 DEF Max
<1> USE DEF S
<1>5. \A t \in Tasks : f[t] \in S /\ f[t] \in Nat
  OBVIOUS
<1> QED BY <1>2, <1>4, <1>5 DEF Latest

\* time.time() is a number.
LEMMA NowType ==
    ASSUME dbAt \in [Tasks -> Nat], memAt \in [Tasks -> Nat]
    PROVE  Now \in Nat
<1>1. Latest(dbAt) \in Nat /\ Latest(memAt) \in Nat
  BY LatestType
<1>2. IsFiniteSet({Latest(dbAt), Latest(memAt)})
  <2>1. IsFiniteSet({} \cup {Latest(dbAt)})
    BY FS_EmptySet, FS_AddElement
  <2>2. IsFiniteSet({} \cup {Latest(dbAt)} \cup {Latest(memAt)})
    BY <2>1, FS_AddElement
  <2>3. {} \cup {Latest(dbAt)} \cup {Latest(memAt)} = {Latest(dbAt), Latest(memAt)}
    OBVIOUS
  <2> QED BY <2>2, <2>3
<1>3. \E m \in {Latest(dbAt), Latest(memAt)} : \A n \in {Latest(dbAt), Latest(memAt)} : m >= n
  BY <1>1, <1>2, GreatestExists
<1>4. Max({Latest(dbAt), Latest(memAt)}) \in {Latest(dbAt), Latest(memAt)}
  BY <1>3 DEF Max
<1> QED BY <1>1, <1>4 DEF Now

-----------------------------------------------------------------------------
(* The inductive invariant.                                                *)

\* Somebody may still bring the command of this task to its start: a restart
\* (its row), the consumer (the queue, or its hands) or its own POST.
MayStart(t) ==
    \/ row[t] = "queued"
    \/ t \in pending
    \/ sub[t] # "returned"
    \/ cons.task = t /\ cons.pc \in {"persist", "spawn"}

\* What makes a second start impossible: as long as anyone may start the
\* command it has not run, and no executor thread has it.
OnceOnly ==
    \A t \in Tasks :
        /\ starts[t] <= 1
        /\ MayStart(t) => starts[t] = 0 /\ ex[t] = "none"
        /\ ex[t] = "start" => starts[t] = 0

\* Where a task is: the queue and the consumer see it only after its POST, and
\* a task leaves the queue, then the queued rows, before it is started.
Places ==
    \A t \in Tasks :
        /\ row[t] = "queued" => sub[t] # "idle"
        /\ t \in pending \/ cons.task = t => sub[t] = "returned"
        /\ cons.task = t /\ cons.pc \in {"persist", "spawn"} => t \notin pending
        /\ cons.task = t /\ cons.pc = "spawn" => row[t] # "queued"

ConsumerHolds == IF cons.pc = "take" THEN cons.task = None ELSE cons.task \in Tasks

NothingWhenDown == ~up => cons.task = None /\ \A t \in Tasks : sub[t] # "inserted"

Invariant == OnceOnly /\ Places /\ ConsumerHolds /\ NothingWhenDown

IInv == TypeOK /\ Invariant

-----------------------------------------------------------------------------
(* Types. *)

\* The steps that write rows.
LEMMA RowTypes ==
    ASSUME TypeOK, NEW t \in Tasks
    PROVE  /\ \A s \in RowStatus : SetRow(t, s) =>
                /\ row' \in [Tasks -> RowStatus]
                /\ dbAt' \in [Tasks -> Nat]
           /\ \A s \in RowStatus : SetResult(t, s) => endAt' \in [Tasks -> Nat]
           /\ \A S \in SUBSET Tasks : DropRows(S) =>
                /\ row' \in [Tasks -> RowStatus]
                /\ dbAt' \in [Tasks -> Nat]
                /\ endAt' \in [Tasks -> Nat]
<1>1. /\ row \in [Tasks -> RowStatus]
      /\ dbAt \in [Tasks -> Nat]
      /\ endAt \in [Tasks -> Nat]
      /\ Latest(endAt) \in Nat
  BY LatestType DEF TypeOK
<1> QED BY <1>1 DEF RowStatus, SetRow, SetResult, DropRows

\* The steps that destroy a sandbox.
LEMMA DestroyTypes ==
    ASSUME TypeOK, NEW t \in Tasks, Destroy(t)
    PROVE  /\ sbx' \in [Tasks -> {"none", "live", "broken"}]
           /\ proc' \in [Tasks -> {"none", "main", "kids", "gone"}]
           /\ rc' \in [Tasks -> {"none", "ok", "bad"}]
<1>1. Kill(t) => /\ proc' \in [Tasks -> {"none", "main", "kids", "gone"}]
                 /\ rc' \in [Tasks -> {"none", "ok", "bad"}]
  BY DEF Kill, Populated, Collect, TypeOK
<1> QED BY <1>1 DEF Destroy, DestroyOk, DestroyFails, TypeOK

\* A destruction, and a command that may begin behind it.
LEMMA MeanwhileTypes ==
    ASSUME TypeOK, NEW t \in Tasks, DestroyMeanwhile(t)
    PROVE  /\ sbx' \in [Tasks -> {"none", "live", "broken"}]
           /\ proc' \in [Tasks -> {"none", "main", "kids", "gone"}]
           /\ rc' \in [Tasks -> {"none", "ok", "bad"}]
           /\ starts' \in [Tasks -> Nat]
           /\ escaped' \in SUBSET Tasks
           /\ ex' \in [Tasks -> ExecStep]
<1>1. CASE Destroy(t) /\ UNCHANGED <<starts, escaped, ex>>
  BY <1>1, DestroyTypes DEF TypeOK
<1>2. CASE DestroyedBehind(t)
  <2>1. \E s \in {"none", "broken"} : sbx' = [sbx EXCEPT ![t] = s]
    BY <1>2 DEF DestroyedBehind
  <2> QED BY <1>2, <2>1 DEF DestroyedBehind, ExecStep, TypeOK
<1> QED BY <1>1, <1>2 DEF DestroyMeanwhile

\* Who is outside is one of those who were.
LEMMA OutsideTypes ==
    ASSUME TypeOK, Outside
    PROVE  escaped' \in SUBSET Tasks
BY DEF Outside, TypeOK

\* The client threads.
LEMMA ClientTypes ==
    ASSUME TypeOK
    PROVE  /\ \A t \in Tasks : SubmitInsert(t) \/ SubmitEnqueue(t) => TypeOK'
           /\ \A d \in Deleters, S \in SUBSET Tasks : DeleteBegin(d, S) => TypeOK'
           /\ \A d \in Deleters, t \in Tasks :
                DeleteRow(d, t) \/ DeleteCancel(d, t) => TypeOK'
<1> USE DEF hostVars, execVars, rowVars, Fault
<1>1. Now \in Nat
  BY NowType DEF TypeOK
<1>2. ASSUME NEW t \in Tasks, SubmitInsert(t) PROVE TypeOK'
  BY <1>1, <1>2 DEF SubmitInsert, TypeOK, RowStatus
<1>3. ASSUME NEW t \in Tasks, SubmitEnqueue(t) PROVE TypeOK'
  BY <1>1, <1>3 DEF SubmitEnqueue, TypeOK
<1>4. ASSUME NEW d \in Deleters, NEW S \in SUBSET Tasks, DeleteBegin(d, S)
      PROVE  TypeOK'
  <2>1. del' \in [Deleters -> [rows : SUBSET Tasks, cancels : SUBSET Tasks]]
    <3>1. [rows |-> RowsOf(S), cancels |-> S \cap running]
            \in [rows : SUBSET Tasks, cancels : SUBSET Tasks]
      BY DEF RowsOf
    <3> QED BY <1>4, <3>1 DEF DeleteBegin, TypeOK
  <2>2. pending' \in SUBSET Tasks /\ memAt' \in [Tasks -> Nat]
    BY <1>4 DEF DeleteBegin, Dequeue, TypeOK
  <2> QED BY <1>4, <2>1, <2>2 DEF DeleteBegin, TypeOK
<1>5. ASSUME NEW d \in Deleters, NEW t \in Tasks, DeleteRow(d, t) PROVE TypeOK'
  <2>1. CASE DropRows({t}) /\ UNCHANGED faults
    <3>1. /\ row' \in [Tasks -> RowStatus]
          /\ dbAt' \in [Tasks -> Nat]
          /\ endAt' \in [Tasks -> Nat]
      BY <2>1, RowTypes
    <3>2. del' \in [Deleters -> [rows : SUBSET Tasks, cancels : SUBSET Tasks]]
      BY <1>5 DEF DeleteRow, TypeOK
    <3> QED BY <1>5, <2>1, <3>1, <3>2 DEF DeleteRow, TypeOK
  <2>2. CASE Fault /\ UNCHANGED rowVars
    BY <1>5, <2>2 DEF DeleteRow, TypeOK
  <2> QED BY <1>5, <2>1, <2>2 DEF DeleteRow
<1>6. ASSUME NEW d \in Deleters, NEW t \in Tasks, DeleteCancel(d, t) PROVE TypeOK'
  <2>1. del' \in [Deleters -> [rows : SUBSET Tasks, cancels : SUBSET Tasks]]
    BY <1>6 DEF DeleteCancel, TypeOK
  <2> QED BY <1>6, <2>1, MeanwhileTypes DEF DeleteCancel, CancelRunning, TypeOK
<1> QED BY <1>2, <1>3, <1>4, <1>5, <1>6

\* The consumer thread.
LEMMA ConsumerTypes ==
    ASSUME TypeOK, ConsumerHolds, Consumer
    PROVE  TypeOK'
<1> USE DEF hostVars, execVars, rowVars, Fault, At, GoTo, ConsStep, ConsumerHolds
<1>1. ASSUME ConsTake PROVE TypeOK'
  BY <1>1 DEF ConsTake, IsHead, TypeOK
<1>2. ASSUME ConsAllocate PROVE TypeOK'
  BY <1>2 DEF ConsAllocate, TypeOK
<1>3. ASSUME ConsRefused PROVE TypeOK'
  BY <1>3 DEF ConsRefused, TypeOK
<1>4. ASSUME ConsAdmit PROVE TypeOK'
  BY <1>4 DEF ConsAdmit, Dequeue, GoTo, TypeOK
<1>5. ASSUME ConsStale PROVE TypeOK'
  BY <1>5 DEF ConsStale, TypeOK
<1>6. ASSUME ConsDropSandbox PROVE TypeOK'
  BY <1>6, DestroyTypes DEF ConsDropSandbox, TypeOK
<1>7. ASSUME ConsPersist PROVE TypeOK'
  <2>1. cons.task \in Tasks /\ "running" \in RowStatus
    BY <1>7 DEF ConsPersist, RowStatus
  <2>2. CASE SetRow(cons.task, "running") /\ GoTo("spawn") /\ UNCHANGED faults
    <3>1. row' \in [Tasks -> RowStatus] /\ dbAt' \in [Tasks -> Nat]
      BY <2>1, <2>2, RowTypes
    <3> QED BY <1>7, <2>2, <3>1 DEF ConsPersist, TypeOK
  <2>3. CASE Fault /\ GoTo("undo") /\ UNCHANGED <<row, dbAt>>
    BY <1>7, <2>3 DEF ConsPersist, TypeOK
  <2> QED BY <1>7, <2>2, <2>3 DEF ConsPersist
<1>8. ASSUME ConsSpawn PROVE TypeOK'
  <2>1. ex' \in [Tasks -> ExecStep]
    BY <1>8 DEF ConsSpawn, TypeOK, ExecStep
  <2>2. cons' \in [pc : ConsStep, task : Tasks \cup {None}] /\ faults' \in Nat
    BY <1>8 DEF ConsSpawn, TypeOK
  <2> QED BY <1>8, <2>1, <2>2 DEF ConsSpawn, TypeOK
<1>9. ASSUME ConsUndo PROVE TypeOK'
  BY <1>9, DestroyTypes DEF ConsUndo, TypeOK
<1>10. ASSUME ConsGiveUp PROVE TypeOK'
  <2>1. cons.task \in Tasks /\ "failed" \in RowStatus
    BY <1>10 DEF ConsGiveUp, RowStatus
  <2>2. CASE SetResult(cons.task, "failed") /\ GoTo("drop") /\ UNCHANGED faults
    <3>1. /\ row' \in [Tasks -> RowStatus]
          /\ dbAt' \in [Tasks -> Nat]
          /\ endAt' \in [Tasks -> Nat]
      BY <2>1, <2>2, RowTypes DEF SetResult
    <3> QED BY <1>10, <2>2, <3>1 DEF ConsGiveUp, TypeOK
  <2>3. CASE Fault /\ GoTo("dead") /\ UNCHANGED rowVars
    BY <1>10, <2>3 DEF ConsGiveUp, TypeOK
  <2> QED BY <1>10, <2>2, <2>3 DEF ConsGiveUp
<1>11. ASSUME ConsDrop PROVE TypeOK'
  BY <1>11 DEF ConsDrop, TypeOK
<1> QED BY <1>1, <1>2, <1>3, <1>4, <1>5, <1>6, <1>7, <1>8, <1>9, <1>10, <1>11 DEF Consumer

\* An executor thread.
LEMMA ExecTypes ==
    ASSUME TypeOK, NEW t \in Tasks, ExecThread(t) \/ ExecTimeout(t)
    PROVE  TypeOK'
<1> USE DEF hostVars, execVars, rowVars, Fault
<1>1. ASSUME ExecStart(t) PROVE TypeOK'
  BY <1>1 DEF ExecStart, ExGoTo, ExecStep, TypeOK
<1>2. ASSUME ExecWait(t) PROVE TypeOK'
  BY <1>2 DEF ExecWait, ExGoTo, ExecStep, TypeOK
<1>3. ASSUME ExecTimeout(t) PROVE TypeOK'
  <2>1. proc' \in [Tasks -> {"none", "main", "kids", "gone"}]
    <3>1. PICK p \in Alive \cup {"gone"} : proc' = [proc EXCEPT ![t] = p]
      BY <1>3 DEF ExecTimeout
    <3> QED BY <3>1 DEF Alive, TypeOK
  <2> QED BY <1>3, <2>1, OutsideTypes DEF ExecTimeout, ExGoTo, ExecStep, TypeOK
<1>4. ASSUME ExecCleanup(t) PROVE TypeOK'
  <2>1. Destroy(t)
    BY <1>4 DEF ExecCleanup, Destroy
  <2>2. /\ clean' \in [Tasks -> BOOLEAN]
        /\ verdict' \in [Tasks -> {"none", "completed", "failed"}]
    BY <1>4 DEF ExecCleanup, FailVerdict, TypeOK
  <2> QED BY <1>4, <2>1, <2>2, DestroyTypes DEF ExecCleanup, ExGoTo, ExecStep, TypeOK
<1>5. ASSUME ExecJudge(t) PROVE TypeOK'
  BY <1>5 DEF ExecJudge, ExGoTo, ExecStep, Judged, TypeOK
<1>6. ASSUME ExecRecord(t) PROVE TypeOK'
  <2>1. row' \in [Tasks -> RowStatus] /\ dbAt' \in [Tasks -> Nat] /\ endAt' \in [Tasks -> Nat]
    <3>1. verdict[t] \in RowStatus
      BY DEF TypeOK, RowStatus
    <3>2. CASE SetResult(t, verdict[t])
      BY <3>1, <3>2, RowTypes DEF SetResult
    <3>3. CASE UNCHANGED rowVars
      BY <3>3 DEF TypeOK
    <3> QED BY <1>6, <3>2, <3>3 DEF ExecRecord
  <2>2. ex' \in [Tasks -> ExecStep] /\ faults' \in Nat
    BY <1>6 DEF ExecRecord, ExGoTo, ExecStep, TypeOK
  <2> QED BY <1>6, <2>1, <2>2 DEF ExecRecord, TypeOK
<1>7. ASSUME ExecPrune(t) PROVE TypeOK'
  <2>1. row' \in [Tasks -> RowStatus] /\ dbAt' \in [Tasks -> Nat] /\ endAt' \in [Tasks -> Nat]
    <3>1. CASE \E S \in SUBSET Tasks : DropRows(S)
      BY <3>1, RowTypes
    <3>2. CASE UNCHANGED rowVars
      BY <3>2 DEF TypeOK
    <3> QED BY <1>7, <3>1, <3>2 DEF ExecPrune
  <2>2. ex' \in [Tasks -> ExecStep] /\ faults' \in Nat
    BY <1>7 DEF ExecPrune, ExGoTo, ExecStep, TypeOK
  <2> QED BY <1>7, <2>1, <2>2 DEF ExecPrune, TypeOK
<1>8. ASSUME ExecLeave(t) PROVE TypeOK'
  BY <1>8 DEF ExecLeave, ExGoTo, ExecStep, TypeOK
<1>9. ASSUME ExecAbort(t) PROVE TypeOK'
  <2>1. row' \in [Tasks -> RowStatus] /\ dbAt' \in [Tasks -> Nat] /\ endAt' \in [Tasks -> Nat]
    <3>1. "failed" \in RowStatus
      BY DEF RowStatus
    <3>2. CASE SetResult(t, "failed")
      BY <3>1, <3>2, RowTypes DEF SetResult
    <3>3. CASE UNCHANGED rowVars
      BY <3>3 DEF TypeOK
    <3> QED BY <1>9, <3>2, <3>3 DEF ExecAbort
  <2>2. ex' \in [Tasks -> ExecStep] /\ faults' \in Nat
    BY <1>9 DEF ExecAbort, ExGoTo, ExecStep, TypeOK
  <2> QED BY <1>9, <2>1, <2>2 DEF ExecAbort, TypeOK
<1>10. ASSUME ExecFinally(t) PROVE TypeOK'
  <2>1. /\ sbx' \in [Tasks -> {"none", "live", "broken"}]
        /\ proc' \in [Tasks -> {"none", "main", "kids", "gone"}]
        /\ rc' \in [Tasks -> {"none", "ok", "bad"}]
    BY <1>10, DestroyTypes DEF ExecFinally, TypeOK
  <2> QED BY <1>10, <2>1 DEF ExecFinally, ExGoTo, ExecStep, TypeOK
<1> QED BY <1>1, <1>2, <1>3, <1>4, <1>5, <1>6, <1>7, <1>8, <1>9, <1>10 DEF ExecThread

\* The commands, the Reaper, and the end and the start of the Worker.
LEMMA WorldTypes ==
    ASSUME TypeOK
    PROVE  /\ \A t \in Tasks : MainExit(t) \/ KidsExit(t) \/ Reap(t) => TypeOK'
           /\ Crash \/ Restart => TypeOK'
<1> USE DEF hostVars, execVars, rowVars
<1>1. ASSUME NEW t \in Tasks, MainExit(t) PROVE TypeOK'
  <2>1. PICK p \in {"kids", "gone"} : proc' = [proc EXCEPT ![t] = p]
    BY <1>1 DEF MainExit
  <2>2. PICK r \in {"ok", "bad"} : rc' = [rc EXCEPT ![t] = Collect(t, r)]
    BY <1>1 DEF MainExit
  <2>3. /\ proc' \in [Tasks -> {"none", "main", "kids", "gone"}]
        /\ rc' \in [Tasks -> {"none", "ok", "bad"}]
    BY <2>1, <2>2 DEF Collect, TypeOK
  <2> QED BY <1>1, <2>3, OutsideTypes DEF MainExit, TypeOK
<1>2. ASSUME NEW t \in Tasks, KidsExit(t) PROVE TypeOK'
  BY <1>2, OutsideTypes DEF KidsExit, TypeOK
<1>3. ASSUME NEW t \in Tasks, Reap(t) PROVE TypeOK'
  BY <1>3, MeanwhileTypes DEF Reap, TypeOK
<1>4. ASSUME Crash PROVE TypeOK'
  <2>1. /\ sbx' \in [Tasks -> {"none", "live", "broken"}]
        /\ proc' \in [Tasks -> {"none", "main", "kids", "gone"}]
    BY <1>4 DEF Crash, TypeOK
  <2>2. /\ sub' \in [Tasks -> {"idle", "inserted", "returned"}]
        /\ cons' \in [pc : ConsStep, task : Tasks \cup {None}]
        /\ del' \in [Deleters -> [rows : SUBSET Tasks, cancels : SUBSET Tasks]]
        /\ crashes' \in Nat
    BY <1>4 DEF Crash, ConsStep, TypeOK
  <2> QED BY <1>4, <2>1, <2>2, OutsideTypes DEF Crash, ExecStep, TypeOK
<1>5. ASSUME Restart PROVE TypeOK'
  <2>1. Latest(endAt) \in Nat
    BY LatestType DEF TypeOK
  <2>2. row' \in [Tasks -> RowStatus] /\ endAt' \in [Tasks -> Nat]
    BY <1>5, <2>1 DEF Restart, Recovered, RowStatus, TypeOK
  <2>3. /\ pending' \in SUBSET Tasks
        /\ memAt' \in [Tasks -> Nat]
        /\ dbAt' \in [Tasks -> Nat]
        /\ up' \in BOOLEAN
    BY <1>5 DEF Restart, Requeued, RequeuedAt, TypeOK
  <2> QED BY <1>5, <2>2, <2>3 DEF Restart, TypeOK
<1> QED BY <1>1, <1>2, <1>3, <1>4, <1>5

LEMMA TypeStep ==
    ASSUME TypeOK, ConsumerHolds, [Next]_vars
    PROVE  TypeOK'
<1>1. ASSUME NEW t \in Tasks, TaskNext(t) PROVE TypeOK'
  BY <1>1, ClientTypes, ExecTypes, WorldTypes DEF TaskNext
<1>2. ASSUME NEW d \in Deleters, DeleteNext(d) PROVE TypeOK'
  <2>1. Known \subseteq Tasks
    BY DEF Known
  <2> QED BY <1>2, <2>1, ClientTypes DEF DeleteNext
<1>3. CASE UNCHANGED vars
  BY <1>3 DEF vars, hostVars, execVars, TypeOK
<1> QED BY <1>1, <1>2, <1>3, ConsumerTypes, WorldTypes DEF Next

-----------------------------------------------------------------------------
(* At most once. *)

\* What the invariant reads, apart from the row and the step of an executor.
queueView == <<pending, sub, cons, up, starts>>

\* Most steps change nothing that could bring a task closer to its start: no
\* row becomes queued, and no executor thread appears.
LEMMA QuietStep ==
    ASSUME TypeOK, Invariant, UNCHANGED queueView,
           \A t \in Tasks : row'[t] = "queued" => row[t] = "queued",
           \A t \in Tasks : ex[t] = "none" => ex'[t] = "none",
           \A t \in Tasks : ex'[t] = "start" => ex[t] = "start"
    PROVE  Invariant'
<1> USE DEF Invariant, queueView
<1>1. OnceOnly'
  BY DEF OnceOnly, MayStart
<1>2. Places'
  BY DEF Places
<1>3. ConsumerHolds' /\ NothingWhenDown'
  BY DEF ConsumerHolds, NothingWhenDown
<1> QED BY <1>1, <1>2, <1>3

\* A write of a row does not make it queued.
LEMMA RowsNotQueued ==
    ASSUME TypeOK, NEW t \in Tasks, NEW u \in Tasks
    PROVE  /\ \A s : SetRow(t, s) /\ s # "queued" /\ row'[u] = "queued" => row[u] = "queued"
           /\ \A s : SetResult(t, s) /\ s # "queued" /\ row'[u] = "queued" => row[u] = "queued"
           /\ \A S \in SUBSET Tasks : DropRows(S) /\ row'[u] = "queued" => row[u] = "queued"
BY DEF SetRow, SetResult, DropRows, TypeOK

\* The consumer can always let go of a task, or go on with it some other way
\* than to its start.
LEMMA ConsumerLetsGo ==
    ASSUME TypeOK, Invariant, UNCHANGED <<pending, sub, up, starts, ex>>,
           \A t \in Tasks : row'[t] = "queued" => row[t] = "queued",
           \/ cons' = [pc |-> "take", task |-> None]
           \/ /\ cons.pc # "take" /\ up
              /\ cons'.task = cons.task
              /\ cons'.pc \notin {"take", "persist", "spawn"}
    PROVE  Invariant'
<1> USE DEF Invariant
<1>1. OnceOnly'
  BY DEF OnceOnly, MayStart
<1>2. Places'
  BY QueueAssumption DEF Places
<1>3. ConsumerHolds' /\ NothingWhenDown'
  BY DEF ConsumerHolds, NothingWhenDown
<1> QED BY <1>1, <1>2, <1>3

\* A command starts, by its executor or behind a destruction.
LEMMA StartStep ==
    ASSUME TypeOK, Invariant, UNCHANGED <<row, pending, sub, cons, up>>,
           NEW t \in Tasks, ex[t] = "start", starts' = [starts EXCEPT ![t] = @ + 1],
           ex' = [ex EXCEPT ![t] = "wait"]
    PROVE  Invariant'
<1> USE DEF TypeOK, Invariant
<1>1. OnceOnly'
  BY DEF OnceOnly, MayStart
<1>2. Places'
  BY DEF Places
<1>3. ConsumerHolds' /\ NothingWhenDown'
  BY DEF ConsumerHolds, NothingWhenDown
<1> QED BY <1>1, <1>2, <1>3

LEMMA MeanwhileStep ==
    ASSUME TypeOK, Invariant, UNCHANGED <<row, pending, sub, cons, up>>,
           NEW t \in Tasks, DestroyMeanwhile(t)
    PROVE  Invariant'
<1>1. CASE Destroy(t) /\ UNCHANGED <<starts, escaped, ex>>
  BY <1>1, QuietStep DEF queueView
<1>2. CASE DestroyedBehind(t)
  BY <1>2, StartStep DEF DestroyedBehind
<1> QED BY <1>1, <1>2 DEF DestroyMeanwhile

LEMMA ClientStep ==
    ASSUME TypeOK, Invariant
    PROVE  /\ \A t \in Tasks : SubmitInsert(t) \/ SubmitEnqueue(t) => Invariant'
           /\ \A d \in Deleters, S \in SUBSET Tasks : DeleteBegin(d, S) => Invariant'
           /\ \A d \in Deleters, t \in Tasks :
                DeleteRow(d, t) \/ DeleteCancel(d, t) => Invariant'
<1> USE DEF hostVars, execVars, rowVars
<1>1. ASSUME NEW t \in Tasks, SubmitInsert(t) PROVE Invariant'
  <2> USE <1>1 DEF SubmitInsert, TypeOK, Invariant
  <2>1. OnceOnly'
    BY DEF OnceOnly, MayStart
  <2>2. Places'
    BY DEF OnceOnly, Places, MayStart
  <2>3. ConsumerHolds' /\ NothingWhenDown'
    BY DEF ConsumerHolds, NothingWhenDown
  <2> QED BY <2>1, <2>2, <2>3
<1>2. ASSUME NEW t \in Tasks, SubmitEnqueue(t) PROVE Invariant'
  <2> USE <1>2 DEF SubmitEnqueue, TypeOK, Invariant
  <2>1. OnceOnly'
    BY DEF OnceOnly, MayStart
  <2>2. Places'
    BY DEF Places
  <2>3. ConsumerHolds' /\ NothingWhenDown'
    BY DEF ConsumerHolds, NothingWhenDown
  <2> QED BY <2>1, <2>2, <2>3
<1>3. ASSUME NEW d \in Deleters, NEW S \in SUBSET Tasks, DeleteBegin(d, S)
      PROVE  Invariant'
  <2> USE <1>3 DEF DeleteBegin, Dequeue, Invariant
  <2>1. OnceOnly'
    BY DEF OnceOnly, MayStart
  <2>2. Places'
    BY DEF Places
  <2>3. ConsumerHolds' /\ NothingWhenDown'
    BY DEF ConsumerHolds, NothingWhenDown
  <2> QED BY <2>1, <2>2, <2>3
<1>4. ASSUME NEW d \in Deleters, NEW t \in Tasks, DeleteRow(d, t) PROVE Invariant'
  <2>1. \A u \in Tasks : row'[u] = "queued" => row[u] = "queued"
    BY <1>4, RowsNotQueued DEF DeleteRow
  <2> QED BY <1>4, <2>1, QuietStep DEF DeleteRow, queueView
<1>5. ASSUME NEW d \in Deleters, NEW t \in Tasks, DeleteCancel(d, t) PROVE Invariant'
  BY <1>5, MeanwhileStep DEF DeleteCancel, CancelRunning
<1> QED BY <1>1, <1>2, <1>3, <1>4, <1>5

LEMMA ConsumerStep ==
    ASSUME TypeOK, Invariant, Consumer
    PROVE  Invariant'
<1> USE DEF hostVars, execVars, rowVars, At, GoTo
<1>1. ASSUME ConsTake PROVE Invariant'
  <2> USE <1>1, QueueAssumption DEF ConsTake, IsHead, TypeOK, Invariant
  <2>1. OnceOnly'
    BY DEF OnceOnly, MayStart
  <2>2. Places'
    BY DEF Places
  <2>3. ConsumerHolds' /\ NothingWhenDown'
    BY DEF ConsumerHolds, NothingWhenDown
  <2> QED BY <2>1, <2>2, <2>3
<1>2. ASSUME \/ ConsAllocate \/ ConsRefused \/ ConsStale \/ ConsDropSandbox
             \/ ConsUndo \/ ConsDrop
      PROVE  Invariant'
  <2>1. UNCHANGED <<pending, sub, up, starts, ex, row>>
    BY <1>2 DEF ConsAllocate, ConsRefused, ConsStale, ConsDropSandbox, ConsUndo, ConsDrop
  <2>2. \/ cons' = [pc |-> "take", task |-> None]
        \/ /\ cons.pc # "take" /\ up
           /\ cons'.task = cons.task
           /\ cons'.pc \notin {"take", "persist", "spawn"}
    BY <1>2 DEF ConsAllocate, ConsRefused, ConsStale, ConsDropSandbox, ConsUndo, ConsDrop, TypeOK
  <2> QED BY <2>1, <2>2, ConsumerLetsGo
<1>3. ASSUME ConsAdmit PROVE Invariant'
  <2> USE <1>3 DEF ConsAdmit, StillHead, IsHead, Dequeue, TypeOK, Invariant
  <2>1. OnceOnly'
    BY DEF OnceOnly, MayStart
  <2>2. Places'
    BY DEF Places
  <2>3. ConsumerHolds' /\ NothingWhenDown'
    BY DEF ConsumerHolds, NothingWhenDown
  <2> QED BY <2>1, <2>2, <2>3
<1>4. ASSUME ConsPersist PROVE Invariant'
  <2>1. CASE Fault /\ GoTo("undo") /\ UNCHANGED <<row, dbAt>>
    BY <1>4, <2>1, ConsumerLetsGo DEF ConsPersist, TypeOK
  <2>2. CASE SetRow(cons.task, "running") /\ GoTo("spawn")
    <3> USE <1>4, <2>2 DEF ConsPersist, SetRow, TypeOK, Invariant
    <3>1. OnceOnly'
      BY DEF OnceOnly, MayStart
    <3>2. Places'
      BY DEF Places
    <3>3. ConsumerHolds' /\ NothingWhenDown'
      BY DEF ConsumerHolds, NothingWhenDown
    <3> QED BY <3>1, <3>2, <3>3
  <2> QED BY <1>4, <2>1, <2>2 DEF ConsPersist
<1>5. ASSUME ConsSpawn PROVE Invariant'
  <2>1. CASE Fault /\ GoTo("undo") /\ UNCHANGED ex
    BY <1>5, <2>1, ConsumerLetsGo DEF ConsSpawn, TypeOK
  <2>2. CASE /\ ex' = [ex EXCEPT ![cons.task] = "start"]
             /\ cons' = [pc |-> "take", task |-> None]
    <3> USE <1>5, <2>2, QueueAssumption DEF ConsSpawn, TypeOK, Invariant
    <3>1. OnceOnly'
      BY DEF OnceOnly, Places, MayStart
    <3>2. Places'
      BY DEF Places
    <3>3. ConsumerHolds' /\ NothingWhenDown'
      BY DEF ConsumerHolds, NothingWhenDown
    <3> QED BY <3>1, <3>2, <3>3
  <2> QED BY <1>5, <2>1, <2>2 DEF ConsSpawn
<1>6. ASSUME ConsGiveUp PROVE Invariant'
  <2>1. cons.task \in Tasks
    BY <1>6 DEF ConsGiveUp, Invariant, ConsumerHolds
  <2>2. \A u \in Tasks : row'[u] = "queued" => row[u] = "queued"
    BY <1>6, <2>1, RowsNotQueued DEF ConsGiveUp
  <2> QED BY <1>6, <2>2, ConsumerLetsGo DEF ConsGiveUp, TypeOK
<1> QED BY <1>1, <1>2, <1>3, <1>4, <1>5, <1>6 DEF Consumer

LEMMA ExecThreadStep ==
    ASSUME TypeOK, Invariant, NEW t \in Tasks, ExecThread(t) \/ ExecTimeout(t)
    PROVE  Invariant'
<1> USE DEF hostVars, execVars, rowVars, Exec, ExGoTo
<1>1. ASSUME ExecStart(t) PROVE Invariant'
  <2> USE <1>1 DEF ExecStart, TypeOK, Invariant
  <2>1. OnceOnly'
    BY DEF OnceOnly, MayStart
  <2>2. Places'
    BY DEF Places
  <2>3. ConsumerHolds' /\ NothingWhenDown'
    BY DEF ConsumerHolds, NothingWhenDown
  <2> QED BY <2>1, <2>2, <2>3
<1>2. ASSUME ~ExecStart(t) PROVE Invariant'
  <2>1. UNCHANGED queueView
    BY <1>2 DEF ExecThread, ExecWait, ExecTimeout, ExecCleanup, ExecJudge, ExecRecord,
                ExecPrune, ExecLeave, ExecAbort, ExecFinally, queueView
  <2>2. \A u \in Tasks : row'[u] = "queued" => row[u] = "queued"
    <3>1. CASE ExecRecord(t)
      <4>1. verdict[t] # "queued"
        BY DEF TypeOK
      <4> QED BY <3>1, <4>1, RowsNotQueued DEF ExecRecord
    <3>2. CASE ExecPrune(t) \/ ExecAbort(t)
      BY <3>2, RowsNotQueued DEF ExecPrune, ExecAbort
    <3>3. CASE \/ ExecWait(t) \/ ExecTimeout(t) \/ ExecCleanup(t) \/ ExecJudge(t)
               \/ ExecLeave(t) \/ ExecFinally(t)
      BY <3>3 DEF ExecWait, ExecTimeout, ExecCleanup, ExecJudge, ExecLeave, ExecFinally
    <3> QED BY <1>2, <3>1, <3>2, <3>3 DEF ExecThread
  <2>3. /\ \A u \in Tasks : ex[u] = "none" => ex'[u] = "none"
        /\ \A u \in Tasks : ex'[u] = "start" => ex[u] = "start"
    BY <1>2 DEF ExecThread, ExecWait, ExecTimeout, ExecCleanup, ExecJudge, ExecRecord,
                ExecPrune, ExecLeave, ExecAbort, ExecFinally, TypeOK
  <2> QED BY <2>1, <2>2, <2>3, QuietStep
<1> QED BY <1>1, <1>2

LEMMA WorldStep ==
    ASSUME TypeOK, Invariant
    PROVE  /\ \A t \in Tasks : MainExit(t) \/ KidsExit(t) \/ Reap(t) => Invariant'
           /\ Crash \/ Restart => Invariant'
<1> USE DEF hostVars, execVars, rowVars
<1>1. ASSUME NEW t \in Tasks, MainExit(t) \/ KidsExit(t) \/ Reap(t) PROVE Invariant'
  BY <1>1, QuietStep, MeanwhileStep DEF MainExit, KidsExit, Reap, queueView
<1>2. ASSUME Crash PROVE Invariant'
  <2> USE <1>2, QueueAssumption DEF Crash, TypeOK, Invariant
  <2>1. OnceOnly'
    BY DEF OnceOnly, MayStart
  <2>2. Places'
    BY DEF Places
  <2>3. ConsumerHolds' /\ NothingWhenDown'
    BY DEF ConsumerHolds, NothingWhenDown
  <2> QED BY <2>1, <2>2, <2>3
\* Only rows that still say "queued" come back, and those have not run.
<1>3. ASSUME Restart PROVE Invariant'
  <2> USE <1>3, QueueAssumption DEF Restart, Requeued, Recovered, TypeOK, Invariant
  <2>1. OnceOnly'
    BY DEF OnceOnly, MayStart
  <2>2. Places'
    BY DEF Places, NothingWhenDown
  <2>3. ConsumerHolds' /\ NothingWhenDown'
    BY DEF ConsumerHolds, NothingWhenDown
  <2> QED BY <2>1, <2>2, <2>3
<1> QED BY <1>1, <1>2, <1>3

-----------------------------------------------------------------------------
LEMMA Inductive == IInv /\ [Next]_vars => IInv'
<1> SUFFICES ASSUME IInv, [Next]_vars PROVE IInv'
  OBVIOUS
<1>1. TypeOK /\ Invariant
  BY DEF IInv, Invariant
<1>2. TypeOK'
  BY <1>1, TypeStep DEF Invariant
<1>3. Invariant'
  <2>1. ASSUME NEW t \in Tasks, TaskNext(t) PROVE Invariant'
    BY <1>1, <2>1, ClientStep, ExecThreadStep, WorldStep DEF TaskNext
  <2>2. ASSUME NEW d \in Deleters, DeleteNext(d) PROVE Invariant'
    <3>1. Known \subseteq Tasks
      BY DEF Known
    <3> QED BY <1>1, <2>2, <3>1, ClientStep DEF DeleteNext
  <2>3. CASE UNCHANGED vars
    BY <1>1, <2>3, QuietStep DEF vars, hostVars, execVars, queueView
  <2> QED BY <1>1, <2>1, <2>2, <2>3, ConsumerStep, WorldStep DEF Next
<1> QED BY <1>2, <1>3 DEF IInv, Invariant

LEMMA Initially == Init => IInv
<1> SUFFICES ASSUME Init PROVE IInv
  OBVIOUS
<1>1. TypeOK
  BY DEF Init, TypeOK, RowStatus, ConsStep, ExecStep
<1>2. OnceOnly /\ Places /\ ConsumerHolds /\ NothingWhenDown
  BY QueueAssumption DEF Init, OnceOnly, MayStart, Places, ConsumerHolds, NothingWhenDown
<1> QED BY <1>1, <1>2 DEF IInv, Invariant

\* The inductive invariant holds in every reachable state of the queue.
THEOREM Safety == Spec => []IInv
<1>1. Init => IInv
  BY Initially
<1>2. IInv /\ [Next]_vars => IInv'
  BY Inductive
<1> QED BY <1>1, <1>2, PTL DEF Spec

\* Every variable keeps its type: whatever the handlers, the consumer, the
\* executor threads and the restarts do, rows and queue stay well formed.
THEOREM TypeCorrect == Spec => []TypeOK
<1>1. IInv => TypeOK
  BY DEF IInv
<1> QED BY <1>1, Safety, PTL

\* The command of a task is started at most once, whatever the number of
\* tasks, clients, crashes of the Worker and failing SQLite writes.
THEOREM StartedOnce == Spec => []AtMostOnce
<1>1. IInv => AtMostOnce
  BY DEF IInv, Invariant, OnceOnly, AtMostOnce
<1> QED BY <1>1, Safety, PTL

-----------------------------------------------------------------------------
(* The order of the queue. *)

\* Only the consumer's second look at the queue adds a task to _running.
LEMMA OnlyAdmitRuns ==
    ASSUME [Next]_vars, ~ConsAdmit
    PROVE  running' \subseteq running
<1> USE DEF hostVars, execVars, rowVars
<1>1. ASSUME NEW t \in Tasks, TaskNext(t) PROVE running' \subseteq running
  BY <1>1 DEF TaskNext, SubmitInsert, SubmitEnqueue, MainExit, KidsExit, Reap,
              ExecThread, ExecStart, ExecWait, ExecTimeout, ExecCleanup, ExecJudge,
              ExecRecord, ExecPrune, ExecLeave, ExecAbort, ExecFinally
<1>2. ASSUME NEW d \in Deleters, DeleteNext(d) PROVE running' \subseteq running
  BY <1>2 DEF DeleteNext, DeleteBegin, DeleteRow, DeleteCancel
<1>3. ASSUME Consumer PROVE running' \subseteq running
  BY <1>3 DEF Consumer, ConsTake, ConsAllocate, ConsRefused, ConsStale, ConsDropSandbox,
              ConsPersist, ConsSpawn, ConsUndo, ConsGiveUp, ConsDrop
<1>4. CASE Crash \/ Restart \/ UNCHANGED vars
  BY <1>4 DEF Crash, Restart, vars
<1> QED BY <1>1, <1>2, <1>3, <1>4 DEF Next

\* Of all the tasks in the queue at the moment a task is admitted, none comes
\* before it in the documented order, for every number of tasks and clients.
THEOREM OrderKept == Spec => NoOvertaking
<1>1. ASSUME [Next]_vars
      PROVE  \A t \in running' \ running : \A u \in pending \ {t} : Before(t, u)
  <2>1. CASE ConsAdmit
    BY <2>1 DEF ConsAdmit, StillHead, IsHead
  <2>2. CASE ~ConsAdmit
    BY <1>1, <2>2, OnlyAdmitRuns
  <2> QED BY <2>1, <2>2
<1> QED BY <1>1, PTL DEF Spec, NoOvertaking

=============================================================================
