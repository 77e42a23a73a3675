--------------------------- MODULE TaskResultProofs ---------------------------
(***************************************************************************)
(* More theorems about TaskQueue, for every number of tasks, clients and   *)
(* crashes: who answers for a running task, what a "completed" row means,  *)
(* that no queued task is lost, and that the queue implements the          *)
(* lifecycle of module TaskLifecycle.                                      *)
(***************************************************************************)
EXTENDS TaskQueueProofs

-----------------------------------------------------------------------------
(* The inductive invariants, on top of IInv. *)

\* What the consumer has in its hands has not been started, and no executor
\* thread has it, at whatever step the consumer is.
Unstarted == \A t \in Tasks : cons.task = t => starts[t] = 0 /\ ex[t] = "none"

\* The command has run, and what may be left of it is in no sandbox.
Closed(t) ==
    /\ sbx[t] = "none"
    /\ starts[t] = 1
    /\ proc[t] = "gone" \/ (proc[t] = "kids" /\ t \in escaped)

\* A verdict is there from the end of the command to its row, and "completed"
\* is one only of a command that has run, and ended before it is judged.
Verdicts ==
    \A t \in Tasks :
        /\ ex[t] = "wait" => starts[t] = 1 /\ proc[t] # "none"
        /\ ex[t] \in {"cleanup", "judge", "record"} => verdict[t] # "none"
        /\ verdict[t] = "completed" =>
              \/ ex[t] = "cleanup" /\ starts[t] = 1 /\ proc[t] \in {"kids", "gone"}
              \/ ex[t] \in {"judge", "record"} /\ Closed(t)
        /\ row[t] = "completed" => Closed(t)

\* Who removes a task from _running, and what its row says until then.  Only a
\* second exception lets a thread leave without either.
Owners ==
    /\ \A t \in Tasks :
        /\ ConsHolds(t) => t \in running /\ t \notin pending
        /\ t \in running => ConsHolds(t) \/ ex[t] # "none" \/ faults >= 2
        /\ ex[t] \notin {"none", "finally"} => t \in running
        /\ ex[t] = "abort" => faults >= 1
        /\ ex[t] \in {"prune", "leave"} => row[t] # "running"
        /\ ex[t] = "finally" => row[t] # "running" \/ faults >= 2
        /\ cons.task = t /\ cons.pc = "drop" => row[t] # "running"
        /\ up /\ row[t] = "running" => t \in running \/ faults >= 2
    /\ cons.pc \in {"undo", "giveup", "drop"} => faults >= 1
    /\ cons.pc = "dead" => faults >= 2
    /\ ~up => pending = {} /\ running = {}

OInv == IInv /\ Unstarted /\ Verdicts /\ Owners

\* Unless a DELETE may overtake a POST, the rows follow their tasks: a thread
\* that is going to start, run or record a task finds the row it expects, and a
\* DELETE takes the row only of a task that nobody will touch again.
RowsFollow ==
    /\ \A t \in Tasks :
        /\ sub[t] = "idle" => row[t] = "none"
        /\ sub[t] = "inserted" => row[t] = "queued"
        /\ t \in pending => row[t] = "queued"
        /\ cons.task = t /\ cons.pc = "persist" => row[t] = "queued"
        /\ cons.task = t /\ cons.pc = "spawn" => row[t] = "running"
        /\ ex[t] \in {"start", "wait", "cleanup", "judge", "record"} => row[t] = "running"
        /\ \A d \in Deleters : t \in del[d].rows =>
              t \notin pending /\ t \notin running /\ sub[t] = "returned"
    /\ ~up => \A d \in Deleters : del[d].rows = {}

\* A stamp in memory is never older than the one in the row.
Stamps ==
    \A t \in Tasks :
        /\ sub[t] = "idle" => memAt[t] = 0
        /\ memAt[t] = 0 \/ dbAt[t] <= memAt[t]

\* A task that was canceled before it was judged, from then on: no thread will
\* write "completed" any more.
NeverCompletes(t) ==
    /\ ~MayStart(t)
    /\ cons.task # t
    /\ row[t] # "completed"
    /\ ex[t] \in {"start", "wait", "cleanup", "judge"} => t \in canceled
    /\ ex[t] = "record" => verdict[t] # "completed"

-----------------------------------------------------------------------------
(* What a command has come to. *)

\* The end of a command is for good: a destruction changes nothing any more.
LEMMA DestroyKeepsEnd ==
    ASSUME TypeOK, NEW t \in Tasks, NEW u \in Tasks, Destroy(t)
    PROVE  /\ Closed(u) /\ starts' = starts /\ escaped' = escaped => Closed(u)'
           /\ proc[u] # "none" => proc'[u] # "none"
           /\ proc[u] \in {"kids", "gone"} => proc'[u] \in {"kids", "gone"}
BY DEF TypeOK, Destroy, DestroyOk, DestroyFails, Kill, Populated, Alive, Closed

\* No command that has a verdict or a result begins behind a destruction.
LEMMA MeanwhileVerdicts ==
    ASSUME TypeOK, Invariant, Verdicts, NEW t \in Tasks, DestroyMeanwhile(t),
           UNCHANGED <<row, verdict>>
    PROVE  Verdicts'
<1>1. CASE Destroy(t) /\ UNCHANGED <<starts, escaped, ex>>
  BY <1>1, DestroyKeepsEnd DEF Verdicts
<1>2. CASE DestroyedBehind(t)
  <2>1. /\ starts[t] = 0 /\ starts'[t] = 1 /\ proc'[t] = "main" /\ ex'[t] = "wait"
        /\ ex[t] = "start" /\ row[t] # "completed" /\ verdict[t] # "completed"
    BY <1>2 DEF DestroyedBehind, Invariant, OnceOnly, Verdicts, Closed, TypeOK
  <2>2. ASSUME NEW u \in Tasks \ {t}
        PROVE  /\ ex'[u] = ex[u] /\ starts'[u] = starts[u] /\ proc'[u] = proc[u]
               /\ Closed(u) => Closed(u)'
    BY <1>2 DEF DestroyedBehind, Closed, TypeOK
  <2> QED BY <2>1, <2>2 DEF Verdicts
<1> QED BY <1>1, <1>2 DEF DestroyMeanwhile

LEMMA ClientVerdicts ==
    ASSUME TypeOK, Invariant, Unstarted, Verdicts
    PROVE  /\ \A t \in Tasks : SubmitInsert(t) \/ SubmitEnqueue(t) => Verdicts'
           /\ \A d \in Deleters, S \in SUBSET Tasks : DeleteBegin(d, S) => Verdicts'
           /\ \A d \in Deleters, t \in Tasks :
                DeleteRow(d, t) \/ DeleteCancel(d, t) => Verdicts'
<1> USE DEF hostVars, execVars, rowVars
<1>1. ASSUME NEW t \in Tasks, SubmitInsert(t) \/ SubmitEnqueue(t) PROVE Verdicts'
  BY <1>1 DEF SubmitInsert, SubmitEnqueue, Verdicts, Closed, TypeOK
<1>2. ASSUME NEW d \in Deleters, NEW S \in SUBSET Tasks, DeleteBegin(d, S)
      PROVE  Verdicts'
  BY <1>2 DEF DeleteBegin, Verdicts, Closed
<1>3. ASSUME NEW d \in Deleters, NEW t \in Tasks, DeleteRow(d, t) PROVE Verdicts'
  BY <1>3 DEF DeleteRow, DropRows, Verdicts, Closed
<1>4. ASSUME NEW d \in Deleters, NEW t \in Tasks, DeleteCancel(d, t) PROVE Verdicts'
  BY <1>4, MeanwhileVerdicts DEF DeleteCancel, CancelRunning
<1> QED BY <1>1, <1>2, <1>3, <1>4

\* The consumer makes sandboxes, and destroys them, only for tasks whose command
\* was not started; so no ended command gets its sandbox back.
LEMMA ConsumerVerdicts ==
    ASSUME TypeOK, Invariant, Unstarted, Verdicts, Consumer
    PROVE  Verdicts'
<1> USE DEF hostVars, execVars, rowVars, At, GoTo
<1>1. ASSUME ConsTake \/ ConsRefused \/ ConsAdmit \/ ConsStale \/ ConsDrop
      PROVE  Verdicts'
  BY <1>1 DEF ConsTake, ConsRefused, ConsAdmit, ConsStale, ConsDrop, Verdicts, Closed
<1>2. ASSUME ConsAllocate PROVE Verdicts'
  BY <1>2 DEF ConsAllocate, Unstarted, Verdicts, Closed, TypeOK
<1>3. ASSUME ConsDropSandbox \/ ConsUndo PROVE Verdicts'
  <2>1. cons.task \in Tasks /\ Destroy(cons.task)
    BY <1>3 DEF ConsDropSandbox, ConsUndo, Invariant, ConsumerHolds
  <2> QED BY <1>3, <2>1, DestroyKeepsEnd DEF ConsDropSandbox, ConsUndo, Verdicts
<1>4. ASSUME ConsPersist \/ ConsGiveUp PROVE Verdicts'
  BY <1>4 DEF ConsPersist, ConsGiveUp, SetRow, SetResult, Verdicts, Closed, TypeOK
<1>5. ASSUME ConsSpawn PROVE Verdicts'
  BY <1>5 DEF ConsSpawn, Unstarted, Verdicts, Closed, TypeOK
<1> QED BY <1>1, <1>2, <1>3, <1>4, <1>5 DEF Consumer

LEMMA ExecVerdicts ==
    ASSUME TypeOK, Invariant, Verdicts, NEW t \in Tasks, ExecThread(t) \/ ExecTimeout(t)
    PROVE  Verdicts'
<1> USE DEF hostVars, execVars, rowVars, Exec, ExGoTo
<1>1. ASSUME ExecStart(t) PROVE Verdicts'
  BY <1>1 DEF ExecStart, Invariant, OnceOnly, Verdicts, Closed, TypeOK
<1>2. ASSUME ExecWait(t) PROVE Verdicts'
  BY <1>2 DEF ExecWait, Verdicts, Closed, TypeOK
<1>3. ASSUME ExecTimeout(t) PROVE Verdicts'
  <2>1. PICK p \in Alive \cup {"gone"} : proc' = [proc EXCEPT ![t] = p]
    BY <1>3 DEF ExecTimeout
  <2> QED BY <1>3, <2>1 DEF ExecTimeout, Outside, Alive, Verdicts, Closed, TypeOK
<1>4. ASSUME ExecCleanup(t) PROVE Verdicts'
  <2>1. Destroy(t)
    BY <1>4 DEF ExecCleanup, Destroy
  \* "completed" is still the verdict only if the destruction succeeded.
  <2>2. verdict'[t] = "completed" => Closed(t)'
    BY <1>4 DEF ExecCleanup, DestroyOk, Kill, Populated, Alive, FailVerdict, Verdicts, Closed, TypeOK
  <2>3. verdict'[t] = "none" => ex'[t] = "abort"
    BY <1>4 DEF ExecCleanup, FailVerdict, Verdicts, TypeOK
  <2>4. ex'[t] \in {"judge", "abort"}
    BY <1>4 DEF ExecCleanup, TypeOK
  <2>5. verdict'[t] = "completed" => ex'[t] = "judge"
    BY <1>4 DEF ExecCleanup, FailVerdict, TypeOK
  <2>6. \A u \in Tasks \ {t} : verdict'[u] = verdict[u] /\ ex'[u] = ex[u]
    BY <1>4 DEF ExecCleanup, FailVerdict, TypeOK
  <2>7. row' = row /\ starts' = starts /\ escaped' = escaped
    BY <1>4 DEF ExecCleanup
  <2>8. ASSUME NEW u \in Tasks
        PROVE  /\ Closed(u) => Closed(u)'
               /\ proc[u] # "none" => proc'[u] # "none"
               /\ proc[u] \in {"kids", "gone"} => proc'[u] \in {"kids", "gone"}
    BY <2>1, <2>7, DestroyKeepsEnd
  <2> QED BY <2>2, <2>3, <2>4, <2>5, <2>6, <2>7, <2>8 DEF Verdicts
<1>5. ASSUME ExecJudge(t) PROVE Verdicts'
  BY <1>5 DEF ExecJudge, Judged, Verdicts, Closed, TypeOK
<1>6. ASSUME ExecRecord(t) PROVE Verdicts'
  BY <1>6 DEF ExecRecord, SetResult, SetRow, Verdicts, Closed, TypeOK
<1>7. ASSUME ExecPrune(t) \/ ExecLeave(t) \/ ExecAbort(t) PROVE Verdicts'
  BY <1>7 DEF ExecPrune, ExecLeave, ExecAbort, DropRows, SetResult, SetRow, Verdicts, Closed,
              TypeOK
<1>8. ASSUME ExecFinally(t) PROVE Verdicts'
  <2>1. \/ Destroy(t)
        \/ UNCHANGED <<proc, rc, sbx>>
    BY <1>8 DEF ExecFinally
  <2>2. CASE Destroy(t)
    BY <1>8, <2>2, DestroyKeepsEnd DEF ExecFinally, Verdicts, TypeOK
  <2>3. CASE UNCHANGED <<proc, rc, sbx>>
    BY <1>8, <2>3 DEF ExecFinally, Verdicts, Closed, TypeOK
  <2> QED BY <2>1, <2>2, <2>3
<1> QED BY <1>1, <1>2, <1>3, <1>4, <1>5, <1>6, <1>7, <1>8 DEF ExecThread

LEMMA WorldVerdicts ==
    ASSUME TypeOK, Invariant, Verdicts
    PROVE  /\ \A t \in Tasks : MainExit(t) \/ KidsExit(t) \/ Reap(t) => Verdicts'
           /\ Crash \/ Restart => Verdicts'
<1> USE DEF hostVars, execVars, rowVars
<1>1. ASSUME NEW t \in Tasks, MainExit(t) PROVE Verdicts'
  <2>1. PICK p \in {"kids", "gone"} : proc' = [proc EXCEPT ![t] = p]
    BY <1>1 DEF MainExit
  <2> QED BY <1>1, <2>1 DEF MainExit, Outside, Alive, Verdicts, Closed, TypeOK
<1>2. ASSUME NEW t \in Tasks, KidsExit(t) PROVE Verdicts'
  BY <1>2 DEF KidsExit, Outside, Alive, Verdicts, Closed, TypeOK
<1>3. ASSUME NEW t \in Tasks, Reap(t) PROVE Verdicts'
  BY <1>3, MeanwhileVerdicts DEF Reap
<1>4. ASSUME Crash PROVE Verdicts'
  <2>1. \A u \in Tasks : ex'[u] = "none" /\ verdict'[u] = "none" /\ row'[u] = row[u]
    BY <1>4 DEF Crash
  <2>2. \A u \in Tasks : Closed(u) => Closed(u)'
    BY <1>4 DEF Crash, Outside, Alive, Closed, TypeOK
  <2> QED BY <2>1, <2>2 DEF Verdicts
<1>5. ASSUME Restart PROVE Verdicts'
  BY <1>5 DEF Restart, Recovered, Verdicts, Closed, TypeOK
<1> QED BY <1>1, <1>2, <1>3, <1>4, <1>5

-----------------------------------------------------------------------------
(* The hands of the consumer. *)

\* Only the consumer's own steps put a task in its hands or start a thread, and
\* only an executor thread starts a command.
LEMMA StillUnstarted ==
    ASSUME TypeOK, Invariant, Unstarted, [Next]_vars
    PROVE  Unstarted'
<1> USE DEF hostVars, execVars, rowVars, Unstarted, TypeOK
<1>0. ASSUME NEW t \in Tasks, DestroyMeanwhile(t), UNCHANGED cons PROVE Unstarted'
  BY <1>0 DEF DestroyMeanwhile, DestroyedBehind
<1>1. ASSUME NEW t \in Tasks, TaskNext(t) PROVE Unstarted'
  <2>1. CASE Reap(t)
    BY <1>0, <2>1 DEF Reap
  <2> QED BY <1>1, <2>1
        DEF TaskNext, SubmitInsert, SubmitEnqueue, MainExit, KidsExit, ExecThread,
            ExecStart, ExecWait, ExecTimeout, ExecCleanup, ExecJudge, ExecRecord,
            ExecPrune, ExecLeave, ExecAbort, ExecFinally, Exec, ExGoTo
<1>2. ASSUME NEW d \in Deleters, DeleteNext(d) PROVE Unstarted'
  <2>1. ASSUME NEW t \in Tasks, DeleteCancel(d, t) PROVE Unstarted'
    BY <1>0, <2>1 DEF DeleteCancel, CancelRunning
  <2>2. Known \subseteq Tasks
    BY DEF Known
  <2> QED BY <1>2, <2>1, <2>2 DEF DeleteNext, DeleteBegin, DeleteRow
<1>3. ASSUME ConsTake PROVE Unstarted'
  BY <1>3 DEF ConsTake, IsHead, Invariant, OnceOnly, MayStart
<1>4. ASSUME Consumer, ~ConsTake, ~ConsSpawn PROVE Unstarted'
  <2>1. UNCHANGED <<ex, starts>>
    BY <1>4 DEF Consumer, ConsAllocate, ConsRefused, ConsAdmit, ConsStale, ConsDropSandbox,
                ConsPersist, ConsUndo, ConsGiveUp, ConsDrop
  <2>2. cons'.task \in {None, cons.task}
    BY <1>4 DEF Consumer, ConsAllocate, ConsRefused, ConsAdmit, ConsStale, ConsDropSandbox,
                ConsPersist, ConsUndo, ConsGiveUp, ConsDrop, GoTo
  <2> QED BY <2>1, <2>2, QueueAssumption
<1>5. ASSUME ConsSpawn PROVE Unstarted'
  BY <1>5, QueueAssumption DEF ConsSpawn, GoTo
<1>6. CASE Crash \/ Restart \/ UNCHANGED vars
  BY <1>6, QueueAssumption DEF Crash, Restart, vars
<1> QED BY <1>1, <1>2, <1>3, <1>4, <1>5, <1>6 DEF Next

LEMMA StillVerdicts ==
    ASSUME TypeOK, Invariant, Unstarted, Verdicts, [Next]_vars
    PROVE  Verdicts'
<1>1. ASSUME NEW t \in Tasks, TaskNext(t) PROVE Verdicts'
  BY <1>1, ClientVerdicts, ExecVerdicts, WorldVerdicts DEF TaskNext
<1>2. ASSUME NEW d \in Deleters, DeleteNext(d) PROVE Verdicts'
  <2>1. Known \subseteq Tasks
    BY DEF Known
  <2> QED BY <1>2, <2>1, ClientVerdicts DEF DeleteNext
<1>3. CASE UNCHANGED vars
  BY <1>3 DEF vars, hostVars, execVars, Verdicts, Closed
<1> QED BY <1>1, <1>2, <1>3, ConsumerVerdicts, WorldVerdicts DEF Next

-----------------------------------------------------------------------------
(* Who answers for a running task. *)

\* A step that leaves threads, queue and _running alone, and makes no row
\* "running", disturbs nobody.
LEMMA OwnersQuiet ==
    ASSUME Owners, UNCHANGED <<up, pending, running, cons, ex>>, faults \in Nat,
           faults' \in {faults, faults + 1},
           \A t \in Tasks : row'[t] = "running" => row[t] = "running"
    PROVE  Owners'
BY DEF Owners, ConsHolds

LEMMA MeanwhileOwners ==
    ASSUME TypeOK, Owners, UNCHANGED <<up, pending, running, cons, faults, row>>,
           NEW t \in Tasks, DestroyMeanwhile(t)
    PROVE  Owners'
<1>1. CASE UNCHANGED ex
  BY <1>1, OwnersQuiet DEF TypeOK
<1>2. CASE ex[t] = "start" /\ ex' = [ex EXCEPT ![t] = "wait"]
  BY <1>2 DEF Owners, ConsHolds, TypeOK
<1> QED BY <1>1, <1>2 DEF DestroyMeanwhile, DestroyedBehind

LEMMA ClientOwners ==
    ASSUME TypeOK, Invariant, Owners
    PROVE  /\ \A t \in Tasks : SubmitInsert(t) \/ SubmitEnqueue(t) => Owners'
           /\ \A d \in Deleters, S \in SUBSET Tasks : DeleteBegin(d, S) => Owners'
           /\ \A d \in Deleters, t \in Tasks :
                DeleteRow(d, t) \/ DeleteCancel(d, t) => Owners'
<1> USE DEF hostVars, execVars, rowVars, Fault
<1>1. ASSUME NEW t \in Tasks, SubmitInsert(t) PROVE Owners'
  BY <1>1, OwnersQuiet DEF SubmitInsert, TypeOK
\* A task that the consumer holds has been through its POST long ago.
<1>2. ASSUME NEW t \in Tasks, SubmitEnqueue(t) PROVE Owners'
  BY <1>2 DEF SubmitEnqueue, Invariant, Places, Owners, ConsHolds
<1>3. ASSUME NEW d \in Deleters, NEW S \in SUBSET Tasks, DeleteBegin(d, S)
      PROVE  Owners'
  BY <1>3 DEF DeleteBegin, Dequeue, Owners, ConsHolds, TypeOK
<1>4. ASSUME NEW d \in Deleters, NEW t \in Tasks, DeleteRow(d, t) PROVE Owners'
  BY <1>4, OwnersQuiet DEF DeleteRow, DropRows, TypeOK
<1>5. ASSUME NEW d \in Deleters, NEW t \in Tasks, DeleteCancel(d, t) PROVE Owners'
  BY <1>5, MeanwhileOwners DEF DeleteCancel, CancelRunning
<1> QED BY <1>1, <1>2, <1>3, <1>4, <1>5

LEMMA ConsumerOwners ==
    ASSUME TypeOK, Invariant, Unstarted, Owners, Consumer
    PROVE  Owners'
<1> USE DEF hostVars, execVars, rowVars, At, GoTo, Fault
<1>1. ASSUME ConsTake PROVE Owners'
  BY <1>1 DEF ConsTake, Owners, ConsHolds
<1>2. ASSUME ConsAllocate \/ ConsRefused \/ ConsStale \/ ConsDropSandbox PROVE Owners'
  BY <1>2 DEF ConsAllocate, ConsRefused, ConsStale, ConsDropSandbox, Owners, ConsHolds, TypeOK
<1>3. ASSUME ConsAdmit PROVE Owners'
  BY <1>3 DEF ConsAdmit, StillHead, IsHead, Dequeue, Owners, ConsHolds, TypeOK
<1>4. ASSUME ConsPersist PROVE Owners'
  BY <1>4 DEF ConsPersist, SetRow, Unstarted, Owners, ConsHolds, TypeOK
<1>5. ASSUME ConsSpawn PROVE Owners'
  BY <1>5, QueueAssumption DEF ConsSpawn, Unstarted, Owners, ConsHolds, TypeOK
<1>6. ASSUME ConsUndo PROVE Owners'
  BY <1>6 DEF ConsUndo, Owners, ConsHolds, TypeOK
<1>7. ASSUME ConsGiveUp PROVE Owners'
  BY <1>7 DEF ConsGiveUp, SetResult, SetRow, Owners, ConsHolds, TypeOK
<1>8. ASSUME ConsDrop PROVE Owners'
  BY <1>8, QueueAssumption DEF ConsDrop, Unstarted, Owners, ConsHolds, TypeOK
<1> QED BY <1>1, <1>2, <1>3, <1>4, <1>5, <1>6, <1>7, <1>8 DEF Consumer

LEMMA ExecOwners ==
    ASSUME TypeOK, Unstarted, Owners, NEW t \in Tasks, ExecThread(t) \/ ExecTimeout(t)
    PROVE  Owners'
<1> USE DEF hostVars, execVars, rowVars, Exec, ExGoTo, Fault
<1>0. up /\ ex[t] # "none" /\ ~ConsHolds(t)
  BY DEF Unstarted, ConsHolds, ExecThread, ExecStart, ExecWait, ExecTimeout, ExecCleanup,
         ExecJudge, ExecRecord, ExecPrune, ExecLeave, ExecAbort, ExecFinally
<1>1. ASSUME \/ ExecStart(t) \/ ExecWait(t) \/ ExecTimeout(t) \/ ExecJudge(t)
             \/ ExecCleanup(t)
      PROVE  Owners'
  <2>1. /\ UNCHANGED <<up, pending, running, cons, row>>
        /\ ex[t] \notin {"none", "finally"}
        /\ \/ /\ \E step \in {"wait", "cleanup", "judge", "record"} :
                    ex' = [ex EXCEPT ![t] = step]
              /\ UNCHANGED faults
           \/ /\ ex' = [ex EXCEPT ![t] = "abort"]
              /\ faults' = faults + 1
    BY <1>1 DEF ExecStart, ExecWait, ExecTimeout, ExecJudge, ExecCleanup
  <2> QED BY <1>0, <2>1 DEF Owners, ConsHolds, TypeOK
<1>2. ASSUME ExecRecord(t) PROVE Owners'
  BY <1>0, <1>2 DEF ExecRecord, SetResult, SetRow, Owners, ConsHolds, TypeOK
<1>3. ASSUME ExecPrune(t) PROVE Owners'
  BY <1>0, <1>3 DEF ExecPrune, DropRows, Owners, ConsHolds, TypeOK
<1>4. ASSUME ExecLeave(t) PROVE Owners'
  BY <1>0, <1>4 DEF ExecLeave, Owners, ConsHolds, TypeOK
<1>5. ASSUME ExecAbort(t) PROVE Owners'
  BY <1>0, <1>5 DEF ExecAbort, SetResult, SetRow, Owners, ConsHolds, TypeOK
<1>6. ASSUME ExecFinally(t) PROVE Owners'
  BY <1>0, <1>6 DEF ExecFinally, Owners, ConsHolds, TypeOK
<1> QED BY <1>1, <1>2, <1>3, <1>4, <1>5, <1>6 DEF ExecThread

LEMMA StillOwners ==
    ASSUME TypeOK, Invariant, Unstarted, Owners, [Next]_vars
    PROVE  Owners'
<1> USE DEF hostVars, execVars, rowVars
<1>1. ASSUME NEW t \in Tasks, MainExit(t) \/ KidsExit(t) \/ Reap(t) PROVE Owners'
  BY <1>1, OwnersQuiet, MeanwhileOwners DEF MainExit, KidsExit, Reap, TypeOK
<1>2. ASSUME NEW t \in Tasks, TaskNext(t) PROVE Owners'
  BY <1>1, <1>2, ClientOwners, ExecOwners DEF TaskNext
<1>3. ASSUME NEW d \in Deleters, DeleteNext(d) PROVE Owners'
  <2>1. Known \subseteq Tasks
    BY DEF Known
  <2> QED BY <1>3, <2>1, ClientOwners DEF DeleteNext
<1>4. CASE Crash
  BY <1>4, QueueAssumption DEF Crash, Owners, ConsHolds
<1>5. CASE Restart
  BY <1>5 DEF Restart, Recovered, Invariant, NothingWhenDown, Owners, ConsHolds, TypeOK
<1>6. CASE UNCHANGED vars
  BY <1>6 DEF vars, Owners, ConsHolds
<1> QED BY <1>2, <1>3, <1>4, <1>5, <1>6, ConsumerOwners DEF Next

LEMMA OwnersInductive == OInv /\ [Next]_vars => OInv'
<1> SUFFICES ASSUME OInv, [Next]_vars PROVE OInv'
  OBVIOUS
<1>1. IInv' /\ TypeOK /\ Invariant
  BY Inductive DEF OInv, IInv
<1> QED BY <1>1, StillUnstarted, StillVerdicts, StillOwners DEF OInv

LEMMA OwnersInitially == Init => OInv
BY Initially, QueueAssumption DEF OInv, Init, Unstarted, Verdicts, Closed, Owners, ConsHolds

\* The combined invariant of this module.
THEOREM Ownership == Spec => []OInv
BY OwnersInitially, OwnersInductive, PTL DEF Spec

\* A "completed" row is the truth: the command ran, nothing of it is left and
\* its sandbox, with the devices, was given back; whatever the interleaving of
\* cancellations, Reaper passes, failing scripts, exceptions and crashes.
THEOREM CompletedMeansReleased == Spec => []CompletedReleased
<1>1. OInv => CompletedReleased
  BY DEF OInv, Verdicts, Closed, CompletedReleased, Populated, Alive
<1> QED BY <1>1, Ownership, PTL

\* As long as no two exceptions meet, each entry of _running has one thread
\* that is going to remove it, and no row says "running" without such an entry.
THEOREM EveryRunningHasOwner == Spec => []RunningHasOwner
<1>1. OInv => RunningHasOwner
  BY DEF OInv, IInv, TypeOK, Unstarted, Owners, ConsHolds, RunningHasOwner
<1> QED BY <1>1, Ownership, PTL

-----------------------------------------------------------------------------
(* No queued task is lost. *)

\* Where a queued task is, when nothing failed so far.
AtHand(t) ==
    \/ t \in pending
    \/ sub[t] = "inserted"
    \/ cons.task = t /\ cons.pc = "persist"
    \/ \E d \in Deleters : t \in del[d].rows

LEMMA LostQuiet ==
    ASSUME NoLostTask, UNCHANGED <<up, pending, sub, cons, del>>, faults \in Nat,
           faults' \in {faults, faults + 1},
           \A t \in Tasks : row'[t] = "queued" => row[t] = "queued"
    PROVE  NoLostTask'
BY DEF NoLostTask

\* A task that runs and is still queued is in the hands of the consumer, which
\* is about to write that it runs.
LEMMA QueuedRunning ==
    ASSUME OInv, up, faults = 0, NEW t \in running, row[t] = "queued"
    PROVE  cons.task = t /\ cons.pc = "persist"
<1>1. t \in Tasks /\ ex[t] = "none"
  BY DEF OInv, IInv, TypeOK, Invariant, OnceOnly, MayStart
<1>2. ConsHolds(t)
  BY <1>1 DEF OInv, Owners
<1> QED BY <1>1, <1>2 DEF ConsHolds, OInv, IInv, Invariant, Places, Owners

LEMMA ClientLost ==
    ASSUME OInv, NoLostTask
    PROVE  /\ \A t \in Tasks : SubmitInsert(t) \/ SubmitEnqueue(t) => NoLostTask'
           /\ \A d \in Deleters, S \in SUBSET Tasks : DeleteBegin(d, S) => NoLostTask'
           /\ \A d \in Deleters, t \in Tasks :
                DeleteRow(d, t) \/ DeleteCancel(d, t) => NoLostTask'
<1> USE DEF hostVars, execVars, rowVars, Fault
<1>0. TypeOK
  BY DEF OInv, IInv
<1>1. ASSUME NEW t \in Tasks, SubmitInsert(t) \/ SubmitEnqueue(t) PROVE NoLostTask'
  <2>1. CASE SubmitInsert(t)
    BY <1>0, <2>1 DEF SubmitInsert, NoLostTask, TypeOK
  <2>2. CASE SubmitEnqueue(t)
    BY <1>0, <2>2 DEF SubmitEnqueue, NoLostTask, TypeOK
  <2> QED BY <1>1, <2>1, <2>2
<1>2. ASSUME NEW d \in Deleters, NEW S \in SUBSET Tasks, DeleteBegin(d, S)
      PROVE  NoLostTask'
  <2>1. SUFFICES ASSUME up, faults' = 0, NEW t \in Tasks, row[t] = "queued"
                 PROVE  AtHand(t)'
    BY <1>2 DEF DeleteBegin, NoLostTask, AtHand
  <2>2. faults = 0 /\ del' = [del EXCEPT ![d] = [rows |-> RowsOf(S), cancels |-> S \cap running]]
    BY <1>0, <1>2, <2>1 DEF DeleteBegin, TypeOK
  <2>3. CASE t \in S /\ t \notin running
    BY <1>0, <2>2, <2>3 DEF AtHand, RowsOf, TypeOK
  <2>4. CASE t \in running
    BY <1>2, <2>1, <2>2, <2>4, QueuedRunning DEF AtHand, DeleteBegin
  <2>5. CASE t \notin S
    <3>1. AtHand(t)
      BY <2>1, <2>2 DEF NoLostTask, AtHand
    <3>2. \A e \in Deleters : t \in del[e].rows => t \in del'[e].rows
      BY <1>0, <1>2, <2>2 DEF DeleteBegin, DeleteIdle, TypeOK
    <3> QED BY <1>2, <2>5, <3>1, <3>2 DEF AtHand, DeleteBegin, Dequeue
  <2> QED BY <2>3, <2>4, <2>5
\* The row of the task goes together with the entry of the thread.
<1>3. ASSUME NEW d \in Deleters, NEW t \in Tasks, DeleteRow(d, t) PROVE NoLostTask'
  <2>1. SUFFICES ASSUME up, faults' = 0, NEW u \in Tasks, row'[u] = "queued"
                 PROVE  AtHand(u)'
    BY <1>3 DEF DeleteRow, NoLostTask, AtHand
  <2>2. /\ faults = 0 /\ DropRows({t})
        /\ del' = [del EXCEPT ![d].rows = @ \ {t}]
    BY <1>0, <1>3, <2>1 DEF DeleteRow, TypeOK
  <2>3. row[u] = "queued" /\ u # t
    BY <1>0, <2>1, <2>2 DEF DropRows, TypeOK
  <2>4. AtHand(u)
    BY <2>1, <2>2, <2>3 DEF NoLostTask, AtHand
  <2>5. \A e \in Deleters : u \in del[e].rows => u \in del'[e].rows
    BY <1>0, <2>2, <2>3 DEF TypeOK
  <2> QED BY <1>3, <2>4, <2>5 DEF AtHand, DeleteRow
<1>4. ASSUME NEW d \in Deleters, NEW t \in Tasks, DeleteCancel(d, t) PROVE NoLostTask'
  <2>1. \A e \in Deleters : del'[e].rows = del[e].rows
    BY <1>0, <1>4 DEF DeleteCancel, TypeOK
  <2> QED BY <1>4, <2>1 DEF DeleteCancel, NoLostTask
<1> QED BY <1>1, <1>2, <1>3, <1>4

LEMMA ConsumerLost ==
    ASSUME OInv, NoLostTask, Consumer
    PROVE  NoLostTask'
<1> USE DEF hostVars, execVars, rowVars, At, GoTo, Fault
<1>0. TypeOK /\ (cons.pc \in {"undo", "giveup", "drop"} => faults >= 1)
  BY DEF OInv, IInv, Owners
<1>1. ASSUME ConsTake \/ ConsAllocate \/ ConsRefused \/ ConsStale \/ ConsDropSandbox
      PROVE  NoLostTask'
  BY <1>0, <1>1 DEF ConsTake, ConsAllocate, ConsRefused, ConsStale, ConsDropSandbox,
                    NoLostTask, TypeOK
<1>2. ASSUME ConsAdmit PROVE NoLostTask'
  BY <1>0, <1>2 DEF ConsAdmit, Dequeue, NoLostTask, TypeOK
<1>3. ASSUME ConsPersist PROVE NoLostTask'
  BY <1>0, <1>3 DEF ConsPersist, SetRow, NoLostTask, TypeOK
<1>4. ASSUME ConsSpawn PROVE NoLostTask'
  BY <1>0, <1>4 DEF ConsSpawn, NoLostTask, TypeOK
<1>5. ASSUME ConsUndo \/ ConsGiveUp \/ ConsDrop PROVE NoLostTask'
  <2>1. faults' >= 1
    BY <1>0, <1>5 DEF ConsUndo, ConsGiveUp, ConsDrop, TypeOK
  <2> QED BY <2>1 DEF NoLostTask
<1> QED BY <1>1, <1>2, <1>3, <1>4, <1>5 DEF Consumer

LEMMA StillAtHand ==
    ASSUME OInv, NoLostTask, [Next]_vars
    PROVE  NoLostTask'
<1> USE DEF hostVars, execVars, rowVars
<1>0. TypeOK
  BY DEF OInv, IInv
<1>1. ASSUME NEW t \in Tasks, MainExit(t) \/ KidsExit(t) \/ Reap(t) PROVE NoLostTask'
  BY <1>0, <1>1, LostQuiet DEF MainExit, KidsExit, Reap, TypeOK
<1>2. ASSUME NEW t \in Tasks, ExecThread(t) \/ ExecTimeout(t) PROVE NoLostTask'
  <2>1. UNCHANGED <<up, pending, sub, cons, del>> /\ faults' \in {faults, faults + 1}
    BY <1>2 DEF ExecThread, ExecStart, ExecWait, ExecTimeout, ExecCleanup, ExecJudge,
                ExecRecord, ExecPrune, ExecLeave, ExecAbort, ExecFinally, Fault
  <2>2. \A u \in Tasks : row'[u] = "queued" => row[u] = "queued"
    <3>1. CASE ExecRecord(t)
      <4>1. verdict[t] # "queued"
        BY <1>0 DEF TypeOK
      <4> QED BY <1>0, <3>1, <4>1, RowsNotQueued DEF ExecRecord
    <3>2. CASE ExecPrune(t) \/ ExecAbort(t)
      BY <1>0, <3>2, RowsNotQueued DEF ExecPrune, ExecAbort
    <3>3. CASE ~ExecRecord(t) /\ ~ExecPrune(t) /\ ~ExecAbort(t)
      BY <1>2, <3>3 DEF ExecThread, ExecStart, ExecWait, ExecTimeout, ExecCleanup, ExecJudge,
                        ExecLeave, ExecFinally
    <3> QED BY <3>1, <3>2, <3>3
  <2> QED BY <1>0, <2>1, <2>2, LostQuiet DEF TypeOK
<1>3. ASSUME NEW t \in Tasks, TaskNext(t) PROVE NoLostTask'
  BY <1>1, <1>2, <1>3, ClientLost DEF TaskNext
<1>4. ASSUME NEW d \in Deleters, DeleteNext(d) PROVE NoLostTask'
  <2>1. Known \subseteq Tasks
    BY DEF Known
  <2> QED BY <1>4, <2>1, ClientLost DEF DeleteNext
<1>5. CASE Crash
  BY <1>5 DEF Crash, NoLostTask
<1>6. CASE Restart
  BY <1>0, <1>6 DEF Restart, Requeued, NoLostTask, TypeOK
<1>7. CASE UNCHANGED vars
  BY <1>7 DEF vars, NoLostTask
<1> QED BY <1>3, <1>4, <1>5, <1>6, <1>7, ConsumerLost DEF Next

\* As long as nothing raised, a row that says "queued" is one that a thread or
\* the queue will come back to: through any order of submissions, deletions,
\* admissions, crashes and restarts.
THEOREM NoTaskLost == Spec => []NoLostTask
<1>1. Init => NoLostTask
  BY DEF Init, NoLostTask
<1>2. OInv /\ NoLostTask /\ [Next]_vars => NoLostTask'
  BY StillAtHand
<1> QED BY <1>1, <1>2, Ownership, PTL DEF Spec

-----------------------------------------------------------------------------
(* The rows follow their tasks. *)

\* A command that begins behind a destruction is one that was going to begin.
LEMMA MeanwhileRows ==
    ASSUME TypeOK, RowsFollow, NEW t \in Tasks, DestroyMeanwhile(t),
           UNCHANGED <<row, sub, up, pending, running, cons>>,
           \A d \in Deleters : del'[d].rows = del[d].rows
    PROVE  RowsFollow'
<1>1. CASE UNCHANGED ex
  BY <1>1 DEF RowsFollow
<1>2. CASE ex[t] = "start" /\ ex' = [ex EXCEPT ![t] = "wait"]
  BY <1>2 DEF RowsFollow, TypeOK
<1> QED BY <1>1, <1>2 DEF DestroyMeanwhile, DestroyedBehind

LEMMA ClientRows ==
    ASSUME OInv, RowsFollow
    PROVE  /\ \A t \in Tasks : SubmitInsert(t) \/ SubmitEnqueue(t) => RowsFollow'
           /\ EarlyDelete = FALSE =>
                \A d \in Deleters, S \in SUBSET Known : DeleteBegin(d, S) => RowsFollow'
           /\ \A d \in Deleters, t \in Tasks :
                DeleteRow(d, t) \/ DeleteCancel(d, t) => RowsFollow'
<1> USE DEF hostVars, execVars, rowVars, Fault
<1>0. TypeOK
  BY DEF OInv, IInv
<1>1. ASSUME NEW t \in Tasks, SubmitInsert(t) PROVE RowsFollow'
  BY <1>0, <1>1 DEF SubmitInsert, OInv, IInv, Invariant, OnceOnly, MayStart, Places,
                    RowsFollow, TypeOK
<1>2. ASSUME NEW t \in Tasks, SubmitEnqueue(t) PROVE RowsFollow'
  BY <1>0, <1>2 DEF SubmitEnqueue, RowsFollow, TypeOK
\* The ids of the request are those of POSTs that returned.
<1>3. ASSUME EarlyDelete = FALSE, NEW d \in Deleters, NEW S \in SUBSET Known,
             DeleteBegin(d, S)
      PROVE  RowsFollow'
  <2>1. \A t \in S : sub[t] = "returned"
    BY <1>3 DEF Known
  <2>2. \A e \in Deleters, t \in Tasks :
           t \in del'[e].rows => t \in del[e].rows \/ t \in S \ running
    BY <1>0, <1>3 DEF DeleteBegin, RowsOf, TypeOK
  <2> QED BY <1>3, <2>1, <2>2 DEF DeleteBegin, Dequeue, RowsFollow
\* Nobody will touch the task of the row that goes.
<1>4. ASSUME NEW d \in Deleters, NEW t \in Tasks, DeleteRow(d, t) PROVE RowsFollow'
  <2>1. /\ t \notin pending /\ sub[t] = "returned"
        /\ ex[t] \in {"none", "finally"} /\ ~ConsHolds(t)
    BY <1>0, <1>4 DEF DeleteRow, RowsFollow, OInv, Owners
  <2>2. \A e \in Deleters : del'[e].rows \subseteq del[e].rows
    BY <1>0, <1>4 DEF DeleteRow, TypeOK
  <2>3. row'[t] \in {row[t], "none"} /\ \A u \in Tasks \ {t} : row'[u] = row[u]
    BY <1>0, <1>4 DEF DeleteRow, DropRows, TypeOK
  <2> QED BY <1>4, <2>1, <2>2, <2>3 DEF DeleteRow, RowsFollow, ConsHolds
<1>5. ASSUME NEW d \in Deleters, NEW t \in Tasks, DeleteCancel(d, t) PROVE RowsFollow'
  <2>1. \A e \in Deleters : del'[e].rows = del[e].rows
    BY <1>0, <1>5 DEF DeleteCancel, TypeOK
  <2> QED BY <1>0, <1>5, <2>1, MeanwhileRows DEF DeleteCancel, CancelRunning
<1> QED BY <1>1, <1>2, <1>3, <1>4, <1>5

LEMMA ConsumerRows ==
    ASSUME OInv, RowsFollow, Consumer
    PROVE  RowsFollow'
<1> USE DEF hostVars, execVars, rowVars, At, GoTo, Fault
<1>0. /\ TypeOK /\ ConsumerHolds /\ Places /\ Unstarted
      /\ \A t \in Tasks : ConsHolds(t) => t \in running /\ t \notin pending
  BY DEF OInv, IInv, Invariant, Owners
<1>1. ASSUME \/ ConsTake \/ ConsAllocate \/ ConsRefused \/ ConsStale \/ ConsDropSandbox
             \/ ConsUndo \/ ConsDrop
      PROVE  RowsFollow'
  <2>1. UNCHANGED <<up, row, pending, sub, ex, del>> /\ running' \subseteq running
    BY <1>1 DEF ConsTake, ConsAllocate, ConsRefused, ConsStale, ConsDropSandbox, ConsUndo,
                ConsDrop
  <2>2. cons'.pc \notin {"persist", "spawn"}
    BY <1>0, <1>1 DEF ConsTake, ConsAllocate, ConsRefused, ConsStale, ConsDropSandbox,
                      ConsUndo, ConsDrop, TypeOK
  <2> QED BY <2>1, <2>2 DEF RowsFollow
<1>2. ASSUME ConsAdmit PROVE RowsFollow'
  BY <1>0, <1>2 DEF ConsAdmit, StillHead, IsHead, Dequeue, RowsFollow, TypeOK
<1>3. ASSUME ConsPersist PROVE RowsFollow'
  BY <1>0, <1>3 DEF ConsPersist, SetRow, ConsHolds, Places, Unstarted, RowsFollow, TypeOK
<1>4. ASSUME ConsSpawn PROVE RowsFollow'
  BY <1>0, <1>4, QueueAssumption DEF ConsSpawn, RowsFollow, TypeOK
<1>5. ASSUME ConsGiveUp PROVE RowsFollow'
  BY <1>0, <1>5 DEF ConsGiveUp, SetResult, SetRow, ConsHolds, Places, Unstarted, RowsFollow,
                    TypeOK
<1> QED BY <1>1, <1>2, <1>3, <1>4, <1>5 DEF Consumer

LEMMA ExecRows ==
    ASSUME OInv, RowsFollow, NEW t \in Tasks, ExecThread(t) \/ ExecTimeout(t)
    PROVE  RowsFollow'
<1> USE DEF hostVars, execVars, rowVars, Exec, ExGoTo, Fault
<1>0. TypeOK
  BY DEF OInv, IInv
<1>1. ex[t] # "none" /\ UNCHANGED <<up, pending, sub, cons, del>> /\ running' \subseteq running
  BY DEF ExecThread, ExecStart, ExecWait, ExecTimeout, ExecCleanup, ExecJudge, ExecRecord,
         ExecPrune, ExecLeave, ExecAbort, ExecFinally
<1>2. t \notin pending /\ sub[t] = "returned" /\ cons.task # t
  BY <1>1 DEF OInv, IInv, Invariant, OnceOnly, MayStart, Unstarted
<1>3. /\ \A u \in Tasks \ {t} : ex'[u] = ex[u]
      /\ ex'[t] \in {"wait", "cleanup", "judge", "record"} =>
            ex[t] \in {"start", "wait", "cleanup", "judge"}
      /\ ex'[t] # "start"
  BY <1>0 DEF ExecThread, ExecStart, ExecWait, ExecTimeout, ExecCleanup, ExecJudge, ExecRecord,
              ExecPrune, ExecLeave, ExecAbort, ExecFinally, TypeOK
<1>4. CASE ExecRecord(t) \/ ExecAbort(t)
  <2>1. ex'[t] \in {"prune", "abort", "finally"} /\ \A u \in Tasks \ {t} : row'[u] = row[u]
    BY <1>0, <1>4 DEF ExecRecord, ExecAbort, SetResult, SetRow, TypeOK
  <2> QED BY <1>1, <1>2, <1>3, <2>1 DEF RowsFollow
\* What the retention limit removes is final, and nobody waits for it.
<1>5. CASE ExecPrune(t)
  <2>1. \A u \in Tasks : row'[u] \in {row[u], "none"} /\ (row'[u] # row[u] => row[u] \in Final)
    <3>1. CASE \E S \in SUBSET Tasks : Outdated(S) /\ DropRows(S)
      <4>1. PICK S \in SUBSET Tasks : Outdated(S) /\ DropRows(S)
        BY <3>1
      <4>2. \A u \in S : row[u] \in Final
        BY <4>1 DEF Outdated
      <4> QED BY <4>1, <4>2 DEF DropRows
    <3>2. CASE UNCHANGED rowVars
      BY <3>2
    <3> QED BY <1>5, <3>1, <3>2 DEF ExecPrune
  <2> QED BY <1>1, <1>2, <1>3, <2>1 DEF RowsFollow, Final
<1>6. CASE ~ExecRecord(t) /\ ~ExecAbort(t) /\ ~ExecPrune(t)
  <2>1. row' = row
    BY <1>6 DEF ExecThread, ExecStart, ExecWait, ExecTimeout, ExecCleanup, ExecJudge,
                ExecLeave, ExecFinally
  <2> QED BY <1>1, <1>3, <2>1 DEF RowsFollow
<1> QED BY <1>4, <1>5, <1>6

LEMMA StillFollow ==
    ASSUME EarlyDelete = FALSE, OInv, RowsFollow, [Next]_vars
    PROVE  RowsFollow'
<1> USE DEF hostVars, execVars, rowVars
<1>0. TypeOK
  BY DEF OInv, IInv
<1>1. ASSUME NEW t \in Tasks, TaskNext(t) PROVE RowsFollow'
  <2>1. CASE MainExit(t) \/ KidsExit(t)
    BY <2>1 DEF MainExit, KidsExit, RowsFollow
  <2>2. CASE Reap(t)
    BY <1>0, <2>2, MeanwhileRows DEF Reap
  <2> QED BY <1>1, <2>1, <2>2, ClientRows, ExecRows DEF TaskNext
<1>2. ASSUME NEW d \in Deleters, DeleteNext(d) PROVE RowsFollow'
  BY <1>2, ClientRows DEF DeleteNext
<1>3. CASE Crash
  BY <1>0, <1>3, QueueAssumption DEF Crash, RowsFollow, TypeOK
<1>4. CASE Restart
  <2>1. \A t \in Tasks : sub[t] # "inserted" /\ cons.task # t /\ ex[t] \in {"none", "finally"}
    BY <1>4, QueueAssumption DEF Restart, OInv, IInv, Invariant, NothingWhenDown, Owners
  <2>2. \A t \in Tasks : row[t] = "queued" => sub[t] = "returned"
    BY <1>0, <2>1 DEF OInv, IInv, Invariant, Places, TypeOK
  <2>3. \A d \in Deleters : del[d].rows = {}
    BY <1>4 DEF Restart, RowsFollow
  <2> QED BY <1>0, <1>4, <2>1, <2>2, <2>3 DEF Restart, Recovered, Requeued, RowsFollow, TypeOK
<1>5. CASE UNCHANGED vars
  BY <1>5 DEF vars, RowsFollow
<1> QED BY <1>1, <1>2, <1>3, <1>4, <1>5, ConsumerRows DEF Next

\* The rows follow their tasks in every reachable state.
LEMMA RowsAlways ==
    ASSUME EarlyDelete = FALSE
    PROVE  Spec => [](OInv /\ RowsFollow)
<1>1. Init => RowsFollow
  BY QueueAssumption DEF Init, RowsFollow
<1>2. OInv /\ RowsFollow /\ [Next]_vars => RowsFollow'
  BY EarlyDelete = FALSE, StillFollow
<1> QED BY <1>1, <1>2, Ownership, PTL DEF Spec

\* A command begins in the first step of its executor thread, also when it
\* begins behind a destruction.
LEMMA StartsInFirstStep ==
    ASSUME TypeOK, [Next]_vars, NEW t \in Tasks, starts'[t] # starts[t]
    PROVE  ex[t] = "start"
<1> USE DEF hostVars, execVars, rowVars
<1>0. ASSUME NEW u \in Tasks, DestroyMeanwhile(u) PROVE ex[t] = "start"
  BY <1>0 DEF DestroyMeanwhile, DestroyedBehind, TypeOK
<1>1. ASSUME NEW u \in Tasks, TaskNext(u) PROVE ex[t] = "start"
  <2>1. CASE ExecStart(u)
    BY <2>1 DEF ExecStart, Exec, TypeOK
  <2>2. CASE Reap(u)
    BY <1>0, <2>2 DEF Reap
  <2>3. CASE ~ExecStart(u) /\ ~Reap(u)
    BY <1>1, <2>3 DEF TaskNext, SubmitInsert, SubmitEnqueue, MainExit, KidsExit,
              ExecThread, ExecWait, ExecTimeout, ExecCleanup, ExecJudge, ExecRecord, ExecPrune,
              ExecLeave, ExecAbort, ExecFinally
  <2> QED BY <2>1, <2>2, <2>3
<1>2. ASSUME NEW d \in Deleters, DeleteNext(d) PROVE ex[t] = "start"
  <2>1. ASSUME NEW u \in Tasks, DeleteCancel(d, u) PROVE ex[t] = "start"
    BY <1>0, <2>1 DEF DeleteCancel, CancelRunning
  <2> QED BY <1>2, <2>1 DEF DeleteNext, DeleteBegin, DeleteRow
<1>3. ~Consumer
  BY DEF Consumer, ConsTake, ConsAllocate, ConsRefused, ConsAdmit, ConsStale, ConsDropSandbox,
         ConsPersist, ConsSpawn, ConsUndo, ConsGiveUp, ConsDrop
<1>4. ~Crash /\ ~Restart /\ ~ UNCHANGED vars
  BY DEF Crash, Restart, vars
<1> QED BY <1>0, <1>1, <1>2, <1>3, <1>4 DEF Next

\* A command starts only while its row says "running": whatever raises or dies
\* then, a restart can tell that it may have run.  A DELETE that overtakes the
\* POST of its task takes the row away, hence the hypothesis.
THEOREM StartIsRecorded ==
    ASSUME EarlyDelete = FALSE
    PROVE  Spec => StartsRecorded
<1>1. OInv /\ RowsFollow /\ [Next]_vars =>
          \A t \in Tasks : starts'[t] > starts[t] => row[t] = "running"
  <2> SUFFICES ASSUME OInv, RowsFollow, [Next]_vars, NEW t \in Tasks, starts'[t] > starts[t]
               PROVE  row[t] = "running"
    OBVIOUS
  <2>1. TypeOK
    BY DEF OInv, IInv
  <2>2. starts'[t] # starts[t]
    BY <2>1 DEF TypeOK
  <2>3. ex[t] = "start"
    BY <2>1, <2>2, StartsInFirstStep
  <2> QED BY <2>3 DEF RowsFollow
<1> QED BY <1>1, RowsAlways, EarlyDelete = FALSE, PTL DEF Spec, StartsRecorded

-----------------------------------------------------------------------------
(* The order across a restart. *)

\* time.time() is later than every stamp in the rows.
LEMMA NowIsLater ==
    ASSUME dbAt \in [Tasks -> Nat], memAt \in [Tasks -> Nat], NEW t \in Tasks
    PROVE  dbAt[t] < Now /\ Now \in Nat
<1> DEFINE S == {Latest(dbAt), Latest(memAt)}
<1>1. Latest(dbAt) \in Nat /\ Latest(memAt) \in Nat /\ dbAt[t] <= Latest(dbAt)
  BY LatestType
<1>2. IsFiniteSet(S)
  <2>1. IsFiniteSet({} \cup {Latest(dbAt)})
    BY FS_EmptySet, FS_AddElement
  <2>2. IsFiniteSet({} \cup {Latest(dbAt)} \cup {Latest(memAt)})
    BY <2>1, FS_AddElement
  <2>3. {} \cup {Latest(dbAt)} \cup {Latest(memAt)} = S
    OBVIOUS
  <2> QED BY <2>2, <2>3
<1>3. \E m \in S : \A n \in S : m >= n
  BY <1>1, <1>2, GreatestExists
<1>4. Max(S) \in S /\ \A n \in S : Max(S) >= n
  BY <1>3 DEF Max
<1>5. dbAt[t] \in Nat
  OBVIOUS
<1> QED BY <1>1, <1>4, <1>5 DEF Now

LEMMA StampsQuiet ==
    ASSUME Stamps, UNCHANGED memAt, TypeOK,
           \A t \in Tasks : dbAt'[t] \in {0, dbAt[t]},
           \A t \in Tasks : sub'[t] = "idle" => sub[t] = "idle"
    PROVE  Stamps'
BY DEF Stamps, TypeOK

LEMMA StillStamped ==
    ASSUME IInv, Stamps, [Next]_vars
    PROVE  Stamps'
<1> USE DEF hostVars, execVars, rowVars, Fault
<1>0. TypeOK
  BY DEF IInv
<1>1. ASSUME NEW t \in Tasks, SubmitInsert(t) PROVE Stamps'
  BY <1>0, <1>1 DEF SubmitInsert, Stamps, TypeOK
<1>2. ASSUME NEW t \in Tasks, SubmitEnqueue(t) PROVE Stamps'
  <2>1. dbAt[t] < Now /\ Now \in Nat
    BY <1>0, NowIsLater DEF TypeOK
  <2> QED BY <1>0, <1>2, <2>1 DEF SubmitEnqueue, Stamps, TypeOK
<1>3. ASSUME NEW t \in Tasks, MainExit(t) \/ KidsExit(t) \/ Reap(t) PROVE Stamps'
  BY <1>0, <1>3, StampsQuiet DEF MainExit, KidsExit, Reap, TypeOK
<1>4. ASSUME NEW t \in Tasks, ExecThread(t) \/ ExecTimeout(t) PROVE Stamps'
  <2>1. UNCHANGED <<memAt, sub>>
    BY <1>4 DEF ExecThread, ExecStart, ExecWait, ExecTimeout, ExecCleanup, ExecJudge,
                ExecRecord, ExecPrune, ExecLeave, ExecAbort, ExecFinally
  <2>2. \A u \in Tasks : dbAt'[u] \in {0, dbAt[u]}
    <3>1. CASE ExecRecord(t) \/ ExecAbort(t)
      BY <1>0, <3>1 DEF ExecRecord, ExecAbort, SetResult, SetRow, TypeOK
    <3>2. CASE ExecPrune(t)
      BY <1>0, <3>2 DEF ExecPrune, DropRows, TypeOK
    <3>3. CASE ~ExecRecord(t) /\ ~ExecAbort(t) /\ ~ExecPrune(t)
      BY <1>4, <3>3 DEF ExecThread, ExecStart, ExecWait, ExecTimeout, ExecCleanup, ExecJudge,
                        ExecLeave, ExecFinally
    <3> QED BY <3>1, <3>2, <3>3
  <2> QED BY <1>0, <2>1, <2>2, StampsQuiet
<1>5. ASSUME NEW d \in Deleters, DeleteNext(d) PROVE Stamps'
  <2>1. ASSUME NEW S \in SUBSET Known, DeleteBegin(d, S) PROVE Stamps'
    BY <1>0, <2>1 DEF DeleteBegin, Dequeue, Stamps, TypeOK
  <2>2. ASSUME NEW t \in Tasks, DeleteRow(d, t) \/ DeleteCancel(d, t) PROVE Stamps'
    BY <1>0, <2>2, StampsQuiet DEF DeleteRow, DeleteCancel, DropRows, TypeOK
  <2> QED BY <1>5, <2>1, <2>2 DEF DeleteNext
<1>6. ASSUME Consumer PROVE Stamps'
  <2>1. CASE ConsAdmit
    BY <1>0, <2>1 DEF ConsAdmit, Dequeue, Stamps, TypeOK
  <2>2. CASE ConsPersist \/ ConsGiveUp
    BY <1>0, <2>2, StampsQuiet DEF ConsPersist, ConsGiveUp, SetResult, SetRow, TypeOK
  <2>3. CASE ~ConsAdmit /\ ~ConsPersist /\ ~ConsGiveUp
    BY <1>0, <1>6, <2>3, StampsQuiet DEF Consumer, ConsTake, ConsAllocate, ConsRefused,
              ConsStale, ConsDropSandbox, ConsSpawn, ConsUndo, ConsDrop, TypeOK
  <2> QED BY <2>1, <2>2, <2>3
<1>7. CASE Crash
  BY <1>0, <1>7, StampsQuiet DEF Crash, TypeOK
\* A restart takes the stamps of memory from the rows.
<1>8. CASE Restart
  BY <1>0, <1>8 DEF Restart, Requeued, Recovered, RequeuedAt, IInv, Invariant, Places, Stamps,
                    TypeOK
<1>9. CASE UNCHANGED vars
  BY <1>9 DEF vars, Stamps
<1> QED BY <1>1, <1>2, <1>3, <1>4, <1>5, <1>6, <1>7, <1>8, <1>9 DEF Next, TaskNext

\* If one POST had returned when another began, a restart of the Worker keeps
\* their order in the queue: the stamps that order it come from the rows.
THEOREM RestartKeepsFifo == Spec => FifoAcrossRestart
<1>1. Init => Stamps
  BY DEF Init, Stamps
<1>2. IInv /\ Stamps /\ [Next]_vars => Stamps'
  BY StillStamped
<1>3. IInv /\ Stamps /\ [Next]_vars =>
        (up' /\ ~up => \A t, u \in pending' :
             memAt[t] > 0 /\ memAt[t] < dbAt[u] => memAt'[t] < memAt'[u])
  <2> SUFFICES ASSUME IInv, Stamps, [Next]_vars, up', ~up,
                      NEW t \in pending', NEW u \in pending',
                      memAt[t] > 0, memAt[t] < dbAt[u]
               PROVE  memAt'[t] < memAt'[u]
    OBVIOUS
  <2>1. Restart
    <3>1. ASSUME NEW v \in Tasks, TaskNext(v) PROVE FALSE
      BY <3>1 DEF TaskNext, SubmitInsert, SubmitEnqueue, MainExit, KidsExit, Reap, ExecThread,
              ExecStart, ExecWait, ExecTimeout, ExecCleanup, ExecJudge, ExecRecord, ExecPrune,
              ExecLeave, ExecAbort, ExecFinally, Exec
    <3>2. ASSUME NEW d \in Deleters, DeleteNext(d) PROVE FALSE
      BY <3>2 DEF DeleteNext, DeleteBegin, DeleteRow, DeleteCancel
    <3>3. ~Consumer
      BY DEF Consumer, ConsTake, ConsAllocate, ConsRefused, ConsAdmit, ConsStale,
             ConsDropSandbox, ConsPersist, ConsSpawn, ConsUndo, ConsGiveUp, ConsDrop, At
    <3> QED BY <3>1, <3>2, <3>3 DEF Next, Crash, vars
  <2>2. t \in Tasks /\ u \in Tasks /\ memAt'[t] = dbAt[t] /\ memAt'[u] = dbAt[u]
    BY <2>1 DEF Restart, Requeued, RequeuedAt
  <2>3. dbAt[t] <= memAt[t] /\ {dbAt[t], memAt[t], dbAt[u]} \subseteq Nat
    BY <2>2 DEF Stamps, IInv, TypeOK
  <2> QED BY <2>2, <2>3
<1> QED BY <1>1, <1>2, <1>3, Safety, PTL DEF Spec, FifoAcrossRestart

-----------------------------------------------------------------------------
(* A cancellation is not undone. *)

\* Once its row says "completed", no executor thread has anything to record.
Settled ==
    \A t \in Tasks : row[t] = "completed" =>
        ex[t] \notin {"start", "wait", "cleanup", "judge", "record"}

\* Only its own executor thread makes a row "completed".
LEMMA OnlyRecordCompletes ==
    ASSUME TypeOK, [Next]_vars, NEW t \in Tasks, row'[t] = "completed"
    PROVE  row[t] = "completed" \/ (ExecRecord(t) /\ verdict[t] = "completed")
<1> USE DEF hostVars, execVars, rowVars
<1>1. ASSUME NEW u \in Tasks, TaskNext(u)
      PROVE  row[t] = "completed" \/ (ExecRecord(t) /\ verdict[t] = "completed")
  <2>1. CASE ExecRecord(u)
    <3>1. u # t => row'[t] = row[t]
      BY <2>1 DEF ExecRecord, SetResult, SetRow, TypeOK
    <3>2. u = t => row'[t] \in {row[t], verdict[t]}
      BY <2>1 DEF ExecRecord, SetResult, SetRow, TypeOK
    <3> QED BY <2>1, <3>1, <3>2
  <2>2. CASE SubmitInsert(u) \/ ExecPrune(u) \/ ExecAbort(u)
    BY <2>2 DEF SubmitInsert, ExecPrune, DropRows, ExecAbort, SetResult, SetRow, TypeOK
  <2>3. CASE ~ExecRecord(u) /\ ~SubmitInsert(u) /\ ~ExecPrune(u) /\ ~ExecAbort(u)
    BY <1>1, <2>3 DEF TaskNext, SubmitEnqueue, MainExit, KidsExit, Reap, ExecThread, ExecStart,
              ExecWait, ExecTimeout, ExecCleanup, ExecJudge, ExecLeave, ExecFinally
  <2> QED BY <2>1, <2>2, <2>3
<1>2. ASSUME NEW d \in Deleters, DeleteNext(d) PROVE row[t] = "completed"
  BY <1>2 DEF DeleteNext, DeleteBegin, DeleteRow, DropRows, DeleteCancel, TypeOK
<1>3. ASSUME Consumer PROVE row[t] = "completed"
  BY <1>3 DEF Consumer, ConsTake, ConsAllocate, ConsRefused, ConsAdmit, ConsStale,
              ConsDropSandbox, ConsPersist, ConsSpawn, ConsUndo, ConsGiveUp, ConsDrop,
              SetResult, SetRow, TypeOK
<1>4. CASE Crash \/ Restart \/ UNCHANGED vars
  BY <1>4 DEF Crash, Restart, Recovered, vars
<1> QED BY <1>1, <1>2, <1>3, <1>4 DEF Next

\* How the step of an executor thread changes.
LEMMA ExecMoves ==
    ASSUME TypeOK, [Next]_vars, NEW t \in Tasks, ex'[t] # ex[t]
    PROVE  \/ ExecThread(t) \/ ExecTimeout(t)
           \/ ConsSpawn /\ cons.task = t /\ ex'[t] = "start"
           \/ DestroyMeanwhile(t) /\ ex[t] = "start" /\ ex'[t] = "wait"
           \/ Crash /\ ex'[t] = "none"
<1> USE DEF hostVars, execVars, rowVars
<1> DEFINE Behind == DestroyMeanwhile(t) /\ ex[t] = "start" /\ ex'[t] = "wait"
<1>0. ASSUME NEW u \in Tasks, DestroyMeanwhile(u) PROVE Behind
  <2>1. CASE u = t
    BY <1>0, <2>1 DEF DestroyMeanwhile, DestroyedBehind, TypeOK
  <2>2. CASE u # t
    BY <1>0, <2>2 DEF DestroyMeanwhile, DestroyedBehind, TypeOK
  <2> QED BY <2>1, <2>2
<1> HIDE DEF Behind
<1>1. ASSUME NEW u \in Tasks, TaskNext(u) PROVE ExecThread(t) \/ ExecTimeout(t) \/ Behind
  <2>1. CASE u = t
    BY <1>0, <1>1, <2>1 DEF TaskNext, SubmitInsert, SubmitEnqueue, MainExit, KidsExit, Reap
  <2>2. CASE Reap(u)
    BY <1>0, <2>2 DEF Reap
  <2>3. CASE u # t /\ ~Reap(u)
    BY <1>1, <2>3 DEF TaskNext, SubmitInsert, SubmitEnqueue, MainExit, KidsExit,
              ExecThread, ExecStart, ExecWait, ExecTimeout, ExecCleanup, ExecJudge, ExecRecord,
              ExecPrune, ExecLeave, ExecAbort, ExecFinally, ExGoTo, TypeOK
  <2> QED BY <2>1, <2>2, <2>3
<1>2. ASSUME NEW d \in Deleters, DeleteNext(d) PROVE Behind
  <2>1. ASSUME NEW u \in Tasks, DeleteCancel(d, u) PROVE Behind
    BY <1>0, <2>1 DEF DeleteCancel, CancelRunning
  <2> QED BY <1>2, <2>1 DEF DeleteNext, DeleteBegin, DeleteRow
<1>3. ASSUME Consumer PROVE ConsSpawn /\ cons.task = t /\ ex'[t] = "start"
  BY <1>3 DEF Consumer, ConsTake, ConsAllocate, ConsRefused, ConsAdmit, ConsStale,
              ConsDropSandbox, ConsPersist, ConsSpawn, ConsUndo, ConsGiveUp, ConsDrop, TypeOK
<1>4. CASE Crash
  BY <1>4 DEF Crash
<1>5. ~Restart /\ ~ UNCHANGED vars
  BY DEF Restart, vars
<1> QED BY <1>1, <1>2, <1>3, <1>4, <1>5 DEF Next, Behind

\* Who takes the mark of a cancellation away.
LEMMA FlagMoves ==
    ASSUME TypeOK, [Next]_vars, NEW t \in canceled, t \notin canceled'
    PROVE  ExecFinally(t) \/ cons.task = t \/ Crash
<1> USE DEF hostVars, execVars, rowVars
<1>1. ASSUME NEW u \in Tasks, TaskNext(u) PROVE ExecFinally(t)
  <2>1. CASE ExecFinally(u)
    BY <2>1 DEF ExecFinally
  <2>2. CASE ~ExecFinally(u)
    BY <1>1, <2>2 DEF TaskNext, SubmitInsert, SubmitEnqueue, MainExit, KidsExit, Reap,
              ExecThread, ExecStart, ExecWait, ExecTimeout, ExecCleanup, ExecJudge, ExecRecord,
              ExecPrune, ExecLeave, ExecAbort
  <2> QED BY <2>1, <2>2
<1>2. ~ \E d \in Deleters : DeleteNext(d)
  BY DEF DeleteNext, DeleteBegin, DeleteRow, DeleteCancel
<1>3. ASSUME Consumer PROVE cons.task = t
  BY <1>3 DEF Consumer, ConsTake, ConsAllocate, ConsRefused, ConsAdmit, ConsStale,
              ConsDropSandbox, ConsPersist, ConsSpawn, ConsUndo, ConsGiveUp, ConsDrop
<1>4. ~Restart /\ ~ UNCHANGED vars
  BY DEF Restart, vars
<1> QED BY <1>1, <1>2, <1>3, <1>4 DEF Next

\* A verdict belongs to the executor thread of its task.
LEMMA VerdictMoves ==
    ASSUME TypeOK, [Next]_vars, NEW t \in Tasks, verdict'[t] # verdict[t]
    PROVE  ExecThread(t) \/ ExecTimeout(t) \/ Crash
<1> USE DEF hostVars, execVars, rowVars
<1>1. ASSUME NEW u \in Tasks, TaskNext(u) PROVE ExecThread(t) \/ ExecTimeout(t)
  <2>1. CASE u = t
    BY <1>1, <2>1 DEF TaskNext, SubmitInsert, SubmitEnqueue, MainExit, KidsExit, Reap
  <2>2. CASE u # t
    BY <1>1, <2>2 DEF TaskNext, SubmitInsert, SubmitEnqueue, MainExit, KidsExit, Reap,
              ExecThread, ExecStart, ExecWait, ExecTimeout, ExecCleanup, FailVerdict, ExecJudge,
              ExecRecord, ExecPrune, ExecLeave, ExecAbort, ExecFinally, TypeOK
  <2> QED BY <2>1, <2>2
<1>2. ~ \E d \in Deleters : DeleteNext(d)
  BY DEF DeleteNext, DeleteBegin, DeleteRow, DeleteCancel
<1>3. ~Consumer
  BY DEF Consumer, ConsTake, ConsAllocate, ConsRefused, ConsAdmit, ConsStale,
         ConsDropSandbox, ConsPersist, ConsSpawn, ConsUndo, ConsGiveUp, ConsDrop
<1>4. ~Restart /\ ~ UNCHANGED vars
  BY DEF Restart, vars
<1> QED BY <1>1, <1>2, <1>3, <1>4 DEF Next

LEMMA StillSettled ==
    ASSUME OInv, Settled, [Next]_vars
    PROVE  Settled'
<1> SUFFICES ASSUME NEW t \in Tasks, row'[t] = "completed"
             PROVE  ex'[t] \notin {"start", "wait", "cleanup", "judge", "record"}
  BY DEF Settled
<1>0. TypeOK
  BY DEF OInv, IInv
<1>1. CASE ExecRecord(t)
  BY <1>0, <1>1 DEF ExecRecord, ExGoTo, TypeOK
<1>2. CASE row[t] = "completed"
  <2>1. ex[t] \notin {"start", "wait", "cleanup", "judge", "record"} /\ starts[t] = 1
    BY <1>2 DEF Settled, OInv, Verdicts, Closed
  <2>2. CASE ExecThread(t) \/ ExecTimeout(t)
    BY <1>0, <2>1, <2>2 DEF ExecThread, ExecStart, ExecWait, ExecTimeout, ExecCleanup, ExecJudge,
              ExecRecord, ExecPrune, ExecLeave, ExecAbort, ExecFinally, Exec, ExGoTo, TypeOK
  \* The consumer starts a thread only for a task that has not run.
  <2>3. cons.task # t
    BY <2>1 DEF OInv, Unstarted
  <2> QED BY <1>0, <2>1, <2>2, <2>3, ExecMoves
<1> QED BY <1>0, <1>1, <1>2, OnlyRecordCompletes

\* No step brings back the chance of a task to be recorded as completed.
LEMMA StaysCanceled ==
    ASSUME IInv, [Next]_vars, NEW t \in Tasks, NeverCompletes(t)
    PROVE  NeverCompletes(t)'
<1> USE DEF hostVars, execVars, rowVars
<1>0. TypeOK /\ Invariant
  BY DEF IInv, Invariant
<1>1. row'[t] # "completed"
  BY <1>0, OnlyRecordCompletes DEF NeverCompletes, ExecRecord, Exec
<1>2. ~MayStart(t)' /\ cons'.task # t
  <2>1. ASSUME NEW u \in Tasks, TaskNext(u) PROVE ~MayStart(t)' /\ cons'.task # t
    <3>1. cons' = cons
      BY <2>1 DEF TaskNext, SubmitInsert, SubmitEnqueue, MainExit, KidsExit, Reap,
              ExecThread, ExecStart, ExecWait, ExecTimeout, ExecCleanup, ExecJudge, ExecRecord,
              ExecPrune, ExecLeave, ExecAbort, ExecFinally
    <3>2. t \notin pending' /\ sub'[t] = "returned"
      BY <1>0, <2>1 DEF TaskNext, SubmitInsert, SubmitEnqueue, MainExit, KidsExit, Reap,
              ExecThread, ExecStart, ExecWait, ExecTimeout, ExecCleanup, ExecJudge, ExecRecord,
              ExecPrune, ExecLeave, ExecAbort, ExecFinally, NeverCompletes, MayStart, TypeOK
    <3>3. row'[t] # "queued"
      <4>1. CASE ExecRecord(u)
        <5>1. verdict[u] # "queued"
          BY <1>0 DEF TypeOK
        <5> QED BY <1>0, <4>1, <5>1, RowsNotQueued DEF ExecRecord, NeverCompletes, MayStart
      <4>2. CASE SubmitInsert(u)
        BY <1>0, <4>2 DEF SubmitInsert, NeverCompletes, MayStart, TypeOK
      <4>3. CASE ExecPrune(u) \/ ExecAbort(u)
        BY <1>0, <4>3, RowsNotQueued DEF ExecPrune, ExecAbort, NeverCompletes, MayStart
      <4>4. CASE ~ExecRecord(u) /\ ~SubmitInsert(u) /\ ~ExecPrune(u) /\ ~ExecAbort(u)
        BY <2>1, <4>4 DEF TaskNext, SubmitEnqueue, MainExit, KidsExit, Reap, ExecThread,
              ExecStart, ExecWait, ExecTimeout, ExecCleanup, ExecJudge, ExecLeave, ExecFinally,
              NeverCompletes, MayStart
      <4> QED BY <4>1, <4>2, <4>3, <4>4
    <3> QED BY <3>1, <3>2, <3>3 DEF MayStart, NeverCompletes
  <2>2. ASSUME NEW d \in Deleters, DeleteNext(d) PROVE ~MayStart(t)' /\ cons'.task # t
    BY <1>0, <2>2 DEF DeleteNext, DeleteBegin, Dequeue, DeleteRow, DropRows, DeleteCancel,
              NeverCompletes, MayStart, TypeOK
  <2>3. ASSUME Consumer PROVE ~MayStart(t)' /\ cons'.task # t
    <3>1. cons'.task # t
      BY <1>0, <2>3, QueueAssumption DEF Consumer, ConsTake, IsHead, ConsAllocate, ConsRefused,
              ConsAdmit, ConsStale, ConsDropSandbox, ConsPersist, ConsSpawn, ConsUndo,
              ConsGiveUp, ConsDrop, GoTo, NeverCompletes, MayStart, TypeOK
    <3>2. sub' = sub /\ pending' \subseteq pending /\ (row'[t] = "queued" => row[t] = "queued")
      BY <1>0, <2>3 DEF Consumer, ConsTake, ConsAllocate, ConsRefused,
              ConsAdmit, Dequeue, ConsStale, ConsDropSandbox, ConsPersist, ConsSpawn, ConsUndo,
              ConsGiveUp, ConsDrop, SetResult, SetRow, TypeOK
    <3> QED BY <3>1, <3>2 DEF NeverCompletes, MayStart
  <2>4. CASE Crash \/ Restart \/ UNCHANGED vars
    BY <1>0, <2>4, QueueAssumption DEF Crash, Restart, Recovered, Requeued, vars,
              NeverCompletes, MayStart, TypeOK
  <2> QED BY <2>1, <2>2, <2>3, <2>4 DEF Next
<1>3. CASE ExecThread(t) \/ ExecTimeout(t)
  <2>1. ex'[t] \in {"start", "wait", "cleanup", "judge"} =>
            /\ ex[t] \in {"start", "wait", "cleanup", "judge"}
            /\ canceled' = canceled
    BY <1>0, <1>3 DEF ExecThread, ExecStart, ExecWait, ExecTimeout, ExecCleanup, ExecJudge,
              ExecRecord, ExecPrune, ExecLeave, ExecAbort, ExecFinally, Exec, ExGoTo, TypeOK
  <2>2. ex'[t] = "record" => ExecJudge(t)
    BY <1>0, <1>3 DEF ExecThread, ExecStart, ExecWait, ExecTimeout, ExecCleanup,
              ExecRecord, ExecPrune, ExecLeave, ExecAbort, ExecFinally, ExGoTo, TypeOK
  <2>3. ExecJudge(t) => verdict'[t] = "failed"
    BY <1>0 DEF ExecJudge, Exec, Judged, NeverCompletes, TypeOK
  <2> QED BY <1>1, <1>2, <2>1, <2>2, <2>3 DEF NeverCompletes
<1>4. CASE ~ExecThread(t) /\ ~ExecTimeout(t)
  <2>1. ex'[t] \in {ex[t], "none"} \/ (ex[t] = "start" /\ ex'[t] = "wait")
    BY <1>0, <1>4, ExecMoves DEF NeverCompletes
  <2>2. ASSUME ex[t] \in {"start", "wait", "cleanup", "judge"}, ~Crash, t \in canceled
        PROVE  t \in canceled'
    <3>1. ~ExecFinally(t) /\ cons.task # t
      BY <1>4 DEF ExecThread, NeverCompletes
    <3> QED BY <1>0, <2>2, <3>1, FlagMoves
  <2>3. Crash => ex'[t] = "none"
    BY DEF Crash
  <2>4. ~Crash => verdict'[t] = verdict[t]
    BY <1>0, <1>4, VerdictMoves
  <2> QED BY <1>1, <1>2, <2>1, <2>2, <2>3, <2>4 DEF NeverCompletes
<1> QED BY <1>3, <1>4

\* A task whose cancellation comes before its result is judged is never recorded
\* as completed: not by its thread, not by a later one, and not by a restart.
THEOREM CancellationSticks == Spec => CancelSticks
<1> SUFFICES ASSUME NEW t \in Tasks
             PROVE  Spec => [](t \in canceled /\ ex[t] \in {"start", "wait", "cleanup", "judge"}
                                 => [](row[t] # "completed"))
  BY DEF CancelSticks
<1>1. OInv /\ Settled /\ [Next]_vars => Settled'
  BY StillSettled
<1>2. Init => Settled
  BY DEF Init, Settled
<1>3. OInv /\ Settled /\ t \in canceled /\ ex[t] \in {"start", "wait", "cleanup", "judge"}
        => NeverCompletes(t)
  BY DEF OInv, IInv, Invariant, OnceOnly, Unstarted, Settled, NeverCompletes
<1>4. OInv /\ NeverCompletes(t) /\ [Next]_vars => NeverCompletes(t)'
  BY StaysCanceled DEF OInv
<1>5. NeverCompletes(t) => row[t] # "completed"
  BY DEF NeverCompletes
<1> QED BY <1>1, <1>2, <1>3, <1>4, <1>5, Ownership, PTL DEF Spec

-----------------------------------------------------------------------------
(* The queue implements TaskLifecycle. *)

LEMMA FaultsBounded ==
    ASSUME TypeOK, faults <= MaxFaults, [Next]_vars
    PROVE  faults' <= MaxFaults
<1> USE DEF hostVars, execVars, rowVars
<1>1. faults' = faults \/ Fault
  <2>1. ASSUME NEW t \in Tasks, TaskNext(t) PROVE faults' = faults \/ Fault
    BY <2>1 DEF TaskNext, SubmitInsert, SubmitEnqueue, MainExit, KidsExit, Reap, ExecThread,
              ExecStart, ExecWait, ExecTimeout, ExecCleanup, ExecJudge, ExecRecord, ExecPrune,
              ExecLeave, ExecAbort, ExecFinally
  <2>2. ASSUME NEW d \in Deleters, DeleteNext(d) PROVE faults' = faults \/ Fault
    BY <2>2 DEF DeleteNext, DeleteBegin, DeleteRow, DeleteCancel
  <2>3. ASSUME Consumer PROVE faults' = faults \/ Fault
    BY <2>3 DEF Consumer, ConsTake, ConsAllocate, ConsRefused, ConsAdmit, ConsStale,
              ConsDropSandbox, ConsPersist, ConsSpawn, ConsUndo, ConsGiveUp, ConsDrop
  <2>4. CASE Crash \/ Restart \/ UNCHANGED vars
    BY <2>4 DEF Crash, Restart, vars
  <2> QED BY <2>1, <2>2, <2>3, <2>4 DEF Next
<1> QED BY <1>1, QueueAssumption DEF Fault, TypeOK

\* A step of the lifecycle, or a stutter of it.
LifeStep == [Lifecycle!Next]_(Lifecycle!vars)

LEMMA LifeStutters ==
    ASSUME starts' = starts, \A t \in Tasks : TaskState(t)' = TaskState(t)
    PROVE  LifeStep
BY DEF LifeStep, Lifecycle!vars

\* A step that takes the tasks of S to one state, and leaves the others.
LEMMA LifeBecomes ==
    ASSUME NEW S \in SUBSET Tasks, NEW s, starts' = starts,
           \A t \in S : TaskState(t)' = s,
           \A t \in Tasks \ S : TaskState(t)' = TaskState(t)
    PROVE  /\ Lifecycle!Become(S, s)
           /\ {t \in Tasks : starts[t] > 0}' = {t \in Tasks : starts[t] > 0}
BY DEF Lifecycle!Become

LEMMA LifeFails ==
    ASSUME NEW S \in SUBSET Tasks, starts' = starts,
           \A t \in S : TaskState(t) \in {"queued", "running", "completed", "failed"}
                        /\ TaskState(t)' = "failed",
           \A t \in Tasks \ S : TaskState(t)' = TaskState(t)
    PROVE  LifeStep
<1> DEFINE U == {t \in S : TaskState(t) # "failed"}
<1>1. CASE U = {}
  BY <1>1, LifeStutters
<1>2. CASE U # {}
  <2>1. U \in SUBSET Tasks /\ Lifecycle!Among(U, {"queued", "running", "completed"})
    BY <1>2 DEF Lifecycle!Among
  <2>2. /\ \A t \in U : TaskState(t)' = "failed"
        /\ \A t \in Tasks \ U : TaskState(t)' = TaskState(t)
    OBVIOUS
  <2>3. Lifecycle!Fail(U)
    <3> HIDE DEF U
    <3> QED BY <2>1, <2>2, LifeBecomes DEF Lifecycle!Fail
  <2> QED BY <2>1, <2>3 DEF LifeStep, Lifecycle!Next
<1> QED BY <1>1, <1>2

LEMMA LifeDiscards ==
    ASSUME NEW S \in SUBSET Tasks, starts' = starts,
           \A t \in S : TaskState(t) \in {"queued", "completed", "failed"}
                        /\ TaskState(t)' = "gone",
           \A t \in Tasks \ S : TaskState(t)' = TaskState(t)
    PROVE  LifeStep
<1>1. CASE S = {}
  BY <1>1, LifeStutters
<1>2. CASE S # {}
  <2>1. Lifecycle!Among(S, {"queued", "completed", "failed"})
    BY <1>2 DEF Lifecycle!Among
  <2>2. Lifecycle!Discard(S)
    BY <2>1, LifeBecomes DEF Lifecycle!Discard
  <2> QED BY <2>2 DEF LifeStep, Lifecycle!Next
<1> QED BY <1>1, <1>2

\* What a client sees of a task that has a row, or had one.
LEMMA StateOf ==
    ASSUME TypeOK, RowsFollow, NEW t \in Tasks
    PROVE  /\ row[t] # "none" => TaskState(t) = row[t] /\ sub[t] # "idle"
           /\ sub[t] = "idle" => TaskState(t) = "new"
BY DEF RowsFollow, TaskState

\* The launch of a command whose row says "running".
LEMMA LaunchLife ==
    ASSUME OInv, RowsFollow, NEW t \in Tasks, ex[t] = "start",
           starts' = [starts EXCEPT ![t] = @ + 1], UNCHANGED <<row, sub>>
    PROVE  LifeStep
<1>0. TypeOK
  BY DEF OInv, IInv
<1>1. TaskState(t) = "running" /\ starts[t] = 0
  BY <1>0 DEF RowsFollow, TaskState, OInv, IInv, Invariant, OnceOnly
<1>2. \A u \in Tasks : TaskState(u)' = TaskState(u)
  BY DEF TaskState
<1>3. {u \in Tasks : starts[u] > 0}' = {u \in Tasks : starts[u] > 0} \cup {t}
  BY <1>0, <1>1 DEF TypeOK
<1>4. Lifecycle!Launch(t)
  BY <1>0, <1>1, <1>2, <1>3 DEF Lifecycle!Launch, TypeOK
<1> QED BY <1>4 DEF LifeStep, Lifecycle!Next

LEMMA MeanwhileLife ==
    ASSUME OInv, RowsFollow, NEW t \in Tasks, DestroyMeanwhile(t), UNCHANGED <<row, sub>>
    PROVE  LifeStep
<1>1. CASE UNCHANGED starts
  BY <1>1, LifeStutters DEF TaskState
<1>2. CASE DestroyedBehind(t)
  BY <1>2, LaunchLife DEF DestroyedBehind
<1> QED BY <1>1, <1>2 DEF DestroyMeanwhile

LEMMA SubmitLife ==
    ASSUME OInv, RowsFollow, NEW t \in Tasks, SubmitInsert(t) \/ SubmitEnqueue(t)
    PROVE  LifeStep
<1> USE DEF hostVars, execVars, rowVars
<1>0. TypeOK
  BY DEF OInv, IInv
<1>1. CASE SubmitInsert(t)
  <2>1. TaskState(t) = "new" /\ starts' = starts
    BY <1>0, <1>1, StateOf DEF SubmitInsert
  <2>2. \A u \in Tasks \ {t} : TaskState(u)' = TaskState(u)
    BY <1>0, <1>1 DEF SubmitInsert, TaskState, TypeOK
  <2>3. TaskState(t)' \in {"queued", "gone"}
    BY <1>0, <1>1 DEF SubmitInsert, RowsFollow, TaskState, TypeOK
  <2>4. Lifecycle!Among({t}, {"new"})
    BY <2>1 DEF Lifecycle!Among
  <2>5. CASE TaskState(t)' = "queued"
    <3>1. Lifecycle!Accept(t)
      BY <2>1, <2>2, <2>4, <2>5, LifeBecomes DEF Lifecycle!Accept
    <3> QED BY <3>1 DEF LifeStep, Lifecycle!Next
  <2>6. CASE TaskState(t)' = "gone"
    <3>1. Lifecycle!Refuse(t)
      BY <2>1, <2>2, <2>4, <2>6, LifeBecomes DEF Lifecycle!Refuse
    <3> QED BY <3>1 DEF LifeStep, Lifecycle!Next
  <2> QED BY <2>3, <2>5, <2>6
<1>2. CASE SubmitEnqueue(t)
  <2>1. \A u \in Tasks : TaskState(u)' = TaskState(u)
    BY <1>0, <1>2 DEF SubmitEnqueue, TaskState, TypeOK
  <2> QED BY <1>2, <2>1, LifeStutters DEF SubmitEnqueue
<1> QED BY <1>1, <1>2

\* A DELETE takes no row that says "running": such a task is in _running, and
\* the DELETE cancels it instead.
LEMMA DeleteLife ==
    ASSUME OInv, RowsFollow, faults <= 1, NEW d \in Deleters, DeleteNext(d)
    PROVE  LifeStep
<1> USE DEF hostVars, execVars, rowVars
<1>0. TypeOK
  BY DEF OInv, IInv
<1>1. CASE UNCHANGED <<row, sub, starts>>
  BY <1>1, LifeStutters DEF TaskState
<1>2. ASSUME NEW t \in Tasks, DeleteRow(d, t), row' # row PROVE LifeStep
  <2>1. DropRows({t}) /\ UNCHANGED <<sub, starts>> /\ t \notin running /\ up
    BY <1>2 DEF DeleteRow, RowsFollow
  <2>2. row[t] # "running"
    BY <1>0, <2>1 DEF OInv, Owners, TypeOK
  <2>3. row[t] # "none"
    BY <1>0, <1>2, <2>1 DEF DropRows, TypeOK
  <2>4. TaskState(t) \in {"queued", "completed", "failed"} /\ sub[t] # "idle"
    BY <1>0, <2>2, <2>3, StateOf DEF TypeOK, RowStatus
  <2>5. TaskState(t)' = "gone" /\ \A u \in Tasks \ {t} : TaskState(u)' = TaskState(u)
    BY <1>0, <2>1, <2>4 DEF DropRows, TaskState, TypeOK
  <2> QED BY <2>1, <2>4, <2>5, LifeDiscards
<1>3. ASSUME NEW t \in Tasks, DeleteCancel(d, t) PROVE LifeStep
  BY <1>3, MeanwhileLife DEF DeleteCancel, CancelRunning
<1>4. \/ UNCHANGED <<row, sub, starts>>
      \/ \E t \in Tasks : DeleteCancel(d, t) \/ (DeleteRow(d, t) /\ row' # row)
  BY DEF DeleteNext, DeleteBegin, DeleteRow
<1> QED BY <1>1, <1>2, <1>3, <1>4

\* The except clauses of the consumer and of an executor thread.
LEMMA ResultFails ==
    ASSUME TypeOK, RowsFollow, NEW t \in Tasks, SetResult(t, "failed"),
           UNCHANGED <<sub, starts>>
    PROVE  LifeStep
<1>1. CASE row[t] = "none"
  BY <1>1, LifeStutters DEF SetResult, SetRow, TaskState
<1>2. CASE row[t] # "none"
  <2>1. TaskState(t) \in {"queued", "running", "completed", "failed"}
    BY <1>2, StateOf DEF TypeOK, RowStatus
  <2>2. TaskState(t)' = "failed" /\ \A u \in Tasks \ {t} : TaskState(u)' = TaskState(u)
    BY <1>2 DEF SetResult, SetRow, TaskState, TypeOK
  <2>3. starts' = starts /\ {t} \in SUBSET Tasks
    OBVIOUS
  <2> QED BY <2>1, <2>2, <2>3, LifeFails
<1> QED BY <1>1, <1>2

LEMMA ConsumerLife ==
    ASSUME OInv, RowsFollow, Consumer
    PROVE  LifeStep
<1> USE DEF hostVars, execVars, rowVars, At
<1>0. TypeOK /\ ConsumerHolds
  BY DEF OInv, IInv, Invariant
<1>1. UNCHANGED <<sub, starts>>
  BY DEF Consumer, ConsTake, ConsAllocate, ConsRefused, ConsAdmit, ConsStale,
         ConsDropSandbox, ConsPersist, ConsSpawn, ConsUndo, ConsGiveUp, ConsDrop
<1>2. CASE UNCHANGED row
  BY <1>1, <1>2, LifeStutters DEF TaskState
<1>3. CASE ConsPersist /\ row' # row
  <2>1. PICK t \in Tasks : SetRow(t, "running") /\ row[t] = "queued"
    BY <1>0, <1>3 DEF ConsPersist, ConsumerHolds, RowsFollow
  <2>2. TaskState(t) = "queued" /\ TaskState(t)' = "running"
    BY <1>0, <2>1 DEF SetRow, TaskState, TypeOK
  <2>3. \A u \in Tasks \ {t} : TaskState(u)' = TaskState(u)
    BY <1>0, <1>1, <2>1 DEF SetRow, TaskState, TypeOK
  <2>4. Lifecycle!Claim(t)
    <3>1. Lifecycle!Among({t}, {"queued"})
      BY <2>2 DEF Lifecycle!Among
    <3> QED BY <1>1, <2>2, <2>3, <3>1, LifeBecomes DEF Lifecycle!Claim
  <2> QED BY <2>4 DEF LifeStep, Lifecycle!Next
<1>4. CASE ConsGiveUp /\ row' # row
  <2>1. PICK t \in Tasks : SetResult(t, "failed")
    BY <1>0, <1>4 DEF ConsGiveUp, ConsumerHolds
  <2> QED BY <1>0, <1>1, <2>1, ResultFails
<1>5. row' = row \/ ConsPersist \/ ConsGiveUp
  BY DEF Consumer, ConsTake, ConsAllocate, ConsRefused, ConsAdmit, ConsStale,
         ConsDropSandbox, ConsSpawn, ConsUndo, ConsDrop
<1> QED BY <1>2, <1>3, <1>4, <1>5

LEMMA ExecLife ==
    ASSUME OInv, RowsFollow, NEW t \in Tasks, ExecThread(t) \/ ExecTimeout(t)
    PROVE  LifeStep
<1> USE DEF hostVars, execVars, rowVars, Exec
<1>0. TypeOK
  BY DEF OInv, IInv
<1>1. sub' = sub
  BY DEF ExecThread, ExecStart, ExecWait, ExecTimeout, ExecCleanup, ExecJudge, ExecRecord,
         ExecPrune, ExecLeave, ExecAbort, ExecFinally
<1>2. CASE UNCHANGED <<row, starts>>
  BY <1>1, <1>2, LifeStutters DEF TaskState
\* The row says "running", and the command was not started before.
<1>3. CASE ExecStart(t) /\ starts' # starts
  BY <1>1, <1>3, LaunchLife DEF ExecStart
<1>4. CASE ExecRecord(t) /\ row' # row
  <2>1. SetResult(t, verdict[t]) /\ starts' = starts /\ row[t] = "running"
    BY <1>4 DEF ExecRecord, RowsFollow
  <2>2. verdict[t] \in {"completed", "failed"} /\ (verdict[t] = "completed" => starts[t] = 1)
    BY <1>0, <1>4 DEF ExecRecord, OInv, Verdicts, Closed, TypeOK
  <2>3. CASE verdict[t] = "failed"
    BY <1>0, <1>1, <2>1, <2>3, ResultFails
  <2>4. CASE verdict[t] = "completed"
    <3>1. TaskState(t) = "running" /\ TaskState(t)' = "completed"
      BY <1>0, <2>1, <2>4 DEF SetResult, SetRow, TaskState, TypeOK
    <3>2. \A u \in Tasks \ {t} : TaskState(u)' = TaskState(u)
      BY <1>0, <1>1, <2>1 DEF SetResult, SetRow, TaskState, TypeOK
    <3>3. Lifecycle!Among({t}, {"running"}) /\ t \in {u \in Tasks : starts[u] > 0}
      BY <2>2, <2>4, <3>1 DEF Lifecycle!Among
    <3>4. Lifecycle!Complete(t)
      BY <2>1, <3>1, <3>2, <3>3, LifeBecomes DEF Lifecycle!Complete
    <3> QED BY <3>4 DEF LifeStep, Lifecycle!Next
  <2> QED BY <2>2, <2>3, <2>4
<1>5. CASE ExecPrune(t) /\ row' # row
  <2>1. PICK S \in SUBSET Tasks : Outdated(S) /\ DropRows(S)
    BY <1>5 DEF ExecPrune
  <2>2. \A u \in S : row[u] \in Final
    BY <2>1 DEF Outdated
  <2>3. \A u \in S : TaskState(u) \in {"completed", "failed"} /\ sub[u] # "idle"
    BY <1>0, <2>2, StateOf DEF Final
  <2>4. /\ \A u \in S : TaskState(u)' = "gone"
        /\ \A u \in Tasks \ S : TaskState(u)' = TaskState(u)
    BY <1>0, <1>1, <2>1, <2>3 DEF DropRows, TaskState, TypeOK
  <2>5. starts' = starts
    BY <1>5 DEF ExecPrune
  <2> QED BY <2>3, <2>4, <2>5, LifeDiscards
<1>6. CASE ExecAbort(t) /\ row' # row
  BY <1>0, <1>6, ResultFails DEF ExecAbort
<1>7. UNCHANGED <<row, starts>> \/ (ExecStart(t) /\ row' = row)
        \/ ((ExecRecord(t) \/ ExecPrune(t) \/ ExecAbort(t)) /\ starts' = starts)
  BY DEF ExecThread, ExecStart, ExecWait, ExecTimeout, ExecCleanup, ExecJudge, ExecRecord,
         ExecPrune, ExecLeave, ExecAbort, ExecFinally
<1> QED BY <1>2, <1>3, <1>4, <1>5, <1>6, <1>7

LEMMA RestartLife ==
    ASSUME TypeOK, RowsFollow, Restart
    PROVE  LifeStep
<1> DEFINE S == {t \in Tasks : row[t] = "running"}
<1>1. starts' = starts /\ sub' = sub /\ row' = [t \in Tasks |-> Recovered(t)]
  BY DEF Restart, hostVars
<1>2. \A t \in S : TaskState(t) = "running" /\ TaskState(t)' = "failed"
  BY <1>1 DEF Recovered, TaskState
<1>3. \A t \in Tasks \ S : TaskState(t)' = TaskState(t)
  BY <1>1 DEF Recovered, TaskState
<1> QED BY <1>1, <1>2, <1>3, LifeFails

LEMMA NextLife ==
    ASSUME OInv, RowsFollow, faults <= 1, [Next]_vars
    PROVE  LifeStep
<1> USE DEF hostVars, execVars, rowVars
<1>0. TypeOK
  BY DEF OInv, IInv
<1>1. ASSUME NEW t \in Tasks, TaskNext(t) PROVE LifeStep
  <2>1. CASE MainExit(t) \/ KidsExit(t)
    BY <2>1, LifeStutters DEF MainExit, KidsExit, TaskState
  <2>2. CASE Reap(t)
    BY <2>2, MeanwhileLife DEF Reap
  <2> QED BY <1>1, <2>1, <2>2, SubmitLife, ExecLife DEF TaskNext
<1>2. CASE Crash
  <2>1. \A t \in Tasks : TaskState(t)' = TaskState(t)
    BY <1>0, <1>2 DEF Crash, TaskState, TypeOK
  <2> QED BY <1>2, <2>1, LifeStutters DEF Crash
<1>3. CASE UNCHANGED vars
  BY <1>3, LifeStutters DEF vars, TaskState
<1> QED BY <1>0, <1>1, <1>2, <1>3, DeleteLife, ConsumerLife, RestartLife DEF Next

\* What a client sees of its tasks, through all the threads, crashes and
\* restarts, is the lifecycle: one way through the states, one launch, which
\* comes between "running" and the result.  A DELETE that overtakes its POST,
\* or an exception inside an except clause, breaks it: hence the hypotheses.
THEOREM ImplementsLifecycle ==
    ASSUME EarlyDelete = FALSE, MaxFaults <= 1
    PROVE  Spec => RefinesLifecycle
<1>1. Init => Lifecycle!Init
  <2> SUFFICES ASSUME Init PROVE Lifecycle!Init
    OBVIOUS
  <2>1. \A t \in Tasks : TaskState(t) = "new" /\ ~(starts[t] > 0)
    BY DEF Init, TaskState
  <2> QED BY <2>1 DEF Lifecycle!Init
<1>2. Init => faults <= MaxFaults
  BY QueueAssumption DEF Init
<1>3. OInv /\ faults <= MaxFaults /\ [Next]_vars => (faults <= MaxFaults)'
  BY FaultsBounded DEF OInv, IInv
<1>4. OInv /\ RowsFollow /\ faults <= MaxFaults /\ [Next]_vars => [Lifecycle!Next]_(Lifecycle!vars)
  <2> SUFFICES ASSUME OInv, RowsFollow, faults <= MaxFaults, [Next]_vars
               PROVE  LifeStep
    BY DEF LifeStep
  <2>1. faults <= 1
    BY MaxFaults <= 1, QueueAssumption DEF OInv, IInv, TypeOK
  <2> QED BY <2>1, NextLife
<1> QED BY <1>1, <1>2, <1>3, <1>4, RowsAlways, EarlyDelete = FALSE, PTL
        DEF Spec, RefinesLifecycle, Lifecycle!Spec

=============================================================================
