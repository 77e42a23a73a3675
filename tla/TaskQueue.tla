------------------------------ MODULE TaskQueue ------------------------------
(***************************************************************************)
(* The command-task queue of the Worker (executor/command.py): the client  *)
(* threads of POST /tasks and DELETE /tasks, the consumer thread, one      *)
(* executor thread per admitted task, and the rows they share in SQLite.   *)
(*                                                                         *)
(* A step is one critical section of TaskQueue._lock, one SQLite           *)
(* transaction or one call into SbxManager: the points at which another    *)
(* thread can come between.  Sandboxes appear only through what the queue  *)
(* sees of them (module SbxManager models them in detail).                 *)
(***************************************************************************)
EXTENDS Naturals, FiniteSets, FiniteSetsExt

CONSTANTS
    Tasks,          \* the task ids that clients submit
    Deleters,       \* the client threads that call DELETE /tasks
    Need,           \* [Tasks -> Nat]: device_num, or the number of device_ids
    Priority,       \* [Tasks -> 0..1]: 0 normal, 1 urgent
    Capacity,       \* how many managed devices the host has
    Keep,           \* NEU_BOX_COMMAND_MAX_COMPLETED
    MaxCrashes,     \* bound: how often the Worker process dies
    MaxFaults,      \* bound: how many SQLite writes or thread starts raise
    EarlyDelete,    \* may a client delete a task whose POST has not returned?
    DestroyMayFail, \* may SbxManager.destroy_sandbox return False?
    None            \* no task

ASSUME QueueAssumption ==
    /\ IsFiniteSet(Tasks)
    /\ Capacity \in Nat
    /\ Keep \in Nat
    \* create_task refuses a request for more devices than the host has
    /\ Need \in [Tasks -> 0..Capacity]
    /\ Priority \in [Tasks -> 0..1]
    /\ MaxCrashes \in Nat
    /\ MaxFaults \in Nat
    /\ EarlyDelete \in BOOLEAN
    /\ DestroyMayFail \in BOOLEAN
    /\ None \notin Tasks

VARIABLES
    \* SQLite and the host: they survive the Worker
    row,        \* tasks.status, "none" when there is no row
    dbAt,       \* tasks.created_at, 0 once the row is not queued any more
    endAt,      \* tasks.finished_at, 0 unless the row is completed or failed
    sbx,        \* the sandbox of a task: "none", "live", or "broken" (its
                \* cgroup is gone, its record and reservation are not)
    proc,       \* its processes: "none" yet, "main", only "kids", all "gone"
    rc,         \* the exit status its executor will collect, "none" if none
    \* the memory of the Worker process
    up,         \* is the Worker process running?
    pending,    \* TaskQueue._pending
    running,    \* TaskQueue._running
    memAt,      \* created_at of the entries of _pending, 0 for other tasks
    canceled,   \* tasks whose dict carries _canceled
    sub,        \* the thread of each POST /tasks
    cons,       \* the consumer thread: its step and the task in its hands
    ex,         \* the step of each task's executor thread
    verdict,    \* what an executor thread is going to record
    clean,      \* its cleanup_ok
    del,        \* the threads of DELETE /tasks
    \* bookkeeping of the model
    starts,     \* how often the command of a task was started
    escaped,    \* tasks whose command began behind the kill of its sandbox,
                \* until nothing of it is left
    crashes, faults

hostVars == <<sbx, proc, rc, starts, escaped>>
execVars == <<ex, verdict, clean>>
vars == <<row, dbAt, endAt, hostVars, up, pending, running, memAt, canceled,
          sub, cons, execVars, del, crashes, faults>>

-----------------------------------------------------------------------------
RowStatus == {"none", "queued", "running", "completed", "failed"}
Final     == {"completed", "failed"}
Alive     == {"main", "kids"}
ConsStep  == {"take", "alloc", "admit", "stale", "persist", "spawn",
              "undo", "giveup", "drop", "dead"}
ExecStep  == {"none", "start", "wait", "cleanup", "judge", "record", "prune",
              "leave", "abort", "finally"}

TypeOK ==
    /\ row \in [Tasks -> RowStatus]
    /\ dbAt \in [Tasks -> Nat]
    /\ memAt \in [Tasks -> Nat]
    /\ endAt \in [Tasks -> Nat]
    /\ sbx \in [Tasks -> {"none", "live", "broken"}]
    /\ proc \in [Tasks -> {"none", "main", "kids", "gone"}]
    /\ rc \in [Tasks -> {"none", "ok", "bad"}]
    /\ up \in BOOLEAN
    /\ pending \in SUBSET Tasks
    /\ running \in SUBSET Tasks
    /\ canceled \in SUBSET Tasks
    /\ sub \in [Tasks -> {"idle", "inserted", "returned"}]
    /\ cons \in [pc: ConsStep, task: Tasks \cup {None}]
    /\ ex \in [Tasks -> ExecStep]
    /\ verdict \in [Tasks -> {"none", "completed", "failed"}]
    /\ clean \in [Tasks -> BOOLEAN]
    /\ del \in [Deleters -> [rows: SUBSET Tasks, cancels: SUBSET Tasks]]
    /\ starts \in [Tasks -> Nat]
    /\ escaped \in SUBSET Tasks
    /\ crashes \in Nat
    /\ faults \in Nat

-----------------------------------------------------------------------------
(* The order of the queue. *)

CpuOnly(t) == Need[t] = 0

\* _sort_key as a strict order; stamps are distinct, so task_id never decides.
Before(t, u) ==
    \/ CpuOnly(t) /\ ~CpuOnly(u)
    \/ /\ CpuOnly(t) = CpuOnly(u)
       /\ \/ Priority[t] > Priority[u]
          \/ Priority[t] = Priority[u] /\ memAt[t] < memAt[u]

\* _head_task_id, on a queue that is not empty.
IsHead(t) == t \in pending /\ \A u \in pending \ {t} : Before(t, u)

Latest(stamps) == Max({0} \cup {stamps[t] : t \in Tasks})

\* time.time(): later than every stamp it is ever compared with.
Now == 1 + Max({Latest(dbAt), Latest(memAt)})

Dequeue(S) ==
    /\ pending' = pending \ S
    /\ memAt' = [t \in Tasks |-> IF t \in S THEN 0 ELSE memAt[t]]

(* Devices: those a sandbox record holds are not free. *)

Held == MapThenSumSet(LAMBDA t : Need[t], {t \in Tasks : sbx[t] # "none"})

Fits(t) == CpuOnly(t) \/ Held + Need[t] <= Capacity

(* SQLite: an UPDATE of a row that is gone changes nothing. *)

SetRow(t, s) ==
    /\ row' = IF row[t] = "none" THEN row ELSE [row EXCEPT ![t] = s]
    /\ dbAt' = [dbAt EXCEPT ![t] = 0]

SetResult(t, s) ==
    /\ SetRow(t, s)
    /\ endAt' = IF row[t] = "none" THEN endAt
                ELSE [endAt EXCEPT ![t] = 1 + Latest(endAt)]

DropRows(S) ==
    /\ row' = [t \in Tasks |-> IF t \in S THEN "none" ELSE row[t]]
    /\ dbAt' = [t \in Tasks |-> IF t \in S THEN 0 ELSE dbAt[t]]
    /\ endAt' = [t \in Tasks |-> IF t \in S THEN 0 ELSE endAt[t]]

rowVars == <<row, dbAt, endAt>>

Fault == faults < MaxFaults /\ faults' = faults + 1

(* SbxManager.destroy_sandbox as the queue sees it. *)

PopulatedOrUnused(t) == proc[t] # "gone"

\* cgroup.procs: the cgroup of an escaped command is the root.
Populated(t) == proc[t] \in Alive /\ t \notin escaped

Outside == escaped' = {t \in escaped : proc'[t] \in Alive}

\* An exit status matters only to an executor that waits for it.
Collect(t, r) == IF ex[t] = "wait" THEN r ELSE "none"

\* Everybody who is in the cgroup when sandbox.sh kills.
Kill(t) ==
    /\ proc' = IF Populated(t) THEN [proc EXCEPT ![t] = "gone"] ELSE proc
    /\ rc' = IF Populated(t) /\ proc[t] = "main"
             THEN [rc EXCEPT ![t] = Collect(t, "bad")] ELSE rc

DestroyOk(t) == Kill(t) /\ sbx' = [sbx EXCEPT ![t] = "none"]

\* It can fail before it kills, between kill and rmdir, or after rmdir.
DestroyFails(t) ==
    /\ DestroyMayFail
    /\ sbx[t] # "none"
    /\ \/ UNCHANGED <<proc, rc, sbx>>
       \/ Kill(t) /\ UNCHANGED sbx
       \/ Kill(t) /\ sbx' = [sbx EXCEPT ![t] = "broken"]

Destroy(t) == DestroyOk(t) \/ DestroyFails(t)

\* What an executor about to start a command sees of a destruction by another
\* thread: its child takes no lock, so it may enter the cgroup behind the kill.
\* sandbox.sh moves it to the root cgroup, where the command begins.  (If the
\* cgroup stays, because one that enters behind the move makes rmdir fail or the
\* script is cut, the command is in it, or is by the join_sandbox of the executor.)
DestroyedBehind(t) ==
    /\ ex[t] = "start"
    /\ sbx[t] = "live"
    /\ sbx' \in {[sbx EXCEPT ![t] = s] :
                   s \in {"none"} \cup (IF DestroyMayFail THEN {"broken"} ELSE {})}
    /\ proc' = [proc EXCEPT ![t] = "main"]
    /\ starts' = [starts EXCEPT ![t] = @ + 1]
    /\ escaped' = escaped \cup {t}
    /\ ex' = [ex EXCEPT ![t] = "wait"]
    /\ UNCHANGED rc

\* A destruction while an executor may be about to start the command.
DestroyMeanwhile(t) ==
    \/ Destroy(t) /\ UNCHANGED <<starts, escaped, ex>>
    \/ DestroyedBehind(t)

-----------------------------------------------------------------------------
Init ==
    /\ row = [t \in Tasks |-> "none"]
    /\ dbAt = [t \in Tasks |-> 0]
    /\ endAt = [t \in Tasks |-> 0]
    /\ sbx = [t \in Tasks |-> "none"]
    /\ proc = [t \in Tasks |-> "none"]
    /\ rc = [t \in Tasks |-> "none"]
    /\ up = TRUE
    /\ pending = {}
    /\ running = {}
    /\ memAt = [t \in Tasks |-> 0]
    /\ canceled = {}
    /\ sub = [t \in Tasks |-> "idle"]
    /\ cons = [pc |-> "take", task |-> None]
    /\ ex = [t \in Tasks |-> "none"]
    /\ verdict = [t \in Tasks |-> "none"]
    /\ clean = [t \in Tasks |-> FALSE]
    /\ del = [d \in Deleters |-> [rows |-> {}, cancels |-> {}]]
    /\ starts = [t \in Tasks |-> 0]
    /\ escaped = {}
    /\ crashes = 0
    /\ faults = 0

-----------------------------------------------------------------------------
(* POST /tasks: TaskQueue.submit.                                          *)

\* Database.insert_task commits the row, or raises and the request is over.
SubmitInsert(t) ==
    /\ up
    /\ sub[t] = "idle"
    /\ \/ /\ row' = [row EXCEPT ![t] = "queued"]
          /\ dbAt' = [dbAt EXCEPT ![t] = Now]
          /\ sub' = [sub EXCEPT ![t] = "inserted"]
          /\ UNCHANGED faults
       \/ /\ Fault
          /\ sub' = [sub EXCEPT ![t] = "returned"]
          /\ UNCHANGED <<row, dbAt>>
    /\ UNCHANGED <<endAt, hostVars, up, pending, running, memAt, canceled,
                   cons, execVars, del, crashes>>

\* The locked section.  _reindex may raise in it, which changes the response
\* of the request and nothing else.  created_at is read again just before.
SubmitEnqueue(t) ==
    /\ up
    /\ sub[t] = "inserted"
    /\ pending' = pending \cup {t}
    /\ memAt' = [memAt EXCEPT ![t] = Now]
    /\ sub' = [sub EXCEPT ![t] = "returned"]
    /\ UNCHANGED <<rowVars, hostVars, up, running, canceled, cons,
                   execVars, del, crashes, faults>>

-----------------------------------------------------------------------------
(* DELETE /tasks: TaskQueue.delete_tasks.                                  *)

DeleteIdle(d) == del[d].rows = {} /\ del[d].cancels = {}

\* The ids a client names: those of a POST that returned, and, when EarlyDelete,
\* those it reads in GET /tasks while their POST is still in progress.
Known == {t \in Tasks : row[t] # "none" /\ (sub[t] = "returned" \/ EarlyDelete)}

RowsOfAll(S) == S

\* Of the ids of a request, those that are not in _running lose their row.
RowsOf(S) == S \ running

\* The locked section.  When its _reindex raises the request ends there.
DeleteBegin(d, S) ==
    /\ up
    /\ DeleteIdle(d)
    /\ Dequeue(S)
    /\ canceled' = canceled \cup (running \cap S)
    /\ \/ /\ del' = [del EXCEPT ![d] = [rows |-> RowsOf(S),
                                        cancels |-> S \cap running]]
          /\ UNCHANGED faults
       \/ /\ pending' # {}
          /\ Fault
          /\ UNCHANGED del
    /\ UNCHANGED <<rowVars, hostVars, up, running, sub,
                   cons, execVars, crashes>>

\* Database.delete_task, outside the lock; an exception ends the request.
DeleteRow(d, t) ==
    /\ up
    /\ t \in del[d].rows
    /\ \/ /\ DropRows({t})
          /\ del' = [del EXCEPT ![d].rows = @ \ {t}]
          /\ UNCHANGED faults
       \/ /\ Fault
          /\ del' = [del EXCEPT ![d] = [rows |-> {}, cancels |-> {}]]
          /\ UNCHANGED rowVars
    /\ UNCHANGED <<hostVars, up, pending, running, memAt,
                   canceled, sub, cons, execVars, crashes>>

CancelFlagOnly(t) == UNCHANGED <<hostVars, ex>>

CancelRunning(t) == DestroyMeanwhile(t)

\* executor.cancel and destroy_sandbox: for a host command, destroy it twice.
DeleteCancel(d, t) ==
    /\ up
    /\ del[d].rows = {}
    /\ t \in del[d].cancels
    /\ del' = [del EXCEPT ![d].cancels = @ \ {t}]
    /\ CancelRunning(t)
    /\ UNCHANGED <<rowVars, up, pending, running, memAt, canceled,
                   sub, cons, verdict, clean, crashes, faults>>

-----------------------------------------------------------------------------
(* The consumer thread: TaskQueue._consume_loop.                           *)

At(step) == up /\ cons.pc = step

GoTo(step) == cons' = [cons EXCEPT !.pc = step]

ConsTake ==
    /\ At("take")
    /\ \E t \in pending : IsHead(t) /\ cons' = [pc |-> "alloc", task |-> t]
    /\ UNCHANGED <<rowVars, hostVars, up, pending, running, memAt,
                   canceled, sub, execVars, del, crashes, faults>>

\* allocate_sandbox, without the queue lock.  A record whose cgroup is live
\* is taken as it is; a broken one is created again.
ConsAllocate ==
    /\ At("alloc")
    /\ Fits(cons.task)
    /\ sbx' = [sbx EXCEPT ![cons.task] = "live"]
    /\ GoTo("admit")
    /\ UNCHANGED <<rowVars, proc, rc, starts, escaped, up, pending, running,
                   memAt, canceled, sub, execVars, del, crashes, faults>>

\* It returned None (no device, or the script failed) or raised: try again.
ConsRefused ==
    /\ At("alloc")
    /\ cons' = [pc |-> "take", task |-> None]
    /\ UNCHANGED <<rowVars, hostVars, up, pending, running, memAt,
                   canceled, sub, execVars, del, crashes, faults>>

StillQueued == cons.task \in pending

\* The test made under the lock again, after the allocation.
StillHead == IsHead(cons.task)

\* The head may have changed since ConsTake.  _reindex may raise in here.
ConsAdmit ==
    /\ At("admit")
    /\ StillHead
    /\ Dequeue({cons.task})
    /\ running' = running \cup {cons.task}
    /\ \/ GoTo("persist") /\ UNCHANGED faults
       \/ pending' # {} /\ Fault /\ GoTo("undo")
    /\ UNCHANGED <<rowVars, hostVars, up, canceled, sub,
                   execVars, del, crashes>>

ConsStale ==
    /\ At("admit")
    /\ ~StillHead
    /\ GoTo("stale")
    /\ UNCHANGED <<rowVars, hostVars, up, pending, running, memAt,
                   canceled, sub, execVars, del, crashes, faults>>

ConsDropSandbox ==
    /\ At("stale")
    /\ Destroy(cons.task)
    /\ cons' = [pc |-> "take", task |-> None]
    /\ UNCHANGED <<rowVars, starts, escaped, up, pending, running, memAt,
                   canceled, sub, execVars, del, crashes, faults>>

ConsPersist ==
    /\ At("persist")
    /\ \/ SetRow(cons.task, "running") /\ GoTo("spawn") /\ UNCHANGED faults
       \/ Fault /\ GoTo("undo") /\ UNCHANGED <<row, dbAt>>
    /\ UNCHANGED <<endAt, hostVars, up, pending, running, memAt,
                   canceled, sub, execVars, del, crashes>>

ConsSpawn ==
    /\ At("spawn")
    /\ \/ /\ ex' = [ex EXCEPT ![cons.task] = "start"]
          /\ cons' = [pc |-> "take", task |-> None]
          /\ UNCHANGED faults
       \/ Fault /\ GoTo("undo") /\ UNCHANGED ex
    /\ UNCHANGED <<rowVars, hostVars, up, pending, running, memAt,
                   canceled, sub, verdict, clean, del, crashes>>

(* The except clause: give the sandbox back, fail the task, forget it. *)

ConsUndo ==
    /\ At("undo")
    /\ Destroy(cons.task)
    /\ GoTo("giveup")
    /\ UNCHANGED <<rowVars, starts, escaped, up, pending, running, memAt,
                   canceled, sub, execVars, del, crashes, faults>>

\* A second exception, inside the except clause, leaves the loop: the daemon
\* thread is dead and nothing starts it again.
ConsGiveUp ==
    /\ At("giveup")
    /\ \/ SetResult(cons.task, "failed") /\ GoTo("drop") /\ UNCHANGED faults
       \/ Fault /\ GoTo("dead") /\ UNCHANGED rowVars
    /\ UNCHANGED <<hostVars, up, pending, running, memAt, canceled, sub,
                   execVars, del, crashes>>

ConsDropForgets ==
    /\ At("drop")
    /\ cons' = [pc |-> "take", task |-> None]
    /\ UNCHANGED <<rowVars, hostVars, up, pending, running, memAt,
                   canceled, sub, execVars, del, crashes, faults>>

ConsDrop ==
    /\ At("drop")
    /\ running' = running \ {cons.task}
    /\ canceled' = canceled \ {cons.task}
    /\ cons' = [pc |-> "take", task |-> None]
    /\ UNCHANGED <<rowVars, hostVars, up, pending, memAt, sub,
                   execVars, del, crashes, faults>>

Consumer ==
    \/ ConsTake \/ ConsAllocate \/ ConsRefused \/ ConsAdmit \/ ConsStale
    \/ ConsDropSandbox \/ ConsPersist \/ ConsSpawn
    \/ ConsUndo \/ ConsGiveUp \/ ConsDrop

-----------------------------------------------------------------------------
(* An executor thread: TaskQueue._execute_one around a HostCommandExecutor. *)

Exec(t, step) == up /\ ex[t] = step

ExGoTo(t, step) == ex' = [ex EXCEPT ![t] = step]

\* Popen: preexec_fn writes the PID into the cgroup, so without a live sandbox
\* no command starts; it can fail for other reasons too.
ExecStart(t) ==
    /\ Exec(t, "start")
    /\ \/ /\ sbx[t] = "live"
          /\ proc' = [proc EXCEPT ![t] = "main"]
          /\ starts' = [starts EXCEPT ![t] = @ + 1]
          /\ ExGoTo(t, "wait")
          /\ UNCHANGED verdict
       \/ /\ verdict' = [verdict EXCEPT ![t] = "failed"]
          /\ ExGoTo(t, "cleanup")
          /\ UNCHANGED <<proc, starts>>
    /\ UNCHANGED <<rowVars, sbx, rc, escaped, up, pending, running, memAt,
                   canceled, sub, cons, clean, del, crashes, faults>>

\* proc.wait returned: the main process has ended.
ExecWait(t) ==
    /\ Exec(t, "wait")
    /\ proc[t] # "main"
    /\ verdict' = [verdict EXCEPT ![t] = IF rc[t] = "ok" THEN "completed" ELSE "failed"]
    /\ rc' = [rc EXCEPT ![t] = "none"]
    /\ ExGoTo(t, "cleanup")
    /\ UNCHANGED <<rowVars, sbx, proc, starts, escaped, up, pending, running,
                   memAt, canceled, sub, cons, clean, del, crashes, faults>>

\* proc.wait timed out; the kill reaches the main process, if anything.
ExecTimeout(t) ==
    /\ Exec(t, "wait")
    /\ proc[t] = "main"
    /\ proc' \in {[proc EXCEPT ![t] = p] : p \in Alive \cup {"gone"}}
    /\ verdict' = [verdict EXCEPT ![t] = "failed"]
    /\ ExGoTo(t, "cleanup")
    /\ Outside
    /\ UNCHANGED <<rowVars, sbx, rc, starts, up, pending, running,
                   memAt, canceled, sub, cons, clean, del, crashes, faults>>

KeepVerdict(t) == UNCHANGED verdict

FailVerdict(t) == verdict' = [verdict EXCEPT ![t] = "failed"]

\* The sandbox goes before the result is recorded; if it does not, the task
\* has failed (sandbox_cleanup_failed).  A failing SQLite call raises instead.
ExecCleanup(t) ==
    /\ Exec(t, "cleanup")
    /\ \/ /\ DestroyOk(t)
          /\ clean' = [clean EXCEPT ![t] = TRUE]
          /\ ExGoTo(t, "judge")
          /\ UNCHANGED <<verdict, faults>>
       \/ /\ DestroyFails(t)
          /\ FailVerdict(t)
          /\ ExGoTo(t, "judge")
          /\ UNCHANGED <<clean, faults>>
       \/ /\ DestroyFails(t)
          /\ Fault
          /\ verdict' = [verdict EXCEPT ![t] = "none"]
          /\ ExGoTo(t, "abort")
          /\ UNCHANGED clean
    /\ UNCHANGED <<rowVars, starts, escaped, up, pending, running, memAt,
                   canceled, sub, cons, del, crashes>>

JudgedAsIs(t) == verdict[t]

Judged(t) == IF t \in canceled THEN "failed" ELSE verdict[t]

\* The one look at _canceled.
ExecJudge(t) ==
    /\ Exec(t, "judge")
    /\ verdict' = [verdict EXCEPT ![t] = Judged(t)]
    /\ ExGoTo(t, "record")
    /\ UNCHANGED <<rowVars, hostVars, up, pending, running, memAt,
                   canceled, sub, cons, clean, del, crashes, faults>>

ExecRecord(t) ==
    /\ Exec(t, "record")
    /\ \/ SetResult(t, verdict[t]) /\ ExGoTo(t, "prune") /\ UNCHANGED faults
       \/ Fault /\ ExGoTo(t, "abort") /\ UNCHANGED rowVars
    /\ verdict' = [verdict EXCEPT ![t] = "none"]
    /\ UNCHANGED <<hostVars, up, pending, running, memAt, canceled, sub,
                   cons, clean, del, crashes>>

\* Database.cleanup_old_tasks: of the final rows, all but the last Keep go.
Outdated(S) ==
    LET old  == {t \in Tasks : row[t] \in Final}
        kept == old \ S
    IN  /\ S \subseteq old
        /\ Cardinality(kept) <= Keep
        /\ S # {} => Cardinality(kept) = Keep
        /\ \A t \in S, u \in kept : endAt[t] <= endAt[u]

ExecPrune(t) ==
    /\ Exec(t, "prune")
    /\ \/ /\ \E S \in SUBSET Tasks : Outdated(S) /\ DropRows(S)
          /\ ExGoTo(t, "leave")
          /\ UNCHANGED faults
       \/ Fault /\ ExGoTo(t, "abort") /\ UNCHANGED rowVars
    /\ UNCHANGED <<hostVars, up, pending, running, memAt,
                   canceled, sub, cons, verdict, clean, del, crashes>>

\* The locked section that ends the try block.
ExecLeave(t) ==
    /\ Exec(t, "leave")
    /\ running' = running \ {t}
    /\ ExGoTo(t, "finally")
    /\ UNCHANGED <<rowVars, hostVars, up, pending, memAt, canceled,
                   sub, cons, verdict, clean, del, crashes, faults>>

\* The except clause; if its own UPDATE raises only the finally is left.
ExecAbort(t) ==
    /\ Exec(t, "abort")
    /\ \/ SetResult(t, "failed") /\ UNCHANGED faults
       \/ Fault /\ UNCHANGED rowVars
    /\ ExGoTo(t, "finally")
    /\ UNCHANGED <<hostVars, up, pending, running, memAt, canceled, sub,
                   cons, verdict, clean, del, crashes>>

ExecFinally(t) ==
    /\ Exec(t, "finally")
    /\ IF clean[t] THEN UNCHANGED <<proc, rc, sbx>> ELSE Destroy(t)
    /\ running' = running \ {t}
    /\ canceled' = canceled \ {t}
    /\ clean' = [clean EXCEPT ![t] = FALSE]
    /\ ExGoTo(t, "none")
    /\ UNCHANGED <<rowVars, starts, escaped, up, pending, memAt, sub, cons,
                   verdict, del, crashes, faults>>

ExecThread(t) ==
    \/ ExecStart(t) \/ ExecWait(t) \/ ExecCleanup(t) \/ ExecJudge(t)
    \/ ExecRecord(t) \/ ExecPrune(t) \/ ExecLeave(t) \/ ExecAbort(t)
    \/ ExecFinally(t)

-----------------------------------------------------------------------------
(* The command's processes, the Reaper, and the end of the Worker.         *)

\* The main process ends by itself, with or without children left behind.
MainExit(t) ==
    /\ proc[t] = "main"
    /\ proc' \in {[proc EXCEPT ![t] = p] : p \in {"kids", "gone"}}
    /\ rc' \in {[rc EXCEPT ![t] = Collect(t, r)] : r \in {"ok", "bad"}}
    /\ Outside
    /\ UNCHANGED <<rowVars, sbx, starts, up, pending, running, memAt,
                   canceled, sub, cons, execVars, del, crashes, faults>>

KidsExit(t) ==
    /\ proc[t] = "kids"
    /\ proc' = [proc EXCEPT ![t] = "gone"]
    /\ Outside
    /\ UNCHANGED <<rowVars, sbx, rc, starts, up, pending, running,
                   memAt, canceled, sub, cons, execVars, del, crashes,
                   faults>>

\* SbxManager.cleanup_orphaned on one record: never a populated cgroup.  The
\* grace period of a new record is left out, so it may come at any time.
Reap(t) ==
    /\ up
    /\ sbx[t] # "none"
    /\ ~Populated(t)
    /\ DestroyMeanwhile(t)
    /\ UNCHANGED <<rowVars, up, pending, running, memAt,
                   canceled, sub, cons, verdict, clean, del, crashes, faults>>

\* The Worker dies: its threads and its memory are gone.  The commands run in
\* cgroups of their own and go on, unless it was the host that went down.
Crash ==
    /\ up
    /\ crashes < MaxCrashes
    /\ crashes' = crashes + 1
    /\ up' = FALSE
    /\ pending' = {} /\ running' = {} /\ canceled' = {}
    /\ sub' = [t \in Tasks |-> IF sub[t] = "inserted" THEN "returned" ELSE sub[t]]
    /\ cons' = [pc |-> "take", task |-> None]
    /\ ex' = [t \in Tasks |-> "none"]
    /\ verdict' = [t \in Tasks |-> "none"]
    /\ clean' = [t \in Tasks |-> FALSE]
    /\ del' = [d \in Deleters |-> [rows |-> {}, cancels |-> {}]]
    /\ rc' = [t \in Tasks |-> "none"]
    /\ \/ UNCHANGED <<sbx, proc>>
       \/ /\ sbx' = [t \in Tasks |-> IF sbx[t] = "none" THEN "none" ELSE "broken"]
          /\ proc' = [t \in Tasks |-> IF proc[t] = "none" THEN "none" ELSE "gone"]
    /\ Outside
    /\ UNCHANGED <<rowVars, memAt, starts, faults>>

RecoveredRequeued(t) == IF row[t] = "running" THEN "queued" ELSE row[t]

RecoveredUnknown(t) == IF row[t] = "running" THEN "interrupted" ELSE row[t]

\* _recover_orphaned: what becomes of a row.
Recovered(t) == IF row[t] = "running" THEN "failed" ELSE row[t]

RequeuedNone == {}

\* Its entries in _pending, and the created_at they are given.
Requeued == {t \in Tasks : Recovered(t) = "queued"}

RequeuedAnew(t) == Cardinality({u \in Requeued : memAt[t] <= memAt[u]})

RequeuedAt(t) == dbAt[t]

\* TaskQueue.__init__ with _recover_orphaned, then start().
Restart ==
    LET orphans == {t \in Tasks : row[t] = "running"}
    IN  /\ ~up
        /\ up' = TRUE
        /\ row' = [t \in Tasks |-> Recovered(t)]
        /\ endAt' = [t \in Tasks |-> IF t \in orphans THEN 1 + Latest(endAt)
                                                       ELSE endAt[t]]
        /\ pending' = Requeued
        /\ memAt' = [t \in Tasks |-> IF t \in Requeued THEN RequeuedAt(t) ELSE 0]
        /\ dbAt' = [t \in Tasks |-> IF t \in Requeued THEN dbAt[t] ELSE 0]
        /\ UNCHANGED <<hostVars, running, canceled, sub, cons, execVars,
                       del, crashes, faults>>

-----------------------------------------------------------------------------
TaskNext(t) ==
    \/ SubmitInsert(t) \/ SubmitEnqueue(t)
    \/ ExecThread(t) \/ ExecTimeout(t)
    \/ MainExit(t) \/ KidsExit(t) \/ Reap(t)

DeleteNext(d) ==
    \/ \E S \in SUBSET Known \ {{}} : DeleteBegin(d, S)
    \/ \E t \in Tasks : DeleteRow(d, t) \/ DeleteCancel(d, t)

Next ==
    \/ \E t \in Tasks : TaskNext(t)
    \/ \E d \in Deleters : DeleteNext(d)
    \/ Consumer
    \/ Crash
    \/ Restart

Spec == Init /\ [][Next]_vars

-----------------------------------------------------------------------------
(* Safety.                                                                 *)

\* The command of a task is started at most once, whatever the crashes,
\* restarts, exceptions and cancellations: tasks are not idempotent.
AtMostOnce == \A t \in Tasks : starts[t] <= 1

\* A command starts only while its row says "running", so that a restart
\* can tell that it may have run.
StartsRecorded ==
    [][\A t \in Tasks : starts'[t] > starts[t] => row[t] = "running"]_vars

\* "completed" is recorded only once the sandbox is given back and nothing of
\* the command is left in it: the devices of a completed task are free.  What an
\* escaped command leaves behind is in no sandbox.
CompletedReleased ==
    \A t \in Tasks : row[t] = "completed" =>
        sbx[t] = "none" /\ proc[t] # "main" /\ ~Populated(t) /\ starts[t] = 1

ConsHolds(t) == cons.task = t /\ cons.pc \in {"persist", "spawn", "undo", "giveup", "drop"}

\* While the Worker runs, every entry of _running has exactly one thread that
\* will remove it, and every row that says "running" is such an entry.  Two
\* exceptions in a row break it (see ConsGiveUp), hence the bound on faults.
RunningHasOwner ==
    up /\ faults <= 1 =>
        /\ \A t \in Tasks : row[t] = "running" => t \in running
        /\ \A t \in running : ConsHolds(t) # (ex[t] # "none")

\* While the Worker runs, every queued row is in the queue, or in the hands of
\* a thread that is about to put it there, run it or delete it.
NoLostTask ==
    up /\ faults = 0 =>
        \A t \in Tasks : row[t] = "queued" =>
            \/ t \in pending
            \/ sub[t] = "inserted"
            \/ cons.task = t /\ cons.pc = "persist"
            \/ \E d \in Deleters : t \in del[d].rows

\* No task is admitted past a task that the queue order puts before it, though
\* the queue changes while the consumer allocates without the lock.
NoOvertaking ==
    [][\A t \in running' \ running : \A u \in pending \ {t} : Before(t, u)]_vars

\* A task whose cancellation is seen before its result is judged never ends
\* up completed.
CancelSticks ==
    \A t \in Tasks :
        [](t \in canceled /\ ex[t] \in {"start", "wait", "cleanup", "judge"}
             => [](row[t] # "completed"))

\* When one POST returned before another began, a restart keeps their order.
FifoAcrossRestart ==
    [][up' /\ ~up =>
         \A t, u \in pending' :
            memAt[t] > 0 /\ memAt[t] < dbAt[u] => memAt'[t] < memAt'[u]]_vars

-----------------------------------------------------------------------------
(* The queue implements the lifecycle that module TaskLifecycle states.    *)

TaskState(t) ==
    IF row[t] # "none" THEN row[t] ELSE IF sub[t] = "idle" THEN "new" ELSE "gone"

Lifecycle == INSTANCE TaskLifecycle
                 WITH state <- [t \in Tasks |-> TaskState(t)],
                      launched <- {t \in Tasks : starts[t] > 0}

\* Every behaviour of the queue is one of the lifecycle, as long as a POST is
\* not deleted while in progress and no two exceptions meet.
RefinesLifecycle == Lifecycle!Spec

-----------------------------------------------------------------------------
(* Liveness.                                                               *)

\* The scheduler runs every thread of the Worker, and systemd restarts it.
ThreadFairness ==
    /\ WF_vars(Restart)
    /\ WF_vars(Consumer)
    /\ \A t \in Tasks : WF_vars(SubmitEnqueue(t)) /\ WF_vars(ExecThread(t))
    /\ \A d \in Deleters : WF_vars(\E t \in Tasks : DeleteRow(d, t) \/ DeleteCancel(d, t))

\* sandbox.sh does not fail for ever: a create that keeps being tried with
\* enough free devices, and the Reaper's destroy of an empty sandbox, succeed.
ScriptFairness ==
    /\ SF_vars(ConsAllocate)
    /\ \A t \in Tasks : SF_vars(Reap(t) /\ sbx'[t] = "none")

\* Commands, and what they leave behind, end: none is left frozen by a sandbox.sh
\* that died between its freeze and its kill.
CommandFairness == \A t \in Tasks : WF_vars(MainExit(t)) /\ WF_vars(KidsExit(t))

FairSpec == Spec /\ ThreadFairness /\ ScriptFairness /\ CommandFairness

\* Without CommandFairness: a command may run for ever.
EndlessSpec == Spec /\ ThreadFairness /\ ScriptFairness

\* Every accepted task gets a result or is deleted: no stale head, restart or
\* sandbox that would not go keeps it in the queue for ever.
EveryTaskSettles ==
    \A t \in Tasks : row[t] = "queued" ~> row[t] \in Final \cup {"none"}

Ended(t) == proc[t] \notin Alive /\ t \notin running

\* A cancelled command ends even if it would have run for ever, if the calls of
\* destroy_sandbox do not fail, at whatever point of its start the cancellation
\* comes but one: it may enter its sandbox just behind the kill, and escape to
\* run on in no sandbox.
CancelEnds == \A t \in Tasks : t \in canceled ~> t \in escaped \/ Ended(t)

=============================================================================
