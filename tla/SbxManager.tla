----------------------------- MODULE SbxManager -----------------------------
(***************************************************************************)
(* Sandboxes and the devices they hold: SbxManager (the records in SQLite, *)
(* its lock, the Reaper), sandbox.sh (cgroups, the eBPF maps, its files in *)
(* /tmp) and the rule of device_block.bpf.c.                               *)
(*                                                                         *)
(* A step is one call of sandbox.sh, one SQLite transaction or one look at *)
(* a cgroup.  sandbox.sh itself is one step, or two when it destroys: it   *)
(* kills what is in the cgroup, then removes the cgroup and its keys.  It  *)
(* may end after any prefix of its commands: an error, the 30 second       *)
(* limit, a signal.                                                        *)
(*                                                                         *)
(* Devices in use outside every sandbox only make fewer devices free; an   *)
(* allocation may take any set of free devices, so they are left out.      *)
(***************************************************************************)
EXTENDS Naturals, FiniteSets

CONSTANTS
    Names,       \* sandbox names: sbx_<owner>_<task id or PID>.slice
    Devices,     \* the managed devices, all of one major
    Clients,     \* the threads that allocate, join and destroy
    Reaper,      \* the Reaper thread
    Instances,   \* the SbxManager objects, each with a lock of its own
    Outcomes,    \* the objects that get_instance may leave the threads with
    MaxFaults,   \* bound: failed or cut scripts and failed SQLite writes
    MaxCrashes,  \* bound: deaths of the Worker or of the host
    Reuse,       \* may a name be asked for again while its sandbox is there
                 \* (two requests with one PID, a task whose destroy failed)?
    None,        \* no owner, no name
    Dead         \* the owner of a key whose cgroup is gone

Threads == Clients \cup {Reaper}

ASSUME SbxAssumption ==
    /\ Reaper \notin Clients
    /\ Outcomes \subseteq [Threads -> Instances]
    /\ MaxFaults \in Nat
    /\ MaxCrashes \in Nat
    /\ Reuse \in BOOLEAN
    /\ None \notin Names \cup Threads \cup {Dead}
    /\ Dead \notin Names

VARIABLES
    \* the host
    cg,       \* does the cgroup directory of a name exist?
    inside,   \* is a process in that cgroup?
    owner,    \* reserved_devices: whose current cgroup holds a device
    limited,  \* reserved_majors: may the cgroup open only what it owns?
    list,     \* /tmp/neu_box_devices_<name>
    \* the sandboxes table
    recorded, \* the names that have a record
    rec,      \* the devices of a record, {} without a record
    young,    \* is the record younger than one Reaper interval?
    \* the Worker
    up,       \* "down", "recovering" or "serving"
    mgr,      \* the SbxManager object of a thread
    lock,     \* who holds the lock of an instance
    pc,       \* the step of a thread
    on,       \* the sandbox it is working on
    devs,     \* the devices its allocation chose, until they are recorded
    todo,     \* what is left of a pass of the Reaper, or of the recovery
    phase,    \* the part of that pass
    \* bookkeeping of the model
    by,       \* in a Worker with two SbxManager objects, which made a record
    split,    \* was a Worker left with two SbxManager objects so far?
    slipped,  \* sandboxes that a process entered while their destruction was on
    late,     \* sandboxes with a start that outlived the grace period
    faults, crashes

kernel  == <<cg, inside, owner, limited, list>>
table   == <<recorded, rec, young, by>>
worker  == <<up, mgr, split>>
threads == <<pc, on, devs, lock>>
pass    == <<todo, phase>>
marks   == <<slipped, late>>
vars    == <<kernel, table, worker, threads, pass, marks, faults, crashes>>

-----------------------------------------------------------------------------
\* get_instance takes no lock: the consumer thread and the main thread may both
\* find no instance, each makes one, and the threads do not all get the same.
OneObject(m) == \A x, y \in Threads : m[x] = m[y]

Step == {"idle", "create", "insert", "granted", "holding",
         "scan", "confirm", "script", "clear", "forget"}

\* The steps of the critical sections.
Critical == {"create", "insert", "scan", "confirm", "script", "clear", "forget"}

\* Who is in a critical section holds the lock of its object, and nobody else
\* holds one.  The recovery needs none: there are no other threads yet.
LocksHeld ==
    /\ \A i \in Instances : lock[i] # None =>
          mgr[lock[i]] = i /\ pc[lock[i]] \in Critical
    /\ up = "serving" => \A x \in Threads : pc[x] \in Critical => lock[mgr[x]] = x

\* Who makes a record: in a Worker with two SbxManager objects it matters which,
\* and the Worker has a number.
Nobody == [life |-> 0, object |-> None]
Maker(x) == IF OneObject(mgr) THEN Nobody ELSE [life |-> crashes, object |-> mgr[x]]

Types ==
    /\ cg \in [Names -> BOOLEAN]
    /\ inside \in [Names -> BOOLEAN]
    /\ owner \in [Devices -> Names \cup {None, Dead}]
    /\ limited \in [Names -> BOOLEAN]
    /\ list \in [Names -> SUBSET Devices]
    /\ recorded \in SUBSET Names
    /\ rec \in [Names -> SUBSET Devices]
    /\ young \in [Names -> BOOLEAN]
    /\ up \in {"down", "recovering", "serving"}
    /\ mgr \in [Threads -> Instances]
    /\ lock \in [Instances -> Threads \cup {None}]
    /\ pc \in [Threads -> Step]
    /\ on \in [Threads -> Names \cup {None}]
    /\ devs \in [Threads -> SUBSET Devices]
    /\ todo \in SUBSET Names
    /\ phase \in {"records", "orphans"}
    /\ by \in [Names -> [life : Nat, object : Instances \cup {None}]]
    /\ split \in BOOLEAN
    /\ slipped \in SUBSET Names
    /\ late \in SUBSET Names
    /\ faults \in Nat
    /\ crashes \in Nat

\* The types of the variables, and the locks and the threads agree.
TypeOK == Types /\ LocksHeld

Recorded(n) == n \in recorded

CanOpenUnlessOwned(n, d) == owner[d] \in {None, n}

\* device_reserve, for a process of sandbox n and for one outside of any.  A
\* major that is not managed and the control node are open to everybody.
CanOpen(n, d) == IF owner[d] = None THEN ~limited[n] ELSE owner[d] = n
HostCanOpen(d) == owner[d] = None

Init ==
    /\ cg = [n \in Names |-> FALSE]
    /\ inside = [n \in Names |-> FALSE]
    /\ owner = [d \in Devices |-> None]
    /\ limited = [n \in Names |-> FALSE]
    /\ list = [n \in Names |-> {}]
    /\ recorded = {}
    /\ rec = [n \in Names |-> {}]
    /\ young = [n \in Names |-> FALSE]
    /\ up = "serving"
    /\ mgr \in Outcomes
    /\ split = ~OneObject(mgr)
    /\ lock = [i \in Instances |-> None]
    /\ pc = [x \in Threads |-> "idle"]
    /\ on = [x \in Threads |-> None]
    /\ devs = [x \in Threads |-> {}]
    /\ todo = {}
    /\ phase = "records"
    /\ by = [n \in Names |-> Nobody]
    /\ slipped = {}
    /\ late = {}
    /\ faults = 0
    /\ crashes = 0

Fault == faults < MaxFaults /\ faults' = faults + 1

-----------------------------------------------------------------------------
(* Threads and the lock. *)

At(x, step) == up # "down" /\ pc[x] = step

LockIgnored(x) == TRUE

LockFree(x) == lock[mgr[x]] = None

Take(x) == lock' = [lock EXCEPT ![mgr[x]] = x]

Unlock(x) == lock' = [lock EXCEPT ![mgr[x]] = None]

\* The call returns, or raises, and the thread has nothing in its hands.
Return(x) ==
    /\ pc' = [pc EXCEPT ![x] = "idle"]
    /\ on' = [on EXCEPT ![x] = None]
    /\ devs' = [devs EXCEPT ![x] = {}]
    /\ Unlock(x)

DestroyedUnlocks(x) ==
    IF x = Reaper
    THEN /\ pc' = [pc EXCEPT ![x] = "scan"]
         /\ on' = [on EXCEPT ![x] = None]
         /\ Unlock(x)
         /\ UNCHANGED devs
    ELSE Return(x)

\* A destroy_sandbox is over: the Reaper goes on with its pass, locked.
Destroyed(x) ==
    IF x = Reaper
    THEN /\ pc' = [pc EXCEPT ![x] = "scan"]
         /\ on' = [on EXCEPT ![x] = None]
         /\ UNCHANGED <<devs, lock>>
    ELSE Return(x)

-----------------------------------------------------------------------------
(* allocate_sandbox and create_sandbox.                                    *)

Allocated == UNION {rec[n] : n \in Names}

Free == Devices \ Allocated

\* A name is new unless Reuse.
Askable(n) == Reuse \/ (~cg[n] /\ ~Recorded(n) /\ \A y \in Threads : on[y] # n)

Allocate(x, n) ==
    /\ up = "serving"
    /\ pc[x] = "idle"
    /\ Askable(n)
    /\ LockFree(x)
    /\ Take(x)
    /\ \E S \in SUBSET Free : devs' = [devs EXCEPT ![x] = S]
    /\ pc' = [pc EXCEPT ![x] = "create"]
    /\ on' = [on EXCEPT ![x] = n]
    /\ UNCHANGED <<kernel, table, worker, pass, marks, faults, crashes>>

\* "Exists, skip": what was just chosen is returned all the same.  Its record
\* may be old, so the start that follows has no grace period.
CreateExists(x) ==
    /\ At(x, "create")
    /\ cg[on[x]] /\ Recorded(on[x])
    /\ pc' = [pc EXCEPT ![x] = "granted"]
    /\ devs' = [devs EXCEPT ![x] = {}]
    /\ late' = late \cup {on[x]}
    /\ Unlock(x)
    /\ UNCHANGED <<kernel, table, worker, on, pass, slipped, faults, crashes>>

\* cmd_create dies before it changes anything, for one because the directory
\* exists although no record does.
CreateRefused(x) ==
    /\ At(x, "create")
    /\ \/ cg[on[x]] /\ ~Recorded(on[x]) /\ UNCHANGED faults
       \/ ~cg[on[x]] /\ Fault
    /\ Return(x)
    /\ UNCHANGED <<kernel, table, worker, pass, marks, crashes>>

\* bpftool map update: it takes a key over from whoever had it.
Reserve(n, S) == owner' = [d \in Devices |-> IF d \in S THEN n ELSE owner[d]]

CreateScript(x) ==
    LET n == on[x]
    IN  /\ At(x, "create")
        /\ ~cg[n]
        /\ cg' = [cg EXCEPT ![n] = TRUE]
        /\ list' = [list EXCEPT ![n] = devs[x]]
        /\ Reserve(n, devs[x])
        /\ limited' = [limited EXCEPT ![n] = devs[x] # {}]
        /\ pc' = [pc EXCEPT ![x] = "insert"]
        /\ UNCHANGED <<inside, table, worker, on, devs, lock, pass, marks, faults, crashes>>

\* cmd_create ends early.  A device is reserved first and listed next.
CreateCut(x) ==
    LET n == on[x]
    IN  /\ At(x, "create")
        /\ ~cg[n]
        /\ Fault
        /\ cg' = [cg EXCEPT ![n] = TRUE]
        /\ \E reserved \in SUBSET devs[x], listed \in SUBSET devs[x] :
              /\ listed \subseteq reserved
              /\ Cardinality(reserved \ listed) <= 1
              /\ Reserve(n, reserved)
              /\ \/ list' = [list EXCEPT ![n] = listed]
                 \/ reserved = {} /\ UNCHANGED list
              /\ limited' \in {[limited EXCEPT ![n] = b] :
                                  b \in {FALSE, listed = devs[x] /\ devs[x] # {}}}
        /\ Return(x)
        /\ UNCHANGED <<inside, table, worker, pass, marks, crashes>>

\* insert_sandbox, "INSERT OR REPLACE"; if it raises there is no record.
CreateRecord(x) ==
    LET n == on[x]
    IN  /\ At(x, "insert")
        /\ \/ /\ recorded' = recorded \cup {n}
              /\ rec' = [rec EXCEPT ![n] = devs[x]]
              /\ young' = [young EXCEPT ![n] = TRUE]
              /\ by' = [by EXCEPT ![n] = Maker(x)]
              /\ late' = late \ {n}
              /\ pc' = [pc EXCEPT ![x] = "granted"]
              /\ devs' = [devs EXCEPT ![x] = {}]
              /\ Unlock(x)
              /\ UNCHANGED <<on, faults>>
           \/ Fault /\ Return(x) /\ UNCHANGED <<table, late>>
        /\ UNCHANGED <<kernel, worker, pass, slipped, crashes>>

-----------------------------------------------------------------------------
(* A process enters its sandbox.                                           *)

Enter(x) ==
    /\ inside' = [inside EXCEPT ![on[x]] = TRUE]
    /\ pc' = [pc EXCEPT ![x] = "holding"]
    /\ UNCHANGED <<cg, owner, limited, list, table, worker, on, devs, lock, pass,
                   marks, faults, crashes>>

\* join_sandbox, for a terminal or a container process.
Join(x) ==
    /\ At(x, "granted")
    /\ LockFree(x)
    /\ Recorded(on[x]) /\ cg[on[x]]
    /\ Enter(x)

\* The preexec_fn of execute_in_sandbox: a write to cgroup.procs, no lock.
Preexec(x) ==
    /\ At(x, "granted")
    /\ cg[on[x]]
    /\ Enter(x)

\* Or none does: the process or the sandbox is gone, the task is not the head
\* of the queue any more, the container does not see the devices.
JoinFails(x) ==
    /\ At(x, "granted")
    /\ pc' = [pc EXCEPT ![x] = "holding"]
    /\ UNCHANGED <<kernel, table, worker, on, devs, lock, pass, marks, faults, crashes>>

-----------------------------------------------------------------------------
(* destroy_sandbox.                                                        *)

\* By the thread that was granted the sandbox (the command ended, timed out or
\* could not start), or by any other (a release, a DELETE).
DestroyBegin(x, n) ==
    /\ up = "serving"
    /\ \/ pc[x] = "idle"
       \/ pc[x] = "holding" /\ on[x] = n
    /\ x # Reaper
    /\ LockFree(x)
    /\ IF cg[n] \/ Recorded(n)
       THEN /\ pc' = [pc EXCEPT ![x] = "script"]
            /\ on' = [on EXCEPT ![x] = n]
            /\ Take(x)
            /\ UNCHANGED devs
       ELSE Return(x)
    /\ UNCHANGED <<kernel, table, worker, pass, marks, faults, crashes>>

UnreserveNothing(n, S, removed) ==
    owner' = [d \in Devices |-> IF removed /\ owner[d] = n THEN Dead ELSE owner[d]]

\* _cleanup_device_entries deletes the keys of the list, whoever owns them.
\* The key of a cgroup that goes without that belongs to nobody alive.
Unreserve(n, S, removed) ==
    owner' = [d \in Devices |-> IF d \in S THEN None
                                ELSE IF removed /\ owner[d] = n THEN Dead
                                ELSE owner[d]]

\* _cg_kill_all, its kill: nobody who is in the cgroup by now survives it.
DestroyKill(x) ==
    /\ At(x, "script")
    /\ inside' = [inside EXCEPT ![on[x]] = FALSE]
    /\ pc' = [pc EXCEPT ![x] = "clear"]
    /\ UNCHANGED <<cg, owner, limited, list, table, worker, on, devs, lock, pass,
                   marks, faults, crashes>>

\* The rest of cmd_destroy.  A process that entered behind the kill is moved to
\* the root cgroup: it lives on there, in no sandbox.
DestroyClear(x) ==
    LET n == on[x]
    IN  /\ At(x, "clear")
        /\ inside' = [inside EXCEPT ![n] = FALSE]
        /\ cg' = [cg EXCEPT ![n] = FALSE]
        /\ Unreserve(n, list[n], TRUE)
        /\ list' = [list EXCEPT ![n] = {}]
        /\ limited' = [limited EXCEPT ![n] = FALSE]
        /\ slipped' = slipped \ {n}
        /\ pc' = [pc EXCEPT ![x] = "forget"]
        /\ UNCHANGED <<table, worker, on, devs, lock, pass, late, faults, crashes>>

StillThereForgets(x) ==
    /\ pc' = [pc EXCEPT ![x] = "forget"]
    /\ UNCHANGED <<on, devs, lock>>

\* The script ended with 0, but the directory is there: the record stays.
StillThere(x) == Destroyed(x)

\* rmdir fails, which the script ignores: it exits with 0, without its keys.
\* The unit of systemd may be in the way, or a process that entered behind the
\* kill and behind the move, for which nothing has to fail.
DestroyStuck(x) ==
    LET n == on[x]
    IN  /\ At(x, "clear")
        /\ cg[n]
        /\ \/ inside[n] /\ slipped' = slipped \cup {n} /\ UNCHANGED <<inside, faults>>
           \/ Fault /\ inside' = [inside EXCEPT ![n] = FALSE] /\ UNCHANGED slipped
        /\ Unreserve(n, list[n], FALSE)
        /\ list' = [list EXCEPT ![n] = {}]
        /\ limited' = [limited EXCEPT ![n] = limited[n] /\ list[n] = {}]
        /\ StillThere(x)
        /\ UNCHANGED <<cg, table, worker, pass, late, crashes>>

\* The script fails or is cut, before its kill is done or after it: the list
\* stays for a retry, unless its removal was the last thing that happened.
DestroyCut(x) ==
    LET n == on[x]
    IN  /\ Fault
        /\ \/ /\ At(x, "script")
              /\ inside' \in {inside, [inside EXCEPT ![n] = FALSE]}
              /\ UNCHANGED <<cg, owner, limited, list>>
           \/ /\ At(x, "clear")
              /\ \E removed \in BOOLEAN, S \in SUBSET list[n] :
                    /\ inside' \in {[inside EXCEPT ![n] = b] : b \in {FALSE, inside[n] /\ ~removed}}
                    /\ cg' = [cg EXCEPT ![n] = @ /\ ~removed]
                    /\ Unreserve(n, S, removed)
                    /\ limited' \in {[limited EXCEPT ![n] = @ /\ b] :
                                        b \in {~removed, ~removed /\ S = {}}}
                    /\ \/ UNCHANGED list
                       \/ S = list[n] /\ list' = [list EXCEPT ![n] = {}]
        /\ Destroyed(x)
        /\ UNCHANGED <<table, worker, pass, marks, crashes>>

\* delete_sandbox; if it raises the caller is done, and so is a Reaper pass.
DestroyForget(x) ==
    LET n == on[x]
    IN  /\ At(x, "forget")
        /\ \/ /\ recorded' = recorded \ {n}
              /\ rec' = [rec EXCEPT ![n] = {}]
              /\ young' = [young EXCEPT ![n] = FALSE]
              /\ by' = [by EXCEPT ![n] = Nobody]
              /\ late' = late \ {n}
              /\ Destroyed(x)
              /\ UNCHANGED <<todo, faults>>
           \/ /\ up = "serving"
              /\ Fault
              /\ Return(x)
              /\ todo' = IF x = Reaper THEN {} ELSE todo
              /\ UNCHANGED <<table, late>>
        /\ UNCHANGED <<kernel, worker, phase, slipped, crashes>>

-----------------------------------------------------------------------------
(* cleanup_orphaned, in one critical section of the lock.                  *)

PassBegin ==
    /\ up = "serving"
    /\ pc[Reaper] = "idle"
    /\ LockFree(Reaper)
    /\ Take(Reaper)
    /\ todo' = {n \in Names : Recorded(n)}
    /\ phase' = "records"
    /\ pc' = [pc EXCEPT ![Reaper] = "scan"]
    /\ UNCHANGED <<kernel, table, worker, on, devs, marks, faults, crashes>>

ScanRecordNoGrace(n) ==
    pc' = [pc EXCEPT ![Reaper] =
              IF ~Recorded(n) THEN "scan"
              ELSE IF ~cg[n] THEN "script"
              ELSE IF inside[n] THEN "scan" ELSE "confirm"]

ScanRecordCgroups(n) ==
    pc' = [pc EXCEPT ![Reaper] =
              IF ~cg[n] \/ inside[n] \/ young[n] THEN "scan" ELSE "confirm"]

\* What becomes of a record that is still there: a sandbox without its cgroup
\* is destroyed, one in use or young is left alone, an empty one is looked at
\* again.
ScanRecord(n) ==
    pc' = [pc EXCEPT ![Reaper] =
              IF ~Recorded(n) THEN "scan"
              ELSE IF ~cg[n] THEN "script"
              ELSE IF inside[n] \/ young[n] THEN "scan" ELSE "confirm"]

\* The Reaper has a sandbox in its hands unless it goes on to the next.
AtWorkOn(n) == on' = [on EXCEPT ![Reaper] = IF pc'[Reaper] = "scan" THEN None ELSE n]

Scan(n) ==
    /\ At(Reaper, "scan") /\ up = "serving"
    /\ n \in todo
    /\ todo' = todo \ {n}
    /\ \/ phase = "records" /\ ScanRecord(n) /\ UNCHANGED faults
       \/ phase = "records" /\ Fault /\ UNCHANGED pc   \* cannot be read
       \/ phase = "orphans" /\ pc' = [pc EXCEPT ![Reaper] = "script"] /\ UNCHANGED faults
    /\ AtWorkOn(n)
    /\ UNCHANGED <<kernel, table, worker, devs, lock, phase, marks, crashes>>

\* The second look, just before the destruction.
Confirm ==
    /\ At(Reaper, "confirm")
    /\ \/ /\ pc' = [pc EXCEPT ![Reaper] = IF inside[on[Reaper]] THEN "scan" ELSE "script"]
          /\ UNCHANGED faults
       \/ Fault /\ pc' = [pc EXCEPT ![Reaper] = "scan"]   \* cannot be read
    /\ AtWorkOn(on[Reaper])
    /\ UNCHANGED <<kernel, table, worker, devs, lock, pass, marks, crashes>>

\* Directories without a record; when sandbox.sh list fails there are none.
ScanOrphans ==
    /\ At(Reaper, "scan") /\ up = "serving"
    /\ todo = {} /\ phase = "records"
    /\ phase' = "orphans"
    /\ \/ todo' = {n \in Names : cg[n] /\ ~Recorded(n)} /\ UNCHANGED faults
       \/ Fault /\ UNCHANGED todo
    /\ UNCHANGED <<kernel, table, worker, threads, marks, crashes>>

PassEnd ==
    /\ At(Reaper, "scan") /\ up = "serving"
    /\ todo = {} /\ phase = "orphans"
    /\ phase' = "records"
    /\ Return(Reaper)
    /\ UNCHANGED <<kernel, table, worker, todo, marks, faults, crashes>>

-----------------------------------------------------------------------------
(* Crashes, and _recover_on_startup, which runs before anything else.      *)

\* Between two steps: a script that dies with the Worker is a cut script.
Crash ==
    /\ up # "down"
    /\ crashes < MaxCrashes
    /\ crashes' = crashes + 1
    /\ up' = "down"
    /\ pc' = [x \in Threads |-> "idle"]
    /\ on' = [x \in Threads |-> None]
    /\ devs' = [x \in Threads |-> {}]
    /\ lock' = [i \in Instances |-> None]
    /\ todo' = {}
    /\ phase' = "records"
    /\ \/ UNCHANGED <<kernel, slipped>>
       \/ \* the host: no cgroup, no map, and perhaps an empty /tmp
          /\ cg' = [n \in Names |-> FALSE]
          /\ inside' = [n \in Names |-> FALSE]
          /\ owner' = [d \in Devices |-> None]
          /\ limited' = [n \in Names |-> FALSE]
          /\ list' \in {list, [n \in Names |-> {}]}
          /\ slipped' = {}
    /\ late' = {}
    /\ UNCHANGED <<table, mgr, split, faults>>

Restart ==
    /\ up = "down"
    /\ up' = "recovering"
    /\ mgr' \in Outcomes
    /\ split' = (split \/ ~OneObject(mgr'))
    /\ todo' = {n \in Names : Recorded(n)}
    /\ pc' = [pc EXCEPT ![Reaper] = "scan"]
    /\ UNCHANGED <<kernel, table, on, devs, lock, phase, marks, faults, crashes>>

Recover(n) ==
    /\ up = "recovering" /\ pc[Reaper] = "scan"
    /\ n \in todo
    /\ todo' = todo \ {n}
    /\ pc' = [pc EXCEPT ![Reaper] = IF cg[n] THEN "scan" ELSE "script"]
    /\ AtWorkOn(n)
    /\ UNCHANGED <<kernel, table, worker, devs, lock, phase, marks, faults, crashes>>

Serve ==
    /\ up = "recovering" /\ pc[Reaper] = "scan"
    /\ todo = {}
    /\ up' = "serving"
    /\ Return(Reaper)
    /\ UNCHANGED <<kernel, table, mgr, split, pass, marks, faults, crashes>>

-----------------------------------------------------------------------------
(* Time, and the processes themselves.                                     *)

Exit(n) ==
    /\ inside[n]
    /\ inside' = [inside EXCEPT ![n] = FALSE]
    /\ UNCHANGED <<cg, owner, limited, list, table, worker, threads, pass, marks, faults, crashes>>

\* The grace period ends, also for a start that is on.
GrowOld(n) ==
    /\ young[n]
    /\ young' = [young EXCEPT ![n] = FALSE]
    /\ late' = IF \E x \in Clients : on[x] = n /\ pc[x] = "granted"
               THEN late \cup {n} ELSE late
    /\ UNCHANGED <<kernel, recorded, rec, by, worker, threads, pass, slipped, faults, crashes>>

-----------------------------------------------------------------------------
\* What a thread that holds a lock does next.
Locked(x) ==
    \/ CreateExists(x) \/ CreateRefused(x) \/ CreateScript(x) \/ CreateCut(x)
    \/ CreateRecord(x)
    \/ DestroyKill(x) \/ DestroyClear(x) \/ DestroyStuck(x) \/ DestroyCut(x) \/ DestroyForget(x)

Start(x) == Join(x) \/ Preexec(x) \/ JoinFails(x)

ClientNext(x) ==
    \/ \E n \in Names : Allocate(x, n) \/ DestroyBegin(x, n)
    \/ Start(x)
    \/ Locked(x)

ReaperPass ==
    \/ \E n \in Names : Scan(n) \/ Recover(n)
    \/ Confirm \/ ScanOrphans \/ PassEnd \/ Serve
    \/ Locked(Reaper)

Next ==
    \/ \E x \in Clients : ClientNext(x)
    \/ PassBegin \/ ReaperPass
    \/ Crash \/ Restart
    \/ \E n \in Names : Exit(n) \/ GrowOld(n)

Spec == Init /\ [][Next]_vars

-----------------------------------------------------------------------------
(* Safety.                                                                 *)

\* Two sandboxes have a device in their records only if two SbxManager objects
\* of one Worker made them: for one object the choice and the record are made
\* in one critical section, whatever fails or crashes, and a Worker that starts
\* sees the records of the one before.
NoDoubleAllocation ==
    \A m, n \in Names : m # n /\ rec[m] \cap rec[n] # {} =>
        by[m].life = by[n].life /\ by[m].object # by[n].object

\* No device is in the records of two sandboxes.  The get_instance of two
\* threads that start together breaks it.
OneSandboxPerDevice ==
    \A m, n \in Names : m # n => rec[m] \cap rec[n] = {}

\* A device that leaves its record is free in the kernel too: while every Worker
\* has one SbxManager, the record of a sandbox goes only when its cgroup and its
\* keys are gone and nobody is in it.  A second failure or crash can break it:
\* it may cut short the re-creation of a sandbox whose destruction was cut short.
FreedForEveryone ==
    [][\A n \in Names :
          faults + crashes <= 1 /\ ~split /\ n \in recorded \ recorded' =>
            /\ ~cg[n] /\ ~inside[n]
            /\ \A d \in rec[n] : owner[d] \notin {n, Dead}]_vars

\* The processes of a sandbox, and nobody else, can open its devices; and once
\* it has one, they can open no other.
Exclusive(n) ==
    inside[n] /\ Recorded(n) /\ rec[n] # {} =>
        /\ \A d \in Devices : CanOpen(n, d) <=> d \in rec[n]
        /\ \A d \in rec[n] : ~HostCanOpen(d)
        /\ \A m \in Names \ {n}, d \in rec[n] : inside[m] => ~CanOpen(m, d)

\* So it is for every sandbox, until a process slips through its destruction:
\* one that enters between the kill and the rmdir keeps the cgroup without keys.
ExclusiveUse == \A n \in Names \ slipped : Exclusive(n)

NoFailure == faults = 0 /\ crashes = 0 /\ ~split

\* As long as no script failed and nothing crashed, in a Worker with one
\* SbxManager, whatever the order of allocations, releases, exits and Reaper
\* passes; a sandbox that a process slipped through takes nothing from the rest.
ExclusiveUnlessFailed == NoFailure => ExclusiveUse

\* As long as nothing failed, no key outlives its cgroup: the key of a device
\* that no record holds is free as well.
NoLeakedKey ==
    NoFailure => \A d \in Devices : owner[d] # None =>
        \E n \in Names : owner[d] = n /\ cg[n] /\ d \in list[n]

\* The Reaper destroys no recorded sandbox that a process has entered, though
\* commands enter theirs without the lock: unless the start was so slow that the
\* grace period ended first, or used a sandbox that was there already.
ReaperSparesTheLiving ==
    /\ ~split
    /\ pc[Reaper] \in {"script", "clear"} /\ phase = "records"
    /\ on[Reaper] \notin late
    => ~inside[on[Reaper]]

-----------------------------------------------------------------------------
(* Liveness.                                                               *)

\* Threads run, and nobody keeps the Reaper from the lock for ever.
FairSpec ==
    /\ Spec
    /\ SF_vars(PassBegin)
    /\ WF_vars(ReaperPass)
    /\ WF_vars(Restart)
    /\ \A x \in Clients : WF_vars(Locked(x)) /\ WF_vars(Start(x))
    /\ \A n \in Names : WF_vars(GrowOld(n))

\* An empty sandbox goes, with its record or without one, unless a process
\* enters it, whichever step of its creation or destruction failed or was cut.
EmptySandboxGoes ==
    \A n \in Names :
        cg[n] \/ Recorded(n) ~> inside[n] \/ ~(cg[n] \/ Recorded(n))

=============================================================================
