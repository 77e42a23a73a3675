----------------------------- MODULE DockerExec -----------------------------
(***************************************************************************)
(* One task in an existing container (executor/command_docker.py): the     *)
(* executor thread in run, the stream thread whose exec_start makes Docker *)
(* create a process that stops itself, the process, the container, and the *)
(* thread of DELETE /tasks, which cancels and destroys the sandbox.        *)
(*                                                                         *)
(* A step is one call of the Docker API, one look at /proc, one signal or  *)
(* one call of SbxManager.  When the process has gone its PID may become,  *)
(* at any time, that of an alien: the worst one, a stopped process of the  *)
(* same container.  Docker shows an exec as running only while its process *)
(* is there.                                                               *)
(***************************************************************************)
EXTENDS Naturals

CONSTANTS
    MaxRestarts,  \* bound: how often the container stops
    MaxFaults,    \* bound: how many API calls raise and destructions fail
    Cancels       \* may DELETE come?

ASSUME DockerAssumption ==
    MaxRestarts \in Nat /\ MaxFaults \in Nat /\ Cancels \in BOOLEAN

VARIABLES
    \* Docker and the kernel
    box,     \* is the container running?
    gen,     \* how often it was started: its init PID and StartedAt
    exec,    \* the exec as exec_inspect shows it: "none", "created",
             \* "inflight" (exec_start was sent), "started" (Pid still 0),
             \* "shown" (Running, with its Pid), "over", "void" (never started)
    proc,    \* its process: "none", "fresh", "stopped", "user", "gone"
    cgroup,  \* the cgroup of the process: "box" or "sandbox"
    alien,   \* the foreign process with its PID: "none", "here", "gone"
    late,    \* the calls whose last check was over when the alien came
    harm,    \* the calls that hit it: "join", "continue", "kill" (of cancel()
             \* in the executor thread), "delete" (of cancel() in DELETE)
    sbx,     \* is the sandbox of the task there?
    \* the Worker
    pc,      \* the step of the executor thread
    back,    \* where its call of cancel() returns to
    pid,     \* is the local variable pid of run set?
    runtime, \* is _runtime_pid set?
    mygen,   \* init_pid and started_at, as _validate_container read them
    event,   \* _cancel_event
    del,     \* the step of the DELETE thread
    blind,   \* whose look at the exec raised: "run", "delete"
    kept,    \* whose destroy_sandbox failed
    restarts, faults

alienVars  == <<alien, late, harm>>
dockerVars == <<box, gen, exec, proc, cgroup, alienVars, sbx>>
runVars    == <<pc, back, pid, runtime, mygen>>
failures   == <<blind, kept, faults>>
vars == <<dockerVars, runVars, event, del, failures, restarts>>

Alive   == {"fresh", "stopped", "user"}
ApiStep == {"validate", "create", "wait", "assertcontainer", "assertexec", "assertagain", "loop"}
RunStep == ApiStep \cup {"stream", "state", "verify", "join", "checkcgroup", "check",
            "continue", "except", "inspect", "kill", "destroy", "ended"}

Thread  == {"run", "delete"}
Blow    == {"join", "continue", "kill", "delete"}

Flags == {box, sbx, pid, runtime, event} \subseteq BOOLEAN
Sets ==
    /\ blind \in SUBSET Thread /\ kept \in SUBSET Thread
    /\ late \in SUBSET Blow /\ harm \in SUBSET Blow

Ranges ==
    /\ gen \in Nat /\ mygen \in Nat /\ restarts \in Nat /\ faults \in Nat
    /\ exec \in {"none", "created", "inflight", "started", "shown", "over", "void"}
    /\ proc \in {"none", "gone"} \cup Alive
    /\ cgroup \in {"box", "sandbox"}
    /\ alien \in {"none", "here", "gone"}
    /\ pc \in RunStep /\ back \in {"except", "destroy", "loop"}
    /\ del \in {"none", "inspect", "kill", "destroy", "done"}

\* Types; and Docker reports a process as running only while it is.
TypeOK == Flags /\ Sets /\ Ranges /\ (exec \in {"started", "shown"} <=> proc \in Alive)

Init ==
    /\ box = TRUE /\ gen = 1 /\ exec = "none" /\ proc = "none" /\ cgroup = "box"
    /\ alien = "none" /\ late = {} /\ harm = {} /\ sbx = TRUE
    /\ pc = "validate" /\ back = "except" /\ pid = FALSE /\ runtime = FALSE
    /\ mygen = 0 /\ event = FALSE /\ del = "none"
    /\ blind = {} /\ kept = {} /\ restarts = 0 /\ faults = 0

-----------------------------------------------------------------------------
(* Docker, the container and the process. *)

ExecStarts ==
    /\ exec = "inflight" /\ box
    /\ exec' = "started" /\ proc' = "fresh"
    /\ UNCHANGED <<box, gen, cgroup, alienVars, sbx, runVars, event, del, failures, restarts>>

\* No /bin/sh, no such user: the exec ends before it begins.
ExecRefused ==
    /\ exec = "inflight" /\ box
    /\ exec' = "over"
    /\ UNCHANGED <<box, gen, proc, cgroup, alienVars, sbx, runVars, event, del, failures, restarts>>

ExecShown ==
    /\ exec = "started" /\ exec' = "shown"
    /\ UNCHANGED <<box, gen, proc, cgroup, alienVars, sbx, runVars, event, del, failures, restarts>>

\* kill -STOP "$$" of the wrapper.
SelfStop ==
    /\ proc = "fresh" /\ proc' = "stopped"
    /\ UNCHANGED <<box, gen, exec, cgroup, alienVars, sbx, runVars, event, del, failures, restarts>>

\* The process and its exec after SIGKILL.
Killed == proc' = "gone" /\ exec' = "over"

\* The command ends, or somebody kills its process.
ProcessEnds ==
    /\ proc \in Alive /\ Killed
    /\ UNCHANGED <<box, gen, cgroup, alienVars, sbx, runVars, event, del, failures, restarts>>

\* The container stops: its processes die, an exec that has not started never will.
BoxStops ==
    /\ box /\ restarts < MaxRestarts
    /\ box' = FALSE /\ restarts' = restarts + 1
    /\ IF proc \in Alive THEN Killed
       ELSE /\ exec' = IF exec \in {"created", "inflight"} THEN "void" ELSE exec
            /\ UNCHANGED proc
    /\ UNCHANGED <<gen, cgroup, alienVars, sbx, runVars, event, del, failures>>

BoxStarts ==
    /\ ~box /\ box' = TRUE /\ gen' = gen + 1
    /\ UNCHANGED <<exec, proc, cgroup, alienVars, sbx, runVars, event, del, failures, restarts>>

\* The calls that a thread makes next on a PID it has checked for the last time.
InFlight ==
    {call \in Blow :
        CASE call = "join"     -> pc \in {"verify", "join"}
          [] call = "continue" -> pc \in {"check", "continue"}
          [] call = "kill"     -> pc = "kill"
          [] call = "delete"   -> del = "kill"}

\* The PID is used again.
Reuse ==
    /\ proc = "gone" /\ alien = "none"
    /\ alien' = "here" /\ late' = InFlight
    /\ UNCHANGED <<box, gen, exec, proc, cgroup, harm, sbx, runVars, event, del, failures, restarts>>

\* A signal or a write to cgroup.procs meets the process or an alien.
Hit(call) == harm' = harm \cup {call} /\ UNCHANGED late

\* os.kill(pid, SIGKILL)
KillPid(call) ==
    CASE proc \in Alive -> Killed /\ UNCHANGED alienVars
      [] alien = "here" -> alien' = "gone" /\ Hit(call) /\ UNCHANGED <<proc, exec>>
      [] OTHER -> UNCHANGED <<proc, exec, alienVars>>

\* The Reaper destroys a sandbox that is empty.
Reap ==
    /\ sbx /\ ~(cgroup = "sandbox" /\ proc \in Alive) /\ ~("join" \in harm /\ alien = "here")
    /\ sbx' = FALSE
    /\ UNCHANGED <<box, gen, exec, proc, cgroup, alienVars, runVars, event, del, failures, restarts>>

-----------------------------------------------------------------------------
(* run, up to the stopped process. *)

\* What most steps leave alone.
Frame == UNCHANGED <<dockerVars, event, del, failures, restarts>>
Goto(step) == pc' = step /\ UNCHANGED <<back, pid, runtime, mygen>>

\* raise, to the except clauses.
Raise == Goto("except")

\* A call of cancel(): it sets the event and returns where there is no exec yet.
Cancel(to) ==
    /\ event' = TRUE /\ back' = to
    /\ pc' = IF exec = "none" THEN to ELSE "inspect"
    /\ UNCHANGED <<pid, runtime, mygen, dockerVars, del, failures, restarts>>

Validate ==
    /\ pc = "validate"
    /\ IF box THEN pc' = "create" /\ mygen' = gen /\ UNCHANGED <<back, pid, runtime>>
       ELSE Raise
    /\ Frame

Create ==
    /\ pc = "create"
    /\ IF box THEN exec' = "created" /\ Goto("stream") ELSE Raise /\ UNCHANGED exec
    /\ UNCHANGED <<box, gen, proc, cgroup, alienVars, sbx, event, del, failures, restarts>>

StartStream ==
    /\ pc = "stream"
    /\ exec' = IF exec = "created" THEN "inflight" ELSE exec
    /\ Goto("wait")
    /\ UNCHANGED <<box, gen, proc, cgroup, alienVars, sbx, event, del, failures, restarts>>

\* _wait_stopped_pid: exec_inspect, and what does not depend on the state of
\* the process.  Without a Pid a cancelled wait ends without a kill.
WaitInspect ==
    /\ pc = "wait"
    /\ \/ /\ exec = "shown"
          /\ pc' = "state" /\ runtime' = TRUE /\ UNCHANGED <<back, pid, mygen>>
       \/ exec = "over" /\ Raise
       \/ exec \notin {"shown", "over"} /\ event /\ Raise
    /\ Frame

\* A stopped process is returned even when the task is cancelled.
WaitStateNoRaise ==
    /\ pc = "state"
    /\ IF proc = "stopped" \/ alien = "here"
       THEN pc' = "assertcontainer" /\ pid' = TRUE
            /\ UNCHANGED <<back, runtime, mygen>> /\ Frame
       ELSE IF event THEN Cancel("wait") ELSE Goto("wait") /\ Frame
WaitState ==
    /\ pc = "state"
    /\ IF proc = "stopped" \/ alien = "here"
       THEN pc' = "assertcontainer" /\ pid' = TRUE
            /\ UNCHANGED <<back, runtime, mygen>> /\ Frame
       ELSE IF event THEN Cancel("except") ELSE Goto("wait") /\ Frame

\* The 15 seconds are over.
WaitTimeout == pc = "wait" /\ Cancel("except")

-----------------------------------------------------------------------------
(* run, from the stopped process to the user's command. *)

AssertContainer ==
    /\ pc = "assertcontainer"
    /\ IF box /\ gen = mygen THEN Goto("assertexec") ELSE Raise
    /\ Frame

AssertExecSkipped == pc = "assertexec" /\ Goto("verify") /\ Frame
AssertExec ==
    /\ pc = "assertexec"
    /\ IF exec = "shown" THEN Goto("verify") ELSE Raise
    /\ Frame

\* _verify_exec_pid: an alien of the same container passes.
Verify ==
    /\ pc = "verify"
    /\ IF \/ proc = "stopped" /\ cgroup = "box"
          \/ alien = "here" /\ box /\ gen = mygen
       THEN Goto("join") ELSE Raise
    /\ Frame

\* join_sandbox says FALSE without a sandbox, without a process, or when the
\* write to cgroup.procs fails.
JoinUnchecked ==
    /\ pc = "join"
    /\ cgroup' \in IF sbx /\ proc \in Alive THEN {"box", "sandbox"} ELSE {cgroup}
    /\ Goto("assertagain")
    /\ UNCHANGED <<box, gen, exec, proc, alienVars, sbx, event, del, failures, restarts>>
Join ==
    /\ pc = "join"
    /\ \/ Raise /\ UNCHANGED <<cgroup, alienVars>>
       \/ /\ sbx /\ alien = "here"
          /\ Hit("join") /\ Goto("checkcgroup") /\ UNCHANGED <<cgroup, alien>>
       \/ /\ sbx /\ proc \in Alive
          /\ cgroup' = "sandbox" /\ Goto("checkcgroup") /\ UNCHANGED alienVars
    /\ UNCHANGED <<box, gen, exec, proc, sbx, event, del, failures, restarts>>

CheckCgroup ==
    /\ pc = "checkcgroup"
    /\ IF \/ proc \in Alive /\ cgroup = "sandbox"
          \/ alien = "here" /\ "join" \in harm
       THEN Goto("assertagain") ELSE Raise
    /\ Frame

AssertAgain ==
    /\ pc = "assertagain"
    /\ IF exec = "shown" THEN Goto("check") ELSE Raise
    /\ Frame

CheckEvent ==
    /\ pc = "check"
    /\ IF event THEN Cancel("except") ELSE Goto("continue") /\ Frame

\* os.kill(pid, SIGCONT); ProcessLookupError is an unexpected exception.
Continue ==
    /\ pc = "continue"
    /\ IF proc = "stopped"
       THEN proc' = "user" /\ Goto("loop") /\ UNCHANGED alienVars
       ELSE /\ IF alien = "here" THEN Hit("continue") /\ Goto("loop") /\ UNCHANGED alien
                                 ELSE Raise /\ UNCHANGED alienVars
            /\ UNCHANGED proc
    /\ UNCHANGED <<box, gen, exec, cgroup, sbx, event, del, failures, restarts>>

\* The loop until the exec is over; a cancellation or the timeout of the
\* command kills, again and again.
LoopInspectOnce ==
    /\ pc = "loop"
    /\ exec = "over" /\ Goto("destroy") /\ Frame
LoopInspect ==
    /\ pc = "loop"
    /\ IF exec = "over"
       THEN Goto("destroy") /\ Frame
       ELSE event /\ Cancel("loop")
LoopTimeout == pc = "loop" /\ exec = "shown" /\ ~event /\ Cancel("loop")

-----------------------------------------------------------------------------
(* cancel(), the except clauses, and what _execute_one does after run. *)

\* exec_inspect and the checks of the identity: a Pid, the namespaces of the
\* container that was validated, the sandbox or the container's cgroup.
Identified == exec = "shown" /\ gen = mygen

CancelInspect ==
    /\ pc = "inspect"
    /\ Goto(IF Identified THEN "kill" ELSE back)
    /\ Frame

\* Whatever raises in cancel() is only logged.
CancelRaises ==
    /\ faults < MaxFaults /\ faults' = faults + 1
    /\ \/ pc = "inspect" /\ Goto(back) /\ blind' = blind \cup {"run"} /\ UNCHANGED del
       \/ del = "inspect" /\ del' = "destroy" /\ blind' = blind \cup {"delete"} /\ UNCHANGED runVars
    /\ UNCHANGED <<dockerVars, event, kept, restarts>>

CancelKill ==
    /\ pc = "kill"
    /\ KillPid("kill") /\ Goto(back)
    /\ UNCHANGED <<box, gen, cgroup, sbx, event, del, failures, restarts>>

\* except DockerExecutorError: only when run has a PID.
ExceptNoCancel ==
    /\ pc = "except"
    /\ Goto("destroy") /\ Frame
Except ==
    /\ pc = "except"
    /\ IF pid THEN /\ event' = TRUE /\ back' = "destroy" /\ pc' = "inspect"
              ELSE pc' = "destroy" /\ UNCHANGED <<event, back>>
    /\ UNCHANGED <<pid, runtime, mygen, dockerVars, del, failures, restarts>>

\* except Exception: a call of the API raises; cancel() without a condition.
ApiRaises ==
    /\ pc \in ApiStep /\ faults < MaxFaults
    /\ faults' = faults + 1
    /\ event' = TRUE /\ back' = "destroy"
    /\ pc' = IF exec = "none" THEN "destroy" ELSE "inspect"
    /\ UNCHANGED <<pid, runtime, mygen, dockerVars, del, blind, kept, restarts>>

\* destroy_sandbox, of _execute_one and of DELETE: it ends what is inside, or
\* it fails, before or after the kill, and the sandbox stays for the Reaper.
EmptyCgroup ==
    /\ IF cgroup = "sandbox" /\ proc \in Alive THEN Killed ELSE UNCHANGED <<proc, exec>>
    /\ alien' = IF "join" \in harm THEN "gone" ELSE alien
    /\ UNCHANGED <<late, harm>>

DestroyedSpares(who) == sbx' = FALSE /\ UNCHANGED <<proc, exec, alienVars, kept, faults>>
Destroyed(who) ==
    \/ EmptyCgroup /\ sbx' = FALSE /\ UNCHANGED <<kept, faults>>
    \/ /\ sbx /\ faults < MaxFaults
       /\ faults' = faults + 1 /\ kept' = kept \cup {who}
       /\ EmptyCgroup \/ UNCHANGED <<proc, exec, alienVars>>
       /\ UNCHANGED sbx

Destroy ==
    /\ pc = "destroy"
    /\ Destroyed("run") /\ Goto("ended")
    /\ UNCHANGED <<box, gen, cgroup, event, del, blind, restarts>>

-----------------------------------------------------------------------------
(* DELETE /tasks for the running task: cancel(), then destroy_sandbox. *)

DeleteBegin ==
    /\ Cancels /\ del = "none" /\ pc # "ended"
    /\ event' = TRUE
    /\ del' = IF exec = "none" THEN "destroy" ELSE "inspect"
    /\ UNCHANGED <<dockerVars, runVars, failures, restarts>>

DeleteInspect ==
    /\ del = "inspect"
    /\ del' = IF Identified THEN "kill" ELSE "destroy"
    /\ UNCHANGED <<dockerVars, runVars, event, failures, restarts>>

DeleteKill ==
    /\ del = "kill"
    /\ KillPid("delete") /\ del' = "destroy"
    /\ UNCHANGED <<box, gen, cgroup, sbx, runVars, event, failures, restarts>>

DeleteDestroy ==
    /\ del = "destroy" /\ del' = "done"
    /\ Destroyed("delete")
    /\ UNCHANGED <<box, gen, cgroup, runVars, event, blind, restarts>>

-----------------------------------------------------------------------------
Run ==
    \/ Validate \/ Create \/ StartStream \/ WaitInspect \/ WaitState
    \/ AssertContainer \/ AssertExec \/ Verify \/ Join \/ CheckCgroup \/ AssertAgain
    \/ CheckEvent \/ Continue \/ LoopInspect
    \/ CancelInspect \/ CancelKill \/ Except \/ Destroy
Docker == ExecStarts \/ ExecRefused \/ ExecShown \/ SelfStop
Delete == DeleteInspect \/ DeleteKill \/ DeleteDestroy

Next ==
    \/ Run \/ WaitTimeout \/ LoopTimeout \/ ApiRaises \/ CancelRaises
    \/ Docker \/ ProcessEnds \/ BoxStops \/ BoxStarts \/ Reuse \/ Reap
    \/ DeleteBegin \/ Delete

Spec == Init /\ [][Next]_vars

\* Threads go on, the 15 seconds pass; nothing says that the container, the
\* user's command or a DELETE do anything.
FairSpec == Spec /\ WF_vars(Run) /\ WF_vars(Delete) /\ WF_vars(Docker) /\ WF_vars(WaitTimeout)

-----------------------------------------------------------------------------
(* Properties. *)

\* The user's command runs nowhere but in the sandbox of its task: whatever
\* happens to the container, the PID or the sandbox between the stop and the
\* SIGCONT (_verify_exec_pid, _join_and_continue).
Confined == proc = "user" => cgroup = "sandbox" /\ sbx

\* A foreign process that has the PID by now is moved, killed or continued only
\* if it came after the last look that guards this very call
\* (_assert_exec_unchanged, the checks of cancel): whatever came before is found.
AlienSpared == harm \subseteq late

\* A command does not begin once its DELETE has returned, unless both halves of
\* the DELETE failed: its look at the exec, which is only logged, and its
\* destruction of the sandbox (cancel, delete_tasks).
NoStartAfterDelete ==
    [][del = "done" /\ "delete" \notin blind \cap kept => ~(proc # "user" /\ proc' = "user")]_vars

\* When the task is over, a process whose PID the Worker has seen is over too,
\* even if the destruction of the sandbox failed, unless the look of a cancel()
\* at it raised or the container was started again before the exec was made (the
\* cancel() of the wait and of the except clauses).
SeenProcessEnds == pc = "ended" /\ runtime /\ blind = {} /\ gen = mygen => proc \notin Alive

\* The thread, of which the queue has one per task, is always on its way to the
\* end of the task, except while the command of the user runs and nobody has
\* cancelled it (the 15 seconds of _wait_stopped_pid, the kills of the loop).
NeverStuck == []<>(pc = "ended" \/ (pc = "loop" /\ ~event))
=============================================================================
