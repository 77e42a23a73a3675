------------------------- MODULE DockerExecProofs --------------------------
(***************************************************************************)
(* Proofs about DockerExec, for any number of restarts of the container    *)
(* and of faults of its API.                                               *)
(***************************************************************************)
EXTENDS DockerExec, TLAPS

USE DEF alienVars, dockerVars, runVars, failures, Alive, ApiStep, RunStep, Frame, Goto, Raise

\* Where the thread knows the PID of the process.
WithPid == {"assertcontainer", "assertexec", "verify", "join", "checkcgroup",
            "assertagain", "check", "continue"}

\* What the thread knows of the exec.  A Pid it has read belongs to an exec
\* that runs or is over: no other process of it will ever come.
Known ==
    /\ exec \in {"none", "created", "inflight", "void"} => proc = "none"
    /\ pc \in {"validate", "create"} => exec = "none"
    /\ cgroup = "sandbox" => exec \in {"shown", "over"}
    /\ runtime => exec \in {"shown", "over"}
    /\ pc \in {"validate", "create", "stream"} => ~runtime /\ ~pid
    /\ pc \in WithPid => pid
    /\ pid => runtime
    /\ pc \in {"state", "loop"} => runtime
    /\ pc \in {"inspect", "kill"} /\ back = "loop" => runtime

\* The steps after which the PID is not looked at again before it is used.  An
\* alien that is there when they begin is found: the exec it is not is over.
NoAlien ==
    /\ alien # "none" => proc = "gone"
    /\ alien = "here" /\ pc \in {"verify", "join"} => "join" \in late
    /\ alien = "here" /\ pc \in {"check", "continue"} => "continue" \in late
    /\ alien = "here" /\ pc = "kill" => "kill" \in late
    /\ alien = "here" /\ del = "kill" => "delete" \in late
    /\ alien = "none" => harm = {}
    /\ harm \subseteq late

\* From the check of its cgroup on, the process, as long as it lives, is in
\* the sandbox; who destroys the sandbox ends what is in it.
InSandbox ==
    /\ pc \in {"assertagain", "check", "continue"} /\ proc \in Alive => cgroup = "sandbox"
    /\ cgroup = "sandbox" /\ proc \in Alive => sbx
    /\ proc = "user" => cgroup = "sandbox"
    /\ del = "done" /\ "delete" \notin kept => ~sbx

\* DELETE finds a process that is about to be continued, unless its look raises:
\* the container is the one that was validated as long as the process lives.
Launched == {"assertexec", "verify", "join", "checkcgroup", "assertagain", "check", "continue"}
Found ==
    /\ ~box => proc \notin Alive
    /\ pc \in Launched /\ proc \in Alive => gen = mygen
    /\ del # "none" => event
    /\ pc = "continue" /\ proc \in Alive /\ del \in {"destroy", "done"} => "delete" \in blind

\* A process the Worker has seen does not outlive the way from a failure to the
\* end of the task: without a PID somebody has cancelled before, with one the
\* except clause will.
Seen == runtime /\ blind = {} /\ gen = mygen
Ending ==
    /\ mygen <= gen
    /\ pc = "except" /\ ~pid /\ Seen => proc \notin Alive
    /\ pc \in {"destroy", "ended"} /\ Seen => proc \notin Alive

Inv ==
    /\ Ranges
    /\ exec \in {"started", "shown"} <=> proc \in Alive
    /\ Known /\ NoAlien /\ InSandbox /\ Found /\ Ending

USE DEF Ranges, Known, NoAlien, InSandbox, Launched, Found, Ending, Seen, WithPid, Inv

-----------------------------------------------------------------------------
LEMMA InitInv == Init => Inv
BY DEF Init

\* Docker, the kernel, the container.
LEMMA DockerInv ==
    ASSUME Inv, Docker \/ ProcessEnds \/ BoxStops \/ BoxStarts \/ Reuse \/ Reap
    PROVE  Inv'
<1> USE DockerAssumption
<1>1. CASE ExecStarts
  BY <1>1 DEF ExecStarts
<1>2. CASE ExecRefused
  BY <1>2 DEF ExecRefused
<1>3. CASE ExecShown
  BY <1>3 DEF ExecShown
<1>4. CASE SelfStop
  BY <1>4 DEF SelfStop
<1>5. CASE ProcessEnds
  BY <1>5 DEF ProcessEnds, Killed
<1>6. CASE BoxStops
  BY <1>6 DEF BoxStops, Killed
<1>7. CASE BoxStarts
  <2>1. Ranges'
    BY <1>7 DEF BoxStarts
  <2>2. Known' /\ (exec' \in {"started", "shown"} <=> proc' \in Alive)
    BY <1>7 DEF BoxStarts
  <2>3. NoAlien'
    BY <1>7 DEF BoxStarts
  <2>4. InSandbox'
    BY <1>7 DEF BoxStarts
  <2>5. Found' /\ Ending'
    BY <1>7 DEF BoxStarts
  <2> QED BY <2>1, <2>2, <2>3, <2>4, <2>5
<1>8. CASE Reuse
  <2>1. Ranges'
    BY <1>8 DEF Reuse, InFlight, Blow
  <2>2. Known' /\ (exec' \in {"started", "shown"} <=> proc' \in Alive)
    BY <1>8 DEF Reuse, InFlight, Blow
  <2>3. NoAlien'
    BY <1>8 DEF Reuse, InFlight, Blow
  <2>4. InSandbox'
    BY <1>8 DEF Reuse, InFlight, Blow
  <2>5. Found' /\ Ending'
    BY <1>8 DEF Reuse, InFlight, Blow
  <2> QED BY <2>1, <2>2, <2>3, <2>4, <2>5
<1>9. CASE Reap
  BY <1>9 DEF Reap
<1> QED BY <1>1, <1>2, <1>3, <1>4, <1>5, <1>6, <1>7, <1>8, <1>9 DEF Docker

\* run, up to the stopped process.
LEMMA LaunchInv ==
    ASSUME Inv, Validate \/ Create \/ StartStream \/ WaitInspect \/ WaitState \/ WaitTimeout
    PROVE  Inv'
<1>1. CASE Validate
  BY <1>1 DEF Validate
<1>2. CASE Create
  BY <1>2 DEF Create
<1>3. CASE StartStream
  BY <1>3 DEF StartStream
<1>4. CASE WaitInspect
  BY <1>4 DEF WaitInspect
<1>5. CASE WaitState
  <2>1. Ranges'
    BY <1>5 DEF WaitState, Cancel
  <2>2. Known' /\ (exec' \in {"started", "shown"} <=> proc' \in Alive)
    BY <1>5 DEF WaitState, Cancel
  <2>3. NoAlien'
    BY <1>5 DEF WaitState, Cancel
  <2>4. InSandbox'
    BY <1>5 DEF WaitState, Cancel
  <2>5. Found' /\ Ending'
    BY <1>5 DEF WaitState, Cancel
  <2> QED BY <2>1, <2>2, <2>3, <2>4, <2>5
<1>6. CASE WaitTimeout
  BY <1>6 DEF WaitTimeout, Cancel
<1> QED BY <1>1, <1>2, <1>3, <1>4, <1>5, <1>6

\* run, from the stopped process to the user's command.
LEMMA JoinInv ==
    ASSUME Inv, \/ AssertContainer \/ AssertExec \/ Verify \/ Join
                \/ CheckCgroup \/ AssertAgain \/ CheckEvent \/ Continue
    PROVE  Inv'
<1>1. CASE AssertContainer
  <2>1. Ranges'
    BY <1>1 DEF AssertContainer
  <2>2. Known' /\ (exec' \in {"started", "shown"} <=> proc' \in Alive)
    BY <1>1 DEF AssertContainer
  <2>3. NoAlien'
    BY <1>1 DEF AssertContainer
  <2>4. InSandbox'
    BY <1>1 DEF AssertContainer
  <2>5. Found' /\ Ending'
    BY <1>1 DEF AssertContainer
  <2> QED BY <2>1, <2>2, <2>3, <2>4, <2>5
<1>2. CASE AssertExec
  <2>1. Ranges'
    BY <1>2 DEF AssertExec
  <2>2. Known' /\ (exec' \in {"started", "shown"} <=> proc' \in Alive)
    BY <1>2 DEF AssertExec
  <2>3. NoAlien'
    BY <1>2 DEF AssertExec
  <2>4. InSandbox'
    BY <1>2 DEF AssertExec
  <2>5. Found' /\ Ending'
    BY <1>2 DEF AssertExec
  <2> QED BY <2>1, <2>2, <2>3, <2>4, <2>5
<1>3. CASE Verify
  <2>1. Ranges'
    BY <1>3 DEF Verify
  <2>2. Known' /\ (exec' \in {"started", "shown"} <=> proc' \in Alive)
    BY <1>3 DEF Verify
  <2>3. NoAlien'
    BY <1>3 DEF Verify
  <2>4. InSandbox'
    BY <1>3 DEF Verify
  <2>5. Found' /\ Ending'
    BY <1>3 DEF Verify
  <2> QED BY <2>1, <2>2, <2>3, <2>4, <2>5
<1>4. CASE Join
  <2>1. Ranges'
    BY <1>4 DEF Join, Hit
  <2>2. Known' /\ (exec' \in {"started", "shown"} <=> proc' \in Alive)
    BY <1>4 DEF Join, Hit
  <2>3. NoAlien'
    BY <1>4 DEF Join, Hit
  <2>4. InSandbox'
    BY <1>4 DEF Join, Hit
  <2>5. Found' /\ Ending'
    BY <1>4 DEF Join, Hit
  <2> QED BY <2>1, <2>2, <2>3, <2>4, <2>5
<1>5. CASE CheckCgroup
  <2>1. Ranges'
    BY <1>5 DEF CheckCgroup
  <2>2. Known' /\ (exec' \in {"started", "shown"} <=> proc' \in Alive)
    BY <1>5 DEF CheckCgroup
  <2>3. NoAlien'
    BY <1>5 DEF CheckCgroup
  <2>4. InSandbox'
    BY <1>5 DEF CheckCgroup
  <2>5. Found' /\ Ending'
    BY <1>5 DEF CheckCgroup
  <2> QED BY <2>1, <2>2, <2>3, <2>4, <2>5
<1>6. CASE AssertAgain
  <2>1. Ranges'
    BY <1>6 DEF AssertAgain
  <2>2. Known' /\ (exec' \in {"started", "shown"} <=> proc' \in Alive)
    BY <1>6 DEF AssertAgain
  <2>3. NoAlien'
    BY <1>6 DEF AssertAgain
  <2>4. InSandbox'
    BY <1>6 DEF AssertAgain
  <2>5. Found' /\ Ending'
    BY <1>6 DEF AssertAgain
  <2> QED BY <2>1, <2>2, <2>3, <2>4, <2>5
<1>7. CASE CheckEvent
  <2>1. Ranges'
    BY <1>7 DEF CheckEvent, Cancel
  <2>2. Known' /\ (exec' \in {"started", "shown"} <=> proc' \in Alive)
    BY <1>7 DEF CheckEvent, Cancel
  <2>3. NoAlien'
    BY <1>7 DEF CheckEvent, Cancel
  <2>4. InSandbox'
    BY <1>7 DEF CheckEvent, Cancel
  <2>5. Found' /\ Ending'
    BY <1>7 DEF CheckEvent, Cancel
  <2> QED BY <2>1, <2>2, <2>3, <2>4, <2>5
<1>8. CASE Continue
  <2>1. Ranges'
    BY <1>8 DEF Continue, Hit
  <2>2. Known' /\ (exec' \in {"started", "shown"} <=> proc' \in Alive)
    BY <1>8 DEF Continue, Hit
  <2>3. NoAlien'
    <3>1. CASE UNCHANGED alienVars
      BY <1>8, <3>1 DEF Continue, Hit
    <3>2. CASE alien = "here" /\ Hit("continue") /\ UNCHANGED <<alien, proc>> /\ pc' = "loop"
      BY <1>8, <3>2 DEF Continue, Hit
    <3> QED BY <1>8, <3>1, <3>2 DEF Continue
  <2>4. InSandbox'
    BY <1>8 DEF Continue, Hit
  <2>5. Found' /\ Ending'
    BY <1>8 DEF Continue, Hit
  <2> QED BY <2>1, <2>2, <2>3, <2>4, <2>5
<1> QED BY <1>1, <1>2, <1>3, <1>4, <1>5, <1>6, <1>7, <1>8

\* The end of a task: the loop, cancel(), the except clauses, the destruction.
LEMMA EndInv ==
    ASSUME Inv, \/ LoopInspect \/ LoopTimeout \/ CancelInspect \/ CancelKill \/ CancelRaises
                \/ Except \/ ApiRaises \/ Destroy
    PROVE  Inv'
<1> USE DockerAssumption
<1>1. CASE LoopInspect
  <2>1. Ranges'
    BY <1>1 DEF LoopInspect, Cancel
  <2>2. Known' /\ (exec' \in {"started", "shown"} <=> proc' \in Alive)
    BY <1>1 DEF LoopInspect, Cancel
  <2>3. NoAlien'
    BY <1>1 DEF LoopInspect, Cancel
  <2>4. InSandbox'
    BY <1>1 DEF LoopInspect, Cancel
  <2>5. Found' /\ Ending'
    BY <1>1 DEF LoopInspect, Cancel
  <2> QED BY <2>1, <2>2, <2>3, <2>4, <2>5
<1>2. CASE LoopTimeout
  BY <1>2 DEF LoopTimeout, Cancel
<1>3. CASE CancelInspect
  BY <1>3 DEF CancelInspect, Identified
<1>4. CASE CancelKill
  BY <1>4 DEF CancelKill, KillPid, Hit, Killed
<1>5. CASE CancelRaises
  <2>1. Ranges'
    BY <1>5 DEF CancelRaises
  <2>2. Known' /\ (exec' \in {"started", "shown"} <=> proc' \in Alive)
    BY <1>5 DEF CancelRaises
  <2>3. NoAlien'
    BY <1>5 DEF CancelRaises
  <2>4. InSandbox'
    BY <1>5 DEF CancelRaises
  <2>5. Found' /\ Ending'
    BY <1>5 DEF CancelRaises
  <2> QED BY <2>1, <2>2, <2>3, <2>4, <2>5
<1>6. CASE Except
  BY <1>6 DEF Except
<1>7. CASE ApiRaises
  BY <1>7 DEF ApiRaises
<1>8. CASE Destroy
  <2>1. Ranges'
    BY <1>8 DEF Destroy, Destroyed, EmptyCgroup, Killed
  <2>2. Known' /\ (exec' \in {"started", "shown"} <=> proc' \in Alive)
    BY <1>8 DEF Destroy, Destroyed, EmptyCgroup, Killed
  <2>3. NoAlien'
    BY <1>8 DEF Destroy, Destroyed, EmptyCgroup, Killed
  <2>4. InSandbox'
    BY <1>8 DEF Destroy, Destroyed, EmptyCgroup, Killed
  <2>5. Found' /\ Ending'
    BY <1>8 DEF Destroy, Destroyed, EmptyCgroup, Killed
  <2> QED BY <2>1, <2>2, <2>3, <2>4, <2>5
<1> QED BY <1>1, <1>2, <1>3, <1>4, <1>5, <1>6, <1>7, <1>8

LEMMA DeleteInv == ASSUME Inv, DeleteBegin \/ Delete PROVE Inv'
<1>1. CASE DeleteBegin
  BY <1>1 DEF DeleteBegin
<1>2. CASE DeleteInspect
  BY <1>2 DEF DeleteInspect, Identified
<1>3. CASE DeleteKill
  BY <1>3 DEF DeleteKill, KillPid, Hit, Killed
<1>4. CASE DeleteDestroy
  <2>1. Ranges'
    BY <1>4 DEF DeleteDestroy, Destroyed, EmptyCgroup, Killed
  <2>2. Known' /\ (exec' \in {"started", "shown"} <=> proc' \in Alive)
    BY <1>4 DEF DeleteDestroy, Destroyed, EmptyCgroup, Killed
  <2>3. NoAlien'
    BY <1>4 DEF DeleteDestroy, Destroyed, EmptyCgroup, Killed
  <2>4. InSandbox'
    BY <1>4 DEF DeleteDestroy, Destroyed, EmptyCgroup, Killed
  <2>5. Found' /\ Ending'
    BY <1>4 DEF DeleteDestroy, Destroyed, EmptyCgroup, Killed
  <2> QED BY <2>1, <2>2, <2>3, <2>4, <2>5
<1> QED BY <1>1, <1>2, <1>3, <1>4 DEF Delete

LEMMA StepInv == Inv /\ [Next]_vars => Inv'
<1> SUFFICES ASSUME Inv, [Next]_vars PROVE Inv'
  OBVIOUS
<1>1. CASE UNCHANGED vars
  BY <1>1 DEF vars
<1>2. CASE Next
  <2> HIDE DEF Inv
  <2>1. CASE Run
    BY <2>1, LaunchInv, JoinInv, EndInv DEF Run
  <2>2. CASE Docker \/ ProcessEnds \/ BoxStops \/ BoxStarts \/ Reuse \/ Reap
    BY <2>2, DockerInv
  <2>3. CASE WaitTimeout \/ LoopTimeout \/ ApiRaises \/ CancelRaises
    BY <2>3, LaunchInv, EndInv
  <2>4. CASE DeleteBegin \/ Delete
    BY <2>4, DeleteInv
  <2> QED BY <1>2, <2>1, <2>2, <2>3, <2>4 DEF Next
<1> QED BY <1>1, <1>2

-----------------------------------------------------------------------------
\* The inductive invariant itself.
THEOREM Safety == Spec => []Inv
<1> HIDE DEF Inv
<1> QED BY InitInv, StepInv, PTL DEF Spec

\* A flag is set or reset, or stays.
LEMMA FlagsKept == ASSUME Flags, [Next]_vars PROVE Flags'
<1>1. CASE UNCHANGED vars
  BY <1>1 DEF vars, Flags
<1>2. CASE Docker \/ ProcessEnds \/ BoxStops \/ BoxStarts \/ Reuse \/ Reap
  BY <1>2, Zenon DEF Docker, ExecStarts, ExecRefused, ExecShown, SelfStop, ProcessEnds, BoxStops,
      BoxStarts, Reuse, Reap, Flags
<1>3. CASE Validate \/ Create \/ StartStream \/ WaitInspect \/ WaitState \/ WaitTimeout
  BY <1>3, Zenon DEF Validate, Create, StartStream, WaitInspect, WaitState, WaitTimeout, Cancel, Flags
<1>4. CASE \/ AssertContainer \/ AssertExec \/ Verify \/ Join
           \/ CheckCgroup \/ AssertAgain \/ CheckEvent \/ Continue
  BY <1>4, Zenon DEF AssertContainer, AssertExec, Verify, Join, CheckCgroup, AssertAgain,
      CheckEvent, Continue, Cancel, Flags
<1>5. CASE \/ LoopInspect \/ LoopTimeout \/ CancelInspect \/ CancelKill \/ CancelRaises
           \/ Except \/ ApiRaises \/ Destroy
  BY <1>5, Zenon DEF LoopInspect, LoopTimeout, CancelInspect, CancelKill, CancelRaises, Except,
      ApiRaises, Destroy, Destroyed, Cancel, Flags
<1>6. CASE DeleteBegin \/ Delete
  BY <1>6, Zenon DEF DeleteBegin, Delete, DeleteInspect, DeleteKill, DeleteDestroy, Destroyed, Flags
<1> QED BY <1>1, <1>2, <1>3, <1>4, <1>5, <1>6 DEF Next, Run

\* A set stays, or gets one member more; the calls in flight are calls.
LEMMA SetsKept == ASSUME Sets, [Next]_vars PROVE Sets'
<1>1. CASE UNCHANGED <<alienVars, blind, kept>>
  BY <1>1 DEF Sets
<1>2. CASE Reuse
  BY <1>2 DEF Reuse, InFlight, Sets
<1>3. CASE Join \/ Continue
  BY <1>3 DEF Join, Continue, Hit, Sets, Blow
<1>4. CASE CancelKill \/ DeleteKill
  BY <1>4 DEF CancelKill, DeleteKill, KillPid, Hit, Sets, Blow
<1>5. CASE CancelRaises
  BY <1>5 DEF CancelRaises, Sets, Thread
<1>6. CASE Destroy
  BY <1>6 DEF Destroy, Destroyed, EmptyCgroup, Sets, Thread
<1>7. CASE DeleteDestroy
  BY <1>7 DEF DeleteDestroy, Destroyed, EmptyCgroup, Sets, Thread
<1>8. ASSUME ~(Reuse \/ Join \/ Continue \/ CancelKill \/ DeleteKill \/ CancelRaises
               \/ Destroy \/ DeleteDestroy)
      PROVE  UNCHANGED <<alienVars, blind, kept>>
  BY <1>8 DEF Next, Run, Docker, Delete, vars, Cancel, ExecStarts, ExecRefused, ExecShown,
      SelfStop, ProcessEnds, BoxStops, BoxStarts, Reap, Validate, Create, StartStream,
      WaitInspect, WaitState, WaitTimeout, AssertContainer, AssertExec, Verify, CheckCgroup,
      AssertAgain, CheckEvent, LoopInspect, LoopTimeout, CancelInspect, Except, ApiRaises,
      DeleteBegin, DeleteInspect
<1> QED BY <1>1, <1>2, <1>3, <1>4, <1>5, <1>6, <1>7, <1>8

\* The types of the variables, and exec_inspect and the process agree.
THEOREM TypeCorrect == Spec => []TypeOK
<1>1. Init => Flags
  BY DEF Init, Flags
<1>2. Flags /\ [Next]_vars => Flags'
  BY FlagsKept
<1>3. Init => Sets
  BY DEF Init, Sets
<1>4. Sets /\ [Next]_vars => Sets'
  BY SetsKept
<1>5. Inv /\ Flags /\ Sets => TypeOK
  BY DEF TypeOK
<1> HIDE DEF Inv
<1> QED BY <1>1, <1>2, <1>3, <1>4, <1>5, Safety, PTL DEF Spec

\* The command of the user runs nowhere but in the sandbox of its task.
THEOREM CommandConfined == Spec => []Confined
<1>1. Inv => Confined
  BY DEF Confined
<1> HIDE DEF Inv
<1> QED BY <1>1, Safety, PTL

\* A foreign process is touched only if it came after the look that guards the call.
THEOREM AliensSpared == Spec => []AlienSpared
<1>1. Inv => AlienSpared
  BY DEF AlienSpared
<1> HIDE DEF Inv
<1> QED BY <1>1, Safety, PTL

\* A process whose PID the Worker has seen is over with its task.
THEOREM SeenEnds == Spec => []SeenProcessEnds
<1>1. Inv => SeenProcessEnds
  BY DEF SeenProcessEnds
<1> HIDE DEF Inv
<1> QED BY <1>1, Safety, PTL

\* Only Continue starts a command.  After a DELETE that destroyed the sandbox
\* no process is in one, and after one that looked at the exec there is no process.
THEOREM NothingAfterDelete == Spec => NoStartAfterDelete
<1>1. ASSUME Inv, [Next]_vars, del = "done", "delete" \notin blind \cap kept,
             proc # "user", proc' = "user"
      PROVE  FALSE
  <2>1. Continue /\ proc = "stopped"
    BY <1>1 DEF Next, Run, Docker, Delete, vars, Cancel, Killed, KillPid, Destroyed, EmptyCgroup,
        ExecStarts, ExecRefused, ExecShown, SelfStop, ProcessEnds, BoxStops, BoxStarts, Reuse, Reap,
        Validate, Create, StartStream, WaitInspect, WaitState, WaitTimeout,
        AssertContainer, AssertExec, Verify, Join, CheckCgroup, AssertAgain, CheckEvent, Continue,
        LoopInspect, LoopTimeout, CancelInspect, CancelKill, CancelRaises, Except, ApiRaises,
        Destroy, DeleteBegin, DeleteInspect, DeleteKill, DeleteDestroy
  <2> QED BY <1>1, <2>1 DEF Continue
<1>2. Inv /\ [Next]_vars => [del = "done" /\ "delete" \notin blind \cap kept => ~(proc # "user" /\ proc' = "user")]_vars
  BY <1>1
<1> HIDE DEF Inv
<1> QED BY <1>2, Safety, PTL DEF Spec, NoStartAfterDelete
=============================================================================
