---------------------------- MODULE TaskLifecycle ----------------------------
(***************************************************************************)
(* What the queue promises a client about each task: the states that       *)
(* GET /tasks/<id> can show and the only ways from one to another, and     *)
(* when the command may be launched.  Nothing here says how threads, locks *)
(* and restarts bring it about: module TaskQueue does.                     *)
(*                                                                         *)
(* Crashed restarts and the retention limit act on several tasks at once,  *)
(* hence the steps on sets.                                                *)
(***************************************************************************)
CONSTANT Tasks

VARIABLES
    state,    \* "new": never accepted; "gone": refused or deleted
    launched  \* the tasks whose command was started

vars == <<state, launched>>

States == {"new", "queued", "running", "completed", "failed", "gone"}

TypeOK == state \in [Tasks -> States] /\ launched \in SUBSET Tasks

Init == state = [t \in Tasks |-> "new"] /\ launched = {}

Become(S, s) == state' = [t \in Tasks |-> IF t \in S THEN s ELSE state[t]]

Among(S, from) == S # {} /\ \A t \in S : state[t] \in from

Accept(t) == Among({t}, {"new"}) /\ Become({t}, "queued") /\ UNCHANGED launched

Refuse(t) == Among({t}, {"new"}) /\ Become({t}, "gone") /\ UNCHANGED launched

Claim(t) == Among({t}, {"queued"}) /\ Become({t}, "running") /\ UNCHANGED launched

\* Once, and only while the record says that it is running.
Launch(t) ==
    /\ state[t] = "running"
    /\ t \notin launched
    /\ launched' = launched \cup {t}
    /\ UNCHANGED state

Complete(t) ==
    /\ Among({t}, {"running"}) /\ t \in launched
    /\ Become({t}, "completed")
    /\ UNCHANGED launched

\* A failure while recording can still turn a completed task into a failed one.
Fail(S) ==
    /\ Among(S, {"queued", "running", "completed"})
    /\ Become(S, "failed")
    /\ UNCHANGED launched

\* A running task is never forgotten.
Discard(S) ==
    /\ Among(S, {"queued", "completed", "failed"})
    /\ Become(S, "gone")
    /\ UNCHANGED launched

Next ==
    /\ vars' # vars
    /\ \/ \E t \in Tasks : Accept(t) \/ Refuse(t) \/ Claim(t) \/ Launch(t) \/ Complete(t)
       \/ \E S \in SUBSET Tasks : Fail(S) \/ Discard(S)

Spec == Init /\ [][Next]_vars

=============================================================================
