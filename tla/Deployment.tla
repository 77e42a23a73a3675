----------------------------- MODULE Deployment -----------------------------
(***************************************************************************)
(* What the installer promises (docs/deployment.md): an installed release, *)
(* its data, and the release and data to go back to.  An upgrade or a      *)
(* rollback is one step or, when it fails, none.                           *)
(***************************************************************************)
CONSTANTS Releases, None

VARIABLES
    version,   \* the installed release
    data,      \* the writes its database holds
    previous   \* None, or the release before and the data it had

vars == <<version, data, previous>>

Init ==
    /\ version \in Releases \cup {None}
    /\ previous = None

\* The Worker accepts requests; legacy data is imported.
Work == data \subseteq data' /\ UNCHANGED <<version, previous>>

\* Nothing is lost, and a change of release remembers the one before.  The new
\* Worker may have accepted requests before the deployment is complete.
Deploy(r) ==
    /\ version' = r
    /\ data \subseteq data'
    /\ previous' = IF version \in {None, r} THEN previous
                   ELSE [version |-> version, data |-> data]

\* The data of the release before comes back; that of the release that is left
\* is kept for the way forward.
Rollback ==
    /\ previous # None
    /\ version' = previous.version
    /\ previous.data \subseteq data'
    /\ previous' = [version |-> version, data |-> data]

Next == Work \/ Rollback \/ \E r \in Releases : Deploy(r)
Spec == Init /\ [][Next]_vars
=============================================================================
