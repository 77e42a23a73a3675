---------------------------- MODULE MCTaskQueue ----------------------------
(* Small instances of TaskQueue for TLC. *)
EXTENDS TaskQueue, TLC

CONSTANTS t1, t2, d1

\* Two tasks that want the one device, the second urgent.
Tasks2    == {t1, t2}
Need2     == t1 :> 1 @@ t2 :> 1
Priority2 == t1 :> 0 @@ t2 :> 1

=============================================================================
