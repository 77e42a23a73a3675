---------------------------- MODULE MCSbxManager ----------------------------
(* Small instances of SbxManager for TLC. *)
EXTENDS SbxManager, TLC

CONSTANTS n1, n2, d1, d2, c1, c2, i1, i2

\* One SbxManager, as the class intends.
OneInstance == {[x \in Threads |-> i1]}

\* Or one thread got another than the rest: a client, for the consumer, or the
\* Reaper, whose thread the main thread starts from the object it was left with.
AnyInstance ==
    OneInstance \cup {[x \in Threads |-> IF x = apart THEN i2 ELSE i1] : apart \in Threads}

Symmetric == Permutations({n1, n2}) \cup Permutations({d1, d2}) \cup Permutations({c1, c2})

=============================================================================
