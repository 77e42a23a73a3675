---------------------------- MODULE MCMigrations ----------------------------
(* Instance of Migrations: a release of two scripts and one of three.  The  *)
(* second can be repeated, like 0003_tighten_task_priority.sql.             *)
EXTENDS Migrations

CONSTANTS old, new, srv, s1, s2, s2b, s3

R(v, s) == [version |-> v, script |-> s]
D(applied, whole, table, rows) ==
    [applied |-> applied, whole |-> whole, table |-> table, rows |-> rows]

MCRelease == [p \in {old, new, srv} |-> IF p = old THEN <<s1, s2>> ELSE <<s1, s2, s3>>]

\* No database, one from before the runner (complete and not), one with an
\* empty history table and no business tables, databases at version 1 and 3.
Good == {D(<<>>, FALSE, FALSE, {}), D(<<s1>>, TRUE, FALSE, {}), D(<<>>, FALSE, TRUE, {}),
         D(<<s1>>, TRUE, TRUE, {R(1, s1)}),
         D(<<s1, s2, s3>>, TRUE, TRUE, {R(1, s1), R(2, s2), R(3, s3)})}

\* An empty history beside business tables, an incomplete schema with and
\* without history, an edited script, a gap in the history.
Bad  == {D(<<s1>>, TRUE, TRUE, {}), D(<<s1>>, FALSE, FALSE, {}),
         D(<<s1>>, FALSE, TRUE, {R(1, s1)}),
         D(<<s1, s2b>>, TRUE, TRUE, {R(1, s1), R(2, s2b)}),
         D(<<s1>>, TRUE, TRUE, {R(1, s1), R(3, s3)})}

MCOrigins == Good \cup Bad
=============================================================================
