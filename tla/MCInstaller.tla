----------------------------- MODULE MCInstaller -----------------------------
(* Instance of Installer: a release with one migration and without the      *)
(* client, one with three migrations, one that adds none.                   *)
EXTENDS Installer

CONSTANTS r1, r2, r3

MCSchema == [r \in {r1, r2, r3} |-> IF r = r1 THEN 1 ELSE 3]
=============================================================================
