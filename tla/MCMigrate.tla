------------------------------ MODULE MCMigrate ------------------------------
(***************************************************************************)
(* An instance of Migrate for TLC: the three migrations of the repository, *)
(* and runs of a release with two of them, and of one with all three.      *)
(***************************************************************************)
EXTENDS Migrate

CONSTANTS old, new, again

MCVersions == 1 .. 3
MCEmbedded == [r \in {old, new, again} |-> IF r = old THEN 1 .. 2 ELSE 1 .. 3]

\* 002 alters a table that 001 creates.
MCNeeds == [v \in MCVersions |-> IF v = 2 THEN {1} ELSE {}]
=============================================================================
