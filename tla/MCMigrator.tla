----------------------------- MODULE MCMigrator -----------------------------
(* Migrator on a few files and processes, the latter interchangeable.       *)
EXTENDS Migrator, TLC

Symmetry == Permutations(Contents) \cup Permutations(Processes)
=============================================================================
