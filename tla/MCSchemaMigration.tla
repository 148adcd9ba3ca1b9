--------------------------- MODULE MCSchemaMigration ---------------------------
(* Small instances of SchemaMigration for TLC.                             *)
EXTENDS SchemaMigration, TLC

\* Processes and runs are interchangeable.
Symmetry == Permutations(Processes) \cup Permutations(Runs)

===============================================================================
