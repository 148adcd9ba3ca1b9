---------------------------- MODULE MCRevisionNotes ----------------------------
(* Small instances of RevisionNotes for TLC.                               *)
EXTENDS RevisionNotes, TLC

\* Threads are interchangeable.
Symmetry == Permutations(Workers)

===============================================================================
