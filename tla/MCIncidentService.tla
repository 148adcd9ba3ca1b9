--------------------------- MODULE MCIncidentService ---------------------------
(* Small instances of IncidentService for TLC.                             *)
EXTENDS IncidentService, TLC

\* Threads, runs, payloads and options are interchangeable: no definition
\* looks at more than their identity.  Used by the safety runs only.
Symmetry == Permutations(Workers) \cup Permutations(Runs)
              \cup Permutations(Payloads) \cup Permutations(Options)

===============================================================================
