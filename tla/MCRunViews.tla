------------------------------- MODULE MCRunViews -------------------------------
(* Small instances of RunViews for TLC.                                    *)
EXTENDS RunViews, TLC

\* Threads and options are interchangeable.
Symmetry == Permutations(Workers) \cup Permutations(Options)

===============================================================================
