-------------------------- MODULE MCProcessManager --------------------------
(* Small instances of ProcessManager for TLC.                              *)
EXTENDS ProcessManager, TLC

\* The sets below are interchangeable, and no invariant tells their members
\* apart.
Symmetry == Permutations(Labels) \cup Permutations(Dirs) \cup Permutations(Pmids)
            \cup Permutations(Pids) \cup Permutations(Conns)

=============================================================================
