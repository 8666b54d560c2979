----------------------------- MODULE MCDirCache -----------------------------
(* Small instances of DirCache for TLC. *)
EXTENDS DirCache, TLC

CONSTANT Quiet  \* users who never choose a directory

Chosen == \A u \in Quiet : setting[u] = Default

Symmetry == Permutations(Request) \cup Permutations(Dir)
=============================================================================
