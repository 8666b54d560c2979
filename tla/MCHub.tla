------------------------------- MODULE MCHub -------------------------------
(* Small instances of Hub for TLC. *)
EXTENDS Hub, TLC

\* Connections are interchangeable in the safety runs.
ClientSymmetry == Permutations(Client)
=============================================================================
