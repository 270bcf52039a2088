------------------------------ MODULE MCKVPool ------------------------------
(* Small instances of KVPool for TLC. *)
EXTENDS KVPool

CONSTANTS r1, r2, r3

MCRequest == {r1, r2, r3}
MCSizes == {1, 2}

\* The requests are interchangeable (no liveness property is checked).
MCSymmetry == Permutations(MCRequest)
=============================================================================
