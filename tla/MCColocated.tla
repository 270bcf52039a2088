---------------------------- MODULE MCColocated ----------------------------
(* Small instances of Colocated for TLC. *)
EXTENDS Colocated

\* Prompts of one chunk and of two, and one that can never fit the pool.
MCPrompts == {32, 33, 97}
\* A request that its prefill finishes, and one of two decode steps.
MCOutputs == {1, 3}
=============================================================================
