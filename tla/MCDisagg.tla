------------------------------ MODULE MCDisagg ------------------------------
(* Small instances of Disagg for TLC. *)
EXTENDS Disagg

\* Prompts of one block and of two (the last one partly filled).
MCPrompts == {32, 33}
\* A request that its prefill finishes, and one of two decode steps.
MCOutputs == {1, 3}
=============================================================================
