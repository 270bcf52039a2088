---------------------------- MODULE MCDisaggWall ----------------------------
(* Small instances of DisaggWall for TLC. *)
EXTENDS DisaggWall

\* Prompts of two blocks: one request fills the pool.
MCPrompts == {33}
\* One token from the prefill, one from a decode step.
MCOutputs == {2}
=============================================================================
