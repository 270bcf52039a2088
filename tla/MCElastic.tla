----------------------------- MODULE MCElastic -----------------------------
(* Small instances of Elastic for TLC. *)
EXTENDS Elastic

\* What Disagg assumes of its caller is off: the monitor has to see to it.
ASSUME MonitorIsCaller ==
  MinPrefillGPUs = 0 /\ MinDecodeGPUs = 0 /\ ~SpacedFlips

\* Prompts of two blocks: one request fits the pool and a second does not.
MCPrompts == {33}
\* A request that its prefill finishes, and one that has to decode.
MCOutputs == {1, 2}
\* Healthy with margin, healthy without, prefill starved, decode starved.
MCLatencies == {[ttft |-> 20, tpot |-> 20], [ttft |-> 60, tpot |-> 20],
                [ttft |-> 120, tpot |-> 20], [ttft |-> 20, tpot |-> 120]}
=============================================================================
