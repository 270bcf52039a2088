------------------------------- MODULE MCTimed -------------------------------
(* Small instances of Timed for TLC. *)
EXTENDS Timed

\* Prompts of two blocks: two requests fill the pool.
MCPrompts == {64}
\* A request that its prefill finishes, and one of two decode steps.
MCOutputs == {1, 3}
\* Three buckets each: the longest latencies fall beyond the last one.
MCShape == [ttft |-> [width |-> 5, buckets |-> 3],
            tpot |-> [width |-> 1, buckets |-> 4],
            itl  |-> [width |-> 1, buckets |-> 4],
            e2e  |-> [width |-> 6, buckets |-> 3]]
\* Arrivals together, or a mean apart.
MCDraws == {0, 1}
\* One burst, in the second half of the load window.
MCBurstAt == {16}
MCResizeTimes == {9, 17}
MCWindows == {0, 4, 100}
=============================================================================
