----------------------------- MODULE MCSimClock -----------------------------
(* Small instances of SimClock for TLC. *)
EXTENDS SimClock

\* A delay that is clamped, none, and two that differ.
MCDelays == {-1, 0, 1, 2}
MCHorizons == {1}
=============================================================================
