------------------------- MODULE MCFlipDiscipline -------------------------
(* Small instances of FlipDiscipline for TLC. *)
EXTENDS FlipDiscipline

\* Each side of every threshold, with and without a backlog.
MCSignals == [ttft : {39, 40, 50, 100}, tpot : {39, 40, 100}, depth : {0, 1}]
MCGaps == {1, 2}
=============================================================================
