--------------------------- MODULE FlipDiscipline ---------------------------
(***************************************************************************)
(* What the flip policy is for, stated over what really happened: history  *)
(* variables record the signals and the flips, whatever the policy itself  *)
(* remembers of them.                                                      *)
(***************************************************************************)
EXTENDS ElasticPolicy

VARIABLES
  last,      \* the signal of the last evaluation
  lasted,    \* how long the evaluations have shown its pressure without a break
  apart,     \* how long ago the last flip was, up to Cooldown + Hysteresis
  gap        \* how far apart the last two flips were, up to the same

histVars == <<last, lasted, apart, gap>>

Flips == pre' # pre

InitH ==
  /\ Init
  /\ last \in Signals
  /\ lasted = -1           \* nothing has been evaluated yet
  /\ apart = Cooldown + Hysteresis /\ gap = apart

Record(dt, s) ==
  /\ last' = s
  /\ lasted' = IF lasted >= 0 /\ Pressure(s) = Pressure(last)
               THEN Capped(lasted + dt, Hysteresis) ELSE 0
  /\ apart' = IF Flips THEN 0 ELSE Capped(apart + dt, Cooldown + Hysteresis)
  /\ gap' = IF Flips THEN Capped(apart + dt, Cooldown + Hysteresis) ELSE gap

NextH == \E dt \in Gaps, s \in Signals : Evaluate(dt, s) /\ Record(dt, s)

\* The monitor ticks as long as it lives.
SpecH == InitH /\ [][NextH]_<<vars, histVars>> /\ WF_<<vars, histVars>>(NextH)

-----------------------------------------------------------------------------
(* Properties *)

Pressures == {"none", "dec2pre", "pre2dec", "pre2dec-idle"}

\* Type invariant.
TypeOK ==
  /\ pre \in 1 .. NumGPUs - 1 /\ dec = NumGPUs - pre
  /\ sinceFlip \in 0 .. Cooldown
  /\ pending \in Pressures
  /\ sincePend \in 0 .. Hysteresis
  /\ last \in Signals /\ lasted \in -1 .. Hysteresis
  /\ apart \in 0 .. Cooldown + Hysteresis /\ gap \in 0 .. Cooldown + Hysteresis

\* "A floor so decode never starves completely", "so TTFT cannot diverge": flips
\* conserve the workers, never empty a pool, and never take one below its floor.
FloorsKept ==
  [][/\ pre' + dec' = NumGPUs /\ pre' > 0 /\ dec' > 0
     /\ pre' < pre => pre' >= MinPrefill
     /\ dec' < dec => dec' >= MinDecode]_vars

\* HysteresisSec "requires the same pressure to persist this long before flipping":
\* every evaluation of the last Hysteresis intervals showed the pressure of the flip.
FlipsSustained ==
  [][Flips => /\ lasted' >= Hysteresis
              /\ Pressure(last') = IF pre' > pre THEN "dec2pre" ELSE pending]_<<vars, histVars>>

\* CooldownSec is "the minimum gap between flips".  The gap is longer: a flip uses
\* its pressure up and the cooldown sees none, so the hysteresis starts only then.
FlipsSpaced == gap >= Cooldown + Hysteresis

\* A prefill backlog that stays pulls decode workers over until decode is at its
\* floor, whatever the latencies say meanwhile.
BacklogIsServed ==
  <>[](last.depth > 0) => <>[](dec <= MinDecode)

-----------------------------------------------------------------------------
(* The inductive strengthening of FlipsSpaced: see FlipDisciplineProofs. *)

\* The policy's age of its last flip is the true one, up to Cooldown.
AgeTrue == sinceFlip = Capped(apart, Cooldown)

\* A pressure is pending only since the cooldown was over.
PendingAfterCooldown == pending # "none" => apart >= Cooldown + sincePend

SpacingInv == TypeOK /\ AgeTrue /\ PendingAfterCooldown /\ FlipsSpaced

\* The same for FlipsSustained: what is pending has been seen at every evaluation for
\* at least as long as the policy thinks.
PendingSeen == pending # "none" => Pressure(last) = pending /\ lasted >= sincePend
=============================================================================
