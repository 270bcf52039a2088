--------------------------- MODULE ElasticPolicy ---------------------------
(***************************************************************************)
(* The role-flip policy (pkg/elastic/policy.go): one evaluation of the SLO *)
(* signals per monitor interval, with hysteresis and a cooldown.           *)
(*                                                                         *)
(* Time is counted in monitor intervals.  The policy compares the time     *)
(* since its last flip, and since it first saw the pending pressure, with  *)
(* two thresholds and with nothing else, so each is an age that stops      *)
(* growing at its threshold; a policy that never flipped (lastFlip is      *)
(* zero) has cooled down.  Latencies are percentages of their targets.     *)
(***************************************************************************)
EXTENDS Integers

CONSTANTS
  Hysteresis,   \* Policy.HysteresisSec, in intervals
  Cooldown,     \* Policy.CooldownSec, in intervals
  NumGPUs,      \* the workers the two pools share
  MinPrefill,   \* Signal.MinPrefillGPUs
  MinDecode,    \* Signal.MinDecodeGPUs
  Gaps,         \* the intervals that may pass between two evaluations
  Signals       \* what the monitor may observe: [ttft, tpot, depth]

ASSUME ThresholdAssumption == Hysteresis \in Nat /\ Cooldown \in Nat
ASSUME GPUAssumption       == NumGPUs \in Nat /\ NumGPUs >= 2
ASSUME FloorAssumption     == MinPrefill \in Nat \ {0} /\ MinDecode \in Nat \ {0}
ASSUME GapAssumption       == Gaps \subseteq Nat \ {0}
ASSUME SignalAssumption    == Signals \subseteq [ttft : Nat, tpot : Nat, depth : Nat]

VARIABLES
  pre, dec,     \* the sizes of the pools the decisions are applied to
  sinceFlip,    \* intervals since lastFlip, up to Cooldown
  pending,      \* Policy.pending: the pressure being waited out, or "none"
  sincePend     \* intervals since pendSince, up to Hysteresis

policyVars == <<sinceFlip, pending, sincePend>>
vars == <<pre, dec, policyVars>>

breachRatio == 100
stealRatio  == 50
idleRatio   == 40

\* The switch of Evaluate.
PressureIgnoresQueue(s) ==              \* mutant: the queue depth is not looked at
  CASE s.ttft >= breachRatio -> "dec2pre"
    [] s.tpot >= breachRatio /\ s.ttft < breachRatio -> "pre2dec"
    [] OTHER -> "none"
Pressure(s) ==
  LET prefillStarved == s.ttft >= breachRatio \/ s.depth > 0
      decodeStarved  == s.tpot >= breachRatio
  IN CASE prefillStarved -> "dec2pre"
       [] ~prefillStarved /\ decodeStarved ->
            IF s.ttft < stealRatio \/ s.tpot > s.ttft THEN "pre2dec" ELSE "none"
       [] ~prefillStarved /\ ~decodeStarved /\ s.ttft < idleRatio /\ s.tpot < idleRatio ->
            "pre2dec-idle"
       [] OTHER -> "none"

Capped(n, cap) == IF n < cap THEN n ELSE cap

\* The two ages a number of intervals later.
Older(dt) ==
  /\ sinceFlip' = Capped(sinceFlip + dt, Cooldown)
  /\ sincePend' = Capped(sincePend + dt, Hysteresis)

Cooling(dt) == sinceFlip + dt < Cooldown

\* Whether a pool keeps its floor when a worker is taken from it.
CanTakeOffByOne(n, floor) == n >= floor           \* mutant
CanTake(n, floor) == n - 1 >= floor

Moves(p) == IF p = "dec2pre" THEN CanTake(dec, MinDecode) ELSE CanTake(pre, MinPrefill)

-----------------------------------------------------------------------------
\* NewPolicy, for pools of any size NewDisaggregated may give them.
Init ==
  /\ pre \in 1 .. NumGPUs - 1 /\ dec = NumGPUs - pre
  /\ sinceFlip = Cooldown /\ pending = "none" /\ sincePend = 0

\* "cooldown": nothing is looked at.
Cool(dt) ==
  /\ Cooling(dt)
  /\ Older(dt)
  /\ UNCHANGED <<pre, dec, pending>>

\* "mixed-pressure"
HoldsPending(dt, s) ==                  \* mutant: what was pending stays pending
  /\ ~Cooling(dt) /\ Pressure(s) = "none"
  /\ Older(dt)
  /\ UNCHANGED <<pre, dec, pending>>
Hold(dt, s) ==
  /\ ~Cooling(dt) /\ Pressure(s) = "none"
  /\ pending' = "none"
  /\ Older(dt)
  /\ UNCHANGED <<pre, dec>>

\* "pressure-detected"
Detect(dt, s) ==
  /\ ~Cooling(dt) /\ Pressure(s) \notin {"none", pending}
  /\ pending' = Pressure(s)
  /\ sinceFlip' = Capped(sinceFlip + dt, Cooldown) /\ sincePend' = 0
  /\ UNCHANGED <<pre, dec>>

\* "hysteresis"
Wait(dt, s) ==
  /\ ~Cooling(dt) /\ Pressure(s) # "none" /\ Pressure(s) = pending
  /\ sincePend + dt < Hysteresis
  /\ Older(dt)
  /\ UNCHANGED <<pre, dec, pending>>

\* The pressure has lasted.
Sustained(dt, s) ==
  /\ ~Cooling(dt) /\ Pressure(s) # "none" /\ Pressure(s) = pending
  /\ sincePend + dt >= Hysteresis

\* "decode-floor", "prefill-floor": the pressure stays pending.
AtFloor(dt, s) ==
  /\ Sustained(dt, s) /\ ~Moves(pending)
  /\ Older(dt)
  /\ UNCHANGED <<pre, dec, pending>>

\* A worker moves.
FlipKeepsPending(dt, s) ==              \* mutant: the pressure is not used up
  /\ Sustained(dt, s) /\ Moves(pending)
  /\ IF pending = "dec2pre" THEN pre' = pre + 1 /\ dec' = dec - 1
                            ELSE pre' = pre - 1 /\ dec' = dec + 1
  /\ sinceFlip' = 0 /\ sincePend' = Capped(sincePend + dt, Hysteresis)
  /\ UNCHANGED pending
Flip(dt, s) ==
  /\ Sustained(dt, s) /\ Moves(pending)
  /\ IF pending = "dec2pre" THEN pre' = pre + 1 /\ dec' = dec - 1
                            ELSE pre' = pre - 1 /\ dec' = dec + 1
  /\ sinceFlip' = 0 /\ sincePend' = Capped(sincePend + dt, Hysteresis)
  /\ pending' = "none"

\* Evaluate, so many intervals after the last evaluation.
Evaluate(dt, s) ==
  \/ Cool(dt) \/ Hold(dt, s) \/ Detect(dt, s) \/ Wait(dt, s)
  \/ AtFloor(dt, s) \/ Flip(dt, s)

Next == \E dt \in Gaps, s \in Signals : Evaluate(dt, s)

Spec == Init /\ [][Next]_vars
=============================================================================
