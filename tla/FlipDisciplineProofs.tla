------------------------ MODULE FlipDisciplineProofs ------------------------
(***************************************************************************)
(* For every hysteresis, cooldown, floor, signal and evaluation times: two *)
(* flips are at least Cooldown + Hysteresis apart, no pool is emptied, and *)
(* a flip's pressure has lasted for Hysteresis.                            *)
(*                                                                         *)
(* FlipsSpaced needs two facts about the policy's memory: the age it keeps *)
(* is the age of the last flip (AgeTrue), and whatever is pending has been *)
(* pending only since the cooldown was over (PendingAfterCooldown).        *)
(***************************************************************************)
EXTENDS FlipDiscipline, TLAPS

\* The switch yields one of the pressures.
LEMMA PressureType == \A s \in Signals : Pressure(s) \in Pressures
BY DEF Pressure, Pressures

LEMMA SpacingInit == InitH => SpacingInv
<1> SUFFICES ASSUME InitH PROVE SpacingInv
  OBVIOUS
<1> USE ThresholdAssumption, GPUAssumption DEF InitH, Init
<1>1. TypeOK
  BY DEF TypeOK, Pressures
<1>2. AgeTrue /\ PendingAfterCooldown /\ FlipsSpaced
  BY DEF AgeTrue, PendingAfterCooldown, FlipsSpaced, Capped
<1> QED
  BY <1>1, <1>2 DEF SpacingInv

\* A step in which no worker moves, and that leaves the pending pressure with an
\* age it may have.
LEMMA SpacingQuiet ==
  ASSUME SpacingInv, NEW dt \in Gaps, NEW s \in Signals,
         pre' = pre, dec' = dec, Record(dt, s),
         sinceFlip' = Capped(sinceFlip + dt, Cooldown),
         pending' \in Pressures, sincePend' \in 0 .. Hysteresis,
         pending' # "none" => Capped(apart + dt, Cooldown + Hysteresis)
                                >= Cooldown + sincePend'
  PROVE  SpacingInv'
<1> USE ThresholdAssumption, GPUAssumption, GapAssumption
<1>1. /\ apart' = Capped(apart + dt, Cooldown + Hysteresis) /\ gap' = gap
      /\ last' = s /\ lasted' \in -1 .. Hysteresis
  BY DEF Record, Flips, SpacingInv, TypeOK, Capped
<1>2. TypeOK'
  BY <1>1 DEF SpacingInv, TypeOK, Capped
<1>3. AgeTrue'
  BY <1>1 DEF SpacingInv, TypeOK, AgeTrue, Capped
<1>4. PendingAfterCooldown' /\ FlipsSpaced'
  BY <1>1 DEF SpacingInv, PendingAfterCooldown, FlipsSpaced
<1> QED
  BY <1>2, <1>3, <1>4 DEF SpacingInv

\* A worker moves: the flip is far enough from the last one, and both pools
\* keep a worker.
LEMMA SpacingFlip ==
  ASSUME SpacingInv, NEW dt \in Gaps, NEW s \in Signals, Flip(dt, s), Record(dt, s)
  PROVE  /\ SpacingInv'
         /\ pre' < pre => pre' >= MinPrefill
         /\ dec' < dec => dec' >= MinDecode
<1> USE ThresholdAssumption, GPUAssumption, GapAssumption, FloorAssumption
<1>1. /\ pending # "none" /\ Flips /\ sincePend + dt >= Hysteresis
      /\ pre' \in 1 .. NumGPUs - 1 /\ dec' = NumGPUs - pre'
      /\ pre' < pre => pre' >= MinPrefill
      /\ dec' < dec => dec' >= MinDecode
  BY DEF Flip, Sustained, Moves, CanTake, Flips, SpacingInv, TypeOK
<1>2. apart + dt >= Cooldown + Hysteresis
  BY <1>1 DEF SpacingInv, TypeOK, PendingAfterCooldown
<1>3. /\ apart' = 0 /\ gap' = Cooldown + Hysteresis /\ last' = s
      /\ lasted' \in -1 .. Hysteresis
  BY <1>1, <1>2 DEF Record, SpacingInv, TypeOK, Capped
<1>4. sinceFlip' = 0 /\ pending' = "none" /\ sincePend' \in 0 .. Hysteresis
  BY DEF Flip, SpacingInv, TypeOK, Capped
<1>5. TypeOK'
  BY <1>1, <1>3, <1>4 DEF TypeOK, Pressures
<1>6. AgeTrue' /\ PendingAfterCooldown' /\ FlipsSpaced'
  BY <1>3, <1>4 DEF AgeTrue, PendingAfterCooldown, FlipsSpaced, Capped
<1> QED
  BY <1>1, <1>5, <1>6 DEF SpacingInv

LEMMA SpacingEvaluate ==
  ASSUME SpacingInv, NEW dt \in Gaps, NEW s \in Signals, Evaluate(dt, s), Record(dt, s)
  PROVE  SpacingInv'
<1> USE ThresholdAssumption, GPUAssumption, GapAssumption
<1>0. /\ pending \in Pressures /\ sincePend \in 0 .. Hysteresis
      /\ sinceFlip \in 0 .. Cooldown /\ apart \in 0 .. Cooldown + Hysteresis
      /\ sinceFlip = Capped(apart, Cooldown)
      /\ pending # "none" => apart >= Cooldown + sincePend
  BY DEF SpacingInv, TypeOK, AgeTrue, PendingAfterCooldown
<1>1. /\ Capped(sincePend + dt, Hysteresis) \in 0 .. Hysteresis
      /\ pending # "none" =>
           Capped(apart + dt, Cooldown + Hysteresis)
             >= Cooldown + Capped(sincePend + dt, Hysteresis)
  BY <1>0 DEF Capped
<1>2. ~Cooling(dt) => Capped(apart + dt, Cooldown + Hysteresis) >= Cooldown
  BY <1>0 DEF Cooling, Capped
<1>3. CASE Cool(dt)
  BY <1>0, <1>1, <1>3, SpacingQuiet DEF Cool, Older
<1>4. CASE Hold(dt, s)
  BY <1>0, <1>1, <1>4, SpacingQuiet DEF Hold, Older, Pressures
<1>5. CASE Detect(dt, s)
  <2>1. pending' \in Pressures /\ sincePend' = 0 /\ ~Cooling(dt)
    BY <1>5, PressureType DEF Detect
  <2> QED
    BY <1>2, <1>5, <2>1, SpacingQuiet DEF Detect
<1>6. CASE Wait(dt, s)
  BY <1>0, <1>1, <1>6, SpacingQuiet DEF Wait, Older
<1>7. CASE AtFloor(dt, s)
  BY <1>0, <1>1, <1>7, SpacingQuiet DEF AtFloor, Older
<1>8. CASE Flip(dt, s)
  BY <1>8, SpacingFlip
<1> QED
  BY <1>3, <1>4, <1>5, <1>6, <1>7, <1>8 DEF Evaluate

LEMMA SpacingStep == SpacingInv /\ [NextH]_<<vars, histVars>> => SpacingInv'
<1> SUFFICES ASSUME SpacingInv, [NextH]_<<vars, histVars>> PROVE SpacingInv'
  OBVIOUS
<1>1. ASSUME NEW dt \in Gaps, NEW s \in Signals, Evaluate(dt, s), Record(dt, s)
      PROVE  SpacingInv'
  BY <1>1, SpacingEvaluate
<1>2. CASE UNCHANGED <<vars, histVars>>
  BY <1>2 DEF vars, policyVars, histVars, SpacingInv, TypeOK, AgeTrue,
              PendingAfterCooldown, FlipsSpaced
<1> QED
  BY <1>1, <1>2 DEF NextH

\* Two flips are never closer than cooldown and hysteresis together.
THEOREM FlipsSpacedHolds == SpecH => []FlipsSpaced
<1>1. SpacingInv => FlipsSpaced
  BY DEF SpacingInv
<1> QED
  BY SpacingInit, SpacingStep, <1>1, PTL DEF SpecH

\* Flips conserve the workers, empty no pool and respect the floors.
THEOREM FloorsKeptHolds == SpecH => FloorsKept
<1> DEFINE Kept == /\ pre' + dec' = NumGPUs /\ pre' > 0 /\ dec' > 0
                   /\ pre' < pre => pre' >= MinPrefill
                   /\ dec' < dec => dec' >= MinDecode
<1>0. SpacingInv' => pre' + dec' = NumGPUs /\ pre' > 0 /\ dec' > 0
  <2>1. SpacingInv' => pre' \in 1 .. NumGPUs - 1 /\ dec' = NumGPUs - pre'
    BY DEF SpacingInv, TypeOK
  <2> QED
    BY <2>1, GPUAssumption
<1>1. SpacingInv /\ SpacingInv' /\ [NextH]_<<vars, histVars>> => [Kept]_vars
  <2> SUFFICES ASSUME SpacingInv, SpacingInv', [NextH]_<<vars, histVars>>, vars' # vars
               PROVE  Kept
    OBVIOUS
  <2>1. pre' + dec' = NumGPUs /\ pre' > 0 /\ dec' > 0
    BY <1>0
  <2>2. PICK dt \in Gaps, s \in Signals : Evaluate(dt, s) /\ Record(dt, s)
    BY DEF NextH
  <2>3. CASE Flip(dt, s)
    BY <2>1, <2>2, <2>3, SpacingFlip
  <2>4. CASE pre' = pre /\ dec' = dec
    BY <2>1, <2>4 DEF SpacingInv, TypeOK
  <2> QED
    BY <2>2, <2>3, <2>4 DEF Evaluate, Cool, Hold, Detect, Wait, AtFloor
<1> QED
  BY SpacingInit, SpacingStep, <1>1, PTL DEF SpecH, FloorsKept

-----------------------------------------------------------------------------
(* Persistence: the policy's own count of how long the pending pressure has *)
(* lasted never runs ahead of the evaluations that really showed it.  An    *)
(* evaluation during the cooldown looks at no signal, and would break the   *)
(* count, but nothing is pending then.                                      *)

LEMMA NothingPendingWhileCooling ==
  ASSUME SpacingInv, NEW dt \in Gaps, Cooling(dt)
  PROVE  pending = "none"
<1> USE ThresholdAssumption, GapAssumption
<1>1. /\ apart \in Nat /\ sinceFlip = Capped(apart, Cooldown) /\ sincePend \in Nat
      /\ dt \in Nat /\ pending # "none" => apart >= Cooldown + sincePend
  BY DEF SpacingInv, TypeOK, AgeTrue, PendingAfterCooldown
<1> QED
  BY <1>1 DEF Cooling, Capped

LEMMA SeenEvaluate ==
  ASSUME SpacingInv, PendingSeen, NEW dt \in Gaps, NEW s \in Signals,
         Evaluate(dt, s), Record(dt, s)
  PROVE  PendingSeen'
<1> USE ThresholdAssumption, GapAssumption
<1>1. /\ sincePend \in 0 .. Hysteresis /\ lasted \in -1 .. Hysteresis /\ dt \in Nat
      /\ last' = s
  BY DEF SpacingInv, TypeOK, Record
<1>2. lasted' >= 0
  BY <1>1 DEF Record, Capped
<1>3. CASE Cool(dt)
  <2>1. pending = "none"
    BY <1>3, NothingPendingWhileCooling DEF Cool
  <2> QED
    BY <1>3, <2>1 DEF Cool, PendingSeen
<1>4. CASE Hold(dt, s) \/ Flip(dt, s)
  BY <1>4 DEF Hold, Flip, PendingSeen
<1>5. CASE Detect(dt, s)
  BY <1>1, <1>2, <1>5 DEF Detect, PendingSeen
<1>6. CASE Wait(dt, s) \/ AtFloor(dt, s)
  <2>1. /\ pending' = pending /\ pending # "none" /\ Pressure(s) = pending
        /\ sincePend' = Capped(sincePend + dt, Hysteresis)
    BY <1>6 DEF Wait, AtFloor, Sustained, Older
  <2>2. Pressure(last) = Pressure(s) /\ lasted >= sincePend /\ lasted >= 0
    BY <1>1, <2>1 DEF PendingSeen
  <2>3. lasted' = Capped(lasted + dt, Hysteresis)
    BY <2>2 DEF Record
  <2> QED
    BY <1>1, <2>1, <2>2, <2>3 DEF PendingSeen, Capped
<1> QED
  BY <1>3, <1>4, <1>5, <1>6 DEF Evaluate

LEMMA SeenStep ==
  SpacingInv /\ PendingSeen /\ [NextH]_<<vars, histVars>> => PendingSeen'
<1> SUFFICES ASSUME SpacingInv, PendingSeen, [NextH]_<<vars, histVars>> PROVE PendingSeen'
  OBVIOUS
<1>1. CASE NextH
  BY <1>1, SeenEvaluate DEF NextH
<1>2. CASE UNCHANGED <<vars, histVars>>
  BY <1>2 DEF vars, policyVars, histVars, PendingSeen
<1> QED
  BY <1>1, <1>2

\* A worker moves only for a pressure that every evaluation of the last Hysteresis
\* intervals has shown, whatever the signals, gaps and thresholds.
THEOREM FlipsSustainedHolds == SpecH => FlipsSustained
<1> USE ThresholdAssumption, GPUAssumption, GapAssumption
<1> DEFINE Lasted == Flips => /\ lasted' >= Hysteresis
                              /\ Pressure(last') = IF pre' > pre THEN "dec2pre" ELSE pending
<1>1. InitH => PendingSeen
  BY DEF InitH, Init, PendingSeen
<1>2. SpacingInv /\ PendingSeen /\ [NextH]_<<vars, histVars>> => [Lasted]_<<vars, histVars>>
  <2> SUFFICES ASSUME SpacingInv, PendingSeen, NextH, Flips
               PROVE  /\ lasted' >= Hysteresis
                      /\ Pressure(last') = IF pre' > pre THEN "dec2pre" ELSE pending
    BY DEF Flips, vars
  <2>1. PICK dt \in Gaps, s \in Signals : Evaluate(dt, s) /\ Record(dt, s)
    BY DEF NextH
  <2>2. Flip(dt, s)
    BY <2>1 DEF Flips, Evaluate, Cool, Hold, Detect, Wait, AtFloor
  <2>3. /\ pending # "none" /\ Pressure(s) = pending /\ sincePend + dt >= Hysteresis
        /\ sincePend \in Nat /\ lasted \in Int /\ dt \in Nat /\ last' = s
    BY <2>1, <2>2 DEF Flip, Sustained, SpacingInv, TypeOK, Record
  <2>4. Pressure(last) = Pressure(s) /\ lasted >= sincePend /\ lasted >= 0
    BY <2>3 DEF PendingSeen
  <2>5. lasted' = Capped(lasted + dt, Hysteresis)
    BY <2>1, <2>4 DEF Record
  <2>6. lasted' >= Hysteresis
    BY <2>3, <2>4, <2>5 DEF Capped
  <2>7. pre' > pre => pending = "dec2pre"
    BY <2>2 DEF Flip, SpacingInv, TypeOK
  <2> QED
    BY <2>3, <2>6, <2>7
<1> QED
  BY SpacingInit, SpacingStep, SeenStep, <1>1, <1>2, PTL DEF SpecH, FlipsSustained
=============================================================================
