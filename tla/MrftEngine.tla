----------------------------- MODULE MrftEngine -----------------------------
(***************************************************************************)
(* The relay-switching state machine of bhtune-core (mrft.rs) and what     *)
(* measure_oscillation (tuning_math.rs) demands of its result.             *)
(*                                                                         *)
(* A step gets a PV and the time since the tick before; both are free.     *)
(* Values are integers: an MV unit is the size of the smallest step that   *)
(* counts as a switch divided by Threshold, a PV unit is any, and beta is  *)
(* in percent, which keeps every comparison of the code exact.  Counters   *)
(* are u32 and i32 in the code and wrap at Word and Word \div 2 here.      *)
(***************************************************************************)
EXTENDS Integers, Sequences

CONSTANTS
    Configs,    \* the tests: LoopConfig, direction, beta, MV range and initial MV
    PVs,        \* the PVs a tick may carry
    PvIni,      \* pv_value_ini
    Threshold,  \* the 0.01 of mv_switch_required, in MV units
    MaxGap,     \* the longest time between two ticks
    Word        \* 2^32

\* What LoopConfig::validate and validate_initial_state accept.
Accepted ==
    [skip: Nat, count: Nat \ {0}, noise: Nat, amp: 1..50, beta: Nat, action: {1, -1},
     low: Int, high: Int, ini: Int]
Valid(c) == c \in Accepted /\ c.low < c.high /\ c.ini \in c.low..c.high

ASSUME ConfigsAssumption == \A c \in Configs : Valid(c)
ASSUME PvAssumption == PVs \subseteq Int /\ PvIni \in Int
ASSUME NumbersAssumption ==
    /\ Threshold \in Nat \ {0} /\ MaxGap \in Nat \ {0} /\ Word \in Nat
    /\ Word >= 2 /\ Word % 2 = 0

VARIABLES
    cfg,        \* what the engine was built with; never changes
    n,          \* counter_all_switches
    mv,         \* mv_value_current
    since,      \* tick time - time_previous_switch, up to the hold-off
    cycle,      \* max_pv_cycle and min_pv_cycle
    extremes,   \* max_pv_result and min_pv_result
    signInit,   \* mv_sign_init
    peaks, troughs,
    times,      \* switch_times.len()
    completed,
    seen,       \* history: the PVs since the last switch, its own included
    last        \* history: the PV of the last tick

vars == <<cfg, n, mv, since, cycle, extremes, signInit, peaks, troughs, times, completed, seen, last>>

Larger(a, b) == IF a >= b THEN a ELSE b
Smaller(a, b) == IF a <= b THEN a ELSE b
Signed(sign, a) == IF sign = 1 THEN a ELSE -a
Opposite(sign) == IF sign = 1 THEN -1 ELSE 1

\* Release builds wrap: u32 arithmetic, and i32 arithmetic on the cast.
U(k) == k % Word
I(k) == LET u == k % Word IN IF u < Word \div 2 THEN u ELSE u - Word
HalfTowardZero(k) == IF k >= 0 THEN k \div 2 ELSE -((-k) \div 2)

-----------------------------------------------------------------------------
(* Construction *)

\* Mutant of ClampRelayAmplitude: only the ceiling is looked at.
ClampToCeiling(c) ==
    LET raw == (c.amp * (c.high - c.low)) \div 100
    IN  IF c.ini + raw > c.high THEN c.high - c.ini ELSE raw

\* clamp_relay_amplitude
ClampRelayAmplitude(c) ==
    LET raw == (c.amp * (c.high - c.low)) \div 100
    IN  IF c.ini + raw > c.high THEN c.high - c.ini
        ELSE IF c.ini - raw < c.low THEN c.ini - c.low
        ELSE raw

RelayAmp == ClampRelayAmplitude(cfg)
SwitchesSkip == U(2 * cfg.skip + 1)

Init ==
    /\ cfg \in Configs
    /\ n = 0 /\ mv = cfg.ini /\ since = 0
    /\ cycle = [max |-> PvIni, min |-> PvIni]
    /\ extremes = [max |-> PvIni, min |-> PvIni]
    /\ signInit = 0
    /\ peaks = <<>> /\ troughs = <<>> /\ times = 0
    /\ completed = FALSE
    /\ seen = {PvIni} /\ last = PvIni

-----------------------------------------------------------------------------
(* One step *)

IsComplete(k) == k >= U(SwitchesSkip + U(2 * cfg.count))

\* Mutant of CyclesRemaining: the remainder is not rounded up.
CyclesRemainingFloor(k) == HalfTowardZero(I(SwitchesSkip + I(2 * cfg.count) - k))

CyclesRemaining(k) == HalfTowardZero(I(SwitchesSkip + I(2 * cfg.count) - k + 1))

Widen(range, pv) == [max |-> Larger(range.max, pv), min |-> Smaller(range.min, pv)]

\* The largest excursion of this half cycle, times beta in percent.
Hysteresis(range) == cfg.beta * Larger(range.max - PvIni, PvIni - range.min)

\* Which relay level the PV calls for: the error, shifted by the hysteresis
\* in the direction of the level that is on.
NextSign(pv, range) ==
    LET previous == IF mv >= cfg.ini THEN 1 ELSE -1
        diff == 100 * (PvIni - pv)
        valve == IF cfg.action = 1 THEN diff + Signed(previous, Hysteresis(range))
                 ELSE diff - Signed(previous, Hysteresis(range))
    IN  IF cfg.action = 1 THEN (IF valve >= 0 THEN 1 ELSE -1)
        ELSE (IF valve <= 0 THEN 1 ELSE -1)

\* mv_switch_required
Required(target) == target - mv >= Threshold \/ mv - target >= Threshold

\* Mutant of Hold: every tick restarts the hold-off.
HoldRestarting(sign, range, wide, gap) ==
    /\ cycle' = range
    /\ extremes' = wide
    /\ since' = 0
    /\ signInit' = IF n = 0 THEN sign ELSE signInit
    /\ UNCHANGED <<n, mv, peaks, troughs, times>>

\* The samples are looked at and nothing is switched.
Hold(sign, range, wide, gap) ==
    /\ cycle' = range
    /\ extremes' = wide
    /\ since' = Smaller(since + gap, cfg.noise)
    /\ signInit' = IF n = 0 THEN sign ELSE signInit
    /\ UNCHANGED <<n, mv, peaks, troughs, times>>

\* Mutant of Record: what is kept is the PV of the switch.
RecordSample(sign, wide, pv) ==
    IF U(n + 1) >= SwitchesSkip
    THEN /\ times' = times + 1
         /\ IF sign = cfg.action THEN peaks' = Append(peaks, pv) /\ UNCHANGED troughs
            ELSE troughs' = Append(troughs, pv) /\ UNCHANGED peaks
    ELSE UNCHANGED <<peaks, troughs, times>>

\* Mutant of Record: the direction of the controller is forgotten.
RecordBySign(sign, wide, pv) ==
    IF U(n + 1) >= SwitchesSkip
    THEN /\ times' = times + 1
         /\ IF sign = 1 THEN peaks' = Append(peaks, wide.max) /\ UNCHANGED troughs
            ELSE troughs' = Append(troughs, wide.min) /\ UNCHANGED peaks
    ELSE UNCHANGED <<peaks, troughs, times>>

\* After the skipped switches, the extreme of the half cycle this one closes.
Record(sign, wide, pv) ==
    IF U(n + 1) >= SwitchesSkip
    THEN /\ times' = times + 1
         /\ IF sign = cfg.action THEN peaks' = Append(peaks, wide.max) /\ UNCHANGED troughs
            ELSE troughs' = Append(troughs, wide.min) /\ UNCHANGED peaks
    ELSE UNCHANGED <<peaks, troughs, times>>

\* Mutant of PerformSwitch: the measurement starts again at the initial PV.
PerformSwitchFromIni(sign, wide, target, pv) ==
    /\ n' = U(n + 1)
    /\ since' = 0
    /\ signInit' = IF n = 0 THEN sign ELSE signInit
    /\ Record(sign, wide, pv)
    /\ cycle' = [max |-> PvIni, min |-> PvIni]
    /\ extremes' = [max |-> PvIni, min |-> PvIni]
    /\ mv' = IF CyclesRemaining(U(n + 1)) = 0 THEN cfg.ini ELSE target

\* perform_switch: the last one goes back to the initial MV.
PerformSwitch(sign, wide, target, pv) ==
    /\ n' = U(n + 1)
    /\ since' = 0
    /\ signInit' = IF n = 0 THEN sign ELSE signInit
    /\ Record(sign, wide, pv)
    /\ cycle' = [max |-> PvIni, min |-> PvIni]
    /\ extremes' = [max |-> pv, min |-> pv]
    /\ mv' = IF CyclesRemaining(U(n + 1)) = 0 THEN cfg.ini ELSE target

\* enable_mv_switch
Enabled(gap) == since + gap >= cfg.noise \/ n = 0

Step(pv, gap) ==
    /\ ~ completed
    /\ LET range == Widen(cycle, pv)
           wide == Widen(extremes, pv)
           sign == NextSign(pv, range)
           target == cfg.ini + Signed(sign, RelayAmp)
       IN  IF Required(target) /\ Enabled(gap)
           THEN PerformSwitch(sign, wide, target, pv) /\ seen' = {pv}
           ELSE Hold(sign, range, wide, gap) /\ seen' = seen \cup {pv}
    /\ completed' = IsComplete(n')
    /\ last' = pv
    /\ UNCHANGED cfg

\* A step after the end does nothing.
StepWhenCompleted == completed /\ UNCHANGED vars

Next ==
    \/ \E pv \in PVs, gap \in 1..MaxGap : Step(pv, gap)
    \/ StepWhenCompleted

Spec == Init /\ [][Next]_vars

-----------------------------------------------------------------------------
(* Properties *)

TypeOK ==
    /\ cfg \in Configs
    /\ n \in 0..(Word - 1)
    /\ mv \in Int
    /\ since \in 0..cfg.noise
    /\ cycle \in [max: Int, min: Int] /\ extremes \in [max: Int, min: Int]
    /\ signInit \in {-1, 0, 1}
    /\ peaks \in Seq(Int) /\ troughs \in Seq(Int) /\ times \in Nat
    /\ completed \in BOOLEAN
    /\ seen \subseteq Int /\ last \in Int

\* The first recorded switch goes where the very first switch went.
FirstIsPeak == signInit = cfg.action

\* What a finished test hands to measure_oscillation has the lengths it
\* asserts, so the calculation cannot panic.
CompleteIsMeasurable ==
    completed =>
        /\ times = 2 * cfg.count + 1
        /\ Len(peaks) = IF FirstIsPeak THEN cfg.count + 1 ELSE cfg.count
        /\ Len(troughs) = IF FirstIsPeak THEN cfg.count ELSE cfg.count + 1

\* The extremes are those of all the samples from one switch to the next, both
\* included, however sparse the polls and however long the PV stays on one
\* side of its initial value.
ExtremesAreTrue ==
    /\ extremes.max \in seen /\ extremes.min \in seen
    /\ \A pv \in seen : extremes.min <= pv /\ pv <= extremes.max

\* The peaks and troughs that measure_oscillation averages pair up so that no
\* pair is inverted: the measured amplitude, and with it Kp, is never negative.
PairedExtremes ==
    completed /\ CompleteIsMeasurable =>
        \A j \in 1..cfg.count :
            IF FirstIsPeak THEN peaks[j + 1] >= troughs[j] ELSE peaks[j] >= troughs[j + 1]

\* No command leaves the MV range.
MvInRange == mv \in cfg.low..cfg.high

\* The test as the polling loop sees it.
Total == 2 * cfg.skip + 1 + 2 * cfg.count
Level == IF mv = cfg.ini THEN "ini" ELSE IF mv > cfg.ini THEN "high" ELSE "low"
Relay == INSTANCE RelayTest WITH switches <- n, total <- Total, level <- Level

\* The engine sends exactly the commands the configuration asks for: levels
\* that alternate, and the initial MV as the last one and only there.
ImplementsRelay == Relay!Spec

\* No counter of the engine wraps.
NoWrap == \A c \in Configs : 2 * c.skip + 2 * c.count + 2 < Word \div 2

\* A test whose relay step is large enough to count, and whose PV keeps
\* swinging equally far to both sides, comes to its end: neither the hold-off
\* nor the hysteresis can keep it from switching for ever.
Farthest(side) == CHOOSE pv \in PVs : \A other \in PVs : side * pv >= side * other
SwingingTestEnds ==
    [](RelayAmp < Threshold) \/ ~ ([]<>(last = Farthest(1)) /\ []<>(last = Farthest(-1)))
=============================================================================
