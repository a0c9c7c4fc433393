-------------------------- MODULE MrftEngineProofs --------------------------
(***************************************************************************)
(* The engine's properties for every set of accepted configurations, every *)
(* PV and every tick time, provided that no counter wraps.  The argument:  *)
(* after the first switch the MV stands at one relay level, so the next    *)
(* command that is far enough from it to count is the other level; hence   *)
(* switches alternate, and the number of the switch fixes where the MV is, *)
(* whether a peak or a trough is recorded and how many of each there are.  *)
(***************************************************************************)
EXTENDS MrftEngine, TLAPS

\* The relay level switch k goes to.
SignOf(k) == IF k % 2 = 1 THEN signInit ELSE Opposite(signInit)
\* How many of the first k switches are recorded.
Recorded(k) == IF k > 2 * cfg.skip THEN k - 2 * cfg.skip ELSE 0

CounterOK == n \in 0..Total /\ (completed <=> n = Total)
RelayOK ==
    /\ n > 0 => RelayAmp >= Threshold /\ signInit \in {1, -1}
    /\ mv = IF n = 0 \/ n = Total THEN cfg.ini ELSE cfg.ini + Signed(SignOf(n), RelayAmp)
RecordOK ==
    /\ times = Recorded(n)
    /\ Len(peaks) = IF FirstIsPeak THEN (times + 1) \div 2 ELSE times \div 2
    /\ Len(troughs) = IF FirstIsPeak THEN times \div 2 ELSE (times + 1) \div 2
\* The half cycle under way and the extreme recorded last share a sample.
PairsOK ==
    /\ times > 0 /\ SignOf(n) = cfg.action => extremes.min <= peaks[Len(peaks)]
    /\ times > 0 /\ SignOf(n) # cfg.action => extremes.max >= troughs[Len(troughs)]
    /\ FirstIsPeak => \A j \in 1..Len(troughs) : j + 1 <= Len(peaks) => peaks[j + 1] >= troughs[j]
    /\ ~ FirstIsPeak => \A j \in 1..Len(peaks) : j + 1 <= Len(troughs) => peaks[j] >= troughs[j + 1]

IInv == TypeOK /\ CounterOK /\ RelayOK /\ RecordOK /\ PairsOK

-----------------------------------------------------------------------------
(* The operators *)

\* The clamped relay step fits the MV range in both directions: the two cases
\* of clamp_relay_amplitude exclude each other up to 50 percent.
LEMMA ClampFits ==
    ASSUME NEW c, Valid(c)
    PROVE  /\ ClampRelayAmplitude(c) \in Nat
           /\ c.ini + ClampRelayAmplitude(c) <= c.high
           /\ c.low <= c.ini - ClampRelayAmplitude(c)
<1> DEFINE span == c.high - c.low
           raw == (c.amp * span) \div 100
<1>1. c.amp \in 1..50 /\ c.low \in Int /\ c.high \in Int /\ c.ini \in Int
  BY DEF Valid, Accepted
<1>2. c.low < c.high /\ c.low <= c.ini /\ c.ini <= c.high /\ span \in Nat
  BY <1>1 DEF Valid
<1>3. c.amp * span \in Nat /\ c.amp * span <= 50 * span
  <2> HIDE DEF span
  <2>1. ASSUME NEW a \in 1..50, NEW s \in Nat PROVE a * s \in Nat /\ a * s <= 50 * s
    OBVIOUS
  <2> QED BY <1>1, <1>2, <2>1
<1>4. raw \in Nat /\ 2 * raw <= span
  <2> DEFINE prod == c.amp * span
  <2>1. prod \in Nat /\ prod <= 50 * span BY <1>3
  <2> HIDE DEF prod, span
  <2>2. prod \div 100 \in Nat /\ 2 * (prod \div 100) <= span BY <2>1, <1>2
  <2> QED BY <2>2 DEF prod
<1> HIDE DEF raw
<1>5. ClampRelayAmplitude(c) = IF c.ini + raw > c.high THEN c.high - c.ini
                               ELSE IF c.ini - raw < c.low THEN c.ini - c.low ELSE raw
  BY DEF ClampRelayAmplitude, raw
<1> QED BY <1>1, <1>2, <1>4, <1>5

\* What is known of the configuration of a run.
LEMMA ConfigFacts ==
    ASSUME NoWrap, cfg \in Configs
    PROVE  /\ cfg.skip \in Nat /\ cfg.count \in Nat /\ cfg.count >= 1 /\ cfg.noise \in Nat
           /\ cfg.beta \in Nat /\ cfg.action \in {1, -1}
           /\ cfg.low \in Int /\ cfg.high \in Int /\ cfg.ini \in Int
           /\ RelayAmp \in Nat
           /\ cfg.ini + RelayAmp <= cfg.high /\ cfg.low <= cfg.ini - RelayAmp
           /\ Total \in Nat /\ Total >= 3 /\ Total + 1 < Word \div 2
           /\ Total = 2 * cfg.skip + 1 + 2 * cfg.count
<1>1. Valid(cfg) BY ConfigsAssumption
<1>2. 2 * cfg.skip + 2 * cfg.count + 2 < Word \div 2 BY DEF NoWrap
<1>3. cfg.skip \in Nat /\ cfg.count \in Nat /\ cfg.count >= 1
  BY <1>1 DEF Valid, Accepted
<1> QED BY <1>1, <1>2, <1>3, ClampFits, NumbersAssumption DEF Valid, Accepted, RelayAmp, Total

\* Without wrapping the counters are plain numbers.
LEMMA PlainCounters ==
    ASSUME NoWrap, cfg \in Configs, NEW k \in Nat, k <= Total
    PROVE  /\ U(k) = k
           /\ SwitchesSkip = 2 * cfg.skip + 1
           /\ IsComplete(k) <=> k = Total
           /\ CyclesRemaining(k) = 0 <=> k = Total
<1>1. /\ cfg.skip \in Nat /\ cfg.count \in Nat
      /\ Total = 2 * cfg.skip + 1 + 2 * cfg.count
      /\ Total \in Nat /\ Total + 1 < Word \div 2
  BY ConfigFacts
<1>2. Word \in Nat /\ Word >= 2 /\ Word \div 2 \in Nat /\ 2 * (Word \div 2) <= Word
  BY NumbersAssumption
<1>3. ASSUME NEW m \in Nat, m < Word \div 2 PROVE U(m) = m /\ I(m) = m
  BY <1>2, <1>3 DEF U, I
<1>4. SwitchesSkip = 2 * cfg.skip + 1
  <2>1. 2 * cfg.skip + 1 \in Nat /\ 2 * cfg.skip + 1 < Word \div 2 BY <1>1, <1>2
  <2> QED BY <2>1, <1>3 DEF SwitchesSkip
<1>5. U(2 * cfg.count) = 2 * cfg.count /\ I(2 * cfg.count) = 2 * cfg.count
  <2>1. 2 * cfg.count \in Nat /\ 2 * cfg.count < Word \div 2 BY <1>1, <1>2
  <2> QED BY <2>1, <1>3
<1>6. U(Total) = Total BY <1>1, <1>2, <1>3
<1>7. IsComplete(k) <=> k = Total
  BY <1>1, <1>4, <1>5, <1>6 DEF IsComplete
<1>8. CyclesRemaining(k) = 0 <=> k = Total
  <2> DEFINE left == Total - k + 1
  <2>1. left \in Nat /\ left < Word \div 2 /\ left >= 1 BY <1>1, <1>2
  <2>2. CyclesRemaining(k) = HalfTowardZero(left)
    <3>1. SwitchesSkip + I(2 * cfg.count) - k + 1 = left BY <1>1, <1>4, <1>5
    <3> QED BY <3>1, <2>1, <1>3 DEF CyclesRemaining
  <2>3. HalfTowardZero(left) = left \div 2 BY <2>1 DEF HalfTowardZero
  <2>4. left \div 2 = 0 <=> left = 1
    <3> HIDE DEF left
    <3> QED BY <2>1
  <2>5. left = 1 <=> k = Total BY <1>1
  <2> QED BY <2>2, <2>3, <2>4, <2>5
<1> QED BY <1>1, <1>2, <1>3, <1>4, <1>7, <1>8

-----------------------------------------------------------------------------
(* The two things a step can do *)

Holds(pv, gap) ==
    \E sign \in {1, -1} :
        Hold(sign, Widen(cycle, pv), Widen(extremes, pv), gap) /\ seen' = seen \cup {pv}
SwitchesTo(sign, pv) ==
    /\ Required(cfg.ini + Signed(sign, RelayAmp))
    /\ PerformSwitch(sign, Widen(extremes, pv), cfg.ini + Signed(sign, RelayAmp), pv)
    /\ seen' = {pv}

\* A step holds or switches to one of the relay levels.
LEMMA StepHoldsOrSwitches ==
    ASSUME NEW pv, NEW gap, Step(pv, gap)
    PROVE  /\ ~ completed /\ completed' = IsComplete(n') /\ last' = pv /\ cfg' = cfg
           /\ Holds(pv, gap) \/ \E sign \in {1, -1} : SwitchesTo(sign, pv)
<1> DEFINE sign == NextSign(pv, Widen(cycle, pv))
<1>1. sign \in {1, -1} BY DEF NextSign
<1> HIDE DEF sign
<1>2. IF Required(cfg.ini + Signed(sign, RelayAmp)) /\ Enabled(gap)
      THEN SwitchesTo(sign, pv)
      ELSE Hold(sign, Widen(cycle, pv), Widen(extremes, pv), gap) /\ seen' = seen \cup {pv}
  BY Zenon DEF Step, SwitchesTo, sign
<1>3. ~ completed /\ completed' = IsComplete(n') /\ last' = pv /\ cfg' = cfg BY DEF Step
<1> QED BY <1>1, <1>2, <1>3 DEF Holds

\* Switch n + 1 goes to the level the ones before it fix, and only it can end
\* the test.
LEMMA SwitchFacts ==
    ASSUME NoWrap, IInv, ~ completed, NEW pv, NEW sign \in {1, -1}, SwitchesTo(sign, pv), cfg' = cfg
    PROVE  /\ n \in Nat /\ n < Total /\ n' = n + 1
           /\ RelayAmp >= Threshold /\ RelayAmp \in Nat /\ RelayAmp' = RelayAmp
           /\ signInit' \in {1, -1}
           /\ n > 0 => signInit' = signInit
           /\ sign = SignOf(n)' 
           /\ mv' = IF n' = Total THEN cfg.ini ELSE cfg.ini + Signed(sign, RelayAmp)
<1> DEFINE target == cfg.ini + Signed(sign, RelayAmp)
<1>1. /\ RelayAmp \in Nat /\ cfg.ini \in Int /\ Total \in Nat /\ Total >= 3
      /\ cfg \in Configs
  BY ConfigFacts DEF IInv, TypeOK
<1>2. n \in Nat /\ n < Total BY <1>1 DEF IInv, CounterOK
<1>3. n' = n + 1 /\ (CyclesRemaining(U(n + 1)) = 0 <=> n + 1 = Total)
  <2>1. U(n + 1) = n + 1 /\ (CyclesRemaining(n + 1) = 0 <=> n + 1 = Total)
    BY <1>1, <1>2, PlainCounters
  <2> QED BY <2>1 DEF SwitchesTo, PerformSwitch
<1>4. mv' = IF n' = Total THEN cfg.ini ELSE target
  BY <1>3 DEF SwitchesTo, PerformSwitch
<1>5. signInit' = IF n = 0 THEN sign ELSE signInit BY DEF SwitchesTo, PerformSwitch
<1>6. Required(target) BY DEF SwitchesTo
<1>7. RelayAmp' = RelayAmp BY DEF RelayAmp
<1>8. CASE n = 0
  <2>1. mv = cfg.ini BY <1>8 DEF IInv, RelayOK
  <2>2. RelayAmp >= Threshold
    BY <1>1, <1>6, <2>1, NumbersAssumption DEF Required, Signed
  <2>3. SignOf(n)' = sign BY <1>3, <1>5, <1>8 DEF SignOf
  <2> QED BY <1>1, <1>2, <1>3, <1>4, <1>5, <1>7, <1>8, <2>2, <2>3
<1>9. CASE n > 0
  <2>1. mv = cfg.ini + Signed(SignOf(n), RelayAmp) /\ RelayAmp >= Threshold /\ signInit \in {1, -1}
    BY <1>2, <1>9 DEF IInv, RelayOK
  <2>2. sign # SignOf(n)
    <3> SUFFICES ASSUME sign = SignOf(n) PROVE FALSE OBVIOUS
    <3>1. target = mv /\ mv \in Int BY <2>1, <1>1 DEF Signed
    <3> QED BY <3>1, <1>6, NumbersAssumption DEF Required
  <2>3. SignOf(n)' = sign
    BY <1>2, <1>3, <1>5, <1>9, <2>1, <2>2 DEF SignOf, Opposite
  <2> QED BY <1>1, <1>2, <1>3, <1>4, <1>5, <1>7, <1>9, <2>1, <2>3
<1> QED BY <1>2, <1>8, <1>9

-----------------------------------------------------------------------------
(* The invariant is inductive *)

LEMMA InitIInv == NoWrap /\ Init => IInv
<1> SUFFICES ASSUME NoWrap, Init PROVE IInv OBVIOUS
<1>1. /\ cfg \in Configs /\ cfg.noise \in Nat /\ cfg.ini \in Int /\ Total \in Nat /\ Total >= 3
      /\ cfg.action \in {1, -1} /\ cfg.skip \in Nat
  BY ConfigFacts DEF Init
<1>2. Word \in Nat /\ Word >= 2 /\ PvIni \in Int BY NumbersAssumption, PvAssumption
<1>3. TypeOK
  <2>1. n \in 0..(Word - 1) /\ since \in 0..cfg.noise /\ mv \in Int BY <1>1, <1>2 DEF Init
  <2>2. cycle \in [max: Int, min: Int] /\ extremes \in [max: Int, min: Int]
    BY <1>2 DEF Init
  <2>3. peaks \in Seq(Int) /\ troughs \in Seq(Int) /\ times \in Nat /\ signInit \in {-1, 0, 1}
    BY DEF Init
  <2>4. seen \subseteq Int /\ last \in Int /\ completed \in BOOLEAN BY <1>2 DEF Init
  <2> QED BY <1>1, <2>1, <2>2, <2>3, <2>4 DEF TypeOK
<1>4. CounterOK /\ RelayOK BY <1>1 DEF Init, CounterOK, RelayOK
<1>5. times = 0 /\ peaks = <<>> /\ troughs = <<>> /\ Len(peaks) = 0 /\ Len(troughs) = 0 BY DEF Init
<1>6. RecordOK BY <1>1, <1>5 DEF Init, RecordOK, Recorded
<1>7. PairsOK
  <2>1. 1..Len(peaks) = {} /\ 1..Len(troughs) = {} /\ ~ (times > 0) BY <1>5
  <2> QED BY <2>1 DEF PairsOK
<1> QED BY <1>3, <1>4, <1>6, <1>7 DEF IInv

\* Every step widens the extremes to the PV it saw.
LEMMA WidenFacts ==
    ASSUME NEW r \in [max: Int, min: Int], NEW pv \in Int
    PROVE  /\ Widen(r, pv) \in [max: Int, min: Int]
           /\ Widen(r, pv).max >= r.max /\ Widen(r, pv).max >= pv
           /\ Widen(r, pv).min <= r.min /\ Widen(r, pv).min <= pv
BY DEF Widen, Larger, Smaller

\* The extreme recorded last is where the last switch says.
LEMMA LastRecorded ==
    ASSUME cfg \in Configs, NoWrap, n \in Nat, n > 0, times > 0, RecordOK, signInit \in {1, -1}
    PROVE  /\ times \in Nat /\ times = n - 2 * cfg.skip
           /\ SignOf(n) = cfg.action <=> (FirstIsPeak <=> times % 2 = 1)
           /\ SignOf(n) = cfg.action => Len(peaks) > 0
           /\ SignOf(n) # cfg.action => Len(troughs) > 0
<1>1. cfg.skip \in Nat /\ cfg.action \in {1, -1} BY ConfigFacts
<1>2. times \in Nat /\ times = n - 2 * cfg.skip BY <1>1 DEF RecordOK, Recorded
<1>3. times % 2 = n % 2 BY <1>1, <1>2
<1>4. SignOf(n) = cfg.action <=> (FirstIsPeak <=> times % 2 = 1)
  BY <1>1, <1>3 DEF SignOf, Opposite, FirstIsPeak
<1>5. times % 2 = 1 \/ (times % 2 = 0 /\ times >= 2) BY <1>2
<1>6. (times + 1) \div 2 >= 1 /\ (times % 2 = 0 => times \div 2 >= 1) BY <1>2, <1>5
<1>7. CASE SignOf(n) = cfg.action
  BY <1>2, <1>4, <1>5, <1>6, <1>7 DEF RecordOK
<1>8. CASE SignOf(n) # cfg.action
  BY <1>2, <1>4, <1>5, <1>6, <1>8 DEF RecordOK
<1> QED BY <1>7, <1>8

LEMMA HoldKeepsIInv ==
    ASSUME NoWrap, IInv, ~ completed, NEW pv \in PVs, NEW gap \in 1..MaxGap, Holds(pv, gap),
           completed' = IsComplete(n'), last' = pv, cfg' = cfg
    PROVE  IInv'
<1> PICK sign \in {1, -1} :
        Hold(sign, Widen(cycle, pv), Widen(extremes, pv), gap) /\ seen' = seen \cup {pv}
  BY DEF Holds
<1> USE DEF IInv
<1>1. /\ n' = n /\ mv' = mv /\ peaks' = peaks /\ troughs' = troughs /\ times' = times
      /\ cycle' = Widen(cycle, pv) /\ extremes' = Widen(extremes, pv)
      /\ since' = Smaller(since + gap, cfg.noise)
      /\ signInit' = IF n = 0 THEN sign ELSE signInit
  BY DEF Hold
<1>2. /\ cfg \in Configs /\ cfg.noise \in Nat /\ Total \in Nat /\ Total >= 3 /\ cfg.skip \in Nat
      /\ Total' = Total /\ RelayAmp' = RelayAmp
  BY ConfigFacts DEF TypeOK, Total, RelayAmp
<1>3. /\ pv \in Int /\ gap \in Nat /\ since \in Nat /\ seen \subseteq Int
      /\ cycle \in [max: Int, min: Int] /\ extremes \in [max: Int, min: Int]
  BY <1>2, PvAssumption, NumbersAssumption DEF TypeOK
<1>4. /\ cycle' \in [max: Int, min: Int] /\ extremes' \in [max: Int, min: Int]
      /\ extremes'.max >= extremes.max /\ extremes'.min <= extremes.min
  BY <1>1, <1>3, WidenFacts
<1>5. n \in Nat /\ n < Total BY <1>2 DEF CounterOK
<1>6. completed' = (n = Total) /\ completed' \in BOOLEAN
  <2>1. IsComplete(n) <=> n = Total BY <1>2, <1>5, PlainCounters
  <2>2. completed' = IsComplete(n)' /\ IsComplete(n)' = IsComplete(n)
    BY <1>1 DEF IsComplete, SwitchesSkip
  <2> QED BY <2>1, <2>2 DEF IsComplete
<1>7. TypeOK'
  <2>1. since' \in 0..cfg.noise BY <1>1, <1>2, <1>3 DEF Smaller
  <2>2. seen' \subseteq Int /\ last' \in Int BY <1>3
  <2>3. signInit' \in {-1, 0, 1} BY <1>1 DEF TypeOK
  <2> QED BY <1>1, <1>2, <1>4, <1>6, <2>1, <2>2, <2>3 DEF TypeOK
<1>8. CounterOK' BY <1>1, <1>2, <1>5, <1>6 DEF CounterOK
<1>9. CASE n = 0
  <2>1. times = 0 /\ Len(peaks) = 0 /\ Len(troughs) = 0
    BY <1>2, <1>9 DEF RecordOK, Recorded
  <2>2. RelayOK' BY <1>1, <1>2, <1>9 DEF RelayOK
  <2>3. RecordOK' BY <1>1, <1>2, <1>9, <2>1 DEF RecordOK, Recorded
  <2>4. PairsOK' BY <1>1, <2>1 DEF PairsOK
  <2> QED BY <1>7, <1>8, <2>2, <2>3, <2>4
<1>10. CASE n > 0
  <2>1. signInit' = signInit BY <1>1, <1>10
  <2>2. SignOf(n)' = SignOf(n) /\ FirstIsPeak' = FirstIsPeak /\ Recorded(n)' = Recorded(n)
    BY <1>1, <2>1 DEF SignOf, FirstIsPeak, Recorded
  <2>3. RelayOK' BY <1>1, <1>2, <2>1, <2>2 DEF RelayOK
  <2>4. RecordOK' BY <1>1, <2>2 DEF RecordOK
  <2>5. PairsOK'
    <3>1. peaks \in Seq(Int) /\ troughs \in Seq(Int) /\ times \in Nat BY DEF TypeOK
    <3>2. signInit \in {1, -1} BY <1>10 DEF RelayOK
    <3>3. /\ times > 0 /\ SignOf(n) = cfg.action => Len(peaks) > 0
          /\ times > 0 /\ SignOf(n) # cfg.action => Len(troughs) > 0
      BY <1>2, <1>5, <1>10, <3>2, LastRecorded
    <3>4. /\ times > 0 /\ SignOf(n) = cfg.action => peaks[Len(peaks)] \in Int
          /\ times > 0 /\ SignOf(n) # cfg.action => troughs[Len(troughs)] \in Int
      BY <3>1, <3>3
    <3>5. /\ times > 0 /\ SignOf(n) = cfg.action => extremes'.min <= peaks[Len(peaks)]
          /\ times > 0 /\ SignOf(n) # cfg.action => extremes'.max >= troughs[Len(troughs)]
      BY <1>3, <1>4, <3>4 DEF PairsOK
    <3> QED BY <1>1, <2>2, <3>5 DEF PairsOK
  <2> QED BY <1>7, <1>8, <2>3, <2>4, <2>5
<1> QED BY <1>5, <1>9, <1>10

LEMMA Halves ==
    ASSUME NEW t \in Nat
    PROVE  /\ t % 2 \in {0, 1}
           /\ (t + 1) % 2 = 1 <=> t % 2 = 0
           /\ t % 2 = 0 => (t + 1) \div 2 = t \div 2 /\ (t + 2) \div 2 = t \div 2 + 1
           /\ t % 2 = 1 => (t + 1) \div 2 = t \div 2 + 1 /\ (t + 2) \div 2 = t \div 2 + 1
           /\ t % 2 = 1 => t > 0
           /\ t \div 2 \in Nat /\ (t \div 2 > 0 => t > 0)
OBVIOUS

LEMMA SwitchKeepsIInv ==
    ASSUME NoWrap, IInv, ~ completed, NEW pv \in PVs, NEW sign \in {1, -1}, SwitchesTo(sign, pv),
           completed' = IsComplete(n'), last' = pv, cfg' = cfg
    PROVE  IInv'
<1> USE DEF IInv
<1> DEFINE wide == Widen(extremes, pv)
<1>1. /\ cfg \in Configs /\ cfg.noise \in Nat /\ cfg.skip \in Nat /\ cfg.action \in {1, -1}
      /\ cfg.ini \in Int /\ Total \in Nat /\ Total >= 3 /\ Total + 1 < Word \div 2
      /\ Total' = Total
  BY ConfigFacts DEF TypeOK, Total
<1>2. /\ n \in Nat /\ n < Total /\ n' = n + 1
      /\ RelayAmp >= Threshold /\ RelayAmp \in Nat /\ RelayAmp' = RelayAmp
      /\ signInit' \in {1, -1}
      /\ n > 0 => signInit' = signInit
      /\ sign = SignOf(n)'
      /\ mv' = IF n' = Total THEN cfg.ini ELSE cfg.ini + Signed(sign, RelayAmp)
  BY SwitchFacts
<1>3. pv \in Int /\ PvIni \in Int BY PvAssumption
<1>4. /\ extremes \in [max: Int, min: Int] /\ wide \in [max: Int, min: Int]
      /\ wide.max >= extremes.max /\ wide.max >= pv
      /\ wide.min <= extremes.min /\ wide.min <= pv
  BY <1>3, WidenFacts DEF TypeOK
<1>5. /\ cycle' = [max |-> PvIni, min |-> PvIni] /\ extremes' = [max |-> pv, min |-> pv]
      /\ since' = 0 /\ seen' = {pv} /\ Record(sign, wide, pv)
  BY DEF SwitchesTo, PerformSwitch
<1>6. U(n + 1) >= SwitchesSkip <=> n + 1 > 2 * cfg.skip
  <2>1. U(n + 1) = n + 1 /\ SwitchesSkip = 2 * cfg.skip + 1 BY <1>1, <1>2, PlainCounters
  <2> QED BY <2>1, <1>1, <1>2
<1>7. peaks \in Seq(Int) /\ troughs \in Seq(Int) /\ times \in Nat BY DEF TypeOK
<1>8. CounterOK' /\ completed' \in BOOLEAN
  <2>1. IsComplete(n + 1) <=> n + 1 = Total BY <1>1, <1>2, PlainCounters
  <2>2. completed' = IsComplete(n + 1)
    BY <1>2 DEF IsComplete, SwitchesSkip
  <2>3. completed' \in BOOLEAN /\ (completed' <=> n' = Total)
    <3>1. IsComplete(n + 1) \in BOOLEAN BY DEF IsComplete
    <3>2. n' = Total <=> n + 1 = Total BY <1>2
    <3> QED BY <2>1, <2>2, <3>1, <3>2, Zenon
  <2>4. n' \in 0..Total BY <1>1, <1>2
  <2> QED BY <2>3, <2>4, <1>1 DEF CounterOK
<1>9. RelayOK'
  <2>1. n' > 0 BY <1>2
  <2> QED BY <2>1, <1>1, <1>2 DEF RelayOK
<1>10. ASSUME peaks' \in Seq(Int), troughs' \in Seq(Int), times' \in Nat PROVE TypeOK'
  <2>1. n' \in 0..(Word - 1) BY <1>1, <1>2, NumbersAssumption
  <2>2. mv' \in Int BY <1>1, <1>2 DEF Signed
  <2>3. since' \in 0..cfg.noise /\ cycle' \in [max: Int, min: Int]
        /\ extremes' \in [max: Int, min: Int] BY <1>1, <1>3, <1>5
  <2>4. seen' \subseteq Int /\ last' \in Int BY <1>3, <1>5
  <2> QED BY <1>1, <1>2, <1>8, <1>10, <2>1, <2>2, <2>3, <2>4 DEF TypeOK
<1>11. CASE ~ (n + 1 > 2 * cfg.skip)
  <2>1. peaks' = peaks /\ troughs' = troughs /\ times' = times
    BY <1>5, <1>6, <1>11 DEF Record
  <2>2. times = 0 /\ Len(peaks) = 0 /\ Len(troughs) = 0
    BY <1>1, <1>2, <1>11 DEF RecordOK, Recorded
  <2>3. RecordOK' BY <1>1, <1>2, <1>11, <2>1, <2>2 DEF RecordOK, Recorded
  <2>4. PairsOK' BY <2>1, <2>2 DEF PairsOK
  <2> QED BY <1>7, <1>8, <1>9, <1>10, <2>1, <2>3, <2>4
<1>12. CASE n + 1 > 2 * cfg.skip
  <2>1. times = n - 2 * cfg.skip /\ times' = times + 1 /\ times' \in Nat
    <3>1. times = n - 2 * cfg.skip BY <1>1, <1>2, <1>12 DEF RecordOK, Recorded
    <3>2. times' = times + 1 BY <1>5, <1>6, <1>12 DEF Record
    <3> QED BY <1>7, <3>1, <3>2
  <2>2. Recorded(n)' = times' BY <1>1, <1>2, <1>12, <2>1 DEF Recorded
  <2>3. n = 0 => times = 0 BY <1>1, <2>1
  <2>4. FirstIsPeak' <=> signInit' = cfg.action BY DEF FirstIsPeak
  <2>5. /\ Len(peaks) = IF FirstIsPeak' THEN (times + 1) \div 2 ELSE times \div 2
        /\ Len(troughs) = IF FirstIsPeak' THEN times \div 2 ELSE (times + 1) \div 2
    BY <1>2, <2>3, <2>4 DEF RecordOK, FirstIsPeak
  <2>6. sign = cfg.action <=> (FirstIsPeak' <=> times' % 2 = 1)
    <3>1. times' % 2 = n' % 2 BY <1>1, <1>2, <2>1
    <3> QED BY <1>1, <1>2, <2>4, <3>1 DEF SignOf, Opposite
  <2>7. ASSUME times > 0
        PROVE  /\ signInit' = signInit /\ FirstIsPeak' = FirstIsPeak
               /\ sign = cfg.action => Len(troughs) > 0 /\ extremes.max >= troughs[Len(troughs)]
               /\ sign # cfg.action => Len(peaks) > 0 /\ extremes.min <= peaks[Len(peaks)]
    <3>1. n > 0 /\ signInit' = signInit /\ signInit \in {1, -1} BY <1>1, <1>2, <2>1, <2>7
    <3>2. sign = cfg.action <=> SignOf(n) # cfg.action
      BY <1>1, <1>2, <3>1 DEF SignOf, Opposite
    <3>3. /\ SignOf(n) = cfg.action => Len(peaks) > 0
          /\ SignOf(n) # cfg.action => Len(troughs) > 0
      BY <1>1, <1>2, <2>7, <3>1, LastRecorded
    <3> QED BY <2>7, <3>1, <3>2, <3>3 DEF PairsOK, FirstIsPeak
  <2>8. /\ times % 2 \in {0, 1}
        /\ sign = cfg.action <=> (FirstIsPeak' <=> times % 2 = 0)
        /\ times % 2 = 0 => (times + 1) \div 2 = times \div 2
                            /\ (times' + 1) \div 2 = times \div 2 + 1
        /\ times % 2 = 1 => (times + 1) \div 2 = times \div 2 + 1
                            /\ (times' + 1) \div 2 = times \div 2 + 1
        /\ times' \div 2 = (times + 1) \div 2
        /\ times % 2 = 1 => times > 0
        /\ times \div 2 \in Nat /\ (times \div 2 > 0 => times > 0)
    <3>1. times' + 1 = times + 2 BY <1>7, <2>1
    <3>2. times' % 2 = 1 <=> times % 2 = 0 BY <1>7, <2>1, Halves
    <3> QED BY <1>7, <2>1, <2>6, <3>1, <3>2, Halves
  <2>9. CASE sign = cfg.action
    <3>1. peaks' = Append(peaks, wide.max) /\ troughs' = troughs
      BY <1>5, <1>6, <1>12, <2>9 DEF Record
    <3>2. wide.max \in Int BY <1>4
    <3>3. /\ peaks' \in Seq(Int) /\ Len(peaks') = Len(peaks) + 1
          /\ peaks'[Len(peaks')] = wide.max
          /\ \A j \in 1..Len(peaks) : peaks'[j] = peaks[j]
      BY <1>7, <3>1, <3>2
    <3>4. RecordOK'
      <4>1. CASE FirstIsPeak' BY <2>1, <2>2, <2>5, <2>8, <2>9, <3>1, <3>3, <4>1 DEF RecordOK
      <4>2. CASE ~ FirstIsPeak' BY <2>1, <2>2, <2>5, <2>8, <2>9, <3>1, <3>3, <4>2 DEF RecordOK
      <4> QED BY <4>1, <4>2
    <3>5. PairsOK'
      <4>1. extremes'.min <= peaks'[Len(peaks')] BY <1>3, <1>4, <1>5, <3>3
      <4>2. SignOf(n)' = cfg.action BY <1>2, <2>9
      <4>3. ASSUME FirstIsPeak', NEW j \in 1..Len(troughs), j + 1 <= Len(peaks')
            PROVE  peaks'[j + 1] >= troughs[j]
        <5>1. times > 0 /\ Len(peaks) = Len(troughs)
          <6>1. times % 2 = 0 BY <2>8, <2>9, <4>3
          <6>2. Len(peaks) = Len(troughs) BY <2>5, <2>8, <4>3, <6>1
          <6>3. Len(troughs) = times \div 2 BY <2>5, <4>3
          <6>4. Len(troughs) > 0 BY <1>7, <4>3
          <6>5. times > 0
            <7> DEFINE half == times \div 2
            <7>1. half > 0 => times > 0 BY <2>8
            <7>2. Len(troughs) = half BY <6>3
            <7> HIDE DEF half
            <7> QED BY <6>4, <7>1, <7>2
          <6> QED BY <6>2, <6>5
        <5>2. CASE j = Len(troughs)
          BY <1>4, <1>7, <2>7, <2>9, <3>3, <5>1, <5>2
        <5>3. CASE j < Len(troughs)
          <6>1. j + 1 \in 1..Len(peaks) /\ j + 1 <= Len(peaks) BY <1>7, <5>1, <5>3
          <6>2. FirstIsPeak BY <2>7, <4>3, <5>1
          <6>3. peaks[j + 1] >= troughs[j] BY <6>1, <6>2 DEF PairsOK
          <6> QED BY <3>3, <6>1, <6>3
        <5> QED BY <1>7, <5>2, <5>3
      <4>4. ASSUME ~ FirstIsPeak', NEW j \in 1..Len(peaks'), j + 1 <= Len(troughs)
            PROVE  peaks'[j] >= troughs[j + 1]
        <5>1. times > 0 /\ Len(troughs) = Len(peaks) + 1
          <6>1. times % 2 = 1 BY <2>8, <2>9, <4>4
          <6>2. Len(troughs) = Len(peaks) + 1 BY <2>5, <2>8, <4>4, <6>1
          <6> QED BY <1>7, <2>8, <4>4, <6>1, <6>2
        <5>2. j \in 1..Len(peaks) BY <1>7, <3>3, <4>4, <5>1
        <5> QED BY <1>7, <2>7, <3>3, <4>4, <5>1, <5>2 DEF PairsOK
      <4> QED BY <3>1, <4>1, <4>2, <4>3, <4>4 DEF PairsOK
    <3> QED BY <1>7, <1>8, <1>9, <1>10, <2>1, <3>1, <3>3, <3>4, <3>5
  <2>10. CASE sign # cfg.action
    <3>1. troughs' = Append(troughs, wide.min) /\ peaks' = peaks
      BY <1>5, <1>6, <1>12, <2>10 DEF Record
    <3>2. wide.min \in Int BY <1>4
    <3>3. /\ troughs' \in Seq(Int) /\ Len(troughs') = Len(troughs) + 1
          /\ troughs'[Len(troughs')] = wide.min
          /\ \A j \in 1..Len(troughs) : troughs'[j] = troughs[j]
      BY <1>7, <3>1, <3>2
    <3>4. RecordOK'
      <4>1. CASE FirstIsPeak' BY <2>1, <2>2, <2>5, <2>8, <2>10, <3>1, <3>3, <4>1 DEF RecordOK
      <4>2. CASE ~ FirstIsPeak' BY <2>1, <2>2, <2>5, <2>8, <2>10, <3>1, <3>3, <4>2 DEF RecordOK
      <4> QED BY <4>1, <4>2
    <3>5. PairsOK'
      <4>1. extremes'.max >= troughs'[Len(troughs')] BY <1>3, <1>4, <1>5, <3>3
      <4>2. SignOf(n)' # cfg.action BY <1>2, <2>10
      <4>3. ASSUME ~ FirstIsPeak', NEW j \in 1..Len(peaks), j + 1 <= Len(troughs')
            PROVE  peaks[j] >= troughs'[j + 1]
        <5>1. times > 0 /\ Len(troughs) = Len(peaks)
          <6>1. times % 2 = 0 BY <2>8, <2>10, <4>3
          <6>2. Len(troughs) = Len(peaks) BY <2>5, <2>8, <4>3, <6>1
          <6>3. Len(peaks) = times \div 2 BY <2>5, <4>3
          <6>4. Len(peaks) > 0 BY <1>7, <4>3
          <6>5. times > 0
            <7> DEFINE half == times \div 2
            <7>1. half > 0 => times > 0 BY <2>8
            <7>2. Len(peaks) = half BY <6>3
            <7> HIDE DEF half
            <7> QED BY <6>4, <7>1, <7>2
          <6> QED BY <6>2, <6>5
        <5>2. CASE j = Len(peaks)
          BY <1>4, <1>7, <2>7, <2>10, <3>3, <5>1, <5>2
        <5>3. CASE j < Len(peaks)
          <6>1. j + 1 \in 1..Len(troughs) /\ j + 1 <= Len(troughs) BY <1>7, <5>1, <5>3
          <6>2. ~ FirstIsPeak BY <2>7, <4>3, <5>1
          <6>3. peaks[j] >= troughs[j + 1] BY <6>1, <6>2 DEF PairsOK
          <6> QED BY <3>3, <6>1, <6>3
        <5> QED BY <1>7, <5>2, <5>3
      <4>4. ASSUME FirstIsPeak', NEW j \in 1..Len(troughs'), j + 1 <= Len(peaks)
            PROVE  peaks[j + 1] >= troughs'[j]
        <5>1. times > 0 /\ Len(peaks) = Len(troughs) + 1
          <6>1. times % 2 = 1 BY <2>8, <2>10, <4>4
          <6>2. Len(peaks) = Len(troughs) + 1 BY <2>5, <2>8, <4>4, <6>1
          <6> QED BY <1>7, <2>8, <4>4, <6>1, <6>2
        <5>2. j \in 1..Len(troughs) BY <1>7, <3>3, <4>4, <5>1
        <5> QED BY <1>7, <2>7, <3>3, <4>4, <5>1, <5>2 DEF PairsOK
      <4> QED BY <3>1, <4>1, <4>2, <4>3, <4>4 DEF PairsOK
    <3> QED BY <1>7, <1>8, <1>9, <1>10, <2>1, <3>1, <3>3, <3>4, <3>5
  <2> QED BY <2>9, <2>10
<1> QED BY <1>11, <1>12

LEMMA NextKeepsIInv == NoWrap /\ IInv /\ [Next]_vars => IInv'
<1> SUFFICES ASSUME NoWrap, IInv, [Next]_vars PROVE IInv' OBVIOUS
<1>1. CASE UNCHANGED vars
  BY <1>1 DEF vars, IInv, TypeOK, CounterOK, RelayOK, RecordOK, PairsOK, RelayAmp, Total, Recorded,
              SignOf, FirstIsPeak
<1>2. ASSUME NEW pv \in PVs, NEW gap \in 1..MaxGap, Step(pv, gap) PROVE IInv'
  <2>1. /\ ~ completed /\ completed' = IsComplete(n') /\ last' = pv /\ cfg' = cfg
        /\ Holds(pv, gap) \/ \E sign \in {1, -1} : SwitchesTo(sign, pv)
    BY <1>2, StepHoldsOrSwitches
  <2>2. CASE Holds(pv, gap) BY <2>1, <2>2, HoldKeepsIInv
  <2>3. ASSUME NEW sign \in {1, -1}, SwitchesTo(sign, pv) PROVE IInv'
    BY <2>1, <2>3, SwitchKeepsIInv
  <2> QED BY <2>1, <2>2, <2>3
<1>3. CASE StepWhenCompleted BY <1>1, <1>3 DEF StepWhenCompleted
<1> QED BY <1>1, <1>2, <1>3 DEF Next

LEMMA InvariantHolds ==
    ASSUME NoWrap PROVE Spec => []IInv
<1>1. IInv /\ [Next]_vars => IInv' BY NextKeepsIInv
<1>2. Init => IInv BY InitIInv
<1> QED BY <1>1, <1>2, PTL DEF Spec

-----------------------------------------------------------------------------
(* The results *)

\* Every reachable state of the engine is well typed.
THEOREM EngineTypeCorrect ==
    ASSUME NoWrap PROVE Spec => []TypeOK
<1>1. IInv => TypeOK BY DEF IInv
<1> QED BY <1>1, InvariantHolds, PTL

\* measure_oscillation never meets lengths it panics on.
THEOREM MeasurementNeverPanics ==
    ASSUME NoWrap PROVE Spec => []CompleteIsMeasurable
<1>1. IInv => CompleteIsMeasurable
  <2> SUFFICES ASSUME IInv, completed
               PROVE  /\ times = 2 * cfg.count + 1
                      /\ Len(peaks) = IF FirstIsPeak THEN cfg.count + 1 ELSE cfg.count
                      /\ Len(troughs) = IF FirstIsPeak THEN cfg.count ELSE cfg.count + 1
    BY DEF CompleteIsMeasurable
  <2>1. cfg.skip \in Nat /\ cfg.count \in Nat /\ Total = 2 * cfg.skip + 1 + 2 * cfg.count
    BY ConfigFacts DEF IInv, TypeOK
  <2>2. n = Total BY DEF IInv, CounterOK
  <2>3. times = 2 * cfg.count + 1 BY <2>1, <2>2 DEF IInv, RecordOK, Recorded
  <2>4. ASSUME NEW c \in Nat PROVE (2 * c + 1) \div 2 = c /\ (2 * c + 1 + 1) \div 2 = c + 1
    OBVIOUS
  <2>5. times \div 2 = cfg.count /\ (times + 1) \div 2 = cfg.count + 1 BY <2>1, <2>3, <2>4
  <2> QED BY <2>3, <2>5 DEF IInv, RecordOK
<1> QED BY <1>1, InvariantHolds, PTL

\* The measured amplitude of a finished test is never negative.
THEOREM AmplitudeNeverNegative ==
    ASSUME NoWrap PROVE Spec => []PairedExtremes
<1>1. IInv => PairedExtremes
  <2> SUFFICES ASSUME IInv, completed, CompleteIsMeasurable, NEW j \in 1..cfg.count
               PROVE  IF FirstIsPeak THEN peaks[j + 1] >= troughs[j] ELSE peaks[j] >= troughs[j + 1]
    BY DEF PairedExtremes
  <2>1. cfg.count \in Nat BY ConfigFacts DEF IInv, TypeOK
  <2>2. CASE FirstIsPeak
    <3>1. j \in 1..Len(troughs) /\ j + 1 <= Len(peaks) BY <2>1, <2>2 DEF CompleteIsMeasurable
    <3> QED BY <2>2, <3>1 DEF IInv, PairsOK
  <2>3. CASE ~ FirstIsPeak
    <3>1. j \in 1..Len(peaks) /\ j + 1 <= Len(troughs) BY <2>1, <2>3 DEF CompleteIsMeasurable
    <3> QED BY <2>3, <3>1 DEF IInv, PairsOK
  <2> QED BY <2>2, <2>3
<1> QED BY <1>1, InvariantHolds, PTL

\* No relay step leaves the MV range, whatever the amplitude asked for and
\* wherever in the range the MV was found.
THEOREM MvStaysInRange ==
    ASSUME NoWrap PROVE Spec => []MvInRange
<1>1. IInv => MvInRange
  <2> SUFFICES ASSUME IInv PROVE mv \in cfg.low..cfg.high BY DEF MvInRange
  <2>1. /\ cfg.low \in Int /\ cfg.high \in Int /\ cfg.ini \in Int /\ RelayAmp \in Nat
        /\ cfg.ini + RelayAmp <= cfg.high /\ cfg.low <= cfg.ini - RelayAmp
    BY ConfigFacts DEF IInv, TypeOK
  <2> QED BY <2>1 DEF IInv, RelayOK, Signed
<1> QED BY <1>1, InvariantHolds, PTL

\* The engine implements the relay test that the polling loop relies on.
THEOREM EngineImplementsRelay ==
    ASSUME NoWrap PROVE Spec => ImplementsRelay
<1>1. Init => Relay!Init
  <2> SUFFICES ASSUME Init PROVE Relay!Init OBVIOUS
  <2>1. Total \in Nat /\ Total >= 3 BY ConfigFacts DEF Init
  <2> QED BY <2>1 DEF Init, Relay!Init, Level
<1>2. IInv /\ [Next]_vars => [Relay!Switch]_Relay!rvars
  <2> SUFFICES ASSUME IInv, [Next]_vars PROVE [Relay!Switch]_Relay!rvars OBVIOUS
  <2>1. CASE UNCHANGED vars BY <2>1 DEF vars, Relay!rvars, Total, Level
  <2>2. ASSUME NEW pv \in PVs, NEW gap \in 1..MaxGap, Step(pv, gap)
        PROVE  [Relay!Switch]_Relay!rvars
    <3>1. ~ completed /\ cfg' = cfg /\ (Holds(pv, gap) \/ \E sign \in {1, -1} : SwitchesTo(sign, pv))
      BY <2>2, StepHoldsOrSwitches
    <3>2. Total' = Total BY <3>1 DEF Total
    <3>3. CASE Holds(pv, gap)
      <4>1. n' = n /\ mv' = mv BY <3>3 DEF Holds, Hold
      <4> QED BY <3>1, <3>2, <4>1 DEF Relay!rvars, Level
    <3>4. ASSUME NEW sign \in {1, -1}, SwitchesTo(sign, pv) PROVE Relay!Switch
      <4>1. /\ n \in Nat /\ n < Total /\ n' = n + 1
            /\ RelayAmp >= Threshold /\ RelayAmp \in Nat
            /\ signInit' \in {1, -1} /\ (n > 0 => signInit' = signInit)
            /\ sign = SignOf(n)'
            /\ mv' = IF n' = Total THEN cfg.ini ELSE cfg.ini + Signed(sign, RelayAmp)
        BY <3>1, <3>4, SwitchFacts
      <4>2. cfg.ini \in Int /\ Threshold \in Nat \ {0} /\ Total \in Nat
        BY ConfigFacts, NumbersAssumption DEF IInv, TypeOK
      <4>3. n + 1 = Total => Level' = "ini" BY <3>1, <4>1 DEF Level
      <4>4. n + 1 # Total => Level' = IF sign = 1 THEN "high" ELSE "low"
        BY <3>1, <4>1, <4>2 DEF Level, Signed
      <4>5. n = 0 => Level = "ini" BY DEF IInv, RelayOK, Level
      <4>6. n > 0 => Level = IF SignOf(n) = 1 THEN "high" ELSE "low"
        BY <4>1, <4>2 DEF IInv, RelayOK, Level, Signed
      <4>7. n > 0 => sign # SignOf(n) /\ SignOf(n) \in {1, -1}
        BY <4>1 DEF SignOf, Opposite
      <4>8. n + 1 # Total => Level' \in {"high", "low"} \ {Level}
        BY <4>1, <4>4, <4>5, <4>6, <4>7
      <4> QED BY <3>2, <4>1, <4>3, <4>8 DEF Relay!Switch
    <3> QED BY <3>1, <3>3, <3>4
  <2>3. CASE StepWhenCompleted BY <2>1, <2>3 DEF StepWhenCompleted
  <2> QED BY <2>1, <2>2, <2>3 DEF Next
<1> QED BY <1>1, <1>2, InvariantHolds, PTL DEF Spec, ImplementsRelay, Relay!Spec

\* The extremes are those of every sample of the half cycle, ends included.
THEOREM ExtremesNeverMiss ==
    ASSUME NoWrap PROVE Spec => []ExtremesAreTrue
<1>1. Init => ExtremesAreTrue BY PvAssumption DEF Init, ExtremesAreTrue
<1>2. IInv /\ ExtremesAreTrue /\ [Next]_vars => ExtremesAreTrue'
  <2> SUFFICES ASSUME IInv, ExtremesAreTrue, [Next]_vars PROVE ExtremesAreTrue' OBVIOUS
  <2>1. CASE UNCHANGED vars BY <2>1 DEF vars, ExtremesAreTrue
  <2>2. ASSUME NEW pv \in PVs, NEW gap \in 1..MaxGap, Step(pv, gap) PROVE ExtremesAreTrue'
    <3>1. Holds(pv, gap) \/ \E sign \in {1, -1} : SwitchesTo(sign, pv)
      BY <2>2, StepHoldsOrSwitches
    <3>2. pv \in Int /\ extremes \in [max: Int, min: Int] /\ seen \subseteq Int
      BY PvAssumption DEF IInv, TypeOK
    <3>3. CASE Holds(pv, gap)
      <4>1. extremes' = Widen(extremes, pv) /\ seen' = seen \cup {pv} BY <3>3 DEF Holds, Hold
      <4>2. extremes'.max \in seen' /\ extremes'.min \in seen'
        BY <3>2, <4>1 DEF Widen, Larger, Smaller, ExtremesAreTrue
      <4>3. ASSUME NEW q \in seen' PROVE extremes'.min <= q /\ q <= extremes'.max
        <5>1. CASE q = pv BY <3>2, <4>1, <5>1, WidenFacts
        <5>2. CASE q \in seen
          <6>1. q \in Int /\ extremes.min <= q /\ q <= extremes.max
            BY <3>2, <5>2 DEF ExtremesAreTrue
          <6>2. /\ extremes'.min <= extremes.min /\ extremes.max <= extremes'.max
                /\ extremes'.min \in Int /\ extremes'.max \in Int
            BY <3>2, <4>1, WidenFacts
          <6> QED BY <3>2, <6>1, <6>2
        <5> QED BY <4>1, <4>3, <5>1, <5>2
      <4> QED BY <4>2, <4>3 DEF ExtremesAreTrue
    <3>4. ASSUME NEW sign \in {1, -1}, SwitchesTo(sign, pv) PROVE ExtremesAreTrue'
      <4>1. extremes' = [max |-> pv, min |-> pv] /\ seen' = {pv}
        BY <3>4 DEF SwitchesTo, PerformSwitch
      <4> QED BY <3>2, <4>1 DEF ExtremesAreTrue
    <3> QED BY <3>1, <3>3, <3>4
  <2>3. CASE StepWhenCompleted BY <2>1, <2>3 DEF StepWhenCompleted
  <2> QED BY <2>1, <2>2, <2>3 DEF Next
<1> QED BY <1>1, <1>2, InvariantHolds, PTL DEF Spec
=============================================================================
