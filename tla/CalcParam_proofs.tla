--------------------------- MODULE CalcParam_proofs ---------------------------
(***************************************************************************)
(* Theorems about CalcParam and IcuTimers, for every set of parameters     *)
(* that messages and EEPROM may carry and every input frequency below      *)
(* 2^27 Hz.  Only MinRpmSafe and InputsAlikeSafe need the board's, and     *)
(* cite IcuTimersAssumption for it.                                        *)
(***************************************************************************)
EXTENDS IcuTimers, TLAPS

(* A quotient of natural numbers is a natural number, not above the dividend. *)
LEMMA QuotientBound ==
  ASSUME NEW a \in Nat, NEW b \in Nat \ {0}
  PROVE  /\ a \div b \in Nat
         /\ a \div b <= a
  BY SMTT(30)

(* Rounding to 24 bits moves a number by at most 4 below 2^27.               *)
LEMMA ToFloatBound ==
  ASSUME NEW x \in Nat, x < 134217728
  PROVE  /\ ToFloat(x) \in Nat
         /\ ToFloat(x) <= 134217728
<1>1. CASE x < 16777216
  BY <1>1, SMTT(30) DEF ToFloat, Ulp
<1>2. CASE 16777216 <= x /\ x < 33554432
  BY <1>2, SMTT(30) DEF ToFloat, Ulp
<1>3. CASE 33554432 <= x /\ x < 67108864
  BY <1>3, SMTT(30) DEF ToFloat, Ulp
<1>4. CASE 67108864 <= x
  BY <1>4, SMTT(30) DEF ToFloat, Ulp
<1> QED
  BY <1>1, <1>2, <1>3, <1>4, SMT

LEMMA ParamFields ==
  ASSUME NEW u \in Params
  PROVE  /\ u.minRpm \in Nat
         /\ u.maxRpm \in Nat
         /\ u.magnets \in Nat
         /\ u.nbMotors \in Nat
<1>1. /\ MinRpms \subseteq Nat /\ MaxRpms \subseteq Nat
      /\ Magnets \subseteq Nat /\ MotorCounts \subseteq Nat
  BY CalcParamAssumption, SMT
<1>2. /\ u.minRpm \in MinRpms /\ u.maxRpm \in MaxRpms
      /\ u.magnets \in Magnets /\ u.nbMotors \in MotorCounts
  BY SMT DEF Params
<1> QED
  BY <1>1, <1>2

LEMMA FreqType ==
  ASSUME NEW u \in Params
  PROVE  FreqAtMinRpm(u) \in Nat
<1>1. u.minRpm * u.magnets \in Nat
  BY ParamFields
<1> QED
  BY <1>1, QuotientBound DEF FreqAtMinRpm

(* No configuration calls for a divider above 2048.                          *)
LEMMA TimDividerBound ==
  ASSUME NEW u \in Params
  PROVE  TimDivider(u) \in Nat /\ TimDivider(u) <= 2048
<1>1. TickAtMinRpm(u) \in Nat /\ TickAtMinRpm(u) < 134217728
  <2>1. CASE FreqAtMinRpm(u) = 0
    BY <2>1, SMT DEF TickAtMinRpm
  <2>2. CASE FreqAtMinRpm(u) # 0
    <3>1. FreqAtMinRpm(u) \in Nat \ {0}
      BY <2>2, FreqType, SMT
    <3>2. TimerFreqIn \in Nat /\ TimerFreqIn < 134217728
      BY CalcParamAssumption, SMT
    <3>3. /\ TimerFreqIn \div FreqAtMinRpm(u) \in Nat
          /\ TimerFreqIn \div FreqAtMinRpm(u) <= TimerFreqIn
      BY <3>1, <3>2, QuotientBound, SMT
    <3> QED
      BY <2>2, <3>2, <3>3, SMT DEF TickAtMinRpm
  <2> QED
    BY <2>1, <2>2, SMT
<1>2. ToFloat(TickAtMinRpm(u)) \in Nat /\ ToFloat(TickAtMinRpm(u)) <= 134217728
  BY <1>1, ToFloatBound, SMT
<1> QED
  BY <1>2, SMT DEF TimDivider, Range16

LEMMA WidthType ==
  ASSUME NEW div \in Nat \ {0}, NEW magnets \in Nat \ {0}
  PROVE  WidthOneRpmHall(div, magnets) \in Nat
<1> DEFINE d == div * magnets
<1>1. d \in Nat \ {0}
  <2>1. d >= 1
    BY SMTT(30)
  <2> QED
    BY <2>1
<1>2. TimerFreqIn \in Nat
  BY CalcParamAssumption, SMT
<1> HIDE DEF d
<1>3. TimerFreqIn \div d \in Nat /\ TimerFreqIn % d \in Nat
  BY <1>1, <1>2, QuotientBound
<1>4. (60 * (TimerFreqIn % d)) \div d \in Nat
  BY <1>1, <1>3, QuotientBound
<1>5. 60 * (TimerFreqIn \div d) + (60 * (TimerFreqIn % d)) \div d \in Nat
  BY <1>3, <1>4
<1> QED
  BY <1>5 DEF WidthOneRpmHall, d

(* What cache() leaves behind has the right types and a divider of at most   *)
(* 2048; when it accepts, the divider is at least 1.                         *)
LEMMA CachedType ==
  ASSUME NEW u \in Params, NEW c \in CalculatedParams, c.timDivider <= 2048
  PROVE  /\ Cached(u, c) \in CalculatedParams
         /\ Cached(u, c).timDivider <= 2048
         /\ Accepts(u) => Cached(u, c).timDivider >= 1
<1>1. TimDivider(u) \in Nat /\ TimDivider(u) <= 2048
  BY TimDividerBound
<1>2. CASE BadNumbers(u)
  BY <1>2 DEF Cached, Accepts
<1>3. CASE ~BadNumbers(u) /\ (BadDivider(u) \/ BadSpan(u))
  <2>1. Cached(u, c) = [c EXCEPT !.timDivider = TimDivider(u)]
    BY <1>3 DEF Cached
  <2>2. ~Accepts(u)
    BY <1>3 DEF Accepts
  <2> QED
    BY <1>1, <2>1, <2>2 DEF CalculatedParams
<1>4. CASE ~BadNumbers(u) /\ ~BadDivider(u) /\ ~BadSpan(u)
  <2>1. TimDivider(u) \in Nat \ {0} /\ u.magnets \in Nat \ {0}
    BY <1>1, <1>4, ParamFields, SMT DEF BadDivider, BadNumbers
  <2>2. WidthOneRpmHall(TimDivider(u), u.magnets) \in Nat
    BY <2>1, WidthType
  <2>3. Cached(u, c) = [timDivider |-> TimDivider(u),
                        width      |-> WidthOneRpmHall(TimDivider(u), u.magnets)]
    BY <1>4 DEF Cached
  <2> QED
    BY <1>1, <2>1, <2>2, <2>3 DEF CalculatedParams
<1> QED
  BY <1>2, <1>3, <1>4

(* A divider up to 2048 survives the conversions of setDivider().            *)
LEMMA PrescalerExact ==
  ASSUME NEW d \in Nat, 1 <= d, d <= 2048, NEW r \in ClockRatios
  PROVE  Prescaler(d, r) + 1 = d * r
<1>1. r = 1 \/ r = 2
  BY DEF ClockRatios
<1> QED
  BY <1>1, SMT DEF Prescaler, Range16

LEMMA PrescalerType ==
  ASSUME NEW d \in Nat, NEW r \in ClockRatios
  PROVE  Prescaler(d, r) \in 0..(Range16 - 1)
<1>1. r \in Nat
  BY DEF ClockRatios
<1> DEFINE q == d % Range16
<1>2. Range16 \in Nat \ {0}
  BY SMT DEF Range16
<1>3. q \in Nat
  BY <1>2, SMT
<1> HIDE DEF q
<1>4. q * r - 1 \in Int
  BY <1>1, <1>3, SMT
<1> HIDE DEF Range16
<1>5. (q * r - 1) % Range16 \in 0..(Range16 - 1)
  BY <1>2, <1>4, SMT
<1> QED
  BY <1>5, Zenon DEF Prescaler, q

-----------------------------------------------------------------------------
(* The divider fits its registers because a thread is only created from      *)
(* parameters that cache() accepts, and they do not change until it has run. *)
CalcInv ==
    /\ TypeOK
    /\ calc.timDivider <= 2048
    /\ stream = "created" => Accepts(up)
    /\ stream = "on" => \A r \in ClockRatios : psc[r] + 1 = calc.timDivider * r

LEMMA CalcInit == Init => CalcInv
<1> SUFFICES ASSUME Init PROVE CalcInv
  OBVIOUS
<1>1. 0 \in 0..(Range16 - 1)
  BY SMT DEF Range16
<1> QED
  BY <1>1 DEF Init, CalcInv, TypeOK, CalculatedParams

LEMMA CalcStep == CalcInv /\ [Next]_vars => CalcInv'
<1> SUFFICES ASSUME CalcInv, [Next]_vars PROVE CalcInv'
  OBVIOUS
<1>0. up \in Params /\ calc \in CalculatedParams /\ calc.timDivider <= 2048
  BY DEF CalcInv, TypeOK, CalculatedParams
<1>1. CASE UNCHANGED vars
  <2>1. Accepts(up)' = Accepts(up)
    BY <1>1 DEF vars, Accepts, BadNumbers, BadDivider, BadSpan, LowResolution,
                TimDivider, TickAtMinRpm, FreqAtMinRpm
  <2> QED
    BY <1>1, <2>1 DEF vars, CalcInv, TypeOK
<1>2. CASE SetParams
  BY <1>2 DEF SetParams, CalcInv, TypeOK
<1>3. CASE Start
  <2>1. calc' \in CalculatedParams /\ calc'.timDivider <= 2048
    BY <1>0, <1>3, CachedType DEF Start
  <2>2. up' = up /\ stream' \in {"off", "created"} /\ (stream' = "created" => Accepts(up))
    BY <1>3 DEF Start
  <2>3. stream' = "created" => Accepts(up)'
    BY <2>2 DEF Accepts, BadNumbers, BadDivider, BadSpan, LowResolution,
                TimDivider, TickAtMinRpm, FreqAtMinRpm
  <2> QED
    BY <1>3, <2>1, <2>2, <2>3 DEF Start, CalcInv, TypeOK, CalculatedParams
<1>4. CASE Setup
  <2>1. /\ calc' \in CalculatedParams
        /\ calc'.timDivider >= 1
        /\ calc'.timDivider <= 2048
    BY <1>0, <1>4, CachedType DEF Setup, CalcInv
  <2>2. calc'.timDivider \in Nat /\ calc'.width \in Nat
    BY <2>1 DEF CalculatedParams
  <2>3. ASSUME NEW r \in ClockRatios
        PROVE  /\ Prescaler(calc'.timDivider, r) + 1 = calc'.timDivider * r
               /\ Prescaler(calc'.timDivider, r) \in 0..(Range16 - 1)
    BY <2>1, <2>2, PrescalerExact, PrescalerType
  <2>4. psc' = [r \in ClockRatios |-> Prescaler(calc'.timDivider, r)]
    BY <1>4 DEF Setup
  <2>5. psc' \in [ClockRatios -> 0..(Range16 - 1)]
    BY <2>3, <2>4
  <2>6. \A r \in ClockRatios : psc'[r] + 1 = calc'.timDivider * r
    BY <2>3, <2>4
  <2> QED
    BY <1>0, <1>4, <2>1, <2>2, <2>5, <2>6 DEF Setup, CalcInv, TypeOK, CalculatedParams
<1>5. CASE Stop
  BY <1>5 DEF Stop, CalcInv, TypeOK
<1> QED
  BY <1>1, <1>2, <1>3, <1>4, <1>5 DEF Next

(* The parameters, calcParam and the registers keep their widths.            *)
THEOREM CalcTypeCorrect == Spec => []TypeOK
<1>1. CalcInv => TypeOK
  BY DEF CalcInv
<1> QED
  BY <1>1, CalcInit, CalcStep, PTL DEF Spec

(* setDivider() programs the divider cache() computed, on either clock, for  *)
(* all parameters: no 16-bit conversion on the way loses anything.           *)
THEOREM DividerSafe == Spec => []DividerProgrammed
<1>1. CalcInv => DividerProgrammed
  BY DEF CalcInv, DividerProgrammed
<1> QED
  BY <1>1, CalcInit, CalcStep, PTL DEF Spec
-----------------------------------------------------------------------------
(* The measure.                                                              *)

\* A session runs with what an accepted start has computed from the parameters
\* that are still in userParam.
SessionInv ==
    stream = "on" =>
        /\ Accepts(up)
        /\ psc[1] + 1 = TimDivider(up)
        /\ width = WidthOneRpmHall(TimDivider(up), up.magnets)

LEMMA SessionStep == CalcInv /\ SessionInv /\ [Next]_vars => SessionInv'
<1> SUFFICES ASSUME CalcInv, SessionInv, [Next]_vars, stream' = "on"
             PROVE  /\ Accepts(up)'
                    /\ psc'[1] + 1 = TimDivider(up)'
                    /\ width' = WidthOneRpmHall(TimDivider(up), up.magnets)'
  BY DEF SessionInv
<1>a. up' = up => /\ Accepts(up)' = Accepts(up) /\ TimDivider(up)' = TimDivider(up)
                  /\ WidthOneRpmHall(TimDivider(up), up.magnets)'
                       = WidthOneRpmHall(TimDivider(up), up.magnets)
  BY DEF Accepts, BadNumbers, BadDivider, BadSpan, LowResolution, WidthOneRpmHall,
         TimDivider, TickAtMinRpm, FreqAtMinRpm
<1>1. CASE UNCHANGED vars
  BY <1>1, <1>a DEF vars, SessionInv
<1>2. CASE SetParams \/ Start \/ Stop
  BY <1>2 DEF SetParams, Start, Stop
<1>3. CASE Setup
  <2>1. Accepts(up) /\ up' = up /\ calc' = Cached(up, calc)
        /\ psc' = [r \in ClockRatios |-> Prescaler(calc'.timDivider, r)]
        /\ width' = calc'.width
    BY <1>3 DEF Setup, CalcInv
  <2>2. Cached(up, calc) = [timDivider |-> TimDivider(up),
                            width |-> WidthOneRpmHall(TimDivider(up), up.magnets)]
    BY <2>1 DEF Accepts, Cached
  <2>3. calc'.timDivider = TimDivider(up)
        /\ calc'.width = WidthOneRpmHall(TimDivider(up), up.magnets)
    BY <2>1, <2>2
  <2>4. TimDivider(up) \in Nat /\ 1 <= TimDivider(up) /\ TimDivider(up) <= 2048
    <3>1. up \in Params
      BY DEF CalcInv, TypeOK
    <3> QED
      BY <2>1, <3>1, TimDividerBound, SMT DEF Accepts, BadDivider
  <2>5. 1 \in ClockRatios /\ psc'[1] = Prescaler(TimDivider(up), 1)
    BY <2>1, <2>3 DEF ClockRatios
  <2>6. psc'[1] + 1 = TimDivider(up)
    <3>1. Prescaler(TimDivider(up), 1) + 1 = TimDivider(up) * 1
      BY <2>4, <2>5, PrescalerExact
    <3> QED
      BY <2>4, <2>5, <3>1
  <2> QED
    BY <1>a, <2>1, <2>3, <2>6
<1> QED
  BY <1>1, <1>2, <1>3 DEF Next

\* The speed made of a period of t ticks that was a quotient itself.
LEMMA TwoQuotients ==
    ASSUME NEW w \in Nat, NEW rpm \in Nat \ {0}, w \div rpm >= 8
    PROVE  /\ w \div rpm \in Nat
           /\ w \div (w \div rpm) \in rpm..(rpm + rpm \div 8)
<1> DEFINE t == w \div rpm
           m == w \div t
<1>1. t \in Nat /\ t >= 8 /\ t * rpm <= w /\ w < (t + 1) * rpm
  BY SMT
<1> HIDE DEF t
<1>2. m \in Nat /\ m * t <= w /\ w < (m + 1) * t
  BY <1>1, SMT
<1> HIDE DEF m
<1>3. rpm <= m
  <2>1. rpm * t < (m + 1) * t
    BY <1>1, <1>2, SMT
  <2>2. rpm < m + 1
    BY <1>1, <1>2, <2>1, SMT
  <2> QED
    BY <1>2, <2>2, SMT
<1>4. m <= rpm + rpm \div 8
  <2> DEFINE e == m - rpm
  <2>1. e \in Nat /\ m = rpm + e
    BY <1>2, <1>3, SMT
  <2> HIDE DEF e
  <2>2. e * t < rpm
    <3>1. (rpm + e) * t < (t + 1) * rpm
      BY <1>1, <1>2, <2>1, SMT
    <3>2. (rpm + e) * t = rpm * t + e * t /\ (t + 1) * rpm = rpm * t + rpm
      BY <1>1, <2>1, SMT
    <3>3. rpm * t \in Nat /\ e * t \in Nat
      BY <1>1, <2>1, SMT
    <3> QED
      BY <3>1, <3>2, <3>3, SMT
  <2>3. e * 8 <= e * t
    BY <1>1, <2>1, SMT
  <2>4. e * t \in Nat
    BY <1>1, <2>1, SMT
  <2>5. e * 8 < rpm
    BY <2>1, <2>2, <2>3, <2>4, SMT
  <2> QED
    BY <2>1, <2>5, SMT
<1> QED
  BY <1>1, <1>2, <1>3, <1>4, SMT DEF t, m

\* Accepted parameters leave at least 8 ticks between two magnets at both ends
\* of the range.
LEMMA EightTicks ==
    ASSUME NEW u \in Params, Accepts(u)
    PROVE  /\ TimDivider(u) \in Nat \ {0} /\ u.magnets \in Nat \ {0}
           /\ WidthOneRpmHall(TimDivider(u), u.magnets) \in Nat
           /\ u.minRpm \in Nat \ {0} /\ u.maxRpm \in Nat \ {0}
           /\ WidthOneRpmHall(TimDivider(u), u.magnets) \div u.minRpm >= 8
           /\ WidthOneRpmHall(TimDivider(u), u.magnets) \div u.maxRpm >= 8
<1>1. /\ TimDivider(u) \in Nat \ {0} /\ u.magnets \in Nat \ {0}
      /\ u.minRpm \in Nat \ {0} /\ u.maxRpm \in Nat \ {0}
  BY ParamFields, TimDividerBound, SMT DEF Accepts, BadDivider, BadNumbers, BadSpan
<1> DEFINE w == WidthOneRpmHall(TimDivider(u), u.magnets)
<1>2. w \in Nat
  BY <1>1, WidthType
<1>3. ~(w \div u.maxRpm < 8) /\ ~((Range16 * u.minRpm) \div u.maxRpm >= 65535)
  BY DEF Accepts, BadSpan, LowResolution
<1> HIDE DEF w
<1>4. w \div u.maxRpm >= 8 /\ w \div u.maxRpm \in Int
  BY <1>1, <1>2, <1>3, SMT
<1>5. u.minRpm <= u.maxRpm
  <2>1. Range16 * u.minRpm < 65535 * u.maxRpm
    BY <1>1, <1>3, SMT DEF Range16
  <2> QED
    BY <1>1, <2>1, SMT DEF Range16
<1>6. 8 * u.minRpm <= w
  <2>1. 8 * u.maxRpm <= w
    BY <1>1, <1>2, <1>4, SMT
  <2> QED
    BY <1>1, <1>2, <1>5, <2>1, SMT
<1>7. w \div u.minRpm >= 8
  BY <1>1, <1>2, <1>6, SMT
<1> QED
  BY <1>1, <1>2, <1>4, <1>7 DEF w

\* What the measure is made of while a session runs.
LEMMA SessionTicks ==
    ASSUME CalcInv, SessionInv, stream = "on"
    PROVE  /\ up \in Params /\ Accepts(up)
           /\ \A rpm : Ticks(rpm) = WidthOneRpmHall(TimDivider(up), up.magnets) \div rpm
           /\ \A rpm : MeasuredRpm(rpm) =
                WidthOneRpmHall(TimDivider(up), up.magnets)
                  \div (WidthOneRpmHall(TimDivider(up), up.magnets) \div rpm)
<1>1. /\ up \in Params /\ Accepts(up) /\ psc[1] + 1 = TimDivider(up)
      /\ width = WidthOneRpmHall(TimDivider(up), up.magnets)
  BY DEF CalcInv, TypeOK, SessionInv
<1> QED
  BY <1>1, Zenon DEF Ticks, MeasuredRpm

LEMMA SessionInit == Init => SessionInv
  BY DEF Init, SessionInv

(* With accepted parameters the measured speed is never too low, and at most *)
(* an eighth too high, at both ends of the range the user asked for: for     *)
(* every input frequency.                                                    *)
THEOREM MeasureSafe == Spec => []MeasureFaithful
<1>1. CalcInv /\ SessionInv => MeasureFaithful
  <2> SUFFICES ASSUME CalcInv, SessionInv, stream = "on", NEW rpm \in {up.minRpm, up.maxRpm}
               PROVE  MeasuredRpm(rpm) \in rpm..(rpm + rpm \div 8)
    BY DEF MeasureFaithful
  <2> DEFINE w == WidthOneRpmHall(TimDivider(up), up.magnets)
  <2>1. w \in Nat /\ rpm \in Nat \ {0} /\ w \div rpm >= 8
    BY SessionTicks, EightTicks
  <2>2. MeasuredRpm(rpm) = w \div (w \div rpm)
    BY SessionTicks
  <2> HIDE DEF w
  <2> QED
    BY <2>1, <2>2, TwoQuotients
<1> QED
  BY <1>1, CalcInit, CalcStep, SessionInit, SessionStep, PTL DEF Spec

-----------------------------------------------------------------------------
(* The eight inputs.                                                         *)

LEMMA InputClocks ==
    /\ DOMAIN IcuTimer = 1..8
    /\ \A m \in 1..8 : TimerClock(IcuTimer[m]) \in {84, 168}
    /\ TimerFreqIn \div Mega = 84
<1>1. DOMAIN IcuTimer = 1..8
  BY DEF IcuTimer
<1>2. Hclk = 168 /\ Ppre.apb1 = 4 /\ Ppre.apb2 = 2
  BY DEF Hclk, PllM, PllN, PllP, Ppre
<1>3. \A t : TimerClock(t) \in {84, 168}
  BY <1>2 DEF TimerClock
<1>4. TimerFreqIn = 84 * Mega
  BY <1>2, IcuTimersAssumption
<1>5. Mega \in Nat \ {0}
  BY DEF Mega
<1>6. (84 * Mega) \div Mega = 84
  BY <1>5, SMT
<1> QED
  BY <1>1, <1>3, <1>4, <1>6

LEMMA InputRatios ==
    ASSUME NEW m \in Motors
    PROVE  /\ Ratio(m) \in ClockRatios
           /\ TimerClock(IcuTimer[m]) = 84 * Ratio(m)
<1>1. TimerClock(IcuTimer[m]) \in {84, 168} /\ Ratio(m) = TimerClock(IcuTimer[m]) \div 84
  BY InputClocks DEF Motors, Ratio
<1>2. CASE TimerClock(IcuTimer[m]) = 84
  BY <1>1, <1>2 DEF ClockRatios
<1>3. CASE TimerClock(IcuTimer[m]) = 168
  BY <1>1, <1>3 DEF ClockRatios
<1> QED
  BY <1>1, <1>2, <1>3

(* Whatever divider cache() computes, a motor gives the same count on every  *)
(* input, though two buses clock the timers.                                 *)
THEOREM InputsAlikeSafe == Spec => []InputsTickAlike
<1>1. CalcInv => InputsTickAlike
  <2> SUFFICES ASSUME CalcInv, stream = "on", NEW m \in Motors, NEW n \in Motors
               PROVE  /\ Ratio(m) \in ClockRatios
                      /\ TimerClock(IcuTimer[m]) * (psc[Ratio(n)] + 1)
                           = TimerClock(IcuTimer[n]) * (psc[Ratio(m)] + 1)
    BY DEF InputsTickAlike
  <2>1. /\ Ratio(m) \in ClockRatios /\ TimerClock(IcuTimer[m]) = 84 * Ratio(m)
        /\ Ratio(n) \in ClockRatios /\ TimerClock(IcuTimer[n]) = 84 * Ratio(n)
    BY InputRatios
  <2>2. \A r \in ClockRatios : psc[r] + 1 = calc.timDivider * r
    BY DEF CalcInv
  <2>3. calc.timDivider \in Nat
    BY DEF CalcInv, TypeOK, CalculatedParams
  <2>4. (84 * Ratio(m)) * (calc.timDivider * Ratio(n)) = (84 * Ratio(n)) * (calc.timDivider * Ratio(m))
    BY <2>1, <2>3, SMT DEF ClockRatios
  <2> QED
    BY <2>1, <2>2, <2>4
<1> QED
  BY <1>1, CalcInit, CalcStep, PTL DEF Spec

-----------------------------------------------------------------------------
(* The period at the least speed, with the clock of the board.               *)

LEMMA BoardClock ==
    /\ TimerFreqIn \in Nat \ {0}
    /\ TimerFreqIn = 65536 * 1281 + 48384
<1>1. Hclk \div 2 = 84 /\ Mega = 1000 * 1000
  BY DEF Hclk, PllM, PllN, PllP, Mega
<1> QED
  BY <1>1, IcuTimersAssumption, SMT

\* A quotient and its remainder.
LEMMA Division ==
    ASSUME NEW a \in Nat, NEW b \in Nat \ {0}
    PROVE  /\ a \div b \in Nat /\ a % b \in Nat
           /\ a = b * (a \div b) + (a % b)
           /\ (a \div b) * b <= a /\ a < (a \div b + 1) * b
  BY SMT

\* Of the board's clock no quotient is rounded when it becomes a float.
LEMMA TickExact ==
    ASSUME NEW f \in Nat \ {0}
    PROVE  ToFloat(TimerFreqIn \div f) = TimerFreqIn \div f
<1>1. ASSUME NEW x \in Nat, x < 16777216 PROVE ToFloat(x) = x
  BY <1>1, SMT DEF ToFloat, Ulp
<1>2. CASE f = 1
  BY <1>2, BoardClock, SMT DEF ToFloat, Ulp
<1>3. CASE f = 2
  BY <1>3, BoardClock, SMT DEF ToFloat, Ulp
<1>4. CASE f = 3
  BY <1>4, BoardClock, SMT DEF ToFloat, Ulp
<1>5. CASE f = 4
  BY <1>5, BoardClock, SMT DEF ToFloat, Ulp
<1>6. CASE f = 5
  BY <1>6, BoardClock, SMT DEF ToFloat, Ulp
<1>7. CASE f >= 6
  <2> DEFINE x == TimerFreqIn \div f
  <2>1. x \in Nat /\ x * f <= TimerFreqIn
    BY BoardClock, Division
  <2> HIDE DEF x
  <2>2. x * 6 <= x * f /\ x * f \in Nat
    BY <1>7, <2>1, SMT
  <2>3. x < 16777216
    BY <2>1, <2>2, BoardClock, SMT
  <2> QED
    BY <1>1, <2>1, <2>3 DEF x
<1> QED
  BY <1>2, <1>3, <1>4, <1>5, <1>6, <1>7

\* The divider leaves room for one tick more than the period at minRpm has.
LEMMA DividerRoom ==
    ASSUME NEW u \in Params, Accepts(u)
    PROVE  /\ FreqAtMinRpm(u) \in Nat \ {0}
           /\ TimDivider(u) \in Nat \ {0}
           /\ TimerFreqIn < (Range16 * TimDivider(u)) * FreqAtMinRpm(u)
<1> DEFINE f == FreqAtMinRpm(u)
           d == TimDivider(u)
           x == TimerFreqIn \div f
           p == d * f
<1>1. f \in Nat
  BY FreqType
<1>2. d \in Nat \ {0}
  BY EightTicks
<1>3. f # 0
  <2>1. SUFFICES ASSUME f = 0 PROVE FALSE
    OBVIOUS
  <2>2. TickAtMinRpm(u) = 0
    BY <2>1 DEF TickAtMinRpm
  <2>3. TimDivider(u) = 0
    BY <2>2, SMT DEF TimDivider, ToFloat, Ulp, Range16
  <2> QED
    BY <1>2, <2>3
<1>4. x \in Nat /\ x * f <= TimerFreqIn /\ TimerFreqIn < (x + 1) * f
  <2>1. f \in Nat \ {0} /\ TimerFreqIn \in Nat
    BY <1>1, <1>3, BoardClock
  <2> HIDE DEF f
  <2> QED
    BY <2>1, Division
<1>5. d = (x + Range16 - 1) \div Range16
  <2>1. TickAtMinRpm(u) = x
    <3>1. FreqAtMinRpm(u) # 0
      BY <1>3
    <3>2. TickAtMinRpm(u) = TimerFreqIn \div FreqAtMinRpm(u)
      BY <3>1, Zenon DEF TickAtMinRpm
    <3> QED
      BY <3>2
  <2>2. ToFloat(x) = x
    BY <1>1, <1>3, TickExact
  <2> QED
    BY <2>1, <2>2 DEF TimDivider
<1> HIDE DEF x, d, f
<1>6. x <= Range16 * d
  BY <1>2, <1>4, <1>5, SMT DEF Range16
<1>7. p \in Nat /\ f <= p
  BY <1>1, <1>2, <1>3, SMT
<1>8. x # Range16 * d
  <2> SUFFICES ASSUME x = Range16 * d PROVE FALSE
    OBVIOUS
  <2>1. x * f = Range16 * p /\ (x + 1) * f = Range16 * p + f
    <3>1. (Range16 * d) * f = Range16 * (d * f)
      BY <1>1, <1>2, SMT DEF Range16
    <3>2. (x + 1) * f = x * f + f
      BY <1>1, <1>4, SMT
    <3> QED
      BY <3>1, <3>2
  <2> HIDE DEF p
  <2>2. Range16 * p <= TimerFreqIn /\ TimerFreqIn < Range16 * p + f
    BY <1>4, <2>1
  <2>3. CASE p <= 1281
    BY <1>1, <1>7, <2>2, <2>3, BoardClock, SMT DEF Range16
  <2>4. CASE p > 1281
    BY <1>1, <1>7, <2>2, <2>4, BoardClock, SMT DEF Range16
  <2> QED
    BY <1>7, <2>3, <2>4, SMT
<1>9. TimerFreqIn < (Range16 * d) * f
  <2>1. Range16 * d \in Nat /\ x + 1 <= Range16 * d
    BY <1>2, <1>4, <1>6, <1>8, SMT DEF Range16
  <2>2. (x + 1) * f <= (Range16 * d) * f
    <3> DEFINE y == Range16 * d
    <3>1. y \in Nat /\ x + 1 <= y
      BY <2>1
    <3> HIDE DEF y
    <3>2. (x + 1) * f <= y * f
      BY <1>1, <1>4, <3>1, SMT
    <3> QED
      BY <3>2 DEF y
  <2>3. (x + 1) * f \in Nat /\ (Range16 * d) * f \in Nat
    BY <1>1, <1>4, <2>1, SMT
  <2> HIDE DEF p
  <2> QED
    BY <1>4, <2>2, <2>3, BoardClock, SMT
<1> QED
  BY <1>1, <1>2, <1>3, <1>9 DEF f, d

\* The width of one rpm is not rounded up.
LEMMA WidthBelow ==
    ASSUME NEW div \in Nat \ {0}, NEW magnets \in Nat \ {0}
    PROVE  WidthOneRpmHall(div, magnets) * (div * magnets) <= 60 * TimerFreqIn
<1> DEFINE d == div * magnets
           q == TimerFreqIn \div d
           r == TimerFreqIn % d
           e == (60 * r) \div d
<1>1. d \in Nat \ {0}
  BY SMT
<1> HIDE DEF d
<1>2. q \in Nat /\ r \in Nat /\ TimerFreqIn = d * q + r
  BY <1>1, BoardClock, Division
<1> HIDE DEF q, r
<1>3. e \in Nat /\ e * d <= 60 * r
  <2>1. 60 * r \in Nat
    BY <1>2
  <2> QED
    BY <1>1, <2>1, Division
<1> HIDE DEF e
<1>4. (60 * q + e) * d = 60 * (d * q) + e * d
  BY <1>1, <1>2, <1>3, SMT
<1>5. d * q \in Nat /\ e * d \in Nat
  BY <1>1, <1>2, <1>3, SMT
<1>6. (60 * q + e) * d <= 60 * TimerFreqIn
  BY <1>2, <1>3, <1>4, <1>5, SMT
<1> QED
  BY <1>6 DEF WidthOneRpmHall, d, q, r, e

(* At the least speed the user asked for, the period fits the counter of the *)
(* timers: no configuration that cache() accepts makes it overflow.          *)
THEOREM MinRpmSafe == Spec => []MinRpmFits
<1>1. CalcInv /\ SessionInv => MinRpmFits
  <2> SUFFICES ASSUME CalcInv, SessionInv, stream = "on"
               PROVE  Ticks(up.minRpm) <= 65535
    BY DEF MinRpmFits
  <2> DEFINE d == TimDivider(up)
             g == up.magnets
             n == up.minRpm
             f == FreqAtMinRpm(up)
             w == WidthOneRpmHall(d, g)
             t == w \div n
  <2>1. up \in Params /\ Accepts(up) /\ Ticks(n) = t
    BY SessionTicks
  <2>2. d \in Nat \ {0} /\ g \in Nat \ {0} /\ n \in Nat \ {0} /\ w \in Nat
    BY <2>1, EightTicks
  <2>3. f \in Nat \ {0} /\ TimerFreqIn < (Range16 * d) * f
    BY <2>1, DividerRoom
  <2>4. w * (d * g) <= 60 * TimerFreqIn
    BY <2>2, WidthBelow
  <2>5. f * 60 <= n * g
    <3>1. n * g \in Nat
      BY <2>2, SMT
    <3>2. (n * g) \div 60 = f
      BY DEF FreqAtMinRpm
    <3> QED
      BY <3>1, <3>2, Division, SMT
  <2> HIDE DEF f, d, g, n, w
  <2>6. t \in Nat /\ t * n <= w
    BY <2>2, Division
  <2> HIDE DEF t
  <2>7. t < Range16
    <3> SUFFICES ASSUME t >= Range16 PROVE FALSE
      BY <2>6, SMT DEF Range16
    <3>1. Range16 * n <= w
      BY <2>2, <2>6, SMT DEF Range16
    <3> DEFINE a == d * g
               b == Range16 * n
    <3>2. a \in Nat \ {0} /\ b \in Nat
      BY <2>2, SMT DEF Range16
    <3>3. b * a <= w * a
      <4> HIDE DEF a, b
      <4> QED
        BY <2>2, <3>1, <3>2, SMT DEF b
    <3>4. b * a = (Range16 * d) * (n * g)
      BY <2>2, SMT DEF Range16
    <3> DEFINE h == Range16 * d
               k == n * g
    <3>5. h \in Nat \ {0} /\ k \in Nat
      BY <2>2, SMT DEF Range16
    <3>6. 60 * (h * f) <= h * k
      <4>1. f * 60 <= k
        BY <2>5
      <4> HIDE DEF h, k
      <4> QED
        BY <2>3, <3>5, <4>1, SMT
    <3>7. TimerFreqIn < h * f /\ h * k <= w * a /\ w * a <= 60 * TimerFreqIn
      BY <2>3, <2>4, <3>3, <3>4
    <3>8. h * f \in Nat /\ h * k \in Nat /\ w * a \in Nat
      <4> HIDE DEF h, k, a
      <4> QED
        BY <2>2, <2>3, <3>2, <3>5, SMT
    <3> HIDE DEF a, b, h, k
    <3> QED
      BY <3>6, <3>7, <3>8, BoardClock, SMT
  <2> QED
    BY <2>1, <2>6, <2>7, SMT DEF Range16, n
<1> QED
  BY <1>1, CalcInit, CalcStep, SessionInit, SessionStep, PTL DEF Spec

=============================================================================
