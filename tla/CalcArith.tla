------------------------------ MODULE CalcArith ------------------------------
(***************************************************************************)
(* The arithmetic of CalculatedParam::cache() and of what it is used for:  *)
(* what it derives from the motor parameters and what it refuses.          *)
(*                                                                         *)
(* Numbers.  Divisions of unsigned integers truncate, a division by zero   *)
(* yields 0 (UDIV of the Cortex-M4), and a uint32_t that becomes a float   *)
(* is rounded to 24 bits.  In binary32 logf(8)/logf(2) is exactly 3, so    *)
(* "less than 3 bits" is "less than 8".                                    *)
(***************************************************************************)
EXTENDS Integers

CONSTANT TimerFreqIn    \* TIMER_FREQ_IN, below 2^27 Hz: see Ulp

Range16 == 65536

\* The distance between two floats near x.
Ulp(x) == IF x < 16777216 THEN 1
          ELSE IF x < 33554432 THEN 2
          ELSE IF x < 67108864 THEN 4 ELSE 8

\* The float nearest to the integer x, ties to even.
ToFloat(x) ==
    LET u == Ulp(x)
        q == x \div u
        r == x % u
    IN  IF 2 * r < u \/ (2 * r = u /\ q % 2 = 0) THEN q * u ELSE (q + 1) * u

FreqAtMinRpm(u) == (u.minRpm * u.magnets) \div 60

TickAtMinRpm(u) == IF FreqAtMinRpm(u) = 0 THEN 0 ELSE TimerFreqIn \div FreqAtMinRpm(u)

\* Mutant: the quotient is not rounded up.
TimDividerFloor(u) == ToFloat(TickAtMinRpm(u)) \div Range16

\* The least divider that makes a period at minRpm fit the 16 bits of the timer.
TimDivider(u) == (ToFloat(TickAtMinRpm(u)) + Range16 - 1) \div Range16

(* TIMER_FREQ_IN * 60 / div / magnets, arranged so that no intermediate     *)
(* result is larger than the outcome.                                       *)
WidthOneRpmHall(div, magnets) ==
    LET d == div * magnets
    IN  60 * (TimerFreqIn \div d) + (60 * (TimerFreqIn % d)) \div d

BadNumbers(u) ==
    \/ u.magnets <= 2 \/ u.magnets > 100
    \/ u.nbMotors < 1 \/ u.nbMotors > 8
    \/ u.minRpm < 10 \/ u.minRpm > 10000

BadDivider(u) == TimDivider(u) < 1 \/ TimDivider(u) > 65535

\* nbTicksAtMaxRpm: maxRpm is not above minRpm.
BadSpan(u) == u.maxRpm = 0 \/ (Range16 * u.minRpm) \div u.maxRpm >= 65535

\* Mutant: every resolution will do.
AnyResolution(u) == FALSE

LowResolution(u) == WidthOneRpmHall(TimDivider(u), u.magnets) \div u.maxRpm < 8

Accepts(u) ==
    /\ ~BadNumbers(u)
    /\ ~BadDivider(u)
    /\ ~BadSpan(u)
    /\ ~LowResolution(u)

\* What cache() leaves in calcParam when it finds u there and c in calcParam.
Cached(u, c) ==
    IF BadNumbers(u) THEN c
    ELSE IF BadDivider(u) \/ BadSpan(u) THEN [c EXCEPT !.timDivider = TimDivider(u)]
    ELSE [timDivider |-> TimDivider(u),
          width      |-> WidthOneRpmHall(TimDivider(u), u.magnets)]

\* The ratio of a timer's clock to TIMER_FREQ_IN: 1 on APB1, 2 on APB2.
ClockRatios == {1, 2}

\* Mutants: the register holds the divider itself; the fast clock is forgotten.
PrescalerOffByOne(div, ratio) == ((div % Range16) * ratio) % Range16
PrescalerPlain(div, ratio)    == (div % Range16) - 1

\* setDivider(): a uint16_t, and a 16-bit register.
Prescaler(div, ratio) == ((div % Range16) * ratio - 1) % Range16
=============================================================================
