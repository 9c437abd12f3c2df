------------------------------- MODULE IcuTimers -------------------------------
(***************************************************************************)
(* The eight inputs of the board: the timer that captures each of them and *)
(* the clock that timer counts.  They are said in two files that no        *)
(* compiler compares: the table of rpmMsg.cpp and the clock tree of        *)
(* mcuconf.h.                                                              *)
(*                                                                         *)
(* CalcParam has one prescaler per clock ratio; here each input is put     *)
(* together with the one its timer gets.                                   *)
(***************************************************************************)
EXTENDS CalcParam, Sequences

\* ICU_TIMER: the timer of each motor, by the number of its driver.
IcuTimer == <<8, 1, 4, 5, 9, 2, 3, 12>>

Motors == DOMAIN IcuTimer

\* The clock tree, in MHz: a 16 MHz crystal through the PLL.
PllM == 16
PllN == 336
PllP == 2
Hclk == ((16 \div PllM) * PllN) \div PllP

Mega == 1000 * 1000

\* TIMER_FREQ_IN is half of STM32_HCLK.
ASSUME IcuTimersAssumption == TimerFreqIn = (Hclk \div 2) * Mega

\* The dividers of the two buses.
Ppre == [apb1 |-> 4, apb2 |-> 2]

\* The timers on the fast bus, as the STM32F4 has them.
Apb2Timers == {1, 8, 9, 10, 11}

\* A timer counts the clock of its bus, twice if the bus is divided.
TimerClock(t) ==
    LET div == IF t \in Apb2Timers THEN Ppre.apb2 ELSE Ppre.apb1
    IN  IF div = 1 THEN Hclk ELSE 2 * (Hclk \div div)

-----------------------------------------------------------------------------
(* Properties                                                                *)

\* icup->clock / TIMER_FREQ_IN
Ratio(m) == TimerClock(IcuTimer[m]) \div (TimerFreqIn \div Mega)

(* The same motor gives the same count on every input: the prescaler that    *)
(* setDivider() gives a timer makes up for the bus it is on, for every       *)
(* divider.  The clocks are the two that setIcuForHallSensor() asserts, in a *)
(* build that has assertions.                                                *)
InputsTickAlike ==
    stream = "on" =>
        /\ \A m \in Motors : Ratio(m) \in ClockRatios
        /\ \A m, n \in Motors :
              TimerClock(IcuTimer[m]) * (psc[Ratio(n)] + 1)
                = TimerClock(IcuTimer[n]) * (psc[Ratio(m)] + 1)
=============================================================================
