------------------------------ MODULE SpeedSense ------------------------------
(***************************************************************************)
(* One input of the board: the pulses of its sensor, the callbacks of the  *)
(* ICU driver, the window of periods they fill, and the speed the          *)
(* streaming thread makes of it.  The sensor is a hall sensor or, in the   *)
(* builds with OPTOCOUPLER_ON_BOARD, an optocoupler on the ESC.            *)
(*                                                                         *)
(* The window, the time stamp of the optocoupler and the totals are        *)
(* static: what an earlier spin of the motor, an earlier session or noise  *)
(* on the wire left there is found by the next one.  So an entry of the    *)
(* window is not a number but where it comes from.  The window of errors   *)
(* that the same callbacks fill is ErrorWindow's.                          *)
(***************************************************************************)
EXTENDS Naturals, FiniteSets, Sequences

CONSTANTS
    AvgSize,   \* the size of the window of periods
    Median     \* values its filter drops at each end

ASSUME SpeedSenseAssumption ==
    /\ AvgSize \in Nat
    /\ Median \in Nat
    /\ 2 * Median < AvgSize

VARIABLES
    motion,       \* does the motor turn, stand, or stand with a noisy wire?
    session,      \* the sensor of the session, or "off"
    icu,          \* the driver: after a start or an overflow it is "waiting"
                  \* for an edge to measure from, and then "active"
    hasOverflow,  \* of the driver
    winAvg,       \* the window, oldest first: "zero" as at reset, the "true"
                  \* period between two edges or bursts of this spin, an
                  \* "old" one of an earlier spin, or a "ghost", the period
                  \* of nothing
    ownStart,     \* is what the next period is measured from of this spin:
                  \* the edge the counter was reset by or, with the
                  \* optocoupler, optoTimeStamp?
    counted,      \* is totalErrorCount positive?
    sent,         \* what the last Rpms message has: "stopped" or a "speed"
    spin          \* history: entries this spin has made, up to AvgSize + 1

vars == <<motion, session, icu, hasOverflow, winAvg, ownStart, counted, sent, spin>>

TypeOK ==
    /\ motion \in {"turns", "still", "noise"}
    /\ session \in {"off", "Hall_effect", "Esc_coupler"}
    /\ icu \in {"stopped", "waiting", "active"}
    /\ (icu = "stopped") = (session = "off")
    /\ hasOverflow \in BOOLEAN
    /\ winAvg \in [1..AvgSize -> {"zero", "true", "old", "ghost"}]
    /\ ownStart \in BOOLEAN
    /\ counted \in BOOLEAN
    /\ sent \in {"stopped", "speed"}
    /\ spin \in 0..AvgSize + 1

Init ==
    /\ motion = "still"
    /\ session = "off"
    /\ icu = "stopped"
    /\ hasOverflow = FALSE
    /\ winAvg = [i \in 1..AvgSize |-> "zero"]
    /\ ownStart = FALSE
    /\ counted = FALSE
    /\ sent = "stopped"
    /\ spin = 0

Entries(tags) == {i \in 1..AvgSize : winAvg[i] \in tags}

\* What was measured until now says nothing of what comes.
SpinEnds ==
    /\ winAvg' = [i \in 1..AvgSize |-> IF winAvg[i] = "true" THEN "old" ELSE winAvg[i]]
    /\ ownStart' = FALSE
    /\ spin' = 0

-----------------------------------------------------------------------------
(* The numbers of hardwareConf.hpp                                           *)

MinRatioTime10 == 15
MaxRatioTime10 == 22

\* TIMER_FREQ_OPTO, in MHz
TimerFreqOpto == (168 \div 2) \div 4

\* It is a whole number of MHz, so that the rounding up changes nothing.
MicroSeconds2timerOptoClk(usecs) == usecs * TimerFreqOpto
MilliSeconds2timerOptoClk(msecs) == MicroSeconds2timerOptoClk(1000 * msecs)

\* 80_tim_opto_usec
InactiveDurationToDetectEnd == MicroSeconds2timerOptoClk(80)

\* 2_tim_opto_msec, asserted to fit the counter
InactiveDurationToDetectError == MilliSeconds2timerOptoClk(2)

\* 1 << TIMER_WIDTH_BITS
CounterTicks == 65536

-----------------------------------------------------------------------------
(* The callbacks                                                             *)

\* winAvg.push()
PushAvg(tag) ==
    winAvg' = Append(Tail(winAvg), tag)

\* A good measure enters the window.
Measure(tag) ==
    /\ PushAvg(tag)
    /\ spin' = IF motion = "turns" /\ spin <= AvgSize THEN spin + 1 ELSE spin

\* Period and width, in ticks, of a pulse of a hall sensor, of glitches, and
\* of one too short for the prescaled timer.
HallPulses == {<<100, 50>>, <<100, 67>>, <<100, 95>>, <<100, 3>>, <<100, 0>>}

\* (p * 10) / w; the core divides by 0 to 0.
Ratio10(p, w) == IF w = 0 THEN 0 ELSE (p * 10) \div w

Plausible(p, w) == Ratio10(p, w) \in MinRatioTime10..MaxRatioTime10

\* getMeanFromIsr(): 0 while the zeros are left when the filter has dropped
\* the largest periods.
MeanIsZero == Cardinality(Entries({"zero"})) >= AvgSize - Median

\* Is a bad measure counted?  The quotient by a mean of 0 is 0, which is not
\* above twice minRpm; one by a period is above it unless the period is longer
\* than that of minRpm.
CountsErrors == IF MeanIsZero THEN {FALSE} ELSE BOOLEAN

\* An edge starts the measure and calls nothing.
FirstEdge ==
    /\ icu = "waiting"
    /\ motion # "still"
    /\ icu' = "active"
    /\ ownStart' = IF session = "Hall_effect" THEN motion = "turns" ELSE ownStart
    /\ UNCHANGED <<motion, session, hasOverflow, winAvg, counted, sent, spin>>

\* The period runs from the last edge to this one.  The sensor of a motor that
\* turns gives its period, or a pulse that the ratio tells from one; noise
\* gives any.
HallPeriod ==
    /\ session = "Hall_effect"
    /\ icu = "active"
    /\ motion # "still"
    /\ \E pulse \in HallPulses :
         \/ /\ Plausible(pulse[1], pulse[2])
            /\ Measure(IF motion = "turns" /\ ownStart THEN "true" ELSE "ghost")
            /\ UNCHANGED counted
         \/ /\ ~Plausible(pulse[1], pulse[2])
            /\ \E count \in CountsErrors : counted' = (counted \/ count)
            /\ UNCHANGED <<winAvg, spin>>
    /\ ownStart' = (motion = "turns")
    /\ hasOverflow' = FALSE
    /\ UNCHANGED <<motion, session, icu, sent>>

\* Silences of the line, in ticks: inside the burst of a commutation, and from
\* the end of one burst to the next, the longest that does not overflow too.
InBurst == {MicroSeconds2timerOptoClk(5), InactiveDurationToDetectEnd}
AfterBurst == {InactiveDurationToDetectEnd + 1, InactiveDurationToDetectError, CounterTicks - 1}

\* Mutant: the time stamp stays.
StampKept == ownStart

\* std::exchange(optoTimeStamp, nowTS)
StampExchanged == motion = "turns"

\* The period is the time since the last burst ended, if that was this spin.
OptoPeriod ==
    /\ session = "Esc_coupler"
    /\ icu = "active"
    /\ motion # "still"
    /\ \E silence \in InBurst \cup AfterBurst :
         \/ /\ silence > InactiveDurationToDetectEnd
            /\ Measure(IF motion = "turns" /\ ownStart /\ silence \in AfterBurst
                         THEN "true" ELSE "ghost")
            /\ ownStart' = StampExchanged
         \/ /\ silence <= InactiveDurationToDetectEnd
            /\ UNCHANGED <<winAvg, spin, ownStart>>
    /\ hasOverflow' = FALSE
    /\ UNCHANGED <<motion, session, icu, counted, sent>>

\* Mutant: the overflow is only an error.
OverflowForgotten == hasOverflow' = hasOverflow

OverflowNoted == hasOverflow' = TRUE

\* The 16-bit counter went round without an edge.
OverflowCb ==
    /\ icu \in {"waiting", "active"}
    /\ OverflowNoted
    /\ icu' = "waiting"
    /\ SpinEnds
    /\ UNCHANGED <<motion, session, counted, sent>>

-----------------------------------------------------------------------------
(* The streaming thread                                                      *)

ResetBadMeasure == counted' = FALSE

\* setIcu(): the driver is started, captures, and calls back.
CaptureStarts(sensor) ==
    /\ session' = sensor
    /\ icu' = "waiting"
    /\ hasOverflow' = FALSE

Start(sensor) ==
    /\ session = "off"
    /\ ResetBadMeasure
    /\ CaptureStarts(sensor)
    /\ SpinEnds
    /\ UNCHANGED <<motion, sent>>

\* stopIcu()
StopIcu ==
    /\ session # "off"
    /\ session' = "off"
    /\ icu' = "stopped"
    /\ UNCHANGED <<motion, hasOverflow, winAvg, ownStart, counted, sent, spin>>

\* getRPM(): UINT_MAX ticks are 0 rpm, else it is the mean of the window,
\* whatever is in it.
Report ==
    /\ session # "off"
    /\ sent' = IF hasOverflow THEN "stopped" ELSE "speed"
    /\ UNCHANGED <<motion, session, icu, hasOverflow, winAvg, ownStart, counted, spin>>

Move ==
    /\ motion' \in {"turns", "still", "noise"} \ {motion}
    /\ SpinEnds
    /\ UNCHANGED <<session, icu, hasOverflow, counted, sent>>

Next ==
    \/ FirstEdge
    \/ HallPeriod
    \/ OptoPeriod
    \/ OverflowCb
    \/ \E sensor \in {"Hall_effect", "Esc_coupler"} : Start(sensor)
    \/ StopIcu
    \/ Report
    \/ Move

(* A counter that no edge resets overflows, and the thread sends.  Nothing is *)
(* assumed of the motor, the wire and the host.                               *)
Fairness ==
    /\ WF_vars(motion = "still" /\ OverflowCb)
    /\ WF_vars(Report)

Spec == Init /\ [][Next]_vars /\ Fairness

-----------------------------------------------------------------------------
(* Properties                                                                *)

(* A speed is of the motor as it turns now: of the measures made since a     *)
(* spin, a session or the noise began or an overflow, all but the first are  *)
(* this spin's own, whatever was in the window before.  The first may span   *)
(* the time since an edge or a burst from before the spin: a window later it *)
(* is still there, and the filter must drop it; one more, and it is gone.    *)
SpeedIsItsOwn ==
    session # "off" =>
        \A i \in 1..AvgSize : i > AvgSize + 1 - spin => winAvg[i] = "true"

(* A motor that stands is told to stand in the end, and from then on: the    *)
(* old speed of the window does not come back while there is no edge.        *)
StandstillTold ==
    <>[](motion = "still" /\ session # "off") => <>[](sent = "stopped")
=============================================================================
