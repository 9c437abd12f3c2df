------------------------------ MODULE CalcParam ------------------------------
(***************************************************************************)
(* CalculatedParam::cache(): what it derives from the motor parameters,    *)
(* what it refuses, and what the timers and the speeds of a streaming      *)
(* session are then made of.                                               *)
(*                                                                         *)
(* cache() runs twice at a start: in rpmStartStreaming(), which heeds its  *)
(* verdict, and in sensorStreamer(), which does not.  It writes calcParam  *)
(* field by field, so a refusal can leave some fields new and some old.    *)
(* The arithmetic is in CalcArith; a speed is sent in 16 bits.             *)
(***************************************************************************)
EXTENDS CalcArith

CONSTANTS
    MinRpms, MaxRpms, Magnets, MotorCounts  \* what MotorParameters carry

ASSUME CalcParamAssumption ==
    /\ TimerFreqIn \in Nat /\ TimerFreqIn < 134217728
    /\ MinRpms \subseteq Nat
    /\ MaxRpms \subseteq Nat
    /\ Magnets \subseteq Nat
    /\ MotorCounts \subseteq Nat

VARIABLES
    up,       \* the motor parameters in userParam
    calc,     \* the fields of calcParam that streaming reads
    stream,   \* the streaming thread: "off", "created", "on"
    psc,      \* the prescaler register of the timers, per clock ratio
    width     \* widthOneRpm of the PeriodSense objects

vars == <<up, calc, stream, psc, width>>

-----------------------------------------------------------------------------
Params == [minRpm : MinRpms, maxRpm : MaxRpms, magnets : Magnets, nbMotors : MotorCounts]

\* calcParam: of its seven fields the two a session with hall sensors reads.
CalculatedParams == [timDivider : Nat, width : Nat]

-----------------------------------------------------------------------------
TypeOK ==
    /\ up \in Params
    /\ calc \in CalculatedParams
    /\ stream \in {"off", "created", "on"}
    /\ psc \in [ClockRatios -> 0..(Range16 - 1)]
    /\ width \in Nat

\* userParam holds what the EEPROM held; calcParam is zero.
Init ==
    /\ up \in Params
    /\ calc = [timDivider |-> 0, width |-> 0]
    /\ stream = "off"
    /\ psc = [r \in ClockRatios |-> 0]
    /\ width = 0

\* A MotorParameters message: taken in the Stop state only.
SetParams ==
    /\ stream = "off"
    /\ up' \in Params
    /\ UNCHANGED <<calc, stream, psc, width>>

\* rpmStartStreaming()
Start ==
    /\ stream = "off"
    /\ calc' = Cached(up, calc)
    /\ stream' = IF Accepts(up) THEN "created" ELSE "off"
    /\ UNCHANGED <<up, psc, width>>

\* sensorStreamer() up to its loop: cache() again, then every timer is set.
Setup ==
    /\ stream = "created"
    /\ calc' = Cached(up, calc)
    /\ psc' = [r \in ClockRatios |-> Prescaler(calc'.timDivider, r)]
    /\ width' = calc'.width
    /\ stream' = "on"
    /\ UNCHANGED up

\* rpmStopStreaming()
Stop ==
    /\ stream = "on"
    /\ stream' = "off"
    /\ UNCHANGED <<up, calc, psc, width>>

Next == SetParams \/ Start \/ Setup \/ Stop

Spec == Init /\ [][Next]_vars

-----------------------------------------------------------------------------
(* Properties                                                                *)

\* The ticks a timer counts between two magnets of a motor at speed rpm.
Ticks(rpm) == WidthOneRpmHall(psc[1] + 1, up.magnets) \div rpm

\* uint16_t, the type of a speed in a Rpms message
RpmsAType(v) == v % Range16

\* What PeriodSense::getRPM() makes of them, and what a Rpms message carries.
MeasuredRpm(rpm) == width \div Ticks(rpm)
ReportedRpm(rpm) == RpmsAType(MeasuredRpm(rpm))

(* The prescalers are the divider cache() has computed, on either clock: the *)
(* conversions to 16 bits in setDivider() lose nothing, and both timers tick *)
(* at the same rate.                                                         *)
DividerProgrammed ==
    stream = "on" => \A r \in ClockRatios : psc[r] + 1 = calc.timDivider * r

(* At the least speed the user wants to see, the period fits the counter, so *)
(* that no overflow is taken for a measure error: the roundings of cache()   *)
(* (truncated frequency, 24-bit float, ceilf) err on the safe side.          *)
MinRpmFits == stream = "on" => Ticks(up.minRpm) <= 65535

(* Between smin and smax the measured speed is at most an eighth too high    *)
(* and never too low: 3 bits of resolution at smax are enough.               *)
MeasureFaithful ==
    stream = "on" =>
        \A rpm \in {up.minRpm, up.maxRpm} : MeasuredRpm(rpm) \in rpm..(rpm + rpm \div 8)

(* "smax : maximum rpm at which we want to have valid speed value"           *)
(* (ttyConsole.cpp:224): a motor at smax is not reported as slower.          *)
MaxRpmReported == stream = "on" => ReportedRpm(up.maxRpm) >= up.maxRpm
=============================================================================
