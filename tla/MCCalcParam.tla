----------------------------- MODULE MCCalcParam -----------------------------
EXTENDS IcuTimers

(* The board's clock, and for each parameter the values at and around the    *)
(* bounds of cache(); some combinations leave less than 3 bits of resolution. *)
MCTimerFreqIn == 84000000
MCMinRpms     == 9..10001
MCMaxRpms     == {0, 301, 30000, 65535, 100000, 500000}
MCMagnets     == {2, 3, 7, 14, 60, 100}
MCMotorCounts == {1, 9}

\* The configurations that messages bring: few, at the bounds.
Messages ==
    {u \in [minRpm : {9, 10, 300, 10000}, maxRpm : {0, 301, 65535, 100000, 500000},
            magnets : {2, 3, 100}, nbMotors : MCMotorCounts] :
        u.nbMotors = 9 => u.minRpm = 300 /\ u.maxRpm = 65535 /\ u.magnets = 3}

\* The configurations the EEPROM holds: these, and one for every minRpm.
Stored ==
    Messages \cup [minRpm : MCMinRpms, maxRpm : {30000}, magnets : {3, 7, 14, 60, 100},
                   nbMotors : {1}]

MCSetParams == up' \in Messages /\ SetParams
MCInit      == up \in Stored /\ Init
MCSpec      == MCInit /\ [][MCSetParams \/ Start \/ Setup \/ Stop]_vars
=============================================================================
