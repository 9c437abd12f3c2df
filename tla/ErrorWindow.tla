----------------------------- MODULE ErrorWindow -----------------------------
(***************************************************************************)
(* The confidence messages of a streaming session: the capture interrupts  *)
(* push good and bad measures into a sliding window per motor, and the     *)
(* streaming thread, once every so many Rpms messages, sums the windows    *)
(* and copies them into an Errors message.                                 *)
(*                                                                         *)
(* An interrupt may come between any two reads of the thread, so the sum   *)
(* and the copy are one action per motor.  The windows are static: they    *)
(* outlive a session.  The speeds themselves, and the totals the console   *)
(* prints, are left out.                                                   *)
(***************************************************************************)
EXTENDS Naturals, Sequences, FiniteSets

CONSTANTS
    NbMotors,     \* the motors in use
    WindowSize,   \* ErrorWin::size(), INIT_ERRORS_WINDOW_SIZE (64)
    Rate          \* the most measures a motor makes from one message to the next

ASSUME ErrorWindowAssumption ==
    /\ NbMotors \in Nat \ {0}
    /\ WindowSize \in Nat \ {0}
    /\ Rate \in Nat \ {0}

VARIABLES
    winErr,     \* the window of each motor, oldest first: "good", "bad", and
                \* "told" for a bad measure that an Errors message counted
    overflow,   \* hasOverflow of each driver
    stream,     \* where the streaming thread is
    cnt,        \* its message counter, modulo WindowSize
    motor,      \* the motor whose window it reads next
    sum,        \* what it has summed so far
    made,       \* history: measures of each motor since the last message
    lost        \* history: bad measures of each motor that left the window
                \* untold since the last check

vars == <<winErr, overflow, stream, cnt, motor, sum, made, lost>>

Motors == 1..NbMotors

\* WindowAverage::getSum()
GetSum(m) == Cardinality({i \in 1..WindowSize : winErr[m][i] # "good"})

TypeOK ==
    /\ winErr \in [Motors -> [1..WindowSize -> {"good", "bad", "told"}]]
    /\ overflow \in [Motors -> BOOLEAN]
    /\ stream \in {"off", "send", "sum", "copy", "report", "sleep"}
    /\ cnt \in 0..(WindowSize - 1)
    /\ motor \in 1..(NbMotors + 1)
    /\ sum \in Nat
    /\ made \in [Motors -> 0..Rate]
    /\ lost \in [Motors -> Nat]

Init ==
    /\ winErr = [m \in Motors |-> [i \in 1..WindowSize |-> "good"]]
    /\ overflow = [m \in Motors |-> FALSE]
    /\ stream = "off"
    /\ cnt = 0
    /\ motor = 1
    /\ sum = 0
    /\ made = [m \in Motors |-> 0]
    /\ lost = [m \in Motors |-> 0]

-----------------------------------------------------------------------------
(* The capture interrupts.                                                   *)

\* WindowAverage::push(): the oldest entry leaves.
Slide(w, e) == Append(Tail(w), e)

\* winErr[m].push(e)
Push(m, e) ==
    /\ stream # "off"
    /\ made[m] < Rate
    /\ winErr' = [winErr EXCEPT ![m] = Slide(@, e)]
    /\ made' = [made EXCEPT ![m] = @ + 1]
    /\ lost' = [lost EXCEPT ![m] = IF Head(winErr[m]) = "bad" THEN @ + 1 ELSE @]
    /\ UNCHANGED <<stream, cnt, motor, sum>>

\* period_cb: the ratio of period to width is plausible, or not.
PeriodGood(m) == Push(m, "good") /\ overflow' = [overflow EXCEPT ![m] = FALSE]
PeriodBad(m)  == Push(m, "bad")  /\ overflow' = [overflow EXCEPT ![m] = FALSE]

\* overflow_cb: the motor is too slow, or stands.
Overflow(m)   == Push(m, "bad")  /\ overflow' = [overflow EXCEPT ![m] = TRUE]

-----------------------------------------------------------------------------
(* The streaming thread.                                                     *)

\* setIcuForHallSensor() resets hasOverflow, and leaves the windows.
Start ==
    /\ stream = "off"
    /\ overflow' = [m \in Motors |-> FALSE]
    /\ stream' = "send"
    /\ cnt' = 0
    /\ made' = [m \in Motors |-> 0]
    /\ UNCHANGED <<winErr, motor, sum, lost>>

\* Mutant: the counter is compared with the size it never reaches.
DueNever == cnt = WindowSize

\* (cnt++ % ErrorWin::size()) == 0
Due == cnt = 0

\* The Rpms message is sent.
RpmsSent ==
    /\ stream = "send"
    /\ cnt' = (cnt + 1) % WindowSize
    /\ stream' = IF Due THEN "sum" ELSE "sleep"
    /\ UNCHANGED <<winErr, overflow, motor, sum, made, lost>>

\* std::accumulate over the motors
SumOne ==
    /\ stream = "sum"
    /\ IF motor <= NbMotors
         THEN /\ sum' = sum + GetSum(motor)
              /\ motor' = motor + 1
              /\ lost' = [lost EXCEPT ![motor] = 0]
              /\ UNCHANGED stream
         ELSE /\ stream' = IF sum > 0 THEN "copy" ELSE "sleep"
              /\ motor' = 1
              /\ sum' = 0
              /\ UNCHANGED lost
    /\ UNCHANGED <<winErr, overflow, cnt, made>>

\* copyValToMsg(errors, ...): what it counts is told.
CopyOne ==
    /\ stream = "copy"
    /\ IF motor <= NbMotors
         THEN /\ winErr' = [winErr EXCEPT ![motor] =
                              [i \in 1..WindowSize |-> IF @[i] = "bad" THEN "told" ELSE @[i]]]
              /\ motor' = motor + 1
              /\ UNCHANGED stream
         ELSE /\ stream' = "report"
              /\ motor' = 1
              /\ UNCHANGED winErr
    /\ UNCHANGED <<overflow, cnt, sum, made, lost>>

\* The Errors message is sent.
ErrorsSent ==
    /\ stream = "report"
    /\ stream' = "sleep"
    /\ UNCHANGED <<winErr, overflow, cnt, motor, sum, made, lost>>

\* The next message is due: the speeds are copied and the send begins.
Wake ==
    /\ stream = "sleep"
    /\ stream' = "send"
    /\ made' = [m \in Motors |-> 0]
    /\ UNCHANGED <<winErr, overflow, cnt, motor, sum, lost>>

\* The thread was asked to end: the captures are stopped.
Stop ==
    /\ stream = "sleep"
    /\ stream' = "off"
    /\ UNCHANGED <<winErr, overflow, cnt, motor, sum, made, lost>>

StreamerStep == RpmsSent \/ SumOne \/ CopyOne \/ ErrorsSent \/ Wake

Next ==
    \/ \E m \in Motors : PeriodGood(m) \/ PeriodBad(m) \/ Overflow(m)
    \/ Start
    \/ Stop
    \/ StreamerStep

(* The thread runs when it can; nothing is assumed of the motors.            *)
Spec == Init /\ [][Next]_vars /\ WF_vars(StreamerStep)

-----------------------------------------------------------------------------
(* Properties                                                                *)

(* What the check misses is bounded: from one sum of a window to the next,   *)
(* the measures of the check's own message, and those by which a full round  *)
(* of messages exceeds the window.                                           *)
LossBounded == \A m \in Motors : lost[m] <= (Rate - 1) * WindowSize + Rate

(* A sensor that gives nothing but bad measures is reported over and over,   *)
(* or the session ends.                                                      *)
BadSensorReported ==
    \A m \in Motors :
        <>[](\A i \in 1..WindowSize : winErr[m][i] # "good") =>
            []<>(stream \in {"report", "off"})
=============================================================================
