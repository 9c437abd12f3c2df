---------------------------- MODULE StreamControl ----------------------------
(***************************************************************************)
(* The life cycle of the streaming thread of octo_tachymeter, as main(),   *)
(* the serial receive thread, the USB shell and the streaming thread       *)
(* itself drive it through userParam, streamerThd, the PeriodSense objects *)
(* psa[] and the EEPROM.                                                   *)
(*                                                                         *)
(* Scheduling.  All threads run at NORMALPRIO and chconf.h sets            *)
(* CH_CFG_TIME_QUANTUM to 0, so a thread keeps the CPU until it blocks: in *)
(* a send on the UART, in chThdWait, in a sleep.  One action is therefore  *)
(* one run of a thread from a blocking point to the next.                  *)
(*                                                                         *)
(* Data.  The magnets and rpm bounds of a motor matter to control only     *)
(* through what CalculatedParam::cache() says of them (module CalcParam),  *)
(* so they are the single field "fit".  Message contents, timing and the   *)
(* filter sizes are left out.                                              *)
(*                                                                         *)
(* Undefined behaviour.  Reading through a null icup, writing past the end *)
(* of an array and starting a thread on a working area in use set "fault"  *)
(* and stop the model: nothing is claimed about what follows.              *)
(***************************************************************************)
EXTENDS Integers

CONSTANTS
    NbEntries,      \* ICU_NUMBER_OF_ENTRIES: motors the board can sense (8)
    InitMotors,     \* INIT_MOTOR_NB_MOTORS (4)
    MotorCounts,    \* the values of nbMotors that messages and EEPROM carry
    Sensors,        \* the values of sensorType that messages and EEPROM carry
    Fits,           \* the verdicts of cache() on magnets and rpm bounds
    EarlyCommands   \* are serial commands handled while main() is still
                    \* inside the start it makes at boot?

ASSUME StreamControlAssumption ==
    /\ NbEntries \in Nat \ {0}
    /\ InitMotors \in 1..NbEntries
    /\ MotorCounts \subseteq Nat
    /\ 1..NbEntries \subseteq MotorCounts
    /\ Sensors \subseteq {"Hall_effect", "Esc_coupler", "No_Init"}
    /\ "Hall_effect" \in Sensors
    /\ Fits \subseteq {"ok", "warn", "bad"}
    /\ "ok" \in Fits
    /\ EarlyCommands \in BOOLEAN

VARIABLES
    up,           \* userParam: runningState, nbMotors, sensorType, fit
    rom,          \* what the EEPROM holds: a userParam image or NoConf
    loaded,       \* history: was a configuration loaded since boot?
    streamerThd,  \* is the pointer streamerThd non-null?
    terminate,    \* the termination request of the streaming thread
    strm,         \* where the streaming thread is
    slot,         \* the motor at which setIcu() is blocked in a send
    icup,         \* psa[i].icup and the state of its ICU driver
    index,        \* icup->index: the averaging window the driver fills
    indexer,      \* PeriodSense::indexer
    recv,         \* where the serial receive thread is
    main,         \* where main() is
    fault         \* the undefined behaviour met, or "none"

params == <<up, rom, loaded>>
thread == <<streamerThd, terminate, strm, slot>>
icus   == <<icup, index, indexer>>
vars   == <<params, thread, icus, recv, main, fault>>

-----------------------------------------------------------------------------
Entries       == 0..(NbEntries - 1)
RunningStates == {"Stop", "Run", "Error"}

\* The motor parameters of a configuration, and a whole userParam image.
UserParams == [runningState : RunningStates, nbMotors : MotorCounts,
               sensorType : Sensors, fit : Fits]
NoConf     == [runningState |-> "none"]

\* The values userParam has before the EEPROM is read.
InitParam == [runningState |-> "Run", nbMotors |-> InitMotors,
              sensorType |-> "Hall_effect", fit |-> "ok"]

\* What CalculatedParam::cache() says of a configuration: "ok" and "warn"
\* accept it, and "warn" and "bad" block the caller in a send.
Verdict(u) == IF u.nbMotors \in 1..NbEntries THEN u.fit ELSE "bad"

\* The motors the loops over nbMotors visit, and the loops that stay inside
\* psa[] and the arrays of the messages, and meet no null icup.
Tracked(u)      == 0..(u.nbMotors - 1)
Readable(u, ic) == \A i \in Tracked(u) : i \in Entries /\ ic[i] # "null"

Breakage(u) == IF u.nbMotors > NbEntries THEN "outOfBounds" ELSE "nullIcu"

TypeOK ==
    /\ up \in UserParams
    /\ rom \in UserParams \cup {NoConf}
    /\ loaded \in BOOLEAN
    /\ streamerThd \in BOOLEAN
    /\ terminate \in BOOLEAN
    /\ strm \in {"none", "ready", "caching", "setup", "rpms", "errs", "sleep"}
    /\ slot \in Nat
    /\ icup \in [Entries -> {"null", "stopped", "capturing"}]
    /\ index \in [Entries -> Nat]
    /\ indexer \in Nat
    /\ recv \in {"idle", "starting", "stopWait", "stopped"}
    /\ main \in {"boot", "starting", "run", "console", "shell"}
    /\ fault \in {"none", "waReused", "nullIcu", "outOfBounds"}

-----------------------------------------------------------------------------
(* A board starts with its EEPROM blank, or as an earlier session left it.  *)
Init ==
    /\ up = InitParam
    /\ rom \in UserParams \cup {NoConf}
    /\ loaded = FALSE
    /\ streamerThd = FALSE
    /\ terminate = FALSE
    /\ strm = "none"
    /\ slot = 0
    /\ icup = [i \in Entries |-> "null"]
    /\ index = [i \in Entries |-> 0]
    /\ indexer = 0
    /\ recv = "idle"
    /\ main = "boot"
    /\ fault = "none"

(* chThdCreateStatic on waStreamer.  The working area of a live thread must *)
(* not be used for a second one.                                            *)
CreateStreamer ==
    \/ /\ strm = "none"
       /\ strm' = "ready"
       /\ streamerThd' = TRUE
       /\ terminate' = FALSE
       /\ UNCHANGED <<slot, fault>>
    \/ /\ strm # "none"
       /\ fault' = "waReused"
       /\ UNCHANGED thread

(* rpmStartStreaming() with configuration u: the thread is created at once; *)
(* or the caller is held in the send of a warning before it is; or nothing  *)
(* is created, because a thread is known or cache() refuses u.              *)
StartNow(u)     == ~streamerThd /\ Verdict(u) = "ok" /\ CreateStreamer
StartHeld(u)    == ~streamerThd /\ Verdict(u) = "warn" /\ UNCHANGED <<thread, fault>>
StartRefused(u) == /\ streamerThd \/ Verdict(u) = "bad"
                   /\ UNCHANGED <<thread, fault>>

(* UserParam::readConfFromEEprom().  A blank EEPROM is wiped, which may     *)
(* fail, and initialised from RAM, which may fail too.                      *)
ReadConf(u) ==
    \/ rom # NoConf /\ u = rom /\ rom' = rom
    \/ rom = NoConf /\ u = up /\ rom' \in {NoConf, up}

-----------------------------------------------------------------------------
(* main() *)

(* From reset to the wait for VBUS, or to the warning of the first cache().  *)
MainBoot ==
    /\ main = "boot"
    /\ \E u \in UserParams :
         /\ ReadConf(u)
         /\ up' = u
         /\ \/ /\ u.runningState = "Run"
               /\ \/ (StartNow(u) \/ StartRefused(u)) /\ main' = "run"
                  \/ StartHeld(u) /\ main' = "starting"
            \/ /\ u.runningState # "Run"
               /\ main' = "run"
               /\ UNCHANGED <<thread, fault>>
    /\ UNCHANGED <<loaded, icus, recv>>

(* The warning is sent: rpmStartStreaming() goes on where it was.            *)
MainStartResume ==
    /\ main = "starting"
    /\ CreateStreamer
    /\ main' = "run"
    /\ UNCHANGED <<params, icus, recv>>

(* VBUS is there: runningState is set to Stop, then the console is started.  *)
MainUsb ==
    /\ main = "run"
    /\ up' = [up EXCEPT !.runningState = "Stop"]
    /\ main' = "console"
    /\ UNCHANGED <<rom, loaded, thread, icus, recv, fault>>

(* The host has opened the port: the shell thread exists.                    *)
MainShell ==
    /\ main = "console"
    /\ main' = "shell"
    /\ UNCHANGED <<params, thread, icus, recv, fault>>

(* USB unplugged, the shell's restart, or the power lost and back: RAM has  *)
(* its initial values again, the EEPROM stays.                               *)
Reset ==
    /\ main # "boot"
    /\ rom' = rom
    /\ up' = InitParam
    /\ loaded' = FALSE
    /\ streamerThd' = FALSE
    /\ terminate' = FALSE
    /\ strm' = "none"
    /\ slot' = 0
    /\ icup' = [i \in Entries |-> "null"]
    /\ index' = [i \in Entries |-> 0]
    /\ indexer' = 0
    /\ recv' = "idle"
    /\ main' = "boot"
    /\ fault' = "none"

-----------------------------------------------------------------------------
(* The serial receive thread: one message at a time, each run to completion *)
(* by its runOnRecept().                                                    *)
CanReceive ==
    /\ recv = "idle"
    /\ main # "boot"
    /\ main = "starting" => EarlyCommands

(* StartStopMeasure(Run).  A message that asks for the current state is     *)
(* dropped.                                                                  *)
RecvRun ==
    /\ CanReceive
    /\ up.runningState # "Run"
    /\ up' = [up EXCEPT !.runningState = "Run"]
    /\ \/ (StartNow(up) \/ StartRefused(up)) /\ recv' = "idle"
       \/ StartHeld(up) /\ recv' = "starting"
    /\ UNCHANGED <<rom, loaded, icus, main>>

RecvStartResume ==
    /\ recv = "starting"
    /\ CreateStreamer
    /\ recv' = "idle"
    /\ UNCHANGED <<params, icus, main>>

\* Mutants: the request is forgotten; the thread is not waited for.
NoTerminate == UNCHANGED terminate
NoWait      == UNCHANGED recv /\ streamerThd' = FALSE

\* chThdTerminate(streamerThd) and the wait of chThdWait(streamerThd)
ChThdTerminate == terminate' = TRUE
ChThdWait      == recv' = "stopWait" /\ UNCHANGED streamerThd

(* StartStopMeasure(Stop): rpmStopStreaming() asks the thread to end and     *)
(* waits for it.                                                             *)
RecvStop ==
    /\ CanReceive
    /\ up.runningState # "Stop"
    /\ up' = [up EXCEPT !.runningState = "Stop"]
    /\ IF streamerThd
         THEN ChThdTerminate /\ ChThdWait
         ELSE UNCHANGED <<terminate, recv, streamerThd>>
    /\ UNCHANGED <<rom, loaded, strm, slot, icus, main, fault>>

\* Mutant: the pointer to the ended thread is kept.
KeepHandle == UNCHANGED streamerThd

\* streamerThd = nullptr
ForgetStreamer == streamerThd' = FALSE

(* chThdWait has returned.                                                   *)
RecvStopDone ==
    /\ recv = "stopped"
    /\ ForgetStreamer
    /\ up' = [up EXCEPT !.runningState = "Stop"]
    /\ recv' = "idle"
    /\ UNCHANGED <<rom, loaded, terminate, strm, slot, icus, main, fault>>

(* StartStopMeasure(Error): stored, and neither branch is taken.             *)
RecvError ==
    /\ CanReceive
    /\ up.runningState # "Error"
    /\ up' = [up EXCEPT !.runningState = "Error"]
    /\ UNCHANGED <<rom, loaded, thread, icus, recv, main, fault>>

\* Mutant: the parameters are taken in any state.
TakesAnyTime == TRUE

\* The state in which MotorParameters are taken.
TakesParameters == up.runningState = "Stop"

(* MotorParameters: taken as they are in the Stop state, else ignored with   *)
(* a warning.                                                                *)
RecvMotorParameters ==
    /\ CanReceive
    /\ TakesParameters
    /\ \E nb \in MotorCounts, st \in Sensors, f \in Fits :
         up' = [up EXCEPT !.nbMotors = nb, !.sensorType = st, !.fit = f]
    /\ UNCHANGED <<rom, loaded, thread, icus, recv, main, fault>>

-----------------------------------------------------------------------------
(* The EEPROM commands, from the serial line or from the shell.  A store or  *)
(* an erase may fail and leave the EEPROM as it was; a wipe keeps the data.  *)
CanUseEeprom == CanReceive \/ main = "shell"

StoreConf ==
    /\ CanUseEeprom
    /\ rom' = up
    /\ UNCHANGED <<up, loaded, thread, icus, recv, main, fault>>

EraseConf ==
    /\ CanUseEeprom
    /\ rom' = NoConf
    /\ UNCHANGED <<up, loaded, thread, icus, recv, main, fault>>

LoadConf ==
    /\ CanUseEeprom
    /\ \E u \in UserParams :
         /\ ReadConf(u)
         /\ up' = u
         /\ loaded' = (loaded \/ u # up)
    /\ UNCHANGED <<thread, icus, recv, main, fault>>

-----------------------------------------------------------------------------
\* Mutant: the range starts at 0.
MotorRangeFromZero == 0..NbEntries

\* The range the table of "conf" gives for "motor".
MotorRange == 1..NbEntries

(* The shell: "conf" sets one parameter in any state, within the range its  *)
(* table gives; "conf errors" and "conf show" read every tracked motor.     *)
ShellSet ==
    /\ main = "shell"
    /\ \/ \E nb \in MotorRange : up' = [up EXCEPT !.nbMotors = nb]
       \/ \E f \in Fits : up' = [up EXCEPT !.fit = f]
    /\ UNCHANGED <<rom, loaded, thread, icus, recv, main, fault>>

\* rpmGetTotalErrors(i): it reads through the icup of a motor in use.
TotalErrorsReadable(i) == i \in Tracked(up) => i \in Entries /\ icup[i] # "null"

ShellErrors ==
    /\ main = "shell"
    /\ \E i \in Tracked(up) : ~TotalErrorsReadable(i)
    /\ fault' = Breakage(up)
    /\ UNCHANGED <<params, thread, icus, recv, main>>

-----------------------------------------------------------------------------
(* The streaming thread: sensorStreamer().                                   *)

\* Mutant: resetIcu() is not called.
ResetIcuForgotten == indexer

\* What PeriodSense::resetIcu() leaves in indexer.
ResetIcu == 0

(* The head of its loop, with the captures ic and n indices given out.  If  *)
(* it was asked to end, the captures of the motors counted now are stopped, *)
(* and the thread that waits for it is woken.  If not, it copies the speed  *)
(* of every motor and blocks in the send of the Rpms message.               *)
LoopHead(ic, n) ==
    \/ /\ Readable(up, ic)
       /\ terminate
       /\ icup' = [i \in Entries |-> IF i \in Tracked(up) THEN "stopped" ELSE ic[i]]
       /\ indexer' = ResetIcu
       /\ strm' = "none"
       /\ recv' = IF recv = "stopWait" THEN "stopped" ELSE recv
       /\ UNCHANGED fault
    \/ /\ Readable(up, ic)
       /\ ~terminate
       /\ icup' = ic
       /\ indexer' = n
       /\ strm' = "rpms"
       /\ UNCHANGED <<recv, fault>>
    \/ /\ ~Readable(up, ic)
       /\ icup' = ic
       /\ indexer' = n
       /\ fault' = Breakage(up)
       /\ UNCHANGED <<strm, recv>>

(* setIcuForHallSensor() on the motors from k on: each driver captures, with *)
(* the next index.                                                           *)
HallCaptures(k) == [i \in Entries |-> IF i \in k..(up.nbMotors - 1) THEN "capturing"
                                                                    ELSE icup[i]]
HallIndices(k)  == [i \in Entries |-> IF i \in k..(up.nbMotors - 1) THEN indexer + i - k
                                                                    ELSE index[i]]

(* setIcu() for the motors from k on.  A hall sensor is configured without   *)
(* blocking, so all of them are.  Another sensor type is reported, one send  *)
(* per motor, and its icup is left as it was.                                *)
SetIcus(k) ==
    \/ /\ k < up.nbMotors
       /\ up.nbMotors <= NbEntries
       /\ up.sensorType = "Hall_effect"
       /\ index' = HallIndices(k)
       /\ LoopHead(HallCaptures(k), indexer + up.nbMotors - k)
       /\ slot' = 0
    \/ /\ k < up.nbMotors
       /\ up.nbMotors <= NbEntries
       /\ up.sensorType # "Hall_effect"
       /\ strm' = "setup"
       /\ slot' = k
       /\ UNCHANGED <<icus, recv, fault>>
    \/ /\ k < up.nbMotors
       /\ up.nbMotors > NbEntries
       /\ fault' = "outOfBounds"
       /\ UNCHANGED <<strm, slot, icus, recv>>
    \/ /\ k >= up.nbMotors
       /\ LoopHead(icup, indexer)
       /\ slot' = 0
       /\ UNCHANGED index

StreamerKeeps == UNCHANGED <<params, streamerThd, terminate, main>>

(* It first calls cache() again, which may hold it in a send, and goes on    *)
(* whatever the verdict.                                                     *)
StreamerCache ==
    /\ strm = "ready"
    /\ Verdict(up) # "ok"
    /\ strm' = "caching"
    /\ UNCHANGED <<slot, icus, recv, fault>>
    /\ StreamerKeeps

StreamerSetup ==
    /\ strm = "caching" \/ (strm = "ready" /\ Verdict(up) = "ok")
    /\ SetIcus(0)
    /\ StreamerKeeps

\* Mutant: the loop does not move to the next motor.
StreamerSetupAgain ==
    /\ strm = "setup"
    /\ SetIcus(slot)
    /\ StreamerKeeps

(* The report on the sensor type of motor "slot" is sent.                    *)
StreamerSetupResume ==
    /\ strm = "setup"
    /\ SetIcus(slot + 1)
    /\ StreamerKeeps

(* The Rpms message is sent.  Every 64th time the errors of the motors are   *)
(* summed, and an Errors message follows if there are any.                   *)
StreamerAfterRpms ==
    /\ strm = "rpms"
    /\ \/ strm' = "sleep" /\ UNCHANGED fault
       \/ Readable(up, icup) /\ strm' = "errs" /\ UNCHANGED fault
       \/ ~Readable(up, icup) /\ fault' = Breakage(up) /\ UNCHANGED strm
    /\ UNCHANGED <<slot, icus, recv>>
    /\ StreamerKeeps

StreamerAfterErrs ==
    /\ strm = "errs"
    /\ strm' = "sleep"
    /\ UNCHANGED <<slot, icus, recv, fault>>
    /\ StreamerKeeps

StreamerWake ==
    /\ strm = "sleep"
    /\ LoopHead(icup, indexer)
    /\ UNCHANGED <<slot, index>>
    /\ StreamerKeeps

-----------------------------------------------------------------------------
StreamerStep ==
    \/ StreamerCache
    \/ StreamerSetup
    \/ StreamerSetupResume
    \/ StreamerAfterRpms
    \/ StreamerAfterErrs
    \/ StreamerWake

RecvStep ==
    \/ RecvRun
    \/ RecvStartResume
    \/ RecvStop
    \/ RecvStopDone
    \/ RecvError
    \/ RecvMotorParameters

Step ==
    \/ MainBoot
    \/ MainStartResume
    \/ MainUsb
    \/ MainShell
    \/ RecvStep
    \/ StoreConf
    \/ EraseConf
    \/ LoadConf
    \/ ShellSet
    \/ ShellErrors
    \/ StreamerStep

Next == Reset \/ (fault = "none" /\ Step)

(* A thread that is not blocked for ever runs: a send and a sleep end, and   *)
(* chThdWait returns when the thread has ended.  Nothing is assumed of the   *)
(* host, of the USB cable or of the user.                                    *)
Fairness ==
    /\ WF_vars(fault = "none" /\ StreamerStep)
    /\ WF_vars(fault = "none" /\ RecvStartResume)
    /\ WF_vars(fault = "none" /\ RecvStopDone)
    /\ WF_vars(fault = "none" /\ MainStartResume)

Spec == Init /\ [][Next]_vars /\ Fairness

-----------------------------------------------------------------------------
(* Properties                                                                *)

\* Has something other than start, stop and MotorParameters messages changed
\* the parameters, or may it have: USB is plugged, which sets runningState and
\* opens the console, or a Load has brought another configuration?
Disturbed == main \in {"console", "shell"} \/ loaded

(* rpmStartStreaming() and rpmStopStreaming() trust streamerThd: it is       *)
(* non-null exactly from the creation of the thread until its end has been   *)
(* seen, so no second thread is ever put on waStreamer.                      *)
HandleTracksThread ==
    /\ streamerThd <=> (strm # "none" \/ recv = "stopped")
    /\ fault # "waReused"

(* A Stop is honoured: until the plug of USB or an EEPROM load changes       *)
(* runningState behind its back, a thread that lives while runningState is   *)
(* Stop is one that rpmStopStreaming() is waiting for.                       *)
StopHonoured ==
    up.runningState = "Stop" /\ strm # "none" => recv = "stopWait" \/ Disturbed

(* While hall sensors are streamed, the drivers that capture are those of    *)
(* the motors in use, each filling the window of its own motor; without a    *)
(* streaming thread no driver captures and the indices start again from 0.   *)
(* After the plug of USB or a load nothing is said: nbMotors may then change *)
(* under the thread.                                                         *)
CaptureSet ==
    Disturbed \/
    /\ strm \in {"rpms", "errs", "sleep"} /\ up.sensorType = "Hall_effect" =>
         /\ \A i \in Entries : icup[i] = "capturing" <=> i \in Tracked(up)
         /\ \A i \in Tracked(up) : index[i] = i
         /\ indexer = up.nbMotors
    /\ strm \in {"none", "ready", "caching"} =>
         /\ \A i \in Entries : icup[i] # "capturing"
         /\ indexer = 0

(* Start and stop commands, MotorParameters messages and resets, in any      *)
(* order, never make the thread leave its arrays, and make it read a null    *)
(* icup only with a sensor type this build does not know.  The console and   *)
(* a Load of another configuration can make it do both: they are excluded.   *)
NoFaultInNormalUse ==
    /\ fault = "outOfBounds" => Disturbed
    /\ fault = "nullIcu" => Disturbed \/ up.sensorType # "Hall_effect"

(* The configuration a thread was started with stays in place while it       *)
(* lives: MotorParameters are refused until the thread has ended.  So it is  *)
(* until the plug of USB, which lets them through (see                       *)
(* MotorParametersIgnoredWhenRunning), or a Load of another configuration.   *)
ConfigFrozen ==
    [][strm # "none" /\ strm' # "none" /\ ~Disturbed' =>
         up' = [up EXCEPT !.runningState = up'.runningState]]_vars

(* The working area waStreamer is used as ChibiOS demands: a thread ends     *)
(* only when it was asked to, and is collected before the next one starts.   *)
Slot == INSTANCE StaticThread WITH
    area  <- IF fault = "waReused" THEN "clobbered"
             ELSE IF strm # "none" THEN "live"
             ELSE IF recv = "stopped" THEN "ended" ELSE "free",
    asked <- terminate

UsesAreaProperly == Slot!StaticThreadSpec

(* "ignoring MotorParameters when running" (messageImplChibios.hpp:74): no   *)
(* MotorParameters message is applied while the thread streams.              *)
MotorParametersIgnoredWhenRunning ==
    [][RecvMotorParameters => strm = "none"]_vars

(* The receive thread does not wait for ever in chThdWait.                   *)
StopCompletes == recv = "stopWait" ~> recv = "idle" \/ fault # "none"

(* A thread that was created sends a Rpms message, or ends.                  *)
StartCompletes == strm = "ready" ~> strm \in {"rpms", "none"} \/ fault # "none"
=============================================================================
