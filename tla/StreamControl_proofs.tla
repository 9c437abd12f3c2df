------------------------- MODULE StreamControl_proofs -------------------------
(***************************************************************************)
(* Theorems about StreamControl, for every size of the board and every set *)
(* of configurations that messages and EEPROM may carry.                   *)
(***************************************************************************)
EXTENDS StreamControl, TLAPS

USE DEF RunningStates

(* A configuration's fields, and what a change of one of them yields.        *)
LEMMA InitParamType == InitParam \in UserParams
  BY StreamControlAssumption DEF InitParam, UserParams

LEMMA UserParamFields ==
  ASSUME NEW u \in UserParams
  PROVE  /\ u.runningState \in RunningStates
         /\ u.nbMotors \in MotorCounts
         /\ u.nbMotors \in Nat
         /\ u.sensorType \in Sensors
         /\ u.fit \in Fits
  BY StreamControlAssumption DEF UserParams

LEMMA UserParamUpdates ==
  ASSUME NEW u \in UserParams, NEW rs \in RunningStates,
         NEW nb \in MotorCounts, NEW st \in Sensors, NEW f \in Fits
  PROVE  /\ [u EXCEPT !.runningState = rs] \in UserParams
         /\ [u EXCEPT !.nbMotors = nb] \in UserParams
         /\ [u EXCEPT !.fit = f] \in UserParams
         /\ [u EXCEPT !.nbMotors = nb, !.sensorType = st, !.fit = f] \in UserParams
  BY DEF UserParams

(* The head of the streaming loop keeps the types of what it writes.         *)
LEMMA LoopHeadType ==
  ASSUME TypeOK,
         NEW ic \in [Entries -> {"null", "stopped", "capturing"}], NEW n \in Nat,
         LoopHead(ic, n)
  PROVE  /\ icup' \in [Entries -> {"null", "stopped", "capturing"}]
         /\ indexer' \in Nat
         /\ strm' \in {"none", "ready", "caching", "setup", "rpms", "errs", "sleep"}
         /\ recv' \in {"idle", "starting", "stopWait", "stopped"}
         /\ fault' \in {"none", "waReused", "nullIcu", "outOfBounds"}
  BY DEF TypeOK, LoopHead, ResetIcu, Breakage

LEMMA SetIcusType ==
  ASSUME TypeOK, NEW k \in Nat, SetIcus(k)
  PROVE  /\ icup' \in [Entries -> {"null", "stopped", "capturing"}]
         /\ index' \in [Entries -> Nat]
         /\ indexer' \in Nat
         /\ slot' \in Nat
         /\ strm' \in {"none", "ready", "caching", "setup", "rpms", "errs", "sleep"}
         /\ recv' \in {"idle", "starting", "stopWait", "stopped"}
         /\ fault' \in {"none", "waReused", "nullIcu", "outOfBounds"}
<1>0. up.nbMotors \in Nat
  BY UserParamFields DEF TypeOK
<1>1. CASE /\ k < up.nbMotors
           /\ up.nbMotors <= NbEntries
           /\ up.sensorType = "Hall_effect"
  <2>1. HallCaptures(k) \in [Entries -> {"null", "stopped", "capturing"}]
    BY DEF TypeOK, HallCaptures
  <2>2. HallIndices(k) \in [Entries -> Nat]
    BY <1>0, StreamControlAssumption DEF TypeOK, Entries, HallIndices
  <2>3. indexer + up.nbMotors - k \in Nat
    BY <1>0, <1>1 DEF TypeOK
  <2>4. /\ index' = HallIndices(k) /\ slot' = 0
        /\ LoopHead(HallCaptures(k), indexer + up.nbMotors - k)
    BY <1>0, <1>1, StreamControlAssumption DEF SetIcus
  <2> QED
    BY <2>1, <2>2, <2>3, <2>4, LoopHeadType
<1>2. CASE k < up.nbMotors /\ ~(up.nbMotors <= NbEntries /\ up.sensorType = "Hall_effect")
  BY <1>0, <1>2, StreamControlAssumption DEF SetIcus, TypeOK, icus
<1>3. CASE k >= up.nbMotors
  <2>1. LoopHead(icup, indexer) /\ slot' = 0 /\ index' = index
    BY <1>0, <1>3, StreamControlAssumption DEF SetIcus
  <2> QED
    BY <2>1, LoopHeadType DEF TypeOK
<1> QED
  BY <1>0, <1>1, <1>2, <1>3

(* The initial states and every step are type correct.                       *)
LEMMA TypeInit == Init => TypeOK
<1> SUFFICES ASSUME Init PROVE TypeOK
  OBVIOUS
<1>1. /\ streamerThd \in BOOLEAN /\ terminate \in BOOLEAN /\ loaded \in BOOLEAN
      /\ up \in UserParams /\ rom \in UserParams \cup {NoConf}
  BY InitParamType DEF Init
<1>2. icup \in [Entries -> {"null", "stopped", "capturing"}] /\ index \in [Entries -> Nat]
  BY DEF Init
<1> QED
  BY <1>1, <1>2 DEF Init, TypeOK

LEMMA TypeStep == TypeOK /\ [Next]_vars => TypeOK'
<1> SUFFICES ASSUME TypeOK, [Next]_vars PROVE TypeOK'
  OBVIOUS
<1> USE DEF TypeOK, params, thread, icus
<1>1. CASE UNCHANGED vars
  BY <1>1 DEF vars
<1>2. CASE Reset
  BY <1>2, InitParamType, StreamControlAssumption DEF Reset, Entries
<1>3. CASE MainBoot
  <2>1. up' \in UserParams /\ rom' \in UserParams \cup {NoConf}
    BY <1>3 DEF MainBoot, ReadConf
  <2>2. /\ streamerThd' \in BOOLEAN /\ terminate' \in BOOLEAN
        /\ strm' \in {"none", "ready", "caching", "setup", "rpms", "errs", "sleep"}
        /\ slot' = slot /\ main' \in {"run", "starting"}
        /\ fault' \in {"none", "waReused", "nullIcu", "outOfBounds"}
    BY <1>3 DEF MainBoot, StartNow, StartHeld, StartRefused, CreateStreamer
  <2> QED
    BY <1>3, <2>1, <2>2 DEF MainBoot
<1>4. CASE MainStartResume
  BY <1>4 DEF MainStartResume, CreateStreamer
<1>5. CASE MainUsb
  <2>1. up' \in UserParams
    BY <1>5 DEF MainUsb, UserParams
  <2> QED
    BY <1>5, <2>1 DEF MainUsb
<1>6. CASE MainShell
  BY <1>6 DEF MainShell
<1>7. CASE RecvRun
  <2>1. up' \in UserParams
    BY <1>7 DEF RecvRun, UserParams
  <2> QED
    BY <1>7, <2>1 DEF RecvRun, StartNow, StartHeld, StartRefused, CreateStreamer
<1>8. CASE RecvStartResume
  BY <1>8 DEF RecvStartResume, CreateStreamer
<1>9. CASE RecvStop
  <2>1. up' \in UserParams
    BY <1>9 DEF RecvStop, UserParams
  <2> QED
    <3>1. /\ terminate' \in BOOLEAN /\ streamerThd' = streamerThd
          /\ recv' \in {"idle", "starting", "stopWait", "stopped"}
      BY <1>9 DEF RecvStop, ChThdTerminate, ChThdWait
    <3> QED
      BY <1>9, <2>1, <3>1 DEF RecvStop
<1>10. CASE RecvStopDone
  <2>1. up' \in UserParams
    BY <1>10 DEF RecvStopDone, UserParams
  <2> QED
    BY <1>10, <2>1 DEF RecvStopDone, ForgetStreamer
<1>11. CASE RecvError
  <2>1. up' \in UserParams
    BY <1>11 DEF RecvError, UserParams
  <2> QED
    BY <1>11, <2>1 DEF RecvError
<1>12. CASE RecvMotorParameters
  <2>1. up' \in UserParams
    BY <1>12 DEF RecvMotorParameters, UserParams
  <2> QED
    BY <1>12, <2>1 DEF RecvMotorParameters
<1>13. CASE StoreConf \/ EraseConf
  BY <1>13 DEF StoreConf, EraseConf
<1>14. CASE LoadConf
  BY <1>14 DEF LoadConf, ReadConf
<1>15. CASE ShellSet
  <2>1. up' \in UserParams
    BY <1>15, StreamControlAssumption DEF ShellSet, MotorRange, UserParams
  <2> QED
    BY <1>15, <2>1 DEF ShellSet
<1>16. CASE ShellErrors
  BY <1>16 DEF ShellErrors, Breakage
<1>17. CASE StreamerCache
  BY <1>17 DEF StreamerCache, StreamerKeeps
<1>18. CASE StreamerSetup
  BY <1>18, SetIcusType DEF StreamerSetup, StreamerKeeps
<1>19. CASE StreamerSetupResume
  <2>1. slot + 1 \in Nat
    OBVIOUS
  <2> QED
    BY <1>19, <2>1, SetIcusType DEF StreamerSetupResume, StreamerKeeps
<1>20. CASE StreamerAfterRpms
  BY <1>20 DEF StreamerAfterRpms, StreamerKeeps, Breakage
<1>21. CASE StreamerAfterErrs
  BY <1>21 DEF StreamerAfterErrs, StreamerKeeps
<1>22. CASE StreamerWake
  BY <1>22, LoopHeadType DEF StreamerWake, StreamerKeeps
<1> QED
  BY <1>1, <1>2, <1>3, <1>4, <1>5, <1>6, <1>7, <1>8, <1>9, <1>10, <1>11, <1>12,
     <1>13, <1>14, <1>15, <1>16, <1>17, <1>18, <1>19, <1>20, <1>21, <1>22
     DEF Next, Step, RecvStep, StreamerStep

(* Every variable always has its type.                                       *)
THEOREM TypeCorrect == Spec => []TypeOK
  BY TypeInit, TypeStep, PTL DEF Spec

-----------------------------------------------------------------------------
(* The inductive invariant behind HandleTracksThread: where each of the      *)
(* three threads is, and what that says of the handle and of the request.    *)
HandleInv ==
    /\ streamerThd <=> (strm # "none" \/ recv = "stopped")
    /\ strm # "none" => (terminate <=> recv = "stopWait")
    /\ recv = "stopWait" => strm # "none"
    /\ recv = "stopped" => strm = "none"
    /\ recv = "starting" => ~streamerThd
    /\ main \in {"boot", "starting"} => ~streamerThd /\ recv = "idle"
    /\ fault # "waReused"

\* The variables HandleInv reads, apart from main and fault.
handleVars == <<streamerThd, terminate, strm, recv>>

(* A step of the streaming thread keeps it alive, or ends it because it was  *)
(* asked to and wakes the thread that waits.                                 *)
LEMMA StreamerMoves ==
  ASSUME TypeOK, StreamerStep
  PROVE  /\ UNCHANGED <<params, streamerThd, terminate, main>>
         /\ fault' \in {fault, "nullIcu", "outOfBounds"}
         /\ strm # "none"
         /\ \/ strm' # "none" /\ recv' = recv
            \/ /\ strm' = "none"
               /\ terminate
               /\ recv' = IF recv = "stopWait" THEN "stopped" ELSE recv
<1> DEFINE Moves == /\ fault' \in {fault, "nullIcu", "outOfBounds"}
                    /\ \/ strm' # "none" /\ recv' = recv
                       \/ /\ strm' = "none"
                          /\ terminate
                          /\ recv' = IF recv = "stopWait" THEN "stopped" ELSE recv
<1>1. strm # "none" /\ UNCHANGED <<params, streamerThd, terminate, main>>
  BY DEF StreamerStep, StreamerCache, StreamerSetup, StreamerSetupResume, StreamerAfterRpms,
         StreamerAfterErrs, StreamerWake, StreamerKeeps
<1>2. ASSUME NEW ic, NEW n, LoopHead(ic, n)
      PROVE  Moves
  BY <1>1, <1>2 DEF LoopHead, Breakage
<1>3. ASSUME NEW k, SetIcus(k)
      PROVE  Moves
  BY <1>1, <1>2, <1>3 DEF SetIcus
<1>4. Moves
  BY <1>1, <1>2, <1>3 DEF StreamerStep, StreamerCache, StreamerSetup, StreamerSetupResume,
         StreamerAfterRpms, StreamerAfterErrs, StreamerWake, Breakage
<1> QED
  BY <1>1, <1>4

(* The one condition the theorems put on the host: while main() is held in   *)
(* the start it makes at boot, none of these messages is handled.  The code  *)
(* does not see to it (CanReceive, with EarlyCommands); a board that boots   *)
(* in the Stop state, or from a record cache() has no warning for, needs no  *)
(* such host, since main() is held nowhere.                                  *)
SerialCommand == RecvRun \/ RecvStop \/ RecvError \/ RecvMotorParameters

HostWaits == [][SerialCommand => main # "starting"]_vars

LEMMA ReceivesLate ==
  ASSUME SerialCommand => main # "starting", SerialCommand
  PROVE  recv = "idle" /\ main \notin {"boot", "starting"}
  BY DEF SerialCommand, CanReceive, RecvRun, RecvStop, RecvError, RecvMotorParameters

LEMMA HandleStep ==
  ASSUME TypeOK, HandleInv, [Next]_vars, [SerialCommand => main # "starting"]_vars
  PROVE  HandleInv'
<1> USE DEF HandleInv
<1>1. CASE UNCHANGED <<handleVars, main, fault>>
  BY <1>1 DEF handleVars
<1> SUFFICES ASSUME SerialCommand => main # "starting" PROVE HandleInv'
  BY <1>1 DEF vars, thread, handleVars
<1>2. CASE Reset
  BY <1>2 DEF Reset
<1>3. CASE fault = "none" /\ MainBoot
  BY <1>3 DEF MainBoot, StartNow, StartHeld, StartRefused, CreateStreamer, thread
<1>4. CASE fault = "none" /\ MainStartResume
  BY <1>4 DEF MainStartResume, CreateStreamer, thread
<1>5. CASE MainUsb \/ MainShell
  BY <1>5 DEF MainUsb, MainShell, thread
<1>6. CASE fault = "none" /\ RecvRun
  <2>1. recv = "idle" /\ main \notin {"boot", "starting"}
    BY <1>6, ReceivesLate DEF SerialCommand
  <2> QED
    BY <1>6, <2>1 DEF RecvRun, StartNow, StartHeld, StartRefused, CreateStreamer, thread
<1>7. CASE fault = "none" /\ RecvStartResume
  BY <1>7 DEF RecvStartResume, CreateStreamer, thread
<1>8. CASE fault = "none" /\ RecvStop
  BY <1>8, ReceivesLate DEF SerialCommand, RecvStop, ChThdTerminate, ChThdWait
<1>9. CASE fault = "none" /\ RecvStopDone
  BY <1>9 DEF RecvStopDone, ForgetStreamer
<1>10. CASE RecvError \/ RecvMotorParameters \/ StoreConf \/ EraseConf \/ LoadConf \/ ShellSet
  BY <1>1, <1>10
     DEF RecvError, RecvMotorParameters, StoreConf, EraseConf, LoadConf, ShellSet, thread, handleVars
<1>11. CASE ShellErrors
  BY <1>11 DEF ShellErrors, Breakage, thread
<1>12. CASE fault = "none" /\ StreamerStep
  <2>1. /\ UNCHANGED <<streamerThd, terminate, main>>
        /\ fault' # "waReused"
        /\ strm # "none"
        /\ \/ strm' # "none" /\ recv' = recv
           \/ /\ strm' = "none"
              /\ terminate
              /\ recv' = IF recv = "stopWait" THEN "stopped" ELSE recv
    BY <1>12, StreamerMoves
  <2>2. streamerThd /\ main \notin {"boot", "starting"} /\ recv # "starting"
    BY <2>1
  <2> QED
    BY <2>1, <2>2
<1> QED
  BY <1>1, <1>2, <1>3, <1>4, <1>5, <1>6, <1>7, <1>8, <1>9, <1>10, <1>11, <1>12
     DEF Next, Step, RecvStep, vars, thread, handleVars

(* The working area carries at most one thread, and the handle tells whether *)
(* it does, if no serial command is handled while main() makes its own start.*)
THEOREM HandleSafe == Spec /\ HostWaits => []HandleTracksThread
<1>1. Init => HandleInv
  BY DEF Init, HandleInv
<1>2. TypeOK /\ HandleInv /\ [Next]_vars /\ [SerialCommand => main # "starting"]_vars
        => HandleInv'
  BY HandleStep
<1>3. HandleInv => HandleTracksThread
  BY DEF HandleInv, HandleTracksThread
<1> QED
  BY <1>1, <1>2, <1>3, TypeCorrect, PTL DEF Spec, HostWaits

-----------------------------------------------------------------------------
(* What is known of runningState as long as only serial commands set it.     *)
StopInv ==
    \/ Disturbed
    \/ /\ up.runningState = "Stop" /\ strm # "none" => recv = "stopWait"
       /\ recv = "starting" \/ main = "starting" => up.runningState = "Run"

LEMMA StopStep ==
  ASSUME TypeOK, HandleInv, StopInv, [Next]_vars, [SerialCommand => main # "starting"]_vars
  PROVE  StopInv'
<1> SUFFICES ASSUME ~Disturbed' PROVE StopInv'
  BY DEF StopInv
<1> USE DEF HandleInv, StopInv, Disturbed
<1>1. CASE UNCHANGED <<up, loaded, handleVars, main>>
  BY <1>1 DEF handleVars
<1> SUFFICES ASSUME SerialCommand => main # "starting" PROVE StopInv'
  BY <1>1 DEF vars, params, thread, handleVars
<1>2. CASE Reset
  BY <1>2 DEF Reset
<1>3. CASE MainBoot
  BY <1>3 DEF MainBoot, StartNow, StartHeld, StartRefused, CreateStreamer, thread, params
<1>4. CASE MainStartResume
  BY <1>4 DEF MainStartResume, CreateStreamer, thread, params
<1>5. CASE MainUsb \/ MainShell \/ ShellSet \/ ShellErrors
  BY <1>5 DEF MainUsb, MainShell, ShellSet, ShellErrors
<1>6. CASE RecvRun
  <2>1. up'.runningState = "Run"
    BY <1>6 DEF RecvRun, TypeOK, UserParams
  <2> QED
    BY <1>6, <2>1, ReceivesLate DEF SerialCommand, RecvRun
<1>7. CASE RecvStartResume
  BY <1>7 DEF RecvStartResume, CreateStreamer, thread, params
<1>8. CASE RecvStop
  <2>1. CASE streamerThd
    BY <1>8, <2>1, ReceivesLate DEF SerialCommand, RecvStop, ChThdTerminate, ChThdWait
  <2>2. CASE ~streamerThd
    BY <1>8, <2>2, ReceivesLate DEF SerialCommand, RecvStop
  <2> QED
    BY <2>1, <2>2
<1>9. CASE RecvStopDone
  BY <1>9 DEF RecvStopDone
<1>10. CASE RecvError
  <2>1. up'.runningState = "Error"
    BY <1>10 DEF RecvError, TypeOK, UserParams
  <2> QED
    BY <1>10, <2>1, ReceivesLate DEF SerialCommand, RecvError, thread
<1>11. CASE RecvMotorParameters
  <2>1. up'.runningState = up.runningState
    BY <1>11 DEF RecvMotorParameters, TypeOK, UserParams
  <2> QED
    BY <1>11, <2>1 DEF RecvMotorParameters, thread
<1>12. CASE StoreConf \/ EraseConf
  BY <1>1, <1>12 DEF StoreConf, EraseConf, thread, handleVars
<1>13. CASE LoadConf
  <2>1. up' = up /\ ~loaded
    BY <1>13 DEF LoadConf
  <2> QED
    BY <1>13, <2>1 DEF LoadConf, thread
<1>14. CASE StreamerStep
  <2>1. /\ UNCHANGED <<up, loaded, streamerThd, terminate, main>>
        /\ strm # "none"
        /\ \/ strm' # "none" /\ recv' = recv
           \/ /\ strm' = "none"
              /\ recv' = IF recv = "stopWait" THEN "stopped" ELSE recv
    BY <1>14, StreamerMoves DEF params
  <2> QED
    BY <2>1
<1> QED
  BY <1>1, <1>2, <1>3, <1>4, <1>5, <1>6, <1>7, <1>8, <1>9, <1>10, <1>11, <1>12, <1>13, <1>14
     DEF Next, Step, RecvStep, vars, thread, params, handleVars

(* A Stop command ends the streaming, for a host that waits for main()'s own *)
(* start, unless the console or an EEPROM load has changed runningState      *)
(* without rpmStopStreaming().                                               *)
THEOREM StopSafe == Spec /\ HostWaits => []StopHonoured
<1>1. Init => HandleInv /\ StopInv
  BY DEF Init, HandleInv, StopInv
<1>2. TypeOK /\ HandleInv /\ StopInv /\ [Next]_vars /\ [SerialCommand => main # "starting"]_vars
        => (HandleInv /\ StopInv)'
  BY HandleStep, StopStep
<1>3. StopInv => StopHonoured
  BY DEF StopInv, StopHonoured
<1> QED
  BY <1>1, <1>2, <1>3, TypeCorrect, PTL DEF Spec, HostWaits

-----------------------------------------------------------------------------
\* A configuration that changes in nothing, or in its runningState only.
SameConfig(u, v) == v = [u EXCEPT !.runningState = v.runningState]

LEMMA SameConfigs ==
  ASSUME NEW u \in UserParams, NEW rs \in RunningStates
  PROVE  SameConfig(u, u) /\ SameConfig(u, [u EXCEPT !.runningState = rs])
  BY DEF UserParams, SameConfig

LEMMA FrozenStep ==
  ASSUME TypeOK, HandleInv, StopInv, [Next]_vars,
         strm # "none", strm' # "none", ~Disturbed'
  PROVE  SameConfig(up, up')
<1> USE DEF Disturbed, TypeOK
<1>1. CASE up' = up
  BY <1>1, SameConfigs
<1>2. CASE Reset \/ MainBoot
  BY <1>2 DEF Reset, MainBoot, HandleInv
<1>3. CASE MainUsb \/ ShellSet
  BY <1>3 DEF MainUsb, ShellSet
<1>4. CASE RecvRun \/ RecvStop \/ RecvStopDone \/ RecvError
  <2>1. \E rs \in RunningStates : up' = [up EXCEPT !.runningState = rs]
    BY <1>4 DEF RecvRun, RecvStop, RecvStopDone, RecvError
  <2> QED
    BY <2>1, SameConfigs
<1>5. CASE RecvMotorParameters
  BY <1>5 DEF RecvMotorParameters, CanReceive, TakesParameters, StopInv
<1>6. CASE LoadConf
  BY <1>1, <1>6 DEF LoadConf
<1>7. CASE StreamerStep
  BY <1>1, <1>7, StreamerMoves DEF params
<1> QED
  BY <1>1, <1>2, <1>3, <1>4, <1>5, <1>6, <1>7
     DEF Next, Step, RecvStep, MainStartResume, MainShell, RecvStartResume, StoreConf, EraseConf,
         ShellErrors, vars, params

(* MotorParameters, starts and stops do not change what a living thread was  *)
(* started with: for a host that waits for main()'s own start, until USB is  *)
(* plugged, which opens the console, or an Eeprom Load brings another        *)
(* configuration.  Neither exception can be dropped: after the plug the      *)
(* code takes MotorParameters while it streams.                              *)
THEOREM FrozenSafe == Spec /\ HostWaits => ConfigFrozen
<1>1. Init => HandleInv /\ StopInv
  BY DEF Init, HandleInv, StopInv
<1>2. TypeOK /\ HandleInv /\ StopInv /\ [Next]_vars /\ [SerialCommand => main # "starting"]_vars
        => (HandleInv /\ StopInv)'
  BY HandleStep, StopStep
<1>3. TypeOK /\ HandleInv /\ StopInv /\ [Next]_vars =>
        [strm # "none" /\ strm' # "none" /\ ~Disturbed' =>
           up' = [up EXCEPT !.runningState = up'.runningState]]_vars
  BY FrozenStep DEF SameConfig
<1> QED
  BY <1>1, <1>2, <1>3, TypeCorrect, PTL DEF Spec, HostWaits, ConfigFrozen

-----------------------------------------------------------------------------
(* StreamControl implements StaticThread: each step maps to one of ChibiOS's *)
(* operations on the working area, or leaves it alone.                       *)
LEMMA AreaStep ==
  ASSUME TypeOK, HandleInv, HandleInv', [Next]_vars, [SerialCommand => main # "starting"]_vars
  PROVE  [Slot!StaticThreadNext]_(Slot!threadVars)
<1> USE DEF HandleInv, Slot!StaticThreadNext, Slot!threadVars
<1>1. CASE UNCHANGED <<strm, terminate, recv>>
  BY <1>1
<1> SUFFICES ASSUME SerialCommand => main # "starting"
             PROVE  [Slot!StaticThreadNext]_(Slot!threadVars)
  BY <1>1 DEF vars, thread
<1>2. CASE Reset
  BY <1>2 DEF Reset, Slot!PowerCycle
<1>3. CASE fault = "none" /\ (MainBoot \/ MainStartResume \/ RecvRun \/ RecvStartResume)
  BY <1>3, ReceivesLate
     DEF SerialCommand, MainBoot, MainStartResume, RecvRun, RecvStartResume, StartNow, StartHeld,
         StartRefused, CreateStreamer, thread, Slot!Create
<1>4. CASE RecvStop
  BY <1>4, ReceivesLate DEF SerialCommand, RecvStop, ChThdTerminate, ChThdWait, Slot!Terminate
<1>5. CASE RecvStopDone
  BY <1>5 DEF RecvStopDone, Slot!Collect
<1>6. CASE StreamerStep
  <2>1. /\ UNCHANGED terminate
        /\ strm # "none"
        /\ \/ strm' # "none" /\ recv' = recv
           \/ /\ strm' = "none"
              /\ terminate
              /\ recv' = IF recv = "stopWait" THEN "stopped" ELSE recv
    BY <1>6, StreamerMoves
  <2> QED
    BY <2>1 DEF Slot!Exit
<1> QED
  BY <1>1, <1>2, <1>3, <1>4, <1>5, <1>6
     DEF Next, Step, RecvStep, MainUsb, MainShell, RecvError, RecvMotorParameters, StoreConf,
         EraseConf, LoadConf, ShellSet, ShellErrors, vars, thread

(* The streaming code uses waStreamer as ChibiOS demands, for a host that    *)
(* waits for main()'s own start.                                             *)
THEOREM AreaSafe == Spec /\ HostWaits => UsesAreaProperly
<1>1. Init => HandleInv /\ Slot!StaticThreadInit
  BY DEF Init, HandleInv, Slot!StaticThreadInit
<1>2. TypeOK /\ HandleInv /\ [Next]_vars /\ [SerialCommand => main # "starting"]_vars
        => HandleInv'
  BY HandleStep
<1>3. TypeOK /\ HandleInv /\ HandleInv' /\ [Next]_vars /\ [SerialCommand => main # "starting"]_vars =>
        [Slot!StaticThreadNext]_(Slot!threadVars)
  BY AreaStep
<1> QED
  BY <1>1, <1>2, <1>3, TypeCorrect, PTL DEF Spec, HostWaits, UsesAreaProperly, Slot!StaticThreadSpec

-----------------------------------------------------------------------------
(* The inductive invariant behind CaptureSet and NoFaultInNormalUse: what a  *)
(* start has checked stays true, and at each place of the thread either all  *)
(* the drivers of the motors in use capture, or none at all.                 *)
AllCapture ==
    /\ \A i \in Entries : icup[i] = "capturing" <=> i \in Tracked(up)
    /\ \A i \in Tracked(up) : index[i] = i
    /\ indexer = up.nbMotors

NoneCaptures ==
    /\ \A i \in Entries : icup[i] # "capturing"
    /\ indexer = 0

HallStreams == strm \in {"rpms", "errs", "sleep"} /\ up.sensorType = "Hall_effect"

CaptureInv ==
    \/ Disturbed
    \/ /\ strm # "none" \/ recv = "starting" \/ main = "starting" => up.nbMotors \in 1..NbEntries
       /\ HallStreams => AllCapture
       /\ ~HallStreams => NoneCaptures
       /\ strm = "setup" => up.sensorType # "Hall_effect"
       /\ fault # "outOfBounds"
       /\ fault = "nullIcu" => up.sensorType # "Hall_effect"

(* cache() accepts no number of motors that is not a number of inputs.       *)
LEMMA VerdictBoundsMotors ==
  ASSUME NEW u, Verdict(u) # "bad"
  PROVE  u.nbMotors \in 1..NbEntries
  BY DEF Verdict

(* The head of the loop with hall sensors: it meets no null icup, and it     *)
(* either goes on with what captures or stops all of it.                     *)
LEMMA LoopHeadHall ==
  ASSUME TypeOK, up.nbMotors \in 1..NbEntries,
         NEW ic \in [Entries -> {"null", "stopped", "capturing"}], NEW n,
         \A i \in Entries : ic[i] = "capturing" <=> i \in Tracked(up),
         LoopHead(ic, n)
  PROVE  /\ fault' = fault
         /\ \/ strm' = "rpms" /\ icup' = ic /\ indexer' = n /\ recv' = recv
            \/ /\ strm' = "none"
               /\ \A i \in Entries : icup'[i] # "capturing"
               /\ indexer' = 0
               /\ recv' = IF recv = "stopWait" THEN "stopped" ELSE recv
<1>1. Tracked(up) \subseteq Entries
  BY StreamControlAssumption DEF Tracked, Entries
<1>2. Readable(up, ic)
  BY <1>1 DEF Readable
<1> QED
  BY <1>2 DEF LoopHead, ResetIcu

(* With another sensor type nothing captures, and a null icup may be met.    *)
LEMMA LoopHeadForeign ==
  ASSUME TypeOK, up.nbMotors \in 1..NbEntries, NoneCaptures, strm # "none",
         LoopHead(icup, indexer)
  PROVE  /\ \A i \in Entries : icup'[i] # "capturing"
         /\ indexer' = 0
         /\ strm' \in {"none", "rpms", strm}
         /\ fault' \in {fault, "nullIcu"}
         /\ recv' = IF strm' = "none" /\ recv = "stopWait" THEN "stopped" ELSE recv
<1>1. ~(up.nbMotors > NbEntries)
  BY StreamControlAssumption
<1>2. Breakage(up) = "nullIcu"
  BY <1>1 DEF Breakage
<1> QED
  BY <1>2 DEF LoopHead, ResetIcu, NoneCaptures

(* setIcu() for all the motors of a hall configuration leaves each driver    *)
(* with the window of its own motor, or the thread has ended meanwhile.      *)
LEMMA SetIcusHall ==
  ASSUME TypeOK, up.nbMotors \in 1..NbEntries, up.sensorType = "Hall_effect", NoneCaptures,
         SetIcus(0)
  PROVE  /\ fault' = fault
         /\ \/ /\ strm' = "rpms"
               /\ \A i \in Entries : icup'[i] = "capturing" <=> i \in Tracked(up)
               /\ \A i \in Tracked(up) : index'[i] = i
               /\ indexer' = up.nbMotors
            \/ /\ strm' = "none"
               /\ \A i \in Entries : icup'[i] # "capturing"
               /\ indexer' = 0
<1>1. /\ index' = HallIndices(0)
      /\ LoopHead(HallCaptures(0), indexer + up.nbMotors - 0)
  BY StreamControlAssumption DEF SetIcus
<1>2. HallCaptures(0) \in [Entries -> {"null", "stopped", "capturing"}]
  BY DEF TypeOK, HallCaptures
<1>3. \A i \in Entries : HallCaptures(0)[i] = "capturing" <=> i \in Tracked(up)
  BY DEF HallCaptures, Tracked, NoneCaptures
<1>4. \A i \in Tracked(up) : index'[i] = i
  BY <1>1, StreamControlAssumption DEF HallIndices, Tracked, Entries, NoneCaptures
<1>5. indexer + up.nbMotors - 0 = up.nbMotors
  BY DEF NoneCaptures
<1> QED
  BY <1>1, <1>2, <1>3, <1>4, <1>5, LoopHeadHall

(* With another sensor type setIcu() starts no driver.                       *)
LEMMA SetIcusForeign ==
  ASSUME TypeOK, up.nbMotors \in 1..NbEntries, up.sensorType # "Hall_effect", NoneCaptures,
         strm # "none", NEW k \in Nat, SetIcus(k)
  PROVE  /\ \A i \in Entries : icup'[i] # "capturing"
         /\ indexer' = 0
         /\ strm' \in {"none", "setup", "rpms", strm}
         /\ fault' \in {fault, "nullIcu"}
<1>1. CASE k < up.nbMotors
  BY <1>1, StreamControlAssumption DEF SetIcus, NoneCaptures, icus
<1>2. CASE k >= up.nbMotors
  BY <1>2, LoopHeadForeign, StreamControlAssumption DEF SetIcus
<1> QED
  BY <1>1, <1>2

LEMMA StreamerCaptures ==
  ASSUME TypeOK, CaptureInv, ~Disturbed, fault = "none", StreamerStep
  PROVE  CaptureInv'
<1>1. /\ UNCHANGED <<up, loaded, main>>
      /\ strm # "none"
      /\ up.nbMotors \in 1..NbEntries
  BY StreamerMoves DEF CaptureInv, params
<1>2. recv' = recv \/ recv' = "stopped"
  BY StreamerMoves
<1> USE DEF CaptureInv, Disturbed
<1>3. CASE StreamerCache
  BY <1>1, <1>3 DEF StreamerCache, HallStreams, NoneCaptures, AllCapture, icus
<1>4. CASE StreamerSetup
  <2>1. SetIcus(0) /\ NoneCaptures
    BY <1>4 DEF StreamerSetup, HallStreams
  <2>2. CASE up.sensorType = "Hall_effect"
    BY <1>1, <1>2, <2>1, <2>2, SetIcusHall DEF HallStreams, AllCapture, NoneCaptures, Tracked
  <2>3. CASE up.sensorType # "Hall_effect"
    BY <1>1, <1>2, <2>1, <2>3, SetIcusForeign DEF HallStreams, NoneCaptures
  <2> QED
    BY <2>2, <2>3
<1>5. CASE StreamerSetupResume
  <2>1. /\ up.sensorType # "Hall_effect" /\ NoneCaptures
        /\ slot + 1 \in Nat /\ SetIcus(slot + 1)
    BY <1>5 DEF StreamerSetupResume, HallStreams, TypeOK
  <2> QED
    BY <1>1, <1>2, <2>1, SetIcusForeign DEF HallStreams, NoneCaptures
<1>6. CASE StreamerAfterRpms
  <2>1. icup' = icup /\ index' = index /\ indexer' = indexer /\ recv' = recv
    BY <1>6 DEF StreamerAfterRpms, icus
  <2>2. strm' \in {"rpms", "sleep", "errs"} /\ strm = "rpms"
    BY <1>6 DEF StreamerAfterRpms
  <2>3. fault' = fault \/ (fault' = "nullIcu" /\ up.sensorType # "Hall_effect")
    <3>1. ~(up.nbMotors > NbEntries)
      BY <1>1, StreamControlAssumption
    <3>2. up.sensorType = "Hall_effect" => Readable(up, icup)
      BY <1>1, <2>2, StreamControlAssumption
         DEF HallStreams, AllCapture, Readable, Tracked, Entries
    <3> QED
      BY <1>6, <3>1, <3>2 DEF StreamerAfterRpms, Breakage
  <2> QED
    BY <1>1, <2>1, <2>2, <2>3 DEF HallStreams, AllCapture, NoneCaptures, Tracked
<1>7. CASE StreamerAfterErrs
  BY <1>1, <1>7 DEF StreamerAfterErrs, HallStreams, AllCapture, NoneCaptures, Tracked, icus
<1>8. CASE StreamerWake
  <2>1. strm = "sleep" /\ LoopHead(icup, indexer) /\ index' = index
    BY <1>8 DEF StreamerWake
  <2>2. CASE up.sensorType = "Hall_effect"
    <3>1. AllCapture /\ icup \in [Entries -> {"null", "stopped", "capturing"}]
      BY <2>1, <2>2 DEF HallStreams, TypeOK
    <3>2. /\ fault' = fault
          /\ \/ strm' = "rpms" /\ icup' = icup /\ indexer' = indexer
             \/ strm' = "none" /\ (\A i \in Entries : icup'[i] # "capturing") /\ indexer' = 0
      BY <1>1, <2>1, <3>1, LoopHeadHall DEF AllCapture
    <3> QED
      BY <1>1, <1>2, <2>1, <2>2, <3>1, <3>2 DEF HallStreams, AllCapture, NoneCaptures, Tracked
  <2>3. CASE up.sensorType # "Hall_effect"
    <3>1. NoneCaptures
      BY <2>3 DEF HallStreams
    <3> QED
      BY <1>1, <1>2, <2>1, <2>3, <3>1, LoopHeadForeign DEF HallStreams, NoneCaptures
  <2> QED
    BY <2>2, <2>3
<1> QED
  BY <1>3, <1>4, <1>5, <1>6, <1>7, <1>8 DEF StreamerStep

(* A configuration that differs in runningState is the same to the captures. *)
LEMMA SameCaptures ==
  ASSUME TypeOK, CaptureInv, ~Disturbed,
         NEW rs \in RunningStates, up' = [up EXCEPT !.runningState = rs],
         UNCHANGED <<icus, fault>>, ~HallStreams' <=> ~HallStreams,
         strm' = strm \/ (strm = "none" /\ strm' = "ready"),
         strm' # "none" \/ recv' = "starting" \/ main' = "starting" => up.nbMotors \in 1..NbEntries
  PROVE  CaptureInv'
<1>1. up'.nbMotors = up.nbMotors /\ up'.sensorType = up.sensorType
  BY DEF TypeOK, UserParams
<1> QED
  BY <1>1 DEF CaptureInv, HallStreams, AllCapture, NoneCaptures, Tracked, icus

LEMMA CaptureStep ==
  ASSUME TypeOK, HandleInv, StopInv, CaptureInv, [Next]_vars,
         [SerialCommand => main # "starting"]_vars
  PROVE  CaptureInv'
<1> SUFFICES ASSUME ~Disturbed' PROVE CaptureInv'
  BY DEF CaptureInv
<1>1. CASE UNCHANGED vars
  BY <1>1 DEF vars, params, thread, icus, CaptureInv, Disturbed, HallStreams, AllCapture,
         NoneCaptures, Tracked
<1> SUFFICES ASSUME SerialCommand => main # "starting" PROVE CaptureInv'
  BY <1>1
<1>2. CASE Reset
  BY <1>2 DEF Reset, CaptureInv, HallStreams, NoneCaptures
<1>3. ASSUME fault = "none", Step
      PROVE  CaptureInv'
  <2>1. ~Disturbed
    BY <1>3 DEF Disturbed, Step, RecvStep, StreamerStep, MainBoot, MainStartResume, MainUsb,
           MainShell, RecvRun, RecvStartResume, RecvStop, RecvStopDone, RecvError,
           RecvMotorParameters, StoreConf, EraseConf, LoadConf, ShellSet, ShellErrors,
           StreamerCache, StreamerSetup, StreamerSetupResume, StreamerAfterRpms,
           StreamerAfterErrs, StreamerWake, StreamerKeeps, params
  <2> USE <2>1 DEF CaptureInv, Disturbed
  <2>2. CASE MainBoot
    <3>1. strm = "none" /\ recv = "idle" /\ ~HallStreams
      BY <2>2 DEF MainBoot, HandleInv, HallStreams
    <3>2. /\ strm' \in {"none", "ready"} /\ fault' = fault
          /\ strm' # "none" \/ main' = "starting" => up'.nbMotors \in 1..NbEntries
      BY <2>2, <3>1, VerdictBoundsMotors
         DEF MainBoot, StartNow, StartHeld, StartRefused, CreateStreamer, thread
    <3> QED
      BY <1>3, <2>2, <3>1, <3>2 DEF MainBoot, HallStreams, NoneCaptures, icus
  <2>3. CASE MainStartResume \/ RecvStartResume
    <3>1. strm = "none"
      BY <2>3 DEF MainStartResume, RecvStartResume, HandleInv
    <3> QED
      BY <1>3, <2>3, <3>1
         DEF MainStartResume, RecvStartResume, CreateStreamer, HallStreams, NoneCaptures, params,
             icus, thread
  <2>4. CASE MainUsb \/ MainShell \/ ShellSet \/ ShellErrors
    BY <2>4 DEF MainUsb, MainShell, ShellSet, ShellErrors
  <2>5. CASE RecvRun
    <3>1. /\ fault' = fault
          /\ strm' = strm \/ (strm = "none" /\ strm' = "ready")
      BY <1>3, <2>5, ReceivesLate
         DEF SerialCommand, RecvRun, StartNow, StartHeld, StartRefused, CreateStreamer, thread,
             HandleInv
    <3>2. up' = [up EXCEPT !.runningState = "Run"] /\ UNCHANGED icus
      BY <2>5 DEF RecvRun
    <3>3. up'.sensorType = up.sensorType
      BY <3>2 DEF TypeOK, UserParams
    <3>4. main' = main /\ main # "starting"
      BY <2>5, ReceivesLate DEF SerialCommand, RecvRun
    <3>5. strm' # "none" \/ recv' = "starting" => up.nbMotors \in 1..NbEntries
      BY <2>5, VerdictBoundsMotors
         DEF RecvRun, StartNow, StartHeld, StartRefused, CreateStreamer, thread
    <3> QED
      BY <3>1, <3>2, <3>3, <3>4, <3>5, SameCaptures DEF HallStreams
  <2>6. CASE RecvStop \/ RecvStopDone \/ RecvError
    <3>1. \E rs \in RunningStates : up' = [up EXCEPT !.runningState = rs]
      BY <2>6 DEF RecvStop, RecvStopDone, RecvError
    <3>2. up'.sensorType = up.sensorType
      BY <3>1 DEF TypeOK, UserParams
    <3>3. UNCHANGED <<strm, icus, fault, main>> /\ (recv' = recv \/ recv' # "starting")
      BY <2>6 DEF RecvStop, RecvStopDone, RecvError, ChThdWait, thread
    <3> QED
      BY <3>1, <3>2, <3>3, SameCaptures DEF HallStreams
  <2>7. CASE RecvMotorParameters
    <3>1. strm = "none" /\ recv = "idle" /\ main # "starting"
      BY <2>7, ReceivesLate DEF SerialCommand, RecvMotorParameters, TakesParameters, StopInv
    <3> QED
      BY <1>3, <2>7, <3>1 DEF RecvMotorParameters, HallStreams, NoneCaptures, thread, icus
  <2>8. CASE StoreConf \/ EraseConf \/ LoadConf
    <3>1. UNCHANGED <<strm, icus, recv, main, fault>>
      BY <2>8 DEF StoreConf, EraseConf, LoadConf, thread
    <3>2. up' = up
      BY <2>8 DEF StoreConf, EraseConf, LoadConf
    <3> QED
      BY <3>1, <3>2 DEF HallStreams, AllCapture, NoneCaptures, Tracked, icus
  <2>9. CASE StreamerStep
    BY <1>3, <2>9, StreamerCaptures
  <2> QED
    BY <1>3, <2>2, <2>3, <2>4, <2>5, <2>6, <2>7, <2>8, <2>9 DEF Step, RecvStep
<1> QED
  BY <1>1, <1>2, <1>3 DEF Next

(* The inductive invariants together.                                        *)
LEMMA CaptureAlways == Spec /\ HostWaits => [](TypeOK /\ HandleInv /\ CaptureInv)
<1>1. Init => HandleInv /\ StopInv /\ CaptureInv
  BY DEF Init, HandleInv, StopInv, CaptureInv, HallStreams, NoneCaptures
<1>2. TypeOK /\ HandleInv /\ StopInv /\ CaptureInv /\ [Next]_vars /\ [SerialCommand => main # "starting"]_vars
        => (HandleInv /\ StopInv /\ CaptureInv)'
  BY HandleStep, StopStep, CaptureStep
<1> QED
  BY <1>1, <1>2, TypeCorrect, PTL DEF Spec, HostWaits

(* The drivers that capture are those of the motors in use, each with its    *)
(* own window, and none between two sessions: for a host that waits for      *)
(* main()'s own start, until USB is plugged or a Load brings another         *)
(* configuration.                                                            *)
THEOREM CaptureSafe == Spec /\ HostWaits => []CaptureSet
<1>1. CaptureInv => CaptureSet
  BY DEF CaptureInv, CaptureSet, HallStreams, AllCapture, NoneCaptures
<1> QED
  BY <1>1, CaptureAlways, PTL

(* No order of starts, stops, MotorParameters and resets leads out of the    *)
(* arrays, and only a sensor type that this build does not know to a null    *)
(* icup: for a host that waits for main()'s own start, until USB is plugged  *)
(* or an Eeprom Load brings another configuration.                           *)
THEOREM FaultSafe == Spec /\ HostWaits => []NoFaultInNormalUse
<1>1. CaptureInv => NoFaultInNormalUse
  BY DEF CaptureInv, NoFaultInNormalUse
<1> QED
  BY <1>1, CaptureAlways, PTL
=============================================================================
