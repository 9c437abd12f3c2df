--------------------------------- MODULE Board ---------------------------------
(***************************************************************************)
(* The board as a user sees it: main() with its cable and shell (UsbWatch) *)
(* and the thread of the flash LED (LedBlink), which main() tells the      *)
(* number of motors and the baud rate once it has read its configuration.  *)
(*                                                                         *)
(* Both run at NORMALPRIO without time slices: the LED thread runs when    *)
(* main() is blocked.  It exists before main() does.                       *)
(***************************************************************************)
EXTENDS UsbWatch, LedBlink

CONSTANTS
    MotorCounts,   \* the values of nbMotors an EEPROM record may hold
    BaudRates      \* the values of baudRate

ASSUME BoardAssumption ==
    /\ MotorCounts \subseteq Nat
    /\ BaudRates \subseteq Nat

vars == <<usbVars, ledVars>>

TypeOK == UsbTypeOK /\ LedTypeOK

Init == UsbInit /\ LedInit

\* Where main() is blocked: at boot in the sends of messages, in the waits,
\* in the sleeps of the USB stack's start and of the polls, and before reset.
Blocked == main \in {"boot", "plugWait", "console", "usbWait", "openWait",
                     "pullWait", "leaving"}

(* ledBlink.setFlashes(), the last thing before the level is read.           *)
Boot ==
    /\ BootDone
    /\ \E nb \in MotorCounts, baud \in BaudRates :
         SetFlashes(nb, baud \div 100000)

Blink == Blocked /\ ThdBlinkLed /\ UNCHANGED usbVars

\* The constructor of ledBlink runs again.
ResetLed ==
    /\ led' = FALSE
    /\ seqs' = [s \in 1..2 |-> IF s = 1 THEN 2 ELSE 0]
    /\ blink' = "new"
    /\ i' = 0
    /\ lit' = [s \in 1..2 |-> 0]
    /\ given' = [s \in 1..2 |-> IF s = 1 THEN 1 ELSE 0]
    /\ whole' = TRUE

Next ==
    \/ Boot
    \/ MainStep /\ UNCHANGED ledVars
    \/ Blink
    \/ Cable /\ UNCHANGED ledVars
    \/ (Leave \/ Restart) /\ ResetLed

(* main() goes on where nothing but itself holds it.  Nothing is assumed of  *)
(* the cable, the host, the power and the user.                              *)
Fairness == WF_vars(MainStep /\ UNCHANGED ledVars)

Spec == Init /\ [][Next]_vars /\ Fairness
=============================================================================
