------------------------------- MODULE UsbWatch -------------------------------
(***************************************************************************)
(* How main() follows the USB cable: a level read at boot, a wait for a    *)
(* rising edge of VBUS, the start of the console, a wait for a falling     *)
(* edge, and a reset.                                                      *)
(*                                                                         *)
(* An edge wakes the thread that waits for it and is forgotten otherwise.  *)
(* So the steps between a look at the line and the wait are kept apart:    *)
(* the cable moves between any two of them, as it likes.  The USB stack,   *)
(* a library, is what the polls of consoleLaunch() see of it: it finds out *)
(* that the cable is gone some time after it is, from the silence of the   *)
(* bus.                                                                    *)
(***************************************************************************)
EXTENDS Naturals

VARIABLES
    main,     \* where main() is
    vbus,     \* the level of LINE_USB_VBUS
    event,    \* the edge whose line event is enabled, or "none"
    usb,      \* the stack: "off" before consoleInit(), and then "idle",
              \* "active" (configured) or "open" (the port is open too)
    shell,    \* has the shell thread been created?
    usbLed,   \* the level of LINE_USB_LED
    missed    \* history: did the cable move last in the moments before a
              \* wait, when main() counted on it and did not listen?

usbVars == <<main, vbus, event, usb, shell, usbLed, missed>>

UsbTypeOK ==
    /\ main \in {"boot", "level", "enableRising", "armRising", "plugWait",
                 "console", "usbWait", "openWait",
                 "enableFalling", "armFalling", "pullWait", "leaving"}
    /\ vbus \in BOOLEAN
    /\ event \in {"none", "rising", "falling"}
    /\ usb \in {"off", "idle", "active", "open"}
    /\ shell \in BOOLEAN
    /\ usbLed \in BOOLEAN
    /\ missed \in BOOLEAN

\* The board starts with the cable in or out.
UsbInit ==
    /\ main = "boot"
    /\ vbus \in BOOLEAN
    /\ event = "none"
    /\ usb = "off"
    /\ shell = FALSE
    /\ usbLed = FALSE
    /\ missed = FALSE

\* main() goes from one place to the next.
Goes(from, to) == main = from /\ main' = to

-----------------------------------------------------------------------------
(* main()                                                                    *)

\* All that comes before the level is read.
BootDone ==
    /\ Goes("boot", "level")
    /\ UNCHANGED <<vbus, event, usb, shell, usbLed, missed>>

\* Mutant: the cable is taken to be out at boot.
WaitsAnyway == TRUE

\* palReadLine(LINE_USB_VBUS) == PAL_LOW
WaitsForPlug == ~vbus

ReadLevel ==
    /\ \/ WaitsForPlug /\ Goes("level", "enableRising")
       \/ ~WaitsForPlug /\ Goes("level", "console")
    /\ UNCHANGED <<vbus, event, usb, shell, usbLed, missed>>

\* Mutant: the first wait is for a falling edge too.
PlugEdgeFalling == "falling"

\* PAL_EVENT_MODE_RISING_EDGE
PlugEdge == "rising"

EnableRising ==
    /\ Goes("enableRising", "armRising")
    /\ event' = PlugEdge
    /\ UNCHANGED <<vbus, usb, shell, usbLed, missed>>

\* palWaitLineTimeout(): from here on the thread is in the line's queue.
ArmRising ==
    /\ Goes("armRising", "plugWait")
    /\ UNCHANGED <<vbus, event, usb, shell, usbLed, missed>>

\* consoleInit()
ConsoleInit ==
    /\ Goes("console", "usbWait")
    /\ usb' = "idle"
    /\ UNCHANGED <<vbus, event, shell, usbLed, missed>>

\* The polls of consoleLaunch(), every 10 ms.
PollActive ==
    /\ Goes("usbWait", "openWait")
    /\ usb \in {"active", "open"}
    /\ UNCHANGED <<vbus, event, usb, shell, usbLed, missed>>

\* isUsbConnected()
IsUsbConnected == usb = "open"

\* shellCreate(), the USB LED, and palDisableLineEvent()
PollOpen ==
    /\ Goes("openWait", "enableFalling")
    /\ IsUsbConnected
    /\ shell' = TRUE
    /\ usbLed' = TRUE
    /\ event' = "none"
    /\ UNCHANGED <<vbus, usb, missed>>

EnableFalling ==
    /\ Goes("enableFalling", "armFalling")
    /\ event' = "falling"
    /\ UNCHANGED <<vbus, usb, shell, usbLed, missed>>

ArmFalling ==
    /\ Goes("armFalling", "pullWait")
    /\ UNCHANGED <<vbus, event, usb, shell, usbLed, missed>>

\* systemReset(), 100 ms after the USB LED went out.
SystemReset ==
    /\ main' = "boot"
    /\ vbus' = vbus
    /\ event' = "none"
    /\ usb' = "off"
    /\ shell' = FALSE
    /\ usbLed' = FALSE
    /\ missed' = FALSE

Leave == main = "leaving" /\ SystemReset

\* "restart" in the shell, or the power lost and back.
Restart == main # "boot" /\ SystemReset

-----------------------------------------------------------------------------
(* The cable and the host                                                    *)

\* From the look at the level to the wait, and from the plug to the wait.
BeforePlugWait == {"enableRising", "armRising"}
BeforePullWait == {"console", "usbWait", "openWait", "enableFalling", "armFalling"}

Plug ==
    /\ ~vbus
    /\ vbus' = TRUE
    /\ missed' = (main \in BeforePlugWait)
    /\ main' = IF main = "plugWait" /\ event = "rising" THEN "console" ELSE main
    /\ UNCHANGED <<event, usb, shell, usbLed>>

\* Mutant: the LED is left to the reset.
UsbLedLeft == usbLed

\* palClearLine(LINE_USB_LED)
UsbLedCleared == FALSE

Pull ==
    /\ vbus
    /\ vbus' = FALSE
    /\ missed' = (main \in BeforePullWait)
    /\ \/ /\ main = "pullWait" /\ event = "falling"
          /\ main' = "leaving"
          /\ usbLed' = UsbLedCleared
       \/ /\ ~(main = "pullWait" /\ event = "falling")
          /\ UNCHANGED <<main, usbLed>>
    /\ UNCHANGED <<event, usb, shell>>

\* The host configures the device, opens the port and closes it; the stack
\* notices that the bus is silent.
HostStep ==
    /\ \/ vbus /\ usb = "idle" /\ usb' = "active"
       \/ vbus /\ usb = "active" /\ usb' = "open"
       \/ vbus /\ usb = "open" /\ usb' = "active"
       \/ ~vbus /\ usb \in {"active", "open"} /\ usb' = "idle"
    /\ UNCHANGED <<main, vbus, event, shell, usbLed, missed>>

Cable == Plug \/ Pull \/ HostStep

\* What main() does of itself: none of it waits for the cable or the host,
\* except that the polls go on until they succeed.
MainStep ==
    \/ ReadLevel
    \/ EnableRising
    \/ ArmRising
    \/ ConsoleInit
    \/ PollActive
    \/ PollOpen
    \/ EnableFalling
    \/ ArmFalling

-----------------------------------------------------------------------------
(* Properties                                                                *)

(* While main() waits for the cable to be plugged it is out, and while it    *)
(* waits for it to be pulled it is in: the level read at boot, the two edges *)
(* and the two waits fit together.  But for a move of the cable that falls   *)
(* between the level and the first wait, or between the start of the USB     *)
(* stack and the second: nobody listens then.                                *)
WaitsForWhatCanCome ==
    /\ main = "plugWait" /\ vbus => missed
    /\ main = "pullWait" /\ ~vbus => missed

(* The USB LED says that the console can be used.  It is on only if there is *)
(* a shell, and it goes out the moment the cable is pulled, unless main()    *)
(* did not listen then.  And it is on whenever there is a shell and the      *)
(* cable is in, but for the 100 ms before the reset that a pull has decided: *)
(* a cable that comes back then does not light it.                           *)
UsbLedTells ==
    /\ usbLed => shell /\ (vbus \/ missed)
    /\ shell /\ vbus /\ main # "leaving" => usbLed

(* A plugged cable leads to a shell, as the comment in main() has it: unless *)
(* main() missed the plug, or the host does not open the port.               *)
PlugGetsShell ==
    vbus /\ main # "boot" ~>
        \/ shell
        \/ ~vbus \/ missed \/ main = "boot"
        \/ usb \in {"idle", "active"}
=============================================================================
