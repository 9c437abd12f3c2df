----------------------------- MODULE Board_proofs -----------------------------
(***************************************************************************)
(* Proofs about the board as a user sees it.  The cable: where each wait   *)
(* of main() comes from says what the cable last did.  The LED: how far a  *)
(* sequence is says how often it flashed and whether it is lit.            *)
(***************************************************************************)
EXTENDS Board, TLAPS

(* The counts a sequence is to show are always those of setFlashes(); a      *)
(* sequence starts in the dark, and its n-th toggle lights the LED when n is *)
(* even.  Without the parity nothing would bound the flashes of a round.     *)
LedInv ==
    /\ LedTypeOK
    /\ \A s \in 1..2 : seqs[s] = Toggles(given[s])
    /\ blink \in {"new", "gap", "pause"} => ~led
    /\ blink \in {"seq1", "seq2"} => i <= 254
    /\ blink = "seq1" =>
         /\ led <=> i % 2 = 0
         /\ lit[1] = i \div 2 + 1
         /\ lit[2] = 0
         /\ whole => i < seqs[1]
    /\ blink = "gap" => lit[2] = 0
    /\ blink = "seq2" =>
         /\ led <=> i % 2 = 0
         /\ lit[2] = i \div 2 + 1
         /\ whole => i < seqs[2]
    /\ blink \in {"gap", "seq2", "pause"} /\ whole /\ given[1] <= 127 => lit[1] = given[1]
    /\ blink = "pause" /\ whole /\ given[2] <= 127 => lit[2] = given[2]

(* What main() counts on when it waits, and what it has done before.         *)
UsbInv ==
    /\ UsbTypeOK
    /\ main \in {"enableRising", "armRising", "plugWait"} /\ vbus => missed
    /\ main \in {"console", "usbWait", "openWait", "enableFalling", "armFalling", "pullWait"}
         /\ ~vbus => missed
    /\ main \in {"armRising", "plugWait"} => event = "rising"
    /\ main \in {"armFalling", "pullWait"} => event = "falling"
    /\ usbLed => main \in {"enableFalling", "armFalling", "pullWait"} /\ shell
    /\ shell => main \in {"enableFalling", "armFalling", "pullWait", "leaving"}
    /\ shell /\ main # "leaving" => usbLed

-----------------------------------------------------------------------------
(* The cable                                                                 *)

LEMMA UsbInitially == UsbInit => UsbInv
BY DEF UsbInit, UsbInv, UsbTypeOK

LEMMA UsbMainStep == ASSUME UsbInv, MainStep PROVE UsbInv'
<1> USE DEF UsbInv, UsbTypeOK, Goes
<1>1. CASE ReadLevel
  BY <1>1 DEF ReadLevel, WaitsForPlug
<1>2. CASE EnableRising
  BY <1>2 DEF EnableRising, PlugEdge
<1>3. CASE ArmRising
  BY <1>3 DEF ArmRising
<1>4. CASE ConsoleInit
  BY <1>4 DEF ConsoleInit
<1>5. CASE PollActive
  BY <1>5 DEF PollActive
<1>6. CASE PollOpen
  BY <1>6 DEF PollOpen
<1>7. CASE EnableFalling
  BY <1>7 DEF EnableFalling
<1>8. CASE ArmFalling
  BY <1>8 DEF ArmFalling
<1> QED
  BY <1>1, <1>2, <1>3, <1>4, <1>5, <1>6, <1>7, <1>8 DEF MainStep

LEMMA UsbCable == ASSUME UsbInv, Cable PROVE UsbInv'
<1> USE DEF UsbInv, UsbTypeOK
<1>1. CASE Plug
  <2> ~vbus /\ vbus' /\ vbus' \in BOOLEAN /\ missed' = (main \in BeforePlugWait)
    BY <1>1, Zenon DEF Plug
  <2>1. /\ missed' \in BOOLEAN
        /\ missed' <=> main \in {"enableRising", "armRising"}
    <3>1. missed' \in BOOLEAN
      BY SMT
    <3>2. missed' <=> main \in BeforePlugWait
      BY Zenon
    <3> QED
      BY <3>1, <3>2, Zenon DEF BeforePlugWait
  <2>2. /\ main' = IF main = "plugWait" /\ event = "rising" THEN "console" ELSE main
        /\ event' = event /\ usb' = usb /\ shell' = shell /\ usbLed' = usbLed
    BY <1>1 DEF Plug
  <2> QED
    BY <2>1, <2>2
<1>2. CASE Pull
  <2> vbus /\ ~vbus' /\ vbus' \in BOOLEAN /\ missed' = (main \in BeforePullWait)
    BY <1>2, Zenon DEF Pull
  <2>1. /\ missed' \in BOOLEAN
        /\ missed' <=> main \in {"console", "usbWait", "openWait", "enableFalling", "armFalling"}
    <3>1. missed' \in BOOLEAN
      BY SMT
    <3>2. missed' <=> main \in BeforePullWait
      BY Zenon
    <3> QED
      BY <3>1, <3>2, Zenon DEF BeforePullWait
  <2>2. /\ \/ main = "pullWait" /\ main' = "leaving" /\ ~usbLed' /\ usbLed' \in BOOLEAN
           \/ main # "pullWait" /\ main' = main /\ usbLed' = usbLed
        /\ event' = event /\ usb' = usb /\ shell' = shell
    BY <1>2 DEF Pull, UsbLedCleared
  <2> QED
    BY <2>1, <2>2
<1>3. CASE HostStep
  BY <1>3 DEF HostStep
<1> QED
  BY <1>1, <1>2, <1>3 DEF Cable

LEMMA UsbReset == ASSUME UsbInv, Leave \/ Restart PROVE UsbInv'
BY DEF UsbInv, UsbTypeOK, Leave, Restart, SystemReset

LEMMA UsbStep == ASSUME UsbInv, [Next]_vars PROVE UsbInv'
<1>1. CASE Boot
  BY <1>1 DEF Boot, BootDone, Goes, UsbInv, UsbTypeOK
<1>2. CASE MainStep
  BY <1>2, UsbMainStep
<1>3. CASE Blink \/ UNCHANGED vars
  BY <1>3 DEF Blink, vars, usbVars, UsbInv, UsbTypeOK
<1>4. CASE Cable
  BY <1>4, UsbCable
<1>5. CASE Leave \/ Restart
  BY <1>5, UsbReset
<1> QED
  BY <1>1, <1>2, <1>3, <1>4, <1>5 DEF Next

LEMMA UsbAlways == Spec => []UsbInv
<1>1. Init => UsbInv
  BY UsbInitially DEF Init
<1>2. UsbInv /\ [Next]_vars => UsbInv'
  BY UsbStep
<1> QED
  BY <1>1, <1>2, PTL DEF Spec

(* While main() waits for the cable to be plugged it is out, and while it    *)
(* waits for it to be pulled it is in, unless the cable moved when main()    *)
(* did not listen.                                                           *)
THEOREM WaitsSafe == Spec => []WaitsForWhatCanCome
<1>1. UsbInv => WaitsForWhatCanCome
  BY DEF UsbInv, WaitsForWhatCanCome
<1> QED
  BY <1>1, UsbAlways, PTL

(* The USB LED is lit only if there is a shell and the cable is in, or was   *)
(* pulled when main() did not listen; and it is lit whenever there is a      *)
(* shell and the cable is in, but for the moments before a decided reset.    *)
THEOREM UsbLedSafe == Spec => []UsbLedTells
<1>1. UsbInv => UsbLedTells
  BY DEF UsbInv, UsbTypeOK, UsbLedTells
<1> QED
  BY <1>1, UsbAlways, PTL

-----------------------------------------------------------------------------
(* The flash LED                                                             *)

LEMMA TogglesType == \A n \in Nat : Toggles(n) \in 0..255
BY DEF Toggles, Byte

LEMMA TogglesTwice == \A n \in Nat : n <= 127 => Toggles(n) = 2 * n
BY DEF Toggles, Byte

LEMMA LedInitially == LedInit => LedInv
<1> SUFFICES ASSUME LedInit PROVE LedInv
  OBVIOUS
<1>1. Toggles(1) = 2 /\ Toggles(0) = 0
  BY DEF Toggles, Byte
<1>2. LedTypeOK
  <2>1. led \in BOOLEAN /\ whole \in BOOLEAN /\ blink = "new"
    BY DEF LedInit
  <2>2. seqs \in [1..2 -> 0..255] /\ lit \in [1..2 -> 0..128]
    BY SMT DEF LedInit
  <2>3. given \in [1..2 -> Nat] /\ i \in 0..255
    BY SMT DEF LedInit
  <2> QED
    BY <2>1, <2>2, <2>3, Zenon DEF LedTypeOK
<1>3. \A s \in 1..2 : seqs[s] = Toggles(given[s])
  BY <1>1 DEF LedInit
<1> QED
  BY <1>2, <1>3 DEF LedInit, LedInv

(* A number of motors and a baud rate are natural numbers.                   *)
LEMMA LedSet ==
  ASSUME LedInv, NEW n1 \in Nat, NEW n2 \in Nat, SetFlashes(n1, n2)
  PROVE  LedInv'
<1>1. /\ seqs' = [s \in 1..2 |-> Toggles(IF s = 1 THEN n1 ELSE n2)]
      /\ given' = [s \in 1..2 |-> IF s = 1 THEN n1 ELSE n2]
      /\ UNCHANGED <<led, blink, i, lit>>
  BY DEF SetFlashes
<1>2. whole' \in BOOLEAN /\ (whole' <=> blink = "new")
  <2>1. whole' = (blink = "new")
    BY DEF SetFlashes
  <2>2. whole' \in BOOLEAN
    BY <2>1, SMT
  <2>3. whole' <=> blink = "new"
    BY <2>1, Zenon
  <2> QED
    BY <2>2, <2>3
<1>3. LedTypeOK'
  BY <1>1, <1>2, TogglesType DEF LedInv, LedTypeOK
<1>4. \A s \in 1..2 : seqs'[s] = Toggles(given'[s])
  BY <1>1
<1> QED
  BY <1>1, <1>2, <1>3, <1>4 DEF LedInv

(* Every step of the thread is one loop test.  What a toggle does:           *)
LEMMA LoopToggles ==
  ASSUME LedTypeOK, NEW s \in 1..2, NEW n \in 0..255, NEW after,
         n < seqs[s], Loop(s, n, after), led <=> n % 2 = 1,
         n # 0 => lit[s] = (n - 1) \div 2 + 1,
         n = 0 /\ s = 2 => lit[2] = 0
  PROVE  /\ i' = n
         /\ blink' = IF s = 1 THEN "seq1" ELSE "seq2"
         /\ led' \in BOOLEAN /\ (led' <=> n % 2 = 0)
         /\ lit' \in [1..2 -> 0..128]
         /\ lit'[s] = n \div 2 + 1
         /\ s = 1 => lit'[2] = IF n = 0 THEN 0 ELSE lit[2]
         /\ s = 2 => lit'[1] = lit[1]
<1> DEFINE before == IF s = 1 /\ n = 0 THEN [k \in 1..2 |-> 0] ELSE lit
<1>1. seqs[s] \in 0..255 /\ n <= 254 /\ led \in BOOLEAN /\ lit \in [1..2 -> 0..128]
  BY DEF LedTypeOK
<1>2. /\ led' = ~led
      /\ i' = n
      /\ blink' = IF s = 1 THEN "seq1" ELSE "seq2"
      /\ lit' = IF led THEN before ELSE [before EXCEPT ![s] = @ + 1]
  BY <1>1 DEF Loop
<1>3. /\ before \in [1..2 -> 0..128]
      /\ before[s] = (n + 1) \div 2
      /\ s = 1 => before[2] = IF n = 0 THEN 0 ELSE lit[2]
      /\ s = 2 => before[1] = lit[1]
  BY <1>1, SMT
<1> HIDE DEF before
<1>4. led' \in BOOLEAN /\ (led' <=> ~led)
  BY <1>1, <1>2, Zenon
<1>5. led' <=> n % 2 = 0
  BY <1>1, <1>4, SMT
<1>6. CASE led
  <2>1. lit' = before /\ n \div 2 + 1 = (n + 1) \div 2
    BY <1>1, <1>2, <1>6, SMT
  <2> QED
    BY <1>2, <1>3, <1>4, <1>5, <2>1
<1>7. CASE ~led
  <2>1. lit' = [before EXCEPT ![s] = @ + 1] /\ n \div 2 = (n + 1) \div 2 /\ n \div 2 <= 127
    BY <1>1, <1>2, <1>7, SMT
  <2>2. /\ lit' \in [1..2 -> 0..128]
        /\ lit'[s] = n \div 2 + 1
        /\ \A k \in 1..2 : k # s => lit'[k] = before[k]
    BY <1>3, <2>1, SMT
  <2> QED
    BY <1>2, <1>3, <1>4, <1>5, <2>2
<1> QED
  BY <1>6, <1>7

(* and what the end of a loop does.                                          *)
LEMMA LoopLeaves ==
  ASSUME LedTypeOK, NEW s \in 1..2, NEW n \in 0..255, NEW after,
         ~(n < seqs[s]), Loop(s, n, after)
  PROVE  /\ i' = 0
         /\ blink' = after
         /\ led' \in BOOLEAN /\ ~led'
         /\ lit' \in [1..2 -> 0..128]
         /\ s = 1 /\ n = 0 => lit'[1] = 0 /\ lit'[2] = 0
         /\ s = 2 \/ n # 0 => lit' = lit
<1> DEFINE before == IF s = 1 /\ n = 0 THEN [k \in 1..2 |-> 0] ELSE lit
<1>1. /\ led' = FALSE
      /\ i' = 0
      /\ blink' = after
      /\ lit' = before
  BY DEF Loop, ClearLine
<1>2. lit \in [1..2 -> 0..128]
  BY DEF LedTypeOK
<1>3. CASE s = 1 /\ n = 0
  <2>1. before \in [1..2 -> 0..128] /\ before[1] = 0 /\ before[2] = 0
    BY <1>3, SMT
  <2> HIDE DEF before
  <2>2. ~(s = 2 \/ n # 0)
    BY <1>3, SMT
  <2> QED
    BY <1>1, <1>3, <2>1, <2>2, Zenon
<1>4. CASE ~(s = 1 /\ n = 0)
  <2>1. before = lit
    BY <1>4
  <2> HIDE DEF before
  <2> QED
    BY <1>1, <1>2, <1>4, <2>1, Zenon
<1> QED
  BY <1>3, <1>4

LEMMA LedThread == ASSUME LedInv, ThdBlinkLed PROVE LedInv'
<1>a. seqs' = seqs /\ given' = given
  BY Zenon DEF ThdBlinkLed, BeginRound, Seq1Flash, BeginSeq2, Seq2Flash
<1>b. /\ seqs \in [1..2 -> 0..255] /\ given \in [1..2 -> Nat]
      /\ \A s \in 1..2 : seqs[s] = Toggles(given[s])
  BY Zenon DEF LedInv, LedTypeOK
<1>1. /\ seqs[1] \in 0..255 /\ given[1] \in Nat
      /\ seqs[2] \in 0..255 /\ given[2] \in Nat
      /\ given[1] <= 127 => seqs[1] = 2 * given[1]
      /\ given[2] <= 127 => seqs[2] = 2 * given[2]
  BY <1>b, TogglesTwice
<1>2. LedTypeOK /\ led \in BOOLEAN /\ i \in 0..255 /\ whole \in BOOLEAN /\ lit \in [1..2 -> 0..128]
  BY DEF LedInv, LedTypeOK
<1>c. ASSUME led' \in BOOLEAN, blink' \in {"seq1", "gap", "seq2", "pause"},
             i' \in 0..255, lit' \in [1..2 -> 0..128], whole' \in BOOLEAN
      PROVE  LedTypeOK' /\ \A s \in 1..2 : seqs'[s] = Toggles(given'[s])
  <2>1. LedTypeOK'
    BY <1>a, <1>b, <1>c DEF LedTypeOK
  <2> QED
    BY <1>a, <1>b, <2>1
<1>3. CASE BeginRound
  <2>1. Loop(1, 0, "gap") /\ whole' = TRUE /\ ~led
    BY <1>3 DEF BeginRound, LedInv
  <2>2. CASE 0 < seqs[1]
    <3>1. /\ i' = 0 /\ blink' = "seq1"
          /\ led' \in BOOLEAN /\ led'
          /\ lit' \in [1..2 -> 0..128] /\ lit'[1] = 1 /\ lit'[2] = 0
      <4>1. /\ 1 \in 1..2 /\ 0 \in 0..255 /\ (led <=> 0 % 2 = 1)
            /\ 0 # 0 => lit[1] = (0 - 1) \div 2 + 1
            /\ 0 = 0 /\ 1 = 2 => lit[2] = 0
        BY <2>1, SMT
      <4>2. /\ i' = 0
            /\ blink' = IF 1 = 1 THEN "seq1" ELSE "seq2"
            /\ led' \in BOOLEAN /\ (led' <=> 0 % 2 = 0)
            /\ lit' \in [1..2 -> 0..128]
            /\ lit'[1] = 0 \div 2 + 1
            /\ 1 = 1 => lit'[2] = IF 0 = 0 THEN 0 ELSE lit[2]
            /\ 1 = 2 => lit'[1] = lit[1]
        BY <1>2, <2>1, <2>2, <4>1, LoopToggles, Zenon
      <4> QED
        BY <4>2, SMT
    <3>q. LedTypeOK' /\ \A s \in 1..2 : seqs'[s] = Toggles(given'[s])
      BY <1>c, <1>2, <2>1, <2>2, <3>1
    <3> QED
      BY <1>1, <1>a, <3>q, <2>1, <2>2, <3>1 DEF LedInv
  <2>3. CASE ~(0 < seqs[1])
    <3>1. /\ i' = 0 /\ blink' = "gap"
          /\ led' \in BOOLEAN /\ ~led'
          /\ lit' \in [1..2 -> 0..128] /\ lit'[1] = 0 /\ lit'[2] = 0
      <4>1. 1 \in 1..2 /\ 0 \in 0..255
        BY SMT
      <4> QED
        BY <1>2, <2>1, <2>3, <4>1, LoopLeaves, ZenonT(40)
    <3>q. LedTypeOK' /\ \A s \in 1..2 : seqs'[s] = Toggles(given'[s])
      BY <1>c, <1>2, <2>1, <2>3, <3>1
    <3> QED
      BY <1>1, <1>a, <3>q, <2>1, <2>3, <3>1 DEF LedInv
  <2> QED
    BY <2>2, <2>3
<1>4. CASE Seq1Flash
  <2>1. /\ blink = "seq1" /\ Loop(1, i + 1, "gap") /\ whole' = whole
        /\ led <=> i % 2 = 0
        /\ lit[1] = i \div 2 + 1 /\ lit[2] = 0
        /\ whole => i < seqs[1]
        /\ i <= 254
    BY <1>4 DEF Seq1Flash, LedInv
  <2>2. /\ i + 1 \in 0..255 /\ i + 1 # 0 /\ (i + 1) - 1 = i
        /\ led <=> (i + 1) % 2 = 1
    BY <1>2, <2>1, SMT
  <2>3. CASE i + 1 < seqs[1]
    <3>1. /\ i' = i + 1 /\ blink' = "seq1"
          /\ led' \in BOOLEAN /\ (led' <=> (i + 1) % 2 = 0)
          /\ lit' \in [1..2 -> 0..128] /\ lit'[1] = (i + 1) \div 2 + 1 /\ lit'[2] = 0
      <4>1. /\ 1 \in 1..2
            /\ i + 1 # 0 => lit[1] = ((i + 1) - 1) \div 2 + 1
            /\ i + 1 = 0 /\ 1 = 2 => lit[2] = 0
        BY <2>1, <2>2, SMT
      <4>2. /\ i' = i + 1
            /\ blink' = IF 1 = 1 THEN "seq1" ELSE "seq2"
            /\ led' \in BOOLEAN /\ (led' <=> (i + 1) % 2 = 0)
            /\ lit' \in [1..2 -> 0..128]
            /\ lit'[1] = (i + 1) \div 2 + 1
            /\ 1 = 1 => lit'[2] = IF i + 1 = 0 THEN 0 ELSE lit[2]
            /\ 1 = 2 => lit'[1] = lit[1]
        BY <1>2, <2>1, <2>2, <2>3, <4>1, LoopToggles, Zenon
      <4> QED
        BY <2>1, <2>2, <4>2, SMT
    <3>q. LedTypeOK' /\ \A s \in 1..2 : seqs'[s] = Toggles(given'[s])
      BY <1>c, <1>2, <2>1, <2>3, <3>1
    <3> QED
      BY <1>1, <1>a, <3>q, <1>2, <2>1, <2>3, <3>1 DEF LedInv
  <2>4. CASE ~(i + 1 < seqs[1])
    <3>1. i' = 0 /\ blink' = "gap" /\ led' \in BOOLEAN /\ ~led' /\ lit' = lit
      <4>1. 1 \in 1..2
        BY SMT
      <4> QED
        BY <1>2, <2>1, <2>2, <2>4, <4>1, LoopLeaves, ZenonT(40)
    <3>2. whole /\ given[1] <= 127 => lit[1] = given[1]
      BY <1>1, <1>2, <2>1, <2>4, SMT
    <3>q. LedTypeOK' /\ \A s \in 1..2 : seqs'[s] = Toggles(given'[s])
      BY <1>c, <1>2, <2>1, <3>1, <3>2
    <3> QED
      BY <1>1, <1>a, <3>q, <1>2, <2>1, <3>1, <3>2 DEF LedInv
  <2> QED
    BY <2>3, <2>4
<1>5. CASE BeginSeq2
  <2>1. /\ blink = "gap" /\ Loop(2, 0, "pause") /\ whole' = whole
        /\ ~led /\ lit[2] = 0
        /\ whole /\ given[1] <= 127 => lit[1] = given[1]
    BY <1>5 DEF BeginSeq2, LedInv
  <2>2. CASE 0 < seqs[2]
    <3>1. /\ i' = 0 /\ blink' = "seq2"
          /\ led' \in BOOLEAN /\ led'
          /\ lit' \in [1..2 -> 0..128] /\ lit'[2] = 1 /\ lit'[1] = lit[1]
      <4>1. /\ 2 \in 1..2 /\ 0 \in 0..255 /\ (led <=> 0 % 2 = 1)
            /\ 0 # 0 => lit[2] = (0 - 1) \div 2 + 1
            /\ 0 = 0 /\ 2 = 2 => lit[2] = 0
        BY <2>1, SMT
      <4>2. /\ i' = 0
            /\ blink' = IF 2 = 1 THEN "seq1" ELSE "seq2"
            /\ led' \in BOOLEAN /\ (led' <=> 0 % 2 = 0)
            /\ lit' \in [1..2 -> 0..128]
            /\ lit'[2] = 0 \div 2 + 1
            /\ 2 = 1 => lit'[2] = IF 0 = 0 THEN 0 ELSE lit[2]
            /\ 2 = 2 => lit'[1] = lit[1]
        BY <1>2, <2>1, <2>2, <4>1, LoopToggles, Zenon
      <4> QED
        BY <4>2, SMT
    <3>q. LedTypeOK' /\ \A s \in 1..2 : seqs'[s] = Toggles(given'[s])
      BY <1>c, <1>2, <2>1, <2>2, <3>1
    <3> QED
      BY <1>1, <1>a, <3>q, <1>2, <2>1, <2>2, <3>1 DEF LedInv
  <2>3. CASE ~(0 < seqs[2])
    <3>1. i' = 0 /\ blink' = "pause" /\ led' \in BOOLEAN /\ ~led' /\ lit' = lit
      <4>1. 2 \in 1..2 /\ 0 \in 0..255
        BY SMT
      <4>2. /\ i' = 0
            /\ blink' = "pause"
            /\ led' \in BOOLEAN /\ ~led'
            /\ 2 = 2 \/ 0 # 0 => lit' = lit
        BY <1>2, <2>1, <2>3, <4>1, LoopLeaves, ZenonT(40)
      <4> QED
        BY <4>2
    <3>q. LedTypeOK' /\ \A s \in 1..2 : seqs'[s] = Toggles(given'[s])
      BY <1>c, <1>2, <2>1, <2>3, <3>1
    <3> QED
      BY <1>1, <1>a, <3>q, <1>2, <2>1, <2>3, <3>1 DEF LedInv
  <2> QED
    BY <2>2, <2>3
<1>6. CASE Seq2Flash
  <2>1. /\ blink = "seq2" /\ Loop(2, i + 1, "pause") /\ whole' = whole
        /\ led <=> i % 2 = 0
        /\ lit[2] = i \div 2 + 1
        /\ whole => i < seqs[2]
        /\ i <= 254
        /\ whole /\ given[1] <= 127 => lit[1] = given[1]
    BY <1>6 DEF Seq2Flash, LedInv
  <2>2. /\ i + 1 \in 0..255 /\ i + 1 # 0 /\ (i + 1) - 1 = i
        /\ led <=> (i + 1) % 2 = 1
    BY <1>2, <2>1, SMT
  <2>3. CASE i + 1 < seqs[2]
    <3>1. /\ i' = i + 1 /\ blink' = "seq2"
          /\ led' \in BOOLEAN /\ (led' <=> (i + 1) % 2 = 0)
          /\ lit' \in [1..2 -> 0..128] /\ lit'[2] = (i + 1) \div 2 + 1 /\ lit'[1] = lit[1]
      <4>1. /\ 2 \in 1..2
            /\ i + 1 # 0 => lit[2] = ((i + 1) - 1) \div 2 + 1
            /\ i + 1 = 0 /\ 2 = 2 => lit[2] = 0
        BY <2>1, <2>2, SMT
      <4>2. /\ i' = i + 1
            /\ blink' = IF 2 = 1 THEN "seq1" ELSE "seq2"
            /\ led' \in BOOLEAN /\ (led' <=> (i + 1) % 2 = 0)
            /\ lit' \in [1..2 -> 0..128]
            /\ lit'[2] = (i + 1) \div 2 + 1
            /\ 2 = 1 => lit'[2] = IF i + 1 = 0 THEN 0 ELSE lit[2]
            /\ 2 = 2 => lit'[1] = lit[1]
        BY <1>2, <2>1, <2>2, <2>3, <4>1, LoopToggles, Zenon
      <4> QED
        BY <2>1, <2>2, <4>2, SMT
    <3>q. LedTypeOK' /\ \A s \in 1..2 : seqs'[s] = Toggles(given'[s])
      BY <1>c, <1>2, <2>1, <2>3, <3>1
    <3> QED
      BY <1>1, <1>a, <3>q, <1>2, <2>1, <2>3, <3>1 DEF LedInv
  <2>4. CASE ~(i + 1 < seqs[2])
    <3>1. i' = 0 /\ blink' = "pause" /\ led' \in BOOLEAN /\ ~led' /\ lit' = lit
      <4>1. 2 \in 1..2
        BY SMT
      <4> QED
        BY <1>2, <2>1, <2>2, <2>4, <4>1, LoopLeaves, ZenonT(40)
    <3>2. whole /\ given[2] <= 127 => lit[2] = given[2]
      BY <1>1, <1>2, <2>1, <2>4, SMT
    <3>q. LedTypeOK' /\ \A s \in 1..2 : seqs'[s] = Toggles(given'[s])
      BY <1>c, <1>2, <2>1, <3>1, <3>2
    <3> QED
      BY <1>1, <1>a, <3>q, <1>2, <2>1, <3>1, <3>2 DEF LedInv
  <2> QED
    BY <2>3, <2>4
<1> QED
  BY <1>3, <1>4, <1>5, <1>6 DEF ThdBlinkLed

LEMMA LedStep == ASSUME LedInv, [Next]_vars PROVE LedInv'
<1>1. CASE Boot
  <2>1. PICK nb \in MotorCounts, baud \in BaudRates : SetFlashes(nb, baud \div 100000)
    BY <1>1 DEF Boot
  <2>2. nb \in Nat /\ baud \div 100000 \in Nat
    BY BoardAssumption, SMT
  <2> QED
    BY <2>1, <2>2, LedSet
<1>2. CASE UNCHANGED ledVars
  BY <1>2 DEF ledVars, LedInv, LedTypeOK
<1>3. CASE Blink
  BY <1>3, LedThread DEF Blink
<1>4. CASE ResetLed
  <2>1. LedInit'
    BY <1>4 DEF ResetLed, LedInit
  <2> QED
    BY <2>1, LedInitially, PTL
<1>5. UNCHANGED vars => UNCHANGED ledVars
  BY DEF vars
<1> QED
  BY <1>1, <1>2, <1>3, <1>4, <1>5 DEF Next

LEMMA LedAlways == Spec => []LedInv
<1>1. Init => LedInv
  BY LedInitially DEF Init
<1>2. LedInv /\ [Next]_vars => LedInv'
  BY LedStep
<1> QED
  BY <1>1, <1>2, PTL DEF Spec

(* The LED is dark between the sequences, whenever setFlashes() came.        *)
THEOREM LedDarkSafe == Spec => []LedDarkBetween
<1>1. LedInv => LedDarkBetween
  BY DEF LedInv, LedDarkBetween
<1> QED
  BY <1>1, LedAlways, PTL

(* A round that setFlashes() did not fall into shows the counts, whatever    *)
(* record the EEPROM holds.                                                  *)
THEOREM RoundSafe == Spec => []RoundShowsCounts
<1>1. LedInv => RoundShowsCounts
  BY DEF LedInv, RoundShowsCounts
<1> QED
  BY <1>1, LedAlways, PTL

(* The board's variables keep their types.                                   *)
THEOREM BoardTypeCorrect == Spec => []TypeOK
<1>1. UsbInv /\ LedInv => TypeOK
  BY DEF UsbInv, LedInv, TypeOK
<1> QED
  BY <1>1, UsbAlways, LedAlways, PTL
==================================================
