-------------------------- MODULE ConfConsole_proofs --------------------------
(***************************************************************************)
(* Theorems about ConfConsole, for every tick frequency, every set of      *)
(* sizes the library can have, any words and numbers a user may type, and  *)
(* any number of them.                                                     *)
(***************************************************************************)
EXTENDS ConfConsole, TLAPS

UserParams == [Settings -> Nat]
Sizes      == [window : LibWindows, median : LibMedians]

LEMMA SettingNames ==
  Settings = {"magnet", "motor", "window", "median", "rate", "baud", "smin", "smax"}
  BY SMT DEF Settings, Range

LEMMA InitParamType == InitParam \in UserParams
  BY SMT, SettingNames, ConfConsoleAssumption DEF InitParam, UserParams

LEMMA SizesAreNumbers == \A l \in Sizes : l.window \in Nat /\ l.median \in Nat
<1>1. LibWindows \subseteq Nat /\ LibMedians \subseteq Nat
  BY ConfConsoleAssumption
<1> QED
  BY <1>1 DEF Sizes

(* Where the getters of the filter sizes write back, only the sizes change.  *)
LEMMA RefreshedType ==
  ASSUME NEW u \in UserParams, lib \in Sizes
  PROVE  /\ Refreshed(u) \in UserParams
         /\ Refreshed(u).window = lib.window
         /\ Refreshed(u).median = lib.median
         /\ \A e \in Settings \ {"window", "median"} : Refreshed(u)[e] = u[e]
  BY SettingNames, SizesAreNumbers DEF Refreshed, UserParams

(* The library gives sizes it can have, and those asked for if they are.     *)
LEMMA SizedType ==
  ASSUME NEW u \in UserParams
  PROVE  /\ Sized(u) \subseteq Sizes
         /\ u.window \in LibWindows /\ u.median \in LibMedians =>
              Sized(u) = {[window |-> u.window, median |-> u.median]}
<1>1. Sized(u) \subseteq Sizes
  BY DEF Sized, Resized, Sizes
<1>2. ASSUME u.window \in LibWindows, u.median \in LibMedians
      PROVE  Sized(u) = {[window |-> u.window, median |-> u.median]}
  <2>1. Sized(u) = [window : {u.window}, median : {u.median}]
    BY <1>2 DEF Sized, Resized
  <2>2. \A l : l \in [window : {u.window}, median : {u.median}]
                <=> l = [window |-> u.window, median |-> u.median]
    OBVIOUS
  <2> QED
    BY <2>1, <2>2
<1> QED
  BY <1>1, <1>2

(* The values in the ranges of the table are numbers.                        *)
LEMMA RangesAreNumbers == \A e \in Settings : Range[e] \subseteq Nat
<1>1. Range.magnet \subseteq Nat /\ Range.motor \subseteq Nat
  BY SMT DEF Range
<1>2. Range.window \subseteq Nat /\ Range.median \subseteq Nat
  BY SMT DEF Range
<1>3. Range.rate \subseteq Nat /\ Range.baud \subseteq Nat
  BY SMT DEF Range
<1>4. Range.smin \subseteq Nat /\ Range.smax \subseteq Nat
  BY SMT DEF Range
<1> QED
  BY <1>1, <1>2, <1>3, <1>4, SettingNames

LEMMA SetToType ==
  ASSUME up \in UserParams, lib \in Sizes, NEW e \in Settings, NEW v \in Nat, SetTo(e, v)
  PROVE  up' \in UserParams /\ lib' \in Sizes
<1>1. up' \in UserParams
  <2>1. v \in 1..Freq => Freq \div v \in Nat
    BY ConfConsoleAssumption
  <2> QED
    BY <2>1 DEF SetTo, UserParams
<1>2. lib' \in Sizes
  BY DEF SetTo, Sizes, Resized
<1> QED
  BY <1>1, <1>2

LEMMA ShownType ==
  ASSUME up \in UserParams, lib \in Sizes
  PROVE  Shown \in [Settings -> Nat]
<1>1. up["rate"] \in Nat /\ (up["rate"] # 0 => Freq \div up["rate"] \in Nat)
  BY SettingNames, ConfConsoleAssumption DEF UserParams
<1>2. lib.window \in Nat /\ lib.median \in Nat
  BY SizesAreNumbers
<1> QED
  BY <1>1, <1>2 DEF Shown, UserParams

LEMMA ReadConfType ==
  ASSUME TypeOK, ReadConf
  PROVE  /\ up' \in UserParams
         /\ running' \in BOOLEAN
         /\ lib' \in Sizes
         /\ rom' \in {NoConf} \cup [settings : UserParams, running : BOOLEAN]
<1>1. up \in UserParams /\ lib \in Sizes
  BY DEF TypeOK, UserParams, Sizes
<1>2. CASE rom # NoConf /\ up' = rom.settings /\ running' = rom.running
           /\ lib' \in Sized(rom.settings) /\ rom' = rom
  BY <1>2, SizedType DEF TypeOK, UserParams
<1>3. CASE /\ rom = NoConf /\ up' = Refreshed(up) /\ lib' \in Sized(up')
           /\ rom' \in {NoConf, [settings |-> up', running |-> running]} /\ running' = running
  BY <1>1, <1>3, RefreshedType, SizedType DEF TypeOK
<1>4. CASE UNCHANGED <<up, running, lib, rom>>
  BY <1>1, <1>4 DEF TypeOK, UserParams
<1> QED
  BY <1>2, <1>3, <1>4 DEF ReadConf

LEMMA ConsoleTypeInit == Init => TypeOK
<1> SUFFICES ASSUME Init PROVE TypeOK
  OBVIOUS
<1>1. up \in UserParams
  BY InitParamType DEF Init
<1>2. rom \in {NoConf} \cup [settings : UserParams, running : BOOLEAN]
  <2>1. Earlier \subseteq UserParams
    BY ConfConsoleAssumption DEF UserParams, FromConsole
  <2> QED
    BY <2>1 DEF Init, UserParams
<1>3. lib \in Sizes
  BY ConfConsoleAssumption DEF Init, Sizes
<1>4. quiet \in BOOLEAN /\ edits \in 0..MaxEdits /\ fault \in Int
  BY ConfConsoleAssumption DEF Init, NoFault
<1> QED
  BY <1>1, <1>2, <1>3, <1>4 DEF Init, TypeOK, UserParams, Sizes

LEMMA ConsoleTypeStep == TypeOK /\ [Next]_vars => TypeOK'
<1> SUFFICES ASSUME TypeOK, [Next]_vars PROVE TypeOK'
  OBVIOUS
<1>0. up \in UserParams /\ lib \in Sizes
  BY DEF TypeOK, UserParams, Sizes
<1> USE DEF TypeOK, hist, UserParams, Sizes
<1>1. CASE UNCHANGED vars
  BY <1>1 DEF vars, boardVars
<1>2. CASE Boot
  BY <1>2, ReadConfType DEF Boot
<1>3. CASE OpenConsole
  BY <1>3 DEF OpenConsole, StateStopped
<1>4. CASE HostRun
  BY <1>4 DEF HostRun
<1>5. CASE Restart
  <2>1. lib' \in Sizes
    BY <1>5, ConfConsoleAssumption DEF Restart, PowerOn
  <2>2. up' \in UserParams
    BY <1>5, InitParamType DEF Restart, PowerOn
  <2>3. fault' \in Int
    BY <1>5 DEF Restart, PowerOn, NoFault
  <2> QED
    BY <1>5, <2>1, <2>2, <2>3 DEF Restart, PowerOn
<1>6. ASSUME NEW e, ConfGet(e)
      PROVE  TypeOK'
  BY <1>0, <1>6, RefreshedType DEF ConfGet
<1>7. ASSUME NEW e, ConfShow(e)
      PROVE  TypeOK'
  BY <1>0, <1>7, RefreshedType, ShownType DEF ConfShow
<1>8. ASSUME NEW e, ConfStore(e)
      PROVE  TypeOK'
  <2>1. rom' \in {NoConf} \cup [settings : UserParams, running : BOOLEAN]
    <3>1. CASE rom' = [settings |-> up, running |-> running]
      BY <3>1
    <3>2. CASE rom' = rom
      BY <3>2
    <3> QED
      BY <1>8, <3>1, <3>2 DEF ConfStore
  <2>2. promised' \in {Nothing} \cup [Settings -> Nat] /\ quiet' \in BOOLEAN
    BY <1>8 DEF ConfStore
  <2> QED
    BY <1>8, <2>1, <2>2 DEF ConfStore
<1>9. ASSUME NEW e, ConfLoad(e)
      PROVE  TypeOK'
  BY <1>9, ReadConfType DEF ConfLoad
<1>10. ASSUME NEW e, ConfErase(e)
       PROVE  TypeOK'
  BY <1>10 DEF ConfErase
<1>11. ASSUME NEW e, NEW v, ConfSet(e, v)
       PROVE  TypeOK'
  <2>1. e \in Settings /\ v \in Nat
    BY <1>11, RangesAreNumbers DEF ConfSet, InRange
  <2>2. up' \in UserParams /\ lib' \in Sizes
    BY <1>0, <1>11, <2>1, SetToType DEF ConfSet
  <2>3. edits' \in 0..MaxEdits
    BY <1>11, ConfConsoleAssumption DEF ConfSet
  <2> QED
    BY <1>11, <2>2, <2>3 DEF ConfSet
<1>12. ASSUME NEW e, NEW v, ConfSetErrors(e, v)
       PROVE  TypeOK'
  <2>1. v = 0
    BY <1>12, SettingNames DEF ConfSetErrors, InRange
  <2> QED
    BY <1>12, <2>1 DEF ConfSetErrors
<1> QED
  BY <1>1, <1>2, <1>3, <1>4, <1>5, <1>6, <1>7, <1>8, <1>9, <1>10, <1>11, <1>12
     DEF Next, CmdConf, ConfNothing

(* Every setting stays a number and every variable keeps its type.           *)
THEOREM ConsoleTypeCorrect == Spec => []TypeOK
  BY ConsoleTypeInit, ConsoleTypeStep, PTL DEF Spec

-----------------------------------------------------------------------------
(* A console in whose time no Run or load came works in the Stop state, so   *)
(* that is what it stores, and what the next boot reads.                     *)
SilentInv ==
    /\ phase = "shell" /\ ~heard => ~running
    /\ quiet => rom # NoConf /\ ~rom.running
    /\ phase = "up" /\ quiet => ~streams

LEMMA SilentStep == TypeOK /\ SilentInv /\ [Next]_vars => SilentInv'
<1> SUFFICES ASSUME TypeOK, SilentInv, [Next]_vars PROVE SilentInv'
  OBVIOUS
<1> USE DEF SilentInv, hist
<1>1. CASE UNCHANGED vars
  BY <1>1 DEF vars, boardVars
<1>2. CASE Boot
  BY <1>2 DEF Boot, ReadConf
<1>3. CASE OpenConsole
  BY <1>3 DEF OpenConsole, StateStopped
<1>4. CASE HostRun
  BY <1>4 DEF HostRun
<1>5. CASE Restart
  BY <1>5 DEF Restart, PowerOn
<1>6. ASSUME NEW e, phase = "shell",
             ConfGet(e) \/ ConfShow(e) \/ ConfErase(e) \/ (\E v \in Args : ConfSet(e, v) \/ ConfSetErrors(e, v))
      PROVE  SilentInv'
  BY <1>6 DEF ConfGet, ConfShow, ConfErase, ConfSet, ConfSetErrors
<1>7. ASSUME NEW e, phase = "shell", ConfStore(e)
      PROVE  SilentInv'
  <2>1. CASE UNCHANGED <<rom, promised, quiet>>
    BY <1>7, <2>1 DEF ConfStore
  <2>2. CASE rom' = [settings |-> up, running |-> running] /\ quiet' = ~heard
    <3>1. rom' # NoConf /\ rom'.running = running
      BY <2>2 DEF NoConf
    <3> QED
      BY <1>7, <2>2, <3>1 DEF ConfStore
  <2> QED
    BY <1>7, <2>1, <2>2 DEF ConfStore
<1>8. ASSUME NEW e, phase = "shell", ConfLoad(e)
      PROVE  SilentInv'
  BY <1>8 DEF ConfLoad
<1> QED
  BY <1>1, <1>2, <1>3, <1>4, <1>5, <1>6, <1>7, <1>8 DEF Next, CmdConf, ConfNothing

(* Whatever is typed: a board configured from its console does not stream by *)
(* itself after the next boot.                                               *)
THEOREM SilentSafe == Spec => []StoredBoardIsSilent
<1>1. Init => SilentInv
  <2> SUFFICES ASSUME Init PROVE SilentInv
    OBVIOUS
  <2>1. rom # NoConf => rom.running = FALSE
    BY DEF Init
  <2> QED
    BY <2>1 DEF Init, SilentInv
<1>2. SilentInv => StoredBoardIsSilent
  BY DEF SilentInv, StoredBoardIsSilent
<1> QED
  BY <1>1, <1>2, SilentStep, ConsoleTypeCorrect, PTL DEF Spec

-----------------------------------------------------------------------------
(* What "show" shows of settings whose filter sizes the library has.         *)
ShownOf(u) == [e \in Settings |-> IF e # "rate" THEN u[e]
                                  ELSE IF u[e] = 0 THEN 0 ELSE Freq \div u[e]]

Fitting(u, l) == l = [window |-> u.window, median |-> u.median]

(* The inductive invariant behind ShownIsKept: what was shown is what the    *)
(* settings say, with sizes the library has, and what was promised is what   *)
(* the record says; the settings of a boot are those of the record.          *)
KeptInv ==
    /\ phase = "boot" => shown = Nothing
    /\ shown # Nothing => shown = ShownOf(up) /\ Fitting(up, lib)
    /\ promised # Nothing =>
         /\ rom # NoConf
         /\ promised = ShownOf(rom.settings)
         /\ rom.settings.window \in LibWindows
         /\ rom.settings.median \in LibMedians
    /\ phase = "up" /\ promised # Nothing => up = rom.settings /\ Fitting(up, lib)

LEMMA FittingShows ==
  ASSUME up \in UserParams, Fitting(up, lib)
  PROVE  Shown = ShownOf(up)
  BY SettingNames DEF Shown, ShownOf, Fitting, UserParams

(* After the getters have written back, what was shown is what is there.     *)
LEMMA RefreshedShows ==
  ASSUME up \in UserParams, lib \in Sizes
  PROVE  Shown = ShownOf(Refreshed(up)) /\ Fitting(Refreshed(up), lib)
<1>1. Refreshed(up).window = lib.window /\ Refreshed(up).median = lib.median
  BY RefreshedType
<1>2. \A e \in Settings \ {"window", "median"} : Refreshed(up)[e] = up[e]
  BY RefreshedType
<1>3. ASSUME NEW e \in Settings
      PROVE  Shown[e] = ShownOf(Refreshed(up))[e]
  BY <1>1, <1>2, SettingNames DEF Shown, ShownOf
<1> QED
  BY <1>1, <1>3 DEF Shown, ShownOf, Fitting, Sizes

(* Getters that write back what is there change nothing.                     *)
LEMMA RefreshedFitting ==
  ASSUME up \in UserParams, Fitting(up, lib)
  PROVE  Refreshed(up) = up
  BY SettingNames DEF Refreshed, Fitting, UserParams

LEMMA KeptStep == TypeOK /\ KeptInv /\ [Next]_vars => KeptInv'
<1> SUFFICES ASSUME TypeOK, KeptInv, [Next]_vars PROVE KeptInv'
  OBVIOUS
<1>0. up \in UserParams /\ lib \in Sizes
  BY DEF TypeOK, UserParams, Sizes
<1> USE DEF KeptInv, hist
<1>1. CASE UNCHANGED vars
  BY <1>1 DEF vars, boardVars
<1>2. CASE Boot
  <2>1. shown' = Nothing /\ phase' = "up" /\ promised' = promised
    BY <1>2 DEF Boot
  <2>2. CASE promised = Nothing
    BY <2>1, <2>2
  <2>3. CASE promised # Nothing
    <3>1. rom # NoConf /\ up' = rom.settings /\ lib' \in Sized(rom.settings) /\ rom' = rom
      BY <1>2, <2>3 DEF Boot, ReadConf
    <3>2. rom.settings \in UserParams
      BY <3>1 DEF TypeOK, UserParams
    <3>3. Fitting(up', lib')
      BY <2>3, <3>1, <3>2, SizedType DEF Fitting
    <3> QED
      BY <2>1, <2>3, <3>1, <3>3
  <2> QED
    BY <2>2, <2>3
<1>3. CASE OpenConsole \/ HostRun
  BY <1>3 DEF OpenConsole, HostRun
<1>4. CASE Restart
  BY <1>4 DEF Restart, PowerOn
<1>5. ASSUME NEW e, phase = "shell", ConfGet(e)
      PROVE  KeptInv'
  <2>1. ASSUME shown # Nothing
        PROVE  up' = up
    <3>1. Refreshed(up) = up
      BY <1>0, <2>1, RefreshedFitting
    <3>2. [up EXCEPT ![e] = Refreshed(up)[e]] = up
      BY <1>0, <3>1 DEF UserParams
    <3> QED
      BY <1>5, <3>2 DEF ConfGet
  <2> QED
    BY <1>5, <2>1 DEF ConfGet
<1>6. ASSUME NEW e, phase = "shell", ConfShow(e)
      PROVE  KeptInv'
  BY <1>0, <1>6, RefreshedShows DEF ConfShow
<1>7. ASSUME NEW e, phase = "shell", ConfStore(e)
      PROVE  KeptInv'
  <2>1. CASE UNCHANGED <<rom, promised, quiet>>
    BY <1>7, <2>1 DEF ConfStore
  <2>2. CASE rom' = [settings |-> up, running |-> running] /\ promised' = shown
    <3>1. rom' # NoConf /\ rom'.settings = up
      BY <2>2 DEF NoConf
    <3>2. shown # Nothing => up.window \in LibWindows /\ up.median \in LibMedians
      BY <1>0 DEF Fitting, Sizes
    <3> QED
      BY <1>7, <2>2, <3>1, <3>2 DEF ConfStore
  <2> QED
    BY <1>7, <2>1, <2>2 DEF ConfStore
<1>8. ASSUME NEW e, phase = "shell", ConfLoad(e)
      PROVE  KeptInv'
  BY <1>8 DEF ConfLoad, ReadConf
<1>9. ASSUME NEW e, phase = "shell",
             ConfErase(e) \/ (\E v \in Args : ConfSet(e, v) \/ ConfSetErrors(e, v))
      PROVE  KeptInv'
  BY <1>9 DEF ConfErase, ConfSet, ConfSetErrors
<1> QED
  BY <1>1, <1>2, <1>3, <1>4, <1>5, <1>6, <1>7, <1>8, <1>9 DEF Next, CmdConf, ConfNothing

(* What "show" showed and "store" stored is what the next boot has, whatever *)
(* the library makes of other sizes.                                         *)
THEOREM KeptSafe == Spec => []ShownIsKept
<1>1. Init => KeptInv
  BY DEF Init, KeptInv
<1>2. TypeOK /\ KeptInv => ShownIsKept
  BY FittingShows DEF TypeOK, UserParams, KeptInv, ShownIsKept
<1> QED
  BY <1>1, <1>2, KeptStep, ConsoleTypeCorrect, PTL DEF Spec
-----------------------------------------------------------------------------
(* What the ranges of the table promise.                                     *)

LEMMA RangeOf ==
  /\ Range["magnet"] = 2..60 /\ Range["motor"] = 1..8
  /\ Range["window"] = 1..16 /\ Range["median"] = 0..4
  /\ Range["rate"] = 1..10000 /\ Range["baud"] = 9600..MaxBaud
  /\ Range["smin"] = 100..10000 /\ Range["smax"] = 100..MaxSpeed
  BY SMT DEF Range

LEMMA FromConsoleType ==
  ASSUME NEW u, FromConsole(u)
  PROVE  u \in UserParams /\ u["rate"] \in 1..Freq
  BY DEF FromConsole, UserParams

LEMMA RangeBounds ==
  /\ \A x \in Range["magnet"] : x \in Nat /\ 2 <= x /\ x <= 60
  /\ \A x \in Range["motor"] : x \in Nat /\ 1 <= x /\ x <= 8
  /\ \A x \in Range["smin"] : x \in Nat /\ 100 <= x /\ x <= 10000
  /\ \A x \in Range["smax"] : x \in Nat /\ 100 <= x /\ x <= MaxSpeed
<1>1. \A x \in Range["magnet"] : x \in Nat /\ 2 <= x /\ x <= 60
  <2>1. Range["magnet"] = 2..60
    BY RangeOf
  <2>2. \A x \in 2..60 : x \in Nat /\ 2 <= x /\ x <= 60
    BY SMT
  <2> QED
    BY <2>1, <2>2
<1>2. \A x \in Range["motor"] : x \in Nat /\ 1 <= x /\ x <= 8
  <2>1. Range["motor"] = 1..8
    BY RangeOf
  <2>2. \A x \in 1..8 : x \in Nat /\ 1 <= x /\ x <= 8
    BY SMT
  <2> QED
    BY <2>1, <2>2
<1>3. \A x \in Range["smin"] : x \in Nat /\ 100 <= x /\ x <= 10000
  <2> DEFINE S == 100..10000
             Bounded(x) == x \in Nat /\ 100 <= x /\ x <= 10000
  <2>1. Range["smin"] = S
    BY RangeOf
  <2>2. \A x \in S : Bounded(x)
    BY SMT
  <2> HIDE DEF S, Bounded
  <2>3. \A x \in Range["smin"] : Bounded(x)
    BY <2>1, <2>2, Zenon
  <2> QED
    BY <2>3 DEF Bounded
<1>4. \A x \in Range["smax"] : x \in Nat /\ 100 <= x /\ x <= MaxSpeed
  <2> DEFINE S == 100..MaxSpeed
             Bounded(x) == x \in Nat /\ 100 <= x /\ x <= MaxSpeed
  <2>1. Range["smax"] = S
    BY RangeOf
  <2>2. \A x \in S : Bounded(x)
    <3>1. MaxSpeed \in Nat
      BY SMT DEF MaxSpeed
    <3> QED
      BY <3>1, SMT
  <2> HIDE DEF S, Bounded
  <2>3. \A x \in Range["smax"] : Bounded(x)
    BY <2>1, <2>2, Zenon
  <2> QED
    BY <2>3 DEF Bounded
<1> QED
  BY <1>1, <1>2, <1>3, <1>4

LEMMA RateFits ==
  ASSUME NEW n \in Nat, 1 <= n, n <= Freq
  PROVE  n \in Range["rate"]
<1>1. PICK k \in Nat : k = 10000
  BY SMT
<1>2. Freq \in Nat /\ Freq <= k
  BY <1>1, ConfConsoleAssumption
<1>3. n \in 1..k
  BY <1>2, SMT
<1>4. Range["rate"] = 1..k
  <2> DEFINE R == 1..10000
  <2>1. Range["rate"] = R
    BY RangeOf
  <2>2. 1..k = R
    BY <1>1
  <2> HIDE DEF R
  <2> QED
    BY <2>1, <2>2
<1> QED
  BY <1>3, <1>4

\* Conversely, with only one field to look at.
LEMMA FromConsoleSet ==
  ASSUME NEW u, FromConsole(u), NEW e \in Settings, NEW v \in Nat,
         e \notin {"rate", "window", "median"} => v \in Range[e],
         e = "rate" => v \in 1..Freq
  PROVE  FromConsole([u EXCEPT ![e] = v])
<1> DEFINE w == [u EXCEPT ![e] = v]
<1>1. u \in [Settings -> Nat]
  BY DEF FromConsole
<1>2. w \in [Settings -> Nat] /\ w[e] = v /\ \A f \in Settings \ {e} : w[f] = u[f]
  BY <1>1
<1> HIDE DEF w
<1>3. \A f \in Settings \ {"rate", "window", "median"} : w[f] \in Range[f]
  BY <1>2 DEF FromConsole
<1>4. "rate" \in Settings /\ w["rate"] \in 1..Freq
  BY <1>2, SettingNames DEF FromConsole
<1>5. FromConsole(w)
  BY <1>2, <1>3, <1>4 DEF FromConsole
<1> QED
  BY <1>5 DEF w

LEMMA RefreshedFromConsole ==
  ASSUME NEW u, FromConsole(u), lib \in Sizes
  PROVE  FromConsole(Refreshed(u))
<1>1. u \in UserParams
  BY FromConsoleType
<1>2. Refreshed(u) \in UserParams
      /\ \A e \in Settings \ {"window", "median"} : Refreshed(u)[e] = u[e]
  BY <1>1, RefreshedType
<1> HIDE DEF Refreshed
<1>3. "rate" \in Settings
  BY SettingNames
<1> QED
  BY <1>2, <1>3 DEF FromConsole, UserParams

LEMMA InitFromConsole == FromConsole(InitParam)
<1>1. Freq \in Nat /\ 10 <= Freq /\ Freq <= 10000
  BY ConfConsoleAssumption
<1>2. Freq \div 10 \in 1..Freq
  BY <1>1, SMT
<1>3. 230400 \in 9600..MaxBaud
  <2>1. MaxBaud \in Nat /\ 230400 <= MaxBaud
    BY SMT DEF MaxBaud
  <2> QED
    BY <2>1, SMT
<1>7. 30000 \in 100..MaxSpeed
  <2>1. MaxSpeed \in Nat /\ 30000 <= MaxSpeed
    BY SMT DEF MaxSpeed
  <2> QED
    BY <2>1, SMT
<1>4. InitParam.rate = Freq \div 10
  BY DEF InitParam
<1>5. /\ InitParam["magnet"] = 14 /\ InitParam["motor"] = 4 /\ InitParam["baud"] = 230400
      /\ InitParam["smin"] = 300 /\ InitParam["smax"] = 30000
  BY SMT DEF InitParam
<1>6. \A e \in Settings \ {"rate", "window", "median"} : InitParam[e] \in Range[e]
  <2>1. /\ InitParam["magnet"] \in Range["magnet"] /\ InitParam["motor"] \in Range["motor"]
        /\ InitParam["baud"] \in Range["baud"]
        /\ InitParam["smin"] \in Range["smin"] /\ InitParam["smax"] \in Range["smax"]
    BY <1>3, <1>5, <1>7, RangeOf
  <2> HIDE DEF InitParam
  <2> QED
    BY <2>1, SettingNames
<1> QED
  BY <1>2, <1>4, <1>6, InitParamType DEF FromConsole, UserParams

\* Settings and record come from the table, whoever stored the record.
RangeInv ==
    /\ FromConsole(up)
    /\ rom # NoConf => FromConsole(rom.settings)

LEMMA RangeInit == Init => RangeInv
<1> SUFFICES ASSUME Init PROVE RangeInv
  OBVIOUS
<1>1. rom # NoConf => rom.settings \in Earlier
  BY DEF Init
<1>2. \A u \in Earlier : FromConsole(u)
  BY ConfConsoleAssumption
<1>3. up = InitParam
  BY DEF Init
<1> QED
  BY <1>1, <1>2, <1>3, InitFromConsole DEF RangeInv

LEMMA ReadConfRange ==
  ASSUME TypeOK, RangeInv, ReadConf
  PROVE  FromConsole(up') /\ (rom' # NoConf => FromConsole(rom'.settings))
<1>1. lib \in Sizes
  BY DEF TypeOK, Sizes
<1> QED
  BY <1>1, RefreshedFromConsole DEF ReadConf, RangeInv

LEMMA RangeStep == TypeOK /\ RangeInv /\ [Next]_vars => RangeInv'
<1> SUFFICES ASSUME TypeOK, RangeInv, [Next]_vars
             PROVE  FromConsole(up') /\ (rom' # NoConf => FromConsole(rom'.settings))
  BY DEF RangeInv, FromConsole
<1> USE DEF RangeInv, hist
<1>0. up \in UserParams /\ lib \in Sizes
  BY DEF TypeOK, UserParams, Sizes
<1>1. CASE UNCHANGED <<up, rom>>
  BY <1>1
<1>2. CASE UNCHANGED vars \/ OpenConsole \/ HostRun
  BY <1>2, <1>1 DEF vars, boardVars, OpenConsole, HostRun
<1>3. CASE Boot
  BY <1>3, ReadConfRange DEF Boot
<1>4. CASE Restart
  BY <1>4, InitFromConsole DEF Restart, PowerOn
<1>5. ASSUME NEW e, ConfLoad(e) PROVE FromConsole(up') /\ (rom' # NoConf => FromConsole(rom'.settings))
  BY <1>5, ReadConfRange DEF ConfLoad
<1>6. ASSUME NEW e, ConfShow(e) PROVE FromConsole(up') /\ rom' = rom
  BY <1>0, <1>6, RefreshedFromConsole DEF ConfShow
<1>7. ASSUME NEW e, ConfGet(e) PROVE FromConsole(up') /\ rom' = rom
  <2>1. CASE e \in {"window", "median"}
    <3>1. Refreshed(up)[e] \in Nat /\ e \in Settings
      BY <1>0, <2>1, RefreshedType, SettingNames DEF UserParams
    <3>2. FromConsole([up EXCEPT ![e] = Refreshed(up)[e]])
      BY <2>1, <3>1, FromConsoleSet
    <3> QED
      BY <1>7, <2>1, <3>2 DEF ConfGet
  <2>2. CASE e \notin {"window", "median"}
    BY <1>7, <2>2 DEF ConfGet
  <2> QED
    BY <2>1, <2>2
<1>8. ASSUME NEW e, ConfStore(e) PROVE FromConsole(up') /\ (rom' # NoConf => FromConsole(rom'.settings))
  <2>1. CASE rom' = [settings |-> up, running |-> running]
    BY <1>8, <2>1 DEF ConfStore
  <2>2. CASE rom' = rom
    BY <1>8, <2>2 DEF ConfStore
  <2> QED
    BY <1>8, <2>1, <2>2 DEF ConfStore
<1>9. ASSUME NEW e, ConfErase(e) PROVE FromConsole(up') /\ rom' = NoConf
  BY <1>9 DEF ConfErase
<1>10. ASSUME NEW e, NEW v, ConfSet(e, v) PROVE FromConsole(up') /\ rom' = rom
  <2>1. e \in Settings /\ v \in Range[e] /\ v \in Nat /\ rom' = rom
    BY <1>10, RangesAreNumbers DEF ConfSet, InRange
  <2>2. PICK n : up' = [up EXCEPT ![e] = n]
                 /\ n = IF e # "rate" THEN v ELSE IF v \in 1..Freq THEN Freq \div v ELSE up[e]
    BY <1>10 DEF ConfSet, SetTo
  <2>3. n \in Nat /\ (e # "rate" => n \in Range[e]) /\ (e = "rate" => n \in 1..Freq)
    <3>1. CASE e # "rate"
      BY <2>1, <2>2, <3>1
    <3>2. CASE e = "rate" /\ v \in 1..Freq
      <4>1. Freq \in Nat /\ Freq \div v \in 1..Freq
        <5>1. Freq \in Nat
          BY ConfConsoleAssumption
        <5> QED
          BY <3>2, <5>1, SMT
      <4> QED
        BY <2>2, <3>2, <4>1
    <3>3. CASE e = "rate" /\ v \notin 1..Freq
      <4>1. up["rate"] \in 1..Freq /\ Freq \in Nat
        BY FromConsoleType, ConfConsoleAssumption
      <4> QED
        BY <2>2, <3>3, <4>1
    <3> QED
      BY <3>1, <3>2, <3>3
  <2>4. FromConsole([up EXCEPT ![e] = n])
    BY <2>1, <2>3, FromConsoleSet
  <2> QED
    BY <2>1, <2>2, <2>4
<1>11. ASSUME NEW e, NEW v, ConfSetErrors(e, v) PROVE UNCHANGED <<up, rom>>
  BY <1>11 DEF ConfSetErrors
<1> QED
  BY <1>2, <1>3, <1>4, <1>5, <1>6, <1>7, <1>8, <1>9, <1>10, <1>11 DEF Next, CmdConf, ConfNothing

(* "show" tells values in the ranges it tells: the rate after two divisions, *)
(* and the filter sizes whatever the library made of what was asked.         *)
THEOREM ShownRangeSafe == Spec => []ShownInRange
<1>1. TypeOK /\ RangeInv => ShownInRange
  <2> SUFFICES ASSUME TypeOK, RangeInv, NEW e \in Settings PROVE Shown[e] \in Range[e]
    BY DEF ShownInRange
  <2>1. lib.window \in 1..16 /\ lib.median \in 0..4
    <3>1. lib.window \in LibWindows /\ lib.median \in LibMedians
      BY DEF TypeOK
    <3>2. LibWindows \subseteq 1..16 /\ LibMedians \subseteq 0..4
      BY ConfConsoleAssumption
    <3> QED
      BY <3>1, <3>2
  <2>2. FromConsole(up)
    BY DEF RangeInv
  <2>3. CASE e = "rate"
    <3>1. up.rate \in 1..Freq /\ Freq \in Nat /\ 10 <= Freq /\ Freq <= 10000
      BY <2>2, FromConsoleType, ConfConsoleAssumption
    <3>2. up.rate # 0
      BY <3>1, SMT
    <3>3. PICK n \in Nat : n = Freq \div up.rate /\ 1 <= n /\ n <= Freq
      <4> DEFINE t == up.rate
      <4>1. t \in Nat /\ 1 <= t /\ t <= Freq
        BY <3>1
      <4> HIDE DEF t
      <4>2. Freq \div t \in Nat /\ 1 <= Freq \div t /\ Freq \div t <= Freq
        BY <3>1, <4>1, SMT
      <4> QED
        BY <4>2 DEF t
    <3>4. Shown[e] = n
      BY <2>3, <3>2, <3>3 DEF Shown
    <3> QED
      BY <2>3, <3>3, <3>4, RateFits
  <2>4. CASE e = "window"
    <3>1. Shown[e] = lib.window
      BY <2>4 DEF Shown
    <3>2. Range["window"] = 1..16
      BY RangeOf
    <3> QED
      BY <2>1, <2>4, <3>1, <3>2
  <2>5. CASE e = "median"
    <3>1. Shown[e] = lib.median
      BY <2>5 DEF Shown
    <3>2. Range["median"] = 0..4
      BY RangeOf
    <3> QED
      BY <2>1, <2>5, <3>1, <3>2
  <2>6. CASE e \notin {"rate", "window", "median"}
    <3>1. Shown[e] = up[e]
      BY <2>6 DEF Shown
    <3> QED
      BY <2>2, <2>6, <3>1 DEF FromConsole
  <2> QED
    BY <2>3, <2>4, <2>5, <2>6
<1> QED
  BY <1>1, RangeInit, RangeStep, ConsoleTypeCorrect, PTL DEF Spec

-----------------------------------------------------------------------------
(* The checks of cache() on settings from the console.                       *)

\* A quotient and its remainder.
LEMMA Division ==
  ASSUME NEW a \in Nat, NEW b \in Nat \ {0}
  PROVE  /\ a \div b \in Nat /\ a % b \in Nat
         /\ a = b * (a \div b) + (a % b)
         /\ (a \div b) * b <= a /\ a < (a \div b + 1) * b
  BY SMT

\* What divides into k parts has a quotient of k.
LEMMA QuotientAtLeast ==
  ASSUME NEW a \in Nat, NEW b \in Nat \ {0}, NEW k \in Nat, k * b <= a
  PROVE  a \div b \in Nat /\ k <= a \div b
<1>1. PICK q \in Nat : q = a \div b /\ a < (q + 1) * b
  BY Division
<1>2. k * b < (q + 1) * b
  <2>1. k * b \in Nat /\ (q + 1) * b \in Nat
    BY SMT
  <2> QED
    BY <1>1, <2>1, SMT
<1>3. ~(q + 1 <= k)
  <2> SUFFICES ASSUME q + 1 <= k PROVE (q + 1) * b <= k * b
    BY <1>2, SMT
  <2> QED
    BY SMT
<1> QED
  BY <1>1, <1>3, SMT

\* Rounding to 24 bits moves a number by at most 4 below 2^27.
LEMMA ToFloatNear ==
  ASSUME NEW x \in Nat, 1 <= x, x < 134217728
  PROVE  ToFloat(x) \in Nat /\ 1 <= ToFloat(x) /\ ToFloat(x) <= x + 4
<1>1. CASE x < 16777216
  BY <1>1, SMTT(30) DEF ToFloat, Ulp
<1>2. CASE 16777216 <= x /\ x < 33554432
  BY <1>2, SMTT(30) DEF ToFloat, Ulp
<1>3. CASE 33554432 <= x /\ x < 67108864
  BY <1>3, SMTT(30) DEF ToFloat, Ulp
<1>4. CASE 67108864 <= x
  BY <1>4, SMTT(30) DEF ToFloat, Ulp
<1> QED
  BY <1>1, <1>2, <1>3, <1>4, SMT

\* The width of one rpm is the clock's 60 seconds through the divider.
LEMMA WidthAtLeast ==
  ASSUME NEW div \in Nat \ {0}, NEW magnets \in Nat \ {0}, NEW k \in Nat,
         TimerFreqIn \in Nat, k * (div * magnets) <= 60 * TimerFreqIn
  PROVE  WidthOneRpmHall(div, magnets) \in Nat /\ k <= WidthOneRpmHall(div, magnets)
<1> DEFINE d == div * magnets
           q == TimerFreqIn \div d
           r == TimerFreqIn % d
           e == (60 * r) \div d
<1>1. d \in Nat \ {0}
  BY SMT
<1> HIDE DEF d
<1>2. q \in Nat /\ r \in Nat /\ TimerFreqIn = d * q + r
  BY <1>1, Division
<1> HIDE DEF q, r
<1>3. e \in Nat /\ 60 * r < (e + 1) * d
  BY <1>1, <1>2, Division
<1> HIDE DEF e
<1>4. 60 * TimerFreqIn < (60 * q + e + 1) * d
  <2>1. (60 * q + e + 1) * d = 60 * (d * q) + (e + 1) * d
    BY <1>1, <1>2, <1>3, SMT
  <2>2. d * q \in Nat /\ (e + 1) * d \in Nat
    BY <1>1, <1>2, <1>3, SMT
  <2> QED
    BY <1>2, <1>3, <2>1, <2>2, SMT
<1>5. k <= 60 * q + e
  <2> DEFINE w == 60 * q + e
  <2>1. w \in Nat /\ k * d < (w + 1) * d
    <3>1. k * d \in Nat /\ (w + 1) * d \in Nat /\ k * d <= 60 * TimerFreqIn
      BY <1>1, <1>2, <1>3, SMT DEF d
    <3> QED
      BY <1>2, <1>3, <1>4, <3>1, SMT
  <2> HIDE DEF w
  <2>2. ~(w + 1 <= k)
    <3> SUFFICES ASSUME w + 1 <= k PROVE (w + 1) * d <= k * d
      <4>1. k * d \in Nat /\ (w + 1) * d \in Nat
        BY <1>1, <2>1, SMT
      <4> QED
        BY <2>1, <4>1, SMT
    <3> QED
      BY <1>1, <2>1, SMT
  <2> QED
    BY <2>1, <2>2, SMT DEF w
<1>6. WidthOneRpmHall(div, magnets) = 60 * q + e
  BY DEF WidthOneRpmHall, d, q, r, e
<1> QED
  BY <1>2, <1>3, <1>5, <1>6, SMT

\* What the ranges leave of the least frequency: at least 4 periods in 3
\* seconds for every magnet, and no more than the clock divides.
LEMMA FreqBounds ==
  ASSUME NEW s \in Nat, NEW m \in Nat, 100 <= s, s <= 10000, 3 <= m, m <= 60
  PROVE  LET f == (s * m) \div 60
         IN  f \in Nat /\ 1 <= f /\ f <= 10000 /\ 4 * m <= 3 * f
<1>1. PICK p \in Nat : p = s * m
  BY SMT
<1>2. 100 * m <= p /\ p <= 60 * 10000
  <2>1. 100 * m <= s * m
    BY SMT
  <2>2. s * m <= 10000 * m
    BY SMT
  <2> QED
    BY <1>1, <2>1, <2>2, SMT
<1>3. PICK f \in Nat : f = p \div 60 /\ f * 60 <= p /\ p < (f + 1) * 60
  BY <1>1, Division
<1>4. 1 <= f /\ f <= 10000 /\ 4 * m <= 3 * f
  BY <1>2, <1>3, SMT
<1> QED
  BY <1>1, <1>3, <1>4

LEMMA EightTicksOfWidth ==
  ASSUME NEW div \in Nat \ {0}, NEW m \in Nat \ {0}, NEW X \in Nat \ {0}, NEW k \in Nat, NEW b,
         8 * X <= k, TimerFreqIn \in Nat, b = div * m, k * b <= 60 * TimerFreqIn
  PROVE  WidthOneRpmHall(div, m) \div X >= 8
<1>0. k * (div * m) <= 60 * TimerFreqIn
  OBVIOUS
<1>1. PICK w \in Nat : w = WidthOneRpmHall(div, m) /\ k <= w
  BY <1>0, WidthAtLeast
<1>2. PICK e \in Nat : e = 8 /\ e * X <= w
  BY <1>1, SMT
<1>3. PICK q \in Nat : q = w \div X /\ e <= q
  BY <1>2, QuotientAtLeast
<1> QED
  BY <1>1, <1>2, <1>3

\* From the least frequency on, the clock has eight ticks for the
\* greatest speed.
Settled(f, m, x, div) ==
    /\ 3 <= m /\ m <= 60 /\ 4 * m <= 3 * f
    /\ x * f <= TimerFreqIn
    /\ Range16 * div <= x + 4 + 65535

Covered(div, m) == 8 * MaxSpeed * (div * m) <= 60 * TimerFreqIn

LEMMA ClockCovers ==
  ASSUME NEW f \in Nat, NEW m \in Nat, NEW x \in Nat, NEW div \in Nat,
         Settled(f, m, x, div)
  PROVE  Covered(div, m)
<1> USE DEF Settled
<1>1. TimerFreqIn \in Nat /\ 1000 * 1000 <= TimerFreqIn
  BY ConsoleClockAssumption
<1>2. PICK b \in Nat : b = div * m
  BY SMT
<1>3. PICK y \in Nat : y = x * m
  BY SMT
<1>4. 65536 * b <= y + 65539 * m
  <2>1. PICK c \in Nat : c = Range16 * div
    BY SMT DEF Range16
  <2>2. c * m <= (x + 65539) * m
    BY <2>1, SMT
  <2>3. c * m = 65536 * b
    BY <1>2, <2>1, SMT DEF Range16
  <2>4. (x + 65539) * m = y + 65539 * m
    BY <1>3, SMT
  <2> QED
    BY <2>2, <2>3, <2>4
<1>5. 4 * y <= 3 * TimerFreqIn
  <2>1. PICK z \in Nat : z = x * f
    BY SMT
  <2>2. x * (4 * m) <= x * (3 * f)
    BY SMT
  <2>3. x * (4 * m) = 4 * y /\ x * (3 * f) = 3 * z
    BY <1>3, <2>1, SMT
  <2> QED
    BY <1>1, <2>1, <2>2, <2>3, SMT
<1>6. 8 * MaxSpeed * b <= 60 * TimerFreqIn
  BY <1>1, <1>4, <1>5, SMT DEF MaxSpeed
<1> QED
  BY <1>2, <1>6 DEF Covered

\* Speeds of the ranges span fewer ticks than a period has, if they are in order.
LEMMA SpanInOrder ==
  ASSUME NEW s \in Nat, NEW X \in Nat, 100 <= s, s <= 10000, 100 <= X
  PROVE  (Range16 * s) \div X >= 65535 <=> X <= s
<1>1. PICK q \in Nat : q = (Range16 * s) \div X /\ q * X <= 65536 * s /\ 65536 * s < (q + 1) * X
  BY Division, SMT DEF Range16
<1>2. X <= s => q >= 65535
  <2> SUFFICES ASSUME X <= s, q + 1 <= 65535 PROVE FALSE
    BY SMT
  <2>1. (q + 1) * X <= 65535 * X
    BY SMT
  <2> QED
    BY <1>1, <2>1, SMT
<1>3. q >= 65535 => X <= s
  <2> SUFFICES ASSUME q >= 65535, s + 1 <= X PROVE FALSE
    BY SMT
  <2>1. 65535 * X <= q * X
    BY SMT
  <2> QED
    BY <1>1, <2>1, SMT
<1> QED
  BY <1>1, <1>2, <1>3

\* The divider for a least frequency of the ranges.
LEMMA DividerFits ==
  ASSUME NEW f \in Nat, 1 <= f, f <= 10000
  PROVE  LET x == TimerFreqIn \div f
             t == ToFloat(x)
             d == (t + Range16 - 1) \div Range16
         IN  /\ x \in Nat /\ x * f <= TimerFreqIn
             /\ d \in Nat /\ 1 <= d /\ d <= 65535
             /\ Range16 * d <= x + 4 + 65535
<1>1. TimerFreqIn \in Nat /\ 1000 * 1000 <= TimerFreqIn /\ TimerFreqIn < 134217728
  BY ConsoleClockAssumption
<1>2. PICK x \in Nat : x = TimerFreqIn \div f /\ x * f <= TimerFreqIn /\ TimerFreqIn < (x + 1) * f
  BY <1>1, Division
<1>3. 1 <= x /\ x < 134217728
  <2>1. x <= x * f
    BY SMT
  <2>2. x # 0
    BY <1>1, <1>2, SMT
  <2> QED
    BY <1>1, <1>2, <2>1, <2>2, SMT
<1>4. PICK t \in Nat : t = ToFloat(x) /\ 1 <= t /\ t <= x + 4
  BY <1>3, ToFloatNear
<1>5. PICK d \in Nat : d = (t + Range16 - 1) \div Range16
  BY <1>4, SMT DEF Range16
<1>6. 1 <= d /\ d <= 65535 /\ Range16 * d <= x + 4 + 65535
  BY <1>3, <1>4, <1>5, SMT DEF Range16
<1> QED
  BY <1>2, <1>4, <1>5, <1>6

LEMMA ConsoleAccepts ==
  ASSUME NEW u, FromConsole(u)
  PROVE  Accepts(Motor(u)) <=> u.magnet > 2 /\ u.smin < u.smax
<1>1. PICK m, s, X, n : m = u.magnet /\ s = u.smin /\ X = u.smax /\ n = u.motor
  OBVIOUS
<1>2. PICK v : v = Motor(u)
  OBVIOUS
<1>3. v.magnets = m /\ v.minRpm = s /\ v.maxRpm = X /\ v.nbMotors = n
  BY <1>1, <1>2 DEF Motor
<1>4. /\ m \in Nat /\ 2 <= m /\ m <= 60
      /\ n \in Nat /\ 1 <= n /\ n <= 8
      /\ s \in Nat /\ 100 <= s /\ s <= 10000
      /\ X \in Nat /\ 100 <= X /\ X <= MaxSpeed
  <2>1. /\ m \in Range["magnet"] /\ n \in Range["motor"]
        /\ s \in Range["smin"] /\ X \in Range["smax"]
    BY <1>1, SettingNames DEF FromConsole
  <2> QED
    BY <2>1, RangeBounds
<1>5. BadNumbers(v) <=> m = 2
  BY <1>3, <1>4, SMT DEF BadNumbers
<1>6. BadSpan(v) <=> X <= s
  <2>1. X # 0
    BY <1>4, SMT
  <2> QED
    BY <1>3, <1>4, <2>1, SpanInOrder DEF BadSpan
<1>7. ASSUME m # 2 PROVE ~BadDivider(v) /\ ~LowResolution(v)
  <2>1. 3 <= m
    BY <1>4, <1>7, SMT
  <2>2. PICK f \in Nat : f = (s * m) \div 60 /\ 1 <= f /\ f <= 10000 /\ 4 * m <= 3 * f
    BY <1>4, <2>1, FreqBounds
  <2>3. PICK d \in Nat : /\ d = (ToFloat(TimerFreqIn \div f) + Range16 - 1) \div Range16
                         /\ 1 <= d /\ d <= 65535
                         /\ (TimerFreqIn \div f) * f <= TimerFreqIn
                         /\ Range16 * d <= (TimerFreqIn \div f) + 4 + 65535
                         /\ TimerFreqIn \div f \in Nat
    BY <2>2, DividerFits
  <2>4. FreqAtMinRpm(v) = f
    BY <1>3, <2>2 DEF FreqAtMinRpm
  <2>5. TickAtMinRpm(v) = TimerFreqIn \div f
    <3>1. f # 0
      BY <2>2, SMT
    <3> QED
      BY <2>4, <3>1 DEF TickAtMinRpm
  <2>6. TimDivider(v) = d
    BY <2>3, <2>5 DEF TimDivider
  <2>7. ~BadDivider(v)
    BY <2>3, <2>6, SMT DEF BadDivider
  <2>8. WidthOneRpmHall(d, m) \div X >= 8
    <3>1. PICK x \in Nat : x * f <= TimerFreqIn /\ Range16 * d <= x + 4 + 65535
      BY <2>3
    <3>2. d \in Nat \ {0} /\ X \in Nat \ {0} /\ m \in Nat \ {0} /\ TimerFreqIn \in Nat
      BY <1>4, <2>3, ConsoleClockAssumption, SMT
    <3>3. PICK b \in Nat : b = d * m
      BY <3>2, SMT
    <3>4. Settled(f, m, x, d)
      BY <1>4, <2>1, <2>2, <3>1 DEF Settled
    <3>5. 8 * MaxSpeed * b <= 60 * TimerFreqIn
      <4>1. Covered(d, m)
        BY <1>4, <2>3, <3>4, ClockCovers
      <4> QED
        BY <3>3, <4>1 DEF Covered
    <3>6. PICK k \in Nat : k = 8 * MaxSpeed
      BY SMT DEF MaxSpeed
    <3>7. k * b <= 60 * TimerFreqIn /\ 8 * X <= k
      BY <1>4, <3>5, <3>6, SMT DEF MaxSpeed
    <3> QED
      BY <3>2, <3>3, <3>7, EightTicksOfWidth
  <2>9. ~LowResolution(v)
    <3>1. PICK w : w = WidthOneRpmHall(d, m) \div X
      OBVIOUS
    <3>2. d \in Nat \ {0} /\ m \in Nat \ {0} /\ X \in Nat \ {0}
      BY <1>4, <2>3, SMT
    <3>3. WidthOneRpmHall(d, m) \in Nat
      <4>1. TimerFreqIn \in Nat /\ 0 * (d * m) <= 60 * TimerFreqIn
        BY <3>2, ConsoleClockAssumption, SMT
      <4> QED
        BY <3>2, <4>1, WidthAtLeast
    <3>4. w \in Nat
      BY <3>1, <3>2, <3>3, Division
    <3>5. ~(w < 8)
      BY <2>8, <3>1, <3>4, SMT
    <3> QED
      BY <1>3, <2>6, <3>1, <3>5 DEF LowResolution
  <2> QED
    BY <2>7, <2>9
<1>8. m > 2 <=> m # 2
  BY <1>4, SMT
<1>9. s < X <=> ~(X <= s)
  BY <1>4, <1>8, SMT
<1> QED
  BY <1>1, <1>2, <1>5, <1>6, <1>7, <1>8, <1>9 DEF Accepts

(* The ranges of the table keep what they promise, whatever is typed: the    *)
(* settings of the console stream unless there are two magnets, or the least *)
(* speed is not below the greatest.                                          *)
THEOREM ConsoleStarts == Spec => []ConsoleConfStarts
<1>1. RangeInv => ConsoleConfStarts
  BY ConsoleAccepts DEF RangeInv, ConsoleConfStarts
<1> QED
  BY <1>1, RangeInit, RangeStep, ConsoleTypeCorrect, PTL DEF Spec
=============================================================================
