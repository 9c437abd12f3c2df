------------------------------ MODULE ConfConsole ------------------------------
(***************************************************************************)
(* The "conf" command of the console: its table of 15 entries, their       *)
(* ranges and abbreviations, the parameters it sets, the EEPROM record it  *)
(* stores them in, and the boot that reads that record.                    *)
(*                                                                         *)
(* The board is one that only its console configures: its EEPROM is blank, *)
(* or as an earlier session of the console left it, and a host on the      *)
(* serial line only sends Run.  So what is said here of its configuration  *)
(* is what the ranges of the table promise.                                *)
(* The threads are in StreamControl; here a start is a value.              *)
(*                                                                         *)
(* The sizes of the filter windows are kept by a library: one it can have  *)
(* is taken, any other is replaced by one it can have.                     *)
(***************************************************************************)
EXTENDS CalcArith, Sequences, FiniteSets

CONSTANTS
    Words,        \* what the user types after "conf"
    Args,         \* the number he types after it, as atoi() reads it
    Freq,         \* CH_CFG_ST_FREQUENCY: 10 000 ticks per second
    LibWindows,   \* the sizes the library can give the averaging window,
    LibMedians,   \* and the median filter
    Earlier,      \* settings that earlier sessions of the console have stored
    MaxEdits      \* bound: parameters set from the console

VARIABLES
    phase,     \* "boot", "up" (no console yet) or "shell"
    up,        \* userParam: the settings
    running,   \* userParam: is runningState Run?
    lib,       \* the sizes the library has given the two filters
    rom,       \* the EEPROM record, or NoConf
    streams,   \* did main() start to stream at this boot?
    fault,     \* the number a null set_f was called with, or NoFault
    edits,     \* bound: parameters set so far
    shown,     \* history: what "show" has shown, if nothing was set since
    promised,  \* history: what it had shown when the record was stored
    heard,     \* history: has a Run or a load come since the console opened?
    quiet      \* history: did none before the record was stored?

boardVars == <<phase, up, running, lib, rom, streams, fault>>
hist      == <<edits, shown, promised, heard, quiet>>
vars      == <<boardVars, hist>>

-----------------------------------------------------------------------------
(* The table map2.                                                           *)

\* The greatest rate of the serial line, and the greatest speed.
MaxBaud  == 1000 * 1000
MaxSpeed == 100 * 1000

\* Mutant: the least speed may be anything.
RangeLoose ==
    [magnet |-> 2..60, motor |-> 1..8, window |-> 1..16, median |-> 0..4,
     rate |-> 1..10000, baud |-> 9600..MaxBaud,
     smin |-> 1..10000, smax |-> 100..MaxSpeed]

\* The entries with a value, and the values the console takes for them.
Range ==
    [magnet |-> 2..60, motor |-> 1..8, window |-> 1..16, median |-> 0..4,
     rate |-> 1..10000, baud |-> 9600..MaxBaud,
     smin |-> 100..10000, smax |-> 100..MaxSpeed]

Settings == DOMAIN Range

\* What a session of the console can store; the rate is kept in ticks.
FromConsole(u) ==
    /\ u \in [Settings -> Nat]
    /\ \A e \in Settings \ {"rate", "window", "median"} : u[e] \in Range[e]
    /\ u.rate \in 1..Freq

\* The timers' clock is of 1 MHz at least.
ASSUME ConsoleClockAssumption ==
    TimerFreqIn \in Nat /\ 1000 * 1000 <= TimerFreqIn /\ TimerFreqIn < 134217728

ASSUME ConfConsoleAssumption ==
    /\ Freq \in Nat /\ 10 <= Freq /\ Freq <= 10000
    /\ LibWindows \subseteq 1..16 /\ 16 \in LibWindows
    /\ LibMedians \subseteq 0..4 /\ 1 \in LibMedians
    /\ MaxEdits \in Nat
    /\ \A u \in Earlier : FromConsole(u)

\* The entries that only do something (get_f is null), and "errors", which
\* only tells something (set_f is null, and so are its bounds).
Actions == {"show", "store", "load", "wipe", "erase", "usage"}
Entries == Settings \cup Actions \cup {"errors"}

\* commandStr_t holds six letters; a word stands for the entries that begin
\* with it.
Typed(word)      == IF Len(word) > 6 THEN SubSeq(word, 1, 6) ELSE word
Begins(start, e) == Len(start) <= Len(e) /\ SubSeq(e, 1, Len(start)) = start

Matches == [word \in Words |-> {e \in Entries : Begins(Typed(word), e)}]

\* The entries a user can run: some word stands for them alone.
Runnable == {e \in Entries : \E word \in Words : Matches[word] = {e}}

-----------------------------------------------------------------------------
(* userParam: its fields by the name of their entry.  The rate is kept as    *)
(* the ticks between two messages.                                           *)
NoConf  == [settings |-> <<>>]
Nothing == <<>>
NoFault == -1

InitParam ==
    [magnet |-> 14, motor |-> 4, window |-> 16, median |-> 1, rate |-> Freq \div 10,
     baud |-> 230400, smin |-> 300, smax |-> 30000]

\* The motor parameters as cache() sees them.
Motor(u) == [magnets |-> u.magnet, nbMotors |-> u.motor,
             minRpm |-> u.smin, maxRpm |-> u.smax]

\* Mutant: the getters of the filter sizes do not write back.
GettersRead(u) == u

\* What getWinAvgSize() and getWinAvgMedianSize() leave in userParam.
Refreshed(u) == [u EXCEPT !.window = lib.window, !.median = lib.median]

\* What the get_f of every setting return; a division by zero yields 0.
Shown == [e \in Settings |->
            CASE e = "rate"   -> IF up.rate = 0 THEN 0 ELSE Freq \div up.rate
              [] e = "window" -> lib.window
              [] e = "median" -> lib.median
              [] OTHER        -> up[e]]

\* The library's answer to a request for the sizes in u.
Resized(sizes, n) == IF n \in sizes THEN {n} ELSE sizes
Sized(u) == [window : Resized(LibWindows, u.window), median : Resized(LibMedians, u.median)]

(* readConfFromEEprom().  Without a record the EEPROM is wiped, which may    *)
(* fail, and a first record is stored, which may fail too.                   *)
ReadConf ==
    \/ /\ rom # NoConf
       /\ up' = rom.settings
       /\ running' = rom.running
       /\ lib' \in Sized(rom.settings)
       /\ rom' = rom
    \/ /\ rom = NoConf
       /\ up' = Refreshed(up)
       /\ lib' \in Sized(up')
       /\ rom' \in {NoConf, [settings |-> up', running |-> running]}
       /\ running' = running
    \/ /\ rom = NoConf
       /\ UNCHANGED <<up, running, lib, rom>>

-----------------------------------------------------------------------------
TypeOK ==
    /\ phase \in {"boot", "up", "shell"}
    /\ up \in [Settings -> Nat]
    /\ running \in BOOLEAN
    /\ lib \in [window : LibWindows, median : LibMedians]
    /\ rom \in {NoConf} \cup [settings : [Settings -> Nat], running : BOOLEAN]
    /\ streams \in BOOLEAN
    /\ fault \in Int
    /\ edits \in 0..MaxEdits
    /\ {shown, promised} \subseteq {Nothing} \cup [Settings -> Nat]
    /\ heard \in BOOLEAN
    /\ quiet \in BOOLEAN

PowerOn ==
    /\ phase' = "boot"
    /\ up' = InitParam
    /\ running' = TRUE
    /\ lib' = [window |-> 16, median |-> 1]
    /\ streams' = FALSE
    /\ fault' = NoFault
    /\ shown' = Nothing
    /\ heard' = FALSE

Init ==
    /\ phase = "boot"
    /\ up = InitParam
    /\ running = TRUE
    /\ lib = [window |-> 16, median |-> 1]
    /\ rom \in {NoConf} \cup [settings : Earlier, running : {FALSE}]
    /\ streams = FALSE
    /\ fault = NoFault
    /\ edits = 0
    /\ shown = Nothing
    /\ promised = Nothing
    /\ heard = FALSE
    /\ quiet = (rom # NoConf)

\* main() up to the wait for USB: the record, and a start if it says Run.
Boot ==
    /\ phase = "boot"
    /\ phase' = "up"
    /\ ReadConf
    /\ streams' = (running' /\ Accepts(Motor(up')))
    /\ UNCHANGED <<fault, hist>>

\* Mutant: the console leaves the state as it is.
StateKept == running

\* userParam.setRunningState(RunningState::Stop)
StateStopped == FALSE

OpenConsole ==
    /\ phase = "up"
    /\ phase' = "shell"
    /\ running' = StateStopped
    /\ heard' = FALSE
    /\ UNCHANGED <<up, lib, rom, streams, fault, edits, shown, promised, quiet>>

\* StartStopMeasure(Run) from the serial line.
HostRun ==
    /\ phase # "boot"
    /\ ~running
    /\ running' = TRUE
    /\ heard' = TRUE
    /\ UNCHANGED <<phase, up, lib, rom, streams, fault, edits, shown, promised, quiet>>

\* "restart", the cable pulled, or the power lost and back.
Restart ==
    /\ phase # "boot"
    /\ PowerOn
    /\ UNCHANGED <<rom, edits, promised, quiet>>

-----------------------------------------------------------------------------
(* cmd_conf: a word that stands for one entry runs it; no word is "usage".   *)

\* Mutant: the upper bound is not looked at.
NoMaximum(e, v) == \E n \in IF e \in Settings THEN Range[e] ELSE {0} : n <= v

\* val >= min and val <= max; "errors" leaves both bounds at 0.
InRange(e, v) == v \in IF e \in Settings THEN Range[e] ELSE {0}

\* The set_f of e, with a window the library may correct.
SetTo(e, v) ==
    /\ up' = [up EXCEPT ![e] = IF e # "rate" THEN v ELSE IF v \in 1..Freq THEN Freq \div v ELSE @]
    /\ lib' \in CASE e = "window" -> [window : Resized(LibWindows, v), median : {lib.median}]
                  [] e = "median" -> [window : {lib.window}, median : Resized(LibMedians, v)]
                  [] OTHER        -> {lib}

ConfSet(e, v) ==
    /\ e \in Settings
    /\ InRange(e, v)
    /\ edits < MaxEdits
    /\ SetTo(e, v)
    /\ edits' = edits + 1
    /\ shown' = Nothing
    /\ UNCHANGED <<phase, running, rom, streams, fault, promised, heard, quiet>>

\* A number for "errors": it has get_f, so the test for entries without value
\* lets it pass, but no set_f.  Its empty range stops every number but 0, which
\* calls through the null pointer; no line of conf is followed after that.
ConfSetErrors(e, v) ==
    /\ e = "errors"
    /\ InRange(e, v)
    /\ fault' = v
    /\ UNCHANGED <<phase, up, running, lib, rom, streams, hist>>

\* One value.  The getters of the filter sizes write theirs back.
ConfGet(e) ==
    /\ e \in Settings
    /\ up' = IF e \in {"window", "median"} THEN [up EXCEPT ![e] = Refreshed(up)[e]] ELSE up
    /\ UNCHANGED <<phase, running, lib, rom, streams, fault, hist>>

ConfShow(e) ==
    /\ e = "show"
    /\ up' = Refreshed(up)
    /\ shown' = Shown
    /\ UNCHANGED <<phase, running, lib, rom, streams, fault, edits, promised, heard, quiet>>

\* storeConfToEEprom(): a store that fails leaves the record there was.
ConfStore(e) ==
    /\ e = "store"
    /\ \/ /\ rom' = [settings |-> up, running |-> running]
          /\ promised' = shown
          /\ quiet' = ~heard
       \/ UNCHANGED <<rom, promised, quiet>>
    /\ UNCHANGED <<phase, up, running, lib, streams, fault, edits, shown, heard>>

ConfLoad(e) ==
    /\ e = "load"
    /\ ReadConf
    /\ heard' = TRUE
    /\ quiet' = (quiet /\ rom' = rom)
    /\ shown' = Nothing
    /\ UNCHANGED <<phase, streams, fault, edits, promised>>

ConfErase(e) ==
    /\ e = "erase"
    /\ rom' = NoConf
    /\ promised' = Nothing
    /\ quiet' = FALSE
    /\ UNCHANGED <<phase, up, running, lib, streams, fault, edits, shown, heard>>

(* The lines that change nothing: a word that stands for no entry or for     *)
(* several; a number out of range, or for an entry that takes none; "errors" *)
(* and "usage", which tell something; "wipe", which keeps the record or fails. *)
Idle ==
    \/ \E word \in Words : Cardinality(Matches[word]) # 1
    \/ \E e \in Runnable, v \in Args : e \in Actions \/ ~InRange(e, v)
    \/ Runnable \cap {"errors", "usage", "wipe"} # {}

ConfNothing == Idle /\ UNCHANGED vars

CmdConf ==
    /\ phase = "shell"
    /\ fault = NoFault
    /\ \/ ConfNothing
       \/ \E e \in Runnable :
            \/ ConfGet(e)
            \/ ConfShow(e)
            \/ ConfStore(e)
            \/ ConfLoad(e)
            \/ ConfErase(e)
            \/ \E v \in Args : ConfSet(e, v) \/ ConfSetErrors(e, v)

Next == Boot \/ OpenConsole \/ HostRun \/ Restart \/ CmdConf

Spec == Init /\ [][Next]_vars

-----------------------------------------------------------------------------
(* Properties                                                                *)

(* The ranges of the console and the checks of cache() are two lists of      *)
(* numbers in two files.  Together: what the console has taken streams,      *)
(* unless there are two magnets or the least speed is not below the greatest. *)
ConsoleConfStarts ==
    Accepts(Motor(up)) <=> up.magnet > 2 /\ up.smin < up.smax

(* "show" tells each value with its range: the value is in it, after the     *)
(* rate went through a division, and a filter size through the library.      *)
ShownInRange == \A e \in Settings : Shown[e] \in Range[e]

(* What was shown and then stored is what the next boot has: the fields the  *)
(* library corrects were written back by the getters of "show".              *)
ShownIsKept == phase = "up" /\ promised # Nothing => Shown = promised

(* The console works in the Stop state and "store" keeps that state: a board *)
(* configured from its console does not stream by itself afterwards.         *)
StoredBoardIsSilent == phase = "up" /\ quiet => ~streams
=============================================================================
