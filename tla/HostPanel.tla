------------------------------ MODULE HostPanel ------------------------------
(***************************************************************************)
(* The panel of octoCmd.pl against the settings of the board: what the     *)
(* buttons send, what the message handlers do with it, and what the panel  *)
(* shows of the answers.                                                   *)
(*                                                                         *)
(* The receive thread handles one message at a time and the GUI one event  *)
(* at a time, so an action is one handler or one callback.  The two lines  *)
(* are queues: frames arrive in order and whole (module HostLink has the   *)
(* line that loses them).  The board is on the serial line only: no        *)
(* console is started.                                                     *)
(*                                                                         *)
(* The five MotorParameters of a configuration are one value, of which     *)
(* cache() accepts some (module CalcParam); the two filter sizes are one   *)
(* number.  The message rate is the number of the code: it is stored as a  *)
(* period in ticks and reported as a rate again.  A streaming thread is a  *)
(* session with the parameters it was created with (module StreamControl). *)
(***************************************************************************)
EXTENDS Naturals, Sequences

CONSTANTS
    Freq,        \* CH_CFG_ST_FREQUENCY, ticks per second (10000)
    Motors,      \* the motor parameters that messages carry
    Zero,        \* the ones of a panel that no answer has filled: all 0
    Accepted,    \* the ones cache() accepts
    Rates,       \* the message rates a user types
    Sizes,       \* the filter sizes a user types
    LibSizes,    \* the filter sizes the window library can have
    InitMotor,   \* INIT_*: the board's settings before any command
    InitRate,
    InitSize,
    MaxPending,  \* bounds: messages on the line to the board at a click,
    MaxAnswers   \* messages on the line to the host

ASSUME HostPanelAssumption ==
    /\ Freq \in Nat \ {0}
    /\ Zero \in Motors
    /\ Accepted \subseteq Motors \ {Zero}
    /\ Rates \subseteq Nat
    /\ Sizes \subseteq Nat
    /\ LibSizes \subseteq Nat
    /\ InitMotor \in Accepted
    /\ InitRate \in 1..Freq
    /\ InitSize \in LibSizes
    /\ MaxPending \in Nat
    /\ MaxAnswers \in Nat \ {0}

VARIABLES
    panel,    \* the fields of varDataOut: motor, rate, size, run
    err,      \* is tachoErrMsg non-empty?
    skip,     \* did the parser's callback die in the checksum state?
    hello,    \* was the first GetTachoStates sent?
    toBoard,  \* the two lines
    toHost,
    on,       \* has the board booted?
    up,       \* userParam: motor, ticks, size, run
    lib,      \* the size the filter windows have
    session,  \* the parameters the streaming thread was created with, or NoMotor
    rom,      \* the EEPROM record: a userParam image or NoConf
    fresh,    \* history: the panel holds an answer no edit has touched since
    unasked,  \* history: settings changed without a GetTachoStates after it,
              \* or with its answer lost
    wanted,   \* history: the parameters and the rate on the panel when Run was
              \* clicked, or NotWanted: the last button was another, or a
              \* frame was lost since
    echo      \* history: the settings when Run was clicked on a panel that
              \* showed them, or NoEcho

host  == <<panel, err, skip, hello>>
lines == <<toBoard, toHost>>
board == <<on, up, lib, session, rom>>
hist  == <<fresh, unasked, wanted, echo>>
vars  == <<host, lines, board, hist>>

-----------------------------------------------------------------------------
NoMotor   == "none"
NoConf    == [motor |-> "none"]
NoEcho    == [motor |-> "none"]
NotWanted == [motor |-> "none"]

Images   == [motor : Motors, ticks : 1..Freq, size : Nat, run : {"Stop", "Run"}]
States   == [motor : Motors, rate : Nat, size : Nat, run : {"Stop", "Run"}]
Settings == [motor : Motors, ticks : 1..Freq, size : LibSizes]
Wishes   == [motor : Motors, rate : Nat]

\* Messages to the board and to the host; Rpms and Errors leave the panel's
\* fields alone and are left out.
Commands ==
    [id : {"FilterParam"}, size : Nat] \cup [id : {"MotorParameters"}, motor : Motors]
    \cup [id : {"MessPerSecond"}, rate : Nat] \cup [id : {"StartStopMeasure"}, run : {"Stop", "Run"}]
    \cup [id : {"GetTachoStates"}] \cup [id : {"Eeprom"}, command : {"Store", "Load", "Wipe", "Erase"}]
Answers == [id : {"TachoError"}] \cup [id : {"TachoStates"}, states : States]

TachoError == [id |-> "TachoError"]
Get        == [id |-> "GetTachoStates"]

\* The values of a userParam before the EEPROM is read.
InitImage == [motor |-> InitMotor, ticks |-> Freq \div InitRate, size |-> InitSize, run |-> "Run"]

TypeOK ==
    /\ panel \in States
    /\ err \in BOOLEAN /\ skip \in BOOLEAN /\ hello \in BOOLEAN
    /\ toBoard \in Seq(Commands)
    /\ toHost \in Seq(Answers)
    /\ on \in BOOLEAN
    /\ up \in Images
    /\ lib \in LibSizes
    /\ session \in Accepted \cup {NoMotor}
    /\ rom \in Images \cup {NoConf}
    /\ fresh \in BOOLEAN /\ unasked \in BOOLEAN
    /\ wanted \in Wishes \cup {NotWanted}
    /\ echo \in Settings \cup {NoEcho}

Init ==
    /\ panel = [motor |-> Zero, rate |-> 0, size |-> 0, run |-> "Stop"]
    /\ err = FALSE /\ skip = FALSE /\ hello = FALSE
    /\ toBoard = <<>> /\ toHost = <<>>
    /\ on = FALSE
    /\ up = InitImage /\ lib = InitSize /\ session = NoMotor /\ rom = NoConf
    /\ fresh = FALSE /\ unasked = TRUE /\ wanted = NotWanted /\ echo = NoEcho

-----------------------------------------------------------------------------
(* What the board says of itself.                                            *)

\* The TachoStates that GetTachoStates::runOnRecept() fills.
Report == [motor |-> up.motor, rate |-> Freq \div up.ticks, size |-> lib, run |-> up.run]

InUse == [motor |-> up.motor, ticks |-> up.ticks, size |-> lib]

Quiet == on /\ toBoard = <<>> /\ toHost = <<>>

-----------------------------------------------------------------------------
(* The panel.                                                                *)

\* simpleMsgSend(): what is sent to a board that has not booted is lost.
Send(ms) ==
    /\ Len(toBoard) <= MaxPending
    /\ toBoard' = IF on THEN toBoard \o ms ELSE toBoard
    /\ UNCHANGED <<toHost, board>>

(* 200 ms after its start the GUI asks for the state of the board.           *)
Hello ==
    /\ ~hello
    /\ Send(<<Get>>)
    /\ hello' = TRUE
    /\ UNCHANGED <<panel, err, skip, hist>>

(* The user types into a field.  Bound: one field between two answers.       *)
Edit ==
    /\ fresh
    /\ \/ \E m \in Motors : panel' = [panel EXCEPT !.motor = m]
       \/ \E r \in Rates : panel' = [panel EXCEPT !.rate = r]
       \/ \E s \in Sizes : panel' = [panel EXCEPT !.size = s]
    /\ fresh' = FALSE
    /\ UNCHANGED <<err, skip, hello, lines, board, unasked, wanted, echo>>

\* A radio button sets runState before its command runs.  A click on Run asks
\* for something when the board can hear it.
Click(run, ms) ==
    /\ Send(ms)
    /\ err' = FALSE
    /\ panel' = [panel EXCEPT !.run = run]
    /\ wanted' = IF run = "Run" /\ on THEN [motor |-> panel.motor, rate |-> panel.rate]
                 ELSE NotWanted
    /\ UNCHANGED <<skip, hello, fresh, unasked>>

ClickStop ==
    /\ Click("Stop", <<[id |-> "StartStopMeasure", run |-> "Stop"], Get>>)
    /\ echo' = NoEcho

\* Mutant: the question goes out before the start.
RunMessagesAskEarly ==
    <<[id |-> "FilterParam", size |-> panel.size],
      [id |-> "MotorParameters", motor |-> panel.motor],
      [id |-> "MessPerSecond", rate |-> panel.rate],
      Get, [id |-> "StartStopMeasure", run |-> "Run"]>>

\* sendFilterParameters(), sendMotorParameters(), Run, Get
RunMessages ==
    <<[id |-> "FilterParam", size |-> panel.size],
      [id |-> "MotorParameters", motor |-> panel.motor],
      [id |-> "MessPerSecond", rate |-> panel.rate],
      [id |-> "StartStopMeasure", run |-> "Run"], Get>>

ClickRun ==
    /\ Click("Run", RunMessages)
    /\ echo' = IF Quiet /\ panel = Report THEN InUse ELSE NoEcho

(* store, load, wipe, erase: no question follows.                            *)
ClickEeprom ==
    /\ \E c \in {"Store", "Load", "Wipe", "Erase"} : Send(<<[id |-> "Eeprom", command |-> c]>>)
    /\ wanted' = NotWanted
    /\ echo' = NoEcho
    /\ UNCHANGED <<host, fresh, unasked>>

\* octoMessageCB(), TachoError: the text is shown.
ShowError ==
    /\ Head(toHost).id = "TachoError"
    /\ err' = TRUE
    /\ UNCHANGED <<panel, skip, fresh>>

(* octoMessageCB(), TachoStates: every field is overwritten; then the widths *)
(* are computed, and a minRpm of 0 ends the callback in a division by zero,  *)
(* with the parser still in the checksum state.                              *)
ShowStates ==
    /\ Head(toHost).id = "TachoStates"
    /\ panel' = Head(toHost).states
    /\ skip' = (Head(toHost).states.motor = Zero)
    /\ fresh' = TRUE
    /\ UNCHANGED err

HostRecv ==
    /\ ~skip
    /\ toHost # <<>>
    /\ toHost' = Tail(toHost)
    /\ ShowError \/ ShowStates
    /\ UNCHANGED <<hello, toBoard, board, unasked, wanted, echo>>

(* The parser takes the sync of the next frame for a checksum, and drops it. *)
HostSkip ==
    /\ skip
    /\ toHost # <<>>
    /\ toHost' = Tail(toHost)
    /\ skip' = FALSE
    /\ wanted' = NotWanted
    /\ unasked' = (unasked \/ Head(toHost).id = "TachoStates")
    /\ UNCHANGED <<panel, err, hello, toBoard, board, fresh, echo>>

\* The next frame is a Rpms message of the session.
HostSkipRpms ==
    /\ skip
    /\ session # NoMotor
    /\ skip' = FALSE
    /\ UNCHANGED <<panel, err, hello, lines, board, hist>>

-----------------------------------------------------------------------------
(* The board.                                                                *)

Reply(ms) == toHost' = toHost \o ms

\* The size a window has after resize(s), from l: the library's code is not
\* here, so a size it cannot have may leave any size.
Resized(s) == IF s \in LibSizes THEN {s} ELSE LibSizes

\* Mutants: a refused start is silent; the verdict of cache() is not used.
RefusedSilently(u) ==
    /\ session' = IF session = NoMotor /\ u.motor \in Accepted THEN u.motor ELSE session
    /\ Reply(<<>>)
StartUnchecked(u) ==
    IF session = NoMotor
      THEN session' = u.motor /\ Reply(<<>>)
      ELSE session' = session /\ Reply(<<TachoError>>)

(* rpmStartStreaming() with u: a session, or a TachoError and none.          *)
StartStreaming(u) ==
    IF session = NoMotor /\ u.motor \in Accepted
      THEN session' = u.motor /\ Reply(<<>>)
      ELSE session' = session /\ Reply(<<TachoError>>)

(* readConfFromEEprom(): the image u that is in RAM afterwards, and whether  *)
(* an error is sent.  Without a record the EEPROM is wiped and filled from   *)
(* RAM, and either may fail.                                                 *)
ReadConf(u, failed) ==
    \/ /\ rom # NoConf
       /\ u = rom /\ ~failed
       /\ lib' \in Resized(rom.size)
       /\ UNCHANGED rom
    \/ /\ rom = NoConf
       /\ u = up /\ failed
       /\ UNCHANGED <<lib, rom>>
    \/ /\ rom = NoConf
       /\ u = [up EXCEPT !.size = lib]
       /\ rom' = IF failed THEN NoConf ELSE u
       /\ UNCHANGED lib

ReadImages == {up, rom, [up EXCEPT !.size = lib]} \ {NoConf}

(* From reset to the first command.  The line is not set up yet when the     *)
(* EEPROM is read, so an error of that goes nowhere.                         *)
Boot ==
    /\ ~on
    /\ Len(toHost) < MaxAnswers
    /\ on' = TRUE
    /\ \E u \in ReadImages, failed \in BOOLEAN :
         /\ ReadConf(u, failed)
         /\ up' = u
         /\ IF u.run = "Run"
              THEN StartStreaming(u)
              ELSE UNCHANGED <<session, toHost>>
    /\ UNCHANGED <<host, toBoard, hist>>

(* The power is lost, and what was on its way to the board.                  *)
PowerLost ==
    /\ on
    /\ on' = FALSE
    /\ toBoard' = <<>>
    /\ up' = InitImage
    /\ lib' = InitSize
    /\ session' = NoMotor
    /\ unasked' = TRUE
    /\ wanted' = NotWanted
    /\ echo' = NoEcho
    /\ UNCHANGED <<host, toHost, rom, fresh>>

Receive(id) ==
    /\ on
    /\ toBoard # <<>>
    /\ Head(toBoard).id = id
    /\ Len(toHost) < MaxAnswers
    /\ toBoard' = Tail(toBoard)
    /\ UNCHANGED <<host, on, fresh, wanted, echo>>

RecvFilterParam ==
    /\ Receive("FilterParam")
    /\ up' = [up EXCEPT !.size = Head(toBoard).size]
    /\ lib' \in Resized(Head(toBoard).size)
    /\ UNCHANGED <<toHost, session, rom, unasked>>

RecvMotorParameters ==
    /\ Receive("MotorParameters")
    /\ IF up.run = "Stop"
         THEN up' = [up EXCEPT !.motor = Head(toBoard).motor] /\ Reply(<<>>)
         ELSE UNCHANGED up /\ Reply(<<TachoError>>)
    /\ UNCHANGED <<lib, session, rom, unasked>>

\* Mutant: the period is rounded up.
TicksUp(r) == (Freq + r - 1) \div r

\* UserParam::setMessPerSecond()
ValidRate(r) == r # 0 /\ r <= Freq
Ticks(r)     == Freq \div r

RecvMessPerSecond ==
    /\ Receive("MessPerSecond")
    /\ LET r == Head(toBoard).rate IN
         IF ValidRate(r)
           THEN up' = [up EXCEPT !.ticks = Ticks(r)] /\ Reply(<<>>)
           ELSE UNCHANGED up /\ Reply(<<TachoError>>)
    /\ UNCHANGED <<lib, session, rom, unasked>>

(* StartStopMeasure: only a message that changes runningState does anything. *)
RecvStartStopMeasure ==
    /\ Receive("StartStopMeasure")
    /\ LET r == Head(toBoard).run IN
         /\ up' = [up EXCEPT !.run = r]
         /\ IF up.run = r
              THEN UNCHANGED <<session, toHost>>
              ELSE IF r = "Run"
                     THEN StartStreaming(up)
                     ELSE session' = NoMotor /\ Reply(<<>>)
    /\ UNCHANGED <<lib, rom, unasked>>

\* The getters of the filter sizes write them back into userParam.
RecvGetTachoStates ==
    /\ Receive("GetTachoStates")
    /\ Reply(<<[id |-> "TachoStates", states |-> Report]>>)
    /\ up' = [up EXCEPT !.size = lib]
    /\ unasked' = FALSE
    /\ UNCHANGED <<lib, session, rom>>

(* Store, Wipe and Erase do what they should or answer with an error; a wipe *)
(* keeps the record.                                                         *)
RecvEeprom ==
    /\ Receive("Eeprom")
    /\ LET c == Head(toBoard).command IN
         \/ /\ c # "Load"
            /\ \/ /\ rom' = CASE c = "Store" -> up [] c = "Erase" -> NoConf [] c = "Wipe" -> rom
                  /\ Reply(<<>>)
               \/ rom' = rom /\ Reply(<<TachoError>>)
            /\ UNCHANGED <<up, lib, unasked>>
         \/ /\ c = "Load"
            /\ \E u \in ReadImages, failed \in BOOLEAN :
                 /\ ReadConf(u, failed)
                 /\ up' = u
                 /\ Reply(IF failed THEN <<TachoError>> ELSE <<>>)
            /\ unasked' = TRUE
    /\ UNCHANGED session

-----------------------------------------------------------------------------
HostStep ==
    \/ Hello \/ Edit \/ ClickStop \/ ClickRun \/ ClickEeprom
    \/ HostRecv \/ HostSkip \/ HostSkipRpms

BoardStep ==
    \/ Boot \/ PowerLost
    \/ RecvFilterParam \/ RecvMotorParameters \/ RecvMessPerSecond
    \/ RecvStartStopMeasure \/ RecvGetTachoStates \/ RecvEeprom

Next == HostStep \/ BoardStep

Spec == Init /\ [][Next]_vars

-----------------------------------------------------------------------------
(* Properties                                                                *)

(* A panel that holds an answer and was not edited since shows the settings  *)
(* the board has, once the lines are quiet, unless they changed in a way the *)
(* panel does not ask about (a load, a reset): each Stop and Run asks last.  *)
ShownIsTrue == Quiet /\ fresh /\ ~unasked => panel = Report

(* A click on Run is obeyed or an error message is on the panel: once the    *)
(* lines are quiet, the board streams with the parameters that were on the   *)
(* panel at the click, at their rate, and keeps these settings.  A refusal   *)
(* of MotorParameters (the motor runs), of MessPerSecond or of the start     *)
(* does not go unnoticed.  A filter size is not refused but corrected.       *)
RefusalTold ==
    Quiet /\ wanted # NotWanted =>
        \/ err
        \/ /\ session = wanted.motor
           /\ up.motor = wanted.motor
           /\ ValidRate(wanted.rate) /\ up.ticks = Ticks(wanted.rate)

(* Clicking Run on a panel that shows the truth changes no setting: not the  *)
(* period, which went through two integer divisions and comes back through a *)
(* third, nor the filter size the library may have corrected.                *)
EchoHarmless == echo # NoEcho => InUse = echo
=============================================================================
