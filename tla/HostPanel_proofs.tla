--------------------------- MODULE HostPanel_proofs ---------------------------
(***************************************************************************)
(* What holds of the panel and the board for every set of configurations,  *)
(* rates and filter sizes, and of the frames between them for every set of *)
(* payloads.                                                               *)
(***************************************************************************)
EXTENDS HostPanel, HostLink, SequenceTheorems, FiniteSetTheorems, TLAPS

\* A quotient of naturals, by its defining inequalities.
LEMMA Quotient ==
    ASSUME NEW a \in Nat, NEW b \in Nat \ {0}
    PROVE  /\ a \div b \in Nat
           /\ (a \div b) * b <= a
           /\ \A q \in Nat : q * b <= a => q <= a \div b
<1>1. a \div b \in Nat /\ (a \div b) * b <= a
  BY SMT
<1>2. ASSUME NEW q \in Nat, q * b <= a PROVE q <= a \div b
  BY <1>2, SMT
<1> QED
  BY <1>1, <1>2

(* The period a rate stands for is the period of the rate it is reported as: *)
(* GetTachoStates and setMessPerSecond() undo each other, whatever the       *)
(* tick frequency, and a reported rate is a valid one.                       *)
THEOREM EchoKeepsRate ==
    ASSUME NEW r \in 1..Freq
    PROVE  /\ Ticks(r) \in 1..Freq
           /\ Freq \div Ticks(r) \in Nat
           /\ ValidRate(Freq \div Ticks(r))
           /\ Ticks(Freq \div Ticks(r)) = Ticks(r)
<1> DEFINE t == Freq \div r
           s == Freq \div t
<1>0. Freq \in Nat /\ r \in Nat \ {0} /\ r <= Freq
  BY HostPanelAssumption
<1>1. /\ t \in Nat /\ t * r <= Freq
      /\ \A q \in Nat : q * r <= Freq => q <= t
  BY <1>0, Quotient
<1>2. 1 <= t
  <2>1. 1 * r <= Freq
    BY <1>0, SMT
  <2> HIDE DEF t
  <2> QED
    BY <1>1, <2>1
<1>3. t <= Freq
  <2> HIDE DEF t
  <2>1. t * r >= t
    BY <1>0, <1>1, SMT
  <2> QED
    BY <1>0, <1>1, <2>1, SMT
<1>4. /\ s \in Nat /\ s * t <= Freq
      /\ \A q \in Nat : q * t <= Freq => q <= s
  <2> HIDE DEF t
  <2> QED
    BY <1>0, <1>1, <1>2, Quotient
<1>5. r <= s
  <2> HIDE DEF t, s
  <2>1. r * t = t * r
    BY <1>0, <1>1, SMT
  <2> QED
    BY <1>0, <1>1, <1>4, <2>1
<1>6. s <= Freq
  <2> HIDE DEF t, s
  <2>1. s * t >= s
    BY <1>1, <1>2, <1>4, SMT
  <2> QED
    BY <1>0, <1>1, <1>4, <2>1, SMT
<1>7. /\ Freq \div s \in Nat /\ (Freq \div s) * s <= Freq
      /\ \A q \in Nat : q * s <= Freq => q <= Freq \div s
  <2> HIDE DEF s
  <2> QED
    BY <1>0, <1>4, <1>5, Quotient
<1>8. t <= Freq \div s
  <2> HIDE DEF t, s
  <2>1. t * s = s * t
    BY <1>1, <1>4, SMT
  <2> QED
    BY <1>1, <1>4, <1>7, <2>1
<1>9. Freq \div s <= t
  <2> DEFINE u == Freq \div s
  <2> HIDE DEF t, s, u
  <2>1. u * r <= u * s
    BY <1>0, <1>4, <1>5, <1>7, SMT DEF u
  <2>2. u \in Nat /\ u * s <= Freq
    BY <1>7 DEF u
  <2>3. u * r <= Freq
    BY <1>0, <1>4, <2>1, <2>2, SMT
  <2> QED
    BY <1>1, <2>2, <2>3 DEF u
<1> QED
  <2>1. Freq \div s = t
    <3> DEFINE u == Freq \div s
    <3> HIDE DEF t, s, u
    <3> QED
      BY <1>1, <1>7, <1>8, <1>9, SMT DEF u
  <2>2. s # 0 /\ s <= Freq /\ s \in Nat
    <3> HIDE DEF t, s
    <3> QED
      BY <1>0, <1>4, <1>5, <1>6, SMT
  <2>3. t \in 1..Freq
    <3> HIDE DEF t
    <3> QED
      BY <1>0, <1>1, <1>2, <1>3, SMT
  <2> QED
    BY <2>1, <2>2, <2>3 DEF Ticks, ValidRate

-----------------------------------------------------------------------------
(* Types.                                                                    *)

LEMMA ImageFields ==
    ASSUME NEW u \in Images
    PROVE  /\ u.motor \in Motors /\ u.ticks \in 1..Freq /\ u.size \in Nat
           /\ u.run \in {"Stop", "Run"}
           /\ \A m \in Motors : [u EXCEPT !.motor = m] \in Images
           /\ \A t \in 1..Freq : [u EXCEPT !.ticks = t] \in Images
           /\ \A n \in Nat : [u EXCEPT !.size = n] \in Images
           /\ \A r \in {"Stop", "Run"} : [u EXCEPT !.run = r] \in Images
  BY DEF Images

LEMMA InitImageType == InitImage \in Images
<1>1. InitMotor \in Motors /\ InitSize \in Nat /\ Freq \div InitRate \in 1..Freq
  BY HostPanelAssumption, EchoKeepsRate DEF Ticks
<1> QED
  BY <1>1 DEF InitImage, Images

LEMMA ReportType ==
    ASSUME TypeOK
    PROVE  Report \in States
<1>1. up.motor \in Motors /\ up.run \in {"Stop", "Run"} /\ lib \in Nat
  <2>1. up \in Images /\ lib \in LibSizes
    BY DEF TypeOK
  <2>2. lib \in Nat
    BY <2>1, HostPanelAssumption
  <2> QED
    BY <2>1, <2>2, ImageFields
<1>2. Freq \div up.ticks \in Nat
  <2>1. up.ticks \in 1..Freq
    BY ImageFields DEF TypeOK
  <2>2. Freq \in Nat
    BY HostPanelAssumption
  <2>3. up.ticks \in Nat \ {0}
    BY <2>1, <2>2, SMT
  <2> QED
    BY <2>2, <2>3, Quotient
<1> QED
  BY <1>1, <1>2 DEF Report, States

\* What the first message of a line carries, and what is left behind it.
LEMMA CommandType ==
    ASSUME TypeOK, toBoard # <<>>
    PROVE  /\ Head(toBoard) \in Commands
           /\ Tail(toBoard) \in Seq(Commands)
           /\ Head(toBoard).id = "FilterParam" => Head(toBoard).size \in Nat
           /\ Head(toBoard).id = "MotorParameters" => Head(toBoard).motor \in Motors
           /\ Head(toBoard).id = "MessPerSecond" => Head(toBoard).rate \in Nat
           /\ Head(toBoard).id = "StartStopMeasure" => Head(toBoard).run \in {"Stop", "Run"}
           /\ Head(toBoard).id = "Eeprom" => Head(toBoard).command \in {"Store", "Load", "Wipe", "Erase"}
<1>1. Head(toBoard) \in Commands /\ Tail(toBoard) \in Seq(Commands)
  BY DEF TypeOK
<1> QED
  BY <1>1 DEF Commands

LEMMA SendType ==
    ASSUME TypeOK, NEW ms \in Seq(Commands), Send(ms)
    PROVE  toBoard' \in Seq(Commands)
  BY DEF TypeOK, Send

LEMMA StartType ==
    ASSUME TypeOK, NEW u \in Images, StartStreaming(u)
    PROVE  session' \in Accepted \cup {NoMotor} /\ toHost' \in Seq(Answers)
<1>1. /\ session \in Accepted \cup {NoMotor} /\ toHost \in Seq(Answers)
  BY DEF TypeOK
<1>2. <<TachoError>> \in Seq(Answers) /\ <<>> \in Seq(Answers)
  BY DEF TachoError, Answers
<1>3. CASE session = NoMotor /\ u.motor \in Accepted
  BY <1>1, <1>2, <1>3 DEF StartStreaming, Reply
<1>4. CASE ~(session = NoMotor /\ u.motor \in Accepted)
  BY <1>1, <1>2, <1>4 DEF StartStreaming, Reply
<1> QED
  BY <1>3, <1>4

LEMMA ReadConfType ==
    ASSUME TypeOK, NEW u, NEW failed \in BOOLEAN, ReadConf(u, failed)
    PROVE  u \in Images /\ lib' \in LibSizes /\ rom' \in Images \cup {NoConf}
<1>1. lib \in Nat
  BY HostPanelAssumption DEF TypeOK
<1>2. [up EXCEPT !.size = lib] \in Images
  BY <1>1, ImageFields DEF TypeOK
<1> QED
  BY <1>2 DEF ReadConf, Resized, TypeOK

LEMMA TypeInit == Init => TypeOK
<1> SUFFICES ASSUME Init PROVE TypeOK
  OBVIOUS
<1>1. panel \in States
  BY HostPanelAssumption DEF Init, States
<1>2. lib \in LibSizes
  BY HostPanelAssumption DEF Init
<1>3. up \in Images /\ rom \in Images \cup {NoConf}
  BY InitImageType DEF Init
<1>4. toBoard \in Seq(Commands) /\ toHost \in Seq(Answers)
  BY DEF Init
<1>5. /\ err \in BOOLEAN /\ skip \in BOOLEAN /\ hello \in BOOLEAN /\ on \in BOOLEAN
      /\ fresh \in BOOLEAN /\ unasked \in BOOLEAN /\ wanted \in Wishes \cup {NotWanted}
      /\ session \in Accepted \cup {NoMotor} /\ echo \in Settings \cup {NoEcho}
  BY DEF Init
<1> QED
  BY <1>1, <1>2, <1>3, <1>4, <1>5 DEF TypeOK

LEMMA TypeStep == TypeOK /\ [Next]_vars => TypeOK'
<1> SUFFICES ASSUME TypeOK, [Next]_vars PROVE TypeOK'
  OBVIOUS
<1> USE DEF host, lines, board, hist
<1>0. /\ panel.motor \in Motors /\ panel.rate \in Nat /\ panel.size \in Nat
      /\ Motors # {} /\ LibSizes \subseteq Nat /\ Freq \in Nat \ {0}
  BY HostPanelAssumption DEF TypeOK, States
<1>g. <<Get>> \in Seq(Commands)
  BY DEF Get, Commands
<1>1. CASE UNCHANGED vars
  BY <1>1 DEF vars, TypeOK
<1>2. CASE Hello
  <2>1. toBoard' \in Seq(Commands)
    BY <1>2, <1>g, SendType DEF Hello
  <2> QED
    BY <1>2, <2>1 DEF Hello, Send, TypeOK
<1>3. CASE Edit
  <2>1. panel' \in States
    BY <1>3, HostPanelAssumption DEF Edit, States, TypeOK
  <2> QED
    BY <1>3, <2>1 DEF Edit, TypeOK
<1>4. CASE ClickStop
  <2>1. toBoard' \in Seq(Commands)
    <3>1. <<[id |-> "StartStopMeasure", run |-> "Stop"], Get>> \in Seq(Commands)
      BY DEF Get, Commands
    <3> QED
      BY <1>4, <3>1, SendType DEF ClickStop, Click
  <2>2. panel' \in States
    BY <1>4 DEF ClickStop, Click, States, TypeOK
  <2>3. wanted' \in Wishes \cup {NotWanted} /\ err' \in BOOLEAN /\ echo' = NoEcho
    BY <1>4 DEF ClickStop, Click
  <2> QED
    BY <1>4, <2>1, <2>2, <2>3 DEF ClickStop, Click, Send, TypeOK
<1>5. CASE ClickRun
  <2>1. RunMessages \in Seq(Commands)
    BY <1>0 DEF RunMessages, Get, Commands
  <2>2. toBoard' \in Seq(Commands)
    BY <1>5, <2>1, SendType DEF ClickRun, Click
  <2>3. panel' \in States
    BY <1>5 DEF ClickRun, Click, States, TypeOK
  <2>4. echo' \in Settings \cup {NoEcho}
    BY <1>5, ImageFields DEF ClickRun, InUse, Settings, TypeOK
  <2>5. wanted' \in Wishes \cup {NotWanted} /\ err' \in BOOLEAN
    BY <1>0, <1>5 DEF ClickRun, Click, Wishes
  <2> QED
    BY <1>5, <2>2, <2>3, <2>4, <2>5 DEF ClickRun, Click, Send, TypeOK
<1>6. CASE ClickEeprom
  <2>1. toBoard' \in Seq(Commands)
    <3>1. PICK c \in {"Store", "Load", "Wipe", "Erase"} : Send(<<[id |-> "Eeprom", command |-> c]>>)
      BY <1>6 DEF ClickEeprom
    <3>2. <<[id |-> "Eeprom", command |-> c]>> \in Seq(Commands)
      BY DEF Commands
    <3> QED
      BY <3>1, <3>2, SendType
  <2> QED
    BY <1>6, <2>1 DEF ClickEeprom, Send, TypeOK
<1>7. CASE HostRecv
  <2>1. Head(toHost) \in Answers /\ Tail(toHost) \in Seq(Answers)
    BY <1>7 DEF HostRecv, TypeOK
  <2>2. CASE ShowError
    BY <1>7, <2>1, <2>2 DEF HostRecv, ShowError, TypeOK
  <2>3. CASE ShowStates
    <3>1. Head(toHost).states \in States
      BY <2>1, <2>3 DEF ShowStates, Answers
    <3>2. panel' \in States /\ skip' \in BOOLEAN /\ fresh' = TRUE /\ err' = err
      BY <2>3, <3>1 DEF ShowStates
    <3> QED
      BY <1>7, <2>1, <3>2 DEF HostRecv, TypeOK
  <2> QED
    BY <1>7, <2>2, <2>3 DEF HostRecv
<1>8. CASE HostSkip
  <2>1. Tail(toHost) \in Seq(Answers)
    BY <1>8 DEF HostSkip, TypeOK
  <2>2. unasked' \in BOOLEAN
    BY <1>8 DEF HostSkip, TypeOK
  <2> QED
    BY <1>8, <2>1, <2>2 DEF HostSkip, TypeOK
<1>9. CASE HostSkipRpms
  BY <1>9 DEF HostSkipRpms, TypeOK
<1>10. CASE Boot
  <2>1. PICK u \in ReadImages, failed \in BOOLEAN :
           /\ ReadConf(u, failed)
           /\ up' = u
           /\ IF u.run = "Run" THEN StartStreaming(u) ELSE UNCHANGED <<session, toHost>>
    BY <1>10 DEF Boot
  <2>2. u \in Images /\ lib' \in LibSizes /\ rom' \in Images \cup {NoConf}
    BY <2>1, ReadConfType
  <2>3. session' \in Accepted \cup {NoMotor} /\ toHost' \in Seq(Answers)
    BY <2>1, <2>2, StartType DEF TypeOK
  <2> QED
    BY <1>10, <2>1, <2>2, <2>3 DEF Boot, TypeOK
<1>11. CASE PowerLost
  <2>1. up' \in Images /\ lib' \in LibSizes
    BY <1>11, InitImageType, HostPanelAssumption DEF PowerLost
  <2>2. on' \in BOOLEAN /\ unasked' \in BOOLEAN /\ wanted' = NotWanted
    BY <1>11 DEF PowerLost
  <2>3. session' \in Accepted \cup {NoMotor} /\ echo' \in Settings \cup {NoEcho}
    BY <1>11 DEF PowerLost
  <2>4. toBoard' \in Seq(Commands)
    <3>1. toBoard' = <<>>
      BY <1>11 DEF PowerLost
    <3> QED
      BY <3>1
  <2> QED
    BY <1>11, <2>1, <2>2, <2>3, <2>4 DEF PowerLost, TypeOK
<1>12. CASE RecvFilterParam
  <2>1. up' \in Images /\ lib' \in LibSizes /\ toBoard' \in Seq(Commands)
    BY <1>12, CommandType, ImageFields DEF RecvFilterParam, Receive, Resized, TypeOK
  <2> QED
    BY <1>12, <2>1 DEF RecvFilterParam, Receive, TypeOK
<1>13. CASE RecvMotorParameters
  <2>1. up' \in Images /\ toBoard' \in Seq(Commands)
    BY <1>13, CommandType, ImageFields DEF RecvMotorParameters, Receive, TypeOK
  <2>2. toHost' \in Seq(Answers)
    BY <1>13 DEF RecvMotorParameters, Reply, TachoError, Answers, TypeOK
  <2> QED
    BY <1>13, <2>1, <2>2 DEF RecvMotorParameters, Receive, TypeOK
<1>14. CASE RecvMessPerSecond
  <2>1. toBoard' \in Seq(Commands)
    BY <1>14, CommandType DEF RecvMessPerSecond, Receive
  <2>2. up' \in Images
    <3>1. CASE ~ValidRate(Head(toBoard).rate)
      BY <1>14, <3>1 DEF RecvMessPerSecond, TypeOK
    <3>2. CASE ValidRate(Head(toBoard).rate)
      <4>1. Head(toBoard).rate \in 1..Freq
        BY <1>0, <1>14, <3>2, CommandType DEF RecvMessPerSecond, Receive, ValidRate
      <4> QED
        BY <1>14, <3>2, <4>1, EchoKeepsRate, ImageFields DEF RecvMessPerSecond, TypeOK
    <3> QED
      BY <3>1, <3>2
  <2>3. toHost' \in Seq(Answers)
    BY <1>14 DEF RecvMessPerSecond, Reply, TachoError, Answers, TypeOK
  <2> QED
    BY <1>14, <2>1, <2>2, <2>3 DEF RecvMessPerSecond, Receive, TypeOK
<1>15. CASE RecvStartStopMeasure
  <2>1. up' \in Images /\ toBoard' \in Seq(Commands)
    BY <1>15, CommandType, ImageFields DEF RecvStartStopMeasure, Receive, TypeOK
  <2>2. session' \in Accepted \cup {NoMotor} /\ toHost' \in Seq(Answers)
    BY <1>15, StartType DEF RecvStartStopMeasure, Reply, TypeOK
  <2> QED
    BY <1>15, <2>1, <2>2 DEF RecvStartStopMeasure, Receive, TypeOK
<1>16. CASE RecvGetTachoStates
  <2>1. up' \in Images /\ toBoard' \in Seq(Commands)
    BY <1>0, <1>16, CommandType, ImageFields DEF RecvGetTachoStates, Receive, TypeOK
  <2>2. toHost' \in Seq(Answers)
    BY <1>16, ReportType DEF RecvGetTachoStates, Reply, Answers, TypeOK
  <2> QED
    BY <1>16, <2>1, <2>2 DEF RecvGetTachoStates, Receive, TypeOK
<1>17. CASE RecvEeprom
  <2> DEFINE c == Head(toBoard).command
  <2>1. toBoard' \in Seq(Commands) /\ c \in {"Store", "Load", "Wipe", "Erase"}
    BY <1>17, CommandType DEF RecvEeprom, Receive
  <2>2. up' \in Images /\ lib' \in LibSizes /\ rom' \in Images \cup {NoConf}
        /\ unasked' \in BOOLEAN
    <3>1. CASE c # "Load"
      BY <1>17, <2>1, <3>1 DEF RecvEeprom, TypeOK
    <3>2. CASE c = "Load"
      BY <1>17, <3>2, ReadConfType DEF RecvEeprom
    <3> QED
      BY <3>1, <3>2
  <2>3. toHost' \in Seq(Answers)
    <3>1. toHost' = toHost \/ toHost' = toHost \o <<TachoError>> \/ toHost' = toHost \o <<>>
      BY <1>17 DEF RecvEeprom, Reply
    <3>2. <<TachoError>> \in Seq(Answers) /\ <<>> \in Seq(Answers)
      BY DEF TachoError, Answers
    <3>3. toHost \in Seq(Answers)
      BY DEF TypeOK
    <3> QED
      BY <3>1, <3>2, <3>3
  <2> QED
    BY <1>17, <2>1, <2>2, <2>3 DEF RecvEeprom, Receive, TypeOK
<1> QED
  BY <1>1, <1>2, <1>3, <1>4, <1>5, <1>6, <1>7, <1>8, <1>9, <1>10, <1>11, <1>12,
     <1>13, <1>14, <1>15, <1>16, <1>17 DEF Next, HostStep, BoardStep

(* Every variable of the panel, the lines and the board keeps its type.      *)
THEOREM HostTypeCorrect == Spec => []TypeOK
  BY TypeInit, TypeStep, PTL DEF Spec

-----------------------------------------------------------------------------
(* A click on Run that changes nothing.                                      *)

\* The periods a rate can stand for.
Periods == {Ticks(r) : r \in 1..Freq}

\* The messages that leave the settings e as they are.
Harmless(m, e) ==
    \/ m.id = "FilterParam" /\ m.size = e.size
    \/ m.id = "MotorParameters" /\ m.motor = e.motor
    \/ m.id = "MessPerSecond" /\ m.rate = Freq \div e.ticks
    \/ m.id \in {"StartStopMeasure", "GetTachoStates"}

\* What makes EchoHarmless inductive: the messages still on the line were made
\* from the report, and the period is one that a rate stands for.
PeriodInv == up.ticks \in Periods /\ (rom # NoConf => rom.ticks \in Periods)

EchoInv ==
    echo # NoEcho =>
        /\ on
        /\ InUse = echo
        /\ \A i \in 1..Len(toBoard) : Harmless(toBoard[i], echo)

\* A period of a rate is sent and taken again unchanged.
LEMMA PeriodKept ==
    ASSUME NEW t \in Periods
    PROVE  /\ t \in 1..Freq
           /\ ValidRate(Freq \div t)
           /\ Ticks(Freq \div t) = t
<1>1. PICK r \in 1..Freq : t = Ticks(r)
  BY DEF Periods
<1> QED
  BY <1>1, EchoKeepsRate

LEMMA ReadConfPeriod ==
    ASSUME TypeOK, PeriodInv, NEW u, NEW failed \in BOOLEAN, ReadConf(u, failed)
    PROVE  u.ticks \in Periods /\ (rom' # NoConf => rom'.ticks \in Periods)
<1>1. up \in Images
  BY DEF TypeOK
<1>2. [up EXCEPT !.size = lib].ticks = up.ticks
  BY <1>1 DEF Images
<1> QED
  BY <1>2 DEF ReadConf, PeriodInv

LEMMA InitPeriod == InitImage.ticks \in Periods
<1>1. InitImage.ticks = Ticks(InitRate)
  BY DEF InitImage, Ticks
<1> QED
  BY <1>1, HostPanelAssumption DEF Periods

\* What one command does to the fields of userParam.
LEMMA FieldUpdates ==
    ASSUME NEW u \in Images
    PROVE  /\ \A m : /\ [u EXCEPT !.motor = m].motor = m
                     /\ [u EXCEPT !.motor = m].ticks = u.ticks
           /\ \A t : /\ [u EXCEPT !.ticks = t].ticks = t
                     /\ [u EXCEPT !.ticks = t].motor = u.motor
           /\ \A n : /\ [u EXCEPT !.size = n].ticks = u.ticks
                     /\ [u EXCEPT !.size = n].motor = u.motor
           /\ \A r : /\ [u EXCEPT !.run = r].ticks = u.ticks
                     /\ [u EXCEPT !.run = r].motor = u.motor
  BY DEF Images

LEMMA PeriodStep == TypeOK /\ PeriodInv /\ [Next]_vars => PeriodInv'
<1> SUFFICES ASSUME TypeOK, PeriodInv, [Next]_vars PROVE PeriodInv'
  OBVIOUS
<1> USE DEF board
<1>u. up \in Images
  BY DEF TypeOK
<1>1. CASE UNCHANGED <<up, rom>>
  BY <1>1 DEF PeriodInv
<1>2. CASE UNCHANGED vars \/ HostStep
  <2>1. UNCHANGED <<up, rom>>
    BY <1>2 DEF vars, HostStep, Hello, Edit, ClickStop, ClickRun, ClickEeprom, Click, Send,
                HostRecv, HostSkip, HostSkipRpms
  <2> QED
    BY <2>1, <1>1
<1>3. CASE Boot
  BY <1>3, ReadConfPeriod DEF Boot, PeriodInv
<1>4. CASE PowerLost
  BY <1>4, InitPeriod DEF PowerLost, PeriodInv
<1>5. CASE RecvFilterParam \/ RecvMotorParameters \/ RecvStartStopMeasure \/ RecvGetTachoStates
  <2>1. up'.ticks = up.ticks /\ rom' = rom
    <3>1. CASE RecvFilterParam
      <4>1. up' = [up EXCEPT !.size = Head(toBoard).size] /\ rom' = rom
        BY <3>1 DEF RecvFilterParam
      <4> QED
        BY <1>u, <4>1, FieldUpdates
    <3>2. CASE RecvMotorParameters
      <4>1. up' = up \/ up' = [up EXCEPT !.motor = Head(toBoard).motor]
        BY <3>2 DEF RecvMotorParameters
      <4>2. rom' = rom
        BY <3>2 DEF RecvMotorParameters
      <4>3. [up EXCEPT !.motor = Head(toBoard).motor].ticks = up.ticks
        BY <1>u, FieldUpdates
      <4> QED
        BY <4>1, <4>2, <4>3
    <3>3. CASE RecvStartStopMeasure
      <4>1. up' = [up EXCEPT !.run = Head(toBoard).run] /\ rom' = rom
        BY <3>3 DEF RecvStartStopMeasure
      <4> QED
        BY <1>u, <4>1, FieldUpdates
    <3>4. CASE RecvGetTachoStates
      <4>1. up' = [up EXCEPT !.size = lib] /\ rom' = rom
        BY <3>4 DEF RecvGetTachoStates
      <4> QED
        BY <1>u, <4>1, FieldUpdates
    <3> QED
      BY <1>5, <3>1, <3>2, <3>3, <3>4
  <2> QED
    BY <2>1 DEF PeriodInv
<1>6. CASE RecvMessPerSecond
  <2>1. CASE ~ValidRate(Head(toBoard).rate)
    <3>1. UNCHANGED <<up, rom>>
      BY <1>6, <2>1 DEF RecvMessPerSecond
    <3> QED
      BY <3>1, <1>1
  <2>2. CASE ValidRate(Head(toBoard).rate)
    <3>1. Head(toBoard).rate \in Nat
      BY <1>6, CommandType DEF RecvMessPerSecond, Receive
    <3>2. Head(toBoard).rate \in 1..Freq
      BY <2>2, <3>1, HostPanelAssumption DEF ValidRate
    <3>3. up'.ticks = Ticks(Head(toBoard).rate) /\ rom' = rom
      <4>1. up' = [up EXCEPT !.ticks = Ticks(Head(toBoard).rate)] /\ rom' = rom
        BY <1>6, <2>2 DEF RecvMessPerSecond
      <4> QED
        BY <1>u, <4>1, FieldUpdates
    <3> QED
      BY <3>2, <3>3 DEF PeriodInv, Periods
  <2> QED
    BY <2>1, <2>2
<1>7. CASE RecvEeprom
  <2>1. CASE Head(toBoard).command # "Load"
    <3>1. up' = up /\ rom' \in {up, rom, NoConf}
      <4>1. Head(toBoard).command \in {"Store", "Load", "Wipe", "Erase"}
        BY <1>7, CommandType DEF RecvEeprom, Receive
      <4>2. CASE rom' = rom
        BY <1>7, <2>1, <4>2 DEF RecvEeprom
      <4>3. CASE rom' # rom
        <5>1. CASE Head(toBoard).command = "Store"
          BY <1>7, <4>3, <5>1 DEF RecvEeprom
        <5>2. CASE Head(toBoard).command = "Erase"
          BY <1>7, <4>3, <5>2 DEF RecvEeprom
        <5>3. CASE Head(toBoard).command = "Wipe"
          BY <1>7, <4>3, <5>3 DEF RecvEeprom
        <5> QED
          BY <2>1, <4>1, <5>1, <5>2, <5>3
      <4> QED
        BY <4>2, <4>3
    <3> QED
      BY <3>1 DEF PeriodInv
  <2>2. CASE Head(toBoard).command = "Load"
    BY <1>7, <2>2, ReadConfPeriod DEF RecvEeprom, PeriodInv
  <2> QED
    BY <2>1, <2>2
<1> QED
  BY <1>2, <1>3, <1>4, <1>5, <1>6, <1>7 DEF Next, BoardStep

\* A question added to a line keeps it harmless.
LEMMA AppendGet ==
    ASSUME TypeOK, NEW e, \A i \in 1..Len(toBoard) : Harmless(toBoard[i], e)
    PROVE  \A i \in 1..Len(toBoard \o <<Get>>) : Harmless((toBoard \o <<Get>>)[i], e)
<1>1. toBoard \in Seq(Commands)
  BY DEF TypeOK
<1>2. Harmless(Get, e)
  BY DEF Harmless, Get
<1> SUFFICES ASSUME NEW i \in 1..Len(toBoard \o <<Get>>)
             PROVE  Harmless((toBoard \o <<Get>>)[i], e)
  OBVIOUS
<1>3. \/ i \in 1..Len(toBoard) /\ (toBoard \o <<Get>>)[i] = toBoard[i]
      \/ (toBoard \o <<Get>>)[i] = Get
  BY <1>1
<1> QED
  BY <1>2, <1>3

\* A handler finds a harmless command and leaves harmless ones.
LEMMA TakeHarmless ==
    ASSUME TypeOK, toBoard # <<>>, NEW e,
           \A i \in 1..Len(toBoard) : Harmless(toBoard[i], e)
    PROVE  /\ Harmless(Head(toBoard), e)
           /\ \A i \in 1..Len(Tail(toBoard)) : Harmless(Tail(toBoard)[i], e)
<1>1. toBoard \in Seq(Commands)
  BY DEF TypeOK
<1>2. 1 \in 1..Len(toBoard) /\ Head(toBoard) = toBoard[1]
  BY <1>1
<1>3. ASSUME NEW i \in 1..Len(Tail(toBoard))
      PROVE  Harmless(Tail(toBoard)[i], e)
  <2>1. i + 1 \in 1..Len(toBoard) /\ Tail(toBoard)[i] = toBoard[i + 1]
    BY <1>1
  <2> QED
    BY <2>1
<1> QED
  BY <1>2, <1>3

LEMMA EchoStep == TypeOK /\ PeriodInv /\ EchoInv /\ [Next]_vars => EchoInv'
<1> SUFFICES ASSUME TypeOK, PeriodInv, EchoInv, [Next]_vars, echo' # NoEcho
             PROVE  /\ on'
                    /\ InUse' = echo'
                    /\ \A i \in 1..Len(toBoard') : Harmless(toBoard'[i], echo')
  BY DEF EchoInv
<1> USE DEF host, lines, board, hist
<1>u. up \in Images /\ lib \in LibSizes
  BY DEF TypeOK
\* The steps that leave the board, its line and the history alone.
<1>1. CASE UNCHANGED <<on, up, lib, toBoard, echo>>
  BY <1>1 DEF EchoInv, InUse
<1>2. CASE UNCHANGED vars \/ Edit \/ HostRecv \/ HostSkip \/ HostSkipRpms
  <2>1. UNCHANGED <<on, up, lib, toBoard, echo>>
    BY <1>2 DEF vars, Edit, HostRecv, HostSkip, HostSkipRpms
  <2> QED
    BY <2>1, <1>1
<1>3. CASE Hello
  <2>1. UNCHANGED <<on, up, lib, echo>>
    BY <1>3 DEF Hello, Send
  <2>2. on /\ InUse = echo /\ \A i \in 1..Len(toBoard) : Harmless(toBoard[i], echo)
    BY <2>1 DEF EchoInv
  <2>3. toBoard' = toBoard \o <<Get>>
    BY <1>3, <2>2 DEF Hello, Send
  <2> QED
    BY <2>1, <2>2, <2>3, AppendGet DEF InUse
\* The steps after which no claim is made.
<1>4. CASE ClickStop \/ ClickEeprom \/ PowerLost
  BY <1>4 DEF ClickStop, ClickEeprom, PowerLost
<1>5. CASE ClickRun
  <2>1. Quiet /\ panel = Report /\ echo' = InUse
    BY <1>5 DEF ClickRun
  <2>2. on /\ toBoard' = RunMessages /\ UNCHANGED <<on, up, lib>>
    <3>1. toBoard' = toBoard \o RunMessages /\ UNCHANGED <<on, up, lib>>
      BY <1>5, <2>1 DEF ClickRun, Click, Send, Quiet
    <3>2. on /\ toBoard = <<>>
      BY <2>1 DEF Quiet
    <3>3. <<>> \o RunMessages = RunMessages
      BY DEF RunMessages, Get
    <3> QED
      BY <3>1, <3>2, <3>3
  <2>3. /\ panel.size = lib /\ panel.motor = up.motor /\ panel.rate = Freq \div up.ticks
    BY <2>1 DEF Report
  <2>4. echo'.size = lib /\ echo'.motor = up.motor /\ echo'.ticks = up.ticks
    BY <2>1 DEF InUse
  <2>5. \A i \in 1..Len(RunMessages) : Harmless(RunMessages[i], echo')
    <3>1. Len(RunMessages) = 5
      BY DEF RunMessages
    <3>2. SUFFICES ASSUME NEW i \in 1..5 PROVE Harmless(RunMessages[i], echo')
      BY <3>1
    <3>3. CASE i = 1
      BY <2>3, <2>4, <3>3 DEF RunMessages, Harmless
    <3>4. CASE i = 2
      BY <2>3, <2>4, <3>4 DEF RunMessages, Harmless
    <3>5. CASE i = 3
      BY <2>3, <2>4, <3>5 DEF RunMessages, Harmless
    <3>6. CASE i = 4
      BY <3>6 DEF RunMessages, Harmless
    <3>7. CASE i = 5
      BY <3>7 DEF RunMessages, Harmless, Get
    <3> QED
      BY <3>3, <3>4, <3>5, <3>6, <3>7
  <2> QED
    BY <2>1, <2>2, <2>5 DEF InUse
<1>6. CASE Boot
  <2>1. ~on /\ echo' = echo
    BY <1>6 DEF Boot
  <2> QED
    BY <2>1 DEF EchoInv
\* The handlers.
<1>7. ASSUME NEW id, Receive(id), echo' = echo
      PROVE  /\ on' /\ InUse = echo /\ Head(toBoard).id = id
             /\ Harmless(Head(toBoard), echo)
             /\ \A i \in 1..Len(toBoard') : Harmless(toBoard'[i], echo')
  <2>1. /\ on /\ on' = on /\ toBoard # <<>> /\ toBoard' = Tail(toBoard)
        /\ Head(toBoard).id = id
    BY <1>7 DEF Receive
  <2>2. InUse = echo /\ \A i \in 1..Len(toBoard) : Harmless(toBoard[i], echo)
    BY <1>7 DEF EchoInv
  <2> QED
    BY <1>7, <2>1, <2>2, TakeHarmless
<1>e. InUse = echo => echo.motor = up.motor /\ echo.ticks = up.ticks /\ echo.size = lib
  BY DEF InUse
<1>f. ASSUME up'.motor = up.motor, up'.ticks = up.ticks, lib' = lib, echo' = echo, InUse = echo
      PROVE  InUse' = echo'
  BY <1>f DEF InUse
<1>8. CASE RecvFilterParam
  <2>1. Receive("FilterParam") /\ echo' = echo
    BY <1>8 DEF RecvFilterParam, Receive
  <2>2. Head(toBoard).size = lib
    BY <2>1, <1>7, <1>e DEF Harmless
  <2>3. lib' = lib
    BY <1>8, <1>u, <2>2 DEF RecvFilterParam, Resized
  <2>4. up'.motor = up.motor /\ up'.ticks = up.ticks
    <3>1. up' = [up EXCEPT !.size = Head(toBoard).size]
      BY <1>8 DEF RecvFilterParam
    <3> QED
      BY <1>u, <3>1, FieldUpdates
  <2> QED
    BY <1>7, <1>f, <2>1, <2>3, <2>4
<1>9. CASE RecvMotorParameters
  <2>1. Receive("MotorParameters") /\ echo' = echo /\ lib' = lib
    BY <1>9 DEF RecvMotorParameters, Receive
  <2>2. Head(toBoard).motor = up.motor
    BY <2>1, <1>7, <1>e DEF Harmless
  <2>3. up'.motor = up.motor /\ up'.ticks = up.ticks
    <3>1. up' = up \/ up' = [up EXCEPT !.motor = Head(toBoard).motor]
      BY <1>9 DEF RecvMotorParameters
    <3>2. /\ [up EXCEPT !.motor = Head(toBoard).motor].motor = Head(toBoard).motor
          /\ [up EXCEPT !.motor = Head(toBoard).motor].ticks = up.ticks
      BY <1>u, FieldUpdates
    <3> QED
      BY <2>2, <3>1, <3>2
  <2> QED
    BY <1>7, <1>f, <2>1, <2>3
<1>10. CASE RecvMessPerSecond
  <2>1. Receive("MessPerSecond") /\ echo' = echo /\ lib' = lib
    BY <1>10 DEF RecvMessPerSecond, Receive
  <2>2. Head(toBoard).rate = Freq \div up.ticks
    BY <2>1, <1>7, <1>e DEF Harmless
  <2>3. ValidRate(Head(toBoard).rate) /\ Ticks(Head(toBoard).rate) = up.ticks
    BY <2>2, PeriodKept DEF PeriodInv
  <2>4. up'.motor = up.motor /\ up'.ticks = up.ticks
    <3>1. up' = [up EXCEPT !.ticks = Ticks(Head(toBoard).rate)]
      BY <1>10, <2>3 DEF RecvMessPerSecond
    <3> QED
      BY <1>u, <2>3, <3>1, FieldUpdates
  <2> QED
    BY <1>7, <1>f, <2>1, <2>4
<1>11. CASE RecvStartStopMeasure
  <2>1. Receive("StartStopMeasure") /\ echo' = echo /\ lib' = lib
    BY <1>11 DEF RecvStartStopMeasure, Receive
  <2>2. up' = [up EXCEPT !.run = Head(toBoard).run]
    BY <1>11 DEF RecvStartStopMeasure
  <2>3. up'.motor = up.motor /\ up'.ticks = up.ticks
    BY <1>u, <2>2, FieldUpdates
  <2> QED
    BY <1>7, <1>f, <2>1, <2>3
<1>12. CASE RecvGetTachoStates
  <2>1. Receive("GetTachoStates") /\ echo' = echo /\ lib' = lib
    BY <1>12 DEF RecvGetTachoStates, Receive
  <2>2. up' = [up EXCEPT !.size = lib]
    BY <1>12 DEF RecvGetTachoStates
  <2>3. up'.motor = up.motor /\ up'.ticks = up.ticks
    BY <1>u, <2>2, FieldUpdates
  <2> QED
    BY <1>7, <1>f, <2>1, <2>3
<1>13. CASE RecvEeprom
  <2>1. Receive("Eeprom") /\ echo' = echo
    BY <1>13 DEF RecvEeprom, Receive
  <2>2. Harmless(Head(toBoard), echo) /\ Head(toBoard).id = "Eeprom"
    BY <2>1, <1>7
  <2> QED
    BY <2>2 DEF Harmless
<1> QED
  BY <1>2, <1>3, <1>4, <1>5, <1>6, <1>8, <1>9, <1>10, <1>11, <1>12, <1>13
  DEF Next, HostStep, BoardStep

(* Clicking Run on a panel that shows the settings of the board changes none *)
(* of them, whatever happens on the lines meanwhile.                         *)
THEOREM EchoSafe == Spec => []EchoHarmless
<1> DEFINE Inv == TypeOK /\ PeriodInv /\ EchoInv
<1>1. Init => Inv
  <2> SUFFICES ASSUME Init PROVE Inv
    OBVIOUS
  <2>1. PeriodInv
    BY InitPeriod DEF Init, PeriodInv
  <2>2. EchoInv
    BY DEF Init, EchoInv
  <2> QED
    BY <2>1, <2>2, TypeInit
<1>2. Inv /\ [Next]_vars => Inv'
  BY TypeStep, PeriodStep, EchoStep
<1>3. Inv => EchoHarmless
  BY DEF EchoInv, EchoHarmless
<1> QED
  BY <1>1, <1>2, <1>3, PTL DEF Spec
-----------------------------------------------------------------------------
(* What the panel shows, and what a click on Run came to.                    *)

\* The commands that change what GetTachoStates reports.
Changing == {"FilterParam", "MotorParameters", "MessPerSecond", "StartStopMeasure"}

\* After every changing command on the line q there is a question; is there one?
Asked(q) ==
    \A i \in 1..Len(q) : q[i].id \in Changing => \E j \in i+1..Len(q) : q[j] = Get
AskPending(q) == \E i \in 1..Len(q) : q[i] = Get

\* There is no report on the line q to the host; the last one says s.
NoStates(q) == \A i \in 1..Len(q) : q[i].id # "TachoStates"
LastStates(q, s) ==
    \E i \in 1..Len(q) :
        /\ q[i].id = "TachoStates"
        /\ q[i].states = s
        /\ \A j \in i+1..Len(q) : q[j].id # "TachoStates"

\* What makes ShownIsTrue inductive: until the panel knows, a question or the
\* answer to the last one is on its way.
Told ==
    \/ LastStates(toHost, Report)
    \/ NoStates(toHost) /\ (fresh => panel = Report)
TellInv == Asked(toBoard) /\ (~unasked => on /\ (AskPending(toBoard) \/ Told))

\* What a click on Run put on the line: the start is the k-th, after it there
\* are only questions, just before it the rate and before that the parameters.
StartRun         == [id |-> "StartStopMeasure", run |-> "Run"]
WantsRate(w)     == [id |-> "MessPerSecond", rate |-> w.rate]
WantsMotor(w)    == [id |-> "MotorParameters", motor |-> w.motor]
OnlyGets(q, k)   == \A j \in k+1..Len(q) : q[j] = Get
StartAt(q, k)    == k \in 1..Len(q) /\ q[k] = StartRun /\ OnlyGets(q, k)
RateAt(q, k, w)  == k \in 2..Len(q) /\ q[k - 1] = WantsRate(w) /\ StartAt(q, k)
MotorAt(q, k, w) == k \in 3..Len(q) /\ q[k - 2] = WantsMotor(w) /\ RateAt(q, k, w)

\* An error message is on the panel or on its way.
Complaint == err \/ \E i \in 1..Len(toHost) : toHost[i] = TachoError

\* What makes RefusalTold inductive: the parameters, the rate and the start are
\* still to come, or the first of them were taken, or all and there is a
\* session; or there is an error.
TakenMotor == up.motor = wanted.motor
TakenRate  == ValidRate(wanted.rate) /\ up.ticks = Ticks(wanted.rate)
Coming     == \E k \in 1..Len(toBoard) : MotorAt(toBoard, k, wanted)
Halfway    == up.run = "Stop" /\ TakenMotor /\ RateAt(toBoard, 2, wanted)
Starting   == up.run = "Stop" /\ TakenMotor /\ TakenRate /\ StartAt(toBoard, 1)
Started    == session = wanted.motor /\ TakenMotor /\ TakenRate /\ OnlyGets(toBoard, 0)
ClickInv   == wanted # NotWanted => on /\ (Complaint \/ Coming \/ Halfway \/ Starting \/ Started)

\* The two ends of a line.
LEMMA TailOf ==
    ASSUME NEW S, NEW q \in Seq(S), q # <<>>
    PROVE  /\ Len(q) \in Nat \ {0} /\ Len(Tail(q)) = Len(q) - 1
           /\ q[1] = Head(q)
           /\ \A i \in 1..Len(Tail(q)) : Tail(q)[i] = q[i + 1]
           /\ \A i \in 2..Len(q) : i - 1 \in 1..Len(Tail(q)) /\ Tail(q)[i - 1] = q[i]
  OBVIOUS

LEMMA AppendOf ==
    ASSUME NEW S, NEW q \in Seq(S), NEW p \in Seq(S)
    PROVE  /\ Len(q) \in Nat /\ Len(p) \in Nat
           /\ Len(q \o p) = Len(q) + Len(p)
           /\ \A i \in 1..Len(q) : (q \o p)[i] = q[i]
           /\ \A i \in 1..Len(p) : (q \o p)[Len(q) + i] = p[i]
           /\ \A i \in 1..Len(q \o p) : i \in 1..Len(q) \/ i - Len(q) \in 1..Len(p)
  OBVIOUS

\* Questions stay behind what they ask about.
LEMMA AskedTail ==
    ASSUME NEW q \in Seq(Commands), q # <<>>, Asked(q)
    PROVE  /\ Asked(Tail(q))
           /\ Head(q).id \in Changing => AskPending(Tail(q))
           /\ AskPending(q) /\ Head(q) # Get => AskPending(Tail(q))
<1>1. ASSUME NEW i \in 1..Len(Tail(q)), Tail(q)[i].id \in Changing
      PROVE  \E j \in i+1..Len(Tail(q)) : Tail(q)[j] = Get
  <2>1. i + 1 \in 1..Len(q) /\ q[i + 1].id \in Changing
    BY <1>1, TailOf
  <2>2. PICK j \in (i + 1)+1..Len(q) : q[j] = Get
    BY <2>1 DEF Asked
  <2>3. j - 1 \in i+1..Len(Tail(q)) /\ Tail(q)[j - 1] = Get
    BY <2>2, TailOf
  <2> QED
    BY <2>3
<1>2. ASSUME Head(q).id \in Changing PROVE AskPending(Tail(q))
  <2>1. 1 \in 1..Len(q) /\ q[1].id \in Changing
    BY <1>2, TailOf
  <2>2. PICK j \in 1+1..Len(q) : q[j] = Get
    BY <2>1 DEF Asked
  <2>3. j - 1 \in 1..Len(Tail(q)) /\ Tail(q)[j - 1] = Get
    BY <2>2, TailOf
  <2> QED
    BY <2>3 DEF AskPending
<1>3. ASSUME AskPending(q), Head(q) # Get PROVE AskPending(Tail(q))
  <2>1. PICK j \in 1..Len(q) : q[j] = Get
    BY <1>3 DEF AskPending
  <2>2. j \in 2..Len(q)
    BY <1>3, <2>1, TailOf
  <2>3. j - 1 \in 1..Len(Tail(q)) /\ Tail(q)[j - 1] = Get
    BY <2>1, <2>2, TailOf
  <2> QED
    BY <2>3 DEF AskPending
<1> QED
  BY <1>1, <1>2, <1>3 DEF Asked

LEMMA AskedAppend ==
    ASSUME NEW q \in Seq(Commands), NEW p \in Seq(Commands), p # <<>>, p[Len(p)] = Get
    PROVE  Asked(q \o p) /\ AskPending(q \o p)
<1> DEFINE n == Len(q) + Len(p)
<1>1. n \in 1..Len(q \o p) /\ n = Len(q \o p) /\ (q \o p)[n] = Get
  BY AppendOf
<1>2. ASSUME NEW i \in 1..Len(q \o p), (q \o p)[i].id \in Changing
      PROVE  \E j \in i+1..Len(q \o p) : (q \o p)[j] = Get
  <2>1. (q \o p)[i] # Get
    BY <1>2 DEF Get, Changing
  <2>2. n \in i+1..Len(q \o p)
    BY <1>1, <2>1
  <2> QED
    BY <1>1, <2>2
<1> QED
  BY <1>1, <1>2 DEF Asked, AskPending

LEMMA AskedOther ==
    ASSUME NEW q \in Seq(Commands), NEW m \in Commands, m.id \notin Changing, Asked(q)
    PROVE  Asked(q \o <<m>>) /\ (AskPending(q) => AskPending(q \o <<m>>))
<1>1. <<m>> \in Seq(Commands) /\ Len(<<m>>) = 1 /\ <<m>>[1] = m
  OBVIOUS
<1>2. ASSUME NEW i \in 1..Len(q \o <<m>>), (q \o <<m>>)[i].id \in Changing
      PROVE  \E j \in i+1..Len(q \o <<m>>) : (q \o <<m>>)[j] = Get
  <2>1. i \in 1..Len(q) /\ q[i].id \in Changing
    BY <1>1, <1>2, AppendOf
  <2>2. PICK j \in i+1..Len(q) : q[j] = Get
    BY <2>1 DEF Asked
  <2>3. j \in i+1..Len(q \o <<m>>) /\ (q \o <<m>>)[j] = Get
    BY <1>1, <2>1, <2>2, AppendOf
  <2> QED
    BY <2>3
<1>3. ASSUME NEW j \in 1..Len(q), q[j] = Get
      PROVE  j \in 1..Len(q \o <<m>>) /\ (q \o <<m>>)[j] = Get
  BY <1>1, <1>3, AppendOf
<1> QED
  BY <1>2, <1>3 DEF Asked, AskPending

\* The reports on the line to the host.
LEMMA StatesTail ==
    ASSUME NEW q \in Seq(Answers), q # <<>>
    PROVE  /\ NoStates(q) => Head(q).id # "TachoStates" /\ NoStates(Tail(q))
           /\ \A s : LastStates(q, s) =>
                \/ LastStates(Tail(q), s)
                \/ /\ Head(q).id = "TachoStates" /\ Head(q).states = s
                   /\ NoStates(Tail(q))
<1>1. ASSUME NoStates(q) PROVE Head(q).id # "TachoStates" /\ NoStates(Tail(q))
  <2>1. 1 \in 1..Len(q) /\ q[1] = Head(q)
    BY TailOf
  <2>2. ASSUME NEW i \in 1..Len(Tail(q)) PROVE Tail(q)[i].id # "TachoStates"
    <3>1. i + 1 \in 1..Len(q) /\ Tail(q)[i] = q[i + 1]
      BY TailOf
    <3> QED
      BY <1>1, <3>1 DEF NoStates
  <2> QED
    BY <1>1, <2>1, <2>2 DEF NoStates
<1>2. ASSUME NEW s, LastStates(q, s)
      PROVE  \/ LastStates(Tail(q), s)
             \/ /\ Head(q).id = "TachoStates" /\ Head(q).states = s
                /\ NoStates(Tail(q))
  <2>1. PICK i \in 1..Len(q) :
          /\ q[i].id = "TachoStates" /\ q[i].states = s
          /\ \A j \in i+1..Len(q) : q[j].id # "TachoStates"
    BY <1>2 DEF LastStates
  <2>2. ASSUME NEW j \in i..Len(Tail(q)) PROVE Tail(q)[j].id # "TachoStates"
    <3>1. j + 1 \in i+1..Len(q) /\ j \in 1..Len(Tail(q))
      BY TailOf
    <3> QED
      BY <2>1, <3>1, TailOf
  <2>3. CASE i = 1
    BY <2>1, <2>2, <2>3, TailOf DEF NoStates
  <2>4. CASE i # 1
    <3>1. i - 1 \in 1..Len(Tail(q)) /\ Tail(q)[i - 1] = q[i] /\ (i - 1) + 1 = i
      BY <2>4, TailOf
    <3> QED
      BY <2>1, <2>2, <3>1 DEF LastStates
  <2> QED
    BY <2>3, <2>4
<1> QED
  BY <1>1, <1>2

LEMMA StatesAppend ==
    ASSUME NEW q \in Seq(Answers)
    PROVE  /\ NoStates(q) => NoStates(q \o <<TachoError>>)
           /\ \A s : LastStates(q, s) => LastStates(q \o <<TachoError>>, s)
           /\ \A s \in States : LastStates(q \o <<[id |-> "TachoStates", states |-> s]>>, s)
<1>1. /\ <<TachoError>> \in Seq(Answers) /\ Len(<<TachoError>>) = 1
      /\ <<TachoError>>[1].id # "TachoStates"
  BY DEF Answers, TachoError
<1>2. ASSUME NoStates(q) PROVE NoStates(q \o <<TachoError>>)
  <2> SUFFICES ASSUME NEW i \in 1..Len(q \o <<TachoError>>)
               PROVE  (q \o <<TachoError>>)[i].id # "TachoStates"
    BY DEF NoStates
  <2>1. CASE i \in 1..Len(q)
    BY <1>1, <1>2, <2>1, AppendOf DEF NoStates
  <2>2. CASE i \notin 1..Len(q)
    <3>1. i = Len(q) + 1 /\ 1 \in 1..Len(<<TachoError>>)
      BY <1>1, <2>2, AppendOf
    <3> QED
      BY <1>1, <3>1, AppendOf
  <2> QED
    BY <2>1, <2>2
<1>3. ASSUME NEW s, LastStates(q, s) PROVE LastStates(q \o <<TachoError>>, s)
  <2>1. PICK i \in 1..Len(q) :
          /\ q[i].id = "TachoStates" /\ q[i].states = s
          /\ \A j \in i+1..Len(q) : q[j].id # "TachoStates"
    BY <1>3 DEF LastStates
  <2>2. i \in 1..Len(q \o <<TachoError>>) /\ (q \o <<TachoError>>)[i] = q[i]
    BY <1>1, AppendOf
  <2>3. ASSUME NEW j \in i+1..Len(q \o <<TachoError>>)
        PROVE  (q \o <<TachoError>>)[j].id # "TachoStates"
    <3>1. CASE j \in 1..Len(q)
      BY <1>1, <2>1, <3>1, AppendOf
    <3>2. CASE j \notin 1..Len(q)
      <4>1. j = Len(q) + 1 /\ 1 \in 1..Len(<<TachoError>>)
        BY <1>1, <3>2, AppendOf
      <4> QED
        BY <1>1, <4>1, AppendOf
    <3> QED
      BY <3>1, <3>2
  <2> QED
    BY <2>1, <2>2, <2>3 DEF LastStates
<1>4. ASSUME NEW s \in States
      PROVE  LastStates(q \o <<[id |-> "TachoStates", states |-> s]>>, s)
  <2>1. PICK a \in Answers : a = [id |-> "TachoStates", states |-> s]
    BY DEF Answers
  <2>2. a.id = "TachoStates" /\ a.states = s
    BY <2>1
  <2>3. /\ Len(q) \in Nat /\ Len(q \o <<a>>) = Len(q) + 1
        /\ (q \o <<a>>)[Len(q) + 1] = a
    OBVIOUS
  <2>4. LastStates(q \o <<a>>, s)
    BY <2>2, <2>3 DEF LastStates
  <2> QED
    BY <2>1, <2>4
<1> QED
  BY <1>2, <1>3, <1>4


LEMMA TellStep == TypeOK /\ TellInv /\ [Next]_vars => TellInv'
<1> SUFFICES ASSUME TypeOK, TellInv, [Next]_vars PROVE TellInv'
  OBVIOUS
<1> USE DEF host, lines, board, hist
<1>q. toBoard \in Seq(Commands) /\ toHost \in Seq(Answers) /\ Asked(toBoard)
  BY DEF TypeOK, TellInv
<1>g. <<Get>> \in Seq(Commands) /\ <<Get>> # <<>> /\ <<Get>>[Len(<<Get>>)] = Get
  BY DEF Get, Commands
\* The lines and what the panel and the board show are left alone.
<1>1. ASSUME UNCHANGED <<toBoard, toHost, on, panel, fresh>>, Report' = Report,
             unasked' \/ (unasked' = unasked)
      PROVE  TellInv'
  BY <1>1, <1>q DEF TellInv, Told
\* A question is put on the line.
<1>2. ASSUME NEW ms \in Seq(Commands), ms # <<>>, ms[Len(ms)] = Get, Send(ms),
             unasked' = unasked
      PROVE  TellInv'
  <2>1. on' = on
    BY <1>2 DEF Send
  <2>2. CASE on
    <3>1. toBoard' = toBoard \o ms
      BY <1>2, <2>2 DEF Send
    <3>2. Asked(toBoard \o ms) /\ AskPending(toBoard \o ms)
      BY <1>2, <1>q, AskedAppend
    <3> QED
      BY <2>1, <2>2, <3>1, <3>2 DEF TellInv
  <2>3. CASE ~on
    <3>1. unasked /\ toBoard' = toBoard
      BY <1>2, <2>3 DEF Send, TellInv
    <3> QED
      BY <1>2, <1>q, <3>1 DEF TellInv
  <2> QED
    BY <2>2, <2>3
<1>3. CASE UNCHANGED vars
  BY <1>3, <1>1 DEF vars, Report
<1>4. CASE Hello
  BY <1>4, <1>g, <1>2 DEF Hello
<1>5. CASE Edit
  <2>1. UNCHANGED <<toBoard, toHost, on, up, lib, unasked>> /\ fresh' = FALSE /\ fresh
    BY <1>5 DEF Edit
  <2> QED
    BY <2>1 DEF TellInv, Told, Report
<1>6. CASE ClickStop
  <2> DEFINE ms == <<[id |-> "StartStopMeasure", run |-> "Stop"], Get>>
  <2>1. ms \in Seq(Commands) /\ ms # <<>> /\ ms[Len(ms)] = Get
    BY DEF Get, Commands
  <2>2. Send(ms) /\ unasked' = unasked
    BY <1>6 DEF ClickStop, Click
  <2> HIDE DEF ms
  <2> QED
    BY <1>2, <2>1, <2>2
<1>7. CASE ClickRun
  <2>1. RunMessages \in Seq(Commands) /\ RunMessages # <<>> /\ RunMessages[Len(RunMessages)] = Get
    <3>1. panel.size \in Nat /\ panel.motor \in Motors /\ panel.rate \in Nat
      BY DEF TypeOK, States
    <3> QED
      BY <3>1 DEF RunMessages, Get, Commands
  <2>2. Send(RunMessages) /\ unasked' = unasked
    BY <1>7 DEF ClickRun, Click
  <2> QED
    BY <1>2, <2>1, <2>2
<1>8. CASE ClickEeprom
  <2>1. PICK c \in {"Store", "Load", "Wipe", "Erase"} : Send(<<[id |-> "Eeprom", command |-> c]>>)
    BY <1>8 DEF ClickEeprom
  <2> DEFINE m == [id |-> "Eeprom", command |-> c]
  <2>2. m \in Commands /\ m.id \notin Changing
    BY DEF Commands, Changing
  <2>3. Send(<<m>>)
    BY <2>1
  <2>4. UNCHANGED <<toHost, on, up, lib, panel, fresh, unasked>>
    BY <1>8, <2>3 DEF ClickEeprom, Send
  <2> HIDE DEF m
  <2>5. Asked(toBoard') /\ (AskPending(toBoard) => AskPending(toBoard'))
    BY <1>q, <2>2, <2>3, AskedOther DEF Send
  <2> QED
    BY <2>4, <2>5 DEF TellInv, Told, Report
<1>9. CASE HostRecv
  <2>1. /\ toHost # <<>> /\ toHost' = Tail(toHost)
        /\ UNCHANGED <<toBoard, on, up, lib, unasked>>
    BY <1>9 DEF HostRecv
  <2>2. Report' = Report
    BY <2>1 DEF Report
  <2>3. ASSUME Told PROVE Told'
    <3>1. CASE ShowError
      <4>1. UNCHANGED <<panel, fresh>> /\ Head(toHost).id = "TachoError"
        BY <3>1 DEF ShowError
      <4> QED
        BY <1>q, <2>1, <2>2, <2>3, <4>1, StatesTail DEF Told
    <3>2. CASE ShowStates
      <4>1. panel' = Head(toHost).states /\ Head(toHost).id = "TachoStates"
        BY <3>2 DEF ShowStates
      <4> QED
        BY <1>q, <2>1, <2>2, <2>3, <4>1, StatesTail DEF Told
    <3> QED
      BY <1>9, <3>1, <3>2 DEF HostRecv
  <2> QED
    BY <2>1, <2>3 DEF TellInv
<1>10. CASE HostSkip
  <2>1. /\ toHost # <<>> /\ toHost' = Tail(toHost)
        /\ UNCHANGED <<toBoard, on, up, lib, panel, fresh>>
        /\ unasked' = (unasked \/ Head(toHost).id = "TachoStates")
    BY <1>10 DEF HostSkip
  <2>2. Report' = Report
    BY <2>1 DEF Report
  <2>3. ASSUME ~unasked', Told PROVE Told'
    BY <1>q, <2>1, <2>2, <2>3, StatesTail DEF Told
  <2> QED
    BY <2>1, <2>3 DEF TellInv
<1>11. CASE HostSkipRpms
  BY <1>11, <1>1 DEF HostSkipRpms, Report
<1>12. CASE Boot
  <2>1. ~on /\ UNCHANGED <<toBoard, unasked>>
    BY <1>12 DEF Boot
  <2> QED
    BY <1>q, <2>1 DEF TellInv
<1>13. CASE PowerLost
  <2>1. unasked' = TRUE /\ toBoard' = <<>>
    BY <1>13 DEF PowerLost
  <2>2. Asked(<<>>)
    BY DEF Asked
  <2> QED
    BY <2>1, <2>2 DEF TellInv
\* The handlers: what they take, and what they answer.
<1>14. ASSUME NEW id, Receive(id)
       PROVE  /\ on /\ on' = on /\ toBoard # <<>> /\ toBoard' = Tail(toBoard)
              /\ UNCHANGED <<panel, fresh>> /\ Head(toBoard).id = id
              /\ Asked(toBoard')
              /\ id \in Changing => AskPending(toBoard')
              /\ AskPending(toBoard) /\ Head(toBoard) # Get => AskPending(toBoard')
  <2>1. /\ on /\ on' = on /\ toBoard # <<>> /\ toBoard' = Tail(toBoard)
        /\ UNCHANGED <<panel, fresh>> /\ Head(toBoard).id = id
    BY <1>14 DEF Receive
  <2> QED
    BY <1>q, <2>1, AskedTail
<1>15. CASE RecvFilterParam \/ RecvMotorParameters \/ RecvMessPerSecond \/ RecvStartStopMeasure
  <2>1. PICK id \in Changing : Receive(id)
    BY <1>15 DEF RecvFilterParam, RecvMotorParameters, RecvMessPerSecond, RecvStartStopMeasure,
                 Changing
  <2> QED
    BY <2>1, <1>14 DEF TellInv
<1>16. CASE RecvGetTachoStates
  <2>1. Receive("GetTachoStates") /\ lib' = lib /\ up' = [up EXCEPT !.size = lib]
        /\ toHost' = toHost \o <<[id |-> "TachoStates", states |-> Report]>>
    BY <1>16 DEF RecvGetTachoStates, Reply
  <2>2. Report' = Report
    <3>1. up \in Images
      BY DEF TypeOK
    <3>2. up'.motor = up.motor /\ up'.ticks = up.ticks /\ up'.run = up.run
      BY <2>1, <3>1 DEF Images
    <3> QED
      BY <2>1, <3>2 DEF Report
  <2>3. LastStates(toHost', Report)
    BY <1>q, <2>1, ReportType, StatesAppend
  <2> QED
    BY <1>14, <2>1, <2>2, <2>3 DEF TellInv, Told
<1>17. CASE RecvEeprom
  <2>1. Receive("Eeprom") /\ Head(toBoard) # Get
    BY <1>17 DEF RecvEeprom, Receive, Get
  <2>2. CASE Head(toBoard).command = "Load"
    <3>1. unasked' = TRUE
      BY <1>17, <2>2 DEF RecvEeprom
    <3> QED
      BY <1>14, <2>1, <3>1 DEF TellInv
  <2>3. CASE Head(toBoard).command # "Load"
    <3>1. UNCHANGED <<up, lib, unasked>> /\ (toHost' = toHost \o <<>> \/ toHost' = toHost \o <<TachoError>>)
      BY <1>17, <2>3 DEF RecvEeprom, Reply
    <3>2. toHost' = toHost \/ toHost' = toHost \o <<TachoError>>
      BY <1>q, <3>1
    <3>3. Report' = Report
      BY <3>1 DEF Report
    <3>4. UNCHANGED <<panel, fresh>>
      BY <2>1, <1>14
    <3>5. ASSUME Told PROVE Told'
      BY <1>q, <3>2, <3>3, <3>4, <3>5, StatesAppend DEF Told
    <3> QED
      BY <1>14, <2>1, <3>1, <3>5 DEF TellInv
  <2> QED
    BY <2>2, <2>3
<1> QED
  BY <1>3, <1>4, <1>5, <1>6, <1>7, <1>8, <1>9, <1>10, <1>11, <1>12, <1>13, <1>15, <1>16, <1>17
  DEF Next, HostStep, BoardStep

(* Once the lines are quiet, a panel that holds an answer shows the settings *)
(* the board has: no order of clicks, answers, errors and resets leaves an   *)
(* old one there unnoticed.                                                  *)
THEOREM ShownSafe == Spec => []ShownIsTrue
<1> DEFINE Inv == TypeOK /\ TellInv
<1>1. Init => Inv
  <2> SUFFICES ASSUME Init PROVE Inv
    OBVIOUS
  <2>1. toBoard = <<>> /\ unasked = TRUE
    BY DEF Init
  <2> QED
    BY <2>1, TypeInit DEF TellInv, Asked
<1>2. Inv /\ [Next]_vars => Inv'
  BY TypeStep, TellStep
<1>3. Inv => ShownIsTrue
  BY DEF TellInv, Told, ShownIsTrue, Quiet, LastStates, AskPending
<1> QED
  BY <1>1, <1>2, <1>3, PTL DEF Spec

-----------------------------------------------------------------------------
\* What is left of a click's commands when the first one is taken, and when a
\* question is added.
LEMMA GetsTail ==
    ASSUME NEW q \in Seq(Commands), q # <<>>, OnlyGets(q, 0)
    PROVE  Head(q) = Get /\ OnlyGets(Tail(q), 0)
<1>1. 1 \in 0+1..Len(q) /\ q[1] = Head(q)
  BY TailOf
<1>2. ASSUME NEW j \in 0+1..Len(Tail(q)) PROVE Tail(q)[j] = Get
  <2>1. j + 1 \in 0+1..Len(q) /\ Tail(q)[j] = q[j + 1]
    BY TailOf
  <2> QED
    BY <2>1 DEF OnlyGets
<1> QED
  BY <1>1, <1>2 DEF OnlyGets

LEMMA StartTail ==
    ASSUME NEW q \in Seq(Commands), q # <<>>, NEW k \in 1..Len(q), StartAt(q, k)
    PROVE  /\ k = 1 => Head(q) = StartRun /\ OnlyGets(Tail(q), 0)
           /\ k > 1 => StartAt(Tail(q), k - 1)
<1>1. q[1] = Head(q)
  BY TailOf
<1>2. OnlyGets(Tail(q), k - 1)
  <2> SUFFICES ASSUME NEW j \in (k-1)+1..Len(Tail(q)) PROVE Tail(q)[j] = Get
    BY DEF OnlyGets
  <2>1. j + 1 \in k+1..Len(q) /\ j \in 1..Len(Tail(q))
    BY TailOf
  <2> QED
    BY <2>1, TailOf DEF StartAt, OnlyGets
<1>3. CASE k = 1
  BY <1>1, <1>2, <1>3 DEF StartAt
<1>4. CASE k > 1
  <2>1. k - 1 \in 1..Len(Tail(q)) /\ Tail(q)[k - 1] = StartRun
    BY <1>4, TailOf DEF StartAt
  <2> QED
    BY <1>2, <1>4, <2>1 DEF StartAt
<1> QED
  BY <1>3, <1>4

LEMMA RateTail ==
    ASSUME NEW q \in Seq(Commands), q # <<>>, NEW w, NEW k \in 1..Len(q), RateAt(q, k, w)
    PROVE  /\ k = 2 => Head(q) = WantsRate(w) /\ StartAt(Tail(q), 1)
           /\ k # 2 => RateAt(Tail(q), k - 1, w)
<1>1. k > 1 /\ StartAt(q, k) /\ q[k - 1] = WantsRate(w)
  BY DEF RateAt
<1>2. StartAt(Tail(q), k - 1)
  BY <1>1, StartTail
<1>3. CASE k = 2
  BY <1>1, <1>2, <1>3, TailOf
<1>4. CASE k # 2
  <2>1. k - 1 \in 2..Len(Tail(q)) /\ (k - 1) - 1 \in 1..Len(Tail(q)) /\ Tail(q)[(k - 1) - 1] = q[k - 1]
    BY <1>1, <1>4, TailOf DEF StartAt
  <2> QED
    BY <1>1, <1>2, <1>4, <2>1 DEF RateAt
<1> QED
  BY <1>3, <1>4

LEMMA MotorTail ==
    ASSUME NEW q \in Seq(Commands), q # <<>>, NEW w, NEW k \in 1..Len(q), MotorAt(q, k, w)
    PROVE  \/ Head(q) = WantsMotor(w) /\ RateAt(Tail(q), 2, w)
           \/ \E j \in 1..Len(Tail(q)) : MotorAt(Tail(q), j, w)
<1>1. k > 2 /\ RateAt(q, k, w) /\ q[k - 2] = WantsMotor(w)
  BY DEF MotorAt
<1>2. RateAt(Tail(q), k - 1, w)
  BY <1>1, RateTail
<1>3. CASE k = 3
  BY <1>1, <1>2, <1>3, TailOf
<1>4. CASE k # 3
  <2>1. /\ k - 1 \in 3..Len(Tail(q)) /\ k - 1 \in 1..Len(Tail(q))
        /\ (k - 1) - 2 \in 1..Len(Tail(q)) /\ Tail(q)[(k - 1) - 2] = q[k - 2]
    BY <1>1, <1>4, TailOf
  <2> QED
    BY <1>1, <1>2, <2>1 DEF MotorAt
<1> QED
  BY <1>3, <1>4

LEMMA QuestionAppended ==
    ASSUME NEW q \in Seq(Commands), NEW w
    PROVE  /\ OnlyGets(q, 0) => OnlyGets(q \o <<Get>>, 0)
           /\ \A k \in 1..Len(q) : StartAt(q, k) => StartAt(q \o <<Get>>, k)
           /\ \A k \in 1..Len(q) : RateAt(q, k, w) => RateAt(q \o <<Get>>, k, w)
           /\ \A k \in 1..Len(q) : MotorAt(q, k, w) => MotorAt(q \o <<Get>>, k, w)
           /\ 1..Len(q) \subseteq 1..Len(q \o <<Get>>)
<1>1. PICK a \in Commands : a = Get
  BY DEF Commands, Get
<1> DEFINE p == q \o <<a>>
<1>2. /\ Len(q) \in Nat /\ Len(p) = Len(q) + 1 /\ p[Len(q) + 1] = Get
      /\ \A i \in 1..Len(q) : p[i] = q[i]
  BY <1>1
<1> HIDE DEF p
<1>3. ASSUME NEW k \in 0..Len(q), OnlyGets(q, k) PROVE OnlyGets(p, k)
  BY <1>2, <1>3 DEF OnlyGets
<1>4. ASSUME NEW k \in 1..Len(q), StartAt(q, k) PROVE StartAt(p, k)
  <2>1. k \in 1..Len(p) /\ p[k] = q[k] /\ OnlyGets(p, k)
    BY <1>2, <1>3, <1>4 DEF StartAt
  <2> QED
    BY <1>4, <2>1 DEF StartAt
<1>5. ASSUME NEW k \in 1..Len(q), RateAt(q, k, w) PROVE RateAt(p, k, w)
  <2>1. k \in 2..Len(p) /\ p[k - 1] = q[k - 1] /\ StartAt(p, k)
    BY <1>2, <1>4, <1>5 DEF RateAt
  <2> QED
    BY <1>5, <2>1 DEF RateAt
<1>6. ASSUME NEW k \in 1..Len(q), MotorAt(q, k, w) PROVE MotorAt(p, k, w)
  <2>1. k \in 3..Len(p) /\ p[k - 2] = q[k - 2] /\ RateAt(p, k, w)
    BY <1>2, <1>5, <1>6 DEF MotorAt
  <2> QED
    BY <1>6, <2>1 DEF MotorAt
<1>7. 0 \in 0..Len(q) /\ 1..Len(q) \subseteq 1..Len(p)
  BY <1>2
<1> QED
  BY <1>1, <1>3, <1>4, <1>5, <1>6, <1>7 DEF p

\* The commands of a click on Run, whatever is on the line before them.
LEMMA RunAppended ==
    ASSUME TypeOK, NEW q \in Seq(Commands), NEW w,
           w = [motor |-> panel.motor, rate |-> panel.rate]
    PROVE  \E k \in 1..Len(q \o RunMessages) : MotorAt(q \o RunMessages, k, w)
<1>1. panel.size \in Nat /\ panel.motor \in Motors /\ panel.rate \in Nat
  BY DEF TypeOK, States
<1>2. /\ RunMessages \in Seq(Commands) /\ Len(RunMessages) = 5
      /\ RunMessages[2] = WantsMotor(w) /\ RunMessages[3] = WantsRate(w)
      /\ RunMessages[4] = StartRun /\ RunMessages[5] = Get
  <2>1. RunMessages \in Seq(Commands)
    BY <1>1 DEF RunMessages, Get, Commands
  <2>2. Len(RunMessages) = 5
    BY DEF RunMessages
  <2>3. WantsMotor(w) = [id |-> "MotorParameters", motor |-> panel.motor]
    BY DEF WantsMotor
  <2>4. WantsRate(w) = [id |-> "MessPerSecond", rate |-> panel.rate]
    BY DEF WantsRate
  <2>5. RunMessages[2] = WantsMotor(w) /\ RunMessages[3] = WantsRate(w)
    BY <2>3, <2>4 DEF RunMessages
  <2>6. RunMessages[4] = StartRun /\ RunMessages[5] = Get
    BY DEF RunMessages, StartRun
  <2> QED
    BY <2>1, <2>2, <2>5, <2>6
<1>3. PICK p : p = q \o RunMessages
  OBVIOUS
<1>4. PICK n : n = Len(q)
  OBVIOUS
<1>5. /\ n \in Nat /\ Len(p) = n + 5
      /\ p[n + 2] = WantsMotor(w) /\ p[n + 3] = WantsRate(w)
      /\ p[n + 4] = StartRun /\ p[n + 5] = Get
  <2>1. n \in Nat /\ Len(p) = n + Len(RunMessages)
    BY <1>2, <1>3, <1>4, AppendOf
  <2>2. \A i \in 1..Len(RunMessages) : p[n + i] = RunMessages[i]
    <3>1. PICK ms \in Seq(Commands) : ms = RunMessages
      BY <1>2
    <3>2. \A i \in 1..Len(ms) : (q \o ms)[Len(q) + i] = ms[i]
      BY AppendOf
    <3> QED
      BY <1>3, <1>4, <3>1, <3>2
  <2>3. {2, 3, 4, 5} \subseteq 1..Len(RunMessages)
    BY <1>2
  <2> QED
    BY <1>2, <2>1, <2>2, <2>3
<1> DEFINE k == n + 4
<1>6. /\ k \in 1..Len(p) /\ k \in 2..Len(p) /\ k \in 3..Len(p)
      /\ k - 1 = n + 3 /\ k - 2 = n + 2
      /\ \A j \in k+1..Len(p) : j = n + 5
  BY <1>5
<1> HIDE DEF k
<1>7. p[k] = StartRun /\ p[k - 1] = WantsRate(w) /\ p[k - 2] = WantsMotor(w) /\ OnlyGets(p, k)
  BY <1>5, <1>6 DEF OnlyGets, k
<1>8. MotorAt(p, k, w)
  BY <1>6, <1>7 DEF MotorAt, RateAt, StartAt
<1> QED
  BY <1>3, <1>6, <1>8

\* An answer taken or added: a complaint stays one.
LEMMA ComplaintTail ==
    ASSUME NEW q \in Seq(Answers), q # <<>>, NEW i \in 1..Len(q), q[i] = TachoError
    PROVE  Head(q) = TachoError \/ \E j \in 1..Len(Tail(q)) : Tail(q)[j] = TachoError
<1>1. CASE i = 1
  BY <1>1, TailOf
<1>2. CASE i # 1
  <2>1. i - 1 \in 1..Len(Tail(q)) /\ Tail(q)[i - 1] = q[i]
    BY <1>2, TailOf
  <2> QED
    BY <2>1
<1> QED
  BY <1>1, <1>2

LEMMA ComplaintAppend ==
    ASSUME NEW q \in Seq(Answers), NEW p \in Seq(Answers)
    PROVE  /\ (\E i \in 1..Len(q) : q[i] = TachoError) =>
                (\E i \in 1..Len(q \o p) : (q \o p)[i] = TachoError)
           /\ \E i \in 1..Len(q \o <<TachoError>>) : (q \o <<TachoError>>)[i] = TachoError
<1>1. ASSUME NEW i \in 1..Len(q), q[i] = TachoError
      PROVE  i \in 1..Len(q \o p) /\ (q \o p)[i] = TachoError
  BY <1>1, AppendOf
<1>2. PICK a \in Answers : a = TachoError
  BY DEF Answers, TachoError
<1>3. Len(q) + 1 \in 1..Len(q \o <<a>>) /\ (q \o <<a>>)[Len(q) + 1] = a
  OBVIOUS
<1> QED
  BY <1>1, <1>2, <1>3

LEMMA ClickStep == TypeOK /\ ClickInv /\ [Next]_vars => ClickInv'
<1> DEFINE Stage == Coming \/ Halfway \/ Starting \/ Started
<1> SUFFICES ASSUME TypeOK, ClickInv, [Next]_vars, wanted' # NotWanted
             PROVE  on' /\ (Complaint' \/ Stage')
  BY DEF ClickInv
<1> USE DEF host, lines, board, hist
<1>q. toBoard \in Seq(Commands) /\ toHost \in Seq(Answers) /\ up \in Images
  BY DEF TypeOK
<1>c. wanted # NotWanted => on /\ (Complaint \/ Stage)
  BY DEF ClickInv
\* What an answer added to the line does to the claim.
<1>a. ASSUME err' = err, NEW p \in Seq(Answers), toHost' = toHost \o p, Complaint
      PROVE  Complaint'
  BY <1>a, <1>q, ComplaintAppend DEF Complaint
<1>b. ASSUME err' = err, toHost' = toHost \o <<TachoError>>
      PROVE  Complaint'
  BY <1>b, <1>q, ComplaintAppend DEF Complaint
\* A step that leaves the line and the settings alone.
<1>d. ASSUME UNCHANGED <<toBoard, up, session, wanted>>, Stage
      PROVE  Stage'
  BY <1>d DEF Coming, Halfway, Starting, Started, TakenMotor, TakenRate
<1>2. CASE UNCHANGED vars \/ Edit \/ HostSkipRpms
  <2>1. UNCHANGED <<err, toBoard, toHost, on, up, session, wanted>>
    BY <1>2 DEF vars, Edit, HostSkipRpms
  <2>2. Complaint => Complaint'
    BY <2>1 DEF Complaint
  <2> HIDE DEF Stage
  <2> QED
    BY <1>c, <1>d, <2>1, <2>2
<1>3. CASE Hello
  <2>1. UNCHANGED <<err, toHost, on, up, session, wanted>>
    BY <1>3 DEF Hello, Send
  <2>2. on /\ toBoard' = toBoard \o <<Get>>
    BY <1>3, <1>c, <2>1 DEF Hello, Send
  <2>3. Complaint => Complaint'
    BY <2>1 DEF Complaint
  <2>4. ASSUME Stage PROVE Stage'
    <3>1. Coming => Coming'
      BY <1>q, <2>1, <2>2, QuestionAppended DEF Coming
    <3>2. Halfway => Halfway'
      <4>1. RateAt(toBoard, 2, wanted) => 2 \in 1..Len(toBoard)
        BY <1>q DEF RateAt
      <4> QED
        BY <4>1, <1>q, <2>1, <2>2, QuestionAppended DEF Halfway, TakenMotor
    <3>3. Starting => Starting'
      <4>1. StartAt(toBoard, 1) => 1 \in 1..Len(toBoard)
        BY DEF StartAt
      <4> QED
        BY <4>1, <1>q, <2>1, <2>2, QuestionAppended DEF Starting, TakenMotor, TakenRate
    <3>4. Started => Started'
      BY <1>q, <2>1, <2>2, QuestionAppended DEF Started, TakenMotor, TakenRate
    <3> QED
      BY <2>4, <3>1, <3>2, <3>3, <3>4
  <2> HIDE DEF Stage
  <2> QED
    BY <1>c, <2>1, <2>2, <2>3, <2>4
<1>4. CASE ClickStop \/ ClickEeprom \/ HostSkip \/ PowerLost
  BY <1>4 DEF ClickStop, Click, ClickEeprom, HostSkip, PowerLost
<1>5. CASE ClickRun
  <2>1. on' = on /\ Send(RunMessages)
    BY <1>5 DEF ClickRun, Click, Send
  <2>2. on /\ wanted' = [motor |-> panel.motor, rate |-> panel.rate]
    BY <1>5 DEF ClickRun, Click
  <2>3. toBoard' = toBoard \o RunMessages
    BY <2>1, <2>2 DEF Send
  <2>4. PICK w : w = wanted'
    OBVIOUS
  <2>5. \E k \in 1..Len(toBoard \o RunMessages) : MotorAt(toBoard \o RunMessages, k, w)
    BY <1>q, <2>2, <2>4, RunAppended
  <2>6. Coming'
    BY <2>3, <2>4, <2>5 DEF Coming
  <2> QED
    BY <2>1, <2>2, <2>6
<1>6. CASE HostRecv
  <2>1. /\ toHost # <<>> /\ toHost' = Tail(toHost)
        /\ UNCHANGED <<toBoard, on, up, session, wanted>>
    BY <1>6 DEF HostRecv
  <2>2. ASSUME Complaint PROVE Complaint'
    <3>1. CASE ShowError
      BY <3>1 DEF ShowError, Complaint
    <3>2. CASE ShowStates
      <4>1. err' = err /\ Head(toHost) # TachoError
        BY <3>2 DEF ShowStates, TachoError
      <4>2. CASE err
        BY <4>1, <4>2 DEF Complaint
      <4>3. CASE ~err
        <5>1. PICK i \in 1..Len(toHost) : toHost[i] = TachoError
          BY <2>2, <4>3 DEF Complaint
        <5> QED
          BY <1>q, <2>1, <4>1, <5>1, ComplaintTail DEF Complaint
      <4> QED
        BY <4>2, <4>3
    <3> QED
      BY <1>6, <3>1, <3>2 DEF HostRecv
  <2> HIDE DEF Stage
  <2> QED
    BY <1>c, <1>d, <2>1, <2>2
<1>7. CASE Boot
  <2>1. ~on /\ wanted' = wanted
    BY <1>7 DEF Boot
  <2> HIDE DEF Stage
  <2> QED
    BY <1>c, <2>1
\* The handlers: the first command is gone.
<1>8. ASSUME NEW id, Receive(id)
      PROVE  /\ on' /\ toBoard # <<>> /\ toBoard' = Tail(toBoard) /\ Head(toBoard).id = id
             /\ err' = err /\ wanted' = wanted /\ (Complaint \/ Stage)
  <2>1. /\ on' = on /\ on /\ toBoard # <<>> /\ toBoard' = Tail(toBoard)
        /\ Head(toBoard).id = id /\ err' = err /\ wanted' = wanted
    BY <1>8 DEF Receive
  <2> HIDE DEF Stage
  <2> QED
    BY <1>c, <2>1
\* Where that leaves the click.
<1>9. ASSUME NEW id, Receive(id)
      PROVE  /\ Coming => Coming' \/ (Head(toBoard) = WantsMotor(wanted) /\ RateAt(toBoard, 2, wanted)')
             /\ RateAt(toBoard, 2, wanted) => Head(toBoard) = WantsRate(wanted) /\ StartAt(toBoard, 1)'
             /\ StartAt(toBoard, 1) => Head(toBoard) = StartRun /\ OnlyGets(toBoard, 0)'
             /\ OnlyGets(toBoard, 0) => Head(toBoard) = Get /\ OnlyGets(toBoard, 0)'
  <2>1. toBoard # <<>> /\ toBoard' = Tail(toBoard) /\ wanted' = wanted
    BY <1>9 DEF Receive
  <2>2. ASSUME Coming
        PROVE  Coming' \/ (Head(toBoard) = WantsMotor(wanted) /\ RateAt(toBoard, 2, wanted)')
    <3>1. PICK k \in 1..Len(toBoard) : MotorAt(toBoard, k, wanted)
      BY <2>2 DEF Coming
    <3>2. \/ Head(toBoard) = WantsMotor(wanted) /\ RateAt(Tail(toBoard), 2, wanted)
          \/ \E j \in 1..Len(Tail(toBoard)) : MotorAt(Tail(toBoard), j, wanted)
      BY <1>q, <2>1, <3>1, MotorTail
    <3> QED
      BY <2>1, <3>2 DEF Coming
  <2>3. ASSUME RateAt(toBoard, 2, wanted)
        PROVE  Head(toBoard) = WantsRate(wanted) /\ StartAt(toBoard, 1)'
    <3>1. 2 \in 1..Len(toBoard)
      BY <1>q, <2>3 DEF RateAt
    <3>2. Head(toBoard) = WantsRate(wanted) /\ StartAt(Tail(toBoard), 1)
      BY <1>q, <2>1, <2>3, <3>1, RateTail
    <3> QED
      BY <2>1, <3>2
  <2>4. ASSUME StartAt(toBoard, 1)
        PROVE  Head(toBoard) = StartRun /\ OnlyGets(toBoard, 0)'
    <3>1. 1 \in 1..Len(toBoard)
      BY <2>4 DEF StartAt
    <3> QED
      BY <1>q, <2>1, <2>4, <3>1, StartTail
  <2>5. ASSUME OnlyGets(toBoard, 0)
        PROVE  Head(toBoard) = Get /\ OnlyGets(toBoard, 0)'
    BY <1>q, <2>1, <2>5, GetsTail
  <2> QED
    BY <2>2, <2>3, <2>4, <2>5
\* A command that is none of a click's, or the parameters or the rate of another
\* click: those of this one are still to come.
<1>e. <<>> \in Seq(Answers) /\ <<TachoError>> \in Seq(Answers) /\ toHost \o <<>> = toHost
  BY <1>q DEF Answers, TachoError
<1>10. CASE RecvFilterParam
  <2>1. Receive("FilterParam") /\ toHost' = toHost \o <<>>
    BY <1>10, <1>e DEF RecvFilterParam
  <2>2. Head(toBoard).id = "FilterParam"
    BY <1>8, <2>1
  <2>3. Stage => Coming'
    BY <1>9, <2>1, <2>2 DEF Halfway, Starting, Started, WantsMotor, WantsRate, StartRun, Get
  <2> HIDE DEF Stage
  <2>4. Complaint => Complaint'
    BY <1>8, <1>a, <1>e, <2>1
  <2> QED
    BY <1>8, <2>1, <2>3, <2>4 DEF Stage
<1>11. CASE RecvEeprom
  <2>1. Receive("Eeprom")
    BY <1>11 DEF RecvEeprom
  <2>2. PICK p \in Seq(Answers) : toHost' = toHost \o p
    BY <1>11, <1>e DEF RecvEeprom, Reply
  <2>3. Head(toBoard).id = "Eeprom"
    BY <1>8, <2>1
  <2>4. Stage => Coming'
    BY <1>9, <2>1, <2>3 DEF Halfway, Starting, Started, WantsMotor, WantsRate, StartRun, Get
  <2> HIDE DEF Stage
  <2>5. Complaint => Complaint'
    BY <1>8, <1>a, <2>1, <2>2
  <2> QED
    BY <1>8, <2>1, <2>4, <2>5 DEF Stage
<1>12. CASE RecvMotorParameters
  <2>1. Receive("MotorParameters") /\ session' = session
    BY <1>12 DEF RecvMotorParameters
  <2>2. CASE up.run = "Stop"
    <3>1. toHost' = toHost \o <<>> /\ up' = [up EXCEPT !.motor = Head(toBoard).motor]
      BY <1>12, <2>2 DEF RecvMotorParameters, Reply
    <3>2. up'.run = "Stop" /\ up'.motor = Head(toBoard).motor
      BY <1>q, <2>2, <3>1 DEF Images
    <3>3. Head(toBoard).id = "MotorParameters" /\ wanted' = wanted
      BY <1>8, <2>1
    <3>4. Coming => Coming' \/ Halfway'
      <4>1. Head(toBoard) = WantsMotor(wanted) => up'.motor = wanted.motor
        BY <3>2 DEF WantsMotor
      <4> QED
        BY <1>9, <2>1, <3>2, <3>3, <4>1 DEF Halfway, TakenMotor
    <3>5. Stage => Stage'
      BY <1>9, <2>1, <3>3, <3>4 DEF Halfway, Starting, Started, WantsRate, StartRun, Get
    <3> HIDE DEF Stage
    <3>6. Complaint => Complaint'
      BY <1>8, <1>a, <1>e, <2>1, <3>1
    <3> QED
      BY <1>8, <2>1, <3>5, <3>6
  <2>3. CASE up.run # "Stop"
    <3>1. toHost' = toHost \o <<TachoError>>
      BY <1>12, <2>3 DEF RecvMotorParameters, Reply
    <3> HIDE DEF Stage
    <3> QED
      BY <1>8, <2>1, <3>1, <1>b
  <2> QED
    BY <2>2, <2>3
<1>13. CASE RecvMessPerSecond
  <2>1. Receive("MessPerSecond") /\ session' = session
    BY <1>13 DEF RecvMessPerSecond
  <2>2. CASE ~ValidRate(Head(toBoard).rate)
    <3>1. toHost' = toHost \o <<TachoError>>
      BY <1>13, <2>2 DEF RecvMessPerSecond, Reply
    <3> HIDE DEF Stage
    <3> QED
      BY <1>8, <2>1, <3>1, <1>b
  <2>3. CASE ValidRate(Head(toBoard).rate)
    <3>1. /\ toHost' = toHost \o <<>>
          /\ up' = [up EXCEPT !.ticks = Ticks(Head(toBoard).rate)]
      BY <1>13, <2>3 DEF RecvMessPerSecond, Reply
    <3>2. up'.run = up.run /\ up'.motor = up.motor /\ up'.ticks = Ticks(Head(toBoard).rate)
      <4> HIDE DEF Ticks
      <4> QED
        BY <1>q, <3>1 DEF Images
    <3>3. Head(toBoard).id = "MessPerSecond" /\ wanted' = wanted
      BY <1>8, <2>1
    <3>4. Coming => Coming'
      BY <1>9, <2>1, <3>3 DEF WantsMotor
    <3>5. Halfway => Starting'
      <4>1. ASSUME Head(toBoard) = WantsRate(wanted) PROVE TakenRate'
        <5>1. Head(toBoard).rate = wanted.rate
          BY <4>1 DEF WantsRate
        <5> HIDE DEF Ticks, ValidRate
        <5> QED
          BY <2>3, <3>2, <3>3, <5>1 DEF TakenRate
      <4> QED
        BY <1>9, <2>1, <3>2, <3>3, <4>1 DEF Halfway, Starting, TakenMotor
    <3>6. ~Starting /\ ~Started
      BY <1>9, <2>1, <3>3 DEF Starting, Started, StartRun, Get
    <3>7. Stage => Stage'
      BY <3>4, <3>5, <3>6
    <3> HIDE DEF Stage
    <3>8. Complaint => Complaint'
      BY <1>8, <1>a, <1>e, <2>1, <3>1
    <3> QED
      BY <1>8, <2>1, <3>7, <3>8
  <2> QED
    BY <2>2, <2>3
<1>14. CASE RecvStartStopMeasure
  <2>1. /\ Receive("StartStopMeasure")
        /\ up' = [up EXCEPT !.run = Head(toBoard).run]
    BY <1>14 DEF RecvStartStopMeasure
  <2>2. PICK p \in Seq(Answers) : toHost' = toHost \o p
    BY <1>14, <1>e DEF RecvStartStopMeasure, StartStreaming, Reply
  <2>3. /\ up'.motor = up.motor /\ up'.ticks = up.ticks
        /\ Head(toBoard).id = "StartStopMeasure" /\ wanted' = wanted
    BY <1>8, <1>q, <2>1 DEF Images
  <2>4. Coming => Coming'
    BY <1>9, <2>1, <2>3 DEF WantsMotor
  <2>5. ~Halfway /\ ~Started
    BY <1>9, <2>1, <2>3 DEF Halfway, Started, WantsRate, Get
  <2>6. Starting => Complaint' \/ Started'
    <3> SUFFICES ASSUME Starting PROVE Complaint' \/ Started'
      OBVIOUS
    <3>1. Head(toBoard) = StartRun /\ OnlyGets(toBoard, 0)' /\ up.run = "Stop"
      BY <1>9, <2>1 DEF Starting
    <3>2. StartStreaming(up)
      BY <1>14, <3>1 DEF RecvStartStopMeasure, StartRun
    <3>3. session' = up.motor \/ toHost' = toHost \o <<TachoError>>
      BY <3>2 DEF StartStreaming, Reply
    <3>4. err' = err
      BY <1>8, <2>1
    <3>5. TakenMotor' /\ TakenRate' /\ up.motor = wanted.motor
      BY <2>3 DEF Starting, TakenMotor, TakenRate
    <3> QED
      BY <1>b, <2>3, <3>1, <3>3, <3>4, <3>5 DEF Started
  <2>7. Stage => Complaint' \/ Stage'
    BY <2>4, <2>5, <2>6
  <2> HIDE DEF Stage
  <2>8. Complaint => Complaint'
    BY <1>8, <1>a, <2>1, <2>2
  <2> QED
    BY <1>8, <2>1, <2>7, <2>8
<1>15. CASE RecvGetTachoStates
  <2>1. Receive("GetTachoStates") /\ session' = session /\ up' = [up EXCEPT !.size = lib]
    BY <1>15 DEF RecvGetTachoStates
  <2>2. PICK p \in Seq(Answers) : toHost' = toHost \o p
    <3>1. PICK a \in Answers : a = [id |-> "TachoStates", states |-> Report]
      BY ReportType DEF Answers
    <3>2. <<a>> \in Seq(Answers) /\ toHost' = toHost \o <<a>>
      BY <1>15, <3>1 DEF RecvGetTachoStates, Reply
    <3> QED
      BY <3>2
  <2>3. /\ up'.motor = up.motor /\ up'.ticks = up.ticks
        /\ Head(toBoard).id = "GetTachoStates" /\ wanted' = wanted
    BY <1>8, <1>q, <2>1 DEF Images
  <2>4. Coming => Coming'
    BY <1>9, <2>1, <2>3 DEF WantsMotor
  <2>5. ~Halfway /\ ~Starting
    BY <1>9, <2>1, <2>3 DEF Halfway, Starting, WantsRate, StartRun
  <2>6. Started => Started'
    BY <1>9, <2>1, <2>3 DEF Started, TakenMotor, TakenRate
  <2>7. Stage => Stage'
    BY <2>4, <2>5, <2>6
  <2> HIDE DEF Stage
  <2>8. Complaint => Complaint'
    BY <1>8, <1>a, <2>1, <2>2
  <2> QED
    BY <1>8, <2>1, <2>7, <2>8
<1> HIDE DEF Stage
<1> QED
  BY <1>2, <1>3, <1>4, <1>5, <1>6, <1>7, <1>10, <1>11, <1>12, <1>13, <1>14, <1>15
  DEF Next, HostStep, BoardStep

(* A click on Run is obeyed, or an error message is on the panel: a refusal  *)
(* of the motor parameters, of the rate or of the start does not go          *)
(* unnoticed, whatever was on the lines before, and for every set of         *)
(* parameters, rates and filter sizes.                                       *)
THEOREM RefusalSafe == Spec => []RefusalTold
<1> DEFINE Inv == TypeOK /\ ClickInv
<1>1. Init => Inv
  BY TypeInit DEF Init, ClickInv
<1>2. Inv /\ [Next]_vars => Inv'
  BY TypeStep, ClickStep
<1>3. Inv => RefusalTold
  <2> SUFFICES ASSUME ClickInv, Quiet, wanted # NotWanted, ~err
               PROVE  session = wanted.motor /\ TakenMotor /\ TakenRate
    BY DEF RefusalTold, TakenMotor, TakenRate
  <2>1. toBoard = <<>> /\ toHost = <<>>
    BY DEF Quiet
  <2>2. ~Complaint
    BY <2>1 DEF Complaint
  <2>3. ~Coming /\ ~Halfway /\ ~Starting
    BY <2>1 DEF Coming, Halfway, Starting, RateAt, StartAt
  <2> QED
    BY <2>2, <2>3 DEF ClickInv, Started
<1> QED
  BY <1>1, <1>2, <1>3, PTL DEF Spec

-----------------------------------------------------------------------------
(* The checksum of the frames: fletcher16() as a recursion over sets of      *)
(* places.                                                                   *)

(* Induction over the subsets of a finite set, by the smallest one that is  *)
(* an exception.                                                            *)
LEMMA SmallestSubset ==
  ASSUME NEW S, IsFiniteSet(S), NEW B, B \subseteq SUBSET S, B # {}
  PROVE  \E T \in B : \A U \in B : ~(U \subseteq T /\ U # T)
<1>1. IsWellFoundedOn(StrictSubsetOrdering(S), SUBSET S)
  BY FS_StrictSubsetOrderingWellFounded, FS_FiniteSubsetsOfFinite
<1>2. PICK T \in B : \A U \in B : ~(<<U, T>> \in StrictSubsetOrdering(S))
  BY <1>1, WFMin
<1> QED
  BY <1>2 DEF StrictSubsetOrdering

(* A finite set of naturals has its maximum in it.                          *)
LEMMA MaxIn ==
  ASSUME NEW S \in SUBSET Nat, IsFiniteSet(S), S # {}
  PROVE  Max(S) \in S
<1> DEFINE HasMax(T) == \E x \in T : \A y \in T : x >= y
           B == {T \in SUBSET S : T # {} /\ ~HasMax(T)}
<1>1. SUFFICES HasMax(S)
  BY DEF Max
<1>2. SUFFICES ASSUME B # {} PROVE FALSE
  OBVIOUS
<1>3. PICK T \in B : \A U \in B : ~(U \subseteq T /\ U # T)
  <2>1. PICK F : F = S
    OBVIOUS
  <2>2. B \subseteq SUBSET F /\ IsFiniteSet(F)
    BY <2>1
  <2> HIDE DEF B
  <2> QED
    BY <1>2, <2>2, SmallestSubset
<1>4. PICK x \in T : x \in Nat
  OBVIOUS
<1>5. PICK U : U = T \ {x}
  OBVIOUS
<1>6. U # {}
  <2>1. ~HasMax(T) /\ x >= x
    BY <1>4
  <2> QED
    BY <1>5, <2>1
<1>7. HasMax(U)
  <2>1. U \in SUBSET S /\ U \subseteq T /\ U # T
    BY <1>4, <1>5
  <2> HIDE DEF HasMax
  <2> QED
    BY <1>3, <1>6, <2>1
<1>8. PICK z \in U : z \in Nat /\ \A y \in U : z >= y
  BY <1>5, <1>7
<1>9. \A y \in T : y \in Nat /\ (y = x \/ y \in U)
  BY <1>5
<1>10. \A y \in T : (IF x >= z THEN x ELSE z) >= y
  BY <1>4, <1>8, <1>9
<1>11. (IF x >= z THEN x ELSE z) \in T
  BY <1>5, <1>8
<1> QED
  BY <1>10, <1>11

\* The sums after one byte more.
Added(s, b) == <<(s[1] + b) % 255, (s[2] + ((s[1] + b) % 255)) % 255>>

\* g is the recursion of the fold over the places of p in the subsets of S.
IsFletcher(p, S, g) ==
    g = [s \in SUBSET S |-> IF s = {} THEN <<Len(p) % 255, Len(p) % 255>>
                                      ELSE Added(g[s \ {Max(s)}], p[Max(s)])]

(* fletcher16() is that recursion, if there is one.                         *)
LEMMA FletcherIs ==
  ASSUME NEW p, NEW g, IsFletcher(p, DOMAIN p, g)
  PROVE  \E h : IsFletcher(p, DOMAIN p, h) /\ Fletcher16(p) = h[DOMAIN p]
<1> DEFINE iter == CHOOSE h : IsFletcher(p, DOMAIN p, h)
<1>1. IsFletcher(p, DOMAIN p, iter)
  OBVIOUS
<1>2. Fletcher16(p) = iter[DOMAIN p]
  BY DEF Fletcher16, FoldLeft, MapThenFoldSet, IsFletcher, Added
<1> QED
  BY <1>1, <1>2

\* The two sums of a checksum.
Sums == (0..254) \X (0..254)

(* A remainder is below 255.                                                *)
LEMMA Mod255 == \A a \in Nat : a % 255 \in 0..254
  BY SMT

(* A byte more, and they are still two bytes below 255.                     *)
LEMMA AddedType ==
  ASSUME NEW s \in Sums, NEW b \in Nat
  PROVE  Added(s, b) \in Sums
<1>1. \A a \in Nat : a % 255 \in 0..254
  BY Mod255
<1>2. PICK a \in 0..254, c \in 0..254 : s = <<a, c>>
  <2>1. s[1] \in 0..254 /\ s[2] \in 0..254 /\ s = <<s[1], s[2]>>
    BY DEF Sums
  <2> QED
    BY <2>1, Zenon
<1>3. (a + b) % 255 \in 0..254
  <2>1. a + b \in Nat
    OBVIOUS
  <2> QED
    BY <1>1, <2>1
<1>4. (c + ((a + b) % 255)) % 255 \in 0..254
  <2>1. PICK k \in 0..254 : k = (a + b) % 255
    BY <1>3
  <2>2. c + k \in Nat
    OBVIOUS
  <2> QED
    BY <1>1, <2>1, <2>2
<1>5. Added(s, b) = <<(a + b) % 255, (c + ((a + b) % 255)) % 255>>
  BY <1>2 DEF Added
<1> QED
  BY <1>3, <1>4, <1>5 DEF Sums

\* The recursion, up to a set of places.
Sofar(p, S) == CHOOSE g : IsFletcher(p, S, g)

(* There is at most one such recursion,                                     *)
LEMMA FletcherUnique ==
  ASSUME NEW p, NEW S, NEW T, NEW g, NEW h, IsFletcher(p, S, g), IsFletcher(p, T, h),
         NEW U \in SUBSET Nat, U \subseteq S, U \subseteq T, IsFiniteSet(U)
  PROVE  g[U] = h[U]
<1> DEFINE B == {V \in SUBSET U : g[V] # h[V]}
<1>1. SUFFICES ASSUME B # {} PROVE FALSE
  OBVIOUS
<1>2. PICK V \in B : \A W \in B : ~(W \subseteq V /\ W # V)
  <2>1. PICK F : F = U
    OBVIOUS
  <2>2. B \subseteq SUBSET F /\ IsFiniteSet(F)
    BY <2>1
  <2> HIDE DEF B
  <2> QED
    BY <1>1, <2>2, SmallestSubset
<1> DEFINE W == V \ {Max(V)}
<1>3. /\ g[V] = IF V = {} THEN <<Len(p) % 255, Len(p) % 255>> ELSE Added(g[W], p[Max(V)])
      /\ h[V] = IF V = {} THEN <<Len(p) % 255, Len(p) % 255>> ELSE Added(h[W], p[Max(V)])
  BY DEF IsFletcher
<1>4. V # {} => W \in SUBSET U /\ W \subseteq V /\ W # V
  <2>1. V \in SUBSET Nat /\ IsFiniteSet(V)
    BY FS_Subset
  <2>2. V # {} => Max(V) \in V
    BY <2>1, MaxIn
  <2> QED
    BY <2>2
<1> HIDE DEF W
<1>5. V # {} => g[W] = h[W]
  BY <1>2, <1>4
<1> QED
  BY <1>2, <1>3, <1>5

(* and there is one.                                                        *)
LEMMA FletcherExists ==
  ASSUME NEW p, NEW S \in SUBSET Nat, IsFiniteSet(S)
  PROVE  \E g : IsFletcher(p, S, g)
<1> DEFINE B == {T \in SUBSET S : ~\E g : IsFletcher(p, T, g)}
<1>1. SUFFICES ASSUME B # {} PROVE FALSE
  OBVIOUS
<1>2. PICK T \in B : \A U \in B : ~(U \subseteq T /\ U # T)
  <2>1. PICK F : F = S
    OBVIOUS
  <2>2. B \subseteq SUBSET F /\ IsFiniteSet(F)
    BY <2>1
  <2> HIDE DEF B
  <2> QED
    BY <1>1, <2>2, SmallestSubset
<1>0. \A V \in SUBSET T : V # {} => V \ {Max(V)} \subseteq T /\ V \ {Max(V)} # T /\ Max(V) \in V
  <2>1. \A V \in SUBSET T : V \in SUBSET Nat /\ IsFiniteSet(V)
    BY FS_Subset
  <2>2. \A V \in SUBSET T : V # {} => Max(V) \in V
    BY <2>1, MaxIn
  <2> QED
    BY <2>2
<1> DEFINE start == <<Len(p) % 255, Len(p) % 255>>
           Val(V) == Sofar(p, V)[V]
           g == [s \in SUBSET T |-> IF s = {} THEN start ELSE Added(Val(s \ {Max(s)}), p[Max(s)])]
<1> HIDE DEF start
<1>3. ASSUME NEW V, V \subseteq T, V # T
      PROVE  IsFletcher(p, V, Sofar(p, V)) /\ IsFiniteSet(V) /\ V \in SUBSET Nat
  <2>1. V \in SUBSET S /\ V \notin B
    BY <1>2, <1>3
  <2> QED
    BY <2>1, FS_Subset DEF Sofar
<1>4. ASSUME NEW V, V \subseteq T, V # T PROVE Val(V) = g[V]
  <2> DEFINE W == V \ {Max(V)}
  <2>1. PICK h : h = Sofar(p, V) /\ IsFletcher(p, V, h)
    BY <1>3, <1>4
  <2>2. h[V] = IF V = {} THEN start ELSE Added(h[W], p[Max(V)])
    BY <2>1 DEF IsFletcher, start
  <2>3. V # {} => h[W] = Val(W)
    <3>1. W \subseteq V /\ W \subseteq T
      BY <1>4
    <3>2. V # {} => W # T
      BY <1>0, <1>4
    <3>3. V # {} => IsFletcher(p, W, Sofar(p, W)) /\ IsFiniteSet(W) /\ W \in SUBSET Nat
      BY <1>3, <3>1, <3>2
    <3> HIDE DEF W
    <3> QED
      BY <2>1, <3>1, <3>3, FletcherUnique
  <2>4. Val(V) = h[V]
    BY <2>1
  <2> HIDE DEF Val
  <2> QED
    BY <1>4, <2>2, <2>3, <2>4
<1>6. \A s \in SUBSET T : s # {} => Val(s \ {Max(s)}) = g[s \ {Max(s)}]
  <2> HIDE DEF Val, g
  <2> QED
    BY <1>0, <1>4
<1>7. IsFletcher(p, T, g)
  <2>1. g = [s \in SUBSET T |-> IF s = {} THEN start ELSE Added(g[s \ {Max(s)}], p[Max(s)])]
    <3>1. \A s \in SUBSET T : (IF s = {} THEN start ELSE Added(Val(s \ {Max(s)}), p[Max(s)]))
            = IF s = {} THEN start ELSE Added(g[s \ {Max(s)}], p[Max(s)])
      BY <1>6
    <3>2. g = [s \in SUBSET T |-> IF s = {} THEN start ELSE Added(Val(s \ {Max(s)}), p[Max(s)])]
      OBVIOUS
    <3> HIDE DEF g, Val
    <3> QED
      BY <3>1, <3>2, Zenon
  <2> HIDE DEF g
  <2> QED
    BY <2>1 DEF IsFletcher, start
<1> QED
  BY <1>2, <1>7

(* The checksum of bytes is two sums.                                        *)
LEMMA FletcherType ==
  ASSUME NEW p \in Seq(0..255)
  PROVE  Fletcher16(p) \in Sums
<1> DEFINE S == DOMAIN p
<1>1. S \in SUBSET Nat /\ IsFiniteSet(S) /\ \A i \in S : p[i] \in Nat
  <2>1. S = 1..Len(p) /\ Len(p) \in Nat /\ \A i \in 1..Len(p) : p[i] \in 0..255
    BY LenProperties, ElementOfSeq
  <2>2. IsFiniteSet(1..Len(p))
    BY <2>1, FS_Interval
  <2>3. 1..Len(p) \in SUBSET Nat /\ \A z \in 0..255 : z \in Nat
    BY <2>1
  <2> HIDE DEF S
  <2>4. S = 1..Len(p)
    BY <2>1 DEF S
  <2> QED
    BY <2>1, <2>2, <2>3, <2>4
<1> HIDE DEF S
<1>2. PICK g : IsFletcher(p, S, g) /\ Fletcher16(p) = g[S]
  <2>1. \E g : IsFletcher(p, S, g)
    BY <1>1, FletcherExists
  <2> QED
    BY <2>1, FletcherIs DEF S
<1> DEFINE B == {T \in SUBSET S : g[T] \notin Sums}
<1>3. SUFFICES ASSUME B # {} PROVE FALSE
  BY <1>2
<1>4. PICK T \in B : \A U \in B : ~(U \subseteq T /\ U # T)
  <2>1. PICK F : F = S
    OBVIOUS
  <2>2. B \subseteq SUBSET F /\ IsFiniteSet(F)
    BY <1>1, <2>1
  <2> HIDE DEF B
  <2> QED
    BY <1>3, <2>2, SmallestSubset
<1>5. T \in SUBSET S /\ g[T] \notin Sums
  OBVIOUS
<1>6. T = {} => g[T] \in Sums
  <2>1. Len(p) \in Nat
    BY LenProperties
  <2>2. Len(p) % 255 \in 0..254
    BY <2>1, Mod255
  <2>3. T = {} => g[T] = <<Len(p) % 255, Len(p) % 255>>
    BY <1>2, <1>5 DEF IsFletcher
  <2>4. \A z \in 0..254 : <<z, z>> \in Sums
    BY DEF Sums
  <2> QED
    BY <2>2, <2>3, <2>4, Zenon
<1>7. T # {} => Max(T) \in T
  BY <1>1, <1>5, MaxIn, FS_Subset
<1>8. T # {} => g[T] = Added(g[T \ {Max(T)}], p[Max(T)])
  BY <1>2, <1>5 DEF IsFletcher
<1>9. T # {} => g[T \ {Max(T)}] \in Sums
  BY <1>4, <1>5, <1>7
<1> HIDE DEF B
<1>10. T # {} => g[T] \in Sums
  BY <1>1, <1>5, <1>7, <1>8, <1>9, AddedType
<1> QED
  BY <1>5, <1>6, <1>10

-----------------------------------------------------------------------------
(* Frames, and the bytes of the line.                                        *)

(* A frame: five bytes more than its payload.                                *)
LEMMA FrameIs ==
  ASSUME NEW p \in Seq(0..255)
  PROVE  /\ Frame(p) \in Seq(Nat) /\ Len(Frame(p)) = Len(p) + 5 /\ Len(p) \in Nat
         /\ Frame(p)[1] = Sync1 /\ Frame(p)[2] = Sync2 /\ Frame(p)[3] = Len(p)
         /\ \A i \in 1..Len(p) : Frame(p)[i + 3] = p[i]
         /\ Fletcher16(p) = <<Frame(p)[Len(p) + 4], Frame(p)[Len(p) + 5]>>
<1> DEFINE n == Len(p)
           a == <<Sync1, Sync2, n>>
           b == Fletcher16(p)
<1>1. n \in Nat /\ p \in Seq(Nat)
  <2>1. \A z \in 0..255 : z \in Nat
    OBVIOUS
  <2>2. 0..255 \subseteq Nat
    BY <2>1
  <2> QED
    BY <2>2, LenProperties, SeqMonotonic
<1>2. a \in Seq(Nat) /\ Len(a) = 3 /\ a[1] = Sync1 /\ a[2] = Sync2 /\ a[3] = n
  <2>1. Sync1 \in Nat /\ Sync2 \in Nat
    BY DEF Sync1, Sync2
  <2> HIDE DEF n
  <2> QED
    BY <1>1, <2>1
<1>3. b \in Seq(Nat) /\ Len(b) = 2 /\ b = <<b[1], b[2]>>
  <2>1. b \in Sums
    BY FletcherType
  <2> HIDE DEF b
  <2>2. b = <<b[1], b[2]>> /\ b[1] \in 0..254 /\ b[2] \in 0..254
    BY <2>1 DEF Sums
  <2>3. \A z \in 0..254 : z \in Nat
    OBVIOUS
  <2>4. b[1] \in Nat /\ b[2] \in Nat
    BY <2>2, <2>3
  <2>5. \A x, y \in Nat : <<x, y>> \in Seq(Nat) /\ Len(<<x, y>>) = 2
    OBVIOUS
  <2> QED
    BY <2>2, <2>4, <2>5, Zenon
<1>4. PICK c : c = a \o p
  OBVIOUS
<1> HIDE DEF n, a, b
<1>5. /\ c \in Seq(Nat) /\ Len(c) = n + 3
      /\ \A i \in 1..(n + 3) : c[i] = IF i <= 3 THEN a[i] ELSE p[i - 3]
  <2>1. /\ c \in Seq(Nat) /\ Len(c) = Len(a) + Len(p)
        /\ \A i \in 1..(Len(a) + Len(p)) : c[i] = IF i <= Len(a) THEN a[i] ELSE p[i - Len(a)]
    <3>1. a \in Seq(Nat) /\ p \in Seq(Nat)
      BY <1>1, <1>2
    <3> QED
      BY <1>4, <3>1, ConcatProperties
  <2>2. Len(a) + Len(p) = n + 3 /\ Len(a) = 3
    BY <1>1, <1>2 DEF n
  <2> QED
    BY <2>1, <2>2, Zenon
<1>6. PICK f : f = Frame(p) /\ f = c \o b
  BY <1>4 DEF Frame, a, b, n
<1>7. /\ f \in Seq(Nat) /\ Len(f) = n + 5
      /\ \A i \in 1..(n + 5) : f[i] = IF i <= n + 3 THEN c[i] ELSE b[i - (n + 3)]
  <2>1. /\ f \in Seq(Nat) /\ Len(f) = Len(c) + Len(b)
        /\ \A i \in 1..(Len(c) + Len(b)) : f[i] = IF i <= Len(c) THEN c[i] ELSE b[i - Len(c)]
    <3>1. c \in Seq(Nat) /\ b \in Seq(Nat) /\ f = c \o b
      BY <1>3, <1>5, <1>6
    <3> QED
      BY <3>1, ConcatProperties
  <2>2. Len(c) + Len(b) = n + 5 /\ Len(c) = n + 3
    BY <1>1, <1>3, <1>5
  <2> QED
    BY <2>1, <2>2, Zenon
<1>8. f[1] = a[1] /\ f[2] = a[2] /\ f[3] = a[3]
  <2>1. ASSUME NEW i \in 1..3 PROVE f[i] = a[i]
    <3>1. n \in Nat
      BY <1>1
    <3>2. i \in 1..(n + 5) /\ i \in 1..(n + 3) /\ i <= n + 3 /\ i <= 3
      BY <3>1
    <3> QED
      BY <1>5, <1>7, <3>2
  <2>2. 1 \in 1..3 /\ 2 \in 1..3 /\ 3 \in 1..3
    OBVIOUS
  <2> QED
    BY <2>1, <2>2
<1>9. \A i \in 1..n : f[i + 3] = p[i]
  <2>1. ASSUME NEW i \in 1..n
        PROVE  /\ i + 3 \in 1..(n + 5) /\ i + 3 \in 1..(n + 3) /\ i + 3 <= n + 3 /\ ~(i + 3 <= 3)
               /\ (i + 3) - 3 = i
    BY <1>1
  <2> QED
    BY <1>5, <1>7, <2>1
<1>10. f[n + 4] = b[1] /\ f[n + 5] = b[2]
  <2>1. /\ n + 4 \in 1..(n + 5) /\ n + 5 \in 1..(n + 5) /\ ~(n + 4 <= n + 3) /\ ~(n + 5 <= n + 3)
        /\ (n + 4) - (n + 3) = 1 /\ (n + 5) - (n + 3) = 2
    BY <1>1
  <2> QED
    BY <1>7, <2>1
<1>11. b = <<f[n + 4], f[n + 5]>>
  BY <1>3, <1>10
<1> QED
  BY <1>1, <1>2, <1>6, <1>7, <1>8, <1>9, <1>11 DEF n, b

\* The frames of s, the one after the other, end with the bytes l: frame k
\* starts behind byte e[k] of them, or before them.
Carries(e, s, l) ==
    /\ e \in [1..(Len(s) + 1) -> Int]
    /\ e[Len(s) + 1] = Len(l)
    /\ \A k \in 1..Len(s) : e[k + 1] = e[k] + Len(Frame(s[k])) /\ e[k + 1] <= Len(l)
    /\ \A k \in 1..Len(s) : \A i \in 1..Len(Frame(s[k])) :
         1 <= e[k] + i => l[e[k] + i] = Frame(s[k])[i]

\* What SendFrame can have sent: the last byte of a payload is its number.
Sendings == {s \in Seq(Seq(0..255)) :
               \A j \in 1..Len(s) : Len(s[j]) > 0 /\ Last(s[j]) = j}

(* Its payloads are bytes, and not empty.                                    *)
LEMMA SendingFacts ==
  ASSUME NEW s \in Sendings
  PROVE  /\ Len(s) \in Nat /\ DOMAIN s = 1..Len(s) /\ s \in Seq(Seq(0..255))
         /\ \A j \in 1..Len(s) : s[j] \in Seq(0..255) /\ Len(s[j]) \in Nat /\ Len(s[j]) > 0 /\ Last(s[j]) = j
<1>1. s \in Seq(Seq(0..255))
  BY DEF Sendings
<1>2. \A j \in 1..Len(s) : s[j] \in Seq(0..255)
  <2>1. PICK T : T = Seq(0..255)
    OBVIOUS
  <2> QED
    BY <1>1, <2>1, ElementOfSeq
<1>3. \A j \in 1..Len(s) : Len(s[j]) \in Nat
  BY <1>2, LenProperties
<1>4. Len(s) \in Nat /\ DOMAIN s = 1..Len(s)
  BY <1>1, LenProperties
<1> QED
  BY <1>1, <1>2, <1>3, <1>4 DEF Sendings

(* A frame sent goes behind the bytes of the line.                           *)
LEMMA SendCarries ==
  ASSUME NEW s \in Sendings, NEW l \in Seq(Nat), NEW e, Carries(e, s, l),
         NEW m \in Seq(0..255),
         NEW f, f = [k \in 1..(Len(s) + 2) |-> IF k <= Len(s) + 1 THEN e[k] ELSE Len(l) + Len(Frame(m))]
  PROVE  Carries(f, Append(s, m), l \o Frame(m))
<1> DEFINE n == Len(s)
           x == Len(l)
           y == Len(Frame(m))
<1>1. /\ n \in Nat /\ x \in Nat /\ y \in Nat /\ Frame(m) \in Seq(Nat)
      /\ \A k \in 1..n : s[k] \in Seq(0..255)
  BY SendingFacts, FrameIs, LenProperties
<1>2. PICK t : t = Append(s, m) /\ Len(t) = n + 1 /\ t[n + 1] = m /\ \A k \in 1..n : t[k] = s[k]
  <2>1. PICK T : T = Seq(0..255)
    OBVIOUS
  <2>2. s \in Seq(T) /\ m \in T
    BY <2>1, SendingFacts
  <2>3. PICK u : u = Append(s, m)
    OBVIOUS
  <2>4. Len(u) = n + 1 /\ u[n + 1] = m /\ \A k \in 1..n : u[k] = s[k]
    BY <2>2, <2>3, AppendProperties
  <2> QED
    BY <2>3, <2>4
<1>3. PICK q : /\ q = l \o Frame(m) /\ Len(q) = x + y
               /\ \A i \in 1..(x + y) : q[i] = IF i <= x THEN l[i] ELSE Frame(m)[i - x]
  <2>1. PICK u : u = l \o Frame(m)
    OBVIOUS
  <2>2. /\ Len(u) = Len(l) + Len(Frame(m))
        /\ \A i \in 1..(Len(l) + Len(Frame(m))) : u[i] = IF i <= Len(l) THEN l[i] ELSE Frame(m)[i - Len(l)]
    BY <1>1, <2>1, ConcatProperties
  <2> QED
    BY <2>1, <2>2
<1>4. /\ e \in [1..(n + 1) -> Int] /\ e[n + 1] = x
      /\ \A k \in 1..n : e[k + 1] = e[k] + Len(Frame(s[k])) /\ e[k + 1] <= x
      /\ \A k \in 1..n : \A i \in 1..Len(Frame(s[k])) : 1 <= e[k] + i => l[e[k] + i] = Frame(s[k])[i]
  BY DEF Carries
<1>5. /\ f = [k \in 1..(n + 2) |-> IF k <= n + 1 THEN e[k] ELSE x + y]
  OBVIOUS
<1>6. \A k \in 1..n : Len(Frame(s[k])) \in Nat
  <2>1. \A k \in 1..n : Frame(s[k]) \in Seq(Nat)
    BY <1>1, FrameIs
  <2> QED
    BY <2>1, LenProperties
<1> HIDE DEF n, x, y
<1>7. /\ f \in [1..(n + 2) -> Int] /\ f[n + 2] = x + y /\ f[n + 1] = x
      /\ \A k \in 1..(n + 1) : f[k] = e[k]
  BY <1>1, <1>4, <1>5
<1>8. \A k \in 1..(n + 1) : k \in 1..n \/ k = n + 1
  BY <1>1
<1>9. ASSUME NEW k \in 1..(n + 1)
      PROVE  /\ f[k + 1] = f[k] + Len(Frame(t[k])) /\ f[k + 1] <= x + y
             /\ \A i \in 1..Len(Frame(t[k])) : 1 <= f[k] + i => q[f[k] + i] = Frame(t[k])[i]
  <2>1. CASE k = n + 1
    <3>1. t[k] = m /\ f[k] = x /\ f[k + 1] = x + y
      <4>1. k + 1 = n + 2
        BY <1>1, <2>1
      <4> QED
        BY <1>2, <1>7, <2>1, <4>1
    <3>2. ASSUME NEW i \in 1..y PROVE q[x + i] = Frame(m)[i]
      <4>1. x + i \in 1..(x + y) /\ ~(x + i <= x) /\ (x + i) - x = i
        BY <1>1, <3>2
      <4> QED
        BY <1>3, <4>1
    <3>3. x + y <= x + y
      BY <1>1
    <3> QED
      BY <3>1, <3>2, <3>3 DEF y
  <2>2. CASE k \in 1..n
    <3>1. t[k] = s[k] /\ f[k] = e[k] /\ f[k + 1] = e[k + 1] /\ e[k] \in Int /\ e[k + 1] \in Int
      <4>1. k \in 1..(n + 1) /\ k + 1 \in 1..(n + 1)
        BY <1>1, <2>2
      <4> QED
        BY <1>2, <1>4, <1>7, <2>2, <4>1
    <3>2. PICK z \in Nat : z = Len(Frame(s[k]))
      BY <1>6, <2>2
    <3>3. e[k + 1] = e[k] + z /\ e[k + 1] <= x
      BY <1>4, <2>2, <3>2
    <3>4. ASSUME NEW i \in 1..z, 1 <= e[k] + i PROVE q[e[k] + i] = Frame(s[k])[i]
      <4>1. e[k] + i \in 1..(x + y) /\ e[k] + i <= x
        <5>1. PICK a \in Int : a = e[k]
          BY <3>1
        <5>2. a + z <= x /\ 1 <= a + i
          <6>1. e[k + 1] = a + z /\ e[k + 1] <= x
            BY <3>3, <5>1
          <6>2. 1 <= e[k] + i
            BY <3>4
          <6> QED
            BY <5>1, <6>1, <6>2
        <5>3. x \in Nat /\ y \in Nat
          BY <1>1
        <5>4. a + i \in 1..(x + y) /\ a + i <= x
          BY <5>2, <5>3
        <5> QED
          BY <5>1, <5>4
      <4>2. q[e[k] + i] = l[e[k] + i]
        BY <1>3, <4>1
      <4>3. l[e[k] + i] = Frame(s[k])[i]
        BY <1>4, <2>2, <3>2, <3>4
      <4> QED
        BY <4>2, <4>3
    <3>5. e[k + 1] <= x + y
      BY <1>1, <3>1, <3>3
    <3> QED
      BY <3>1, <3>2, <3>3, <3>4, <3>5
  <2> QED
    BY <1>8, <2>1, <2>2
<1>10. (n + 1) + 1 = n + 2
  BY <1>1
<1>11. Carries(f, t, q)
  <2>1. f \in [1..(Len(t) + 1) -> Int] /\ f[Len(t) + 1] = Len(q)
    BY <1>2, <1>3, <1>7, <1>10
  <2>2. \A k \in 1..Len(t) : f[k + 1] = f[k] + Len(Frame(t[k])) /\ f[k + 1] <= Len(q)
    <3>1. Len(t) = n + 1 /\ Len(q) = x + y
      BY <1>2, <1>3
    <3> QED
      BY <1>9, <3>1, Zenon
  <2>3. \A k \in 1..Len(t) : \A i \in 1..Len(Frame(t[k])) : 1 <= f[k] + i => q[f[k] + i] = Frame(t[k])[i]
    <3>1. Len(t) = n + 1
      BY <1>2
    <3> QED
      BY <1>9, <3>1, Zenon
  <2> QED
    BY <2>1, <2>2, <2>3 DEF Carries
<1> QED
  BY <1>2, <1>3, <1>11

(* Bytes read leave the line.                                                *)
LEMMA ReadCarries ==
  ASSUME NEW s \in Sendings, NEW l \in Seq(Nat), NEW e, Carries(e, s, l),
         NEW r \in Nat, r <= Len(l)
  PROVE  /\ Carries([k \in 1..(Len(s) + 1) |-> e[k] - r], s, SubSeq(l, r + 1, Len(l)))
         /\ SubSeq(l, r + 1, Len(l)) \in Seq(Nat)
<1> DEFINE n == Len(s)
           x == Len(l)
           f == [k \in 1..(n + 1) |-> e[k] - r]
<1>1. /\ n \in Nat /\ x \in Nat /\ \A i \in 1..x : l[i] \in Nat
      /\ \A k \in 1..n : s[k] \in Seq(0..255)
  BY SendingFacts, LenProperties, ElementOfSeq
<1>2. PICK q : q = SubSeq(l, r + 1, x)
  OBVIOUS
<1>4. /\ e \in [1..(n + 1) -> Int] /\ e[n + 1] = x
      /\ \A k \in 1..n : e[k + 1] = e[k] + Len(Frame(s[k])) /\ e[k + 1] <= x
      /\ \A k \in 1..n : \A i \in 1..Len(Frame(s[k])) : 1 <= e[k] + i => l[e[k] + i] = Frame(s[k])[i]
  BY DEF Carries
<1>6. \A k \in 1..n : Len(Frame(s[k])) \in Nat
  <2>1. \A k \in 1..n : Frame(s[k]) \in Seq(Nat)
    BY <1>1, FrameIs
  <2> QED
    BY <2>1, LenProperties
<1>7. r <= x
  OBVIOUS
<1> HIDE DEF x
<1>3. q \in Seq(Nat) /\ Len(q) = x - r /\ \A i \in 1..(x - r) : q[i] = l[r + i]
  <2>1. r + 1 \in Int /\ x \in Int /\ \A i \in (r + 1)..x : l[i] \in Nat
    BY <1>1
  <2>2. /\ q \in Seq(Nat) /\ Len(q) = IF r + 1 <= x THEN x - (r + 1) + 1 ELSE 0
        /\ \A i \in 1..(x - (r + 1) + 1) : q[i] = l[(r + 1) + i - 1]
    BY <1>2, <2>1, SubSeqProperties
  <2>3. x - (r + 1) + 1 = x - r /\ \A i \in 1..(x - r) : (r + 1) + i - 1 = r + i
    BY <1>1
  <2>4. Len(q) = x - r
    BY <1>1, <1>7, <2>2
  <2> QED
    BY <2>2, <2>3, <2>4
<1>8. f \in [1..(n + 1) -> Int] /\ \A k \in 1..(n + 1) : f[k] = e[k] - r /\ e[k] \in Int
  <2> HIDE DEF n
  <2>1. \A k \in 1..(n + 1) : e[k] \in Int
    BY <1>4
  <2>2. \A k \in 1..(n + 1) : e[k] - r \in Int
    BY <2>1
  <2> QED
    BY <2>1, <2>2
<1> HIDE DEF n, f
<1>9. ASSUME NEW k \in 1..n
      PROVE  /\ f[k + 1] = f[k] + Len(Frame(s[k])) /\ f[k + 1] <= x - r
             /\ \A i \in 1..Len(Frame(s[k])) : 1 <= f[k] + i => q[f[k] + i] = Frame(s[k])[i]
  <2>1. k \in 1..(n + 1) /\ k + 1 \in 1..(n + 1)
    BY <1>1
  <2>2. f[k] = e[k] - r /\ f[k + 1] = e[k + 1] - r /\ e[k] \in Int /\ e[k + 1] \in Int
    BY <1>8, <2>1
  <2>3. PICK z \in Nat : z = Len(Frame(s[k]))
    BY <1>6
  <2>4. e[k + 1] = e[k] + z /\ e[k + 1] <= x
    BY <1>4, <2>3
  <2>5. f[k + 1] = f[k] + z /\ f[k + 1] <= x - r
    BY <1>1, <2>2, <2>4
  <2>6. ASSUME NEW i \in 1..z, 1 <= f[k] + i PROVE q[f[k] + i] = Frame(s[k])[i]
    <3>1. f[k] + i \in 1..(x - r) /\ r + (f[k] + i) = e[k] + i /\ 1 <= e[k] + i
      <4>1. PICK a \in Int : a = e[k] /\ f[k] = a - r
        BY <2>2
      <4>2. a + z <= x /\ 1 <= (a - r) + i
        <5>1. e[k + 1] = a + z /\ e[k + 1] <= x
          BY <2>4, <4>1
        <5>2. 1 <= f[k] + i
          BY <2>6
        <5> QED
          BY <4>1, <5>1, <5>2
      <4>3. /\ (a - r) + i \in 1..(x - r) /\ r + ((a - r) + i) = a + i /\ 1 <= a + i
        BY <1>1, <4>2
      <4> QED
        BY <4>1, <4>3
    <3>2. q[f[k] + i] = l[r + (f[k] + i)]
      BY <1>3, <3>1
    <3>3. l[e[k] + i] = Frame(s[k])[i]
      BY <1>4, <2>3, <2>6, <3>1
    <3> QED
      BY <3>1, <3>2, <3>3
  <2> QED
    BY <2>3, <2>5, <2>6
<1>10. f[n + 1] = x - r
  <2>1. n + 1 \in 1..(n + 1)
    BY <1>1
  <2> QED
    BY <1>4, <1>8, <2>1
<1>11. Carries(f, s, q)
  BY <1>3, <1>8, <1>9, <1>10 DEF Carries, n
<1> QED
  BY <1>2, <1>3, <1>11 DEF f, n, x

-----------------------------------------------------------------------------
(* The parser follows the frames: its invariant and its steps.               *)

\* The parser has read o bytes of frame c.
At(e, c, o) == e[c] + o = 0

\* Where the parser is, frame c being the one it reads next or is in: before it,
\* or in it in one of its four states.
Standing(e, c) ==
    \/ state = "sync" /\ At(e, c, 0)
    \/ /\ c <= Len(sent)
       /\ \/ state = "sync" /\ At(e, c, 1) /\ sync[2] = Sync1
          \/ state = "len" /\ At(e, c, 2) /\ sync[2] = Sync2
          \/ state = "payload" /\ At(e, c, 3) /\ sync[2] = Sync2 /\ len = Len(sent[c])
          \/ /\ state = "checksum" /\ At(e, c, Len(sent[c]) + 3) /\ sync[2] = Sync2
             /\ buffer = sent[c] /\ sum = Fletcher16(sent[c])

\* octoMessageCB was given the frames before c, and no other.
Delivered(c) == Len(given) = c - 1 /\ \A i \in 1..(c - 1) : given[i] = sent[i]

\* The frames on the line and the parser fit together.
Tracked(e, c) ==
    /\ Carries(e, sent, line)
    /\ c \in 1..(Len(sent) + 1)
    /\ Standing(e, c)
    /\ Delivered(c)

\* No byte of what is on the line is missing, and no callback has died.
Whole ==
    /\ sent \in Sendings /\ \A j \in 1..Len(sent) : sent[j] \in Messages
    /\ line \in Seq(Nat)
    /\ given \in Seq(Seq(0..255))
    /\ \E e : \E c \in Nat : Tracked(e, c)

\* The inductive invariant.
LinkInv ==
    /\ lost \in Nat /\ died \in Nat
    /\ lost = 0 /\ died = 0 => Whole

(* A sent frame has at least one byte of payload.                            *)
LEMMA FrameLength ==
  ASSUME NEW s \in Sendings, NEW c \in 1..Len(s)
  PROVE  /\ Frame(s[c]) \in Seq(Nat) /\ Len(Frame(s[c])) = Len(s[c]) + 5 /\ Len(s[c]) \in Nat \ {0}
         /\ s[c] \in Seq(0..255) /\ c \in Nat /\ c + 1 \in 1..(Len(s) + 1) /\ c \in 1..(Len(s) + 1)
<1>1. s[c] \in Seq(0..255) /\ Len(s[c]) \in Nat /\ Len(s[c]) > 0 /\ Len(s) \in Nat
  BY SendingFacts
<1>2. Frame(s[c]) \in Seq(Nat) /\ Len(Frame(s[c])) = Len(s[c]) + 5
  BY <1>1, FrameIs
<1> QED
  BY <1>1, <1>2

(* What is next on the line, o bytes into frame c.                           *)
LEMMA NextBytes ==
  ASSUME NEW s \in Sendings, NEW l \in Seq(Nat), NEW e, Carries(e, s, l),
         NEW c \in 1..Len(s), NEW o \in Nat, At(e, c, o)
  PROVE  /\ e[c + 1] = (Len(s[c]) + 5) - o
         /\ \A i \in 1..((Len(s[c]) + 5) - o) : l[i] = Frame(s[c])[o + i]
<1>1. PICK w \in Nat : w = Len(s[c]) + 5 /\ w = Len(Frame(s[c]))
  BY FrameLength
<1>2. e[c + 1] = e[c] + w /\ e[c] \in Int
  <2>1. c \in 1..(Len(s) + 1)
    BY FrameLength
  <2> QED
    BY <1>1, <2>1 DEF Carries
<1>3. \A i \in 1..w : 1 <= e[c] + i => l[e[c] + i] = Frame(s[c])[i]
  BY <1>1 DEF Carries
<1>4. PICK a \in Int : a = e[c] /\ a + o = 0
  BY <1>2 DEF At
<1>5. ASSUME NEW i \in 1..(w - o) PROVE l[i] = Frame(s[c])[o + i]
  <2>1. a + o = 0
    BY <1>4
  <2>2. i \in Int /\ 1 <= i /\ i <= w - o
    OBVIOUS
  <2>3. o + i \in 1..w /\ a + (o + i) = i
    BY <2>1, <2>2
  <2> QED
    BY <1>3, <1>4, <2>2, <2>3
<1>6. e[c + 1] = w - o
  <2>1. e[c + 1] = a + w /\ a + o = 0
    BY <1>2, <1>4
  <2>2. a + w = w - o
    BY <2>1
  <2> QED
    BY <2>1, <2>2
<1> QED
  BY <1>1, <1>5, <1>6

(* At the start of a frame, with bytes on the line, there is such a frame.   *)
LEMMA MoreIsFrame ==
  ASSUME NEW s \in Sendings, NEW l \in Seq(Nat), NEW e, Carries(e, s, l),
         NEW c \in 1..(Len(s) + 1), At(e, c, 0), Len(l) > 0
  PROVE  c \in 1..Len(s)
<1>1. Len(s) \in Nat /\ Len(l) \in Nat
  BY SendingFacts, LenProperties
<1>2. c # Len(s) + 1
  BY <1>1 DEF Carries, At
<1> QED
  BY <1>1, <1>2

(* The first sync byte is not taken for the second.                          *)
LEMMA NotSync == Sync1 # Sync2
  BY DEF Sync1, Sync2

\* A step that reads r bytes and leaves the frames alone.
Taken(e, r) == [k \in 1..(Len(sent) + 1) |-> e[k] - r]

(* The line still ends with the frames.                                      *)
LEMMA TakenFacts ==
  ASSUME Whole, NEW e, Carries(e, sent, line), NEW r \in Nat, Read(r), UNCHANGED sent
  PROVE  Carries(Taken(e, r), sent', line') /\ line' \in Seq(Nat)
<1>1. sent \in Sendings /\ line \in Seq(Nat)
  BY DEF Whole
<1>2. r <= Len(line) /\ line' = SubSeq(line, r + 1, Len(line))
  <2>1. Len(line) \in Nat
    BY <1>1, LenProperties
  <2> QED
    BY <2>1 DEF Read
<1>3. Carries(Taken(e, r), sent, line') /\ line' \in Seq(Nat)
  BY <1>1, <1>2, ReadCarries DEF Taken
<1> QED
  BY <1>3

(* It moves on in the frame, or to the next one.                             *)
LEMMA Moves ==
  ASSUME Whole, NEW e, Carries(e, sent, line), NEW r \in Nat, NEW f, f = Taken(e, r),
         NEW c \in 1..(Len(sent) + 1), NEW o \in Nat, At(e, c, o)
  PROVE  /\ At(f, c, o + r)
         /\ c <= Len(sent) /\ o + r = Len(sent[c]) + 5 => At(f, c + 1, 0)
<1>1. sent \in Sendings /\ line \in Seq(Nat) /\ Len(sent) \in Nat
  BY SendingFacts DEF Whole
<1>2. \A k \in 1..(Len(sent) + 1) : f[k] = e[k] - r /\ e[k] \in Int
  BY DEF Taken, Carries
<1>3. At(f, c, o + r)
  BY <1>2 DEF At
<1>4. ASSUME c <= Len(sent), o + r = Len(sent[c]) + 5 PROVE At(f, c + 1, 0)
  <2>1. c \in 1..Len(sent) /\ c + 1 \in 1..(Len(sent) + 1)
    BY <1>1, <1>4
  <2>2. PICK z \in Nat : z = Len(sent[c])
    BY <1>1, <2>1, FrameLength
  <2>3. e[c + 1] = (z + 5) - o
    BY <1>1, <2>1, <2>2, NextBytes
  <2>4. f[c + 1] = e[c + 1] - r
    BY <1>2, <2>1
  <2>5. o + r = z + 5
    BY <1>4, <2>2
  <2>6. f[c + 1] = ((z + 5) - o) - r
    BY <2>3, <2>4
  <2>7. ((z + 5) - o) - r = 0
    BY <2>5
  <2> QED
    BY <2>6, <2>7 DEF At
<1> QED
  BY <1>3, <1>4

(* What is to be shown of a step of the parser: where it stands, and what it *)
(* has delivered.                                                            *)
LEMMA WholeAfter ==
  ASSUME Whole, NEW e, Carries(e, sent, line), NEW r \in Nat, Read(r), UNCHANGED sent,
         given' \in Seq(Seq(0..255)),
         NEW f, f = Taken(e, r),
         NEW d \in 1..(Len(sent) + 1), Standing(f, d)', Delivered(d)'
  PROVE  Whole'
<1>1. /\ sent \in Sendings /\ \A j \in 1..Len(sent) : sent[j] \in Messages
  BY DEF Whole
<1>2. Carries(f, sent', line') /\ line' \in Seq(Nat)
  BY TakenFacts
<1>3. d \in Nat
  BY <1>1, SendingFacts
<1>4. Tracked(f, d)'
  BY <1>2 DEF Tracked
<1>5. \E g : \E c \in Nat : Tracked(g, c)'
  BY <1>3, <1>4
<1> QED
  BY <1>1, <1>2, <1>5 DEF Whole

(* What is known before it.                                                  *)
LEMMA WholeBefore ==
  ASSUME Whole
  PROVE  /\ sent \in Sendings /\ line \in Seq(Nat) /\ given \in Seq(Seq(0..255))
         /\ \A j \in 1..Len(sent) : sent[j] \in Messages
         /\ Len(sent) \in Nat /\ Len(given) \in Nat /\ Len(line) \in Nat
         /\ \E e : \E c \in 1..(Len(sent) + 1) : Carries(e, sent, line) /\ Standing(e, c) /\ Delivered(c)
BY SendingFacts, LenProperties DEF Whole, Tracked

(* One byte is read.                                                         *)
LEMMA OneByte ==
  ASSUME Whole, Read(1)
  PROVE  Len(line) > 0 /\ Head(line) = line[1]
<1>1. line \in Seq(Nat) /\ Len(line) \in Nat /\ Len(line) >= 1
  BY LenProperties DEF Read, Whole
<1>2. line # <<>>
  BY <1>1, EmptySeq
<1> QED
  BY <1>1, <1>2

(* WAIT_FOR_SYNC finds the start of the frame it stands at.                  *)
LEMMA SyncStep ==
  ASSUME Whole, WaitForSync,
         NEW e, NEW c \in 1..(Len(sent) + 1), Carries(e, sent, line), Standing(e, c), Delivered(c),
         NEW f, f = Taken(e, 1)
  PROVE  \E d \in 1..(Len(sent) + 1) : Standing(f, d)' /\ Delivered(d)'
<1>1. /\ sent \in Sendings /\ line \in Seq(Nat) /\ Len(sent) \in Nat
  BY WholeBefore
<1>2. /\ state = "sync" /\ Read(1) /\ sync' = <<sync[2], Head(line)>>
      /\ state' = IF sync' = <<Sync1, Sync2>> THEN "len" ELSE "sync"
      /\ UNCHANGED <<sent, lost, len, buffer, sum, given, died>>
  BY DEF WaitForSync
<1>3. Len(line) > 0 /\ Head(line) = line[1]
  BY <1>2, OneByte
<1>4. Delivered(c)'
  BY <1>2 DEF Delivered
<1>5. CASE At(e, c, 0)
  <2>1. c \in 1..Len(sent)
    BY <1>1, <1>3, <1>5, MoreIsFrame
  <2>2. line[1] = Sync1
    <3>1. PICK z \in Nat : z = Len(sent[c])
      BY <1>1, <2>1, FrameLength
    <3>2. \A i \in 1..((z + 5) - 0) : line[i] = Frame(sent[c])[0 + i]
      <4>1. 0 \in Nat /\ At(e, c, 0)
        BY <1>5
      <4>2. \A i \in 1..((Len(sent[c]) + 5) - 0) : line[i] = Frame(sent[c])[0 + i]
        BY <1>1, <2>1, <4>1, NextBytes
      <4> QED
        BY <4>2, <3>1
    <3>3. Frame(sent[c])[1] = Sync1
      BY <1>1, <2>1, FrameLength, FrameIs
    <3>4. 1 \in 1..((z + 5) - 0) /\ 0 + 1 = 1
      BY <3>1
    <3> QED
      BY <3>2, <3>3, <3>4
  <2>3. state' = "sync" /\ sync'[2] = Sync1
    BY <1>2, <1>3, <2>2, NotSync
  <2>4. At(f, c, 1) /\ c <= Len(sent)
    <3>1. At(f, c, 0 + 1)
      BY <1>5, Moves
    <3> QED
      BY <2>1, <3>1
  <2>5. Standing(f, c)'
    BY <1>2, <1>5, <2>3, <2>4 DEF Standing, At
  <2> QED
    BY <1>4, <2>5
<1>6. CASE c <= Len(sent) /\ At(e, c, 1) /\ sync[2] = Sync1
  <2>1. c \in 1..Len(sent)
    BY <1>1, <1>6
  <2>2. line[1] = Sync2
    <3>1. PICK z \in Nat : z = Len(sent[c])
      BY <1>1, <2>1, FrameLength
    <3>2. \A i \in 1..((z + 5) - 1) : line[i] = Frame(sent[c])[1 + i]
      <4>1. 1 \in Nat /\ At(e, c, 1)
        BY <1>6
      <4>2. \A i \in 1..((Len(sent[c]) + 5) - 1) : line[i] = Frame(sent[c])[1 + i]
        BY <1>1, <2>1, <4>1, NextBytes
      <4> QED
        BY <4>2, <3>1
    <3>3. Frame(sent[c])[2] = Sync2
      BY <1>1, <2>1, FrameLength, FrameIs
    <3>4. 1 \in 1..((z + 5) - 1) /\ 1 + 1 = 2
      BY <3>1
    <3> QED
      BY <3>2, <3>3, <3>4
  <2>3. state' = "len" /\ sync'[2] = Sync2
    BY <1>2, <1>3, <1>6, <2>2
  <2>4. At(f, c, 2)
    <3>1. At(f, c, 1 + 1)
      BY <1>6, Moves
    <3> QED
      BY <3>1
  <2>5. Standing(f, c)'
    BY <1>2, <1>6, <2>3, <2>4 DEF Standing, At
  <2> QED
    BY <1>4, <2>5
<1> QED
  BY <1>2, <1>5, <1>6 DEF Standing

(* WAIT_FOR_LEN reads the length of the frame,                               *)
LEMMA LenStep ==
  ASSUME Whole, WaitForLen,
         NEW e, NEW c \in 1..(Len(sent) + 1), Carries(e, sent, line), Standing(e, c), Delivered(c),
         NEW f, f = Taken(e, 1)
  PROVE  \E d \in 1..(Len(sent) + 1) : Standing(f, d)' /\ Delivered(d)'
<1>1. sent \in Sendings /\ line \in Seq(Nat) /\ Len(sent) \in Nat
  BY WholeBefore
<1>2. /\ state = "len" /\ Read(1) /\ len' = Head(line) /\ state' = "payload"
      /\ UNCHANGED <<sent, lost, sync, buffer, sum, given, died>>
  BY DEF WaitForLen
<1>3. c <= Len(sent) /\ At(e, c, 2) /\ sync[2] = Sync2
  BY <1>2 DEF Standing
<1>4. c \in 1..Len(sent)
  BY <1>1, <1>3
<1>5. len' = Len(sent[c])
  <2>1. PICK z \in Nat : z = Len(sent[c])
    BY <1>1, <1>4, FrameLength
  <2>2. \A i \in 1..((z + 5) - 2) : line[i] = Frame(sent[c])[2 + i]
    <3>1. 2 \in Nat /\ At(e, c, 2)
      BY <1>3
    <3>2. \A i \in 1..((Len(sent[c]) + 5) - 2) : line[i] = Frame(sent[c])[2 + i]
      BY <1>1, <1>4, <3>1, NextBytes
    <3> QED
      BY <3>2, <2>1
  <2>3. Frame(sent[c])[3] = Len(sent[c])
    BY <1>1, <1>4, FrameLength, FrameIs
  <2>4. 1 \in 1..((z + 5) - 2) /\ 2 + 1 = 3
    BY <2>1
  <2>5. Head(line) = line[1]
    BY <1>2, OneByte
  <2> QED
    BY <1>2, <2>2, <2>3, <2>4, <2>5
<1>6. At(f, c, 3)
  <2>1. At(f, c, 2 + 1)
    BY <1>3, Moves
  <2> QED
    BY <2>1
<1>7. Standing(f, c)'
  BY <1>2, <1>3, <1>5, <1>6 DEF Standing, At
<1>8. Delivered(c)'
  BY <1>2 DEF Delivered
<1> QED
  BY <1>7, <1>8

(* WAIT_FOR_PAYLOAD its payload,                                             *)
LEMMA PayloadStep ==
  ASSUME Whole, WaitForPayload,
         NEW e, NEW c \in 1..(Len(sent) + 1), Carries(e, sent, line), Standing(e, c), Delivered(c),
         NEW f, f = Taken(e, len)
  PROVE  len \in Nat /\ \E d \in 1..(Len(sent) + 1) : Standing(f, d)' /\ Delivered(d)'
<1>1. sent \in Sendings /\ line \in Seq(Nat) /\ Len(sent) \in Nat /\ Len(line) \in Nat
  BY WholeBefore
<1>2. /\ state = "payload" /\ Read(len) /\ buffer' = SubSeq(line, 1, len)
      /\ sum' = Fletcher16(buffer') /\ state' = "checksum"
      /\ UNCHANGED <<sent, lost, sync, len, given, died>>
  BY DEF WaitForPayload
<1>3. c <= Len(sent) /\ At(e, c, 3) /\ sync[2] = Sync2 /\ len = Len(sent[c])
  BY <1>2 DEF Standing
<1>4. c \in 1..Len(sent)
  BY <1>1, <1>3
<1>5. PICK z \in Nat : z = len /\ z = Len(sent[c]) /\ z > 0
  BY <1>1, <1>3, <1>4, FrameLength
<1>6. z <= Len(line)
  BY <1>1, <1>2, <1>5 DEF Read
<1>7. PICK u : u = SubSeq(line, 1, z)
  OBVIOUS
<1>8. u \in Seq(Nat) /\ Len(u) = z /\ \A i \in 1..z : u[i] = line[i]
  <2>1. \A i \in 1..z : line[i] \in Nat
    BY <1>1, <1>6, ElementOfSeq
  <2>2. /\ u \in Seq(Nat) /\ Len(u) = IF 1 <= z THEN z - 1 + 1 ELSE 0
        /\ \A i \in 1..(z - 1 + 1) : u[i] = line[1 + i - 1]
    <3>1. 1 \in Int /\ z \in Int
      OBVIOUS
    <3> QED
      BY <1>7, <2>1, <3>1, SubSeqProperties
  <2>3. z - 1 + 1 = z /\ \A i \in 1..z : 1 + i - 1 = i
    OBVIOUS
  <2> QED
    BY <1>5, <2>2, <2>3
<1>9. u = sent[c]
  <2>1. PICK p \in Seq(Nat) : p = sent[c] /\ Len(p) = z
    <3>1. sent[c] \in Seq(0..255)
      BY <1>1, <1>4, FrameLength
    <3>2. \A k \in 0..255 : k \in Nat
      OBVIOUS
    <3>3. 0..255 \subseteq Nat
      BY <3>2
    <3> QED
      BY <1>5, <3>1, <3>3, SeqMonotonic
  <2>2. \A i \in 1..((z + 5) - 3) : line[i] = Frame(sent[c])[3 + i]
    <3>1. 3 \in Nat /\ At(e, c, 3)
      BY <1>3
    <3>2. \A i \in 1..((Len(sent[c]) + 5) - 3) : line[i] = Frame(sent[c])[3 + i]
      BY <1>1, <1>4, <3>1, NextBytes
    <3> QED
      BY <3>2, <1>5
  <2>3. \A i \in 1..z : Frame(sent[c])[i + 3] = sent[c][i]
    BY <1>1, <1>4, <1>5, FrameLength, FrameIs
  <2>4. \A i \in 1..z : i \in 1..((z + 5) - 3) /\ 3 + i = i + 3
    BY <1>5
  <2>5. \A i \in 1..z : u[i] = p[i]
    BY <1>8, <2>1, <2>2, <2>3, <2>4
  <2>6. u = p
    BY <1>8, <2>1, <2>5, SeqEqual
  <2> QED
    BY <2>1, <2>6
<1>10. buffer' = sent[c] /\ sum' = Fletcher16(sent[c])
  BY <1>2, <1>5, <1>7, <1>9
<1>11. At(f, c, Len(sent[c]) + 3)
  <2>1. f = Taken(e, z)
    BY <1>5
  <2>2. At(f, c, 3 + z)
    BY <1>3, <2>1, Moves
  <2>3. 3 + z = z + 3
    OBVIOUS
  <2> QED
    BY <1>5, <2>2, <2>3
<1>12. Standing(f, c)'
  BY <1>2, <1>3, <1>10, <1>11 DEF Standing, At
<1>13. Delivered(c)'
  BY <1>2 DEF Delivered
<1> QED
  BY <1>5, <1>12, <1>13

(* The frame the parser is in is handed on.                                  *)
LEMMA DeliverOne ==
  ASSUME Whole, NEW c \in 1..Len(sent), Delivered(c), given' = Append(given, sent[c]), UNCHANGED sent
  PROVE  Delivered(c + 1)' /\ given' \in Seq(Seq(0..255))
<1>1. /\ sent \in Sendings /\ Len(sent) \in Nat /\ given \in Seq(Seq(0..255))
      /\ sent[c] \in Seq(0..255)
  BY WholeBefore, SendingFacts
<1>2. PICK n \in Nat : n = Len(given)
  BY <1>1
<1>3. PICK t : /\ t = Append(given, sent[c]) /\ t \in Seq(Seq(0..255)) /\ Len(t) = n + 1
               /\ t[n + 1] = sent[c] /\ \A i \in 1..n : t[i] = given[i]
  <2>1. PICK T : T = Seq(0..255)
    OBVIOUS
  <2>2. given \in Seq(T) /\ sent[c] \in T
    BY <1>1, <2>1
  <2>3. PICK u : u = Append(given, sent[c])
    OBVIOUS
  <2>4. u \in Seq(T) /\ Len(u) = n + 1 /\ u[n + 1] = sent[c] /\ \A i \in 1..n : u[i] = given[i]
    BY <1>2, <2>2, <2>3, AppendProperties
  <2> QED
    BY <2>1, <2>3, <2>4
<1>4. n = c - 1 /\ \A i \in 1..n : given[i] = sent[i]
  BY <1>2 DEF Delivered
<1>5. \A i \in 1..(n + 1) : i \in 1..n \/ i = n + 1
  BY <1>2
<1>6. n + 1 = c /\ (c + 1) - 1 = n + 1
  BY <1>1, <1>2, <1>4
<1>7. \A i \in 1..(n + 1) : t[i] = sent[i]
  BY <1>3, <1>4, <1>5, <1>6
<1>8. Len(t) = (c + 1) - 1 /\ \A i \in 1..((c + 1) - 1) : t[i] = sent[i]
  BY <1>3, <1>6, <1>7
<1>9. given' = t /\ sent' = sent
  BY <1>3
<1> QED
  BY <1>3, <1>8, <1>9 DEF Delivered

(* WAIT_FOR_CHECKSUM its checksum, and octoMessageCB is called.              *)
LEMMA ChecksumStep ==
  ASSUME Whole, WaitForChecksum, died \in Nat, died' = died,
         NEW e, NEW c \in 1..(Len(sent) + 1), Carries(e, sent, line), Standing(e, c), Delivered(c),
         NEW f, f = Taken(e, 2)
  PROVE  /\ given' \in Seq(Seq(0..255))
         /\ \E d \in 1..(Len(sent) + 1) : Standing(f, d)' /\ Delivered(d)'
<1>1. /\ sent \in Sendings /\ line \in Seq(Nat) /\ Len(sent) \in Nat /\ Len(line) \in Nat
  BY WholeBefore
<1>2. state = "checksum" /\ Read(2) /\ UNCHANGED <<sent, lost, sync, len, sum>>
  BY DEF WaitForChecksum
<1>3. <<line[1], line[2]>> = sum => given' = Append(given, buffer) /\ state' = "sync"
  <2>1. died' # died + 1
    OBVIOUS
  <2> QED
    BY <1>2, <2>1 DEF WaitForChecksum, Accepts, AfterFrame
<1>4. Len(line) > 0
  BY <1>1, <1>2 DEF Read
<1>5. /\ c <= Len(sent) /\ At(e, c, Len(sent[c]) + 3) /\ sync[2] = Sync2
      /\ buffer = sent[c] /\ sum = Fletcher16(sent[c])
  BY <1>2 DEF Standing
<1>6. QED
  <2>1. c \in 1..Len(sent) /\ c + 1 \in 1..(Len(sent) + 1) /\ sent[c] \in Seq(0..255)
    BY <1>1, <1>5, FrameLength
  <2>2. PICK z \in Nat : z = Len(sent[c])
    BY <1>1, <2>1, FrameLength
  <2>3. <<line[1], line[2]>> = sum
    <3>1. \A i \in 1..((z + 5) - (z + 3)) : line[i] = Frame(sent[c])[(z + 3) + i]
      <4>1. z + 3 \in Nat /\ At(e, c, z + 3)
        BY <1>5, <2>2
      <4>2. \A i \in 1..((Len(sent[c]) + 5) - (z + 3)) : line[i] = Frame(sent[c])[(z + 3) + i]
        BY <1>1, <2>1, <4>1, NextBytes
      <4> QED
        BY <4>2, <2>2
    <3>2. sum = <<Frame(sent[c])[z + 4], Frame(sent[c])[z + 5]>>
      BY <1>5, <2>1, <2>2, FrameIs
    <3>3. /\ 1 \in 1..((z + 5) - (z + 3)) /\ 2 \in 1..((z + 5) - (z + 3))
          /\ (z + 3) + 1 = z + 4 /\ (z + 3) + 2 = z + 5
      OBVIOUS
    <3>4. line[1] = Frame(sent[c])[z + 4] /\ line[2] = Frame(sent[c])[z + 5]
      BY <3>1, <3>3
    <3> QED
      BY <3>2, <3>4
  <2>4. given' = Append(given, sent[c])
    BY <1>3, <1>5, <2>3
  <2>5. Delivered(c + 1)' /\ given' \in Seq(Seq(0..255))
    BY <1>2, <2>1, <2>4, DeliverOne
  <2>6. At(f, c + 1, 0)
    <3>1. z + 3 \in Nat /\ At(e, c, z + 3) /\ (z + 3) + 2 = z + 5
      BY <1>5, <2>2
    <3> QED
      BY <1>5, <2>2, <3>1, Moves
  <2>7. Standing(f, c + 1)'
    <3>1. state' = "sync"
      BY <1>3, <2>3
    <3> QED
      BY <2>6, <3>1 DEF Standing, At
  <2> QED
    BY <1>2, <2>1, <2>5, <2>7

-----------------------------------------------------------------------------
(* Types of the link.                                                        *)

(* A frame is bytes,                                                         *)
LEMMA FrameBytes ==
  ASSUME NEW m \in Messages
  PROVE  m \in Seq(0..255) /\ m # <<>> /\ Frame(m) \in Seq(0..255)
<1>1. PICK B : B = 0..255
  OBVIOUS
<1>2. PICK p \in Payloads, n \in 1..MaxFrames : m = Append(p, n)
  BY DEF Messages
<1>3. p \in Seq(B) /\ Len(p) < 255 /\ Len(p) \in Nat
  <2>1. Payloads \subseteq Seq(B) /\ Len(p) < 255
    BY <1>1, HostLinkAssumption
  <2> QED
    BY <2>1, LenProperties
<1>4. n \in B
  <2>1. MaxFrames \in 0..255
    BY HostLinkAssumption
  <2> QED
    BY <1>1, <2>1
<1>5. m \in Seq(B) /\ m # <<>> /\ Len(m) = Len(p) + 1
  <2>1. PICK u : u = Append(p, n)
    OBVIOUS
  <2>2. u \in Seq(B) /\ u # <<>> /\ Len(u) = Len(p) + 1
    BY <1>3, <1>4, <2>1, AppendProperties
  <2> QED
    BY <1>2, <2>1, <2>2
<1>6. Sync1 \in B /\ Sync2 \in B /\ Len(m) \in B
  <2>1. Sync1 \in B /\ Sync2 \in B
    BY <1>1 DEF Sync1, Sync2
  <2>2. \A k \in Nat : k < 255 => k + 1 \in 0..255
    OBVIOUS
  <2> QED
    BY <1>1, <1>3, <1>5, <2>1, <2>2
<1>7. PICK a : a = <<Sync1, Sync2, Len(m)>> /\ a \in Seq(B)
  <2>1. \A x, y, z \in B : <<x, y, z>> \in Seq(B)
    OBVIOUS
  <2> QED
    BY <1>6, <2>1
<1>8. Fletcher16(m) \in Seq(B)
  <2>1. Fletcher16(m) \in Sums
    BY <1>1, <1>5, FletcherType
  <2>2. \A k \in 0..254 : k \in B
    BY <1>1
  <2>3. PICK x \in 0..254, y \in 0..254 : Fletcher16(m) = <<x, y>>
    <3>1. PICK f \in Sums : f = Fletcher16(m)
      BY <2>1
    <3>2. f[1] \in 0..254 /\ f[2] \in 0..254 /\ f = <<f[1], f[2]>>
      BY DEF Sums
    <3> QED
      BY <3>1, <3>2, Zenon
  <2>4. x \in B /\ y \in B
    BY <2>2
  <2>5. <<x, y>> \in Seq(B)
    BY <2>4
  <2> QED
    BY <2>3, <2>5
<1>9. (a \o m) \o Fletcher16(m) \in Seq(B)
  <2>1. a \o m \in Seq(B)
    BY <1>5, <1>7, ConcatProperties
  <2> QED
    BY <1>8, <2>1, ConcatProperties
<1> QED
  BY <1>1, <1>5, <1>7, <1>9 DEF Frame

(* also when one of them is lost,                                            *)
LEMMA CutBytes ==
  ASSUME NEW B, NEW s \in Seq(B), NEW i \in DOMAIN s
  PROVE  RemoveAt(s, i) \in Seq(B)
<1>1. Len(s) \in Nat /\ DOMAIN s = 1..Len(s) /\ \A k \in 1..Len(s) : s[k] \in B
  BY LenProperties, ElementOfSeq
<1>2. i \in Int /\ 1 <= i /\ i <= Len(s)
  BY <1>1
<1>3. SubSeq(s, 1, i - 1) \in Seq(B)
  <2>1. i - 1 \in Int /\ 1 \in Int /\ \A k \in 1..(i - 1) : s[k] \in B
    BY <1>1, <1>2
  <2> QED
    BY <2>1, SubSeqProperties
<1>4. SubSeq(s, i + 1, Len(s)) \in Seq(B)
  <2>1. i + 1 \in Int /\ Len(s) \in Int /\ \A k \in (i + 1)..Len(s) : s[k] \in B
    BY <1>1, <1>2
  <2> QED
    BY <2>1, SubSeqProperties
<1> QED
  BY <1>3, <1>4, ConcatProperties DEF RemoveAt

(* and so is what is read of them.                                           *)
LEMMA ReadBytes ==
  ASSUME LinkTypeOK, NEW n \in Nat, Read(n)
  PROVE  /\ line' \in Seq(0..255) /\ SubSeq(line, 1, n) \in Seq(0..255)
         /\ n > 0 => Head(line) \in 0..255
<1>1. PICK B : B = 0..255
  OBVIOUS
<1>2. line \in Seq(B)
  BY <1>1 DEF LinkTypeOK
<1>3. Len(line) \in Nat /\ n <= Len(line) /\ \A k \in 1..Len(line) : line[k] \in B
  BY <1>2, LenProperties, ElementOfSeq DEF Read
<1>4. SubSeq(line, n + 1, Len(line)) \in Seq(B)
  <2>1. n + 1 \in Int /\ Len(line) \in Int /\ \A k \in (n + 1)..Len(line) : line[k] \in B
    BY <1>3
  <2> QED
    BY <2>1, SubSeqProperties
<1>5. SubSeq(line, 1, n) \in Seq(B)
  <2>1. 1 \in Int /\ n \in Int /\ \A k \in 1..n : line[k] \in B
    BY <1>3
  <2> QED
    BY <2>1, SubSeqProperties
<1>6. n > 0 => Head(line) \in B
  <2>1. n > 0 => line # <<>>
    BY <1>3
  <2> QED
    BY <1>2, <2>1, HeadTailProperties
<1>7. line' = SubSeq(line, n + 1, Len(line))
  BY DEF Read
<1> QED
  BY <1>1, <1>4, <1>5, <1>6, <1>7

(* Whatever the line loses, the parser reads bytes, of a length and a        *)
(* checksum in their ranges (serialCb, octoCmd.pl), and the bounds hold.     *)
THEOREM LinkTypeCorrect == LinkSpec => []LinkTypeOK
<1>1. LinkInit => LinkTypeOK
  <2>1. MaxLost \in Nat
    BY HostLinkAssumption
  <2>2. 0 \in 0..254 /\ 0 \in 0..255
    OBVIOUS
  <2>3. <<>> \in Seq(Messages) /\ <<>> \in Seq(0..255) /\ <<>> \in Seq(Seq(0..255))
    OBVIOUS
  <2>4. 0 \in 0..MaxLost
    BY <2>1
  <2> QED
    BY <2>2, <2>3, <2>4 DEF LinkInit, LinkTypeOK
<1>2. LinkTypeOK /\ [LinkNext]_linkVars => LinkTypeOK'
  <2> SUFFICES ASSUME LinkTypeOK, [LinkNext]_linkVars PROVE LinkTypeOK'
    OBVIOUS
  <2>1. CASE SendFrame
    <3>1. /\ sent \in Seq(Messages) /\ line \in Seq(0..255) /\ lost \in 0..MaxLost
          /\ MaxLost \in Nat
      BY HostLinkAssumption DEF LinkTypeOK
    <3>2. PICK p \in Payloads :
            LET m == Append(p, Len(sent) + 1) IN
              /\ sent' = Append(sent, m)
              /\ \/ line' = line \o Frame(m) /\ UNCHANGED lost
                 \/ /\ lost < MaxLost
                    /\ \E i \in DOMAIN Frame(m) : line' = line \o RemoveAt(Frame(m), i)
                    /\ lost' = lost + 1
      BY <2>1 DEF SendFrame
    <3>3. PICK m : m = Append(p, Len(sent) + 1)
      OBVIOUS
    <3>4. m \in Messages
      <4>1. Len(sent) + 1 \in 1..MaxFrames
        <5>1. Len(sent) \in Nat /\ Len(sent) < MaxFrames
          BY <2>1, <3>1, LenProperties DEF SendFrame
        <5>2. MaxFrames \in Nat
          BY HostLinkAssumption
        <5> QED
          BY <5>1, <5>2
      <4> QED
        BY <3>3, <4>1 DEF Messages
    <3>5. sent' \in Seq(Messages)
      BY <3>1, <3>2, <3>3, <3>4, AppendProperties
    <3>6. Frame(m) \in Seq(0..255) /\ \A i \in DOMAIN Frame(m) : RemoveAt(Frame(m), i) \in Seq(0..255)
      <4>1. PICK B : B = 0..255
        OBVIOUS
      <4>2. Frame(m) \in Seq(B)
        BY <3>4, <4>1, FrameBytes
      <4> QED
        BY <4>1, <4>2, CutBytes
    <3>7. line' \in Seq(0..255)
      <4>1. PICK B : B = 0..255
        OBVIOUS
      <4>2. \A s \in Seq(B) : line \o s \in Seq(B)
        BY <3>1, <4>1, ConcatProperties
      <4>3. \E s \in Seq(B) : line' = line \o s
        BY <3>2, <3>3, <3>6, <4>1
      <4> QED
        BY <4>1, <4>2, <4>3
    <3>8. lost' \in 0..MaxLost
      <4>1. lost' = lost \/ (lost < MaxLost /\ lost' = lost + 1)
        BY <3>2
      <4> QED
        BY <3>1, <4>1
    <3>9. UNCHANGED <<state, sync, len, buffer, sum, given, died>>
      BY <2>1 DEF SendFrame, parser
    <3> QED
      BY <3>5, <3>7, <3>8, <3>9 DEF LinkTypeOK
  <2>2. CASE WaitForSync
    <3>1. line' \in Seq(0..255) /\ Head(line) \in 0..255
      <4>1. Read(1) /\ 1 \in Nat /\ 1 > 0
        BY <2>2 DEF WaitForSync
      <4> QED
        BY <4>1, ReadBytes
    <3>2. sync' \in (0..255) \X (0..255)
      <4>1. sync[2] \in 0..255 /\ sync' = <<sync[2], Head(line)>>
        BY <2>2 DEF WaitForSync, LinkTypeOK
      <4> QED
        BY <3>1, <4>1
    <3>3. state' \in {"sync", "len", "payload", "checksum"}
      BY <2>2 DEF WaitForSync
    <3>4. UNCHANGED <<sent, lost, len, buffer, sum, given, died>>
      BY <2>2 DEF WaitForSync
    <3> QED
      BY <3>1, <3>2, <3>3, <3>4 DEF LinkTypeOK
  <2>3. CASE WaitForLen
    <3>1. line' \in Seq(0..255) /\ Head(line) \in 0..255
      <4>1. Read(1) /\ 1 \in Nat /\ 1 > 0
        BY <2>3 DEF WaitForLen
      <4> QED
        BY <4>1, ReadBytes
    <3>2. /\ len' = Head(line) /\ state' = "payload"
          /\ UNCHANGED <<sent, lost, sync, buffer, sum, given, died>>
      BY <2>3 DEF WaitForLen
    <3> QED
      BY <3>1, <3>2 DEF LinkTypeOK
  <2>4. CASE WaitForPayload
    <3>1. len \in Nat
      <4>1. \A k \in 0..255 : k \in Nat
        OBVIOUS
      <4> QED
        BY <4>1 DEF LinkTypeOK
    <3>2. /\ Read(len) /\ buffer' = SubSeq(line, 1, len)
          /\ sum' = Fletcher16(buffer') /\ state' = "checksum"
          /\ UNCHANGED <<sent, lost, sync, len, given, died>>
      BY <2>4 DEF WaitForPayload
    <3>3. line' \in Seq(0..255) /\ buffer' \in Seq(0..255)
      BY <3>1, <3>2, ReadBytes
    <3>4. sum' \in (0..254) \X (0..254)
      BY <3>2, <3>3, FletcherType DEF Sums
    <3> QED
      BY <3>2, <3>3, <3>4 DEF LinkTypeOK
  <2>5. CASE WaitForChecksum
    <3>1. line' \in Seq(0..255)
      <4>1. Read(2) /\ 2 \in Nat
        BY <2>5 DEF WaitForChecksum
      <4> QED
        BY <4>1, ReadBytes
    <3>2. UNCHANGED <<sent, lost, sync, len, sum>>
      BY <2>5 DEF WaitForChecksum
    <3>3. given' \in Seq(Seq(0..255))
      <4>1. given' = Append(given, buffer) \/ given' = given
        BY <2>5 DEF WaitForChecksum
      <4>2. PICK T : T = Seq(0..255)
        OBVIOUS
      <4>3. given \in Seq(T) /\ buffer \in T
        BY <4>2 DEF LinkTypeOK
      <4> QED
        BY <4>1, <4>2, <4>3, AppendProperties
    <3>4. died' \in Nat
      <4>1. died \in Nat /\ (died' = died + 1 \/ died' = died)
        BY <2>5 DEF WaitForChecksum, LinkTypeOK
      <4> QED
        BY <4>1
    <3>5. buffer' \in Seq(0..255)
      <4>1. PICK B : B = 0..255
        OBVIOUS
      <4>2. buffer \in Seq(B) /\ <<>> \in Seq(B)
        BY <4>1 DEF LinkTypeOK
      <4>3. (Dies(buffer) /\ buffer' = Tail(buffer)) \/ buffer' = <<>>
        BY <2>5 DEF WaitForChecksum
      <4>4. Dies(buffer) => buffer # <<>>
        <5>1. Fatal \subseteq Payloads
          BY HostLinkAssumption
        <5>2. Dies(buffer) => buffer \in Messages
          BY <5>1 DEF Dies, Messages
        <5> QED
          BY <5>2, FrameBytes
      <4> QED
        BY <4>1, <4>2, <4>3, <4>4, HeadTailProperties
    <3>6. state' \in {"sync", "len", "payload", "checksum"}
      <4>1. state = "checksum" /\ (state' = state \/ state' = "sync")
        BY <2>5 DEF WaitForChecksum, AfterFrame
      <4> QED
        BY <4>1
    <3> QED
      BY <3>1, <3>2, <3>3, <3>4, <3>5, <3>6 DEF LinkTypeOK
  <2>6. CASE UNCHANGED linkVars
    BY <2>6 DEF linkVars, parser, LinkTypeOK
  <2> QED
    BY <2>1, <2>2, <2>3, <2>4, <2>5, <2>6 DEF LinkNext, SerialCb
<1> QED
  BY <1>1, <1>2, PTL DEF LinkSpec

-----------------------------------------------------------------------------
(* The link until it loses a byte.                                           *)

(* A frame sent and not cut leaves the parser where it is.                   *)
LEMMA SendStep ==
  ASSUME Whole, SendFrame, lost = 0, lost' = 0
  PROVE  Whole'
<1>1. /\ sent \in Sendings /\ line \in Seq(Nat) /\ given \in Seq(Seq(0..255))
      /\ \A j \in 1..Len(sent) : sent[j] \in Messages
      /\ Len(given) \in Nat
  BY WholeBefore
<1>2. PICK e : \E c \in 1..(Len(sent) + 1) : Carries(e, sent, line) /\ Standing(e, c) /\ Delivered(c)
  BY WholeBefore
<1>3. PICK c \in 1..(Len(sent) + 1) : Carries(e, sent, line) /\ Standing(e, c) /\ Delivered(c)
  BY <1>2
<1>4. PICK n \in Nat : n = Len(sent)
  BY <1>1, SendingFacts
<1>5. /\ UNCHANGED <<parser, given, died>> /\ Len(sent) < MaxFrames
      /\ \E p \in Payloads :
           sent' = Append(sent, Append(p, Len(sent) + 1)) /\ line' = line \o Frame(Append(p, Len(sent) + 1))
  <2>1. lost' # lost + 1
    OBVIOUS
  <2> QED
    BY <2>1, Zenon DEF SendFrame
<1>6. PICK p \in Payloads :
        sent' = Append(sent, Append(p, n + 1)) /\ line' = line \o Frame(Append(p, n + 1))
  BY <1>4, <1>5
<1>7. n + 1 \in 1..MaxFrames /\ n + 1 \in 0..255
  <2>1. MaxFrames \in 0..255 /\ n < MaxFrames
    BY <1>4, <1>5, HostLinkAssumption
  <2> QED
    BY <2>1
<1>8. PICK m \in Seq(0..255) :
        m = Append(p, n + 1) /\ m \in Messages /\ Len(m) > 0 /\ Last(m) = n + 1
  <2>1. PICK T : T = 0..255
    OBVIOUS
  <2>2. p \in Seq(T) /\ n + 1 \in T /\ Len(p) \in Nat
    <3>1. Payloads \subseteq Seq(T)
      BY <2>1, HostLinkAssumption
    <3> QED
      BY <1>7, <2>1, <3>1, LenProperties
  <2>3. PICK u : u = Append(p, n + 1)
    OBVIOUS
  <2>4. u \in Seq(T) /\ Len(u) = Len(p) + 1 /\ u[Len(p) + 1] = n + 1
    BY <2>2, <2>3, AppendProperties
  <2>5. Last(u) = n + 1 /\ Len(u) > 0
    BY <2>2, <2>4 DEF Last
  <2>6. u \in Messages
    BY <1>7, <2>3 DEF Messages
  <2> QED
    BY <2>1, <2>3, <2>4, <2>5, <2>6
<1>9. PICK t : /\ t = Append(sent, m) /\ t \in Seq(Seq(0..255)) /\ Len(t) = n + 1
               /\ t[n + 1] = m /\ \A k \in 1..n : t[k] = sent[k]
  <2>1. PICK T : T = Seq(0..255)
    OBVIOUS
  <2>2. sent \in Seq(T) /\ m \in T
    BY <1>1, <2>1, SendingFacts
  <2>3. PICK u : u = Append(sent, m)
    OBVIOUS
  <2>4. u \in Seq(T) /\ Len(u) = n + 1 /\ u[n + 1] = m /\ \A k \in 1..n : u[k] = sent[k]
    BY <1>4, <2>2, <2>3, AppendProperties
  <2> QED
    BY <2>1, <2>3, <2>4
<1>10. sent' = t /\ line' = line \o Frame(m)
  BY <1>6, <1>8, <1>9
<1>11. t \in Sendings /\ \A j \in 1..Len(t) : t[j] \in Messages
  <2>1. \A j \in 1..n : Len(sent[j]) > 0 /\ Last(sent[j]) = j
    BY <1>1, <1>4, SendingFacts
  <2>2. \A j \in 1..(n + 1) : j \in 1..n \/ j = n + 1
    BY <1>4
  <2>3. \A j \in 1..(n + 1) : Len(t[j]) > 0 /\ Last(t[j]) = j /\ t[j] \in Messages
    BY <1>1, <1>4, <1>8, <1>9, <2>1, <2>2
  <2>4. Len(t) = n + 1
    BY <1>9
  <2>5. \A j \in 1..Len(t) : Len(t[j]) > 0 /\ Last(t[j]) = j /\ t[j] \in Messages
    BY <2>3, <2>4, Zenon
  <2> QED
    BY <1>9, <2>5 DEF Sendings
<1>12. line' \in Seq(Nat)
  <2>1. Frame(m) \in Seq(Nat)
    BY FrameIs
  <2> QED
    BY <1>1, <1>10, <2>1, ConcatProperties
<1>13. PICK f : f = [k \in 1..(Len(sent) + 2) |-> IF k <= Len(sent) + 1 THEN e[k] ELSE Len(line) + Len(Frame(m))]
  OBVIOUS
<1>14. Carries(f, sent', line')
  BY <1>1, <1>3, <1>9, <1>10, <1>13, SendCarries
<1>15. f[c] = e[c]
  BY <1>3, <1>4, <1>13
<1>16. c \in 1..(n + 1) /\ Len(sent') = n + 1
  BY <1>3, <1>4, <1>9, <1>10
<1>17. /\ state' = state /\ sync' = sync /\ len' = len /\ buffer' = buffer /\ sum' = sum
       /\ given' = given /\ died' = died
  BY <1>5 DEF parser
<1>18. c <= Len(sent) => sent'[c] = sent[c] /\ c <= Len(sent')
  BY <1>4, <1>9, <1>10, <1>16
<1>19. Standing(f, c)'
  <2>1. \A o : At(f, c, o) = At(e, c, o)
    BY <1>15 DEF At
  <2>2. CASE state = "sync" /\ At(e, c, 0)
    <3>1. state' = "sync" /\ At(f, c, 0)
      BY <1>17, <2>1, <2>2
    <3> QED
      BY <3>1 DEF Standing, At
  <2>3. CASE /\ c <= Len(sent)
             /\ \/ state = "sync" /\ At(e, c, 1) /\ sync[2] = Sync1
                \/ state = "len" /\ At(e, c, 2) /\ sync[2] = Sync2
                \/ state = "payload" /\ At(e, c, 3) /\ sync[2] = Sync2 /\ len = Len(sent[c])
                \/ /\ state = "checksum" /\ At(e, c, Len(sent[c]) + 3) /\ sync[2] = Sync2
                   /\ buffer = sent[c] /\ sum = Fletcher16(sent[c])
    <3>1. /\ c <= Len(sent')
          /\ \/ state' = "sync" /\ At(f, c, 1) /\ sync'[2] = Sync1
             \/ state' = "len" /\ At(f, c, 2) /\ sync'[2] = Sync2
             \/ state' = "payload" /\ At(f, c, 3) /\ sync'[2] = Sync2 /\ len' = Len(sent'[c])
             \/ /\ state' = "checksum" /\ At(f, c, Len(sent'[c]) + 3) /\ sync'[2] = Sync2
                /\ buffer' = sent'[c] /\ sum' = Fletcher16(sent'[c])
      BY <1>17, <1>18, <2>1, <2>3
    <3> QED
      BY <3>1 DEF Standing, At
  <2> QED
    BY <1>3, <2>2, <2>3 DEF Standing
<1>20. Delivered(c)'
  <2>1. \A j \in 1..(c - 1) : sent'[j] = sent[j]
    <3>1. \A j \in 1..(c - 1) : j \in 1..n
      BY <1>16
    <3> QED
      BY <1>9, <1>10, <3>1
  <2> QED
    BY <1>3, <1>17, <2>1 DEF Delivered
<1>21. Tracked(f, c)'
  <2>1. c \in 1..(Len(sent') + 1) /\ c \in Nat
    BY <1>4, <1>16
  <2> QED
    BY <1>14, <1>19, <1>20, <2>1 DEF Tracked
<1>22. \E g : \E k \in Nat : Tracked(g, k)'
  BY <1>16, <1>21
<1> QED
  BY <1>1, <1>10, <1>11, <1>12, <1>17, <1>22 DEF Whole

(* One call of serialCb.                                                     *)
LEMMA ParserStep ==
  ASSUME Whole, SerialCb, died \in Nat, died' = died
  PROVE  Whole'
<1>1. given \in Seq(Seq(0..255))
  BY WholeBefore
<1>2. PICK e : \E c \in 1..(Len(sent) + 1) : Carries(e, sent, line) /\ Standing(e, c) /\ Delivered(c)
  BY WholeBefore
<1>3. PICK c \in 1..(Len(sent) + 1) : Carries(e, sent, line) /\ Standing(e, c) /\ Delivered(c)
  BY <1>2
<1>4. CASE WaitForSync
  <2>1. Read(1) /\ UNCHANGED <<sent, given, died>>
    BY <1>4 DEF WaitForSync
  <2>2. PICK f : f = Taken(e, 1)
    OBVIOUS
  <2>3. PICK d \in 1..(Len(sent) + 1) : Standing(f, d)' /\ Delivered(d)'
    BY <1>3, <1>4, <2>2, SyncStep
  <2> QED
    BY <1>1, <1>3, <2>1, <2>2, <2>3, WholeAfter
<1>5. CASE WaitForLen
  <2>1. Read(1) /\ UNCHANGED <<sent, given, died>>
    BY <1>5 DEF WaitForLen
  <2>2. PICK f : f = Taken(e, 1)
    OBVIOUS
  <2>3. PICK d \in 1..(Len(sent) + 1) : Standing(f, d)' /\ Delivered(d)'
    BY <1>3, <1>5, <2>2, LenStep
  <2> QED
    BY <1>1, <1>3, <2>1, <2>2, <2>3, WholeAfter
<1>6. CASE WaitForPayload
  <2>1. Read(len) /\ UNCHANGED <<sent, given, died>>
    BY <1>6 DEF WaitForPayload
  <2>2. PICK f : f = Taken(e, len)
    OBVIOUS
  <2>3. len \in Nat /\ \E d \in 1..(Len(sent) + 1) : Standing(f, d)' /\ Delivered(d)'
    BY <1>3, <1>6, <2>2, PayloadStep
  <2>4. PICK d \in 1..(Len(sent) + 1) : Standing(f, d)' /\ Delivered(d)'
    BY <2>3
  <2> QED
    BY <1>1, <1>3, <2>1, <2>2, <2>3, <2>4, WholeAfter
<1>7. CASE WaitForChecksum
  <2>1. Read(2) /\ UNCHANGED sent
    BY <1>7 DEF WaitForChecksum
  <2>2. PICK f : f = Taken(e, 2)
    OBVIOUS
  <2>3. /\ given' \in Seq(Seq(0..255))
        /\ \E d \in 1..(Len(sent) + 1) : Standing(f, d)' /\ Delivered(d)'
    BY <1>3, <1>7, <2>2, ChecksumStep
  <2>4. PICK d \in 1..(Len(sent) + 1) : Standing(f, d)' /\ Delivered(d)'
    BY <2>3
  <2> QED
    BY <1>3, <2>1, <2>2, <2>3, <2>4, WholeAfter
<1> QED
  BY <1>4, <1>5, <1>6, <1>7 DEF SerialCb

(* Nothing is sent yet.                                                      *)
LEMMA LinkStarts == LinkInit => LinkInv
<1>1. SUFFICES ASSUME LinkInit PROVE LinkInv
  OBVIOUS
<1>2. /\ sent = <<>> /\ line = <<>> /\ lost = 0 /\ state = "sync" /\ given = <<>> /\ died = 0
  BY <1>1 DEF LinkInit
<1>3. Len(<<>>) = 0
  OBVIOUS
<1>4. PICK z \in Nat : z = 0
  OBVIOUS
<1>5. Len(sent) = z /\ Len(line) = z /\ Len(given) = z
  BY <1>2, <1>3, <1>4
<1>6. PICK e : e = [k \in 1..(z + 1) |-> 0]
  OBVIOUS
<1>7. e \in [1..(z + 1) -> Int] /\ e[z + 1] = 0 /\ e[1] = 0
  BY <1>4, <1>6
<1>8. \A k : k \notin 1..z
  BY <1>4
<1>9. Carries(e, sent, line)
  BY <1>4, <1>5, <1>7, <1>8 DEF Carries
<1>10. Standing(e, 1)
  <2>1. At(e, 1, 0)
    BY <1>7 DEF At
  <2> QED
    BY <1>2, <2>1 DEF Standing
<1>11. Delivered(1)
  <2>1. 1 - 1 = z
    BY <1>4
  <2> QED
    BY <1>5, <1>8, <2>1 DEF Delivered
<1>12. 1 \in 1..(Len(sent) + 1) /\ 1 \in Nat
  BY <1>4, <1>5
<1>13. Tracked(e, 1)
  BY <1>9, <1>10, <1>11, <1>12 DEF Tracked
<1>14. sent \in Sendings /\ \A j \in 1..Len(sent) : sent[j] \in Messages
  <2>1. <<>> \in Seq(Seq(0..255))
    OBVIOUS
  <2> QED
    BY <1>2, <1>5, <1>8, <2>1 DEF Sendings
<1>15. line \in Seq(Nat) /\ given \in Seq(Seq(0..255)) /\ died \in Nat /\ lost \in Nat
  <2>1. <<>> \in Seq(Nat) /\ <<>> \in Seq(Seq(0..255))
    OBVIOUS
  <2> QED
    BY <1>2, <2>1
<1>16. \E g : \E c \in Nat : Tracked(g, c)
  BY <1>12, <1>13
<1> QED
  BY <1>14, <1>15, <1>16 DEF LinkInv, Whole

(* Every step keeps the invariant.                                           *)
LEMMA LinkStep == LinkInv /\ [LinkNext]_linkVars => LinkInv'
<1>1. SUFFICES ASSUME LinkInv, [LinkNext]_linkVars PROVE LinkInv'
  OBVIOUS
<1>2. lost \in Nat /\ died \in Nat /\ (lost = 0 /\ died = 0 => Whole)
  BY <1>1 DEF LinkInv
<1>3. CASE SendFrame
  <2>1. (lost' = lost \/ lost' = lost + 1) /\ died' = died
    BY <1>3 DEF SendFrame
  <2>2. lost' \in Nat /\ (lost' = 0 => lost = 0)
    BY <1>2, <2>1
  <2> QED
    BY <1>2, <1>3, <2>1, <2>2, SendStep DEF LinkInv
<1>4. CASE SerialCb
  <2>1. lost' = lost /\ (died' = died \/ died' = died + 1)
    BY <1>4 DEF SerialCb, WaitForSync, WaitForLen, WaitForPayload, WaitForChecksum
  <2>2. died' \in Nat /\ (died' = 0 => died' = died)
    BY <1>2, <2>1
  <2>3. ASSUME lost' = 0, died' = 0 PROVE Whole'
    BY <1>2, <1>4, <2>1, <2>2, <2>3, ParserStep
  <2> QED
    BY <1>2, <2>1, <2>2, <2>3 DEF LinkInv
<1>5. CASE UNCHANGED linkVars
  <2>1. UNCHANGED <<sent, line, lost, state, sync, len, buffer, sum, given, died>>
    BY <1>5 DEF linkVars, parser
  <2>2. ASSUME NEW e, NEW c PROVE Tracked(e, c) => Tracked(e, c)'
    <3>1. Standing(e, c) => Standing(e, c)'
      BY <2>1 DEF Standing, At
    <3>2. Delivered(c) => Delivered(c)'
      BY <2>1 DEF Delivered
    <3>3. Carries(e, sent, line) => Carries(e, sent, line)'
      BY <2>1
    <3> QED
      BY <2>1, <3>1, <3>2, <3>3 DEF Tracked
  <2>3. Whole => Whole'
    BY <2>1, <2>2 DEF Whole
  <2> QED
    BY <1>2, <2>1, <2>3 DEF LinkInv
<1> QED
  BY <1>1, <1>3, <1>4, <1>5 DEF LinkNext

(* What the invariant says of what octoMessageCB was given: the first        *)
(* frames, and all of them when the parser waits at the end of the line.     *)
LEMMA WholeInOrder ==
  ASSUME Whole
  PROVE  /\ Len(given) <= Len(sent) /\ \A i \in DOMAIN given : given[i] = sent[i]
         /\ Waiting => Len(given) = Len(sent)
<1>1. /\ sent \in Sendings /\ line \in Seq(Nat)
      /\ Len(sent) \in Nat /\ Len(given) \in Nat /\ Len(line) \in Nat
  BY WholeBefore
<1>2. PICK e : \E c \in 1..(Len(sent) + 1) : Carries(e, sent, line) /\ Standing(e, c) /\ Delivered(c)
  BY WholeBefore
<1>3. PICK c \in 1..(Len(sent) + 1) : Carries(e, sent, line) /\ Standing(e, c) /\ Delivered(c)
  BY <1>2
<1>4. DOMAIN given = 1..Len(given)
  <2>1. PICK T : T = Seq(0..255)
    OBVIOUS
  <2>2. given \in Seq(T)
    BY <2>1, WholeBefore
  <2> QED
    BY <2>2, LenProperties
<1>5. Len(given) <= Len(sent) /\ \A i \in DOMAIN given : given[i] = sent[i]
  <2>1. Len(given) = c - 1 /\ \A i \in 1..(c - 1) : given[i] = sent[i]
    BY <1>3 DEF Delivered
  <2>2. c - 1 <= Len(sent)
    BY <1>1, <1>3
  <2> QED
    BY <1>4, <2>1, <2>2
<1>6. ASSUME c <= Len(sent), NEW o \in Nat, At(e, c, o)
      PROVE  (Len(sent[c]) + 5) - o <= Len(line)
  <2>1. c \in 1..Len(sent)
    BY <1>1, <1>6
  <2>2. e[c + 1] = (Len(sent[c]) + 5) - o
    BY <1>1, <1>3, <1>6, <2>1, NextBytes
  <2>3. e[c + 1] <= Len(line)
    BY <1>3, <2>1 DEF Carries
  <2> QED
    BY <2>2, <2>3
<1>7. line = <<>> => Len(line) = 0
  OBVIOUS
<1>8. ASSUME Waiting, c <= Len(sent) PROVE FALSE
  <2>1. PICK z \in Nat : z = Len(sent[c])
    <3>1. c \in 1..Len(sent)
      BY <1>1, <1>8
    <3> QED
      BY <1>1, <3>1, FrameLength
  <2>2. \A o \in Nat : At(e, c, o) => (z + 5) - o <= Len(line)
    BY <1>6, <1>8, <2>1
  <2>3. PICK x \in Nat : x = Len(line)
    BY <1>1
  <2>4. CASE state = "sync" \/ state = "len"
    <3>1. x = 0
      BY <1>7, <1>8, <2>3, <2>4 DEF Waiting
    <3>2. \A o \in Nat : At(e, c, o) => o >= z + 5
      BY <2>2, <2>3, <3>1
    <3>3. ~At(e, c, 0) /\ ~At(e, c, 1) /\ ~At(e, c, 2)
      BY <3>2
    <3> QED
      BY <1>3, <2>4, <3>3 DEF Standing
  <2>5. CASE state = "payload"
    <3>1. x = 0 \/ x < len
      BY <1>7, <1>8, <2>3, <2>5 DEF Waiting
    <3>2. At(e, c, 3) /\ len = z
      BY <1>3, <2>1, <2>5 DEF Standing
    <3>3. (z + 5) - 3 <= x
      BY <2>2, <2>3, <3>2
    <3> QED
      BY <3>1, <3>2, <3>3
  <2>6. CASE state = "checksum"
    <3>1. x < 2
      BY <1>8, <2>3, <2>6 DEF Waiting
    <3>2. At(e, c, z + 3)
      BY <1>3, <2>1, <2>6 DEF Standing
    <3>3. (z + 5) - (z + 3) <= x
      BY <2>2, <2>3, <3>2
    <3> QED
      BY <3>1, <3>3
  <2> QED
    BY <1>3, <2>4, <2>5, <2>6 DEF Standing
<1>9. Waiting => Len(given) = Len(sent)
  <2>1. ASSUME ~(c <= Len(sent)) PROVE Len(given) = Len(sent)
    <3>1. c = Len(sent) + 1 /\ Len(given) = c - 1
      BY <1>1, <1>3, <2>1 DEF Delivered
    <3> QED
      BY <1>1, <3>1
  <2> QED
    BY <1>8, <2>1
<1> QED
  BY <1>5, <1>9

(* Until the line loses a byte or a callback dies, octoMessageCB gets every  *)
(* frame, in order and once, whatever the payloads are: the two sync bytes   *)
(* may be in them (serialCb, octoCmd.pl).                                    *)
THEOREM LinkQueueSafe == LinkSpec => []LosslessInOrder
<1>1. LinkInv => LosslessInOrder
  BY WholeInOrder DEF LinkInv, LosslessInOrder
<1> QED
  BY <1>1, LinkStarts, LinkStep, PTL DEF LinkSpec
=============================================================================
