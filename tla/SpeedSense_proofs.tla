--------------------------- MODULE SpeedSense_proofs ---------------------------
(***************************************************************************)
(* Theorems about SpeedSense, for every size of the window and every       *)
(* median filter that leaves one of its entries.                           *)
(***************************************************************************)
EXTENDS SpeedSense, SequenceTheorems, TLAPS

Tags == {"zero", "true", "old", "ghost"}

LEMMA WindowNotEmpty == AvgSize \in Nat /\ AvgSize >= 1
  BY SpeedSenseAssumption

(* What push() does to a window: every entry moves down, the last is new.    *)
LEMMA PushShifts ==
  ASSUME winAvg \in [1..AvgSize -> Tags], NEW tag \in Tags, PushAvg(tag)
  PROVE  /\ winAvg' \in [1..AvgSize -> Tags]
         /\ winAvg'[AvgSize] = tag
         /\ \A i \in 1..AvgSize : i < AvgSize => winAvg'[i] = winAvg[i + 1]
<1> USE WindowNotEmpty
<1>1. winAvg \in Seq(Tags) /\ Len(winAvg) = AvgSize
  BY Z3
<1>2. winAvg # <<>>
  BY <1>1, EmptySeq
<1>3. /\ Tail(winAvg) \in Seq(Tags)
      /\ Len(Tail(winAvg)) = AvgSize - 1
      /\ \A i \in 1..(AvgSize - 1) : Tail(winAvg)[i] = winAvg[i + 1]
  BY <1>1, <1>2, HeadTailProperties
<1>4. /\ Append(Tail(winAvg), tag) \in Seq(Tags)
      /\ Len(Append(Tail(winAvg), tag)) = AvgSize
      /\ \A i \in 1..(AvgSize - 1) : Append(Tail(winAvg), tag)[i] = Tail(winAvg)[i]
      /\ Append(Tail(winAvg), tag)[AvgSize] = tag
  BY <1>3, AppendProperties
<1>5. Append(Tail(winAvg), tag) \in [1..AvgSize -> Tags]
  BY <1>4, LenProperties
<1> QED
  BY <1>3, <1>4, <1>5 DEF PushAvg

(* What the end of a spin does to it: no entry is of this spin any more.     *)
LEMMA SpinEndsAges ==
  ASSUME winAvg \in [1..AvgSize -> Tags], SpinEnds
  PROVE  /\ winAvg' \in [1..AvgSize -> Tags]
         /\ \A i \in 1..AvgSize : winAvg'[i] = "zero" <=> winAvg[i] = "zero"
         /\ ownStart' = FALSE
         /\ spin' = 0 /\ spin' \in 0..AvgSize + 1
  BY WindowNotEmpty DEF SpinEnds, Tags

(* A good measure: the number of entries this spin has made goes up to one   *)
(* more than there is room for.                                              *)
LEMMA MeasureSpin ==
  ASSUME TypeOK, NEW tag \in Tags, Measure(tag)
  PROVE  /\ spin' \in 0..AvgSize + 1
         /\ motion # "turns" => spin' = spin
         /\ motion = "turns" => spin' = IF spin <= AvgSize THEN spin + 1 ELSE spin
  BY WindowNotEmpty DEF TypeOK, Measure

-----------------------------------------------------------------------------
LEMMA SpeedTypeInit == Init => TypeOK
<1> SUFFICES ASSUME Init PROVE TypeOK
  OBVIOUS
<1>1. spin \in 0..AvgSize + 1
  BY WindowNotEmpty DEF Init
<1>2. winAvg \in [1..AvgSize -> {"zero", "true", "old", "ghost"}]
  BY DEF Init
<1> QED
  BY <1>1, <1>2 DEF Init, TypeOK

LEMMA SpeedTypeStep == TypeOK /\ [Next]_vars => TypeOK'
<1> SUFFICES ASSUME TypeOK, [Next]_vars PROVE TypeOK'
  OBVIOUS
<1>0. winAvg \in [1..AvgSize -> Tags]
  BY DEF TypeOK, Tags
<1>1. CASE UNCHANGED vars
  BY <1>1 DEF TypeOK, vars
<1>2. CASE FirstEdge
  BY <1>2 DEF TypeOK, FirstEdge
<1>3. CASE HallPeriod
  <2>1. PICK pulse \in HallPulses :
          \/ /\ Measure(IF motion = "turns" /\ ownStart THEN "true" ELSE "ghost")
             /\ UNCHANGED counted
          \/ /\ \E count \in CountsErrors : counted' = (counted \/ count)
             /\ UNCHANGED <<winAvg, spin>>
    BY <1>3 DEF HallPeriod
  <2>2. winAvg' \in [1..AvgSize -> Tags] /\ spin' \in 0..AvgSize + 1
    <3> DEFINE tag == IF motion = "turns" /\ ownStart THEN "true" ELSE "ghost"
    <3>1. tag \in Tags
      BY DEF Tags
    <3> HIDE DEF tag
    <3>2. CASE Measure(tag)
      BY <1>0, <3>1, <3>2, MeasureSpin, PushShifts DEF Measure
    <3>3. CASE UNCHANGED <<winAvg, spin>>
      BY <1>0, <3>3 DEF TypeOK
    <3> QED
      BY <2>1, <3>2, <3>3 DEF tag
  <2>3. counted' \in BOOLEAN
    BY <2>1 DEF TypeOK, CountsErrors
  <2> QED
    BY <1>3, <2>2, <2>3 DEF HallPeriod, TypeOK, Tags
<1>4. CASE OptoPeriod
  <2>1. PICK tag \in Tags :
          \/ Measure(tag) /\ ownStart' = StampExchanged
          \/ UNCHANGED <<winAvg, spin, ownStart>>
    BY <1>4 DEF OptoPeriod, Tags
  <2>2. winAvg' \in [1..AvgSize -> Tags] /\ spin' \in 0..AvgSize + 1 /\ ownStart' \in BOOLEAN
    BY <1>0, <2>1, MeasureSpin, PushShifts DEF Measure, StampExchanged, TypeOK
  <2> QED
    BY <1>4, <2>2 DEF OptoPeriod, TypeOK, Tags
<1>5. CASE OverflowCb
  <2>1. winAvg' \in [1..AvgSize -> Tags] /\ ownStart' = FALSE /\ spin' \in 0..AvgSize + 1
    BY <1>0, <1>5, SpinEndsAges DEF OverflowCb
  <2> QED
    BY <1>5, <2>1 DEF OverflowCb, OverflowNoted, TypeOK, Tags
<1>6. ASSUME NEW sensor \in {"Hall_effect", "Esc_coupler"}, Start(sensor)
      PROVE  TypeOK'
  <2>1. winAvg' \in [1..AvgSize -> Tags] /\ ownStart' = FALSE /\ spin' \in 0..AvgSize + 1
    BY <1>0, <1>6, SpinEndsAges DEF Start
  <2> QED
    BY <1>6, <2>1 DEF Start, ResetBadMeasure, CaptureStarts, TypeOK, Tags
<1>7. CASE StopIcu
  BY <1>7 DEF StopIcu, TypeOK
<1>8. CASE Report
  BY <1>8 DEF Report, TypeOK
<1>9. CASE Move
  <2>1. winAvg' \in [1..AvgSize -> Tags] /\ ownStart' = FALSE /\ spin' \in 0..AvgSize + 1
    BY <1>0, <1>9, SpinEndsAges DEF Move
  <2> QED
    BY <1>9, <2>1 DEF Move, TypeOK, Tags
<1> QED
  BY <1>1, <1>2, <1>3, <1>4, <1>5, <1>6, <1>7, <1>8, <1>9 DEF Next

(* The window keeps its size, and every variable its type.                   *)
THEOREM SpeedTypeCorrect == Spec => []TypeOK
  BY SpeedTypeInit, SpeedTypeStep, PTL DEF Spec

-----------------------------------------------------------------------------
(* The inductive invariant behind SpeedIsItsOwn: the entries this spin has   *)
(* made are the last of the window, and only the first of them, made when    *)
(* there was no edge or stamp of this spin to measure from, may be wrong.    *)
SpinInv ==
    /\ motion # "turns" => spin = 0
    /\ session # "off" =>
         /\ spin > 0 => ownStart
         /\ \A i \in 1..AvgSize : i > AvgSize + 1 - spin => winAvg[i] = "true"

(* A measure keeps it, when it is the spin's own if its start was.           *)
LEMMA MeasureOwn ==
  ASSUME TypeOK, SpinInv, session # "off", UNCHANGED <<motion, session>>,
         NEW tag \in Tags, Measure(tag), ownStart' = (motion = "turns"),
         motion = "turns" /\ ownStart => tag = "true"
  PROVE  SpinInv'
<1>0. winAvg \in [1..AvgSize -> Tags] /\ spin \in 0..AvgSize + 1 /\ AvgSize \in Nat /\ AvgSize >= 1
  BY WindowNotEmpty DEF TypeOK, Tags
<1>1. CASE motion = "turns"
  <2>1. spin' = IF spin <= AvgSize THEN spin + 1 ELSE spin
    BY <1>1, MeasureSpin
  <2>2. /\ winAvg'[AvgSize] = tag
        /\ \A i \in 1..AvgSize : i < AvgSize => winAvg'[i] = winAvg[i + 1]
    BY <1>0, PushShifts DEF Measure
  <2>3. ASSUME NEW i \in 1..AvgSize, i > AvgSize + 1 - spin'
        PROVE  winAvg'[i] = "true"
    <3>1. CASE i = AvgSize
      <4>1. spin > 0
        BY <1>0, <2>1, <2>3, <3>1
      <4> QED
        BY <1>1, <2>2, <3>1, <4>1 DEF SpinInv
    <3>2. CASE i < AvgSize
      <4>1. i + 1 \in 1..AvgSize /\ i + 1 > AvgSize + 1 - spin
        BY <1>0, <2>1, <2>3, <3>2
      <4> QED
        BY <2>2, <3>2, <4>1 DEF SpinInv
    <3> QED
      BY <1>0, <3>1, <3>2
  <2> QED
    BY <1>1, <2>3 DEF SpinInv
<1>2. CASE motion # "turns"
  <2>1. spin' = 0
    BY <1>2, MeasureSpin DEF SpinInv
  <2> QED
    BY <1>0, <1>2, <2>1 DEF SpinInv
<1> QED
  BY <1>1, <1>2

LEMMA SpinStep == TypeOK /\ SpinInv /\ [Next]_vars => SpinInv'
<1> SUFFICES ASSUME TypeOK, SpinInv, [Next]_vars PROVE SpinInv'
  OBVIOUS
<1>0. winAvg \in [1..AvgSize -> Tags] /\ spin \in 0..AvgSize + 1 /\ AvgSize \in Nat /\ AvgSize >= 1
  BY WindowNotEmpty DEF TypeOK, Tags
<1>1. CASE UNCHANGED <<motion, session, winAvg, ownStart, spin>>
  BY <1>1 DEF SpinInv
<1>2. CASE Report
  BY <1>1, <1>2 DEF Report
\* An edge to measure from: this spin's own if there is a spin.
<1>3. ASSUME UNCHANGED <<motion, session, winAvg, spin>>,
             ownStart' = (motion = "turns") \/ ownStart' = ownStart
      PROVE  SpinInv'
  <2>1. spin > 0 => motion = "turns"
    BY <1>0 DEF SpinInv
  <2> QED
    BY <1>3, <2>1 DEF SpinInv
<1>4. CASE FirstEdge
  BY <1>3, <1>4 DEF FirstEdge
<1>5. CASE HallPeriod
  <2>1. session # "off" /\ UNCHANGED <<motion, session>> /\ ownStart' = (motion = "turns")
    BY <1>5 DEF HallPeriod
  <2>2. CASE Measure(IF motion = "turns" /\ ownStart THEN "true" ELSE "ghost")
    <3>1. PICK tag \in Tags : tag = IF motion = "turns" /\ ownStart THEN "true" ELSE "ghost"
      BY DEF Tags
    <3>2. Measure(tag) /\ (motion = "turns" /\ ownStart => tag = "true")
      BY <2>2, <3>1
    <3> QED
      BY <2>1, <3>2, MeasureOwn
  <2>3. CASE UNCHANGED <<winAvg, spin>>
    BY <1>3, <2>1, <2>3
  <2> QED
    BY <1>5, <2>2, <2>3 DEF HallPeriod
<1>6. CASE OptoPeriod
  <2>1. session # "off" /\ UNCHANGED <<motion, session>>
    BY <1>6 DEF OptoPeriod
  <2>2. CASE UNCHANGED <<winAvg, spin, ownStart>>
    BY <1>1, <2>1, <2>2
  <2>3. ASSUME NEW silence \in InBurst \cup AfterBurst, silence > InactiveDurationToDetectEnd
        PROVE  silence \in AfterBurst
    BY <2>3 DEF InBurst, AfterBurst, InactiveDurationToDetectEnd, InactiveDurationToDetectError,
           MilliSeconds2timerOptoClk, MicroSeconds2timerOptoClk, TimerFreqOpto, CounterTicks
  <2>4. CASE \E silence \in InBurst \cup AfterBurst :
               /\ silence > InactiveDurationToDetectEnd
               /\ Measure(IF motion = "turns" /\ ownStart /\ silence \in AfterBurst
                            THEN "true" ELSE "ghost")
               /\ ownStart' = StampExchanged
    <3>1. PICK tag \in Tags : Measure(tag) /\ (motion = "turns" /\ ownStart => tag = "true")
      BY <2>3, <2>4 DEF Tags
    <3>2. ownStart' = (motion = "turns")
      BY <2>4 DEF StampExchanged
    <3> QED
      BY <2>1, <3>1, <3>2, MeasureOwn
  <2> QED
    BY <1>6, <2>2, <2>4 DEF OptoPeriod
<1>7. CASE OverflowCb \/ Move \/ \E sensor \in {"Hall_effect", "Esc_coupler"} : Start(sensor)
  <2>1. spin' = 0
    BY <1>7 DEF OverflowCb, Move, Start, SpinEnds
  <2> QED
    BY <1>0, <2>1 DEF SpinInv
<1>8. CASE StopIcu
  BY <1>8 DEF StopIcu, SpinInv
<1> QED
  BY <1>1, <1>2, <1>4, <1>5, <1>6, <1>7, <1>8 DEF Next, vars

(* For every size of the window, with either sensor: of the measures a spin  *)
(* has made all but the first are its own, so that a window's length of them *)
(* leaves one entry at most for the filter to drop, and one more leaves none *)
(* (period_cb and overflow_cb of periodSense.cpp, session after session).    *)
THEOREM SpeedSafe == Spec => []SpeedIsItsOwn
<1>1. Init => SpinInv
  BY WindowNotEmpty DEF Init, SpinInv
<1>2. SpinInv => SpeedIsItsOwn
  BY DEF SpinInv, SpeedIsItsOwn
<1> QED
  BY <1>1, <1>2, SpinStep, SpeedTypeCorrect, PTL DEF Spec
=============================================================================
