-------------------------- MODULE ErrorWindow_proofs --------------------------
(***************************************************************************)
(* Theorems about ErrorWindow, for any number of motors, any size of the   *)
(* windows and any number of measures per message.                         *)
(***************************************************************************)
EXTENDS ErrorWindow, FiniteSetTheorems, TLAPS

Tags == {"good", "bad", "told"}

LEMMA Sizes == NbMotors \in Nat /\ NbMotors >= 1 /\ WindowSize \in Nat /\ WindowSize >= 1
               /\ Rate \in Nat /\ Rate >= 1
  BY ErrorWindowAssumption

-----------------------------------------------------------------------------
(* The operators                                                             *)

(* A push moves every entry one place towards the head.                      *)
LEMMA SlideShifts ==
  ASSUME NEW w \in [1..WindowSize -> Tags], NEW e \in Tags
  PROVE  /\ Slide(w, e) \in [1..WindowSize -> Tags]
         /\ Slide(w, e)[WindowSize] = e
         /\ \A i \in 1..(WindowSize - 1) : Slide(w, e)[i] = w[i + 1]
         /\ Head(w) = w[1]
<1>1. w \in Seq(Tags) /\ Len(w) = WindowSize
  BY Sizes
<1>2. Tail(w) \in Seq(Tags) /\ Len(Tail(w)) = WindowSize - 1
      /\ \A i \in 1..(WindowSize - 1) : Tail(w)[i] = w[i + 1]
  BY <1>1, Sizes
<1>3. Slide(w, e) \in Seq(Tags) /\ Len(Slide(w, e)) = WindowSize
      /\ Slide(w, e)[WindowSize] = e
      /\ \A i \in 1..(WindowSize - 1) : Slide(w, e)[i] = Tail(w)[i]
  BY <1>2, Sizes DEF Slide
<1> QED
  BY <1>1, <1>2, <1>3, Sizes

(* A window whose sum is 0 has no bad measure.                               *)
LEMMA SumOfGood ==
  ASSUME NEW m
  PROVE  /\ GetSum(m) \in Nat
         /\ GetSum(m) = 0 => \A i \in 1..WindowSize : winErr[m][i] = "good"
<1> DEFINE Bad == {i \in 1..WindowSize : winErr[m][i] # "good"}
<1>1. IsFiniteSet(1..WindowSize)
  BY Sizes, FS_Interval
<1>2. IsFiniteSet(Bad)
  BY <1>1, FS_Subset
<1>3. Cardinality(Bad) \in Nat /\ (Cardinality(Bad) = 0 <=> Bad = {})
  BY <1>2, FS_CardinalityType, FS_EmptySet
<1> QED
  BY <1>3 DEF GetSum

(* The counter of messages goes round.                                       *)
LEMMA CounterRound ==
  ASSUME NEW c \in 0..(WindowSize - 1)
  PROVE  (c + 1) % WindowSize = IF c + 1 = WindowSize THEN 0 ELSE c + 1
  BY Sizes

-----------------------------------------------------------------------------
(* Types                                                                     *)

LEMMA PushType ==
  ASSUME TypeOK, NEW m \in Motors, NEW e \in Tags, Push(m, e)
  PROVE  /\ winErr' \in [Motors -> [1..WindowSize -> Tags]]
         /\ made' \in [Motors -> 0..Rate]
         /\ lost' \in [Motors -> Nat]
<1>1. Slide(winErr[m], e) \in [1..WindowSize -> Tags]
  BY SlideShifts DEF TypeOK, Tags
<1> QED
  BY <1>1, Sizes DEF Push, TypeOK, Tags

(* A copy leaves no bad measure untold in its window, and others alone.      *)
LEMMA CopyTells ==
  ASSUME TypeOK, CopyOne
  PROVE  /\ winErr' \in [Motors -> [1..WindowSize -> Tags]]
         /\ \A m \in Motors \ {motor} : winErr'[m] = winErr[m]
         /\ motor \in Motors => \A i \in 1..WindowSize : winErr'[motor][i] # "bad"
<1>1. CASE motor <= NbMotors
  <2> DEFINE told == [i \in 1..WindowSize |-> IF winErr[motor][i] = "bad" THEN "told" ELSE winErr[motor][i]]
  <2>1. motor \in Motors
    BY <1>1, Sizes DEF TypeOK, Motors
  <2>2. winErr' = [winErr EXCEPT ![motor] = told]
    BY <1>1 DEF CopyOne
  <2>3. winErr[motor] \in [1..WindowSize -> Tags]
    BY <2>1 DEF TypeOK, Tags
  <2>4. told \in [1..WindowSize -> Tags] /\ \A i \in 1..WindowSize : told[i] # "bad"
    BY <2>3 DEF Tags
  <2> QED
    BY <2>1, <2>2, <2>4 DEF TypeOK, Tags
<1>2. CASE ~(motor <= NbMotors)
  <2>1. motor \notin Motors
    BY <1>2, Sizes DEF TypeOK, Motors
  <2> QED
    BY <1>2, <2>1 DEF CopyOne, TypeOK, Tags
<1> QED
  BY <1>1, <1>2

LEMMA WindowTypeStep == TypeOK /\ [Next]_vars => TypeOK'
<1> SUFFICES ASSUME TypeOK, [Next]_vars PROVE TypeOK'
  OBVIOUS
<1>1. CASE UNCHANGED vars
  BY <1>1 DEF TypeOK, vars
<1>2. ASSUME NEW m \in Motors, PeriodGood(m) \/ PeriodBad(m) \/ Overflow(m)
      PROVE  TypeOK'
  <2>1. PICK e \in Tags : Push(m, e)
    BY <1>2 DEF PeriodGood, PeriodBad, Overflow, Tags
  <2>2. overflow' \in [Motors -> BOOLEAN]
    BY <1>2 DEF PeriodGood, PeriodBad, Overflow, TypeOK
  <2>3. UNCHANGED <<stream, cnt, motor, sum>>
    BY <2>1 DEF Push
  <2> QED
    BY <2>1, <2>2, <2>3, PushType DEF TypeOK, Tags
<1>3. CASE Start
  BY <1>3, Sizes DEF Start, TypeOK
<1>4. CASE Stop
  BY <1>4 DEF Stop, TypeOK
<1>5. CASE RpmsSent
  <2>1. cnt' \in 0..(WindowSize - 1)
    BY <1>5, CounterRound, Sizes DEF RpmsSent, TypeOK
  <2> QED
    BY <1>5, <2>1 DEF RpmsSent, TypeOK
<1>6. CASE SumOne
  <2>1. GetSum(motor) \in Nat
    BY SumOfGood
  <2>2. motor' \in 1..(NbMotors + 1)
    BY <1>6, Sizes DEF SumOne, TypeOK
  <2>3. lost' \in [Motors -> Nat]
    BY <1>6 DEF SumOne, TypeOK
  <2>4. sum' \in Nat
    BY <1>6, <2>1 DEF SumOne, TypeOK
  <2> QED
    BY <1>6, <2>2, <2>3, <2>4 DEF SumOne, TypeOK
<1>7. CASE CopyOne
  <2>1. motor' \in 1..(NbMotors + 1)
    BY <1>7, Sizes DEF CopyOne, TypeOK
  <2>2. winErr' \in [Motors -> [1..WindowSize -> Tags]]
    BY <1>7, CopyTells
  <2> QED
    BY <1>7, <2>1, <2>2 DEF CopyOne, TypeOK, Tags
<1>8. CASE ErrorsSent
  BY <1>8 DEF ErrorsSent, TypeOK
<1>9. CASE Wake
  BY <1>9, Sizes DEF Wake, TypeOK
<1> QED
  BY <1>1, <1>2, <1>3, <1>4, <1>5, <1>6, <1>7, <1>8, <1>9 DEF Next, StreamerStep

(* Every variable keeps its type; the windows keep their size.               *)
THEOREM WindowTypeCorrect == Spec => []TypeOK
<1>1. Init => TypeOK
  BY Sizes DEF Init, TypeOK
<1> QED
  BY <1>1, WindowTypeStep, PTL DEF Spec

-----------------------------------------------------------------------------
(* What may be lost                                                          *)

\* The bad measures nobody was told of are among the last p.
Recent(m, p) == \A i \in 1..WindowSize : winErr[m][i] = "bad" => i > WindowSize - p

\* Of p measures, those that have left the window.
Gone(p) == IF p > WindowSize THEN p - WindowSize ELSE 0

\* Since the last check motor m made n measures at most: q left the window
\* between its sum and its copy, and p came after.
Accounted(m, n) ==
    \E p, q \in Nat :
        /\ Recent(m, p)
        /\ lost[m] <= q + Gone(p)
        /\ q <= Rate
        /\ p + q <= n

\* The same, when its sum found no bad measure.
Clean(m) ==
    \E p \in Nat :
        /\ Recent(m, p)
        /\ lost[m] <= Gone(p)
        /\ p <= made[m]

\* Messages since the one of the last check, after the Rpms message is sent.
After == IF cnt = 0 THEN WindowSize - 1 ELSE cnt - 1

MessagesSince ==
    IF stream = "off" THEN WindowSize - 1
    ELSE IF stream = "sum" \/ (stream = "send" /\ cnt = 0) THEN WindowSize
    ELSE IF stream = "send" THEN cnt
    ELSE After

\* Has the check summed the window of m, and may have to copy it?
Checked(m) == (stream = "sum" /\ motor > m) \/ (stream = "copy" /\ motor <= m)

LossOf(m) ==
    IF Checked(m)
    THEN lost[m] <= made[m] /\ (stream = "sum" /\ sum = 0 => Clean(m))
    ELSE Accounted(m, Rate * MessagesSince + made[m])

LossInv ==
    /\ stream \notin {"sum", "copy"} => motor = 1
    /\ stream \in {"sum", "copy", "report"} => After = 0
    /\ \A m \in Motors : LossOf(m)

(* Products of the two parameters, for the provers.                          *)
LEMMA Products ==
  /\ Rate * 0 = 0
  /\ \A k \in Nat : Rate * k \in Nat /\ Rate * (k + 1) = Rate * k + Rate
  /\ \A j, k \in Nat : j <= k => Rate * j <= Rate * k
  /\ (Rate - 1) * WindowSize = Rate * WindowSize - WindowSize
  /\ (Rate - 1) * WindowSize \in Nat
  BY Sizes

LEMMA LossBoundedByInv == TypeOK /\ LossInv => LossBounded
<1> SUFFICES ASSUME TypeOK, LossInv, NEW m \in Motors
             PROVE  lost[m] <= (Rate - 1) * WindowSize + Rate
  BY DEF LossBounded
<1>0. lost[m] \in Nat /\ made[m] \in 0..Rate /\ Rate \in Nat
  BY Sizes DEF TypeOK
<1>1. CASE Checked(m)
  BY <1>0, <1>1, Products DEF LossInv, LossOf
<1>2. CASE ~Checked(m)
  <2>1. MessagesSince \in 0..WindowSize
    BY Sizes DEF MessagesSince, After, TypeOK
  <2>2. PICK p, q \in Nat : /\ lost[m] <= q + Gone(p)
                            /\ q <= Rate
                            /\ p + q <= Rate * MessagesSince + made[m]
    BY <1>2 DEF LossInv, LossOf, Accounted
  <2>3. Rate * MessagesSince \in Nat /\ Rate * MessagesSince <= Rate * WindowSize
        /\ Rate * WindowSize \in Nat
    BY <2>1, Products, Sizes
  <2>4. p + q <= Rate * WindowSize + Rate
    <3> HIDE DEF MessagesSince
    <3> QED
      BY <1>0, <2>2, <2>3
  <2> QED
    BY <1>0, <2>2, <2>4, Products, Sizes DEF Gone
<1> QED
  BY <1>1, <1>2

(* More measures may be accounted for than there were.                       *)
LEMMA AccountedMore ==
  ASSUME NEW m, NEW n \in Nat, NEW k \in Nat, n <= k, Accounted(m, n)
  PROVE  Accounted(m, k)
  BY DEF Accounted

(* A push of motor m makes one more recent measure; what it pushes out was   *)
(* recent, or is not untold.                                                 *)
LEMMA PushRecent ==
  ASSUME TypeOK, NEW m \in Motors, NEW e \in Tags, Push(m, e), NEW p \in Nat, Recent(m, p)
  PROVE  /\ Recent(m, p + 1)'
         /\ lost'[m] <= lost[m] + 1
         /\ lost'[m] \in Nat
         /\ lost'[m] # lost[m] => Gone(p + 1) = Gone(p) + 1
         /\ Gone(p) \in Nat /\ Gone(p + 1) \in Nat /\ Gone(p) <= Gone(p + 1)
<1>0. winErr[m] \in [1..WindowSize -> Tags] /\ lost[m] \in Nat
  BY DEF TypeOK, Tags
<1>1. winErr'[m] = Slide(winErr[m], e)
  BY DEF Push, TypeOK
<1>2. /\ winErr'[m][WindowSize] = e
      /\ \A i \in 1..(WindowSize - 1) : winErr'[m][i] = winErr[m][i + 1]
      /\ Head(winErr[m]) = winErr[m][1]
  BY <1>0, <1>1, SlideShifts
<1>3. Recent(m, p + 1)'
  <2> SUFFICES ASSUME NEW i \in 1..WindowSize, winErr'[m][i] = "bad"
               PROVE  i > WindowSize - (p + 1)
    BY DEF Recent
  <2>1. CASE i = WindowSize
    BY <2>1, Sizes
  <2>2. CASE i # WindowSize
    <3>1. i \in 1..(WindowSize - 1) /\ i + 1 \in 1..WindowSize
      BY <2>2, Sizes
    <3>2. i + 1 > WindowSize - p
      BY <1>2, <3>1 DEF Recent
    <3> QED
      BY <3>1, <3>2, Sizes
  <2> QED
    BY <2>1, <2>2
<1>4. lost'[m] = IF winErr[m][1] = "bad" THEN lost[m] + 1 ELSE lost[m]
  BY <1>2 DEF Push, TypeOK
<1>5. lost'[m] # lost[m] => p >= WindowSize
  <2> SUFFICES ASSUME lost'[m] # lost[m] PROVE p >= WindowSize
    OBVIOUS
  <2>1. winErr[m][1] = "bad" /\ 1 \in 1..WindowSize
    BY <1>4, Sizes
  <2>2. 1 > WindowSize - p
    BY <2>1 DEF Recent
  <2> QED
    BY <2>2, Sizes
<1>6. /\ Gone(p) \in Nat /\ Gone(p + 1) \in Nat /\ Gone(p) <= Gone(p + 1)
      /\ p >= WindowSize => Gone(p + 1) = Gone(p) + 1
  BY Sizes DEF Gone
<1> QED
  BY <1>0, <1>3, <1>4, <1>5, <1>6

LEMMA PushLoss ==
  ASSUME TypeOK, NEW m \in Motors, NEW e \in Tags, Push(m, e)
  PROVE  /\ Clean(m) => Clean(m)'
         /\ \A n \in Nat : Accounted(m, n) => Accounted(m, n + 1)'
         /\ lost[m] <= made[m] => lost'[m] <= made'[m]
         /\ made'[m] = made[m] + 1
<1>0. lost[m] \in Nat /\ made[m] \in Nat
  BY Sizes DEF TypeOK
<1>1. made'[m] = made[m] + 1
  BY DEF Push, TypeOK
<1>2. lost'[m] \in {lost[m], lost[m] + 1}
  BY DEF Push, TypeOK
<1>3. ASSUME Clean(m) PROVE Clean(m)'
  <2>1. PICK p \in Nat : Recent(m, p) /\ lost[m] <= Gone(p) /\ p <= made[m]
    BY <1>3 DEF Clean
  <2>2. /\ Recent(m, p + 1)'
        /\ lost'[m] # lost[m] => Gone(p + 1) = Gone(p) + 1
        /\ Gone(p) \in Nat /\ Gone(p + 1) \in Nat /\ Gone(p) <= Gone(p + 1)
    BY <2>1, PushRecent
  <2>3. lost'[m] <= Gone(p + 1) /\ p + 1 <= made'[m] /\ p + 1 \in Nat
    BY <1>0, <1>1, <1>2, <2>1, <2>2
  <2> QED
    BY <2>2, <2>3 DEF Clean, Gone
<1>4. ASSUME NEW n \in Nat, Accounted(m, n) PROVE Accounted(m, n + 1)'
  <2>1. PICK p, q \in Nat : Recent(m, p) /\ lost[m] <= q + Gone(p) /\ q <= Rate /\ p + q <= n
    BY <1>4 DEF Accounted
  <2>2. /\ Recent(m, p + 1)'
        /\ lost'[m] # lost[m] => Gone(p + 1) = Gone(p) + 1
        /\ Gone(p) \in Nat /\ Gone(p + 1) \in Nat /\ Gone(p) <= Gone(p + 1)
    BY <2>1, PushRecent
  <2>3. lost'[m] <= q + Gone(p + 1) /\ (p + 1) + q <= n + 1 /\ p + 1 \in Nat
    BY <1>0, <1>2, <2>1, <2>2
  <2> QED
    BY <2>1, <2>2, <2>3 DEF Accounted, Gone
<1> QED
  BY <1>0, <1>1, <1>2, <1>3, <1>4

(* What is claimed of a motor only depends on its own window and counts.     *)
LEMMA OtherLoss ==
  ASSUME NEW m, winErr'[m] = winErr[m], lost'[m] = lost[m]
  PROVE  /\ \A n : Accounted(m, n) => Accounted(m, n)'
         /\ made'[m] = made[m] => (Clean(m) => Clean(m)')
  BY DEF Accounted, Clean, Recent, Gone

(* A number of measures that is the one LossOf speaks of.                    *)
LEMMA AccountedFor ==
  ASSUME NEW m, NEW n, Accounted(m, n)', n = (Rate * MessagesSince + made[m])', ~Checked(m)'
  PROVE  LossOf(m)'
  BY DEF LossOf, Accounted

LEMMA LossPush ==
  ASSUME TypeOK, LossInv, NEW k \in Motors, NEW e \in Tags, Push(k, e)
  PROVE  LossInv'
<1>1. UNCHANGED <<stream, cnt, motor, sum>>
  BY DEF Push
<1>2. UNCHANGED After /\ UNCHANGED MessagesSince
  BY <1>1 DEF After, MessagesSince
<1>3. ASSUME NEW m \in Motors PROVE LossOf(m)'
  <2>0. Checked(m)' <=> Checked(m)
    BY <1>1 DEF Checked
  <2>1. LossOf(m)
    BY DEF LossInv
  <2>2. Rate * MessagesSince \in Nat /\ made[m] \in Nat
    <3>1. MessagesSince \in Nat
      BY Sizes DEF MessagesSince, After, TypeOK
    <3> QED
      BY <3>1, Products, Sizes DEF TypeOK
  <2>3. CASE m = k
    <3>1. /\ Clean(m) => Clean(m)'
          /\ \A n \in Nat : Accounted(m, n) => Accounted(m, n + 1)'
          /\ lost[m] <= made[m] => lost'[m] <= made'[m]
          /\ made'[m] = made[m] + 1
      BY <2>3, PushLoss
    <3>2. CASE Checked(m)
      BY <1>1, <2>0, <2>1, <3>1, <3>2 DEF LossOf
    <3>3. CASE ~Checked(m)
      <4>1. PICK n \in Nat : n = Rate * MessagesSince + made[m]
        BY <2>2
      <4>2. Accounted(m, n)
        BY <2>1, <3>3, <4>1 DEF LossOf
      <4>3. Accounted(m, n + 1)'
        BY <3>1, <4>2
      <4>4. n + 1 = (Rate * MessagesSince + made[m])'
        BY <1>2, <2>2, <3>1, <4>1
      <4> QED
        BY <2>0, <3>3, <4>3, <4>4, AccountedFor
    <3> QED
      BY <3>2, <3>3
  <2>4. CASE m # k
    <3>1. winErr'[m] = winErr[m] /\ lost'[m] = lost[m] /\ made'[m] = made[m]
      BY <2>4 DEF Push, TypeOK
    <3>2. CASE Checked(m)
      BY <1>1, <2>0, <2>1, <3>1, <3>2, OtherLoss DEF LossOf
    <3>3. CASE ~Checked(m)
      <4>1. PICK n \in Nat : n = Rate * MessagesSince + made[m]
        BY <2>2
      <4>2. Accounted(m, n)
        BY <2>1, <3>3, <4>1 DEF LossOf
      <4>3. Accounted(m, n)'
        BY <3>1, <4>2, OtherLoss
      <4>4. n = (Rate * MessagesSince + made[m])'
        BY <1>2, <3>1, <4>1
      <4> QED
        BY <2>0, <3>3, <4>3, <4>4, AccountedFor
    <3> QED
      BY <3>2, <3>3
  <2> QED
    BY <2>3, <2>4
<1> QED
  BY <1>1, <1>2, <1>3 DEF LossInv

-----------------------------------------------------------------------------
(* The steps of the thread                                                   *)

LEMMA SinceType ==
  TypeOK => After \in 0..(WindowSize - 1) /\ MessagesSince \in 0..WindowSize
  BY Sizes DEF MessagesSince, After, TypeOK

(* A motor that no check is at, before and after: its count may only go on.  *)
LEMMA LossUnchecked ==
  ASSUME TypeOK, TypeOK', LossInv, NEW m \in Motors, ~Checked(m), ~Checked(m)',
         winErr'[m] = winErr[m], lost'[m] = lost[m],
         \/ MessagesSince' = MessagesSince + 1 /\ made'[m] = 0
         \/ MessagesSince' >= MessagesSince /\ made'[m] = made[m]
  PROVE  LossOf(m)'
<1>1. /\ MessagesSince \in Nat /\ MessagesSince' \in Nat
      /\ made[m] \in 0..Rate /\ made'[m] \in 0..Rate
  <2>1. TypeOK' => (MessagesSince \in 0..WindowSize)'
    BY SinceType, PTL
  <2>2. MessagesSince \in 0..WindowSize /\ MessagesSince' \in 0..WindowSize
    BY <2>1, SinceType
  <2> QED
    BY <2>2, Sizes DEF TypeOK
<1>2. PICK n \in Nat : n = Rate * MessagesSince + made[m]
  BY <1>1, Products, Sizes
<1>3. PICK k \in Nat : k = (Rate * MessagesSince + made[m])'
  BY <1>1, Products, Sizes
<1>4. n <= k
  <2>1. CASE MessagesSince' = MessagesSince + 1 /\ made'[m] = 0
    BY <1>1, <1>2, <1>3, <2>1, Products, Sizes
  <2>2. CASE MessagesSince' >= MessagesSince /\ made'[m] = made[m]
    <3>1. Rate * MessagesSince <= Rate * MessagesSince'
      BY <1>1, <2>2, Products
    <3> QED
      BY <1>1, <1>2, <1>3, <2>2, <3>1, Products, Sizes
  <2> QED
    BY <2>1, <2>2
<1>5. Accounted(m, n)
  BY <1>2 DEF LossInv, LossOf
<1>6. Accounted(m, k)
  BY <1>4, <1>5, AccountedMore
<1>7. Accounted(m, k)'
  BY <1>6, OtherLoss
<1> QED
  BY <1>3, <1>7, AccountedFor

LEMMA LossStart == TypeOK /\ TypeOK' /\ LossInv /\ Start => LossInv'
<1> SUFFICES ASSUME TypeOK, TypeOK', LossInv, Start PROVE LossInv'
  OBVIOUS
<1>1. /\ stream = "off" /\ stream' = "send" /\ cnt' = 0 /\ motor' = motor
      /\ UNCHANGED <<winErr, lost>>
      /\ \A m \in Motors : made'[m] = 0
  BY DEF Start
<1>2. MessagesSince' = MessagesSince + 1
  BY <1>1, Sizes DEF MessagesSince
<1>3. \A m \in Motors : ~Checked(m) /\ ~Checked(m)'
  BY <1>1 DEF Checked
<1> QED
  BY <1>1, <1>2, <1>3, LossUnchecked DEF LossInv

LEMMA LossStop == TypeOK /\ TypeOK' /\ LossInv /\ Stop => LossInv'
<1> SUFFICES ASSUME TypeOK, TypeOK', LossInv, Stop PROVE LossInv'
  OBVIOUS
<1>1. /\ stream = "sleep" /\ stream' = "off" /\ UNCHANGED <<winErr, cnt, motor, made, lost>>
  BY DEF Stop
<1>2. MessagesSince' >= MessagesSince
  BY <1>1, SinceType, Sizes DEF MessagesSince
<1>3. \A m \in Motors : ~Checked(m) /\ ~Checked(m)'
  BY <1>1 DEF Checked
<1> QED
  BY <1>1, <1>2, <1>3, LossUnchecked DEF LossInv

LEMMA LossWake == TypeOK /\ TypeOK' /\ LossInv /\ Wake => LossInv'
<1> SUFFICES ASSUME TypeOK, TypeOK', LossInv, Wake PROVE LossInv'
  OBVIOUS
<1>1. /\ stream = "sleep" /\ stream' = "send" /\ UNCHANGED <<winErr, cnt, motor, lost>>
      /\ \A m \in Motors : made'[m] = 0
  BY DEF Wake
<1>2. MessagesSince' = MessagesSince + 1
  BY <1>1, Sizes DEF MessagesSince, After, TypeOK
<1>3. \A m \in Motors : ~Checked(m) /\ ~Checked(m)'
  BY <1>1 DEF Checked
<1> QED
  BY <1>1, <1>2, <1>3, LossUnchecked DEF LossInv

LEMMA LossErrorsSent == TypeOK /\ TypeOK' /\ LossInv /\ ErrorsSent => LossInv'
<1> SUFFICES ASSUME TypeOK, TypeOK', LossInv, ErrorsSent PROVE LossInv'
  OBVIOUS
<1>1. /\ stream = "report" /\ stream' = "sleep" /\ UNCHANGED <<winErr, cnt, motor, made, lost>>
  BY DEF ErrorsSent
<1>2. MessagesSince' >= MessagesSince
  BY <1>1, SinceType DEF MessagesSince, After
<1>3. \A m \in Motors : ~Checked(m) /\ ~Checked(m)'
  BY <1>1 DEF Checked
<1> QED
  BY <1>1, <1>2, <1>3, LossUnchecked DEF LossInv

(* One message of a round is the one that checks.                            *)
LEMMA LossRpmsSent == TypeOK /\ TypeOK' /\ LossInv /\ RpmsSent => LossInv'
<1> SUFFICES ASSUME TypeOK, TypeOK', LossInv, RpmsSent PROVE LossInv'
  OBVIOUS
<1>1. /\ stream = "send" /\ stream' = IF cnt = 0 THEN "sum" ELSE "sleep"
      /\ UNCHANGED <<winErr, motor, made, lost>>
      /\ motor = 1
  BY DEF RpmsSent, Due, LossInv
<1>2. cnt \in 0..(WindowSize - 1) /\ cnt' = IF cnt + 1 = WindowSize THEN 0 ELSE cnt + 1
  BY CounterRound DEF RpmsSent, TypeOK
<1>3. After' = cnt
  BY <1>2, Sizes DEF After
<1>4. MessagesSince' >= MessagesSince
  <2>1. CASE cnt = 0
    BY <1>1, <2>1, Sizes DEF MessagesSince
  <2>2. CASE cnt # 0
    BY <1>1, <1>2, <1>3, <2>2 DEF MessagesSince
  <2> QED
    BY <2>1, <2>2
<1>5. \A m \in Motors : ~Checked(m) /\ ~Checked(m)'
  BY <1>1, Sizes DEF Checked, Motors
<1> QED
  BY <1>1, <1>3, <1>4, <1>5, LossUnchecked DEF LossInv

LEMMA LossSumOne == TypeOK /\ TypeOK' /\ LossInv /\ SumOne => LossInv'
<1> SUFFICES ASSUME TypeOK, TypeOK', LossInv, SumOne PROVE LossInv'
  OBVIOUS
<1>0. /\ stream = "sum" /\ UNCHANGED <<winErr, overflow, cnt, made>> /\ After' = After /\ After = 0
      /\ motor \in 1..(NbMotors + 1) /\ sum \in Nat
      /\ \A m \in Motors : lost[m] \in Nat /\ made[m] \in Nat
  BY Sizes DEF SumOne, LossInv, After, TypeOK
<1>1. CASE motor <= NbMotors
  <2>1. /\ motor \in Motors /\ stream' = "sum" /\ motor' = motor + 1
        /\ sum' = sum + GetSum(motor) /\ GetSum(motor) \in Nat
        /\ lost' = [lost EXCEPT ![motor] = 0]
    BY <1>0, <1>1, SumOfGood DEF SumOne, Motors
  <2>2. MessagesSince' = MessagesSince
    BY <1>0, <2>1 DEF MessagesSince
  <2>3. ASSUME NEW m \in Motors PROVE LossOf(m)'
    <3>1. CASE m = motor
      <4>1. Checked(m)' /\ lost'[m] = 0
        BY <1>0, <2>1, <3>1 DEF Checked, TypeOK
      <4>2. ASSUME sum' = 0 PROVE Clean(m)'
        <5>0. GetSum(m) = 0
          BY <1>0, <2>1, <3>1, <4>2
        <5>1. \A i \in 1..WindowSize : winErr[m][i] = "good"
          BY <5>0, SumOfGood
        <5>2. Recent(m, 0)' /\ Gone(0)' = 0
          BY <1>0, <5>1, Sizes DEF Recent, Gone
        <5> QED
          BY <1>0, <4>1, <5>2 DEF Clean
      <4> QED
        BY <1>0, <4>1, <4>2 DEF LossOf
    <3>2. CASE m < motor
      <4>1. Checked(m) /\ Checked(m)' /\ lost'[m] = lost[m] /\ made'[m] = made[m] /\ winErr'[m] = winErr[m]
        BY <1>0, <2>1, <3>2 DEF Checked, TypeOK, Motors
      <4>2. sum' = 0 => sum = 0
        BY <1>0, <2>1
      <4> QED
        BY <1>0, <4>1, <4>2, OtherLoss DEF LossInv, LossOf
    <3>3. CASE m > motor
      <4>1. ~Checked(m) /\ ~Checked(m)' /\ lost'[m] = lost[m]
        BY <1>0, <2>1, <3>3 DEF Checked, TypeOK, Motors
      <4> QED
        BY <1>0, <2>2, <4>1, SinceType, LossUnchecked
    <3> QED
      BY <1>0, <3>1, <3>2, <3>3 DEF Motors
  <2> QED
    BY <1>0, <2>1, <2>3 DEF LossInv
<1>2. CASE ~(motor <= NbMotors)
  <2>1. /\ motor = NbMotors + 1 /\ motor' = 1
        /\ stream' = IF sum > 0 THEN "copy" ELSE "sleep"
        /\ lost' = lost
    BY <1>0, <1>2, Sizes DEF SumOne
  <2>2. ASSUME NEW m \in Motors PROVE LossOf(m)'
    <3>1. m >= 1 /\ Checked(m)
      BY <1>0, <2>1, Sizes DEF Checked, Motors
    <3>2. lost[m] <= made[m] /\ (sum = 0 => Clean(m))
      BY <1>0, <3>1 DEF LossInv, LossOf
    <3>3. CASE sum > 0
      <4>1. Checked(m)' /\ stream' = "copy"
        BY <2>1, <3>1, <3>3 DEF Checked
      <4> QED
        BY <1>0, <2>1, <3>2, <4>1 DEF LossOf
    <3>4. CASE sum = 0
      <4>1. ~Checked(m)' /\ stream' = "sleep"
        BY <2>1, <3>4 DEF Checked
      <4>2. PICK n \in Nat : n = made[m]
        BY <1>0
      <4>3. Accounted(m, n)
        <5>1. PICK p \in Nat : Recent(m, p) /\ lost[m] <= Gone(p) /\ p <= made[m]
          BY <3>2, <3>4 DEF Clean
        <5>2. lost[m] <= 0 + Gone(p) /\ p + 0 <= n /\ 0 <= Rate
          BY <4>2, <5>1, Sizes DEF Gone
        <5> SUFFICES \E a, b \in Nat :
                       Recent(m, a) /\ lost[m] <= b + Gone(a) /\ b <= Rate /\ a + b <= n
          BY Zenon DEF Accounted
        <5> WITNESS p \in Nat, 0 \in Nat
        <5> QED
          BY <5>1, <5>2, Zenon
      <4>4. Accounted(m, n)'
        BY <1>0, <2>1, <4>3, OtherLoss
      <4>5. n = (Rate * MessagesSince + made[m])'
        <5>1. MessagesSince' = 0 /\ made'[m] = made[m]
          BY <1>0, <2>1, <4>1 DEF MessagesSince, After
        <5>2. (Rate * MessagesSince + made[m])' = Rate * 0 + made[m]
          BY <5>1
        <5> QED
          BY <4>2, <5>2, Products
      <4> QED
        BY <4>1, <4>4, <4>5, AccountedFor
    <3> QED
      BY <1>0, <3>3, <3>4
  <2> QED
    BY <1>0, <2>1, <2>2 DEF LossInv
<1> QED
  BY <1>1, <1>2

LEMMA LossCopyOne == TypeOK /\ TypeOK' /\ LossInv /\ CopyOne => LossInv'
<1> SUFFICES ASSUME TypeOK, TypeOK', LossInv, CopyOne PROVE LossInv'
  OBVIOUS
<1>0. /\ stream = "copy" /\ UNCHANGED <<overflow, cnt, sum, made, lost>> /\ After' = After /\ After = 0
      /\ motor \in 1..(NbMotors + 1)
      /\ \A m \in Motors : lost[m] \in Nat /\ made[m] \in 0..Rate
      /\ Rate \in Nat /\ NbMotors \in Nat
  BY Sizes DEF CopyOne, LossInv, After, TypeOK
<1>1. CASE motor <= NbMotors
  <2>1. motor \in Motors /\ stream' = "copy" /\ motor' = motor + 1
    BY <1>0, <1>1 DEF CopyOne, Motors
  <2>2. MessagesSince' = MessagesSince /\ MessagesSince' = 0
    BY <1>0, <2>1 DEF MessagesSince
  <2>3. ASSUME NEW m \in Motors PROVE LossOf(m)'
    <3>1. CASE m = motor
      <4>1. Checked(m) /\ ~Checked(m)'
        BY <1>0, <2>1, <3>1 DEF Checked
      <4>2. lost[m] <= made[m]
        BY <4>1 DEF LossInv, LossOf
      <4>3. PICK n \in Nat : n = made[m]
        BY <1>0
      <4>4. Recent(m, 0)' /\ Gone(0)' = 0
        BY <2>1, <3>1, CopyTells, Sizes DEF Recent, Gone
      <4>5. lost'[m] \in Nat /\ lost'[m] <= lost'[m] + 0 /\ lost'[m] <= Rate /\ 0 + lost'[m] <= n
        BY <1>0, <4>2, <4>3
      <4>6. Accounted(m, n)'
        BY <4>4, <4>5 DEF Accounted
      <4>7. n = (Rate * MessagesSince + made[m])'
        BY <1>0, <2>2, <4>3, Products
      <4> QED
        BY <4>1, <4>6, <4>7, AccountedFor
    <3>2. CASE m < motor
      <4>1. ~Checked(m) /\ ~Checked(m)' /\ winErr'[m] = winErr[m]
        BY <1>0, <2>1, <3>2, CopyTells DEF Checked, Motors
      <4> QED
        BY <1>0, <2>2, <4>1, LossUnchecked
    <3>3. CASE m > motor
      <4>1. Checked(m) /\ Checked(m)'
        BY <1>0, <2>1, <3>3 DEF Checked, Motors
      <4> QED
        BY <1>0, <2>1, <4>1 DEF LossInv, LossOf
    <3> QED
      BY <1>0, <3>1, <3>2, <3>3 DEF Motors
  <2> QED
    BY <1>0, <2>1, <2>3 DEF LossInv
<1>2. CASE ~(motor <= NbMotors)
  <2>1. motor = NbMotors + 1 /\ motor' = 1 /\ stream' = "report" /\ winErr' = winErr
    BY <1>0, <1>2 DEF CopyOne
  <2>2. MessagesSince' = MessagesSince /\ MessagesSince \in Nat
    BY <1>0, <2>1 DEF MessagesSince
  <2>3. \A m \in Motors : ~Checked(m) /\ ~Checked(m)'
    BY <1>0, <2>1 DEF Checked, Motors
  <2> QED
    BY <1>0, <2>1, <2>2, <2>3, LossUnchecked DEF LossInv
<1> QED
  BY <1>1, <1>2

LEMMA LossStep == TypeOK /\ TypeOK' /\ LossInv /\ [Next]_vars => LossInv'
<1> SUFFICES ASSUME TypeOK, TypeOK', LossInv, [Next]_vars PROVE LossInv'
  OBVIOUS
<1>1. CASE UNCHANGED vars
  BY <1>1 DEF vars, LossInv, LossOf, Accounted, Clean, Checked, Recent, Gone, MessagesSince, After
<1>2. ASSUME NEW m \in Motors, PeriodGood(m) \/ PeriodBad(m) \/ Overflow(m)
      PROVE  LossInv'
  BY <1>2, LossPush DEF PeriodGood, PeriodBad, Overflow, Tags
<1> QED
  BY <1>1, <1>2, LossStart, LossStop, LossWake, LossErrorsSent, LossRpmsSent, LossSumOne, LossCopyOne
     DEF Next, StreamerStep

LEMMA LossInitially == Init => LossInv
<1> SUFFICES ASSUME Init PROVE LossInv
  OBVIOUS
<1>1. ASSUME NEW m \in Motors PROVE LossOf(m)
  <2>1. ~Checked(m)
    BY DEF Init, Checked
  <2>2. Recent(m, 0) /\ lost[m] = 0 /\ Gone(0) = 0 /\ made[m] = 0
    BY Sizes DEF Init, Recent, Gone
  <2>3. Rate * MessagesSince + made[m] \in Nat
    BY <2>2, Products, Sizes DEF Init, MessagesSince
  <2>4. Accounted(m, Rate * MessagesSince + made[m])
    BY <2>2, <2>3, Sizes DEF Accounted
  <2> QED
    BY <2>1, <2>4 DEF LossOf
<1> QED
  BY <1>1 DEF Init, LossInv

(* For any number of motors, any window and any number of measures per       *)
(* message: between two checks of a motor no more than that leaves untold.   *)
THEOREM LossSafe == Spec => []LossBounded
<1>1. TypeOK /\ TypeOK' /\ LossInv /\ [Next]_vars => LossInv'
  BY LossStep
<1>2. TypeOK /\ LossInv => LossBounded
  BY LossBoundedByInv
<1> QED
  BY <1>1, <1>2, LossInitially, WindowTypeCorrect, PTL DEF Spec
=============================================================================
