--------------------------- MODULE ThreadLoad_proofs ---------------------------
(***************************************************************************)
(* Theorems about ThreadLoad, for any number of permanent threads, any     *)
(* size of the record and any number of ticks.                             *)
(*                                                                         *)
(* A sum is a fold, defined by a recursion over subsets.  What it is for   *)
(* every finite set is shown by its smallest counterexample: a set of      *)
(* subsets of a finite set has one with no smaller in it.                  *)
(***************************************************************************)
EXTENDS ThreadLoad, SequenceTheorems, FiniteSetTheorems, TLAPS

-----------------------------------------------------------------------------
(* The working area of the streaming thread.                                 *)

LEMMA NoneIsNoThread == None # Streamer
  BY ThreadLoadAssumption

(* Only a walk that stands on the line of the streaming thread keeps its     *)
(* working area from a start.                                                *)
THEOREM AreaSafe == Spec => []AreaGivenBack
<1>1. Init => AreaGivenBack
  BY DEF Init, AreaGivenBack
<1>2. AreaGivenBack /\ [Next]_vars => AreaGivenBack'
  <2> SUFFICES ASSUME AreaGivenBack, [Next]_vars PROVE AreaGivenBack'
    OBVIOUS
  <2> USE DEF AreaGivenBack
  <2>1. CASE UNCHANGED vars
    BY <2>1 DEF vars
  <2>2. ASSUME NEW t \in Range(registry), Tick(t) PROVE AreaGivenBack'
    BY <2>2 DEF Tick
  <2>3. CASE StreamerStarts
    BY <2>3 DEF StreamerStarts
  <2>4. CASE StreamerCollected
    BY <2>4 DEF StreamerCollected
  <2>5. CASE CmdThreads
    BY <2>5, NoneIsNoThread DEF CmdThreads
  <2>6. CASE NextLine
    BY <2>6 DEF NextLine, Released
  <2>7. CASE Reset
    BY <2>7 DEF Reset
  <2> QED
    BY <2>1, <2>2, <2>3, <2>4, <2>5, <2>6, <2>7 DEF Next
<1> QED
  BY <1>1, <1>2, PTL DEF Spec

-----------------------------------------------------------------------------
(* The registry: the threads that were there before the streaming thread     *)
(* keep their places.                                                        *)

Before == Len(Always) - 1     \* how many they are

Registry(r) ==
    /\ r \in Seq(Threads)
    /\ \A i, j \in 1..Len(r) : r[i] = r[j] => i = j
    /\ \E i \in 1..Len(r) : r[i] = Always[Len(Always)]
    /\ Before <= Len(r)
    /\ \A p \in 1..Before : r[p] = Always[p]

LEMMA AlwaysSeq ==
    /\ Always \in Seq(Threads) /\ Len(Always) \in Nat \ {0}
    /\ \A i \in 1..Len(Always) : Always[i] # Streamer /\ Always[i] # None
    /\ \A i, j \in 1..Len(Always) : Always[i] = Always[j] => i = j
    /\ Streamer \in Threads
<1>1. Always \in Seq(Range(Always)) /\ Always # <<>>
  BY ThreadLoadAssumption
<1>2. DOMAIN Always = 1..Len(Always) /\ Len(Always) \in Nat \ {0}
  BY <1>1, LenProperties, EmptySeq
<1>3. \A i \in 1..Len(Always) : Always[i] \in Range(Always)
  BY <1>2 DEF Range
<1>4. \A i \in 1..Len(Always) : Always[i] # Streamer /\ Always[i] # None
  BY <1>3, ThreadLoadAssumption
<1>5. \A i, j \in 1..Len(Always) : Always[i] = Always[j] => i = j
  BY <1>2, ThreadLoadAssumption DEF IsInjective
<1>6. Always \in Seq(Threads)
  BY <1>1, SeqMonotonic DEF Threads
<1> QED
  BY <1>2, <1>4, <1>5, <1>6 DEF Threads

LEMMA AlwaysIsRegistry == Registry(Always)
  BY AlwaysSeq DEF Registry, Before

LEMMA FrontIsBefore ==
    /\ Front(Always) \in Seq(Threads)
    /\ Len(Front(Always)) = Before
    /\ \A i \in 1..Before : Front(Always)[i] = Always[i]
<1> DEFINE n == Len(Always)
<1>1. Always \in Seq(Threads) /\ n \in Nat \ {0} /\ \A i \in 1..n : Always[i] \in Threads
  BY AlwaysSeq, ElementOfSeq
<1>2. \A i \in 1..(n - 1) : Always[i] \in Threads
  BY <1>1
<1> HIDE DEF n
<1>3. 1 \in Int /\ n - 1 \in Int
  BY <1>1
<1>4. /\ SubSeq(Always, 1, n - 1) \in Seq(Threads)
      /\ Len(SubSeq(Always, 1, n - 1)) = IF 1 <= n - 1 THEN (n - 1) - 1 + 1 ELSE 0
      /\ \A i \in 1..((n - 1) - 1 + 1) : SubSeq(Always, 1, n - 1)[i] = Always[1 + i - 1]
  BY <1>2, <1>3, SubSeqProperties
<1>5. \A i \in 1..(n - 1) : SubSeq(Always, 1, n - 1)[i] = Always[i]
  <2>1. \A i \in 1..(n - 1) : i \in 1..((n - 1) - 1 + 1) /\ 1 + i - 1 = i
    BY <1>1
  <2> QED
    BY <1>4, <2>1
<1>6. Len(SubSeq(Always, 1, n - 1)) = n - 1
  BY <1>1, <1>4
<1>7. Front(Always) = SubSeq(Always, 1, n - 1)
  BY DEF Front, n
<1> QED
  BY <1>4, <1>5, <1>6, <1>7 DEF Before, n

LEMMA BootRegistry ==
  ASSUME NEW r \in BootRegistries
  PROVE  Registry(r)
<1> DEFINE n == Len(Always)
           f == Front(Always)
           s == <<Streamer, Last(Always)>>
<1>1. Always \in Seq(Threads) /\ n \in Nat \ {0}
      /\ \A i \in 1..n : Always[i] \in Threads /\ Always[i] # Streamer
  BY AlwaysSeq, ElementOfSeq
<1>2. f \in Seq(Threads) /\ Len(f) = n - 1 /\ \A i \in 1..(n - 1) : f[i] = Always[i]
  BY FrontIsBefore DEF Before
<1>3. s \in Seq(Threads) /\ Len(s) = 2 /\ s[1] = Streamer /\ s[2] = Always[n]
  BY <1>1, AlwaysSeq DEF Last
<1>4. Registry(f \o s)
  <2> DEFINE c == f \o s
  <2> HIDE DEF f, s
  <2>1. /\ c \in Seq(Threads) /\ Len(c) = n + 1
        /\ \A i \in 1..(n + 1) : c[i] = IF i <= n - 1 THEN f[i] ELSE s[i - (n - 1)]
    <3> HIDE DEF n
    <3>1. /\ c \in Seq(Threads) /\ Len(c) = Len(f) + Len(s)
          /\ \A i \in 1..(Len(f) + Len(s)) : c[i] = IF i <= Len(f) THEN f[i] ELSE s[i - Len(f)]
      BY <1>2, <1>3, ConcatProperties
    <3>2. Len(f) = n - 1 /\ Len(f) + Len(s) = n + 1
      BY <1>1, <1>2, <1>3
    <3> QED
      BY <3>1, <3>2
  <2> HIDE DEF c
  <2>2. \A i \in 1..(n - 1) : c[i] = Always[i]
    BY <1>1, <1>2, <2>1
  <2>3. c[n] = Streamer /\ c[n + 1] = Always[n]
    BY <1>1, <1>3, <2>1
  <2>4. ASSUME NEW i \in 1..(n + 1), NEW j \in 1..(n + 1), c[i] = c[j]
        PROVE  i = j
    <3>1. \A k \in 1..(n + 1) : k \in 1..(n - 1) \/ k = n \/ k = n + 1
      BY <1>1
    <3>2. \A k \in 1..(n - 1) : k \in 1..n /\ k # n
      BY <1>1
    <3>3. n \in 1..n
      BY <1>1
    <3> HIDE DEF n
    <3>4. CASE i = n \/ j = n
      <4>1. ASSUME NEW k \in 1..(n + 1), k # n PROVE c[k] # Streamer
        BY <1>1, <2>2, <2>3, <3>1, <3>2, <3>3, <4>1
      <4> QED
        BY <2>3, <2>4, <3>4, <4>1
    <3>5. CASE i # n /\ j # n
      BY <2>2, <2>3, <2>4, <3>1, <3>2, <3>3, <3>5, AlwaysSeq DEF n
    <3> QED
      BY <3>4, <3>5
  <2>5. n + 1 \in 1..(n + 1) /\ n - 1 <= n + 1 /\ Before = n - 1
    BY <1>1 DEF Before
  <2>6. \E i \in 1..(n + 1) : c[i] = Always[n]
    BY <2>3, <2>5
  <2>7. c \in Seq(Threads) /\ Len(c) = n + 1
    BY <2>1
  <2>8. Registry(c)
    <3>1. \A i, j \in 1..Len(c) : c[i] = c[j] => i = j
      BY <2>4, <2>7
    <3>2. \E i \in 1..Len(c) : c[i] = Always[Len(Always)]
      BY <2>6, <2>7
    <3>3. Before <= Len(c)
      BY <2>5, <2>7
    <3>4. \A p \in 1..Before : c[p] = Always[p]
      BY <2>2, <2>5
    <3> QED
      BY <2>7, <3>1, <3>2, <3>3, <3>4 DEF Registry
  <2> QED
    BY <2>8 DEF c
<1> QED
  BY <1>4, AlwaysIsRegistry DEF BootRegistries

(* A thread created is the last one.                                         *)
LEMMA AppendRegistry ==
  ASSUME NEW r, Registry(r), Streamer \notin Range(r)
  PROVE  Registry(Append(r, Streamer))
<1> DEFINE c == Append(r, Streamer)
           n == Len(r)
<1>1. r \in Seq(Threads) /\ n \in Nat /\ Streamer \in Threads
  BY AlwaysSeq, LenProperties DEF Registry
<1>2. /\ c \in Seq(Threads) /\ Len(c) = n + 1
      /\ \A i \in 1..n : c[i] = r[i]
      /\ c[n + 1] = Streamer
  BY <1>1, AppendProperties
<1>3. \A i \in 1..n : r[i] # Streamer
  <2>1. DOMAIN r = 1..n
    BY <1>1, LenProperties
  <2> QED
    BY <2>1 DEF Range
<1>4. \A i, j \in 1..n : r[i] = r[j] => i = j
  BY DEF Registry
<1> HIDE DEF c, n
<1>5. \A i, j \in 1..(n + 1) : c[i] = c[j] => i = j
  <2>1. \A k \in 1..(n + 1) : k \in 1..n \/ k = n + 1
    BY <1>1
  <2> QED
    BY <1>2, <1>3, <1>4, <2>1
<1>6. Before <= n /\ (\E i \in 1..n : r[i] = Always[Len(Always)]) /\ Before \in Int /\ \A p \in 1..Before : r[p] = Always[p]
  BY AlwaysSeq DEF Registry, Before, n
<1>7. \A p \in 1..Before : p \in 1..n
  BY <1>1, <1>6
<1>8. (\E i \in 1..(n + 1) : c[i] = Always[Len(Always)]) /\ Before <= n + 1
  <2>1. \A i \in 1..n : i \in 1..(n + 1)
    BY <1>1
  <2> QED
    BY <1>1, <1>2, <1>6, <2>1
<1> QED
  BY <1>1, <1>2, <1>5, <1>6, <1>7, <1>8 DEF Registry, c

(* Unlinking the streaming thread moves only threads behind it.              *)
LEMMA UnlinkedRegistry ==
  ASSUME Registry(registry), Streamer \in Range(registry)
  PROVE  /\ Registry(Unlinked)
         /\ \A t \in Range(registry) : t # Streamer => t \in Range(Unlinked)
         /\ Len(Unlinked) = Len(registry) - 1 /\ Streamer \notin Range(Unlinked)
<1> DEFINE n == Len(registry)
           p == CHOOSE p \in DOMAIN registry : registry[p] = Streamer
<1>1. registry \in Seq(Threads) /\ n \in Nat /\ DOMAIN registry = 1..n
      /\ \A i \in 1..n : registry[i] \in Threads
  BY LenProperties, ElementOfSeq DEF Registry
<1>2. p \in 1..n /\ registry[p] = Streamer
  <2>1. \E q \in DOMAIN registry : registry[q] = Streamer
    BY DEF Range
  <2> QED
    BY <1>1, <2>1
<1>3. Unlinked = SubSeq(registry, 1, p - 1) \o SubSeq(registry, p + 1, n)
  BY DEF Unlinked, RemoveAt
<1> HIDE DEF p, n
<1>4. PICK a : a = SubSeq(registry, 1, p - 1)
  OBVIOUS
<1>5. PICK b : b = SubSeq(registry, p + 1, n)
  OBVIOUS
<1>6. a \in Seq(Threads) /\ Len(a) = p - 1 /\ \A i \in 1..(p - 1) : a[i] = registry[i]
  <2>1. 1 \in Int /\ p - 1 \in Int /\ \A i \in 1..(p - 1) : registry[i] \in Threads
    BY <1>1, <1>2
  <2>2. /\ a \in Seq(Threads)
        /\ Len(a) = IF 1 <= p - 1 THEN (p - 1) - 1 + 1 ELSE 0
        /\ \A i \in 1..((p - 1) - 1 + 1) : a[i] = registry[1 + i - 1]
    BY <1>4, <2>1, SubSeqProperties
  <2>3. \A i \in 1..(p - 1) : i \in 1..((p - 1) - 1 + 1) /\ 1 + i - 1 = i
    BY <1>1, <1>2
  <2>4. Len(a) = p - 1
    BY <1>1, <1>2, <2>2
  <2> QED
    BY <2>2, <2>3, <2>4
<1>7. b \in Seq(Threads) /\ Len(b) = n - p /\ \A i \in 1..(n - p) : b[i] = registry[p + i]
  <2>1. p + 1 \in Int /\ n \in Int /\ \A i \in (p + 1)..n : registry[i] \in Threads
    BY <1>1, <1>2
  <2>2. /\ b \in Seq(Threads)
        /\ Len(b) = IF p + 1 <= n THEN n - (p + 1) + 1 ELSE 0
        /\ \A i \in 1..(n - (p + 1) + 1) : b[i] = registry[(p + 1) + i - 1]
    BY <1>5, <2>1, SubSeqProperties
  <2>3. \A i \in 1..(n - p) : i \in 1..(n - (p + 1) + 1) /\ (p + 1) + i - 1 = p + i
    BY <1>1, <1>2
  <2>4. Len(b) = n - p
    BY <1>1, <1>2, <2>2
  <2> QED
    BY <2>2, <2>3, <2>4
<1>8. PICK u : u = Unlinked /\ u = a \o b
  BY <1>3, <1>4, <1>5
<1>9. /\ u \in Seq(Threads) /\ Len(u) = n - 1
      /\ \A i \in 1..(n - 1) : u[i] = IF i < p THEN registry[i] ELSE registry[i + 1]
  <2>1. /\ u \in Seq(Threads) /\ Len(u) = (p - 1) + (n - p)
        /\ \A i \in 1..((p - 1) + (n - p)) : u[i] = IF i <= p - 1 THEN a[i] ELSE b[i - (p - 1)]
    BY <1>6, <1>7, <1>8, ConcatProperties
  <2>2. (p - 1) + (n - p) = n - 1
    BY <1>1, <1>2
  <2>3. ASSUME NEW i \in 1..(n - 1)
        PROVE  u[i] = IF i < p THEN registry[i] ELSE registry[i + 1]
    <3>1. CASE i < p
      BY <1>1, <1>2, <1>6, <2>1, <2>2, <3>1
    <3>2. CASE ~(i < p)
      <4>1. i - (p - 1) \in 1..(n - p) /\ p + (i - (p - 1)) = i + 1 /\ ~(i <= p - 1)
        BY <1>1, <1>2, <3>2
      <4> QED
        BY <1>7, <2>1, <2>2, <3>2, <4>1
    <3> QED
      BY <3>1, <3>2
  <2> QED
    BY <2>1, <2>2, <2>3
<1>10. \A i, j \in 1..n : registry[i] = registry[j] => i = j
  BY DEF Registry, n
<1>11. \A i, j \in 1..(n - 1) : u[i] = u[j] => i = j
  <2> DEFINE From(i) == IF i < p THEN i ELSE i + 1
  <2>1. \A i \in 1..(n - 1) : From(i) \in 1..n /\ u[i] = registry[From(i)]
    BY <1>1, <1>2, <1>9
  <2>2. \A i, j \in 1..(n - 1) : From(i) = From(j) => i = j
    BY <1>1, <1>2
  <2> HIDE DEF From
  <2> QED
    BY <1>10, <2>1, <2>2
<1>12. \A q \in 1..Before : q < p /\ q <= n - 1 /\ registry[q] = Always[q]
  <2>1. Before \in Nat /\ Before <= n /\ \A q \in 1..Before : registry[q] = Always[q] /\ q \in 1..Len(Always)
    BY AlwaysSeq DEF Registry, Before, n
  <2>2. \A q \in 1..Before : q # p
    BY <1>2, <2>1, AlwaysSeq
  <2>3. ~(p <= Before)
    BY <1>2, <2>1, <2>2
  <2> QED
    BY <1>1, <1>2, <2>1, <2>3
<1>13. ASSUME NEW i \in 1..n, registry[i] # Streamer
       PROVE  \E j \in 1..(n - 1) : u[j] = registry[i]
  <2>1. CASE i < p
    <3>1. i \in 1..(n - 1)
      BY <1>1, <1>2, <2>1
    <3> QED
      BY <1>9, <2>1, <3>1
  <2>2. CASE p < i
    <3>1. i - 1 \in 1..(n - 1) /\ ~(i - 1 < p) /\ (i - 1) + 1 = i
      BY <1>1, <1>2, <2>2
    <3> QED
      BY <1>9, <3>1
  <2> QED
    BY <1>1, <1>2, <1>13, <2>1, <2>2
<1>14. \E j \in 1..(n - 1) : u[j] = Always[Len(Always)]
  <2>1. PICK i \in 1..n : registry[i] = Always[Len(Always)]
    BY DEF Registry, n
  <2>2. Always[Len(Always)] # Streamer
    BY AlwaysSeq
  <2> QED
    BY <1>13, <2>1, <2>2
<1>15. Before <= n - 1
  <2>1. Before \in Nat /\ Before <= n
    BY AlwaysSeq DEF Registry, Before, n
  <2>2. Before \in 1..Before => Before <= n - 1
    BY <1>12
  <2>3. 1 <= n
    BY <1>1, <1>2
  <2> QED
    BY <1>1, <2>1, <2>2, <2>3
<1>16. Registry(u)
  <2>1. Before \in Nat
    BY AlwaysSeq DEF Before
  <2>2. \A q \in 1..Before : u[q] = Always[q]
    <3>1. \A q \in 1..Before : q \in 1..(n - 1)
      BY <1>1, <1>12, <2>1
    <3> QED
      BY <1>9, <1>12, <3>1
  <2> QED
    BY <1>9, <1>11, <1>14, <1>15, <2>2 DEF Registry
<1>17. ASSUME NEW t \in Range(registry), t # Streamer
       PROVE  t \in Range(u)
  <2>1. PICK i \in 1..n : registry[i] = t
    BY <1>1 DEF Range
  <2>2. PICK j \in 1..(n - 1) : u[j] = t
    BY <1>13, <1>17, <2>1
  <2>3. DOMAIN u = 1..(n - 1)
    BY <1>9, LenProperties
  <2> QED
    BY <2>2, <2>3 DEF Range
<1>18. Streamer \notin Range(u)
  <2>1. DOMAIN u = 1..(n - 1)
    BY <1>9, LenProperties
  <2>2. ASSUME NEW j \in 1..(n - 1), u[j] = Streamer PROVE FALSE
    <3>1. CASE j < p
      <4>1. j \in 1..n /\ registry[j] = Streamer /\ j # p
        BY <1>1, <1>2, <1>9, <2>2, <3>1
      <4> QED
        BY <1>2, <1>10, <4>1
    <3>2. CASE ~(j < p)
      <4>1. j + 1 \in 1..n /\ registry[j + 1] = Streamer /\ j + 1 # p
        BY <1>1, <1>2, <1>9, <2>2, <3>2
      <4> QED
        BY <1>2, <1>10, <4>1
    <3> QED
      BY <3>1, <3>2
  <2> QED
    BY <2>1, <2>2 DEF Range
<1> QED
  BY <1>8, <1>9, <1>16, <1>17, <1>18 DEF n

(* The inductive invariant behind EarlierTicksAreTheirs: the walk stands on  *)
(* a thread that is in the registry, and on one of the first only with the   *)
(* number of its place.                                                      *)
WalkInv ==
    /\ Registry(registry)
    /\ at \in Range(registry) \cup {None}
    /\ ended => at = Streamer
    /\ \A p \in 1..Before : at = Always[p] => idx = p

LEMMA RegistryFacts ==
  ASSUME NEW r, Registry(r)
  PROVE  /\ DOMAIN r = 1..Len(r) /\ Len(r) \in Nat \ {0} /\ Before \in Nat
         /\ r # <<>> /\ Head(r) = r[1]
         /\ \A p \in 1..Before : p \in 1..Len(r) /\ r[p] = Always[p]
         /\ \A i, j \in 1..Len(r) : r[i] = r[j] => i = j
         /\ \A i \in 1..Len(r) : r[i] \in Range(r) /\ r[i] \in Threads
         /\ Range(r) \subseteq Threads
<1>1. r \in Seq(Threads) /\ \E i \in 1..Len(r) : r[i] = Always[Len(Always)]
  BY DEF Registry
<1>2. DOMAIN r = 1..Len(r) /\ Len(r) \in Nat /\ \A i \in 1..Len(r) : r[i] \in Threads
  BY <1>1, LenProperties, ElementOfSeq
<1>3. Len(r) \in Nat \ {0}
  BY <1>1, <1>2
<1>4. r # <<>>
  BY <1>3, EmptySeq
<1>5. Head(r) = r[1]
  BY <1>1, <1>4, HeadTailProperties
<1>6. Before \in Nat /\ Before <= Len(r)
  BY AlwaysSeq DEF Before, Registry
<1>7. \A p \in 1..Before : p \in 1..Len(r) /\ r[p] = Always[p]
  <2>1. \A p \in 1..Before : p \in 1..Len(r)
    BY <1>2, <1>6
  <2> QED
    BY <2>1 DEF Registry
<1>8. \A i, j \in 1..Len(r) : r[i] = r[j] => i = j
  BY DEF Registry
<1> QED
  BY <1>2, <1>3, <1>4, <1>5, <1>6, <1>7, <1>8 DEF Range

LEMMA BeforeFacts ==
    /\ Before \in Nat /\ Before + 3 <= MaxEntries /\ MaxEntries \in Nat
    /\ \A p \in 1..Before : Always[p] # Streamer /\ Always[p] # None /\ p \in Places
    /\ \A p, q \in 1..Before : Always[p] = Always[q] => p = q
    /\ \A t \in Range(Front(Always)) : \E p \in 1..Before : t = Always[p]
<1>1. Before \in Nat /\ \A p \in 1..Before : p \in 1..Len(Always)
  BY AlwaysSeq DEF Before
<1>2. Before + 3 <= MaxEntries /\ MaxEntries \in Nat
  <2>1. MaxEntries \in Nat /\ MaxEntries >= Len(Always) + 2
    BY ThreadLoadAssumption
  <2> QED
    BY <2>1, AlwaysSeq DEF Before
<1>3. \A p \in 1..Before : p \in Places
  BY <1>1, <1>2 DEF Places
<1>4. DOMAIN Front(Always) = 1..Before
  BY FrontIsBefore, LenProperties
<1>5. \A t \in Range(Front(Always)) : \E p \in 1..Before : t = Always[p]
  BY <1>4, FrontIsBefore DEF Range
<1> QED
  BY <1>1, <1>2, <1>3, <1>5, AlwaysSeq

LEMMA WalkInit == (Init => WalkInv)
<1> SUFFICES ASSUME Init PROVE WalkInv
  OBVIOUS
<1>1. Registry(registry)
  BY BootRegistry DEF Init
<1>2. at = None /\ ~ended
  BY DEF Init
<1> QED
  BY <1>1, <1>2, BeforeFacts DEF WalkInv

(* The walk goes to the next thread of the registry.                         *)
LEMMA NextLineWalk ==
  ASSUME WalkInv, NextLine
  PROVE  /\ at' \in Range(registry) \cup {None}
         /\ at' # at
         /\ \A p \in 1..Before : at' = Always[p] => idx' = p
<1>1. Registry(registry) /\ at \in Range(registry)
  BY DEF WalkInv, NextLine
<1> DEFINE n == Len(registry)
<1>2. /\ DOMAIN registry = 1..n /\ n \in Nat \ {0}
      /\ \A i, j \in 1..n : registry[i] = registry[j] => i = j
      /\ \A p \in 1..Before : p \in 1..n /\ registry[p] = Always[p]
  BY <1>1, RegistryFacts
<1>3. CASE at = Last(registry)
  <2>1. at' = None
    BY <1>3 DEF NextLine
  <2>2. at # None
    BY DEF NextLine
  <2> QED
    BY <2>1, <2>2, BeforeFacts
<1>4. CASE at # Last(registry)
  <2> DEFINE q == CHOOSE p \in 2..n : registry[p - 1] = at
  <2>1. q \in 2..n /\ registry[q - 1] = at
    <3>1. PICK i \in 1..n : registry[i] = at
      BY <1>1, <1>2 DEF Range
    <3>2. i # n
      BY <1>4, <3>1 DEF Last
    <3>3. i + 1 \in 2..n /\ (i + 1) - 1 = i
      <4> HIDE DEF n
      <4> QED
        BY <1>2, <3>2
    <3>4. \E p \in 2..n : registry[p - 1] = at
      BY <3>1, <3>3
    <3> QED
      BY <3>4
  <2>2. at' = registry[q] /\ idx' = idx + 1
    BY <1>4 DEF NextLine
  <2> HIDE DEF q, n
  <2>3. q \in 1..n /\ q - 1 \in 1..n /\ q # q - 1
    BY <1>2, <2>1
  <2>4. at' \in Range(registry) /\ at' # at
    BY <1>2, <2>1, <2>2, <2>3 DEF Range
  <2>5. ASSUME NEW p \in 1..Before, at' = Always[p]
        PROVE  idx' = p
    <3>1. q = p
      BY <1>2, <2>2, <2>3, <2>5
    <3>2. q - 1 \in 1..Before
      BY <2>1, <3>1, BeforeFacts
    <3>3. at = Always[q - 1]
      BY <1>2, <2>1, <3>2
    <3>4. idx = q - 1
      BY <3>2, <3>3 DEF WalkInv
    <3> QED
      BY <2>1, <2>2, <3>1, <3>4
  <2> QED
    BY <2>4, <2>5
<1> QED
  BY <1>3, <1>4

LEMMA WalkStep == WalkInv /\ [Next]_vars => WalkInv'
<1> SUFFICES ASSUME WalkInv, [Next]_vars
             PROVE  /\ Registry(registry')
                    /\ at' \in Range(registry') \cup {None}
                    /\ ended' => at' = Streamer
                    /\ \A p \in 1..Before : at' = Always[p] => idx' = p
  BY DEF WalkInv, Registry, Before, Range
<1> USE DEF WalkInv
<1>1. CASE UNCHANGED <<registry, at, idx, ended>>
  BY <1>1
<1>2. CASE UNCHANGED vars
  BY <1>1, <1>2 DEF vars
<1>3. ASSUME NEW t \in Range(registry), Tick(t)
      PROVE  UNCHANGED <<registry, at, idx, ended>>
  BY <1>3 DEF Tick
<1>4. CASE StreamerStarts
  <2>1. CASE registry' = registry
    BY <1>4, <2>1 DEF StreamerStarts
  <2>2. CASE Streamer \notin Range(registry) /\ registry' = Append(registry, Streamer)
    <3>1. Registry(registry')
      BY <2>2, AppendRegistry
    <3>2. Range(registry) \subseteq Range(registry')
      <4>1. /\ registry \in Seq(Threads) /\ Streamer \in Threads
            /\ DOMAIN registry = 1..Len(registry) /\ Len(registry) \in Nat
        BY RegistryFacts, AlwaysSeq DEF Registry
      <4>2. /\ DOMAIN registry' = 1..(Len(registry) + 1)
            /\ \A i \in 1..Len(registry) : registry'[i] = registry[i]
        <5>1. DOMAIN registry' = 1..Len(registry') /\ Len(registry') = Len(registry) + 1
          BY <2>2, <3>1, <4>1, RegistryFacts, AppendProperties
        <5> QED
          BY <2>2, <4>1, <5>1, AppendProperties
      <4>3. \A i \in 1..Len(registry) : i \in 1..(Len(registry) + 1)
        BY <4>1
      <4> QED
        BY <4>1, <4>2, <4>3 DEF Range
    <3> QED
      BY <1>4, <3>1, <3>2 DEF StreamerStarts
  <2> QED
    BY <1>4, <2>1, <2>2 DEF StreamerStarts
<1>5. CASE StreamerCollected
  <2>1. UNCHANGED <<at, idx>> /\ ended' = (at = Streamer)
    BY <1>5 DEF StreamerCollected
  <2>2. CASE at = Streamer
    BY <1>5, <2>1, <2>2 DEF StreamerCollected
  <2>3. CASE at # Streamer
    <3>1. Streamer \in Range(registry) /\ registry' = Unlinked
      BY <1>5, <2>3 DEF StreamerCollected
    <3>2. Registry(Unlinked) /\ \A t \in Range(registry) : t # Streamer => t \in Range(Unlinked)
      BY <3>1, UnlinkedRegistry
    <3> QED
      BY <2>1, <2>3, <3>1, <3>2
  <2> QED
    BY <2>2, <2>3
<1>6. CASE CmdThreads
  <2>1. UNCHANGED <<registry, ended>> /\ at' = Head(registry) /\ idx' = 1 /\ at = None
    BY <1>6 DEF CmdThreads
  <2>2. 1 \in 1..Len(registry) /\ at' = registry[1] /\ at' \in Range(registry)
    BY <2>1, RegistryFacts
  <2>3. \A p \in 1..Before : at' = Always[p] => idx' = p
    BY <2>1, <2>2, RegistryFacts
  <2> QED
    BY <2>1, <2>2, <2>3, NoneIsNoThread
<1>7. CASE NextLine
  <2>1. /\ at' \in Range(registry) \cup {None} /\ at' # at
        /\ \A p \in 1..Before : at' = Always[p] => idx' = p
    BY <1>7, NextLineWalk
  <2>2. ended' = FALSE /\ registry' = IF ended THEN Unlinked ELSE registry
    BY <1>7 DEF NextLine, Released
  <2>3. CASE ~ended
    BY <2>1, <2>2, <2>3
  <2>4. CASE ended
    <3>1. at = Streamer /\ at \in Range(registry)
      BY <2>4, NoneIsNoThread
    <3>2. Registry(Unlinked) /\ \A t \in Range(registry) : t # Streamer => t \in Range(Unlinked)
      BY <3>1, UnlinkedRegistry
    <3> QED
      BY <2>1, <2>2, <2>4, <3>1, <3>2
  <2> QED
    BY <2>3, <2>4
<1>8. CASE Reset
  <2>1. registry' \in BootRegistries /\ at' = None /\ ended' = FALSE
    BY <1>8 DEF Reset
  <2> QED
    BY <2>1, BootRegistry, BeforeFacts
<1> QED
  BY <1>1, <1>2, <1>3, <1>4, <1>5, <1>6, <1>7, <1>8 DEF Next

(* What the record holds of the first threads: the ticks since the command   *)
(* are those on top of the record, and what a command has put into cpu is    *)
(* what each of them had.                                                    *)
TicksInv ==
    /\ time \in [Threads -> Int] /\ run \in [Threads -> Int]
    /\ \A p \in 1..Before :
         /\ info.ticks[p] \in Int
         /\ time[Always[p]] - info.ticks[p] = run[Always[p]]
         /\ at # None => cpu[p][1] = own[Always[p]]

LEMMA BeforeThreads == \A p \in 1..Before : Always[p] \in Threads /\ Always[p] # Streamer
<1>1. \A p \in 1..Before : p \in 1..Len(Always)
  BY AlwaysSeq DEF Before
<1> QED
  BY <1>1, AlwaysSeq, ElementOfSeq

LEMMA TicksZero ==
  ASSUME time' = NoTicks, run' = NoTicks, info' = NoInfo, at' = None
  PROVE  TicksInv'
<1>1. NoTicks \in [Threads -> Int] /\ \A t \in Threads : NoTicks[t] = 0
  BY DEF NoTicks
<1>2. \A p \in 1..Before : NoInfo.ticks[p] = 0
  BY BeforeFacts DEF NoInfo
<1> QED
  BY <1>1, <1>2, BeforeThreads DEF TicksInv, Before

(* With the registry as it is, the record has the ticks of each of the first *)
(* threads at its place.                                                     *)
LEMMA StampTicks ==
  ASSUME WalkInv, TicksInv, CmdThreads
  PROVE  TicksInv'
<1>1. /\ \A p \in 1..Before : p \in 1..Len(registry) /\ registry[p] = Always[p]
  BY RegistryFacts DEF WalkInv
<1>2. \A p \in 1..Before : p \in Places
  BY BeforeFacts
<1>3. UNCHANGED time /\ own' = run /\ run' = NoTicks
  BY DEF CmdThreads
<1>4. \A p \in 1..Before : info'.ticks[p] = time[Always[p]]
  BY <1>1, <1>2 DEF CmdThreads, StampThreadCpuInfo
<1>5. \A p \in 1..Before : cpu'[p][1] = time[Always[p]] - info.ticks[p]
  BY <1>1, <1>2 DEF CmdThreads, StampThreadCpuInfo, SinceStamp
<1>6. NoTicks \in [Threads -> Int] /\ \A t \in Threads : NoTicks[t] = 0
  BY DEF NoTicks
<1>7. ASSUME NEW p \in 1..Before
      PROVE  /\ info'.ticks[p] \in Int
             /\ time'[Always[p]] - info'.ticks[p] = run'[Always[p]]
             /\ cpu'[p][1] = own'[Always[p]]
  <2>1. time[Always[p]] \in Int /\ Always[p] \in Threads
    BY BeforeThreads DEF TicksInv
  <2>2. cpu'[p][1] = run[Always[p]]
    BY <1>5 DEF TicksInv
  <2> QED
    BY <1>3, <1>4, <1>6, <2>1, <2>2
<1> QED
  BY <1>3, <1>6, <1>7 DEF TicksInv, Before

LEMMA TicksStep == WalkInv /\ TicksInv /\ [Next]_vars => TicksInv'
<1> SUFFICES ASSUME WalkInv, TicksInv, [Next]_vars PROVE TicksInv'
  OBVIOUS
<1>1. CASE UNCHANGED <<time, run, info, cpu, own>> /\ (at' # None => at # None)
  BY <1>1 DEF TicksInv, Before
<1>2. CASE UNCHANGED vars
  BY <1>1, <1>2 DEF vars
<1>3. ASSUME NEW t \in Range(registry), Tick(t)
      PROVE  TicksInv'
  <2>1. t \in Threads
    BY RegistryFacts DEF WalkInv
  <2>2. /\ time' = [time EXCEPT ![t] = @ + 1] /\ run' = [run EXCEPT ![t] = @ + 1]
        /\ UNCHANGED <<info, cpu, at, own>>
    BY <1>3 DEF Tick
  <2>3. time' \in [Threads -> Int] /\ run' \in [Threads -> Int]
    BY <2>1, <2>2 DEF TicksInv
  <2>4. ASSUME NEW p \in 1..Before
        PROVE  /\ info'.ticks[p] \in Int
               /\ time'[Always[p]] - info'.ticks[p] = run'[Always[p]]
               /\ at' # None => cpu'[p][1] = own'[Always[p]]
    <3>1. Always[p] \in Threads
      BY BeforeThreads
    <3>2. PICK a : a = Always[p]
      OBVIOUS
    <3>3. /\ time[a] \in Int /\ run[a] \in Int /\ info.ticks[p] \in Int
          /\ time[a] - info.ticks[p] = run[a]
      BY <3>1, <3>2 DEF TicksInv
    <3>4. /\ time'[a] = IF a = t THEN time[a] + 1 ELSE time[a]
          /\ run'[a] = IF a = t THEN run[a] + 1 ELSE run[a]
      BY <2>2, <3>1, <3>2 DEF TicksInv
    <3>5. time'[a] - info.ticks[p] = run'[a]
      BY <3>3, <3>4
    <3> QED
      BY <2>2, <3>2, <3>3, <3>5 DEF TicksInv
  <2> QED
    BY <2>3, <2>4 DEF TicksInv, Before
<1>4. CASE StreamerStarts
  <2>1. CASE UNCHANGED <<time, run>>
    BY <1>1, <1>4, <2>1 DEF StreamerStarts
  <2>2. CASE time' = [time EXCEPT ![Streamer] = 0] /\ run' = [run EXCEPT ![Streamer] = 0]
    <3>1. UNCHANGED <<info, cpu, at, own>>
      BY <1>4 DEF StreamerStarts
    <3>2. time' \in [Threads -> Int] /\ run' \in [Threads -> Int]
      <4>1. \A z \in Int : \A f \in [Threads -> Int] : [f EXCEPT ![Streamer] = z] \in [Threads -> Int]
        OBVIOUS
      <4>2. 0 \in Int
        OBVIOUS
      <4> QED
        BY <2>2, <4>1, <4>2 DEF TicksInv
    <3>3. \A p \in 1..Before : time'[Always[p]] = time[Always[p]] /\ run'[Always[p]] = run[Always[p]]
      BY <2>2, BeforeThreads DEF TicksInv
    <3> QED
      BY <3>1, <3>2, <3>3 DEF TicksInv, Before
  <2> QED
    BY <1>4, <2>1, <2>2 DEF StreamerStarts
<1>5. CASE StreamerCollected
  BY <1>1, <1>5 DEF StreamerCollected
<1>6. CASE CmdThreads
  BY <1>6, StampTicks
<1>7. CASE NextLine
  BY <1>1, <1>7 DEF NextLine
<1>8. CASE Reset
  BY <1>8, TicksZero DEF Reset
<1> QED
  BY <1>2, <1>3, <1>4, <1>5, <1>6, <1>7, <1>8 DEF Next

(* The threads that were there before the streaming thread have their own    *)
(* ticks on their lines, however often it starts and ends: places move only  *)
(* behind the one it leaves.                                                 *)
THEOREM EarlierSafe == Spec => []EarlierTicksAreTheirs
<1>1. Init => TicksInv
  <2> SUFFICES ASSUME Init PROVE TicksInv
    OBVIOUS
  <2>1. NoTicks \in [Threads -> Int] /\ \A t \in Threads : NoTicks[t] = 0
    BY DEF NoTicks
  <2>2. \A p \in 1..Before : NoInfo.ticks[p] = 0
    BY BeforeFacts DEF NoInfo
  <2>3. time = NoTicks /\ run = NoTicks /\ info = NoInfo /\ at = None
    BY DEF Init
  <2> QED
    BY <2>1, <2>2, <2>3, BeforeThreads DEF TicksInv
<1>2. WalkInv /\ TicksInv => EarlierTicksAreTheirs
  <2> SUFFICES ASSUME WalkInv, TicksInv, at \in Range(Front(Always))
               PROVE  StampThreadGetCpuPercent(idx)[1] = own[at]
    BY DEF EarlierTicksAreTheirs
  <2>1. PICK p \in 1..Before : at = Always[p]
    BY BeforeFacts
  <2>2. idx = p /\ at # None /\ p \in Places
    BY <2>1, BeforeFacts DEF WalkInv
  <2> QED
    BY <2>1, <2>2 DEF TicksInv, StampThreadGetCpuPercent
<1> QED
  BY <1>1, <1>2, WalkInit, WalkStep, TicksStep, PTL DEF Spec

-----------------------------------------------------------------------------
(* The lines of all threads, while none comes or goes.                       *)

\* The streaming thread is the only one more than the permanent ones.
Length(r) == Len(r) = Len(Always) + (IF Streamer \in Range(r) THEN 1 ELSE 0)

LEMMA BootLength ==
  ASSUME NEW r \in BootRegistries
  PROVE  Length(r)
<1> DEFINE n == Len(Always)
           f == Front(Always)
           s == <<Streamer, Last(Always)>>
<1>1. /\ Always \in Seq(Threads) /\ n \in Nat \ {0} /\ Streamer \in Threads
      /\ DOMAIN Always = 1..n /\ \A i \in 1..n : Always[i] \in Threads /\ Always[i] # Streamer
  BY AlwaysSeq, ElementOfSeq, LenProperties
<1>2. Length(Always)
  <2>1. Streamer \notin Range(Always)
    BY <1>1 DEF Range
  <2>2. n = n + 0
    BY <1>1
  <2> QED
    BY <2>1, <2>2 DEF Length
<1>3. Length(f \o s)
  <2>1. f \in Seq(Threads) /\ Len(f) = n - 1
    BY FrontIsBefore DEF Before
  <2>2. s \in Seq(Threads) /\ Len(s) = 2 /\ s[1] = Streamer
    BY <1>1 DEF Last
  <2> HIDE DEF n, f, s
  <2>3. PICK c : c = f \o s
    OBVIOUS
  <2>4. c \in Seq(Threads) /\ Len(c) = n + 1
        /\ \A i \in 1..(Len(f) + Len(s)) : c[i] = IF i <= Len(f) THEN f[i] ELSE s[i - Len(f)]
    <3>1. c \in Seq(Threads) /\ Len(c) = Len(f) + Len(s)
          /\ \A i \in 1..(Len(f) + Len(s)) : c[i] = IF i <= Len(f) THEN f[i] ELSE s[i - Len(f)]
      BY <2>1, <2>2, <2>3, ConcatProperties
    <3>2. Len(f) + Len(s) = n + 1
      BY <1>1, <2>1, <2>2
    <3> QED
      BY <3>1, <3>2
  <2>5. c[n] = Streamer /\ n \in 1..(n + 1)
    <3>1. n \in 1..(Len(f) + Len(s)) /\ ~(n <= Len(f)) /\ n - Len(f) = 1
      BY <1>1, <2>1, <2>2
    <3> QED
      BY <1>1, <2>2, <2>4, <3>1
  <2>6. DOMAIN c = 1..(n + 1)
    BY <2>4, LenProperties
  <2>7. Streamer \in Range(c)
    BY <2>5, <2>6 DEF Range
  <2> QED
    BY <2>3, <2>4, <2>7 DEF Length, n
<1> QED
  BY <1>2, <1>3 DEF BootRegistries

LEMMA AppendLength ==
  ASSUME NEW r, Registry(r), Length(r), Streamer \notin Range(r)
  PROVE  Length(Append(r, Streamer))
<1>1. r \in Seq(Threads) /\ Len(r) \in Nat /\ Streamer \in Threads
  BY RegistryFacts, AlwaysSeq DEF Registry
<1>2. PICK c : c = Append(r, Streamer)
  OBVIOUS
<1>3. c \in Seq(Threads) /\ Len(c) = Len(r) + 1 /\ c[Len(r) + 1] = Streamer
  BY <1>1, <1>2, AppendProperties
<1>4. DOMAIN c = 1..(Len(r) + 1) /\ Len(r) + 1 \in 1..(Len(r) + 1)
  BY <1>1, <1>3, LenProperties
<1>5. Streamer \in Range(c)
  BY <1>3, <1>4 DEF Range
<1> QED
  BY <1>2, <1>3, <1>5, AlwaysSeq DEF Length

LEMMA UnlinkedLength ==
  ASSUME Registry(registry), Length(registry), Streamer \in Range(registry)
  PROVE  Length(Unlinked)
<1>1. Len(Unlinked) = Len(registry) - 1 /\ Streamer \notin Range(Unlinked)
  BY UnlinkedRegistry
<1> QED
  BY <1>1, AlwaysSeq DEF Length

LEMMA LengthFits ==
  ASSUME Registry(registry), Length(registry)
  PROVE  \A p \in 1..Len(registry) : p \in Places
<1>1. Len(registry) \in Nat /\ Len(registry) <= Len(Always) + 1 /\ Len(Always) \in Nat
  BY RegistryFacts, AlwaysSeq DEF Length
<1>2. MaxEntries \in Nat /\ MaxEntries >= Len(Always) + 2
  BY ThreadLoadAssumption
<1> QED
  BY <1>1, <1>2 DEF Places

\* The ticks of the thread at place p since the last command.
Since(p) == time[registry[p]] - info.ticks[p]

(* An inductive invariant behind SharesAreTheirs: as long as the registry is *)
(* the one of the last command, its record belongs to the threads of today,  *)
(* and the walk stands at the place it counts.                               *)
LineInv ==
    /\ Length(registry)
    /\ time \in [Threads -> Int] /\ run \in [Threads -> Int]
    /\ \A p \in Places : info.ticks[p] \in Int
    /\ ended => moved[1]
    /\ ~moved[1] => \A p \in 1..Len(registry) : run[registry[p]] = Since(p)
    /\ at # None /\ ~moved[1] /\ ~moved[2] =>
         /\ idx \in 1..Len(registry) /\ registry[idx] = at
         /\ \A p \in 1..Len(registry) : cpu[p][1] = own[registry[p]]

LEMMA LineBoot ==
  ASSUME NEW r \in BootRegistries
  PROVE  \A p \in 1..Len(r) : NoTicks[r[p]] = NoTicks[r[p]] - NoInfo.ticks[p]
<1>1. Registry(r) /\ Length(r)
  BY BootRegistry, BootLength
<1>2. \A p \in 1..Len(r) : p \in Places /\ r[p] \in Threads
  <2>1. Len(r) \in Nat /\ Len(r) <= Len(Always) + 1 /\ Len(Always) \in Nat
    BY <1>1, RegistryFacts, AlwaysSeq DEF Length
  <2>2. MaxEntries \in Nat /\ MaxEntries >= Len(Always) + 2
    BY ThreadLoadAssumption
  <2> QED
    BY <1>1, <2>1, <2>2, RegistryFacts DEF Places
<1>3. \A p \in 1..Len(r) : NoTicks[r[p]] = 0 /\ NoInfo.ticks[p] = 0
  BY <1>2 DEF NoTicks, NoInfo
<1> QED
  BY <1>3

LEMMA LineInit == (Init => LineInv)
<1> SUFFICES ASSUME Init PROVE LineInv
  OBVIOUS
<1>1. registry \in BootRegistries /\ time = NoTicks /\ run = NoTicks /\ info = NoInfo
      /\ at = None /\ ~ended
  BY DEF Init
<1>2. Length(registry) /\ \A p \in 1..Len(registry) : run[registry[p]] = Since(p)
  BY <1>1, BootLength, LineBoot DEF Since
<1>3. NoTicks \in [Threads -> Int] /\ \A p \in Places : NoInfo.ticks[p] \in Int
  BY DEF NoTicks, NoInfo
<1> QED
  BY <1>1, <1>2, <1>3 DEF LineInv

LEMMA LineStamp ==
  ASSUME WalkInv, LineInv, CmdThreads
  PROVE  LineInv'
<1>1. Registry(registry) /\ Length(registry)
  BY DEF WalkInv, LineInv
<1> DEFINE n == Len(registry)
<1>2. /\ n \in Nat \ {0} /\ Head(registry) = registry[1] /\ 1 \in 1..n
      /\ \A p \in 1..n : p \in Places /\ registry[p] \in Threads
  BY <1>1, RegistryFacts, LengthFits
<1>3. /\ UNCHANGED <<registry, time, ended>> /\ at = None /\ at' = registry[1] /\ idx' = 1
      /\ own' = run /\ run' = NoTicks /\ moved' = <<FALSE, moved[1]>>
  BY <1>2 DEF CmdThreads
<1>4. \A p \in 1..n : info'.ticks[p] = time[registry[p]] /\ cpu'[p][1] = Since(p)
  BY <1>2 DEF CmdThreads, StampThreadCpuInfo, SinceStamp, Since
<1>5. ~ended
  <2>1. None # Streamer
    BY NoneIsNoThread
  <2> QED
    BY <1>3, <2>1 DEF WalkInv
<1>6. \A p \in 1..n : time[registry[p]] \in Int /\ NoTicks[registry[p]] = 0
  BY <1>2 DEF LineInv, NoTicks
<1>7. \A p \in 1..n : run'[registry[p]] = time[registry[p]] - info'.ticks[p]
  BY <1>3, <1>4, <1>6
<1>8. ASSUME ~moved'[2]
      PROVE  \A p \in 1..n : cpu'[p][1] = own'[registry[p]]
  <2>1. ~moved[1]
    BY <1>3, <1>8
  <2> QED
    BY <1>3, <1>4, <2>1 DEF LineInv
<1>9. NoTicks \in [Threads -> Int]
  BY DEF NoTicks
<1>10. /\ Length(registry') /\ time' \in [Threads -> Int] /\ run' \in [Threads -> Int]
       /\ ~ended'
  BY <1>1, <1>3, <1>5, <1>9 DEF LineInv
<1>12. \A p \in Places : info'.ticks[p] \in Int
  <2>1. \A p \in Places : info'.ticks[p] = IF p \in 1..n THEN time[registry[p]] ELSE info.ticks[p]
    BY DEF CmdThreads, StampThreadCpuInfo
  <2> QED
    BY <1>6, <2>1 DEF LineInv
<1>11. idx' \in 1..Len(registry') /\ registry'[idx'] = at'
  BY <1>2, <1>3
<1> QED
  BY <1>3, <1>7, <1>8, <1>10, <1>11, <1>12 DEF LineInv, Length, Range, Since

LEMMA LineStep == WalkInv /\ LineInv /\ [Next]_vars => LineInv'
<1> SUFFICES ASSUME WalkInv, LineInv, [Next]_vars PROVE LineInv'
  OBVIOUS
<1>0. Registry(registry) /\ Length(registry)
  BY DEF WalkInv, LineInv
<1>1. CASE UNCHANGED <<registry, time, info, cpu, at, idx, ended, run, own, moved>>
  BY <1>1 DEF LineInv, Length, Range, Since
<1>2. CASE UNCHANGED vars
  BY <1>1, <1>2 DEF vars
<1>3. ASSUME NEW t \in Range(registry), Tick(t)
      PROVE  LineInv'
  <2>1. t \in Threads /\ \A p \in 1..Len(registry) : registry[p] \in Threads
    BY <1>0, RegistryFacts
  <2>2. /\ time' = [time EXCEPT ![t] = @ + 1] /\ run' = [run EXCEPT ![t] = @ + 1]
        /\ UNCHANGED <<registry, info, cpu, at, idx, ended, own, moved>>
    BY <1>3 DEF Tick
  <2>3. time' \in [Threads -> Int] /\ run' \in [Threads -> Int]
    BY <2>1, <2>2 DEF LineInv
  <2>4. ASSUME ~moved[1], NEW p \in 1..Len(registry)
        PROVE  run'[registry[p]] = time'[registry[p]] - info.ticks[p]
    <3>1. PICK a \in Threads : a = registry[p]
      BY <2>1
    <3>2. /\ time[a] \in Int /\ run[a] \in Int
          /\ run[a] = time[a] - info.ticks[p]
      BY <2>4, <3>1 DEF LineInv, Since
    <3>3. /\ time'[a] = IF a = t THEN time[a] + 1 ELSE time[a]
          /\ run'[a] = IF a = t THEN run[a] + 1 ELSE run[a]
      BY <2>2, <3>1 DEF LineInv
    <3>4. info.ticks[p] \in Int
      BY <1>0, LengthFits DEF LineInv
    <3>5. PICK k \in Int : k = info.ticks[p]
      BY <3>4
    <3>6. run'[a] = time'[a] - k
      BY <3>2, <3>3, <3>5
    <3> QED
      BY <3>1, <3>5, <3>6, Zenon
  <2> QED
    BY <2>2, <2>3, <2>4 DEF LineInv, Length, Range, Since
<1>4. CASE StreamerStarts
  <2>1. CASE UNCHANGED <<registry, time, run, moved>>
    BY <1>1, <1>4, <2>1 DEF StreamerStarts
  <2>2. CASE /\ Streamer \notin Range(registry) /\ registry' = Append(registry, Streamer)
             /\ time' = [time EXCEPT ![Streamer] = 0] /\ run' = [run EXCEPT ![Streamer] = 0]
             /\ moved' = <<TRUE, moved[2]>>
    <3>1. Length(registry')
      BY <1>0, <2>2, AppendLength
    <3>2. time' \in [Threads -> Int] /\ run' \in [Threads -> Int]
      <4>1. \A z \in Int : \A f \in [Threads -> Int] : [f EXCEPT ![Streamer] = z] \in [Threads -> Int]
        OBVIOUS
      <4>2. 0 \in Int
        OBVIOUS
      <4> QED
        BY <2>2, <4>1, <4>2 DEF LineInv
    <3>3. moved'[1] /\ info' = info
      BY <1>4, <2>2 DEF StreamerStarts
    <3> QED
      BY <3>1, <3>2, <3>3 DEF LineInv, Length, Range
  <2> QED
    BY <1>4, <2>1, <2>2 DEF StreamerStarts
<1>5. CASE StreamerCollected
  <2>1. UNCHANGED <<time, run, info>> /\ moved' = <<TRUE, moved[2]>>
    BY <1>5 DEF StreamerCollected
  <2>2. Length(registry')
    <3>1. Streamer \in Range(registry) /\ registry' \in {registry, Unlinked}
      BY <1>5 DEF StreamerCollected
    <3> QED
      BY <1>0, <3>1, UnlinkedLength
  <2>3. moved'[1]
    BY <2>1
  <2> QED
    BY <2>1, <2>2, <2>3 DEF LineInv, Length, Range
<1>6. CASE CmdThreads
  BY <1>6, LineStamp
<1>7. CASE NextLine
  <2>1. UNCHANGED <<time, info, cpu, run, own, moved>> /\ ended' = FALSE /\ at # None
        /\ registry' = IF ended THEN Unlinked ELSE registry
    BY <1>7 DEF NextLine, Released
  <2>2. CASE ended
    <3>1. Streamer \in Range(registry)
      BY <2>1, <2>2 DEF WalkInv
    <3>2. Length(registry') /\ moved'[1]
      BY <1>0, <2>1, <2>2, <3>1, UnlinkedLength DEF LineInv
    <3> QED
      BY <2>1, <3>2 DEF LineInv, Length, Range
  <2>3. CASE ~ended
    <3>1. registry' = registry
      BY <2>1, <2>3
    <3>2. ASSUME at' # None, ~moved[1], ~moved[2]
          PROVE  idx' \in 1..Len(registry) /\ registry[idx'] = at'
      <4> DEFINE n == Len(registry)
                 q == CHOOSE p \in 2..n : registry[p - 1] = at
      <4>1. /\ n \in Nat \ {0} /\ \A i, j \in 1..n : registry[i] = registry[j] => i = j
            /\ idx \in 1..n /\ registry[idx] = at
        BY <1>0, <2>1, <3>2, RegistryFacts DEF LineInv
      <4>2. at # Last(registry) /\ at' = registry[q] /\ idx' = idx + 1
        BY <1>7, <3>2 DEF NextLine
      <4>3. idx # n
        BY <4>1, <4>2 DEF Last
      <4> HIDE DEF n
      <4>4. idx + 1 \in 2..n /\ (idx + 1) - 1 = idx
        BY <4>1, <4>3
      <4>5. q \in 2..n /\ registry[q - 1] = at
        <5>1. \E p \in 2..n : registry[p - 1] = at
          BY <4>1, <4>4
        <5> QED
          BY <5>1
      <4> HIDE DEF q
      <4>6. q - 1 = idx
        <5>1. q - 1 \in 1..n
          BY <4>1, <4>5
        <5> QED
          BY <4>1, <4>5, <5>1
      <4>7. q = idx + 1 /\ q \in 1..n
        BY <4>1, <4>5, <4>6
      <4> QED
        BY <4>2, <4>7 DEF n
    <3>3. /\ Length(registry') /\ ~ended'
          /\ time' \in [Threads -> Int] /\ run' \in [Threads -> Int]
          /\ \A p \in Places : info'.ticks[p] \in Int
      BY <1>0, <2>1, <3>1 DEF LineInv
    <3>4. ASSUME ~moved'[1], NEW p \in 1..Len(registry')
          PROVE  run'[registry'[p]] = time'[registry'[p]] - info'.ticks[p]
      BY <1>0, <2>1, <3>1, <3>4 DEF LineInv, Since
    <3>5. ASSUME at' # None, ~moved'[1], ~moved'[2]
          PROVE  /\ idx' \in 1..Len(registry') /\ registry'[idx'] = at'
                 /\ \A p \in 1..Len(registry') : cpu'[p][1] = own'[registry'[p]]
      <4>1. at # None /\ ~moved[1] /\ ~moved[2]
        BY <2>1, <3>5
      <4> QED
        BY <1>0, <2>1, <3>1, <3>2, <3>5, <4>1 DEF LineInv
    <3> QED
      BY <3>3, <3>4, <3>5 DEF LineInv, Length, Range, Since
  <2> QED
    BY <2>2, <2>3
<1>8. CASE Reset
  <2>1. registry' \in BootRegistries /\ time' = NoTicks /\ run' = NoTicks /\ info' = NoInfo
        /\ at' = None /\ ~ended'
    BY <1>8 DEF Reset
  <2>2. Length(registry')
        /\ \A p \in 1..Len(registry') : run'[registry'[p]] = time'[registry'[p]] - info'.ticks[p]
    BY <2>1, BootLength, LineBoot
  <2>3. NoTicks \in [Threads -> Int] /\ \A p \in Places : NoInfo.ticks[p] \in Int
    BY DEF NoTicks, NoInfo
  <2> QED
    BY <2>1, <2>2, <2>3 DEF LineInv, Length, Range, Since
<1> QED
  BY <1>2, <1>3, <1>4, <1>5, <1>6, <1>7, <1>8 DEF Next

-----------------------------------------------------------------------------
(* Sums over finite sets.                                                    *)

Pick(s) == CHOOSE x \in s : TRUE

(* What defines the sum of f over S: g is the sum over each subset.          *)
IsSum(f, S, g) ==
    g = [s \in SUBSET S |-> IF s = {} THEN 0 ELSE f[Pick(s)] + g[s \ {Pick(s)}]]

Partial(f, S) == CHOOSE g : IsSum(f, S, g)

(* A sum is the value of such a function, if there is one,                   *)
LEMMA SumIsSum ==
  ASSUME NEW f, NEW S, NEW g, IsSum(f, S, g)
  PROVE  \E h : IsSum(f, S, h) /\ SumFunctionOnSet(f, S) = h[S]
<1> DEFINE iter == CHOOSE h : IsSum(f, S, h)
<1>1. IsSum(f, S, iter)
  OBVIOUS
<1>2. SumFunctionOnSet(f, S) = iter[S]
  BY DEF SumFunctionOnSet, FoldFunctionOnSet, MapThenFoldSet, IsSum, Pick
<1> QED
  BY <1>1, <1>2

(* Induction: of the counterexamples there is one that contains no other.    *)
LEMMA SmallestSubset ==
  ASSUME NEW S, IsFiniteSet(S), NEW B, B \subseteq SUBSET S, B # {}
  PROVE  \E T \in B : \A U \in B : ~(U \subseteq T /\ U # T)
<1>1. IsWellFoundedOn(StrictSubsetOrdering(S), SUBSET S)
  BY FS_StrictSubsetOrderingWellFounded, FS_FiniteSubsetsOfFinite
<1>2. PICK T \in B : \A U \in B : ~(<<U, T>> \in StrictSubsetOrdering(S))
  BY <1>1, WFMin
<1> QED
  BY <1>2 DEF StrictSubsetOrdering

LEMMA PickIn ==
  ASSUME NEW s, s # {}
  PROVE  Pick(s) \in s
BY DEF Pick

(* there is at most one,                                                     *)
LEMMA SumUnique ==
  ASSUME NEW f, NEW S, NEW T, NEW g, NEW h, IsSum(f, S, g), IsSum(f, T, h),
         NEW U, U \subseteq S, U \subseteq T, IsFiniteSet(U)
  PROVE  g[U] = h[U]
<1> DEFINE B == {V \in SUBSET U : g[V] # h[V]}
<1>1. SUFFICES ASSUME B # {} PROVE FALSE
  OBVIOUS
<1>2. PICK V \in B : \A W \in B : ~(W \subseteq V /\ W # V)
  <2>1. B \subseteq SUBSET U
    OBVIOUS
  <2> HIDE DEF B
  <2> QED
    BY <1>1, <2>1, SmallestSubset
<1> DEFINE W == V \ {Pick(V)}
<1>3. /\ g[V] = IF V = {} THEN 0 ELSE f[Pick(V)] + g[W]
      /\ h[V] = IF V = {} THEN 0 ELSE f[Pick(V)] + h[W]
  BY DEF IsSum
<1>4. V # {} => W \in SUBSET U /\ W \subseteq V /\ W # V
  BY PickIn
<1> HIDE DEF W
<1>5. V # {} => g[W] = h[W]
  BY <1>2, <1>4
<1> QED
  BY <1>2, <1>3, <1>5

(* and there is one if S is finite.                                          *)
LEMMA SumExists ==
  ASSUME NEW f, NEW S, IsFiniteSet(S)
  PROVE  \E g : IsSum(f, S, g)
<1> DEFINE B == {T \in SUBSET S : ~\E g : IsSum(f, T, g)}
<1>1. SUFFICES ASSUME B # {} PROVE FALSE
  OBVIOUS
<1>2. PICK T \in B : \A U \in B : ~(U \subseteq T /\ U # T)
  <2>1. B \subseteq SUBSET S
    OBVIOUS
  <2> HIDE DEF B
  <2> QED
    BY <1>1, <2>1, SmallestSubset
<1> DEFINE Val(V) == Partial(f, V)[V]
           g == [s \in SUBSET T |-> IF s = {} THEN 0 ELSE f[Pick(s)] + Val(s \ {Pick(s)})]
<1>3. ASSUME NEW V, V \subseteq T, V # T PROVE IsSum(f, V, Partial(f, V)) /\ IsFiniteSet(V)
  <2>1. V \in SUBSET S /\ V \notin B
    BY <1>2, <1>3
  <2> QED
    BY <2>1, FS_Subset DEF Partial
<1>4. ASSUME NEW V, V \subseteq T, V # T PROVE Val(V) = g[V]
  <2> DEFINE W == V \ {Pick(V)}
  <2>1. Val(V) = IF V = {} THEN 0 ELSE f[Pick(V)] + Partial(f, V)[W]
    <3>1. PICK h : h = Partial(f, V) /\ IsSum(f, V, h)
      BY <1>3, <1>4
    <3>2. h[V] = IF V = {} THEN 0 ELSE f[Pick(V)] + h[W]
      BY <3>1 DEF IsSum
    <3> QED
      BY <3>1, <3>2
  <2>2. Partial(f, V)[W] = Val(W)
    <3>1. W \subseteq V /\ W \subseteq T /\ W # T
      BY <1>4
    <3>2. IsSum(f, V, Partial(f, V)) /\ IsSum(f, W, Partial(f, W)) /\ IsFiniteSet(W)
      BY <1>3, <1>4, <3>1
    <3> HIDE DEF W
    <3> QED
      BY <3>1, <3>2, SumUnique
  <2> HIDE DEF Val
  <2> QED
    BY <1>4, <2>1, <2>2
<1>5. \A s \in SUBSET T : s # {} => s \ {Pick(s)} \subseteq T /\ s \ {Pick(s)} # T
  BY PickIn
<1>6. \A s \in SUBSET T : s # {} => Val(s \ {Pick(s)}) = g[s \ {Pick(s)}]
  <2> HIDE DEF Val, g
  <2> QED
    BY <1>4, <1>5
<1>7. IsSum(f, T, g)
  <2>1. g = [s \in SUBSET T |-> IF s = {} THEN 0 ELSE f[Pick(s)] + g[s \ {Pick(s)}]]
    <3>1. \A s \in SUBSET T : (IF s = {} THEN 0 ELSE f[Pick(s)] + Val(s \ {Pick(s)}))
            = IF s = {} THEN 0 ELSE f[Pick(s)] + g[s \ {Pick(s)}]
      BY <1>6
    <3>2. g = [s \in SUBSET T |-> IF s = {} THEN 0 ELSE f[Pick(s)] + Val(s \ {Pick(s)})]
      OBVIOUS
    <3> HIDE DEF g, Val
    <3> QED
      BY <3>1, <3>2, Zenon
  <2> QED
    BY <2>1 DEF IsSum
<1> QED
  BY <1>2, <1>7

(* What a sum is, whatever element comes first.                              *)
LEMMA SumRule ==
  ASSUME NEW f, NEW S, IsFiniteSet(S)
  PROVE  SumFunctionOnSet(f, S) =
           IF S = {} THEN 0 ELSE f[Pick(S)] + SumFunctionOnSet(f, S \ {Pick(S)})
<1> DEFINE T == S \ {Pick(S)}
<1>1. IsFiniteSet(T) /\ T \subseteq S
  BY FS_Subset
<1>2. PICK g : IsSum(f, S, g) /\ SumFunctionOnSet(f, S) = g[S]
  BY SumExists, SumIsSum
<1> HIDE DEF T
<1>3. PICK h : IsSum(f, T, h) /\ SumFunctionOnSet(f, T) = h[T]
  BY <1>1, SumExists, SumIsSum
<1>4. g[T] = h[T]
  BY <1>1, <1>2, <1>3, SumUnique
<1>5. g[S] = IF S = {} THEN 0 ELSE f[Pick(S)] + g[T]
  BY <1>2 DEF IsSum, T
<1> QED
  BY <1>2, <1>3, <1>4, <1>5 DEF T

LEMMA SumEmpty ==
  ASSUME NEW f
  PROVE  SumFunctionOnSet(f, {}) = 0
BY SumRule, FS_EmptySet

LEMMA SumType ==
  ASSUME NEW S, IsFiniteSet(S), NEW f, \A x \in S : f[x] \in Int
  PROVE  SumFunctionOnSet(f, S) \in Int
<1> DEFINE B == {T \in SUBSET S : SumFunctionOnSet(f, T) \notin Int}
<1>1. SUFFICES ASSUME B # {} PROVE FALSE
  OBVIOUS
<1>2. PICK T \in B : \A U \in B : ~(U \subseteq T /\ U # T)
  <2>1. B \subseteq SUBSET S
    OBVIOUS
  <2> HIDE DEF B
  <2> QED
    BY <1>1, <2>1, SmallestSubset
<1>3. PICK U : U = T \ {Pick(T)}
  OBVIOUS
<1>4. IsFiniteSet(T) /\ T # {}
  <2>1. IsFiniteSet(T) /\ SumFunctionOnSet(f, T) \notin Int
    BY FS_Subset
  <2> QED
    BY <2>1, SumEmpty
<1>5. Pick(T) \in T /\ U \in SUBSET S /\ U \subseteq T /\ U # T
  BY <1>3, <1>4, PickIn
<1>6. SumFunctionOnSet(f, T) = f[Pick(T)] + SumFunctionOnSet(f, U)
  BY <1>3, <1>4, SumRule
<1>7. SumFunctionOnSet(f, U) \in Int
  BY <1>2, <1>5
<1> QED
  BY <1>5, <1>6, <1>7

(* Any element may be taken out of a sum.                                    *)
LEMMA SumRemove ==
  ASSUME NEW S, IsFiniteSet(S), NEW f, \A x \in S : f[x] \in Int, NEW e \in S
  PROVE  SumFunctionOnSet(f, S) = f[e] + SumFunctionOnSet(f, S \ {e})
<1> DEFINE Sum(T) == SumFunctionOnSet(f, T)
           B == {T \in SUBSET S : \E x \in T : Sum(T) # f[x] + Sum(T \ {x})}
<1>1. SUFFICES ASSUME B # {} PROVE FALSE
  OBVIOUS
<1>2. PICK T \in B : \A U \in B : ~(U \subseteq T /\ U # T)
  <2>1. B \subseteq SUBSET S
    OBVIOUS
  <2> HIDE DEF B
  <2> QED
    BY <1>1, <2>1, SmallestSubset
<1>3. PICK x \in T : Sum(T) # f[x] + Sum(T \ {x})
  OBVIOUS
<1>4. PICK p \in T : p = Pick(T)
  BY PickIn
<1>5. Sum(T) = f[p] + Sum(T \ {p})
  BY <1>3, <1>4, SumRule, FS_Subset
<1>6. p # x
  BY <1>3, <1>5
<1>7. ASSUME NEW U, U \subseteq T, U # T, NEW y \in U
      PROVE  Sum(U) = f[y] + Sum(U \ {y})
  BY <1>2, <1>7
<1> HIDE DEF Sum
<1>8. Sum(T \ {p}) = f[x] + Sum((T \ {p}) \ {x})
  BY <1>6, <1>7
<1>9. Sum(T \ {x}) = f[p] + Sum((T \ {x}) \ {p})
  BY <1>6, <1>7
<1>10. (T \ {x}) \ {p} = (T \ {p}) \ {x}
  OBVIOUS
<1>11. PICK k \in Int : k = Sum((T \ {p}) \ {x})
  BY SumType, FS_Subset DEF Sum
<1>12. f[x] \in Int /\ f[p] \in Int
  OBVIOUS
<1> HIDE DEF B
<1>13. Sum(T \ {p}) = f[x] + k /\ Sum(T \ {x}) = f[p] + k
  BY <1>8, <1>9, <1>10, <1>11
<1>14. Sum(T) = f[p] + (f[x] + k) /\ Sum(T) # f[x] + (f[p] + k)
  BY <1>3, <1>5, <1>13
<1> QED
  BY <1>12, <1>14

(* A sum only depends on the values added.                                   *)
LEMMA SumSame ==
  ASSUME NEW S, IsFiniteSet(S), NEW f, NEW g, \A x \in S : f[x] = g[x]
  PROVE  SumFunctionOnSet(f, S) = SumFunctionOnSet(g, S)
<1> DEFINE B == {T \in SUBSET S : SumFunctionOnSet(f, T) # SumFunctionOnSet(g, T)}
<1>1. SUFFICES ASSUME B # {} PROVE FALSE
  OBVIOUS
<1>2. PICK T \in B : \A U \in B : ~(U \subseteq T /\ U # T)
  <2>1. B \subseteq SUBSET S
    OBVIOUS
  <2> HIDE DEF B
  <2> QED
    BY <1>1, <2>1, SmallestSubset
<1>3. PICK U : U = T \ {Pick(T)}
  OBVIOUS
<1>4. IsFiniteSet(T) /\ T # {}
  BY FS_Subset, SumEmpty
<1>5. Pick(T) \in T /\ U \in SUBSET S /\ U \subseteq T /\ U # T
  BY <1>3, <1>4, PickIn
<1>6. /\ SumFunctionOnSet(f, T) = f[Pick(T)] + SumFunctionOnSet(f, U)
      /\ SumFunctionOnSet(g, T) = g[Pick(T)] + SumFunctionOnSet(g, U)
  BY <1>3, <1>4, SumRule
<1>7. SumFunctionOnSet(f, U) = SumFunctionOnSet(g, U)
  BY <1>2, <1>5
<1> QED
  BY <1>5, <1>6, <1>7

(* A sum of differences is the difference of the sums.                       *)
LEMMA SumMinus ==
  ASSUME NEW S, IsFiniteSet(S), NEW f, NEW g, NEW h,
         \A x \in S : f[x] \in Int /\ g[x] \in Int /\ h[x] = f[x] - g[x]
  PROVE  SumFunctionOnSet(h, S) = SumFunctionOnSet(f, S) - SumFunctionOnSet(g, S)
<1> DEFINE B == {T \in SUBSET S :
                   SumFunctionOnSet(h, T) # SumFunctionOnSet(f, T) - SumFunctionOnSet(g, T)}
<1>1. SUFFICES ASSUME B # {} PROVE FALSE
  OBVIOUS
<1>2. PICK T \in B : \A U \in B : ~(U \subseteq T /\ U # T)
  <2>1. B \subseteq SUBSET S
    OBVIOUS
  <2> HIDE DEF B
  <2> QED
    BY <1>1, <2>1, SmallestSubset
<1>3. PICK U : U = T \ {Pick(T)}
  OBVIOUS
<1>4. IsFiniteSet(T) /\ T # {}
  <2>1. IsFiniteSet(T) /\ SumFunctionOnSet(h, T) # SumFunctionOnSet(f, T) - SumFunctionOnSet(g, T)
    BY FS_Subset
  <2>2. 0 = 0 - 0
    OBVIOUS
  <2> QED
    BY <2>1, <2>2, SumEmpty
<1>5. PICK e \in T : e = Pick(T) /\ U \in SUBSET S /\ U \subseteq T /\ U # T
  BY <1>3, <1>4, PickIn
<1>6. /\ SumFunctionOnSet(f, T) = f[e] + SumFunctionOnSet(f, U)
      /\ SumFunctionOnSet(g, T) = g[e] + SumFunctionOnSet(g, U)
      /\ SumFunctionOnSet(h, T) = h[e] + SumFunctionOnSet(h, U)
  BY <1>3, <1>4, <1>5, SumRule
<1>7. SumFunctionOnSet(h, U) = SumFunctionOnSet(f, U) - SumFunctionOnSet(g, U)
  BY <1>2, <1>5
<1>8. SumFunctionOnSet(f, U) \in Int /\ SumFunctionOnSet(g, U) \in Int
  BY <1>5, SumType, FS_Subset
<1>9. f[e] \in Int /\ g[e] \in Int /\ h[e] = f[e] - g[e]
  OBVIOUS
<1>10. SumFunctionOnSet(h, T) # SumFunctionOnSet(f, T) - SumFunctionOnSet(g, T)
  OBVIOUS
<1> HIDE DEF B
<1> QED
  BY <1>6, <1>7, <1>8, <1>9, <1>10

(* What a change of one value does to a sum.                                 *)
LEMMA SumChange ==
  ASSUME NEW S, IsFiniteSet(S), NEW f, NEW g, NEW e \in S,
         \A x \in S : f[x] \in Int /\ g[x] \in Int,
         \A x \in S \ {e} : g[x] = f[x]
  PROVE  SumFunctionOnSet(g, S) = SumFunctionOnSet(f, S) + (g[e] - f[e])
<1> DEFINE T == S \ {e}
<1>1. IsFiniteSet(T) /\ \A x \in T : g[x] = f[x]
  BY FS_Subset
<1>2. SumFunctionOnSet(f, S) = f[e] + SumFunctionOnSet(f, T)
  BY SumRemove
<1>3. SumFunctionOnSet(g, S) = g[e] + SumFunctionOnSet(g, T)
  BY SumRemove
<1> HIDE DEF T
<1>4. SumFunctionOnSet(f, T) = SumFunctionOnSet(g, T)
  BY <1>1, SumSame
<1>5. SumFunctionOnSet(f, T) \in Int
  BY <1>1, SumType DEF T
<1> QED
  BY <1>2, <1>3, <1>4, <1>5

(* The sum over the places of a list is that over its elements.              *)
LEMMA SumPlaces ==
  ASSUME NEW n \in Nat, NEW r, NEW f, NEW h,
         \A i, j \in 1..n : r[i] = r[j] => i = j,
         \A i \in 1..n : f[r[i]] \in Int /\ h[i] = f[r[i]]
  PROVE  SumFunctionOnSet(h, 1..n) = SumFunctionOnSet(f, {r[i] : i \in 1..n})
<1> DEFINE Img(P) == {r[i] : i \in P}
           B == {P \in SUBSET (1..n) : SumFunctionOnSet(h, P) # SumFunctionOnSet(f, Img(P))}
<1>1. SUFFICES ASSUME B # {} PROVE FALSE
  OBVIOUS
<1>0. IsFiniteSet(1..n)
  BY FS_Interval
<1>2. PICK T \in B : \A U \in B : ~(U \subseteq T /\ U # T)
  <2>1. PICK I : I = 1..n
    OBVIOUS
  <2>2. B \subseteq SUBSET I /\ IsFiniteSet(I)
    BY <1>0, <2>1
  <2> HIDE DEF B
  <2> QED
    BY <1>1, <2>2, SmallestSubset
<1>3. PICK U : U = T \ {Pick(T)}
  OBVIOUS
<1>4. IsFiniteSet(T) /\ T # {}
  <2>1. Img({}) = {}
    OBVIOUS
  <2> QED
    BY <1>0, <2>1, FS_Subset, SumEmpty
<1>5. PICK e \in T : e = Pick(T) /\ U \in SUBSET (1..n) /\ U \subseteq T /\ U # T
  BY <1>3, <1>4, PickIn
<1>6. SumFunctionOnSet(h, T) = h[e] + SumFunctionOnSet(h, U)
  BY <1>3, <1>4, <1>5, SumRule
<1>7. SumFunctionOnSet(h, U) = SumFunctionOnSet(f, Img(U))
  BY <1>2, <1>5
<1>8. Img(U) = Img(T) \ {r[e]} /\ r[e] \in Img(T)
  BY <1>3, <1>5
<1>9. IsFiniteSet(Img(T)) /\ \A x \in Img(T) : f[x] \in Int
  <2>1. IsFiniteSet(Img(T))
    <3>1. [i \in T |-> r[i]] \in Surjection(T, Img(T))
      BY DEF Surjection
    <3> QED
      BY <1>4, <3>1, FS_Surjection
  <2> QED
    BY <2>1
<1>10. SumFunctionOnSet(h, T) # SumFunctionOnSet(f, Img(T))
  OBVIOUS
<1>11. h[e] = f[r[e]]
  OBVIOUS
<1> HIDE DEF Img, B
<1>12. SumFunctionOnSet(f, Img(T)) = f[r[e]] + SumFunctionOnSet(f, Img(U))
  BY <1>8, <1>9, SumRemove
<1> QED
  BY <1>6, <1>7, <1>10, <1>11, <1>12

-----------------------------------------------------------------------------
(* What the ticks of all threads add up to.                                  *)

LEMMA RangeFacts ==
  ASSUME NEW r, Registry(r)
  PROVE  /\ Range(r) = {r[i] : i \in 1..Len(r)} /\ IsFiniteSet(Range(r))
         /\ Range(r) \subseteq Threads
<1>1. DOMAIN r = 1..Len(r) /\ Len(r) \in Nat /\ Range(r) \subseteq Threads
  BY RegistryFacts
<1>2. Range(r) = {r[i] : i \in 1..Len(r)}
  BY <1>1 DEF Range
<1>3. IsFiniteSet(Range(r))
  <2> DEFINE n == Len(r)
  <2>1. [i \in 1..n |-> r[i]] \in Surjection(1..n, Range(r))
    <3> HIDE DEF n
    <3>1. Range(r) = {r[i] : i \in 1..n}
      BY <1>2 DEF n
    <3> QED
      BY <3>1 DEF Surjection
  <2>2. IsFiniteSet(1..n)
    BY <1>1, FS_Interval
  <2> QED
    BY <2>1, <2>2, FS_Surjection
<1> QED
  BY <1>1, <1>2, <1>3

LEMMA TotalType ==
  ASSUME NEW r, Registry(r), NEW f \in [Threads -> Int]
  PROVE  Total(f, r) \in Int
<1>1. IsFiniteSet(Range(r)) /\ \A x \in Range(r) : f[x] \in Int
  BY RangeFacts
<1> QED
  BY <1>1, SumType DEF Total

(* The ticks of all threads: none at boot, one more with each tick.          *)
LEMMA TotalNoTicks ==
  ASSUME NEW r, Registry(r)
  PROVE  Total(NoTicks, r) = 0
<1>1. IsFiniteSet(Range(r)) /\ \A x \in Range(r) : x \in Threads
  BY RangeFacts
<1>2. NoTicks \in [Threads -> Int] /\ \A x \in Threads : NoTicks[x] = 0
  BY DEF NoTicks
<1>3. \A x \in Range(r) : NoTicks[x] \in Int /\ NoTicks[x] = NoTicks[x] - NoTicks[x]
  BY <1>1, <1>2
<1>4. Total(NoTicks, r) = Total(NoTicks, r) - Total(NoTicks, r)
  BY <1>1, <1>3, SumMinus DEF Total
<1>5. PICK k \in Int : k = Total(NoTicks, r)
  BY <1>2, TotalType
<1> QED
  BY <1>4, <1>5

LEMMA TotalTick ==
  ASSUME NEW r, Registry(r), NEW f \in [Threads -> Int], NEW t \in Range(r)
  PROVE  Total([f EXCEPT ![t] = @ + 1], r) = Total(f, r) + 1
<1> DEFINE g == [f EXCEPT ![t] = @ + 1]
<1>1. IsFiniteSet(Range(r)) /\ Range(r) \subseteq Threads
  BY RangeFacts
<1>2. f[t] \in Int /\ g[t] = f[t] + 1 /\ \A x \in Threads : f[x] \in Int /\ g[x] \in Int
  <2>1. t \in Threads
    BY <1>1
  <2> QED
    BY <2>1
<1>3. \A x \in Range(r) \ {t} : g[x] = f[x]
  BY <1>1
<1>4. \A x \in Range(r) : f[x] \in Int /\ g[x] \in Int
  BY <1>1, <1>2
<1> HIDE DEF g
<1>5. Total(g, r) = Total(f, r) + (g[t] - f[t])
  <2>1. PICK S : S = Range(r)
    OBVIOUS
  <2>2. IsFiniteSet(S) /\ t \in S /\ \A x \in S : f[x] \in Int /\ g[x] \in Int
    BY <1>1, <1>4, <2>1
  <2>3. \A x \in S \ {t} : g[x] = f[x]
    BY <1>3, <2>1
  <2>4. SumFunctionOnSet(g, S) = SumFunctionOnSet(f, S) + (g[t] - f[t])
    BY <2>2, <2>3, SumChange
  <2> QED
    BY <2>1, <2>4 DEF Total
<1>6. g[t] - f[t] = 1
  BY <1>2
<1> QED
  BY <1>5, <1>6 DEF g

(* The inductive invariant behind SharesAreTheirs, with LineInv: as long as  *)
(* the registry is the one of the last command, totalTicks is what the ticks *)
(* of all threads were then.                                                 *)
TotalInv ==
    /\ cpu \in [Places -> Int \X Int]
    /\ info.totalTicks \in Int
    /\ ~moved[1] => Total(time, registry) - Total(run, registry) = info.totalTicks
    /\ at # None /\ ~moved[1] /\ ~moved[2] =>
         \A p \in 1..Len(registry) : cpu[p][2] = Total(own, registry)

LEMMA TotalBoot ==
  ASSUME NEW r \in BootRegistries
  PROVE  Total(NoTicks, r) - Total(NoTicks, r) = NoInfo.totalTicks
<1>1. Total(NoTicks, r) = 0
  BY BootRegistry, TotalNoTicks
<1> QED
  BY <1>1 DEF NoInfo

LEMMA TotalInit == (Init => TotalInv)
<1> SUFFICES ASSUME Init PROVE TotalInv
  OBVIOUS
<1>1. registry \in BootRegistries /\ time = NoTicks /\ run = NoTicks /\ info = NoInfo
      /\ cpu = NoCpu /\ at = None
  BY DEF Init
<1>2. NoInfo.totalTicks \in Int /\ NoCpu \in [Places -> Int \X Int]
  BY DEF NoInfo, NoCpu
<1> QED
  BY <1>1, <1>2, TotalBoot DEF TotalInv

LEMMA TotalStep == WalkInv /\ LineInv /\ TotalInv /\ [Next]_vars => TotalInv'
<1> SUFFICES ASSUME WalkInv, LineInv, TotalInv, [Next]_vars PROVE TotalInv'
  OBVIOUS
<1>0. Registry(registry) /\ Length(registry) /\ time \in [Threads -> Int] /\ run \in [Threads -> Int]
  BY DEF WalkInv, LineInv
<1>1. CASE UNCHANGED vars
  BY <1>1 DEF TotalInv, vars, Total
<1>2. ASSUME NEW t \in Range(registry), Tick(t)
      PROVE  TotalInv'
  <2>1. /\ time' = [time EXCEPT ![t] = @ + 1] /\ run' = [run EXCEPT ![t] = @ + 1]
        /\ UNCHANGED <<registry, info, cpu, at, own, moved>>
    BY <1>2 DEF Tick
  <2>2. Total(time', registry) = Total(time, registry) + 1
    BY <1>0, <2>1, TotalTick
  <2>3. Total(run', registry) = Total(run, registry) + 1
    BY <1>0, <2>1, TotalTick
  <2>4. PICK a \in Int : a = Total(time, registry)
    BY <1>0, TotalType
  <2>5. PICK b \in Int : b = Total(run, registry)
    BY <1>0, TotalType
  <2>6. Total(time', registry) - Total(run', registry) = Total(time, registry) - Total(run, registry)
    BY <2>2, <2>3, <2>4, <2>5
  <2> QED
    BY <2>1, <2>6 DEF TotalInv, Total
<1>3. CASE StreamerStarts
  <2>1. UNCHANGED <<info, cpu, at, own>>
    BY <1>3 DEF StreamerStarts
  <2>2. CASE UNCHANGED <<registry, time, run, moved>>
    BY <2>1, <2>2 DEF TotalInv, Total
  <2>3. CASE moved' = <<TRUE, moved[2]>>
    <3>1. moved'[1]
      BY <2>3
    <3> QED
      BY <2>1, <3>1 DEF TotalInv
  <2> QED
    BY <1>3, <2>2, <2>3 DEF StreamerStarts
<1>4. CASE StreamerCollected
  <2>1. UNCHANGED <<info, cpu>> /\ moved' = <<TRUE, moved[2]>>
    BY <1>4 DEF StreamerCollected
  <2>2. moved'[1]
    BY <2>1
  <2> QED
    BY <2>1, <2>2 DEF TotalInv
<1>5. CASE CmdThreads
  <2> DEFINE n == Len(registry)
  <2>1. /\ UNCHANGED <<registry, time>> /\ own' = run /\ run' = NoTicks
        /\ moved' = <<FALSE, moved[1]>>
    BY <1>5 DEF CmdThreads
  <2>2. \A p \in 1..n : p \in Places
    BY <1>0, LengthFits
  <2>3. /\ info'.totalTicks = Total(time, registry)
        /\ \A p \in 1..n : cpu'[p][2] = Total(time, registry) - info.totalTicks
    BY <1>5, <2>2 DEF CmdThreads, StampThreadCpuInfo, NewTotal
  <2>4. Total(time, registry) \in Int /\ Total(run, registry) \in Int
    BY <1>0, TotalType
  <2>5. Total(time', registry') - Total(run', registry') = info'.totalTicks
    <3>1. Total(NoTicks, registry) = 0
      BY <1>0, TotalNoTicks
    <3>2. Total(time', registry') = Total(time, registry) /\ Total(run', registry') = 0
      BY <2>1, <3>1
    <3> QED
      BY <2>3, <2>4, <3>2
  <2>6. ASSUME ~moved'[2], NEW p \in 1..n
        PROVE  cpu'[p][2] = Total(own', registry')
    <3>1. ~moved[1]
      BY <2>1, <2>6
    <3>2. Total(time, registry) - Total(run, registry) = info.totalTicks
      BY <3>1 DEF TotalInv
    <3>3. PICK a \in Int : a = Total(time, registry)
      BY <2>4
    <3>4. PICK b \in Int : b = Total(run, registry)
      BY <2>4
    <3>5. cpu'[p][2] = a - (a - b)
      BY <2>3, <2>6, <3>2, <3>3, <3>4
    <3>6. Total(own', registry') = b
      BY <2>1, <3>4
    <3> QED
      BY <3>5, <3>6
  <2>7. info'.totalTicks \in Int
    BY <2>3, <2>4
  <2>8. cpu' \in [Places -> Int \X Int]
    <3>1. cpu' = [p \in Places |-> IF p \in 1..n
                     THEN <<SinceStamp(p), Total(time, registry) - info.totalTicks>> ELSE cpu[p]]
      BY <1>5 DEF CmdThreads, StampThreadCpuInfo
    <3>2. Total(time, registry) - info.totalTicks \in Int
      BY <2>4 DEF TotalInv
    <3>3. ASSUME NEW p \in 1..n PROVE SinceStamp(p) \in Int
      <4>1. p \in Places /\ registry[p] \in Threads
        BY <1>0, <2>2, RegistryFacts
      <4>2. time[registry[p]] \in Int /\ info.ticks[p] \in Int
        BY <4>1 DEF LineInv
      <4> QED
        BY <4>2 DEF SinceStamp
    <3>4. \A p \in Places : cpu[p] \in Int \X Int
      BY DEF TotalInv
    <3> HIDE DEF n
    <3> QED
      BY <3>1, <3>2, <3>3, <3>4
  <2> QED
    BY <2>1, <2>5, <2>6, <2>7, <2>8 DEF TotalInv, Total
<1>6. CASE NextLine
  <2>1. /\ UNCHANGED <<time, info, cpu, run, own, moved>> /\ at # None
        /\ registry' = IF ended THEN Unlinked ELSE registry
    BY <1>6 DEF NextLine, Released
  <2>2. CASE ended
    <3>1. moved[1]
      BY <2>2 DEF LineInv
    <3> QED
      BY <2>1, <3>1 DEF TotalInv
  <2>3. CASE ~ended
    BY <2>1, <2>3 DEF TotalInv, Total
  <2> QED
    BY <2>2, <2>3
<1>7. CASE Reset
  <2>1. /\ registry' \in BootRegistries /\ time' = NoTicks /\ run' = NoTicks /\ info' = NoInfo
        /\ cpu' = NoCpu /\ at' = None
    BY <1>7 DEF Reset
  <2>2. Total(time', registry') - Total(run', registry') = info'.totalTicks
    BY <2>1, TotalBoot
  <2>3. NoInfo.totalTicks \in Int /\ NoCpu \in [Places -> Int \X Int]
    BY DEF NoInfo, NoCpu
  <2> QED
    BY <2>1, <2>2, <2>3 DEF TotalInv, Total
<1> QED
  BY <1>1, <1>2, <1>3, <1>4, <1>5, <1>6, <1>7 DEF Next

(* While no thread comes or goes, each line has the ticks of the thread it   *)
(* names since the command before, out of those of all threads.              *)
THEOREM SharesSafe == Spec => []SharesAreTheirs
<1>1. WalkInv /\ LineInv /\ TotalInv => SharesAreTheirs
  <2> SUFFICES ASSUME WalkInv, LineInv, TotalInv, at # None, moved = <<FALSE, FALSE>>
               PROVE  StampThreadGetCpuPercent(idx) = <<own[at], Total(own, registry)>>
    BY DEF SharesAreTheirs
  <2>1. ~moved[1] /\ ~moved[2]
    OBVIOUS
  <2>2. /\ idx \in 1..Len(registry) /\ registry[idx] = at /\ cpu[idx][1] = own[registry[idx]]
        /\ cpu[idx][2] = Total(own, registry)
    BY <2>1 DEF LineInv, TotalInv
  <2>3. idx \in Places
    BY <2>2, LengthFits DEF WalkInv, LineInv
  <2>4. cpu[idx] \in Int \X Int
    BY <2>3 DEF TotalInv
  <2> QED
    BY <2>2, <2>3, <2>4 DEF StampThreadGetCpuPercent
<1> QED
  BY <1>1, WalkInit, WalkStep, LineInit, LineStep, TotalInit, TotalStep, PTL DEF Spec

-----------------------------------------------------------------------------
(* The shares of one command.                                                *)

(* The inductive invariant behind SharesAddUp: totalTicks is the sum of the  *)
(* ticks in the record, over the places the last command found in use.       *)
RecordInv ==
    /\ found \in 0..MaxEntries
    /\ found = 0 => \A p \in Places : info.ticks[p] = 0
    /\ info.totalTicks = SumFunctionOnSet(info.ticks, 1..found)

LEMMA RecordBoot ==
    /\ \A p \in Places : NoInfo.ticks[p] = 0
    /\ NoInfo.totalTicks = SumFunctionOnSet(NoInfo.ticks, 1..0)
<1>1. 1..0 = {}
  OBVIOUS
<1> QED
  BY <1>1, SumEmpty DEF NoInfo

LEMMA RecordInit == (Init => RecordInv)
<1> SUFFICES ASSUME Init PROVE RecordInv
  OBVIOUS
<1>1. info = NoInfo /\ found = 0 /\ 0 \in 0..MaxEntries
  BY ThreadLoadAssumption DEF Init
<1> QED
  BY <1>1, RecordBoot DEF RecordInv

LEMMA RecordStep == WalkInv /\ LineInv /\ RecordInv /\ [Next]_vars => RecordInv'
<1> SUFFICES ASSUME WalkInv, LineInv, RecordInv, [Next]_vars PROVE RecordInv'
  OBVIOUS
<1>1. CASE UNCHANGED <<info, found>>
  BY <1>1 DEF RecordInv
<1>2. CASE UNCHANGED vars
  BY <1>1, <1>2 DEF vars
<1>3. CASE (\E t \in Range(registry) : Tick(t)) \/ StreamerStarts \/ StreamerCollected \/ NextLine
  BY <1>1, <1>3 DEF Tick, StreamerStarts, StreamerCollected, NextLine
<1>4. CASE CmdThreads
  <2> DEFINE n == Len(registry)
  <2>1. Registry(registry) /\ Length(registry) /\ time \in [Threads -> Int]
    BY DEF WalkInv, LineInv
  <2>2. /\ n \in Nat \ {0} /\ \A i, j \in 1..n : registry[i] = registry[j] => i = j
        /\ \A p \in 1..n : p \in Places /\ registry[p] \in Threads
        /\ Range(registry) = {registry[p] : p \in 1..n}
    BY <2>1, RegistryFacts, RangeFacts, LengthFits
  <2>3. /\ info'.totalTicks = Total(time, registry) /\ found' = n
        /\ \A p \in 1..n : info'.ticks[p] = time[registry[p]]
    BY <1>4, <2>2 DEF CmdThreads, StampThreadCpuInfo, NewTotal
  <2>4. \A p \in 1..n : time[registry[p]] \in Int
    BY <2>1, <2>2
  <2> HIDE DEF n
  <2>5. SumFunctionOnSet(info'.ticks, 1..n) = SumFunctionOnSet(time, {registry[p] : p \in 1..n})
    <3>1. PICK h : h = info'.ticks
      OBVIOUS
    <3>2. \A p \in 1..n : time[registry[p]] \in Int /\ h[p] = time[registry[p]]
      BY <2>3, <2>4, <3>1
    <3>3. SumFunctionOnSet(h, 1..n) = SumFunctionOnSet(time, {registry[p] : p \in 1..n})
      BY <2>2, <3>2, SumPlaces
    <3> QED
      BY <3>1, <3>3
  <2>6. info'.totalTicks = SumFunctionOnSet(info'.ticks, 1..found')
    BY <2>2, <2>3, <2>5 DEF Total
  <2>7. found' \in 0..MaxEntries /\ found' # 0
    <3>1. n \in Places
      BY <2>2
    <3> QED
      BY <2>2, <2>3, <3>1 DEF Places
  <2> QED
    BY <2>6, <2>7 DEF RecordInv
<1>5. CASE Reset
  <2>1. info' = NoInfo /\ found' = 0 /\ 0 \in 0..MaxEntries
    BY <1>5, ThreadLoadAssumption DEF Reset
  <2> QED
    BY <2>1, RecordBoot DEF RecordInv
<1> QED
  BY <1>2, <1>3, <1>4, <1>5 DEF Next

(* A command that is the first, or finds as many threads as the one before.  *)
LEMMA StampAddsUp ==
  ASSUME WalkInv, LineInv, RecordInv, CmdThreads, found \in {0, Len(registry)}
  PROVE  SumFunction([p \in 1..Len(registry) |-> cpu'[p][1]]) = cpu'[1][2]
<1> DEFINE n == Len(registry)
           shares == [p \in 1..n |-> cpu'[p][1]]
           now == [p \in 1..n |-> time[registry[p]]]
<1>1. Registry(registry) /\ Length(registry) /\ time \in [Threads -> Int]
  BY DEF WalkInv, LineInv
<1>2. /\ n \in Nat \ {0} /\ \A i, j \in 1..n : registry[i] = registry[j] => i = j
      /\ \A p \in 1..n : p \in Places /\ registry[p] \in Threads
      /\ Range(registry) = {registry[p] : p \in 1..n}
  BY <1>1, RegistryFacts, RangeFacts, LengthFits
<1>0. IsFiniteSet(1..n)
  <2> HIDE DEF n
  <2> QED
    BY <1>2, FS_Interval
<1>3. /\ \A p \in 1..n : cpu'[p][1] = time[registry[p]] - info.ticks[p]
      /\ cpu'[1][2] = Total(time, registry) - info.totalTicks
  <2>1. 1 \in 1..n
    BY <1>2
  <2> QED
    BY <1>2, <2>1 DEF CmdThreads, StampThreadCpuInfo, SinceStamp
<1>4. \A p \in 1..n : time[registry[p]] \in Int /\ info.ticks[p] \in Int
  BY <1>1, <1>2 DEF LineInv
<1>5. /\ DOMAIN shares = 1..n
      /\ \A p \in 1..n : now[p] = time[registry[p]] /\ shares[p] = cpu'[p][1]
  OBVIOUS
<1> HIDE DEF n, shares, now
<1>6. \A p \in 1..n : now[p] \in Int /\ info.ticks[p] \in Int /\ shares[p] = now[p] - info.ticks[p]
  BY <1>3, <1>4, <1>5
<1>7. PICK old : old = info.ticks
  OBVIOUS
<1>8. SumFunctionOnSet(shares, 1..n) = SumFunctionOnSet(now, 1..n) - SumFunctionOnSet(old, 1..n)
  <2>1. PICK I : I = 1..n
    OBVIOUS
  <2>2. IsFiniteSet(I) /\ \A p \in I : now[p] \in Int /\ old[p] \in Int /\ shares[p] = now[p] - old[p]
    BY <1>0, <1>6, <1>7, <2>1
  <2> QED
    BY <2>1, <2>2, SumMinus
<1>9. SumFunctionOnSet(now, 1..n) = Total(time, registry)
  <2>1. \A p \in 1..n : time[registry[p]] \in Int /\ now[p] = time[registry[p]]
    BY <1>4, <1>5
  <2>2. SumFunctionOnSet(now, 1..n) = SumFunctionOnSet(time, {registry[p] : p \in 1..n})
    BY <1>2, <2>1, SumPlaces
  <2> QED
    BY <1>2, <2>2 DEF Total
<1>10. SumFunctionOnSet(old, 1..n) = info.totalTicks
  <2>1. CASE found = n
    BY <1>7, <2>1 DEF RecordInv
  <2>2. CASE found = 0
    <3>1. 1..0 = {}
      OBVIOUS
    <3>2. info.totalTicks = 0
      BY <2>2, <3>1, SumEmpty DEF RecordInv
    <3>3. \A p \in 1..n : old[p] = 0
      BY <1>2, <1>7, <2>2 DEF RecordInv
    <3>4. PICK I : I = 1..n
      OBVIOUS
    <3>5. IsFiniteSet(I) /\ \A p \in I : old[p] \in Int /\ old[p] = old[p] - old[p]
      BY <1>0, <3>3, <3>4
    <3>6. SumFunctionOnSet(old, I) = SumFunctionOnSet(old, I) - SumFunctionOnSet(old, I)
      BY <3>5, SumMinus
    <3>7. PICK k \in Int : k = SumFunctionOnSet(old, I)
      BY <3>5, SumType
    <3> QED
      BY <3>2, <3>4, <3>6, <3>7
  <2> QED
    BY <2>1, <2>2 DEF n
<1>11. SumFunction(shares) = SumFunctionOnSet(shares, 1..n)
  BY <1>5 DEF SumFunction
<1>12. SumFunction(shares) = cpu'[1][2]
  BY <1>3, <1>8, <1>9, <1>10, <1>11
<1> QED
  BY <1>12 DEF n, shares

(* The shares of a command add up to the whole, when it is the first or finds *)
(* as many threads as the one before: the streaming thread may have ended and *)
(* started again in between.                                                 *)
THEOREM AddUpSafe == Spec => SharesAddUp
<1>1. ASSUME WalkInv, LineInv, RecordInv, [Next]_vars
      PROVE  [CmdThreads /\ found \in {0, Len(registry)} =>
                SumFunction([p \in 1..Len(registry) |-> cpu'[p][1]]) = cpu'[1][2]]_vars
  BY <1>1, StampAddsUp
<1> QED
  BY <1>1, WalkInit, WalkStep, LineInit, LineStep, RecordInit, RecordStep, PTL DEF Spec, SharesAddUp

-----------------------------------------------------------------------------
(* The types: what the record has room for.                                  *)

(* A sum of naturals is one, and no less than any of them.                   *)
LEMMA SumNatural ==
  ASSUME NEW S, IsFiniteSet(S), NEW f, \A x \in S : f[x] \in Nat
  PROVE  SumFunctionOnSet(f, S) \in Nat
<1> DEFINE B == {T \in SUBSET S : SumFunctionOnSet(f, T) \notin Nat}
<1>1. SUFFICES ASSUME B # {} PROVE FALSE
  OBVIOUS
<1>2. PICK T \in B : \A U \in B : ~(U \subseteq T /\ U # T)
  <2>1. B \subseteq SUBSET S
    OBVIOUS
  <2> HIDE DEF B
  <2> QED
    BY <1>1, <2>1, SmallestSubset
<1>3. PICK U : U = T \ {Pick(T)}
  OBVIOUS
<1>4. IsFiniteSet(T) /\ T # {}
  <2>1. IsFiniteSet(T) /\ SumFunctionOnSet(f, T) \notin Nat
    BY FS_Subset
  <2> QED
    BY <2>1, SumEmpty
<1>5. Pick(T) \in T /\ U \in SUBSET S /\ U \subseteq T /\ U # T
  BY <1>3, <1>4, PickIn
<1>6. SumFunctionOnSet(f, T) = f[Pick(T)] + SumFunctionOnSet(f, U)
  BY <1>3, <1>4, SumRule
<1>7. SumFunctionOnSet(f, U) \in Nat
  BY <1>2, <1>5
<1> QED
  BY <1>5, <1>6, <1>7

LEMMA SumPart ==
  ASSUME NEW S, IsFiniteSet(S), NEW f, \A x \in S : f[x] \in Nat, NEW e \in S
  PROVE  /\ SumFunctionOnSet(f, S \ {e}) \in Nat
         /\ SumFunctionOnSet(f, S) = f[e] + SumFunctionOnSet(f, S \ {e})
         /\ f[e] <= SumFunctionOnSet(f, S)
<1>1. SumFunctionOnSet(f, S) = f[e] + SumFunctionOnSet(f, S \ {e})
  BY SumRemove
<1>2. SumFunctionOnSet(f, S \ {e}) \in Nat
  BY SumNatural, FS_Subset
<1> QED
  BY <1>1, <1>2

LEMMA LastPlace ==
    /\ DOMAIN Always = 1..Len(Always) /\ Len(Always) \in Nat \ {0}
    /\ Before = Len(Always) - 1 /\ Len(Always) \in 1..Len(Always)
    /\ \A p \in 1..Before : p \in 1..Len(Always) /\ p # Len(Always)
    /\ \A k \in 1..Len(Always) : k \in 1..Before \/ k = Len(Always)
<1>1. PICK n \in Nat \ {0} : n = Len(Always)
  BY AlwaysSeq
<1>2. PICK m : m = n - 1
  OBVIOUS
<1>3. /\ n \in 1..n /\ \A p \in 1..m : p \in 1..n /\ p # n
      /\ \A k \in 1..n : k \in 1..m \/ k = n
  BY <1>2
<1>4. m = Before
  BY <1>1, <1>2 DEF Before
<1>5. Always \in Seq(Threads)
  BY AlwaysSeq
<1>6. DOMAIN Always = 1..Len(Always)
  BY <1>5, LenProperties
<1> QED
  BY <1>1, <1>2, <1>3, <1>4, <1>6

(* The permanent threads are always in the registry, and only the streaming  *)
(* one besides.                                                              *)
LEMMA RegistryHolds ==
  ASSUME NEW r, Registry(r)
  PROVE  Range(r) \ {Streamer} = Range(Always)
<1>1. /\ DOMAIN r = 1..Len(r) /\ Before \in Nat /\ Range(r) \subseteq Threads
      /\ \A p \in 1..Before : p \in 1..Len(r) /\ r[p] = Always[p]
      /\ \E i \in 1..Len(r) : r[i] = Always[Len(Always)]
  BY RegistryFacts DEF Registry
<1>2. DOMAIN Always = 1..Len(Always)
  BY LastPlace
<1>5. Streamer \notin Range(Always)
  BY ThreadLoadAssumption
<1>3. \A k \in 1..Len(Always) : k \in 1..Before \/ k = Len(Always)
  BY LastPlace
<1>4. Range(Always) \subseteq Range(r)
  BY <1>1, <1>2, <1>3 DEF Range
<1>6. Range(r) \subseteq Range(Always) \cup {Streamer}
  BY <1>1 DEF Threads
<1> QED
  BY <1>4, <1>5, <1>6

LEMMA LastPlaces ==
  ASSUME NEW r, Registry(r), Length(r)
  PROVE  /\ Len(r) = Len(Always) \/ Len(r) = Len(Always) + 1
         /\ \A i \in 1..Len(r) : i > Before => r[i] \in {Always[Len(Always)], Streamer}
<1>1. /\ DOMAIN r = 1..Len(r) /\ Len(r) \in Nat /\ Before \in Nat
      /\ \A p \in 1..Before : p \in 1..Len(r) /\ r[p] = Always[p]
      /\ \A i, j \in 1..Len(r) : r[i] = r[j] => i = j
      /\ \A i \in 1..Len(r) : r[i] \in Threads
  BY RegistryFacts
<1>2. DOMAIN Always = 1..Len(Always)
  BY LastPlace
<1>3. \A k \in 1..Len(Always) : k \in 1..Before \/ k = Len(Always)
  BY LastPlace
<1>4. ASSUME NEW i \in 1..Len(r), i > Before, r[i] # Streamer
      PROVE  r[i] = Always[Len(Always)]
  <2>1. PICK k \in 1..Len(Always) : r[i] = Always[k]
    BY <1>1, <1>2, <1>4 DEF Threads, Range
  <2>2. k \notin 1..Before
    <3>1. k \in 1..Before => k = i
      BY <1>1, <2>1
    <3>2. i \notin 1..Before
      BY <1>1, <1>4
    <3> QED
      BY <3>1, <3>2
  <2> QED
    BY <1>3, <2>1, <2>2
<1>5. Len(r) = Len(Always) \/ Len(r) = Len(Always) + 1
  <2>1. PICK n \in Nat : n = Len(Always)
    BY AlwaysSeq
  <2>2. n + 0 = n
    OBVIOUS
  <2>3. Len(r) = n + 0 \/ Len(r) = n + 1
    BY <2>1 DEF Length
  <2> QED
    BY <2>1, <2>2, <2>3
<1> QED
  BY <1>4, <1>5

(* The number of the line: the walk may pass the streaming thread before the *)
(* last permanent one, and again behind it when it was started anew, but not *)
(* more often.                                                               *)
NumberInv ==
    /\ idx \in Nat \ {0}
    /\ at = None => idx = 1
    /\ at = Always[Len(Always)] => idx <= Len(Always) + 1
    /\ at = Streamer =>
         /\ idx <= Len(Always) + 2
         /\ Last(registry) # Streamer => idx <= Len(Always)

LEMMA LastFacts ==
    /\ Len(Always) \in Nat \ {0} /\ Before = Len(Always) - 1
    /\ Always[Len(Always)] # None /\ Always[Len(Always)] # Streamer
    /\ \A p \in 1..Before : Always[p] # Always[Len(Always)] /\ Always[p] # Streamer /\ Always[p] # None
  BY LastPlace, AlwaysSeq

LEMMA NextLineNumber ==
  ASSUME WalkInv, Length(registry), NumberInv, NextLine
  PROVE  NumberInv'
<1> DEFINE n == Len(Always)
<1>1. /\ Registry(registry) /\ at \in Range(registry) /\ idx \in Nat \ {0}
      /\ ended => at = Streamer
  BY DEF WalkInv, NextLine, NumberInv
<1>2. /\ DOMAIN registry = 1..Len(registry) /\ Len(registry) \in Nat \ {0}
      /\ \A i, j \in 1..Len(registry) : registry[i] = registry[j] => i = j
      /\ \A p \in 1..Before : p \in 1..Len(registry) /\ registry[p] = Always[p]
  BY <1>1, RegistryFacts
<1>3. /\ n \in Nat \ {0} /\ Before = n - 1 /\ Always[n] # None /\ Always[n] # Streamer
      /\ \A p \in 1..Before : Always[p] # Always[n] /\ Always[p] # Streamer /\ Always[p] # None
  BY LastFacts
<1>4. CASE at = Last(registry)
  <2>1. at' = None /\ idx' = 1
    BY <1>4 DEF NextLine
  <2> QED
    BY <1>3, <2>1, NoneIsNoThread DEF NumberInv
<1>5. CASE at # Last(registry)
  <2> DEFINE q == CHOOSE p \in 2..Len(registry) : registry[p - 1] = at
  <2>1. q \in 2..Len(registry) /\ registry[q - 1] = at
    <3>1. PICK i \in 1..Len(registry) : registry[i] = at
      BY <1>1, <1>2 DEF Range
    <3>2. i # Len(registry)
      BY <1>5, <3>1 DEF Last
    <3>3. i + 1 \in 2..Len(registry) /\ (i + 1) - 1 = i
      <4>1. PICK m \in Nat : m = Len(registry)
        BY <1>2
      <4>2. i \in 1..m /\ i # m
        BY <3>2, <4>1
      <4>3. i + 1 \in 2..m /\ (i + 1) - 1 = i
        BY <4>2
      <4> QED
        BY <4>1, <4>3
    <3>4. \E p \in 2..Len(registry) : registry[p - 1] = at
      BY <3>1, <3>3
    <3> QED
      BY <3>4
  <2>2. /\ at' = registry[q] /\ idx' = idx + 1
        /\ registry' = IF ended THEN Unlinked ELSE registry
    BY <1>5 DEF NextLine, Released
  <2> HIDE DEF q, n
  <2>3. q \in 1..Len(registry) /\ q - 1 \in 1..Len(registry) /\ q # q - 1
    BY <1>2, <2>1
  <2>4. /\ Len(registry) = n \/ Len(registry) = n + 1
        /\ \A i \in 1..Len(registry) : i > Before => registry[i] \in {Always[n], Streamer}
    BY <1>1, LastPlaces DEF n
  <2>5. at' # None
    <3>1. registry[q] \in Threads
      BY <1>1, <2>3, RegistryFacts
    <3>2. None \notin Threads
      BY NoneIsNoThread, ThreadLoadAssumption DEF Threads
    <3> QED
      BY <2>2, <3>1, <3>2
  <2>6. q \in 1..Before \/ q = n \/ q = n + 1
    BY <1>3, <2>1, <2>4
  <2>7. idx' \in Nat \ {0}
    BY <1>1, <2>2
  <2>8. CASE q \in 1..Before
    <3>1. at' # Always[n] /\ at' # Streamer
      BY <1>2, <1>3, <2>2, <2>8
    <3> QED
      BY <2>5, <2>7, <3>1 DEF NumberInv, n
  <2>9. CASE q = n
    <3>1. q - 1 \in 1..Before /\ at = Always[q - 1]
      BY <1>2, <1>3, <2>1, <2>9
    <3>2. idx' = n
      <4>1. idx = q - 1
        BY <3>1 DEF WalkInv
      <4> QED
        BY <1>3, <2>2, <2>9, <4>1
    <3>3. idx' <= n /\ idx' <= n + 1 /\ idx' <= n + 2
      BY <1>3, <3>2
    <3> QED
      BY <2>5, <2>7, <3>3 DEF NumberInv, n
  <2>10. CASE q = n + 1
    <3>1. /\ Len(registry) = n + 1 /\ n \in 1..Len(registry) /\ n > Before /\ n + 1 > Before
          /\ q - 1 = n /\ n + 1 \in 1..Len(registry)
      BY <1>3, <2>1, <2>4, <2>10
    <3>2. at = registry[n] /\ at' = registry[n + 1] /\ at' # at /\ Last(registry) = at'
      BY <1>2, <2>1, <2>2, <2>10, <3>1 DEF Last
    <3>3. at \in {Always[n], Streamer} /\ at' \in {Always[n], Streamer}
      BY <2>4, <3>1, <3>2
    <3>4. CASE at = Always[n]
      <4>1. at' = Streamer /\ registry' = registry /\ idx <= n + 1
        BY <1>1, <1>3, <2>2, <3>2, <3>3, <3>4 DEF NumberInv, n
      <4>2. Last(registry') = Streamer /\ idx' <= n + 2
        <5>1. registry' = registry /\ Last(registry) = Streamer
          BY <3>2, <4>1
        <5>2. Last(registry') = Last(registry)
          BY <4>1 DEF Last
        <5>3. idx' <= n + 2
          BY <1>1, <1>3, <2>2, <4>1
        <5> QED
          BY <5>1, <5>2, <5>3
      <4> QED
        BY <1>3, <2>5, <2>7, <4>1, <4>2 DEF NumberInv, n
    <3>5. CASE at = Streamer
      <4>1. at' = Always[n] /\ idx <= n
        BY <1>3, <3>2, <3>3, <3>5 DEF NumberInv, n
      <4>2. idx' <= n + 1
        BY <1>1, <1>3, <2>2, <4>1
      <4> QED
        BY <1>3, <2>5, <2>7, <4>1, <4>2 DEF NumberInv, n
    <3> QED
      BY <3>3, <3>4, <3>5
  <2> QED
    BY <2>6, <2>8, <2>9, <2>10
<1> QED
  BY <1>4, <1>5

LEMMA NumberStep == WalkInv /\ Length(registry) /\ NumberInv /\ [Next]_vars => NumberInv'
<1> SUFFICES ASSUME WalkInv, Length(registry), NumberInv, [Next]_vars PROVE NumberInv'
  OBVIOUS
<1>0. Registry(registry) /\ at \in Range(registry) \cup {None}
  BY DEF WalkInv
<1>1. CASE UNCHANGED <<registry, at, idx>>
  BY <1>1 DEF NumberInv, Last
<1>2. CASE UNCHANGED vars
  BY <1>1, <1>2 DEF vars
<1>3. ASSUME NEW t \in Range(registry), Tick(t) PROVE NumberInv'
  BY <1>1, <1>3 DEF Tick
<1>4. CASE StreamerStarts
  <2>1. CASE registry' = registry
    BY <1>1, <1>4, <2>1 DEF StreamerStarts
  <2>2. CASE Streamer \notin Range(registry)
    <3>1. at # Streamer
      BY <1>0, <2>2, NoneIsNoThread
    <3> QED
      BY <1>4, <3>1 DEF StreamerStarts, NumberInv
  <2> QED
    BY <1>4, <2>1, <2>2 DEF StreamerStarts
<1>5. CASE StreamerCollected
  <2>1. CASE at = Streamer
    BY <1>1, <1>5, <2>1 DEF StreamerCollected
  <2>2. CASE at # Streamer
    BY <1>5, <2>2 DEF StreamerCollected, NumberInv
  <2> QED
    BY <2>1, <2>2
<1>6. CASE CmdThreads
  <2>1. at' = Head(registry) /\ idx' = 1 /\ UNCHANGED registry
    BY <1>6 DEF CmdThreads
  <2>2. at' # None
    <3>1. Head(registry) \in Threads
      <4>1. Head(registry) = registry[1] /\ 1 \in 1..Len(registry)
        BY <1>0, RegistryFacts
      <4> QED
        BY <1>0, <4>1, RegistryFacts
    <3>2. None \notin Threads
      BY NoneIsNoThread, ThreadLoadAssumption DEF Threads
    <3> QED
      BY <2>1, <3>1, <3>2
  <2>3. idx' \in Nat \ {0} /\ idx' <= Len(Always) /\ idx' <= Len(Always) + 1 /\ idx' <= Len(Always) + 2
    BY <2>1, LastFacts
  <2> QED
    BY <2>2, <2>3 DEF NumberInv
<1>7. CASE NextLine
  BY <1>7, NextLineNumber
<1>8. CASE Reset
  <2>1. at' = None /\ idx' = 1
    BY <1>8 DEF Reset
  <2> QED
    BY <2>1, LastFacts, NoneIsNoThread DEF NumberInv
<1> QED
  BY <1>2, <1>3, <1>4, <1>5, <1>6, <1>7, <1>8 DEF Next

(* The ticks of a thread are at most those of all, those since a command at  *)
(* most all it has, and the record holds what a command has found.           *)
TickBounds ==
    /\ \A t \in Threads :
         /\ time[t] \in 0..MaxTicks
         /\ run[t] \in 0..MaxTicks /\ run[t] <= time[t]
         /\ own[t] \in 0..MaxTicks
    /\ time \in [Threads -> Int] /\ run \in [Threads -> Int] /\ own \in [Threads -> Int]
    /\ Total(time, registry) \in 0..MaxTicks

RecordBounds ==
    /\ info \in [ticks : [Places -> 0..MaxTicks], totalTicks : 0..MaxTicks]
    /\ ended \in BOOLEAN /\ halted \in BOOLEAN
    /\ moved \in BOOLEAN \X BOOLEAN
    /\ found \in 0..(Len(Always) + 1)

LEMMA BoundsBoot ==
    /\ 0 \in 0..MaxTicks
    /\ NoTicks \in [Threads -> Int] /\ \A t \in Threads : NoTicks[t] = 0
    /\ NoInfo \in [ticks : [Places -> 0..MaxTicks], totalTicks : 0..MaxTicks]
    /\ 0 \in 0..(Len(Always) + 1) /\ <<FALSE, FALSE>> \in BOOLEAN \X BOOLEAN
<1>1. 0 \in 0..MaxTicks
  BY ThreadLoadAssumption
<1>2. NoTicks \in [Threads -> Int] /\ \A t \in Threads : NoTicks[t] = 0
  BY DEF NoTicks
<1>3. NoInfo \in [ticks : [Places -> 0..MaxTicks], totalTicks : 0..MaxTicks]
  BY <1>1 DEF NoInfo
<1>4. 0 \in 0..(Len(Always) + 1)
  BY AlwaysSeq
<1> QED
  BY <1>1, <1>2, <1>3, <1>4

LEMMA BoundsInit == (Init => TickBounds /\ RecordBounds)
<1> SUFFICES ASSUME Init PROVE TickBounds /\ RecordBounds
  OBVIOUS
<1>1. /\ registry \in BootRegistries /\ time = NoTicks /\ run = NoTicks /\ own = NoTicks
      /\ info = NoInfo /\ ended = FALSE /\ halted = FALSE /\ moved = <<FALSE, FALSE>> /\ found = 0
  BY DEF Init
<1>2. Total(time, registry) = 0
  BY <1>1, BootRegistry, TotalNoTicks
<1>3. TickBounds
  BY <1>1, <1>2, BoundsBoot DEF TickBounds
<1> QED
  BY <1>1, <1>3, BoundsBoot DEF RecordBounds

(* A tick counts while the ticks of all are below the bound, and those of a  *)
(* thread are a part of them.                                                *)
LEMMA TickBound ==
  ASSUME WalkInv, TickBounds, NEW t \in Range(registry), Tick(t)
  PROVE  TickBounds'
<1>1. /\ Registry(registry) /\ time \in [Threads -> Int] /\ run \in [Threads -> Int]
      /\ Total(time, registry) \in 0..MaxTicks /\ MaxTicks \in Nat
  BY ThreadLoadAssumption DEF WalkInv, TickBounds
<1>2. /\ time' = [time EXCEPT ![t] = @ + 1] /\ run' = [run EXCEPT ![t] = @ + 1]
      /\ own' = own /\ registry' = registry /\ Total(time, registry) < MaxTicks
  BY DEF Tick
<1>3. PICK S : S = Range(registry)
  OBVIOUS
<1>4. IsFiniteSet(S) /\ S \subseteq Threads /\ t \in S /\ t \in Threads
  BY <1>1, <1>3, RangeFacts
<1>5. \A x \in Threads : time[x] \in 0..MaxTicks /\ run[x] \in 0..MaxTicks /\ run[x] <= time[x]
  BY DEF TickBounds
<1>6. /\ time' \in [Threads -> Int] /\ run' \in [Threads -> Int]
      /\ time'[t] = time[t] + 1 /\ run'[t] = run[t] + 1
      /\ \A x \in Threads : x # t => time'[x] = time[x] /\ run'[x] = run[x]
  <2>1. time[t] + 1 \in Int /\ run[t] + 1 \in Int
    BY <1>1, <1>4
  <2> QED
    BY <1>1, <1>2, <1>4, <2>1
<1>7. Total(time', registry) \in 0..MaxTicks
  <2>1. Total(time', registry) = Total(time, registry) + 1
    BY <1>1, <1>2, TotalTick
  <2>2. PICK k \in 0..MaxTicks : k = Total(time, registry)
    BY <1>1
  <2> QED
    BY <1>1, <1>2, <2>1, <2>2
<1>8. time'[t] \in 0..MaxTicks /\ run'[t] \in 0..MaxTicks /\ run'[t] <= time'[t]
  <2>1. \A x \in S : time'[x] \in Nat
    <3>1. \A x \in Threads : time[x] \in Nat
      BY <1>5
    <3> QED
      BY <1>4, <1>6, <3>1
  <2>2. PICK g : g = time'
    OBVIOUS
  <2>3. \A x \in S : g[x] \in Nat
    BY <2>1, <2>2
  <2>4. g[t] <= SumFunctionOnSet(g, S)
    BY <1>4, <2>3, SumPart
  <2>5. time'[t] <= Total(time', registry)
    BY <1>3, <2>2, <2>4 DEF Total
  <2>6. PICK a \in 0..MaxTicks : a = time[t]
    BY <1>4, <1>5
  <2>7. PICK b \in 0..MaxTicks : b = run[t]
    BY <1>4, <1>5
  <2>8. PICK k \in 0..MaxTicks : k = Total(time', registry)
    BY <1>7
  <2>9. b <= a /\ a + 1 <= k
    BY <1>4, <1>5, <1>6, <2>5, <2>6, <2>7, <2>8
  <2>10. a + 1 \in 0..MaxTicks /\ b + 1 \in 0..MaxTicks /\ b + 1 <= a + 1
    BY <1>1, <2>9
  <2> QED
    BY <1>6, <2>6, <2>7, <2>10
<1>9. \A x \in Threads : time'[x] \in 0..MaxTicks /\ run'[x] \in 0..MaxTicks /\ run'[x] <= time'[x]
  BY <1>5, <1>6, <1>8
<1> QED
  BY <1>2, <1>6, <1>7, <1>9 DEF TickBounds

LEMMA StartBound ==
  ASSUME WalkInv, TickBounds, StreamerStarts
  PROVE  TickBounds'
<1>1. /\ Registry(registry) /\ time \in [Threads -> Int] /\ run \in [Threads -> Int]
      /\ own' = own
  BY DEF WalkInv, TickBounds, StreamerStarts
<1>2. CASE UNCHANGED <<registry, time, run>>
  BY <1>1, <1>2 DEF TickBounds, Total
<1>3. CASE /\ Streamer \notin Range(registry) /\ registry' = Append(registry, Streamer)
           /\ time' = [time EXCEPT ![Streamer] = 0] /\ run' = [run EXCEPT ![Streamer] = 0]
  <2>1. /\ time' \in [Threads -> Int] /\ run' \in [Threads -> Int]
        /\ time'[Streamer] = 0 /\ run'[Streamer] = 0
        /\ \A x \in Threads : x # Streamer => time'[x] = time[x] /\ run'[x] = run[x]
    BY <1>1, <1>3, AlwaysSeq
  <2>2. 0 \in 0..MaxTicks /\ 0 <= 0
    BY BoundsBoot
  <2>3. \A x \in Threads : time'[x] \in 0..MaxTicks /\ run'[x] \in 0..MaxTicks /\ run'[x] <= time'[x]
    BY <2>1, <2>2 DEF TickBounds
  <2>4. Registry(registry') /\ registry' = Append(registry, Streamer)
    BY <1>1, <1>3, AppendRegistry
  <2>5. PICK S : S = Range(registry)
    OBVIOUS
  <2>6. PICK R : R = Range(registry')
    OBVIOUS
  <2>7. R = S \cup {Streamer} /\ R \ {Streamer} = S /\ Streamer \in R
    <3>1. R \ {Streamer} = S
      <4>1. R \ {Streamer} = Range(Always)
        BY <2>4, <2>6, RegistryHolds
      <4>2. S \ {Streamer} = Range(Always)
        BY <1>1, <2>5, RegistryHolds
      <4> QED
        BY <1>3, <2>5, <4>1, <4>2
    <3>2. Streamer \in R
      <4>1. PICK c : c = Append(registry, Streamer)
        OBVIOUS
      <4>2. registry \in Seq(Threads) /\ Len(registry) \in Nat /\ Streamer \in Threads
        BY <1>1, RegistryFacts, AlwaysSeq DEF Registry
      <4>3. c \in Seq(Threads) /\ Len(c) = Len(registry) + 1 /\ c[Len(registry) + 1] = Streamer
        BY <4>1, <4>2, AppendProperties
      <4>4. DOMAIN c = 1..(Len(registry) + 1) /\ Len(registry) + 1 \in 1..(Len(registry) + 1)
        BY <4>2, <4>3, LenProperties
      <4>5. Streamer \in Range(c)
        BY <4>3, <4>4 DEF Range
      <4> QED
        BY <1>3, <2>6, <4>1, <4>5
    <3> QED
      BY <3>1, <3>2
  <2>8. IsFiniteSet(R) /\ R \subseteq Threads /\ IsFiniteSet(S) /\ S \subseteq Threads
    BY <1>1, <2>4, <2>5, <2>6, RangeFacts
  <2>9. PICK g : g = time'
    OBVIOUS
  <2>10. \A x \in R : g[x] \in Int
    BY <2>1, <2>8, <2>9
  <2>11. SumFunctionOnSet(g, R) = g[Streamer] + SumFunctionOnSet(g, R \ {Streamer})
    BY <2>7, <2>8, <2>10, SumRemove
  <2>12. SumFunctionOnSet(g, S) = SumFunctionOnSet(time, S)
    <3>1. \A x \in S : g[x] = time[x]
      BY <1>3, <2>1, <2>5, <2>8, <2>9
    <3> QED
      BY <2>8, <3>1, SumSame
  <2>13. PICK k \in 0..MaxTicks : k = Total(time, registry)
    BY DEF TickBounds
  <2>14. SumFunctionOnSet(g, R) = 0 + k
    BY <2>1, <2>5, <2>7, <2>9, <2>11, <2>12, <2>13 DEF Total
  <2>15. Total(time', registry') \in 0..MaxTicks
    <3>1. 0 + k = k
      BY <2>13
    <3> QED
      BY <2>6, <2>9, <2>14, <3>1 DEF Total
  <2> QED
    BY <1>1, <2>1, <2>3, <2>15 DEF TickBounds
<1> QED
  BY <1>2, <1>3 DEF StreamerStarts

(* The streaming thread takes its ticks along.                               *)
LEMMA UnlinkedBound ==
  ASSUME Registry(registry), TickBounds, Streamer \in Range(registry)
  PROVE  Total(time, Unlinked) \in 0..MaxTicks
<1>1. Registry(Unlinked) /\ Streamer \notin Range(Unlinked)
  BY UnlinkedRegistry
<1>2. PICK S : S = Range(registry)
  OBVIOUS
<1>3. PICK U : U = Range(Unlinked)
  OBVIOUS
<1>4. U = S \ {Streamer}
  <2>1. U \ {Streamer} = Range(Always)
    BY <1>1, <1>3, RegistryHolds
  <2>2. S \ {Streamer} = Range(Always)
    BY <1>2, RegistryHolds
  <2> QED
    BY <1>1, <1>3, <2>1, <2>2
<1>5. IsFiniteSet(S) /\ S \subseteq Threads /\ Streamer \in S
  BY <1>2, RangeFacts
<1>6. \A x \in S : time[x] \in Nat
  BY <1>5 DEF TickBounds
<1>7. /\ SumFunctionOnSet(time, U) \in Nat
      /\ SumFunctionOnSet(time, S) = time[Streamer] + SumFunctionOnSet(time, U)
  BY <1>4, <1>5, <1>6, SumPart
<1>8. PICK k \in 0..MaxTicks : k = Total(time, registry)
  BY DEF TickBounds
<1>9. PICK a \in Nat : a = time[Streamer]
  BY <1>5, <1>6
<1>10. PICK b \in Nat : b = SumFunctionOnSet(time, U)
  BY <1>7
<1>11. k = a + b /\ MaxTicks \in Nat
  BY <1>2, <1>7, <1>8, <1>9, <1>10, ThreadLoadAssumption DEF Total
<1>12. b \in 0..MaxTicks
  BY <1>8, <1>9, <1>10, <1>11
<1> QED
  BY <1>3, <1>10, <1>12 DEF Total

LEMMA TickBoundsStep == WalkInv /\ TickBounds /\ [Next]_vars => TickBounds'
<1> SUFFICES ASSUME WalkInv, TickBounds, [Next]_vars PROVE TickBounds'
  OBVIOUS
<1>0. Registry(registry)
  BY DEF WalkInv
<1>1. CASE UNCHANGED vars
  BY <1>1 DEF TickBounds, vars, Total
<1>2. CASE StreamerCollected
  <2>1. UNCHANGED <<time, run, own>> /\ Streamer \in Range(registry)
        /\ registry' \in {registry, Unlinked}
    BY <1>2 DEF StreamerCollected
  <2>2. Total(time, registry') \in 0..MaxTicks
    BY <1>0, <2>1, UnlinkedBound DEF TickBounds
  <2> QED
    BY <2>1, <2>2 DEF TickBounds, Total
<1>3. CASE CmdThreads
  <2>1. UNCHANGED <<registry, time>> /\ own' = run /\ run' = NoTicks
    BY <1>3 DEF CmdThreads
  <2>2. Total(time', registry') \in 0..MaxTicks
    BY <2>1 DEF TickBounds
  <2>3. \A t \in Threads : 0 <= time[t]
    BY DEF TickBounds
  <2> QED
    BY <2>1, <2>2, <2>3, BoundsBoot DEF TickBounds
<1>4. CASE NextLine
  <2>1. UNCHANGED <<time, run, own>> /\ registry' = IF ended THEN Unlinked ELSE registry
    BY <1>4 DEF NextLine, Released
  <2>2. Total(time, registry') \in 0..MaxTicks
    <3>1. CASE ended
      <4>1. Streamer \in Range(registry)
        BY <3>1, NoneIsNoThread DEF WalkInv
      <4> QED
        BY <1>0, <2>1, <3>1, <4>1, UnlinkedBound
    <3>2. CASE ~ended
      BY <2>1, <3>2 DEF TickBounds
    <3> QED
      BY <3>1, <3>2
  <2> QED
    BY <2>1, <2>2 DEF TickBounds, Total
<1>5. CASE Reset
  <2>1. registry' \in BootRegistries /\ time' = NoTicks /\ run' = NoTicks /\ own' = NoTicks
    BY <1>5 DEF Reset
  <2>2. Total(time', registry') = 0
    BY <2>1, BootRegistry, TotalNoTicks
  <2> QED
    BY <2>1, <2>2, BoundsBoot DEF TickBounds
<1> QED
  BY <1>1, <1>2, <1>3, <1>4, <1>5, TickBound, StartBound DEF Next

LEMMA RecordBoundsStep == WalkInv /\ LineInv /\ TickBounds /\ RecordBounds /\ [Next]_vars => RecordBounds'
<1> SUFFICES ASSUME WalkInv, LineInv, TickBounds, RecordBounds, [Next]_vars PROVE RecordBounds'
  OBVIOUS
<1>0. /\ Registry(registry) /\ Length(registry)
      /\ ended \in BOOLEAN /\ halted \in BOOLEAN /\ moved[1] \in BOOLEAN /\ moved[2] \in BOOLEAN
  BY DEF WalkInv, LineInv, RecordBounds
<1>1. CASE UNCHANGED vars
  BY <1>1 DEF RecordBounds, vars
<1>2. ASSUME NEW t \in Range(registry), Tick(t) PROVE RecordBounds'
  BY <1>2 DEF Tick, RecordBounds
<1>3. CASE StreamerStarts
  <2>1. UNCHANGED <<info, ended, found>>
        /\ (moved' = <<TRUE, moved[2]>> \/ moved' = moved)
        /\ (halted' = halted \/ halted' = EnableAsserts)
    BY <1>3 DEF StreamerStarts
  <2>2. EnableAsserts \in BOOLEAN
    BY DEF EnableAsserts, ChdebugEnable
  <2>3. <<TRUE, moved[2]>> \in BOOLEAN \X BOOLEAN
    BY <1>0
  <2>4. halted' \in BOOLEAN /\ moved' \in BOOLEAN \X BOOLEAN
    BY <1>0, <2>1, <2>2, <2>3 DEF RecordBounds
  <2> QED
    BY <2>1, <2>4 DEF RecordBounds
<1>4. CASE StreamerCollected
  <2>1. UNCHANGED <<info, halted, found>> /\ moved' = <<TRUE, moved[2]>> /\ ended' = (at = Streamer)
    BY <1>4 DEF StreamerCollected
  <2>2. ended' \in BOOLEAN
    BY <2>1
  <2> QED
    BY <1>0, <2>1, <2>2 DEF RecordBounds
<1>5. CASE CmdThreads
  <2>1. UNCHANGED <<ended, halted>> /\ moved' = <<FALSE, moved[1]>> /\ found' = Len(registry)
    BY <1>5 DEF CmdThreads
  <2>2. Len(registry) \in 0..(Len(Always) + 1)
    <3>1. PICK n \in Nat : n = Len(Always)
      BY AlwaysSeq
    <3>2. Len(registry) = n \/ Len(registry) = n + 1
      BY <1>0, <3>1, LastPlaces
    <3> QED
      BY <3>1, <3>2
  <2>3. info' = [ticks |-> [p \in Places |-> IF p \in 1..Len(registry)
                               THEN time[registry[p]] ELSE info.ticks[p]],
                 totalTicks |-> Total(time, registry)]
    BY <1>5 DEF CmdThreads, StampThreadCpuInfo, NewTotal
  <2>4. \A p \in 1..Len(registry) : time[registry[p]] \in 0..MaxTicks
    BY <1>0, RegistryFacts DEF TickBounds
  <2>5. \A p \in Places : info.ticks[p] \in 0..MaxTicks
    BY DEF RecordBounds
  <2>6. Total(time, registry) \in 0..MaxTicks
    BY DEF TickBounds
  <2>7. info' \in [ticks : [Places -> 0..MaxTicks], totalTicks : 0..MaxTicks]
    BY <2>3, <2>4, <2>5, <2>6
  <2> QED
    BY <1>0, <2>1, <2>2, <2>7 DEF RecordBounds
<1>6. CASE NextLine
  BY <1>6 DEF NextLine, Released, RecordBounds
<1>7. CASE Reset
  BY <1>7, BoundsBoot DEF Reset, RecordBounds
<1> QED
  BY <1>1, <1>2, <1>3, <1>4, <1>5, <1>6, <1>7 DEF Next

LEMMA NumberInit == (Init => NumberInv)
<1> SUFFICES ASSUME Init PROVE NumberInv
  OBVIOUS
<1>1. at = None /\ idx = 1
  BY DEF Init
<1> QED
  BY <1>1, LastFacts, NoneIsNoThread DEF NumberInv

(* The number of the line is a place of the record.                          *)
LEMMA NumberFits ==
  ASSUME WalkInv, Length(registry), NumberInv
  PROVE  idx \in Places
<1>1. PICK n \in Nat \ {0} : n = Len(Always)
  BY AlwaysSeq
<1>2. MaxEntries \in Nat /\ MaxEntries >= n + 2 /\ idx \in Nat \ {0}
  BY <1>1, ThreadLoadAssumption DEF NumberInv
<1>3. idx <= n + 2
  <2>1. CASE at = None
    <3>1. idx = 1
      BY <2>1 DEF NumberInv
    <3> QED
      BY <1>1, <3>1
  <2>2. CASE at = Streamer
    BY <1>1, <2>2 DEF NumberInv
  <2>3. CASE at = Always[Len(Always)]
    <3>1. idx <= n + 1
      BY <1>1, <2>3 DEF NumberInv
    <3> QED
      BY <1>2, <1>1, <3>1
  <2>4. ASSUME NEW p \in 1..Before, at = Always[p]
        PROVE  idx <= n + 2
    <3>1. idx = p
      BY <2>4 DEF WalkInv
    <3>2. p \in 1..n
      BY <1>1, LastPlace
    <3> QED
      BY <1>1, <3>1, <3>2
  <2>5. at = None \/ at = Streamer \/ at = Always[Len(Always)] \/ \E p \in 1..Before : at = Always[p]
    <3>1. CASE at = None
      BY <3>1
    <3>2. CASE at \in Range(registry)
      <4>1. PICK i \in 1..Len(registry) : registry[i] = at
        BY <3>2, RegistryFacts DEF Range, WalkInv
      <4>2. i \in 1..Before \/ i > Before
        BY <4>1, RegistryFacts DEF WalkInv
      <4>3. i > Before => at \in {Always[Len(Always)], Streamer}
        BY <4>1, LastPlaces DEF WalkInv
      <4>4. i \in 1..Before => at = Always[i]
        BY <4>1, RegistryFacts DEF WalkInv
      <4> QED
        BY <4>2, <4>3, <4>4
    <3> QED
      BY <3>1, <3>2 DEF WalkInv
  <2> QED
    BY <2>1, <2>2, <2>3, <2>4, <2>5
<1>4. idx \in 1..MaxEntries
  BY <1>1, <1>2, <1>3
<1> QED
  BY <1>4 DEF Places

(* The variables have the values their comments name: above all, the number  *)
(* of the line never leaves the record, wherever the streaming thread stands *)
(* and however often it is started anew during the walk.                     *)
THEOREM LoadTypeCorrect == Spec => []TypeOK
<1>1. ASSUME WalkInv, LineInv, TotalInv, NumberInv, TickBounds, RecordBounds
      PROVE  TypeOK
  <2>1. registry \in Seq(Threads) /\ IsInjective(registry)
    <3>1. Registry(registry)
      BY <1>1 DEF WalkInv
    <3>2. DOMAIN registry = 1..Len(registry) /\ registry \in Seq(Threads)
          /\ \A i, j \in 1..Len(registry) : registry[i] = registry[j] => i = j
      BY <3>1, RegistryFacts DEF Registry
    <3> QED
      BY <3>2 DEF IsInjective
  <2>2. idx \in Places
    BY <1>1, NumberFits DEF LineInv
  <2>3. time \in [Threads -> 0..MaxTicks] /\ {run, own} \subseteq [Threads -> 0..MaxTicks]
    BY <1>1 DEF TickBounds
  <2>4. at \in Range(registry) \cup {None} /\ cpu \in [Places -> Int \X Int]
    BY <1>1 DEF WalkInv, TotalInv
  <2> QED
    BY <1>1, <2>1, <2>2, <2>3, <2>4 DEF RecordBounds, TypeOK
<1>2. WalkInv /\ LineInv /\ NumberInv /\ [Next]_vars => NumberInv'
  BY NumberStep DEF LineInv
<1> QED
  BY <1>1, <1>2, WalkInit, WalkStep, LineInit, LineStep, TotalInit, TotalStep, NumberInit,
     BoundsInit, TickBoundsStep, RecordBoundsStep, PTL DEF Spec
================================================================================
