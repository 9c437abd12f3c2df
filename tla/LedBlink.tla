------------------------------- MODULE LedBlink -------------------------------
(***************************************************************************)
(* The thread of the flash LED: for ever, a sequence of flashes that tells *)
(* the number of motors, a gap, a sequence that tells the baud rate, and a *)
(* pause.  main() gives the numbers once, with setFlashes(), when the      *)
(* thread may already be in the middle of a sequence; the loops read them  *)
(* again at each flash.                                                    *)
(*                                                                         *)
(* The thread is started by the constructor of the global ledBlink, with   *)
(* one flash and none.  An action is one run of it from a sleep to the     *)
(* next; a flash is two toggles of the line.                               *)
(***************************************************************************)
EXTENDS Naturals

VARIABLES
    led,      \* the level of the line
    seqs,     \* seq1Flashes, seq2Flashes
    blink,    \* where the thread sleeps: "new" before its first run
    i,        \* the loop counter
    lit,      \* history: flashes of each sequence in this round
    given,    \* history: the arguments of setFlashes
    whole     \* history: has no setFlashes come since the round began?

ledVars == <<led, seqs, blink, i, lit, given, whole>>

\* A uint8_t
Byte(n) == n % 256

LedTypeOK ==
    /\ led \in BOOLEAN
    /\ seqs \in [1..2 -> 0..255]
    /\ blink \in {"new", "seq1", "gap", "seq2", "pause"}
    /\ i \in 0..255
    /\ lit \in [1..2 -> 0..128]
    /\ given \in [1..2 -> Nat]
    /\ whole \in BOOLEAN

\* The constructor: seq1Flashes{2}, seq2Flashes{0}
LedInit ==
    /\ led = FALSE
    /\ seqs = [s \in 1..2 |-> IF s = 1 THEN 2 ELSE 0]
    /\ blink = "new"
    /\ i = 0
    /\ lit = [s \in 1..2 |-> 0]
    /\ given = [s \in 1..2 |-> IF s = 1 THEN 1 ELSE 0]
    /\ whole = TRUE

\* Mutant: the caller's number is taken for the number of toggles.
TogglesUndoubled(n) == Byte(n)

\* Mutant: the counts are wider than the code's.
TogglesWide(n) == 2 * n

\* 2 * _seqFlashes, from a uint8_t parameter into a uint8_t
Toggles(n) == Byte(2 * Byte(n))

\* setFlashes(n1, n2)
SetFlashes(n1, n2) ==
    /\ seqs' = [s \in 1..2 |-> Toggles(IF s = 1 THEN n1 ELSE n2)]
    /\ given' = [s \in 1..2 |-> IF s = 1 THEN n1 ELSE n2]
    /\ whole' = (blink = "new")
    /\ UNCHANGED <<led, blink, i, lit>>

-----------------------------------------------------------------------------
\* Mutant: the line is left as the toggles leave it.
LeaveLine == led' = led

\* palClearLine(ledLine)
ClearLine == led' = FALSE

(* The loop test of sequence s with counter n: toggle and sleep, or leave   *)
(* the loop with the line low and sleep in "after".  The counts of a round  *)
(* start again when its first sequence does.                                *)
Loop(s, n, after) ==
    LET before == IF s = 1 /\ n = 0 THEN [k \in 1..2 |-> 0] ELSE lit
    IN  \/ /\ n < seqs[s]
           /\ led' = ~led
           /\ lit' = IF led THEN before ELSE [before EXCEPT ![s] = @ + 1]
           /\ i' = n
           /\ blink' = IF s = 1 THEN "seq1" ELSE "seq2"
        \/ /\ n >= seqs[s]
           /\ ClearLine
           /\ lit' = before
           /\ i' = 0
           /\ blink' = after

BeginRound ==
    /\ blink \in {"new", "pause"}
    /\ Loop(1, 0, "gap")
    /\ whole' = TRUE
    /\ UNCHANGED <<seqs, given>>

Seq1Flash ==
    /\ blink = "seq1"
    /\ Loop(1, i + 1, "gap")
    /\ UNCHANGED <<seqs, given, whole>>

\* msBetweenSeq1Seq2 is 600, so there always is a second sequence.
BeginSeq2 ==
    /\ blink = "gap"
    /\ Loop(2, 0, "pause")
    /\ UNCHANGED <<seqs, given, whole>>

Seq2Flash ==
    /\ blink = "seq2"
    /\ Loop(2, i + 1, "pause")
    /\ UNCHANGED <<seqs, given, whole>>

ThdBlinkLed == BeginRound \/ Seq1Flash \/ BeginSeq2 \/ Seq2Flash

-----------------------------------------------------------------------------
(* Properties                                                                *)

(* Between sequences the LED is dark, whenever setFlashes() came: a count    *)
(* that shrinks in the middle of a sequence must not leave it lit.           *)
LedDarkBetween == blink \in {"gap", "pause"} => ~led

(* A round that no setFlashes() fell into shows what main() gave: thdBlinkLed *)
(* flashes once per motor, then once per 100000 baud, for up to 127 of them; *)
(* two toggles are one flash, and the counts are bytes.                      *)
RoundShowsCounts ==
    blink = "pause" /\ whole =>
        \A s \in 1..2 : given[s] <= 127 => lit[s] = given[s]
=============================================================================
