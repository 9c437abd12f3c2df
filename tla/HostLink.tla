------------------------------- MODULE HostLink -------------------------------
(***************************************************************************)
(* The frames of the serial line and the parser of the host programs       *)
(* (serialCb of octoCmd.pl; testStream.pl has the same one): how many      *)
(* messages a byte lost on the line costs, and that no other message than  *)
(* one that was sent reaches octoMessageCB.                                *)
(*                                                                         *)
(* A frame is FE ED, the length, the payload, and a Fletcher checksum of   *)
(* length and payload, low byte first.  The parser is called when a byte   *)
(* is there and blocks until it has the whole payload, or the whole        *)
(* checksum; one action is one call.                                       *)
(*                                                                         *)
(* Bytes are numbers, payloads a few short ones: what is in them matters   *)
(* only to the checksum, to a first byte taken for a length, and to the    *)
(* one message whose callback can die.  A payload ends with the number of  *)
(* its frame, which tells the frames apart.                                *)
(***************************************************************************)
EXTENDS Naturals, Sequences, SequencesExt

CONSTANTS
    Payloads,   \* what the board sends, before the frame's number
    Fatal,      \* the ones on which octoMessageCB dies: minRpm is 0
    MaxFrames,  \* bounds: frames sent,
    MaxLost,    \* bytes lost,
    MaxLine     \* and bytes on the line when a frame is added to it

ASSUME HostLinkAssumption ==
    /\ Payloads \subseteq Seq(0..255) /\ \A p \in Payloads : Len(p) < 255
    /\ Fatal \subseteq Payloads
    /\ MaxFrames \in 0..255 /\ MaxLost \in Nat /\ MaxLine \in Nat

VARIABLES
    sent,      \* the payloads sent
    line,      \* the bytes on the line
    lost,      \* how many bytes it lost
    state,     \* the parser: "sync", "len", "payload", "checksum"
    sync,      \* the last two bytes read in WAIT_FOR_SYNC
    len,       \* the length read
    buffer,    \* the payload read
    sum,       \* its checksum (receivedCrc of octoCmd.pl)
    given,     \* history: the payloads given to octoMessageCB
    died       \* history: how often it died

parser   == <<state, sync, len, buffer, sum>>
linkVars == <<sent, line, lost, parser, given, died>>

Sync1 == 254   \* FE
Sync2 == 237   \* ED

\* The payloads sent are told apart by their last byte.
Messages == {Append(p, n) : p \in Payloads, n \in 1..MaxFrames}
Dies(m)  == \E p \in Fatal : \E n \in 1..MaxFrames : m = Append(p, n)

LinkTypeOK ==
    /\ sent \in Seq(Messages)
    /\ line \in Seq(0..255)
    /\ lost \in 0..MaxLost
    /\ state \in {"sync", "len", "payload", "checksum"}
    /\ sync \in (0..255) \X (0..255)
    /\ len \in 0..255
    /\ buffer \in Seq(0..255)
    /\ sum \in (0..254) \X (0..254)
    /\ given \in Seq(Seq(0..255))
    /\ died \in Nat

LinkInit ==
    /\ sent = <<>> /\ line = <<>> /\ lost = 0
    /\ state = "sync" /\ sync = <<0, 0>>
    /\ len = 0 /\ buffer = <<>> /\ sum = <<0, 0>>
    /\ given = <<>> /\ died = 0

-----------------------------------------------------------------------------
(* Frames.                                                                   *)

\* fletcher16(): both sums start with the length.
Fletcher16(p) ==
    LET Add(s, b) == LET s1 == (s[1] + b) % 255 IN <<s1, (s[2] + s1) % 255>>
        start     == Len(p) % 255
    IN  FoldLeft(Add, <<start, start>>, p)

\* simpleMsgSend(), and the board's FrameMsgSendObject
Frame(p) == <<Sync1, Sync2, Len(p)>> \o p \o Fletcher16(p)

-----------------------------------------------------------------------------
(* The board sends a frame, of which the line may lose a byte.               *)
SendFrame ==
    /\ Len(sent) < MaxFrames
    /\ Len(line) <= MaxLine
    /\ \E p \in Payloads :
         LET m == Append(p, Len(sent) + 1) IN
           /\ sent' = Append(sent, m)
           /\ \/ line' = line \o Frame(m) /\ UNCHANGED lost
              \/ /\ lost < MaxLost
                 /\ \E i \in DOMAIN Frame(m) : line' = line \o RemoveAt(Frame(m), i)
                 /\ lost' = lost + 1
    /\ UNCHANGED <<parser, given, died>>

-----------------------------------------------------------------------------
(* The parser.                                                               *)

\* sysread() of n bytes, repeated until they are there
Read(n) ==
    /\ Len(line) >= n
    /\ line' = SubSeq(line, n + 1, Len(line))

WaitForSync ==
    /\ state = "sync"
    /\ Read(1)
    /\ sync' = <<sync[2], Head(line)>>
    /\ state' = IF sync' = <<Sync1, Sync2>> THEN "len" ELSE "sync"
    /\ UNCHANGED <<sent, lost, len, buffer, sum, given, died>>

WaitForLen ==
    /\ state = "len"
    /\ Read(1)
    /\ len' = Head(line)
    /\ state' = "payload"
    /\ UNCHANGED <<sent, lost, sync, buffer, sum, given, died>>

\* select() must see a byte before the callback is called, even for none.
WaitForPayload ==
    /\ state = "payload"
    /\ line # <<>>
    /\ Read(len)
    /\ buffer' = SubSeq(line, 1, len)
    /\ sum' = Fletcher16(buffer')
    /\ state' = "checksum"
    /\ UNCHANGED <<sent, lost, sync, len, given, died>>

\* Mutants: the checksum is not compared, or high byte first; after a bad one
\* the next byte is taken for a length.
AcceptsAny(c)     == TRUE
AcceptsSwapped(c) == <<c[2], c[1]>> = sum
AfterFrameLen(c)  == IF c = sum THEN "sync" ELSE "len"

\* Is the checksum c the one of the payload?
Accepts(c) == c = sum

\* The state after a frame, whether its checksum was c or not.
AfterFrame(c) == "sync"

(* octoMessageCB() gets the payload of a good frame.  When it dies it has    *)
(* taken the id off the buffer, and the assignment of the next state, which  *)
(* follows the call, is not reached.                                         *)
WaitForChecksum ==
    /\ state = "checksum"
    /\ Read(2)
    /\ LET c == <<line[1], line[2]>> IN
         \/ /\ Accepts(c) /\ Dies(buffer)
            /\ given' = Append(given, buffer)
            /\ died' = died + 1
            /\ buffer' = Tail(buffer)
            /\ UNCHANGED state
         \/ /\ Accepts(c) /\ ~Dies(buffer)
            /\ given' = Append(given, buffer)
            /\ buffer' = <<>>
            /\ state' = AfterFrame(c)
            /\ UNCHANGED died
         \/ /\ ~Accepts(c)
            /\ buffer' = <<>>
            /\ state' = AfterFrame(c)
            /\ UNCHANGED <<given, died>>
    /\ UNCHANGED <<sent, lost, sync, len, sum>>

SerialCb == WaitForSync \/ WaitForLen \/ WaitForPayload \/ WaitForChecksum

LinkNext == SendFrame \/ SerialCb

LinkSpec == LinkInit /\ [][LinkNext]_linkVars

-----------------------------------------------------------------------------
(* Properties                                                                *)

\* The parser has taken all it can.
Waiting ==
    CASE state \in {"sync", "len"} -> line = <<>>
      [] state = "payload"         -> line = <<>> \/ Len(line) < len
      [] state = "checksum"        -> Len(line) < 2

(* What octoMessageCB gets was sent: these frames, in this order, none of    *)
(* them twice, also when the line loses bytes, for the payloads of a run.    *)
(* The checksum cannot do that for all payloads: of a Rpms frame that lost   *)
(* its length, FE ED 01 01 02 03, the first payload byte is a length, and    *)
(* the rest a payload with its checksum, which is handed on.                 *)
GivenWasSent ==
    /\ \A i \in DOMAIN given : \E j \in DOMAIN sent : given[i] = sent[j]
    /\ \A i, j \in DOMAIN given : i < j => Last(given[i]) < Last(given[j])

\* What a callback that died leaves the parser to find the next frame with: the
\* frame of m holds the two sync bytes only at its start, and they are not the
\* checksum of a payload the callback dies on.
SelfDelimiting(m) ==
    /\ \A i \in 3..(Len(m) + 4) : ~(Frame(m)[i] = Sync1 /\ Frame(m)[i + 1] = Sync2)
    /\ Dies(m) => Fletcher16(m) # <<Sync1, Sync2>>

(* The parser finds the frames again, as long as none of them can be taken   *)
(* for more than one: once it has taken all it can, a lost byte has cost the *)
(* frame it was in and at most the next one, and a callback that died the    *)
(* next frame.                                                               *)
ResyncBounded ==
    Waiting /\ (\A j \in DOMAIN sent : SelfDelimiting(sent[j])) =>
        Len(sent) <= Len(given) + 2 * lost + died

(* Until a byte is lost or a callback dies the line is a queue: octoMessageCB *)
(* gets every frame, in order and once, also the ones with the sync bytes in  *)
(* their payload.                                                             *)
LosslessInOrder ==
    lost = 0 /\ died = 0 =>
        /\ Len(given) <= Len(sent) /\ \A i \in DOMAIN given : given[i] = sent[i]
        /\ Waiting => Len(given) = Len(sent)
=============================================================================
