------------------------------ MODULE ThreadLoad ------------------------------
(***************************************************************************)
(* The console command "threads" of the builds with thread profiling: for  *)
(* each thread of the kernel's registry, its share of the CPU since the    *)
(* command was last given.                                                 *)
(*                                                                         *)
(* stampThreadCpuInfo() keeps the ticks of the threads by their place in   *)
(* the registry, in a static record, and runs without blocking.  Then the  *)
(* command walks the registry and blocks in the print of each line: the    *)
(* streaming thread may start and end while it does, as between two        *)
(* commands.  The kernel and its tick are external.  A share is a number   *)
(* of ticks and the ticks of all; rounding, and the load of the last line, *)
(* are left out.                                                           *)
(***************************************************************************)
EXTENDS Integers, Functions, SequencesExt

CONSTANTS
    Always,       \* the threads that live as long as the board, in order
    Streamer,     \* the streaming thread
    None,         \* no thread
    MaxEntries,   \* MAX_CPU_INFO_ENTRIES (20): more than a walk has lines
    MaxTicks      \* bound: ticks of the threads of the registry

ASSUME ThreadLoadAssumption ==
    /\ Always \in Seq(Range(Always)) /\ Always # <<>> /\ IsInjective(Always)
    /\ {Streamer, None} \cap Range(Always) = {}
    /\ Streamer # None
    /\ MaxEntries \in Nat /\ MaxEntries >= Len(Always) + 2
    /\ MaxTicks \in Nat

\* The builds of this module: CHDEBUG_ENABLE, with which the kernel counts the
\* ticks of each thread and halts when one of its assertions fails.
ChdebugEnable    == TRUE
ThreadsProfiling == ChdebugEnable
EnableAsserts    == ChdebugEnable

Threads == Range(Always) \cup {Streamer}
Places  == 1..MaxEntries

VARIABLES
    registry,   \* the threads, in the order of their creation
    time,       \* the ticks of each
    info,       \* ThreadCpuInfo: the ticks of each place and totalTicks
    cpu,        \* its cpu: what it has for each place, and out of what
    at, idx,    \* the thread whose line is being printed, and its number
    ended,      \* was that thread, the streaming one, collected meanwhile?
    halted,     \* a working area in use is used again, and the kernel stops
    run,        \* history: ticks of each thread since the last stamp,
    own,        \* from the stamp before it to it,
    moved,      \* and has the registry changed in the one and the other?
    found       \* history: the threads the last stamp found

vars == <<registry, time, info, cpu, at, idx, ended, halted, run, own, moved, found>>

TypeOK ==
    /\ registry \in Seq(Threads) /\ IsInjective(registry)
    /\ time \in [Threads -> 0..MaxTicks]
    /\ info \in [ticks : [Places -> 0..MaxTicks], totalTicks : 0..MaxTicks]
    /\ cpu \in [Places -> Int \X Int]
    /\ at \in Range(registry) \cup {None}
    /\ idx \in Places
    /\ {ended, halted} \subseteq BOOLEAN
    /\ {run, own} \subseteq [Threads -> 0..MaxTicks]
    /\ moved \in BOOLEAN \X BOOLEAN
    /\ found \in 0..(Len(Always) + 1)

\* A board that boots in the Run state has the streaming thread before the
\* shell.
BootRegistries == {Always, Front(Always) \o <<Streamer, Last(Always)>>}
NoTicks == [t \in Threads |-> 0]
NoInfo  == [ticks |-> [p \in Places |-> 0], totalTicks |-> 0]
NoCpu   == [p \in Places |-> <<-1, 100>>]

Init ==
    /\ registry \in BootRegistries
    /\ time = NoTicks
    /\ info = NoInfo
    /\ cpu = NoCpu
    /\ at = None
    /\ idx = 1
    /\ ended = FALSE
    /\ halted = FALSE
    /\ run = NoTicks
    /\ own = NoTicks
    /\ moved = <<FALSE, FALSE>>
    /\ found = 0

Total(times, threads) == SumFunctionOnSet(times, Range(threads))

-----------------------------------------------------------------------------
(* The kernel, and the streaming thread                                      *)

\* The registry without the streaming thread, which is in it.
Unlinked == RemoveAt(registry, CHOOSE p \in DOMAIN registry : registry[p] = Streamer)

Tick(t) ==
    /\ ~halted
    /\ t # Streamer \/ ~ended
    /\ Total(time, registry) < MaxTicks
    /\ time' = [time EXCEPT ![t] = @ + 1]
    /\ run' = [run EXCEPT ![t] = @ + 1]
    /\ UNCHANGED <<registry, info, cpu, at, idx, ended, halted, own, moved, found>>

\* chThdCreateStatic(): the new thread is the last, and an area whose thread
\* is still registered stops a build with assertions.
StreamerStarts ==
    /\ ~halted
    /\ \/ /\ Streamer \notin Range(registry)
          /\ registry' = Append(registry, Streamer)
          /\ time' = [time EXCEPT ![Streamer] = 0]
          /\ run' = [run EXCEPT ![Streamer] = 0]
          /\ moved' = <<TRUE, moved[2]>>
          /\ UNCHANGED halted
       \/ /\ ended
          /\ halted' = EnableAsserts
          /\ UNCHANGED <<registry, time, run, moved>>
    /\ UNCHANGED <<info, cpu, at, idx, ended, own, found>>

\* chThdWait() gives back the reference of the creator; the walk has one to
\* the thread it stands on.
StreamerCollected ==
    /\ ~halted
    /\ Streamer \in Range(registry)
    /\ ~ended
    /\ ended' = (at = Streamer)
    /\ registry' = IF at = Streamer THEN registry ELSE Unlinked
    /\ moved' = <<TRUE, moved[2]>>
    /\ UNCHANGED <<time, info, cpu, at, idx, halted, run, own, found>>

-----------------------------------------------------------------------------
(* The command                                                               *)

\* Mutant: the total is added to the one before.
AddedTotal(total) == info.totalTicks + total

\* ti->totalTicks
NewTotal(total) == total

\* Mutant: what a place had is taken to be 0.
SinceBoot(p) == time[registry[p]]

\* tp->time - ti->ticks[idx]
SinceStamp(p) == time[registry[p]] - info.ticks[p]

StampThreadCpuInfo ==
    LET here  == 1..Len(registry)
        total == Total(time, registry)
    IN  /\ cpu' = [p \in Places |-> IF p \in here
                     THEN <<SinceStamp(p), total - info.totalTicks>> ELSE cpu[p]]
        /\ info' = [ticks |-> [p \in Places |-> IF p \in here
                                 THEN time[registry[p]] ELSE info.ticks[p]],
                    totalTicks |-> NewTotal(total)]

CmdThreads ==
    /\ ThreadsProfiling
    /\ ~halted
    /\ at = None
    /\ StampThreadCpuInfo
    /\ at' = Head(registry)
    /\ idx' = 1
    /\ own' = run
    /\ run' = NoTicks
    /\ moved' = <<FALSE, moved[1]>>
    /\ found' = Len(registry)
    /\ UNCHANGED <<registry, time, ended, halted>>

\* What the line with number p shows; there is none beyond the record.
StampThreadGetCpuPercent(p) == IF p \in Places THEN cpu[p] ELSE <<-1, 100>>

\* Mutant: the walk keeps its reference.
NotReleased == UNCHANGED <<registry, ended>>

\* chRegNextThread() gives back the reference to the thread it leaves.
Released ==
    /\ ended' = FALSE
    /\ registry' = IF ended THEN Unlinked ELSE registry

\* A line is out.
NextLine ==
    /\ ~halted
    /\ at # None
    /\ at' = IF at = Last(registry) THEN None
             ELSE registry[CHOOSE p \in 2..Len(registry) : registry[p - 1] = at]
    /\ idx' = IF at = Last(registry) THEN 1 ELSE idx + 1
    /\ Released
    /\ UNCHANGED <<time, info, cpu, halted, run, own, moved, found>>

\* A reset, or the power.
Reset ==
    /\ registry' \in BootRegistries
    /\ time' = NoTicks
    /\ info' = NoInfo
    /\ cpu' = NoCpu
    /\ at' = None
    /\ idx' = 1
    /\ ended' = FALSE
    /\ halted' = FALSE
    /\ run' = NoTicks
    /\ own' = NoTicks
    /\ moved' = <<FALSE, FALSE>>
    /\ found' = 0

Next ==
    \/ \E t \in Range(registry) : Tick(t)
    \/ StreamerStarts
    \/ StreamerCollected
    \/ CmdThreads
    \/ NextLine
    \/ Reset

Spec == Init /\ [][Next]_vars

-----------------------------------------------------------------------------
(* Properties                                                                *)

(* While no thread comes or goes, from the command before to the line, each  *)
(* line has the ticks of the thread it names since the command before, out   *)
(* of those of all threads.                                                  *)
SharesAreTheirs ==
    at # None /\ moved = <<FALSE, FALSE>> =>
        StampThreadGetCpuPercent(idx) = <<own[at], Total(own, registry)>>

(* The threads that were there before the streaming thread have their own    *)
(* ticks, whatever it did: places only move behind the one it leaves.        *)
EarlierTicksAreTheirs ==
    at \in Range(Front(Always)) => StampThreadGetCpuPercent(idx)[1] = own[at]

(* The shares of a command add up to the whole when it finds as many threads *)
(* as the one before, even if they are not the same.                         *)
SharesAddUp ==
    [][CmdThreads /\ found \in {0, Len(registry)} =>
        SumFunction([p \in 1..Len(registry) |-> cpu'[p][1]]) = cpu'[1][2]]_vars

(* The command holds the working area of the streaming thread only while it  *)
(* prints its line: a start that finds the area in use came then.            *)
AreaGivenBack == ended \/ halted => at = Streamer
=============================================================================
