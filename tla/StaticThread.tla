----------------------------- MODULE StaticThread -----------------------------
(***************************************************************************)
(* What ChibiOS asks of a program that runs a thread on a static working   *)
(* area (chThdCreateStatic, chThdTerminate, chThdWait), as the streaming   *)
(* code uses it: the area carries at most one thread, a thread ends only   *)
(* when it was asked to, and the end is collected with chThdWait before    *)
(* the area carries another one.  This is the abstract specification that  *)
(* StreamControl implements.                                               *)
(***************************************************************************)
VARIABLES
    area,   \* "free", "live": a thread runs on it, "ended": not collected yet
    asked   \* the termination request of the last thread on the area

threadVars == <<area, asked>>

StaticThreadTypeOK ==
    /\ area \in {"free", "live", "ended"}
    /\ asked \in BOOLEAN

StaticThreadInit == area = "free" /\ asked = FALSE

\* chThdCreateStatic
Create == area = "free" /\ area' = "live" /\ asked' = FALSE

\* chThdTerminate
Terminate == area = "live" /\ asked' = TRUE /\ UNCHANGED area

\* chThdExit: only after a request
Exit == area = "live" /\ asked /\ area' = "ended" /\ UNCHANGED asked

\* chThdWait returns
Collect == area = "ended" /\ area' = "free" /\ UNCHANGED asked

\* The board is reset.
PowerCycle == area' = "free" /\ asked' = FALSE

StaticThreadNext == Create \/ Terminate \/ Exit \/ Collect \/ PowerCycle

StaticThreadSpec == StaticThreadInit /\ [][StaticThreadNext]_threadVars
=============================================================================
