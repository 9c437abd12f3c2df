---------------------------- MODULE MCConfConsole ----------------------------
EXTENDS ConfConsole

(* Each entry once, by an abbreviation that names it alone; the words that   *)
(* name several or none; a word the six letters of commandStr_t cut.         *)
MCWords == {"mag", "motor", "win", "med", "r", "ba", "smi", "sma", "sh", "st", "l",
            "wip", "era", "err", "u", "magnets", "s", "volts"}

(* The bounds of each range and their neighbours.                            *)
MCArgs == {0, 1, 2, 3, 4, 5, 8, 9, 16, 17, 60, 61, 99, 100, 101, 10000, 10001,
           100000, 100001, 1000001}

(* Records at the bounds of what cache() checks.                             *)
MCEarlier ==
    {[magnet |-> mag, motor |-> 4, window |-> 16, median |-> 1, rate |-> 1000,
      baud |-> 230400, smin |-> lo, smax |-> hi] :
        mag \in {2, 3, 60}, lo \in {100, 101, 10000}, hi \in {100, 101, 10000, 100000}}
=============================================================================
