--------------------------- MODULE MCAbsurdQueue ---------------------------
(***************************************************************************)
(* Small instances of AbsurdQueue for TLC.                                 *)
(***************************************************************************)
EXTENDS AbsurdQueue, TLC

Symmetry == Permutations(Task)
Always(d) == [r \in RunId |-> d]

(* Two attempts, the second at once or a second later; one task may not    *)
(* wait longer than a second to start, nor last a second.                  *)
Retrying ==
  {[max_attempts |-> 2, delay |-> Always(0), max_delay |-> Null, max_duration |-> Null],
   [max_attempts |-> Null, delay |-> Always(1), max_delay |-> 1, max_duration |-> 1]}

(* Any number of attempts, unless the task waits longer than a second.     *)
DelayLimited ==
  {[max_attempts |-> Null, delay |-> Always(0), max_delay |-> 1, max_duration |-> Null]}

(* Two attempts, the second at once, and no deadline.                      *)
TwoAttempts ==
  {[max_attempts |-> 2, delay |-> Always(0), max_delay |-> Null, max_duration |-> Null]}
=============================================================================
