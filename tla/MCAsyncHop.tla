----------------------------- MODULE MCAsyncHop -----------------------------
(* The hop on a scaled schedule: 1, 2 for 5, 15, 60, 300 s, an attempt of  *)
(* 1 and a claim of 4: as in the code the claim outlives the backoff       *)
(* schedule (3), and not the schedule with every attempt at its timeout.   *)
EXTENDS AsyncHop

CONSTANTS d1, d2

ShortBackoff == <<1, 2>>
=============================================================================
