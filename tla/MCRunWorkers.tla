----------------------------- MODULE MCRunWorkers -----------------------------
(* Instances of RunWorkers.                                                *)
EXTENDS RunWorkers, TLC

CONSTANTS top, c1, c2, w1, w2, i1

\* A supervisor with one delegate, and with two.
Pair   == {top, c1}
Triple == {top, c1, c2}

FanOut == [r \in Runs |-> IF r = top THEN NoRun ELSE top]

AllUnderTop == [r \in Runs |-> top]

WorkerSymmetry == Permutations(Workers)

FanOutSymmetry == Permutations(Workers) \cup Permutations({c1, c2})
===============================================================================
