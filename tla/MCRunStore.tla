------------------------------ MODULE MCRunStore ------------------------------
(* An instance of RunStore: a root run and its two children.               *)
EXTENDS RunStore

CONSTANTS top, c1, c2, w1

MCRuns == {top, c1, c2}

FanOut == [r \in MCRuns |-> IF r = top THEN NoRun ELSE top]
===============================================================================
