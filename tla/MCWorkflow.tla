------------------------------ MODULE MCWorkflow ------------------------------
(* Workflow specs for TLC, each with the cases one kind of step can meet.  *)
EXTENDS WorkflowExecutor, TLC

CONSTANTS sa, sb, sc, w1, w2, i1, node

MCRuns == {wf} \cup ({sa, sb, sc} \X {0, 1})
MCParentOf == [r \in MCRuns |-> IF r = wf THEN NoRun ELSE wf]

NoCatch == [k \in {"agent_error", "cancelled"} |-> NoStep]
Plain(n, next) == [kind |-> "plain", size |-> n, any |-> FALSE, when |-> NoStep,
                   next |-> next, catch |-> NoCatch, bad |-> {}]
Map(n, any, join) == [Plain(n, join) EXCEPT !.kind = "map", !.any = any]
Loop(n) == [Plain(n, NoStep) EXCEPT !.kind = "loop"]
Listed(order, steps) == [order |-> order, steps |-> steps, gate |-> FALSE, budget |-> TRUE]
Unbudgeted(sp) == [sp EXCEPT !.budget = FALSE]

\* A branch, a retry, and a handler for one class of failure.
Branching ==
    Listed(<<sa, sb, sc>>,
      sa :> [Plain(1, sc) EXCEPT !.when = sb, !.catch["agent_error"] = sc]
      @@ sb :> Plain(0, NoStep) @@ sc :> Plain(0, NoStep))
MapAll == Listed(<<sa, sb>>, sa :> Map(2, FALSE, sb) @@ sb :> Plain(0, NoStep))
MapAny == Listed(<<sa, sb>>, sa :> Map(2, TRUE, sb) @@ sb :> Plain(0, NoStep))
Fanned == Unbudgeted(Listed(<<sa>>, sa :> Map(2, FALSE, NoStep)))
MapNone == Listed(<<sa, sb>>, sa :> Map(0, FALSE, sb) @@ sb :> Loop(2))
MapBad == Listed(<<sa>>, sa :> [Map(2, FALSE, NoStep) EXCEPT !.bad = {1}])
Gated == [Listed(<<sa>>, sa :> Plain(0, NoStep)) EXCEPT !.gate = TRUE]
Cycle == Listed(<<sa, sb>>, sa :> Plain(0, sb) @@ sb :> Plain(0, sa))

MCSpecs ==
    {Branching, MapAll, MapAny, MapNone, MapBad, Gated, Cycle,
     Fanned, Unbudgeted(Cycle)}

\* One fault at any point; two, so that a run becomes poison, in the fan-out.
MCFaults == [sp \in MCSpecs |-> IF sp = Fanned THEN 2 ELSE 1]
===============================================================================
