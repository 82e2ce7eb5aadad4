--------------------------- MODULE WorkflowExecutor ---------------------------
(***************************************************************************)
(* The workflow executor of internal/bff/workflow_executor.go: one run     *)
(* that walks a graph of steps.  An advance loads the cursor, folds the    *)
(* sub-runs of the step in flight into it, launches the sub-runs of the    *)
(* next step, and parks the run on them; the wake re-queues the run and    *)
(* the next advance may happen in another process.  Plain steps retry and  *)
(* catch, map steps fan out, loop steps repeat; a plan-approval gate may   *)
(* stand before the first step.                                            *)
(*                                                                         *)
(* The workflow run and its sub-runs are rows of RunStore.  An executor is *)
(* a worker (fenced on its lease) or an inline execution that an approval  *)
(* starts (no lease, no fence).  The agents that execute the sub-runs are  *)
(* the subject of RunWorkers; here a sub-run starts and ends.              *)
(***************************************************************************)
EXTENDS RunStore, Sequences, Functions

CONSTANTS
    wf,           \* the workflow run
    Steps,        \* the step names
    NoStep,       \* the empty step name
    Specs,        \* the spec snapshots a run may be created with
    PoisonCap,    \* poisonRedeliveryCap
    NodeWorker,   \* the worker that executes the sub-runs
    Inline,       \* the requests (approve, deny, cancel) that may be served at a time
    MaxFaults     \* bound: how many crashes, lapses of a lease and cancels may happen
                  \* to a run of each spec

Pool == Workers \ {NodeWorker}
Execs == Pool \cup Inline

Answers == {"yes", "no", "bad"}

(***************************************************************************)
(* A spec snapshot lists its steps in order and says whether the plan must *)
(* be approved and whether there is a budget block.  size is the retries   *)
(* of a plain step, the list length of a map, the maxIterations of a loop. *)
(* A plain step with a branch goes to `when` if the predicate is true of   *)
(* its answer, else to `next`.  catch names the handler of each failure    *)
(* class.  bad holds the map items whose input bindings do not evaluate.   *)
(***************************************************************************)
StepType ==
    [kind : {"plain", "map", "loop"}, size : Nat, any : BOOLEAN,
     when : Steps \cup {NoStep}, next : Steps \cup {NoStep},
     catch : [{"agent_error", "cancelled"} -> Steps \cup {NoStep}],
     bad : SUBSET Nat]

\* Where a step may lead: branch, default, join, handlers.
Edges(st) == {st.when, st.next} \cup Range(st.catch)

\* The numbers of the sub-runs a step may launch.
Launches(st) == IF st.kind = "plain" THEN 0..st.size ELSE 0..st.size - 1

\* The deterministic id of a sub-run: the i-th attempt, item or iteration of s.
SpawnRunID(s, i) == <<s, i>>

\* What the shared validator accepts (internal/workflow/validate.go 124-218):
\* distinct names, no dangling edge, loops of at least one iteration.  The
\* inputs of a retry are those of the first attempt.
ASSUME SpecAssumption ==
    /\ NoStep \notin Steps
    /\ \A sp \in Specs :
          /\ sp.order \in Seq(Steps) /\ sp.order # <<>> /\ IsInjective(sp.order)
          /\ DOMAIN sp.steps = Range(sp.order)
          /\ \A s \in DOMAIN sp.steps :
                /\ sp.steps[s] \in StepType
                /\ Edges(sp.steps[s]) \subseteq DOMAIN sp.steps \cup {NoStep}
                /\ sp.steps[s].kind = "loop" => sp.steps[s].size > 0
                /\ sp.steps[s].kind = "plain" => sp.steps[s].bad \subseteq {0}
          /\ sp.gate \in BOOLEAN /\ sp.budget \in BOOLEAN

ASSUME WfAssumption ==
    /\ wf \in Runs /\ ParentOf[wf] = NoRun
    /\ \A c \in Runs \ {wf} : ParentOf[c] = wf
    /\ \A sp \in Specs : \A s \in DOMAIN sp.steps :
          \A i \in Launches(sp.steps[s]) : SpawnRunID(s, i) \in Runs \ {wf}
    /\ NodeWorker \in Workers /\ Inline \cap Workers = {}
    /\ IsFiniteSet(Runs) /\ IsFiniteSet(Workers) /\ IsFiniteSet(Inline)
    /\ MaxFaults \in [Specs -> Nat]
    /\ \A sp \in Specs : MaxAttempts > MaxFaults[sp] + 1
    /\ PoisonCap \in Nat /\ PoisonCap < MaxAttempts

VARIABLES
    spec,     \* SpecSnapshot, pinned when the run is created
    cursor,   \* Run.Cursor
    approved, \* history: a human approved the plan
    answer,   \* the answer of each sub-run that succeeded
    reply,    \* the workflow's answer: the step it is taken from, and the last one
    exec,     \* what each executor is doing
    faults,   \* how many crashes, lapses and cancels there were
    lapsed,   \* a lease ran out under a live holder
    deserted  \* history: a worker died while it dead-lettered the run

evars == <<spec, cursor, approved, answer, reply, exec, faults, lapsed, deserted>>
wfvars == <<vars, spec, cursor, approved, answer, reply, exec, faults, lapsed, deserted>>

-------------------------------------------------------------------------------
(* The cursor.                                                             *)

Pending == [state |-> "pending", n |-> 0, out |-> "none"]

newCursor(approval) ==
    [current |-> NoStep, nodes |-> [s \in Steps |-> Pending], approval |-> approval]

\* A mutant: the gate is forgotten.
gatePending_Never(c) == FALSE

gatePending(c) == c.approval = "required"

fresh(c) == c.current = NoStep /\ \A s \in Steps : c.nodes[s] = Pending

\* n counts the attempts of a plain step, the items of a map, the iterations
\* of a loop.
launched(c, s, n) ==
    [c EXCEPT !.current = s, !.nodes[s] = [state |-> "launched", n |-> n, out |-> "none"]]

markNodeDone(c, s, out) == [c EXCEPT !.nodes[s].state = "done", !.nodes[s].out = out]

\* The sub-runs the run is parked on for step s, and how it waits for them.
ChildrenOf(c, s) ==
    IF spec.steps[s].kind = "map" THEN {SpawnRunID(s, i) : i \in 0..c.nodes[s].n - 1}
                                  ELSE {SpawnRunID(s, c.nodes[s].n)}

\* A mutant: the first item that ends, in whatever way, wakes the run.
mapWaitMode_Any(s) == "any"

mapWaitMode(s) == IF spec.steps[s].any THEN "any-success" ELSE "all-fail-fast"

ModeOf(s) == IF spec.steps[s].kind = "map" THEN mapWaitMode(s) ELSE "all"

\* A mutant: the first listed step that is done.
terminalOutput_First(c) ==
    LET done == {i \in DOMAIN spec.order : c.nodes[spec.order[i]].state = "done"}
    IN  spec.order[CHOOSE i \in done : \A j \in done : i <= j]

\* The last listed step that is done: "spec order is a stable proxy for the
\* terminal node reached".
terminalOutput(c) ==
    LET done == {i \in DOMAIN spec.order : c.nodes[spec.order[i]].state = "done"}
    IN  spec.order[CHOOSE i \in done : \A j \in done : j <= i]

-------------------------------------------------------------------------------
(***************************************************************************)
(* An execution: where it is, its copy of the cursor, the step it enters   *)
(* or launches and the next sub-run of it, the step it folded last, the    *)
(* class of the failure it handles, what its cascade has to cancel and     *)
(* what follows it, whether a retry is being launched, and whether its     *)
(* context is cancelled.                                                   *)
(***************************************************************************)

Idle == [pc |-> "idle", cur |-> newCursor("none"), step |-> NoStep, i |-> 0,
         last |-> NoStep, code |-> "none", todo |-> {}, then |-> "none",
         retry |-> FALSE, stopped |-> FALSE]

At(e, pc) == exec[e].pc = pc

Busy(e) == ~At(e, "idle")

Become(e, rec) == exec' = [exec EXCEPT ![e] = rec]

Goto(e, pc) == exec' = [exec EXCEPT ![e].pc = pc]

Return(e) == Become(e, Idle)

\* One more of the things that may happen at any time.
Fault == faults < MaxFaults[spec] /\ faults' = faults + 1

\* The row's worker is the executor; an inline execution is not asked.
Fence(e) == e \in Workers => worker[wf] = e

WfInit ==
    /\ Init
    /\ spec \in Specs
    /\ cursor = newCursor(IF spec.gate THEN "required" ELSE "none")
    /\ approved = FALSE
    /\ answer = [c \in Runs |-> "none"]
    /\ reply = [from |-> NoStep, last |-> NoStep]
    /\ exec = [e \in Execs |-> Idle]
    /\ faults = 0 /\ lapsed = FALSE /\ deserted = FALSE

-------------------------------------------------------------------------------
(* The run is created, claimed, reclaimed.                                 *)

createWorkflow ==
    /\ Create(wf)
    /\ UNCHANGED evars

IsPoison(n) == n > PoisonCap

\* A run that was reclaimed too often is dead-lettered, not executed.
claim(w) ==
    /\ At(w, "idle")
    /\ ClaimQueued(w, wf) \/ ClaimReclaimable(w, wf)
    /\ Become(w, [Idle EXCEPT !.pc = IF IsPoison(attempts'[wf]) THEN "poison" ELSE "opening"])
    /\ UNCHANGED <<spec, cursor, approved, answer, reply, faults, lapsed, deserted>>

\* The dead-letter's cascade carries no worker id, so it does not ask for the
\* lease: it goes straight to the list of the sub-runs.
DeadLettered == [Idle EXCEPT !.pc = "list", !.then = "return"]

\* A mutant: a poison run is passed over, and nobody fails it.
deadLetterPoison_Skip(w) ==
    /\ At(w, "poison")
    /\ Return(w)
    /\ UNCHANGED <<vars, spec, cursor, approved, answer, reply, faults, lapsed, deserted>>

\* The workflow is failed first, by a write that is not fenced, and its live
\* sub-runs are cancelled after that.
deadLetterPoison(w) ==
    /\ At(w, "poison")
    /\ \/ Update(wf, "failed") /\ Become(w, DeadLettered)
       \/ ~CanTransition(status[wf], "failed") /\ Return(w) /\ UNCHANGED vars
    /\ UNCHANGED <<spec, cursor, approved, answer, reply, faults, lapsed, deserted>>

\* The opening Update to running, which is not fenced.
opening(e) ==
    /\ At(e, "opening")
    /\ \/ Update(wf, "running") /\ Goto(e, "load")
       \/ status[wf] = "running" /\ Goto(e, "load") /\ UNCHANGED vars
       \/ /\ status[wf] # "running" /\ ~CanTransition(status[wf], "running")
          /\ Return(e) /\ UNCHANGED vars
    /\ UNCHANGED <<spec, cursor, approved, answer, reply, faults, lapsed, deserted>>

\* The run is read; what follows works on this copy of the cursor.
load(e) ==
    /\ At(e, "load")
    /\ IF exec[e].stopped THEN Return(e)
       ELSE Become(e, [exec[e] EXCEPT !.cur = cursor,
                !.pc = IF gatePending(cursor) /\ fresh(cursor) THEN "gate" ELSE "resume"])
    /\ UNCHANGED <<vars, spec, cursor, approved, answer, reply, faults, lapsed, deserted>>

\* gatePlanApproval: the run pauses before its first step.
gatePlanApproval(e) ==
    /\ At(e, "gate")
    /\ \/ /\ Fence(e) /\ Update(wf, "requires_action")
          /\ cursor' = exec[e].cur
       \/ /\ ~Fence(e) \/ ~CanTransition(status[wf], "requires_action")
          /\ UNCHANGED <<vars, cursor>>
    /\ Return(e)
    /\ UNCHANGED <<spec, approved, answer, reply, faults, lapsed, deserted>>

-------------------------------------------------------------------------------
(* The resume phase.                                                       *)

Succeeded(c) == status[c] = "succeeded"

\* The class of a failed sub-run, as routeCatch matches it.
Code(c) == IF status[c] = "cancelled" THEN "cancelled" ELSE "agent_error"

\* A branch predicate or an until that does not evaluate to a bool.
evalFails(s, out) == spec.steps[s].when # NoStep /\ out = "bad"

nodeSuccessor(s, out) ==
    LET st == spec.steps[s]
    IN  CASE st.kind = "map"  -> st.next
          [] st.kind = "loop" -> NoStep
          [] OTHER -> IF st.when # NoStep /\ out = "yes" THEN st.when ELSE st.next

\* The executor after step s is done with this output.  `onward` is the pc
\* from which the next step is entered.
advanceFrom(rec, s, out, onward) ==
    LET c    == [markNodeDone(rec.cur, s, out) EXCEPT !.current = NoStep]
        succ == nodeSuccessor(s, out)
    IN  [rec EXCEPT !.cur = c, !.step = succ, !.last = s,
                    !.pc = IF spec.steps[s].kind = "plain" /\ evalFails(s, out) THEN "fail"
                           ELSE IF succ = NoStep THEN "complete" ELSE onward]

\* A sub-run of step s is to be launched as number n.
launch(rec, s, n) ==
    [rec EXCEPT !.cur = launched(@, s, n), !.step = s, !.i = n, !.pc = "reserve"]

\* The next attempt of a plain step: a new sub-run.
retryNode(rec, s) == launch(rec, s, rec.cur.nodes[s].n + 1)

\* A mutant: the workflow fails and leaves its other sub-runs alone.
failThen_NoCascade(rec) == [rec EXCEPT !.pc = "fail"]

\* Fail-fast: first the live sub-runs are cancelled, then the workflow fails.
failThen(rec) == [rec EXCEPT !.pc = "cascade", !.then = "fail"]

\* What the resume phase reads of the sub-runs does not decide step s.
Undecided(rec, s) ==
    LET kids == ChildrenOf(rec.cur, s)
        over == \A c \in kids : IsTerminal(status[c])
        lost == \E c \in kids : IsTerminal(status[c]) /\ ~Succeeded(c)
        won  == \E c \in kids : Succeeded(c)
    IN  ~(over \/ (spec.steps[s].kind = "map" /\ IF spec.steps[s].any THEN won ELSE lost))

\* A fresh run starts at the first listed step.
startGraph(e) ==
    /\ At(e, "resume") /\ fresh(exec[e].cur)
    /\ Become(e, [exec[e] EXCEPT !.step = Head(spec.order), !.pc = "enter"])

resumePlainNode(e, s) ==
    LET rec == exec[e]
        c   == SpawnRunID(s, rec.cur.nodes[s].n)
    IN  /\ spec.steps[s].kind = "plain" /\ IsTerminal(status[c])
        /\ \/ /\ Succeeded(c)
              /\ Become(e, advanceFrom(rec, s, answer[c], "enter"))
           \/ /\ ~Succeeded(c) /\ rec.cur.nodes[s].n < spec.steps[s].size
              /\ Become(e, [retryNode(rec, s) EXCEPT !.retry = TRUE, !.code = Code(c)])
           \/ /\ ~Succeeded(c) /\ rec.cur.nodes[s].n >= spec.steps[s].size
              /\ Become(e, [rec EXCEPT !.pc = "exhausted", !.code = Code(c)])

resumeLoopNode(e, s) ==
    LET rec == exec[e]
        n   == rec.cur.nodes[s].n
        c   == SpawnRunID(s, n)
    IN  /\ spec.steps[s].kind = "loop" /\ IsTerminal(status[c])
        /\ \/ ~Succeeded(c) /\ Become(e, failThen(rec))
           \/ /\ Succeeded(c) /\ answer[c] = "bad"
              /\ Goto(e, "fail")
           \/ /\ Succeeded(c) /\ answer[c] # "bad"
              /\ \/ /\ answer[c] = "yes" \/ n + 1 >= spec.steps[s].size
                    /\ Become(e, advanceFrom(rec, s, answer[c], "enter"))
                 \/ /\ answer[c] = "no" /\ n + 1 < spec.steps[s].size
                    /\ Become(e, launch(rec, s, n + 1))

\* completion: all.  The first failed item fails the workflow.
resumeMapNode(e, s) ==
    LET rec  == exec[e]
        kids == ChildrenOf(rec.cur, s)
    IN  /\ spec.steps[s].kind = "map" /\ ~spec.steps[s].any
        /\ \/ /\ \E c \in kids : IsTerminal(status[c]) /\ ~Succeeded(c)
              /\ Become(e, failThen(rec))
           \/ /\ \A c \in kids : Succeeded(c)
              /\ Become(e, advanceFrom(rec, s, "list", "enter"))

\* completion: any.  The first success wins, and the other items are cancelled.
resumeMapNodeAny(e, s) ==
    LET rec  == exec[e]
        kids == ChildrenOf(rec.cur, s)
    IN  /\ spec.steps[s].kind = "map" /\ spec.steps[s].any
        /\ \/ /\ \E c \in kids : Succeeded(c)
              /\ Become(e, [rec EXCEPT !.pc = "cascade", !.then = "advance", !.step = s])
           \/ /\ \A c \in kids : IsTerminal(status[c]) /\ ~Succeeded(c)
              /\ Goto(e, "fail")

resumeCurrentNode(e) ==
    /\ \/ startGraph(e)
       \/ \E s \in DOMAIN spec.steps :
             /\ At(e, "resume") /\ exec[e].cur.current = s
             /\ \/ resumePlainNode(e, s) \/ resumeLoopNode(e, s)
                \/ resumeMapNode(e, s) \/ resumeMapNodeAny(e, s)
                \/ /\ Undecided(exec[e], s)
                   /\ Become(e, [exec[e] EXCEPT !.pc = "resuspend", !.step = s])
    /\ UNCHANGED <<vars, spec, cursor, approved, answer, reply, faults, lapsed, deserted>>

\* The run is parked again on the step in flight of this copy of the cursor.
\* This Suspend is not fenced.
defensiveResuspend(e) ==
    LET rec == exec[e]
    IN  /\ At(e, "resuspend")
        /\ \/ /\ Suspend(wf, ChildrenOf(rec.cur, rec.step), ModeOf(rec.step))
              /\ Return(e)
           \/ ~MaySuspend(wf) /\ Goto(e, "fail") /\ UNCHANGED vars
        /\ UNCHANGED <<spec, cursor, approved, answer, reply, faults, lapsed, deserted>>

\* A mutant: a handler catches every class of failure.
routeCatch_AnyClass(s, code) == spec.steps[s].catch["agent_error"]

\* The handler of a failure class, or none.
routeCatch(s, code) == spec.steps[s].catch[code]

\* A plain step has no retry left: on to the handler, or fail fast.
exhausted(e) ==
    LET rec == exec[e]
        s   == rec.cur.current
        handler == routeCatch(s, rec.code)
    IN  /\ At(e, "exhausted")
        /\ \/ /\ handler # NoStep
              /\ Become(e, [rec EXCEPT
                     !.cur = [markNodeDone(@, s, "null") EXCEPT !.current = NoStep],
                     !.step = handler, !.pc = "enter"])
           \/ handler = NoStep /\ Become(e, failThen(rec))
        /\ UNCHANGED <<vars, spec, cursor, approved, answer, reply, faults, lapsed, deserted>>

-------------------------------------------------------------------------------
(* The launch phase.                                                       *)

\* enterNode, after a last look at the context ("onward": an empty map goes on
\* to its join without one).
enterNode(e) ==
    LET rec == exec[e]
        s   == rec.step
        st  == spec.steps[s]
    IN  /\ \/ /\ At(e, "enter") /\ rec.stopped
              /\ Return(e)
           \/ /\ At(e, "onward") \/ (At(e, "enter") /\ ~rec.stopped)
              /\ Become(e, IF st.kind = "map" /\ st.size = 0
                           THEN advanceFrom([rec EXCEPT !.cur = launched(@, s, 0)],
                                            s, "list", "onward")
                           ELSE IF st.kind = "map"
                           THEN [rec EXCEPT !.cur = launched(@, s, st.size),
                                            !.i = 0, !.pc = "reserve"]
                           ELSE launch(rec, s, 0))
        /\ UNCHANGED <<vars, spec, cursor, approved, answer, reply, faults, lapsed, deserted>>

-------------------------------------------------------------------------------
(* The launch: one reservation and one sub-run at a time, then the suspend. *)

\* A mutant: one reservation pays for the whole fan-out of a map.
reserveNodeSpawn_Once(rec) ==
    IF spec.budget /\ rec.i = 0 THEN ReserveSpawn(wf) ELSE UNCHANGED vars

\* One unit of the budget per sub-run, a replayed launch included.  A workflow
\* without a budget block reserves nothing, and no launch is denied.
reserveNodeSpawn(rec) == IF spec.budget THEN ReserveSpawn(wf) ELSE UNCHANGED vars

\* An input that does not evaluate fails the workflow; a spent budget cancels
\* the live sub-runs first.
reserve(e) ==
    LET rec == exec[e]
        bad == rec.i \in spec.steps[rec.step].bad
    IN  /\ At(e, "reserve")
        /\ \/ bad /\ Goto(e, "fail") /\ UNCHANGED vars
           \/ ~bad /\ reserveNodeSpawn(rec) /\ Goto(e, "spawn")
           \/ /\ ~bad /\ spec.budget /\ spawns[wf] >= MaxTotalSpawns
              /\ Become(e, failThen(rec)) /\ UNCHANGED vars
        /\ UNCHANGED <<spec, cursor, approved, answer, reply, faults, lapsed, deserted>>

\* spawnWorkflowNode: a sub-run that exists is reused.
spawnWorkflowNode(e) ==
    LET rec  == exec[e]
        c    == SpawnRunID(rec.step, rec.i)
        more == spec.steps[rec.step].kind = "map" /\ rec.i + 1 < rec.cur.nodes[rec.step].n
    IN  /\ At(e, "spawn")
        /\ Create(c) \/ (Created(c) /\ UNCHANGED vars)
        /\ Become(e, IF more THEN [rec EXCEPT !.i = @ + 1, !.pc = "reserve"]
                             ELSE [rec EXCEPT !.pc = "suspend"])
        /\ UNCHANGED <<spec, cursor, approved, answer, reply, faults, lapsed, deserted>>

\* Suspend with the cursor, in one fenced transaction.  A run that cannot be
\* parked any more is failed instead.
suspendOnChildren(e) ==
    LET rec == exec[e]
    IN  /\ At(e, "suspend")
        /\ \/ /\ Fence(e)
              /\ Suspend(wf, ChildrenOf(rec.cur, rec.step), ModeOf(rec.step))
              /\ cursor' = rec.cur
              /\ Return(e)
           \/ ~Fence(e) /\ Return(e) /\ UNCHANGED <<vars, cursor>>
           \/ /\ Fence(e) /\ ~MaySuspend(wf)
              /\ Goto(e, "fail") /\ UNCHANGED <<vars, cursor>>
        /\ UNCHANGED <<spec, approved, answer, reply, faults, lapsed, deserted>>

-------------------------------------------------------------------------------
(* The end of the workflow, and the cancel cascade.                        *)

\* The fenced terminal write, if the table allows it.
MayEnd(e, to) == Fence(e) /\ CanTransition(status[wf], to)

\* retryNode reports a launch it had to give up like an exhausted budget, so
\* its caller goes on to the handler of a workflow that has ended.
failWorkflow(e) ==
    LET rec == exec[e]
    IN  /\ At(e, "fail")
        /\ \/ MayEnd(e, "failed") /\ Update(wf, "failed")
           \/ ~MayEnd(e, "failed") /\ UNCHANGED vars
        /\ IF rec.retry THEN Become(e, [rec EXCEPT !.retry = FALSE, !.pc = "exhausted"])
                        ELSE Return(e)
        /\ UNCHANGED <<spec, cursor, approved, answer, reply, faults, lapsed, deserted>>

completeWorkflow(e) ==
    LET rec == exec[e]
    IN  /\ At(e, "complete")
        /\ \/ /\ MayEnd(e, "succeeded") /\ Update(wf, "succeeded")
              /\ reply' = [from |-> terminalOutput(rec.cur), last |-> rec.last]
           \/ ~MayEnd(e, "succeeded") /\ UNCHANGED <<vars, reply>>
        /\ Return(e)
        /\ UNCHANGED <<spec, cursor, approved, answer, faults, lapsed, deserted>>

\* What follows the cascade: the failure, the advance past the winner of a
\* map, or the answer to the cancel request.
AfterCascade(rec) ==
    CASE rec.then = "fail"    -> [rec EXCEPT !.pc = "fail", !.todo = {}]
      [] rec.then = "advance" -> [advanceFrom(rec, rec.step, "list", "enter") EXCEPT !.todo = {}]
      [] rec.then = "return"  -> Idle

\* holdsRunLease: only the holder cascades.
cascadeStarts(e) ==
    /\ At(e, "cascade")
    /\ IF Fence(e) THEN Goto(e, "list") ELSE Become(e, AfterCascade(exec[e]))
    /\ UNCHANGED <<vars, spec, cursor, approved, answer, reply, faults, lapsed, deserted>>

\* The table is listed once, after that look at the lease.
cascadeLists(e) ==
    /\ At(e, "list")
    /\ Become(e, [exec[e] EXCEPT !.pc = "cancelling",
           !.todo = {c \in Children(wf) : Created(c) /\ ~IsTerminal(status[c])}])
    /\ UNCHANGED <<vars, spec, cursor, approved, answer, reply, faults, lapsed, deserted>>

\* One sub-run after the other is cancelled, unless it ended since.  A plain
\* Update: the parent is not woken.
cascadeCancels(e) ==
    LET rec == exec[e]
    IN  /\ At(e, "cancelling")
        /\ \/ \E c \in rec.todo :
                 /\ Update(c, "cancelled") \/ (IsTerminal(status[c]) /\ UNCHANGED vars)
                 /\ Become(e, [rec EXCEPT !.todo = @ \ {c}])
           \/ /\ rec.todo = {}
              /\ Become(e, AfterCascade(rec)) /\ UNCHANGED vars
        /\ UNCHANGED <<spec, cursor, approved, answer, reply, faults, lapsed, deserted>>

-------------------------------------------------------------------------------
(* The API.                                                                *)

\* A user cancels the workflow: the row, then its subtree.
handleCancelRun(e) ==
    /\ At(e, "idle") /\ Fault
    /\ Update(wf, "cancelled")
    /\ Become(e, [Idle EXCEPT !.pc = "cascade", !.then = "return"])
    /\ UNCHANGED <<spec, cursor, approved, answer, reply, lapsed, deserted>>

\* handleResumeRun finds the run paused, without a lock.
resumeChecks(e) ==
    /\ At(e, "idle") /\ status[wf] = "requires_action"
    /\ Become(e, [Idle EXCEPT !.pc = "resuming"])
    /\ UNCHANGED <<vars, spec, cursor, approved, answer, reply, faults, lapsed, deserted>>

\* The approval and the move to running are one transaction; the executor is
\* then driven inline, under the lease of the worker that paused the run.
resumePlanApproval(e) ==
    /\ At(e, "resuming")
    /\ \/ /\ Update(wf, "running") \/ (status[wf] = "running" /\ UNCHANGED vars)
          /\ cursor' = [cursor EXCEPT !.approval = "approved"]
          /\ approved' = TRUE
          /\ Become(e, [Idle EXCEPT !.pc = "opening"])
       \/ /\ status[wf] # "running" /\ ~CanTransition(status[wf], "running")
          /\ Return(e)
          /\ UNCHANGED <<vars, cursor, approved>>
    /\ UNCHANGED <<spec, answer, reply, faults, lapsed, deserted>>

\* The deny branch: an Update to cancelled, without a cascade.
denyPlan(e) ==
    /\ At(e, "resuming")
    /\ Update(wf, "cancelled") \/ (~CanTransition(status[wf], "cancelled") /\ UNCHANGED vars)
    /\ Return(e)
    /\ UNCHANGED <<spec, cursor, approved, answer, reply, faults, lapsed, deserted>>

-------------------------------------------------------------------------------
(* The sub-runs, the sweep, and the leases.                                *)

\* A worker executes the sub-run ...
childStarts(c) ==
    /\ ClaimQueued(NodeWorker, c)
    /\ UNCHANGED evars

\* ... and it ends; only the answer of a branch or of a loop is told apart.
Told(s) == spec.steps[s].kind = "loop" \/ spec.steps[s].when # NoStep

childEnds(c, to, a) ==
    /\ status[c] = "running"
    /\ to = "succeeded" => (a \in Answers <=> Told(c[1]))
    /\ to # "succeeded" => a = "none"
    /\ CompleteAndWake(c, to)
    /\ answer' = [answer EXCEPT ![c] = a]
    /\ UNCHANGED <<spec, cursor, approved, reply, exec, faults, lapsed, deserted>>

\* A user cancels one sub-run.
cancelChild(c) ==
    /\ Fault
    /\ Update(c, "cancelled")
    /\ UNCHANGED <<spec, cursor, approved, answer, reply, exec, lapsed, deserted>>

sweepWaiting ==
    /\ SweepWaiting(wf)
    /\ UNCHANGED evars

\* The worker that the row names is at work on it.
HolderLives == \E w \in Pool : worker[wf] = w /\ Busy(w)

LeaseRunsOut ==
    /\ ~HolderLives /\ ExpireLease(wf)
    /\ UNCHANGED evars

LeaseLapses ==
    /\ HolderLives /\ Fault
    /\ ExpireLease(wf)
    /\ lapsed' = TRUE
    /\ UNCHANGED <<spec, cursor, approved, answer, reply, exec, deserted>>

\* A worker of the pool cascades to no other end than a dead-letter.
DeadLettering(e) == e \in Pool /\ exec[e].then = "return"

\* The heartbeat beats while the worker executes the run, and stops with its
\* context; a dead-letter has none.
Beating(w) == Busy(w) /\ ~At(w, "poison") /\ ~DeadLettering(w) /\ ~exec[w].stopped

heartbeatRenews(w) ==
    /\ Beating(w) /\ lease[wf] = "expired"
    /\ Heartbeat(w, wf)
    /\ UNCHANGED evars

\* The heartbeat finds the lease lost, or could not renew it in time: the
\* execution's context is cancelled.  cursorFenceCtx does not carry the
\* self-fence flag, so that context is all the executor sees of it.
heartbeatStops(w) ==
    /\ Beating(w)
    /\ ~Holds(w, wf) \/ lease[wf] = "expired"
    /\ exec' = [exec EXCEPT ![w].stopped = TRUE]
    /\ UNCHANGED <<vars, spec, cursor, approved, answer, reply, faults, lapsed, deserted>>

Crash(e) ==
    /\ Busy(e) /\ Fault
    /\ Return(e)
    /\ deserted' = (deserted \/ DeadLettering(e))
    /\ UNCHANGED <<vars, spec, cursor, approved, answer, reply, lapsed>>

-------------------------------------------------------------------------------

Advance(e) ==
    \/ opening(e) \/ load(e) \/ gatePlanApproval(e)
    \/ resumeCurrentNode(e) \/ defensiveResuspend(e) \/ exhausted(e) \/ enterNode(e)
    \/ reserve(e) \/ spawnWorkflowNode(e) \/ suspendOnChildren(e)
    \/ failWorkflow(e) \/ completeWorkflow(e)
    \/ cascadeStarts(e) \/ cascadeLists(e) \/ cascadeCancels(e)

Request(e) ==
    \/ handleCancelRun(e) \/ resumeChecks(e)
    \/ resumePlanApproval(e) \/ denyPlan(e)

SubRun(c) ==
    \/ childStarts(c) \/ cancelChild(c)
    \/ \E to \in {"succeeded", "failed"}, a \in Answers \cup {"none"} : childEnds(c, to, a)

WfNext ==
    \/ createWorkflow \/ sweepWaiting \/ LeaseRunsOut \/ LeaseLapses
    \/ \E w \in Pool : claim(w) \/ deadLetterPoison(w) \/ heartbeatRenews(w) \/ heartbeatStops(w)
    \/ \E e \in Execs : Advance(e) \/ Crash(e)
    \/ \E e \in Inline : Request(e)
    \/ \E c \in Children(wf) : SubRun(c)

WfSpec == WfInit /\ [][WfNext]_wfvars

\* The code of an execution runs on, the pool polls, agents answer, the sweep
\* ticks and leases run out by the clock.  Nobody has to cancel or to approve.
WfFairSpec ==
    /\ WfSpec
    /\ \A e \in Execs : WF_wfvars(Advance(e))
    /\ WF_wfvars(\E w \in Pool : claim(w)) /\ \A w \in Pool : WF_wfvars(deadLetterPoison(w))
    /\ WF_wfvars(sweepWaiting) /\ WF_wfvars(LeaseRunsOut)
    /\ \A c \in Children(wf) : WF_wfvars(SubRun(c))

-------------------------------------------------------------------------------
(* Properties.                                                             *)

\* Type invariant of the workflow run, on top of the store's.
WfTypeOK ==
    /\ TypeOK
    /\ spec \in Specs
    /\ cursor.current \in Steps \cup {NoStep}
    /\ answer \in [Runs -> Answers \cup {"none"}]
    /\ \A e \in Execs : exec[e].todo \subseteq Children(wf)
    /\ faults <= MaxFaults[spec]

Items(s) == {SpawnRunID(s, i) : i \in 0..spec.steps[s].size - 1}

\* Where the sub-runs of step p, as they have ended, lead.  Retries come first
\* (but an execution whose retry came too late, because the workflow has
\* ended or, after an approval, because a second execution has moved it on,
\* still routes to the handler: retryNode reports both as "not retried").
LeadsTo(p) ==
    LET st == spec.steps[p]
        Spent(i) == i = st.size \/ IsTerminal(status[wf]) \/ spec.gate
    IN  CASE st.kind = "loop" -> {}
          [] st.kind = "map" ->
                IF st.size = 0 \/ (\A c \in Items(p) : Succeeded(c))
                   \/ (st.any /\ \E c \in Items(p) : Succeeded(c))
                THEN {st.next} ELSE {}
          [] OTHER -> UNION {
                LET c == SpawnRunID(p, i)
                IN  IF Succeeded(c)
                    THEN IF evalFails(p, answer[c]) THEN {} ELSE {nodeSuccessor(p, answer[c])}
                    ELSE IF IsTerminal(status[c]) /\ Spent(i) THEN {st.catch[Code(c)]} ELSE {}
                : i \in 0..st.size}

\* The run may have come to step s: it is the first one, or a step that the
\* run came to leads to it.  (An empty map has no sub-runs of its own.)
Reached(s) ==
    \/ s = Head(spec.order)
    \/ \E p \in DOMAIN spec.steps : s \in LeadsTo(p)

\* The sub-run <<s, i>> is due: its step is the first one or the outcome of its
\* predecessor leads to it by the branch taken, the join or the handler of the
\* failure class; attempt i follows the failure of attempt i - 1, iteration i
\* a "not yet" of iteration i - 1.
Due(s, i) ==
    LET st == spec.steps[s]
        before == SpawnRunID(s, i - 1)
    IN  \/ st.kind = "map" /\ i < st.size /\ Reached(s)
        \/ st.kind # "map" /\ i = 0 /\ Reached(s)
        \/ /\ st.kind = "plain" /\ i \in 1..st.size
           /\ IsTerminal(status[before]) /\ ~Succeeded(before)
        \/ /\ st.kind = "loop" /\ i \in 1..st.size - 1
           /\ Succeeded(before) /\ answer[before] = "no"

\* An execution replays the cursor, its lease may lapse, a second one may be
\* at work on the same run, and a crash may come between any two launches.
\* All the same, every sub-run there is was due.
LaunchesFollowEdges == \A c \in Children(wf) : Created(c) => Due(c[1], c[2])

\* While a run has one execution at a time, none resumes a step whose sub-runs
\* have not decided it: "the wake fired early - should not happen" does not
\* happen, nor "a non-fresh cursor with no Current - unreachable here".  (A
\* second execution can park the run on a step that is over, and the sweep
\* then wakes it early.)
WakesAreDue ==
    ~lapsed /\ ~spec.gate =>
        \A e \in Execs : At(e, "resume") =>
            LET c == exec[e].cur
            IN  fresh(c) \/ (c.current # NoStep /\ ~Undecided(exec[e], c.current))

\* No sub-run exists before a human approved the plan, whoever claims,
\* reclaims or crashes ("NO node is launched until a human resumes"); and the
\* approval is not asked for twice, unless a lease lapsed under its holder.
GateHolds ==
    /\ spec.gate /\ ~approved => \A c \in Children(wf) : ~Created(c)
    /\ approved /\ ~lapsed => ~gatePending(cursor)

\* Every sub-run of a workflow with a budget was paid for, and the tree never
\* has more than its budget: replays, retries, fan-outs and a cycle in the
\* graph included.  (Without a budget block nothing is reserved.)
LaunchBudget ==
    LET made == Cardinality({c \in Children(wf) : Created(c)})
    IN  spec.budget => made <= spawns[wf] /\ spawns[wf] <= MaxTotalSpawns

\* The edges of the spec all lead to a step that is listed later.
ListedForward ==
    \A i \in DOMAIN spec.order :
        LET st == spec.steps[spec.order[i]]
            ahead == {spec.order[j] : j \in i + 1..Len(spec.order)} \cup {NoStep}
        IN  Edges(st) \subseteq ahead

\* A workflow that succeeded ended at a step that leads nowhere further, by
\* what its sub-runs returned; and when every edge leads forward in the list,
\* its answer is the one of that step.
SuccessIsEarned ==
    status[wf] = "succeeded" =>
        /\ reply.last # NoStep
        /\ spec.steps[reply.last].kind = "loop" \/ NoStep \in LeadsTo(reply.last)
        /\ ListedForward => reply.from = reply.last

\* Fail-fast leaves no work behind: once the workflow has failed and its
\* executions have returned, none of its sub-runs is live.  (An execution
\* that lost its lease, or one outside the pool, may launch one after the
\* cascade; a map item whose input does not evaluate fails without one.)  The
\* dead-letter, which fails the workflow first, leaves none either, unless its
\* worker dies before it has cancelled them.
FailFastLeavesNothing ==
    /\ status[wf] = "failed" /\ ~lapsed /\ ~deserted /\ ~spec.gate
    /\ \A e \in Execs : ~Busy(e)
    /\ \A s \in DOMAIN spec.steps : spec.steps[s].bad = {}
    => \A c \in Children(wf) : Created(c) => IsTerminal(status[c])

\* Every workflow ends, in spite of crashes and cancels, retries, loops, empty
\* maps and cycles that a budget pays for, as long as it has one execution at
\* a time.  (A second one may reopen the run that its peer parked, and leave
\* it running with no lease to reclaim.)
WorkflowEnds ==
    Created(wf) ~> (\/ IsTerminal(status[wf]) \/ lapsed \/ spec.gate
                    \/ ~spec.budget /\ ~ListedForward)
===============================================================================
