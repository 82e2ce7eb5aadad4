---------------------------- MODULE WorkflowProofs ----------------------------
(***************************************************************************)
(* Proofs about WorkflowExecutor, for any set of valid graphs, any pool of *)
(* workers and requests, and any number of faults.                         *)
(***************************************************************************)
EXTENDS WorkflowExecutor, RunStoreProofs, FiniteSetTheorems

-------------------------------------------------------------------------------
(* The records of the executions.                                          *)

Outs == Answers \cup {"none", "list", "null"}

NodeType == [state : {"pending", "launched", "done"}, n : Nat, out : Outs]

CursorType ==
    [current : Steps \cup {NoStep}, nodes : [Steps -> NodeType],
     approval : {"none", "required", "approved"}]

Pcs ==
    {"idle", "opening", "load", "gate", "resume", "resuspend", "exhausted", "enter",
     "onward", "reserve", "spawn", "suspend", "fail", "complete", "cascade", "list",
     "cancelling", "resuming", "poison"}

ExecType ==
    [pc : Pcs, cur : CursorType, step : Steps \cup {NoStep}, i : Nat,
     last : Steps \cup {NoStep}, code : {"none", "agent_error", "cancelled"},
     todo : SUBSET Children(wf), then : {"none", "fail", "advance", "return"},
     retry : BOOLEAN, stopped : BOOLEAN]

\* The listed steps.
Graph == DOMAIN spec.steps

StepDone(c, s) == c.nodes[s].state = "done"

\* s is listed before t.
Before(s, t) ==
    \E i, j \in DOMAIN spec.order : i < j /\ spec.order[i] = s /\ spec.order[j] = t

\* Where all edges lead forward, the steps that are done come before s.
Behind(c, s) == ListedForward => \A t \in Graph : StepDone(c, t) => Before(t, s)

\* The count of a step in flight is one that a launch may have.
Counted(c, s) ==
    LET st == spec.steps[s]
    IN  IF st.kind = "map" THEN c.nodes[s].n = st.size ELSE c.nodes[s].n \in Launches(st)

\* A cursor as it is persisted: untouched, or with a step in flight.
CursorOK(c) ==
    /\ c.current = NoStep => fresh(c)
    /\ c.current # NoStep =>
           c.current \in Graph /\ Counted(c, c.current) /\ Behind(c, c.current)

\* A sub-run of the plain step s ended unsuccessfully, with this class.
Missed(s, i, code) ==
    LET c == SpawnRunID(s, i)
    IN  /\ i \in 0..spec.steps[s].size
        /\ IsTerminal(status[c]) /\ ~Succeeded(c) /\ Code(c) = code

\* Nothing can be launched any more.
BudgetSpent == spec.budget /\ spawns[wf] >= MaxTotalSpawns

\* A retry comes too late: retryNode reports it like an exhausted budget.
TooLate == BudgetSpent \/ spec.gate \/ IsTerminal(status[wf])

Codes == {"agent_error", "cancelled"}

(***************************************************************************)
(* The facts about the graph and the sub-runs that an execution relies on, *)
(* as sets.  The first three depend on the spec alone; the others only     *)
(* grow.                                                                   *)
(***************************************************************************)
GoodCursors == {c \in CursorType : CursorOK(c)}
Passed == {p \in CursorType \X Graph : Behind(p[1], p[2])}
Ended ==
    {p \in CursorType \X Graph :
        /\ StepDone(p[1], p[2])
        /\ ListedForward => \A t \in Graph : StepDone(p[1], t) => t = p[2] \/ Before(t, p[2])}

ReachedSteps == {s \in Graph : Reached(s)}
DueRuns ==
    {c \in Children(wf) : /\ c[1] \in Graph /\ c[2] \in Launches(spec.steps[c[1]])
                          /\ c = SpawnRunID(c[1], c[2]) /\ Due(c[1], c[2])}
FinalSteps == {s \in Graph : spec.steps[s].kind = "loop" \/ NoStep \in LeadsTo(s)}
WonMaps ==
    {s \in Graph : /\ spec.steps[s].kind = "map" /\ spec.steps[s].any
                   /\ \E c \in Items(s) : Succeeded(c)}
LostSteps ==
    {p \in Graph \X Codes : /\ spec.steps[p[1]].kind = "plain"
                            /\ \E i \in Nat : Missed(p[1], i, p[2])}
ExhaustedSteps ==
    {p \in LostSteps : TooLate \/ Missed(p[1], spec.steps[p[1]].size, p[2])}

Cascading == {"cascade", "list", "cancelling"}
Launching == {"reserve", "spawn", "suspend"}

ResumeOK(r) ==
    /\ r.pc \in {"gate", "resume", "resuspend"} => r.cur \in GoodCursors
    /\ r.pc = "resuspend" => r.step = r.cur.current /\ r.step \in Graph

ExhaustedOK(r) ==
    r.pc = "exhausted" =>
        /\ <<r.cur.current, r.code>> \in ExhaustedSteps
        /\ <<r.cur, r.cur.current>> \in Passed

EnterOK(r) ==
    r.pc \in {"enter", "onward"} =>
        <<r.cur, r.step>> \in Passed /\ (r.step \in ReachedSteps \/ BudgetSpent)

LaunchOK(r) ==
    r.pc \in Launching =>
        /\ r.step \in Graph /\ r.cur.current = r.step /\ r.cur \in GoodCursors
        /\ r.i \in Launches(spec.steps[r.step])
        /\ spec.steps[r.step].kind # "map" => r.cur.nodes[r.step].n = r.i
        /\ SpawnRunID(r.step, r.i) \in DueRuns \/ (BudgetSpent /\ r.pc # "spawn")

RetryOK(r) ==
    r.retry =>
        /\ r.pc \in Launching \cup Cascading \cup {"fail"}
        /\ <<r.cur.current, r.code>> \in LostSteps
        /\ <<r.cur, r.cur.current>> \in Passed
        /\ r.pc \in Launching => r.i > 0
        /\ r.pc \in Cascading => BudgetSpent /\ r.then = "fail"
        /\ r.pc = "fail" => TooLate

CascadeOK(r) ==
    r.pc \in Cascading =>
        /\ r.then \in {"fail", "advance", "return"}
        /\ r.then = "advance" =>
              r.step \in WonMaps /\ r.cur.current = r.step /\ r.cur \in GoodCursors

CompleteOK(r) ==
    r.pc = "complete" => r.last \in FinalSteps /\ <<r.cur, r.last>> \in Ended

\* What is true of an execution wherever it stands.
Sound(r) ==
    /\ r \in ExecType
    /\ ResumeOK(r) /\ ExhaustedOK(r) /\ EnterOK(r) /\ LaunchOK(r)
    /\ RetryOK(r) /\ CascadeOK(r) /\ CompleteOK(r)

ExecsSound == exec \in [Execs -> ExecType] /\ \A e \in Execs : Sound(exec[e])

CursorSound == cursor \in CursorType /\ CursorOK(cursor)

\* Every sub-run has an id of the graph, and was due.
Launched == \A c \in Children(wf) : Created(c) => c \in DueRuns

\* Without a gate no request is an execution, and nothing asks for approval.
Ungated ==
    ~spec.gate =>
        /\ ~approved /\ status[wf] # "requires_action" /\ cursor.approval = "none"
        /\ \A e \in Execs : exec[e].cur.approval = "none" /\ exec[e].pc \notin {"gate", "resuming"}
        /\ \A e \in Inline : exec[e].pc \in {"idle"} \cup Cascading
                             /\ (exec[e].pc # "idle" => exec[e].then = "return")

WfRest ==
    /\ spec \in Specs /\ answer \in [Runs -> Answers \cup {"none"}]
    /\ approved \in BOOLEAN /\ lapsed \in BOOLEAN /\ faults \in 0..MaxFaults[spec]

WalkInv == TypeOK /\ ParkedConsistent /\ WfRest /\ CursorSound /\ ExecsSound /\ Launched /\ Ungated

-------------------------------------------------------------------------------
(* What the operators on cursors and executions return.                    *)

\* A step of the cursor moves to launched, with its count.
LEMMA LaunchedFields ==
    ASSUME NEW c \in CursorType, NEW s \in Steps, NEW n \in Nat
    PROVE  /\ launched(c, s, n) \in CursorType
           /\ launched(c, s, n).current = s
           /\ launched(c, s, n).approval = c.approval
           /\ launched(c, s, n).nodes[s] = [state |-> "launched", n |-> n, out |-> "none"]
           /\ \A t \in Steps \ {s} : launched(c, s, n).nodes[t] = c.nodes[t]
<1> DEFINE node == [state |-> "launched", n |-> n, out |-> "none"]
           g == [c EXCEPT !.current = s]
           h == [g EXCEPT !.nodes[s] = node]
<1>1. node \in NodeType
    BY DEF NodeType, Outs
<1>2. g \in CursorType /\ g.current = s /\ g.nodes = c.nodes /\ g.approval = c.approval
    BY DEF CursorType
<1>3. launched(c, s, n) = h
    BY DEF launched
<1> HIDE DEF node, g
<1>4. h \in CursorType /\ h.current = s /\ h.approval = c.approval
      /\ h.nodes = [c.nodes EXCEPT ![s] = node]
    BY <1>1, <1>2 DEF CursorType
<1>5. c.nodes \in [Steps -> NodeType]
    BY DEF CursorType
<1> HIDE DEF h
<1> QED BY <1>3, <1>4, <1>5 DEF node

\* The cursor once step s is done with this output, and none is in flight.
DoneCursor(c, s, out) == [markNodeDone(c, s, out) EXCEPT !.current = NoStep]

\* That step is done, and the others are as they were.
LEMMA DoneFields ==
    ASSUME NEW c \in CursorType, NEW s \in Steps, NEW out \in Outs
    PROVE  /\ DoneCursor(c, s, out) \in CursorType
           /\ DoneCursor(c, s, out).current = NoStep
           /\ DoneCursor(c, s, out).approval = c.approval
           /\ DoneCursor(c, s, out).nodes[s].state = "done"
           /\ \A t \in Steps \ {s} : DoneCursor(c, s, out).nodes[t] = c.nodes[t]
<1> DEFINE a == [c EXCEPT !.nodes[s].state = "done"]
           b == [a EXCEPT !.nodes[s].out = out]
           h == [b EXCEPT !.current = NoStep]
<1>1. c.nodes \in [Steps -> NodeType] /\ c.nodes[s] \in NodeType
    BY DEF CursorType
<1>2. a \in CursorType /\ a.approval = c.approval
      /\ a.nodes = [c.nodes EXCEPT ![s].state = "done"]
    BY <1>1 DEF CursorType, NodeType
<1>3. a.nodes[s] \in NodeType /\ a.nodes[s].state = "done"
    BY <1>1, <1>2 DEF NodeType
<1>4. \A t \in Steps \ {s} : a.nodes[t] = c.nodes[t]
    BY <1>1, <1>2
<1>5. DoneCursor(c, s, out) = h
    BY DEF DoneCursor, markNodeDone
<1> HIDE DEF a
<1>6. a.nodes \in [Steps -> NodeType]
    BY <1>2 DEF CursorType
<1>7. b \in CursorType /\ b.approval = c.approval
      /\ b.nodes = [a.nodes EXCEPT ![s].out = out]
    BY <1>2, <1>3, <1>6 DEF CursorType, NodeType
<1>8. b.nodes[s].state = "done" /\ \A t \in Steps \ {s} : b.nodes[t] = c.nodes[t]
    BY <1>3, <1>4, <1>6, <1>7 DEF NodeType
<1> HIDE DEF b
<1>9. h \in CursorType /\ h.current = NoStep /\ h.approval = c.approval /\ h.nodes = b.nodes
    BY <1>7 DEF CursorType
<1> HIDE DEF h
<1> QED BY <1>5, <1>8, <1>9

\* The fields that the steps of the walk leave alone.
Keeps(q, r) ==
    /\ q.todo = r.todo /\ q.then = r.then /\ q.code = r.code
    /\ q.retry = r.retry /\ q.stopped = r.stopped

\* A listed step is a step, of its type, whose edges lead to listed steps.
LEMMA GraphFacts ==
    ASSUME spec \in Specs, NEW s \in Graph
    PROVE  /\ s \in Steps /\ s # NoStep /\ spec.steps[s] \in StepType
           /\ Edges(spec.steps[s]) \subseteq Graph \cup {NoStep}
           /\ spec.steps[s].kind = "loop" => spec.steps[s].size > 0
           /\ spec.steps[s].kind = "plain" => spec.steps[s].bad \subseteq {0}
           /\ Launches(spec.steps[s]) \subseteq Nat
           /\ \A i \in Launches(spec.steps[s]) : SpawnRunID(s, i) \in Children(wf)
<1>1. spec.order \in Seq(Steps) /\ Graph = Range(spec.order)
    BY SpecAssumption DEF Graph
<1>2. s \in Steps
    BY <1>1 DEF Range
<1>3. spec.steps[s] \in StepType
    BY SpecAssumption DEF Graph
<1>4. Launches(spec.steps[s]) \subseteq Nat
    BY <1>3 DEF Launches, StepType
<1>5. \A i \in Launches(spec.steps[s]) : SpawnRunID(s, i) \in Runs \ {wf}
    BY WfAssumption DEF Graph
<1>6. Runs \ {wf} \subseteq Children(wf)
    BY WfAssumption DEF Children
<1> QED BY <1>2, <1>3, <1>4, <1>5, <1>6, SpecAssumption DEF Graph

\* The successor of a step is one of its edges, or none.
LEMMA SuccessorListed ==
    ASSUME spec \in Specs, NEW s \in Graph, NEW out
    PROVE  /\ nodeSuccessor(s, out) \in Edges(spec.steps[s]) \cup {NoStep}
           /\ nodeSuccessor(s, out) \in Graph \cup {NoStep}
<1>1. nodeSuccessor(s, out) \in {spec.steps[s].when, spec.steps[s].next, NoStep}
    BY DEF nodeSuccessor
<1> QED BY <1>1, GraphFacts DEF Edges

\* A handler is one of the edges, or none.
LEMMA HandlerListed ==
    ASSUME spec \in Specs, NEW s \in Graph, NEW code \in {"agent_error", "cancelled"}
    PROVE  /\ routeCatch(s, code) \in Edges(spec.steps[s])
           /\ routeCatch(s, code) \in Graph \cup {NoStep}
<1>1. spec.steps[s].catch \in [{"agent_error", "cancelled"} -> Steps \cup {NoStep}]
    BY GraphFacts DEF StepType
<1>2. routeCatch(s, code) \in Range(spec.steps[s].catch)
    BY <1>1 DEF routeCatch, Range
<1> QED BY <1>2, GraphFacts DEF Edges

\* The launch of sub-run n of step s.
LEMMA LaunchFields ==
    ASSUME NEW r \in ExecType, NEW s \in Steps, NEW n \in Nat
    PROVE  /\ launch(r, s, n) \in ExecType
           /\ launch(r, s, n).pc = "reserve" /\ launch(r, s, n).cur = launched(r.cur, s, n)
           /\ launch(r, s, n).step = s /\ launch(r, s, n).i = n
           /\ launch(r, s, n).last = r.last /\ Keeps(launch(r, s, n), r)
<1> DEFINE c == launched(r.cur, s, n)
           g == [r EXCEPT !.cur = c]
           h == [g EXCEPT !.step = s]
           k == [h EXCEPT !.i = n]
           q == [k EXCEPT !.pc = "reserve"]
<1>1. c \in CursorType
    BY LaunchedFields DEF ExecType
<1>2. launch(r, s, n) = q
    BY DEF launch
<1> HIDE DEF c
<1>3. g \in ExecType /\ g.cur = c /\ g.last = r.last /\ Keeps(g, r)
    BY <1>1 DEF ExecType, Keeps
<1> HIDE DEF g
<1>4. h \in ExecType /\ h.cur = c /\ h.step = s /\ h.last = r.last /\ Keeps(h, r)
    BY <1>3 DEF ExecType, Keeps
<1> HIDE DEF h
<1>5. k \in ExecType /\ k.cur = c /\ k.step = s /\ k.i = n /\ k.last = r.last /\ Keeps(k, r)
    BY <1>4 DEF ExecType, Keeps
<1> HIDE DEF k
<1>6. q \in ExecType /\ q.pc = "reserve" /\ q.cur = c /\ q.step = s /\ q.i = n
      /\ q.last = r.last /\ Keeps(q, r)
    BY <1>5 DEF ExecType, Keeps, Pcs
<1> HIDE DEF q
<1> QED BY <1>2, <1>6 DEF c

\* The step s is done: on to its successor, to the end, or to the failure of a
\* predicate that does not evaluate.
LEMMA AdvanceFields ==
    ASSUME spec \in Specs, NEW r \in ExecType, NEW s \in Graph, NEW out \in Outs,
           NEW onward \in {"enter", "onward"}
    PROVE  LET q == advanceFrom(r, s, out, onward)
               stop == spec.steps[s].kind = "plain" /\ evalFails(s, out)
           IN  /\ q \in ExecType
               /\ q.cur = DoneCursor(r.cur, s, out) /\ q.step = nodeSuccessor(s, out)
               /\ q.last = s /\ Keeps(q, r)
               /\ \/ q.pc = "fail" /\ stop
                  \/ q.pc = "complete" /\ ~stop /\ nodeSuccessor(s, out) = NoStep
                  \/ q.pc = onward /\ ~stop /\ nodeSuccessor(s, out) # NoStep
<1> DEFINE c == DoneCursor(r.cur, s, out)
           succ == nodeSuccessor(s, out)
           stop == spec.steps[s].kind = "plain" /\ evalFails(s, out)
           pc == IF stop THEN "fail" ELSE IF succ = NoStep THEN "complete" ELSE onward
           g == [r EXCEPT !.cur = c]
           h == [g EXCEPT !.step = succ]
           k == [h EXCEPT !.last = s]
           q == [k EXCEPT !.pc = pc]
<1>0. s \in Steps /\ succ \in Steps \cup {NoStep}
    BY SuccessorListed, GraphFacts
<1>1. c \in CursorType
    BY <1>0, DoneFields DEF ExecType
<1>2. advanceFrom(r, s, out, onward) = q
    BY DEF advanceFrom, DoneCursor
<1>p. pc \in Pcs
    BY DEF Pcs
<1> HIDE DEF c, succ, stop
<1>3. g \in ExecType /\ g.cur = c /\ Keeps(g, r)
    BY <1>1 DEF ExecType, Keeps
<1> HIDE DEF g
<1>4. h \in ExecType /\ h.cur = c /\ h.step = succ /\ Keeps(h, r)
    BY <1>0, <1>3 DEF ExecType, Keeps
<1> HIDE DEF h
<1>5. k \in ExecType /\ k.cur = c /\ k.step = succ /\ k.last = s /\ Keeps(k, r)
    BY <1>0, <1>4 DEF ExecType, Keeps
<1> HIDE DEF k, pc
<1>6. q \in ExecType /\ q.pc = pc /\ q.cur = c /\ q.step = succ /\ q.last = s /\ Keeps(q, r)
    BY <1>5, <1>p DEF ExecType, Keeps
<1> HIDE DEF q
<1>7. \/ pc = "fail" /\ stop
      \/ pc = "complete" /\ ~stop /\ succ = NoStep
      \/ pc = onward /\ ~stop /\ succ # NoStep
    BY DEF pc
<1> QED BY <1>2, <1>6, <1>7 DEF c, succ, stop

-------------------------------------------------------------------------------
(* What has been decided stays decided.                                    *)

\* The spec is pinned, a budget that is spent stays spent, and the outcome
\* and the answer of a run that has ended do not change.
Frozen ==
    /\ spec' = spec
    /\ BudgetSpent => BudgetSpent'
    /\ \A x \in Runs : IsTerminal(status[x]) => status'[x] = status[x] /\ answer'[x] = answer[x]

\* The sub-runs of a map are among the children of the workflow.
LEMMA ItemsAreChildren ==
    ASSUME spec \in Specs, NEW s \in Graph, spec.steps[s].kind # "plain"
    PROVE  /\ Items(s) \subseteq Children(wf)
           /\ Items(s) = {SpawnRunID(s, i) : i \in Launches(spec.steps[s])}
<1>1. Items(s) = {SpawnRunID(s, i) : i \in Launches(spec.steps[s])}
    BY DEF Items, Launches
<1> QED BY <1>1, GraphFacts

\* Where the sub-runs of a step lead, they still lead later on.
LEMMA LeadsKept ==
    ASSUME spec \in Specs, Frozen, NEW p \in Graph, NEW t, t \in LeadsTo(p)
    PROVE  t \in LeadsTo(p)'
<1> DEFINE st == spec.steps[p]
<1>0. st \in StepType /\ (st.kind = "plain" => \A i \in 0..st.size : SpawnRunID(p, i) \in Runs)
    BY GraphFacts DEF Launches, Children
<1>s. spec' = spec
    BY DEF Frozen
<1>f. /\ \A x \in Runs : Succeeded(x) => status'[x] = "succeeded" /\ answer'[x] = answer[x]
      /\ \A x \in Runs : IsTerminal(status[x]) => status'[x] = status[x]
      /\ IsTerminal(status[wf]) => IsTerminal(status'[wf])
    BY WfAssumption DEF Frozen, Succeeded, IsTerminal, Terminal
<1>1. CASE st.kind = "loop"
    BY <1>1 DEF LeadsTo
<1>2. CASE st.kind = "map"
    <2>1. Items(p) \subseteq Runs
        BY <1>2, ItemsAreChildren DEF Children
    <2>2. /\ t = st.next
          /\ \/ st.size = 0 \/ (\A c \in Items(p) : Succeeded(c))
             \/ (st.any /\ \E c \in Items(p) : Succeeded(c))
        BY <1>2 DEF LeadsTo
    <2>3. Items(p)' = Items(p)
        BY <1>s DEF Items
    <2>4. \/ st.size = 0 \/ (\A c \in Items(p) : Succeeded(c)')
          \/ (st.any /\ \E c \in Items(p) : Succeeded(c)')
        BY <2>1, <2>2, <1>f DEF Succeeded
    <2>5. LeadsTo(p)' = {st.next}
        BY <1>2, <1>s, <2>3, <2>4 DEF LeadsTo
    <2> QED BY <2>2, <2>5
<1>3. CASE st.kind = "plain"
    <2>1. PICK i \in 0..st.size :
              LET c == SpawnRunID(p, i)
              IN  \/ Succeeded(c) /\ ~evalFails(p, answer[c]) /\ t = nodeSuccessor(p, answer[c])
                  \/ /\ ~Succeeded(c) /\ IsTerminal(status[c]) /\ t = st.catch[Code(c)]
                     /\ i = st.size \/ IsTerminal(status[wf]) \/ spec.gate
        BY <1>3 DEF LeadsTo
    <2> DEFINE c == SpawnRunID(p, i)
    <2>2. c \in Runs
        BY <1>0, <1>3
    <2>3. CASE Succeeded(c) /\ ~evalFails(p, answer[c]) /\ t = nodeSuccessor(p, answer[c])
        <3>1. status'[c] = "succeeded" /\ answer'[c] = answer[c]
            BY <2>2, <2>3, <1>f
        <3>2. ~evalFails(p, answer[c])' /\ nodeSuccessor(p, answer[c])' = t
            BY <2>3, <3>1, <1>s DEF evalFails, nodeSuccessor
        <3> HIDE DEF c
        <3>3. Succeeded(c)'
            BY <3>1 DEF Succeeded, c
        <3> QED BY <1>3, <1>s, <3>2, <3>3 DEF LeadsTo, c
    <2>4. CASE /\ ~Succeeded(c) /\ IsTerminal(status[c]) /\ t = st.catch[Code(c)]
               /\ i = st.size \/ IsTerminal(status[wf]) \/ spec.gate
        <3>1. status'[c] = status[c]
            BY <2>2, <2>4, <1>f
        <3>2. ~Succeeded(c)' /\ IsTerminal(status'[c]) /\ Code(c)' = Code(c)
            BY <2>4, <3>1 DEF Succeeded, Code, c
        <3>3. i = st.size \/ IsTerminal(status'[wf]) \/ spec'.gate
            BY <2>4, <1>s, <1>f
        <3> HIDE DEF c
        <3> QED BY <1>3, <1>s, <2>4, <3>2, <3>3 DEF LeadsTo, c
    <2> QED BY <2>1, <2>3, <2>4
<1> QED BY <1>0, <1>1, <1>2, <1>3 DEF StepType

\* The sets of facts keep what they have.
LEMMA FactsKept ==
    ASSUME spec \in Specs, Frozen
    PROVE  /\ Graph' = Graph /\ GoodCursors' = GoodCursors
           /\ Passed' = Passed /\ Ended' = Ended
           /\ ReachedSteps \subseteq ReachedSteps' /\ DueRuns \subseteq DueRuns'
           /\ FinalSteps \subseteq FinalSteps' /\ WonMaps \subseteq WonMaps'
           /\ LostSteps \subseteq LostSteps' /\ ExhaustedSteps \subseteq ExhaustedSteps'
           /\ BudgetSpent => BudgetSpent'
           /\ TooLate => TooLate'
<1>s. spec' = spec
    BY DEF Frozen
<1>f. /\ \A x \in Runs : Succeeded(x) => status'[x] = "succeeded" /\ answer'[x] = answer[x]
      /\ \A x \in Runs : IsTerminal(status[x]) => status'[x] = status[x]
      /\ IsTerminal(status[wf]) => IsTerminal(status'[wf])
    BY WfAssumption DEF Frozen, Succeeded, IsTerminal, Terminal
<1>1. Graph' = Graph
    BY <1>s DEF Graph
<1>2. GoodCursors' = GoodCursors
    BY <1>s DEF GoodCursors, CursorOK, Counted, Behind, Before, StepDone, ListedForward,
                Graph, CursorType, fresh
<1>3. Passed' = Passed
    BY <1>s DEF Passed, Behind, Before, StepDone, ListedForward, Graph, CursorType
<1>e. Ended' = Ended
    BY <1>s DEF Ended, Before, StepDone, ListedForward, Graph, CursorType
<1>4. BudgetSpent => BudgetSpent'
    BY DEF Frozen
<1>5. TooLate => TooLate'
    BY <1>s, <1>f, <1>4 DEF TooLate
<1>6. ReachedSteps \subseteq ReachedSteps'
    <2> SUFFICES ASSUME NEW s \in Graph, Reached(s) PROVE Reached(s)'
        BY <1>1 DEF ReachedSteps
    <2>1. CASE s = Head(spec.order)
        BY <2>1, <1>s DEF Reached
    <2>2. ASSUME NEW p \in Graph, s \in LeadsTo(p) PROVE Reached(s)'
        BY <2>2, LeadsKept, <1>1 DEF Reached, Graph
    <2> QED BY <2>1, <2>2 DEF Reached, Graph
<1>7. FinalSteps \subseteq FinalSteps'
    BY LeadsKept, <1>s, <1>1 DEF FinalSteps
<1>8. WonMaps \subseteq WonMaps'
    <2> SUFFICES ASSUME NEW s \in WonMaps PROVE s \in WonMaps'
        OBVIOUS
    <2>1. s \in Graph /\ spec.steps[s].kind = "map" /\ spec.steps[s].any
        BY DEF WonMaps
    <2>2. PICK c \in Items(s) : Succeeded(c)
        BY DEF WonMaps
    <2>3. c \in Runs
        BY <2>1, ItemsAreChildren DEF Children
    <2>4. Succeeded(c)' /\ c \in Items(s)'
        BY <2>2, <2>3, <1>f, <1>s DEF Succeeded, Items
    <2> QED BY <2>1, <2>4, <1>1, <1>s DEF WonMaps
<1>m. ASSUME NEW s \in Graph, NEW i \in Nat, NEW code, spec.steps[s].kind = "plain",
             Missed(s, i, code)
      PROVE  Missed(s, i, code)'
    <2>1. SpawnRunID(s, i) \in Runs
        BY <1>m, GraphFacts DEF Missed, Launches, Children
    <2> QED BY <2>1, <1>m, <1>s, <1>f DEF Missed, Succeeded, Code
<1>9. LostSteps \subseteq LostSteps'
    BY <1>m, <1>1, <1>s DEF LostSteps
<1>10. ExhaustedSteps \subseteq ExhaustedSteps'
    <2> SUFFICES ASSUME NEW p \in ExhaustedSteps PROVE p \in ExhaustedSteps'
        OBVIOUS
    <2>1. p \in LostSteps /\ p \in LostSteps' /\ p[1] \in Graph /\ spec.steps[p[1]].kind = "plain"
        BY <1>9 DEF ExhaustedSteps, LostSteps
    <2>2. CASE TooLate
        BY <2>1, <2>2, <1>5 DEF ExhaustedSteps
    <2>3. CASE Missed(p[1], spec.steps[p[1]].size, p[2])
        <3>1. spec.steps[p[1]].size \in Nat
            BY <2>1, GraphFacts DEF StepType
        <3>2. Missed(p[1], spec.steps[p[1]].size, p[2])'
            <4> DEFINE a == p[1]
                       n == spec.steps[p[1]].size
                       k == p[2]
            <4>1. \A m : m = n => Missed(a, m, k)'
                BY <2>1, <2>3, <3>1, <1>m
            <4> QED BY <4>1, <1>s DEF Missed, Succeeded, Code
        <3> QED BY <2>1, <3>2 DEF ExhaustedSteps
    <2> QED BY <2>2, <2>3 DEF ExhaustedSteps
<1>11. DueRuns \subseteq DueRuns'
    <2> SUFFICES ASSUME NEW c \in DueRuns PROVE c \in DueRuns'
        OBVIOUS
    <2> DEFINE s == c[1]
               i == c[2]
               st == spec.steps[s]
               before == SpawnRunID(s, i - 1)
    <2>1. s \in Graph /\ i \in Launches(st) /\ c = SpawnRunID(s, i) /\ Due(s, i)
          /\ c \in Children(wf)
        BY DEF DueRuns
    <2>2. st \in StepType /\ i \in Nat
        BY <2>1, GraphFacts
    <2>3. Reached(s) => Reached(s)'
        <3>1. s \in ReachedSteps => s \in ReachedSteps'
            BY <1>6
        <3> HIDE DEF s
        <3> QED BY <3>1, <2>1 DEF ReachedSteps
    <2>4. i # 0 => i - 1 \in Launches(st)
        BY <2>1, <2>2 DEF Launches, StepType
    <2>5. i # 0 => before \in Runs
        BY <2>1, <2>4, GraphFacts DEF Children
    <2>6. i # 0 /\ IsTerminal(status[before]) =>
              status'[before] = status[before] /\ answer'[before] = answer[before]
        BY <2>5 DEF Frozen
    <2>7. IsTerminal("succeeded")
        BY DEF IsTerminal, Terminal
    <2>8. Due(s, i)'
        <3>1. CASE Reached(s) /\ (i = 0 \/ st.kind = "map")
            <4>1. Reached(s)'
                BY <3>1, <2>3
            <4>2. (st.kind = "map" => i < st.size) /\ (st.kind # "map" => i = 0)
                BY <2>1, <3>1, <2>2 DEF Launches, StepType
            <4> QED BY <4>1, <4>2, <1>s DEF Due
        <3>2. CASE /\ st.kind = "plain" /\ i \in 1..st.size
                   /\ IsTerminal(status[before]) /\ ~Succeeded(before)
            <4>1. IsTerminal(status'[before]) /\ status'[before] # "succeeded"
                BY <3>2, <2>6 DEF Succeeded
            <4> QED BY <4>1, <3>2, <1>s DEF Due, Succeeded
        <3>3. CASE /\ st.kind = "loop" /\ i \in 1..st.size - 1
                   /\ Succeeded(before) /\ answer[before] = "no"
            <4>1. status'[before] = "succeeded" /\ answer'[before] = "no"
                BY <3>3, <2>6, <2>7 DEF Succeeded
            <4> QED BY <4>1, <3>3, <1>s DEF Due, Succeeded
        <3> QED BY <3>1, <3>2, <3>3, <2>1 DEF Due
    <2> QED BY <2>1, <2>8, <1>1, <1>s DEF DueRuns
<1> QED BY <1>1, <1>2, <1>3, <1>e, <1>4, <1>5, <1>6, <1>7, <1>8, <1>9, <1>10, <1>11

\* Two records that differ in what the cascade holds and in the context.
Alike(q, r) ==
    /\ q.pc = r.pc /\ q.cur = r.cur /\ q.step = r.step /\ q.i = r.i /\ q.last = r.last
    /\ q.code = r.code /\ q.then = r.then /\ q.retry = r.retry

\* So an execution that does not move stays sound.
LEMMA SoundAlike ==
    ASSUME spec \in Specs, Frozen, NEW e, exec'[e] \in ExecType, Alike(exec'[e], exec[e]),
           Sound(exec[e])
    PROVE  Sound(exec[e])'
<1>s. spec' = spec
    BY DEF Frozen
<1> USE FactsKept DEF Alike
<1>2. ResumeOK(exec[e])'
    BY DEF Sound, ResumeOK
<1>3. ExhaustedOK(exec[e])'
    BY DEF Sound, ExhaustedOK
<1>4. EnterOK(exec[e])'
    BY DEF Sound, EnterOK
<1>5. LaunchOK(exec[e])'
    <2>1. CASE exec[e].pc \notin Launching
        BY <2>1 DEF LaunchOK, Launching
    <2>2. CASE exec[e].pc \in Launching
        <3>1. LaunchOK(exec[e])
            BY DEF Sound
        <3>2. <<exec[e].step, exec[e].i>> \in DueRuns' \/ (BudgetSpent' /\ exec'[e].pc # "spawn")
            BY <2>2, <3>1 DEF LaunchOK, SpawnRunID
        <3>3. exec[e].step \in Graph' /\ exec[e].cur \in GoodCursors'
            BY <2>2, <3>1 DEF LaunchOK
        <3>4. Launches(spec.steps[exec[e].step])' = Launches(spec.steps[exec[e].step])
            BY <1>s
        <3> QED BY <1>s, <2>2, <3>1, <3>2, <3>3, <3>4 DEF LaunchOK, SpawnRunID
    <2> QED BY <2>1, <2>2
<1>6. RetryOK(exec[e])'
    BY DEF Sound, RetryOK
<1>7. CascadeOK(exec[e])'
    BY DEF Sound, CascadeOK
<1>8. CompleteOK(exec[e])'
    BY DEF Sound, CompleteOK
<1> QED BY <1>2, <1>3, <1>4, <1>5, <1>6, <1>7, <1>8 DEF Sound

\* In particular one whose record is the same.
LEMMA SoundKept ==
    ASSUME spec \in Specs, Frozen, NEW e, exec'[e] = exec[e], Sound(exec[e])
    PROVE  Sound(exec[e])'
BY SoundAlike DEF Alike, Sound

-------------------------------------------------------------------------------
(* The executor is a client of the store.                                  *)

\* The sub-runs of the step in flight are children of the workflow.
LEMMA ChildrenOfAreChildren ==
    ASSUME spec \in Specs, NEW c \in GoodCursors, c.current # NoStep
    PROVE  /\ ChildrenOf(c, c.current) \subseteq Children(wf)
           /\ ModeOf(c.current) \in WaitMode
           /\ c.current \in Graph
<1> DEFINE s == c.current
           st == spec.steps[s]
<1>1. s \in Graph /\ Counted(c, s) /\ c \in CursorType
    BY DEF GoodCursors, CursorOK
<1>2. st \in StepType /\ \A i \in Launches(st) : SpawnRunID(s, i) \in Children(wf)
    BY <1>1, GraphFacts
<1>3. CASE st.kind = "map"
    <2>1. c.nodes[s].n = st.size
        BY <1>1, <1>3 DEF Counted
    <2>2. \A i \in 0..c.nodes[s].n - 1 : i \in Launches(st)
        BY <2>1, <1>3 DEF Launches
    <2> QED BY <1>1, <1>2, <1>3, <2>2 DEF ChildrenOf, ModeOf, mapWaitMode, WaitMode
<1>4. CASE st.kind # "map"
    <2>1. c.nodes[s].n \in Launches(st)
        BY <1>1, <1>4 DEF Counted
    <2> QED BY <1>1, <1>2, <1>4, <2>1 DEF ChildrenOf, ModeOf, WaitMode
<1> QED BY <1>3, <1>4

\* Every step of an execution is an operation of the store, or leaves it alone.
LEMMA AdvanceUsesStore ==
    ASSUME WalkInv, NEW e \in Execs, Advance(e)
    PROVE  Next \/ UNCHANGED vars
<1>0. /\ spec \in Specs /\ exec[e] \in ExecType /\ Sound(exec[e]) /\ wf \in Runs
      /\ Children(wf) \subseteq Runs
    BY WfAssumption DEF WalkInv, ExecsSound, WfRest, Children
<1>u. ASSUME NEW r \in Runs, NEW to \in UpdateTargets, Update(r, to) PROVE Next
    BY <1>u DEF Next, RunStep
<1>1. CASE opening(e)
    BY <1>0, <1>1, <1>u DEF opening, UpdateTargets
<1>2. CASE gatePlanApproval(e)
    BY <1>0, <1>2, <1>u DEF gatePlanApproval, UpdateTargets
<1>3. CASE defensiveResuspend(e)
    <2>1. /\ exec[e].cur \in GoodCursors /\ exec[e].step = exec[e].cur.current
          /\ exec[e].step \in Graph
        BY <1>0, <1>3 DEF defensiveResuspend, At, Sound, ResumeOK
    <2>2. exec[e].step # NoStep
        BY <1>0, <2>1, GraphFacts
    <2>3. /\ ChildrenOf(exec[e].cur, exec[e].step) \in SUBSET Children(wf)
          /\ ModeOf(exec[e].step) \in WaitMode
        BY <1>0, <2>1, <2>2, ChildrenOfAreChildren
    <2> QED BY <1>0, <1>3, <2>3 DEF defensiveResuspend, Next, RunStep
<1>4. CASE reserve(e)
    BY <1>0, <1>4 DEF reserve, reserveNodeSpawn, Next, RunStep
<1>5. CASE spawnWorkflowNode(e)
    <2>1. SpawnRunID(exec[e].step, exec[e].i) \in Runs
        BY <1>0, <1>5, GraphFacts DEF spawnWorkflowNode, At, Sound, LaunchOK, Launching
    <2> QED BY <1>5, <2>1 DEF spawnWorkflowNode, Next, RunStep
<1>6. CASE suspendOnChildren(e)
    <2>1. /\ exec[e].cur \in GoodCursors /\ exec[e].step = exec[e].cur.current
          /\ exec[e].step \in Graph
        BY <1>0, <1>6 DEF suspendOnChildren, At, Sound, LaunchOK, Launching
    <2>2. exec[e].step # NoStep
        BY <1>0, <2>1, GraphFacts
    <2>3. /\ ChildrenOf(exec[e].cur, exec[e].step) \in SUBSET Children(wf)
          /\ ModeOf(exec[e].step) \in WaitMode
        BY <1>0, <2>1, <2>2, ChildrenOfAreChildren
    <2> QED BY <1>0, <1>6, <2>3 DEF suspendOnChildren, Next, RunStep
<1>7. CASE failWorkflow(e)
    BY <1>0, <1>7, <1>u DEF failWorkflow, UpdateTargets
<1>8. CASE completeWorkflow(e)
    BY <1>0, <1>8, <1>u DEF completeWorkflow, UpdateTargets
<1>9. CASE cascadeCancels(e)
    <2>1. exec[e].todo \subseteq Runs
        BY <1>0 DEF ExecType
    <2> QED BY <1>9, <2>1, <1>u DEF cascadeCancels, UpdateTargets
<1> QED
    BY <1>1, <1>2, <1>3, <1>4, <1>5, <1>6, <1>7, <1>8, <1>9
       DEF Advance, load, resumeCurrentNode, exhausted, enterNode, cascadeStarts, cascadeLists

\* So is every other step of the system.
LEMMA UsesStore ==
    ASSUME WalkInv, [WfNext]_wfvars
    PROVE  [Next]_vars
<1>0. wf \in Runs /\ Children(wf) \subseteq Runs /\ Pool \subseteq Workers
    BY WfAssumption DEF Children, Pool
<1>u. ASSUME NEW r \in Runs, NEW to \in UpdateTargets, Update(r, to) PROVE Next
    BY <1>u DEF Next, RunStep
<1>1. ASSUME NEW e \in Execs, Advance(e) PROVE [Next]_vars
    BY <1>1, AdvanceUsesStore
<1>2. ASSUME NEW e \in Execs, Crash(e) PROVE UNCHANGED vars
    BY <1>2 DEF Crash
<1>3. ASSUME NEW e \in Inline, Request(e) PROVE [Next]_vars
    BY <1>0, <1>3, <1>u
       DEF Request, handleCancelRun, resumeChecks, resumePlanApproval, denyPlan, UpdateTargets
<1>4. ASSUME NEW w \in Pool, claim(w) \/ deadLetterPoison(w) \/ heartbeatRenews(w) \/ heartbeatStops(w)
      PROVE  [Next]_vars
    BY <1>0, <1>4, <1>u
       DEF claim, deadLetterPoison, heartbeatRenews, heartbeatStops, Next, WorkerStep, UpdateTargets
<1>5. ASSUME NEW c \in Children(wf), SubRun(c) PROVE Next
    <2>1. ASSUME NEW to \in {"succeeded", "failed"}, NEW a, childEnds(c, to, a) PROVE Next
        BY <2>1, <1>0 DEF childEnds, Next, RunStep, UpdateTargets
    <2>2. ASSUME childStarts(c) PROVE Next
        BY <2>2, <1>0, WfAssumption DEF childStarts, Next, WorkerStep
    <2>3. ASSUME cancelChild(c) PROVE Next
        BY <2>3, <1>0, <1>u DEF cancelChild, UpdateTargets
    <2> QED BY <1>5, <2>1, <2>2, <2>3 DEF SubRun
<1>6. ASSUME createWorkflow \/ sweepWaiting \/ LeaseRunsOut \/ LeaseLapses PROVE Next
    BY <1>0, <1>6 DEF createWorkflow, sweepWaiting, LeaseRunsOut, LeaseLapses, Next, RunStep
<1>7. CASE UNCHANGED wfvars
    BY <1>7 DEF wfvars, vars
<1> QED BY <1>1, <1>2, <1>3, <1>4, <1>5, <1>6, <1>7 DEF WfNext

\* A reservation only adds to the counter of its tree.
LEMMA BudgetKept ==
    ASSUME TypeOK, [Next]_vars, spec' = spec, BudgetSpent
    PROVE  BudgetSpent'
<1> SUFFICES spawns'[wf] >= spawns[wf]
    BY WfAssumption, BoundAssumption DEF BudgetSpent, TypeOK
<1>0. wf \in Runs /\ spawns \in [Runs -> 0..MaxTotalSpawns]
    BY WfAssumption DEF TypeOK
<1>1. ASSUME NEW r \in Runs, ReserveSpawn(r) PROVE spawns'[wf] >= spawns[wf]
    BY <1>0, <1>1, BoundAssumption DEF ReserveSpawn
<1>2. ASSUME UNCHANGED spawns PROVE spawns'[wf] >= spawns[wf]
    BY <1>0, <1>2, BoundAssumption
<1> QED BY <1>1, <1>2
       DEF Next, RunStep, WorkerStep, Create, Update, CompleteAndWake, Suspend,
           SuspendOnDelegate, SweepWaiting, ExpireLease, ClaimQueued, Heartbeat, ReleaseLease,
           ClaimReclaimable, vars

\* The spec is pinned, and only the end of a sub-run gives it an answer.
LEMMA AnswersKept ==
    ASSUME WalkInv, [WfNext]_wfvars
    PROVE  /\ spec' = spec
           /\ \A x \in Runs : IsTerminal(status[x]) => answer'[x] = answer[x]
<1> DEFINE Goal == /\ spec' = spec
                   /\ \A x \in Runs : IsTerminal(status[x]) => answer'[x] = answer[x]
<1>0. answer \in [Runs -> Answers \cup {"none"}] /\ Children(wf) \subseteq Runs
    BY DEF WalkInv, WfRest, Children
<1>1. ASSUME NEW e \in Execs, Advance(e) \/ Crash(e) PROVE Goal
    BY <1>1 DEF Advance, Crash, opening, load, gatePlanApproval, resumeCurrentNode,
       defensiveResuspend, exhausted, enterNode, reserve, spawnWorkflowNode, suspendOnChildren,
       failWorkflow, completeWorkflow, cascadeStarts, cascadeLists, cascadeCancels
<1>2. ASSUME NEW e \in Inline, Request(e) PROVE Goal
    BY <1>2 DEF Request, handleCancelRun, resumeChecks, resumePlanApproval, denyPlan
<1>3. ASSUME NEW w \in Pool, claim(w) \/ deadLetterPoison(w) \/ heartbeatRenews(w) \/ heartbeatStops(w) PROVE Goal
    BY <1>3 DEF claim, deadLetterPoison, heartbeatRenews, heartbeatStops, evars
<1>4. ASSUME NEW c \in Children(wf), NEW to, NEW a, childEnds(c, to, a) PROVE Goal
    <2>1. spec' = spec
        BY <1>4 DEF childEnds
    <2>2. \A x \in Runs : x # c => answer'[x] = answer[x]
        BY <1>0, <1>4 DEF childEnds
    <2>3. ~IsTerminal(status[c])
        BY <1>4 DEF childEnds, IsTerminal, Terminal
    <2> QED BY <2>1, <2>2, <2>3
<1>5. ASSUME NEW c \in Children(wf), SubRun(c) PROVE Goal
    BY <1>4, <1>5 DEF SubRun, childStarts, cancelChild, evars
<1>6. ASSUME createWorkflow \/ sweepWaiting \/ LeaseRunsOut \/ LeaseLapses PROVE Goal
    BY <1>6 DEF createWorkflow, sweepWaiting, LeaseRunsOut, LeaseLapses, evars
<1>7. CASE UNCHANGED wfvars
    BY <1>7 DEF wfvars
<1> QED BY <1>1, <1>2, <1>3, <1>5, <1>6, <1>7 DEF WfNext

\* Every step keeps what has been decided.
LEMMA FrozenStep ==
    ASSUME WalkInv, [WfNext]_wfvars
    PROVE  Frozen
<1>1. TypeOK /\ [Next]_vars
    BY UsesStore DEF WalkInv
<1> QED BY <1>1, AnswersKept, BudgetKept, TerminalFrozen DEF Frozen

-------------------------------------------------------------------------------
(* The steps of an execution keep it sound.                                *)

\* The others do not move.
Others(e) == \A f \in Execs \ {e} : exec'[f] = exec[f]

\* An execution that is idle, or starts, is sound.
LEMMA IdleFields ==
    /\ Idle \in ExecType /\ Idle.pc = "idle" /\ Idle.retry = FALSE
    /\ Idle.cur.approval = "none" /\ Idle.todo = {}
<1>1. Pending \in NodeType
    BY DEF Pending, NodeType, Outs
<1>2. newCursor("none") \in CursorType /\ newCursor("none").approval = "none"
    BY <1>1 DEF newCursor, CursorType
<1> HIDE DEF newCursor
<1> QED BY <1>2 DEF Idle, ExecType, Pcs

\* A record put in the place of an execution's.
LEMMA BecomeForm ==
    ASSUME exec \in [Execs -> ExecType], NEW e \in Execs, NEW q \in ExecType, Become(e, q)
    PROVE  exec' \in [Execs -> ExecType] /\ exec'[e] = q /\ Others(e)
BY DEF Become, Others

\* The record of e but for its pc.
SameBut(e) ==
    /\ exec'[e].cur = exec[e].cur /\ exec'[e].step = exec[e].step /\ exec'[e].i = exec[e].i
    /\ exec'[e].last = exec[e].last /\ Keeps(exec'[e], exec[e])

\* A jump keeps the rest of the record.
LEMMA GotoForm ==
    ASSUME exec \in [Execs -> ExecType], NEW e \in Execs, NEW pc \in Pcs, Goto(e, pc)
    PROVE  /\ exec' \in [Execs -> ExecType] /\ exec'[e] \in ExecType /\ Others(e)
           /\ exec'[e].pc = pc /\ SameBut(e)
<1>1. exec[e] \in ExecType /\ exec'[e] = [exec[e] EXCEPT !.pc = pc] /\ Others(e)
    BY DEF Goto, Others
<1>2. exec'[e] \in ExecType
    BY <1>1 DEF ExecType
<1>3. exec' = [exec EXCEPT ![e] = exec'[e]]
    BY <1>1 DEF Goto
<1>4. exec' \in [Execs -> ExecType]
    BY <1>2, <1>3
<1>5. exec'[e].pc = pc /\ SameBut(e)
    BY <1>1 DEF ExecType, SameBut, Keeps
<1> QED BY <1>1, <1>2, <1>4, <1>5

\* A return leaves a sound, idle execution.
LEMMA ReturnForm ==
    ASSUME exec \in [Execs -> ExecType], NEW e \in Execs, Return(e)
    PROVE  /\ exec' \in [Execs -> ExecType] /\ Others(e)
           /\ exec'[e] = Idle /\ Sound(exec[e])'
<1>1. exec' \in [Execs -> ExecType] /\ exec'[e] = Idle /\ Others(e)
    BY IdleFields, BecomeForm DEF Return
<1>2. exec'[e].pc = "idle" /\ exec'[e].retry = FALSE /\ exec'[e] \in ExecType
    BY <1>1, IdleFields
<1>3. Sound(exec[e])'
    BY <1>2 DEF Sound, ResumeOK, ExhaustedOK, EnterOK, LaunchOK, RetryOK, CascadeOK, CompleteOK,
                Launching, Cascading
<1> QED BY <1>1, <1>3

\* Listing is transitive, and where all edges lead forward a step is listed
\* before those it leads to.
LEMMA BeforeFacts ==
    ASSUME spec \in Specs
    PROVE  /\ \A s, t, u : Before(s, t) /\ Before(t, u) => Before(s, u)
           /\ ListedForward => \A s, t \in Graph : t \in Edges(spec.steps[s]) => Before(s, t)
<1>1. /\ spec.order \in Seq(Steps) /\ IsInjective(spec.order) /\ Graph = Range(spec.order)
      /\ NoStep \notin Steps
    BY SpecAssumption DEF Graph
<1>2. \A i, j \in DOMAIN spec.order : spec.order[i] = spec.order[j] => i = j
    BY <1>1 DEF IsInjective
<1>3. DOMAIN spec.order = 1..Len(spec.order) /\ Len(spec.order) \in Nat
    BY <1>1
<1>4. ASSUME NEW s, NEW t, NEW u, Before(s, t), Before(t, u) PROVE Before(s, u)
    <2>1. PICK i, j \in DOMAIN spec.order : i < j /\ spec.order[i] = s /\ spec.order[j] = t
        BY <1>4 DEF Before
    <2>2. PICK k, l \in DOMAIN spec.order : k < l /\ spec.order[k] = t /\ spec.order[l] = u
        BY <1>4 DEF Before
    <2>3. j = k
        BY <2>1, <2>2, <1>2
    <2>4. i < l
        BY <2>1, <2>2, <2>3, <1>3
    <2> QED BY <2>1, <2>2, <2>4 DEF Before
<1>5. ASSUME ListedForward, NEW s \in Graph, NEW t \in Graph, t \in Edges(spec.steps[s])
      PROVE  Before(s, t)
    <2>1. PICK i \in DOMAIN spec.order : spec.order[i] = s
        BY <1>1 DEF Range
    <2>2. t # NoStep
        BY <1>1, GraphFacts
    <2>3. t \in {spec.order[j] : j \in i + 1..Len(spec.order)}
        BY <1>5, <2>1, <2>2 DEF ListedForward
    <2>4. PICK j \in i + 1..Len(spec.order) : t = spec.order[j]
        BY <2>3
    <2>5. j \in DOMAIN spec.order /\ i < j
        BY <2>1, <2>4, <1>3
    <2> QED BY <2>1, <2>4, <2>5 DEF Before
<1> QED BY <1>4, <1>5

\* A cursor whose step in flight is s has passed the steps that are done.
LEMMA GoodPassed ==
    ASSUME spec \in Specs, NEW c \in GoodCursors, c.current # NoStep
    PROVE  /\ c.current \in Graph /\ <<c, c.current>> \in Passed /\ Counted(c, c.current)
           /\ c \in CursorType
BY DEF GoodCursors, CursorOK, Passed

\* A step that is launched is in flight.
LEMMA LaunchedGood ==
    ASSUME spec \in Specs, NEW c, NEW s, <<c, s>> \in Passed, NEW n \in Nat,
           spec.steps[s].kind = "map" => n = spec.steps[s].size,
           spec.steps[s].kind # "map" => n \in Launches(spec.steps[s])
    PROVE  launched(c, s, n) \in GoodCursors /\ <<launched(c, s, n), s>> \in Passed
<1> DEFINE d == launched(c, s, n)
<1>1. c \in CursorType /\ s \in Graph /\ Behind(c, s)
    BY DEF Passed
<1>2. s \in Steps /\ s # NoStep
    BY <1>1, GraphFacts
<1>3. /\ d \in CursorType /\ d.current = s
      /\ d.nodes[s] = [state |-> "launched", n |-> n, out |-> "none"]
      /\ \A t \in Steps \ {s} : d.nodes[t] = c.nodes[t]
    BY <1>1, <1>2, LaunchedFields
<1>4. d.nodes[s].state = "launched" /\ d.nodes[s].n = n
    BY <1>3
<1> HIDE DEF d
<1>5. Counted(d, s)
    BY <1>4 DEF Counted
<1>6. \A t \in Graph : StepDone(d, t) => StepDone(c, t)
    BY <1>3, <1>4, GraphFacts DEF StepDone
<1>7. Behind(d, s)
    BY <1>1, <1>6 DEF Behind
<1>8. CursorOK(d)
    BY <1>1, <1>2, <1>3, <1>5, <1>7 DEF CursorOK
<1> QED BY <1>1, <1>3, <1>7, <1>8 DEF GoodCursors, Passed, d

\* A step that is done is the last one passed, and its successor has passed it.
LEMMA DonePassed ==
    ASSUME spec \in Specs, NEW c, NEW s, <<c, s>> \in Passed, NEW out \in Outs
    PROVE  /\ <<DoneCursor(c, s, out), s>> \in Ended
           /\ \A t \in Graph : t \in Edges(spec.steps[s]) => <<DoneCursor(c, s, out), t>> \in Passed
<1> DEFINE d == DoneCursor(c, s, out)
<1>1. c \in CursorType /\ s \in Graph /\ Behind(c, s)
    BY DEF Passed
<1>2. s \in Steps
    BY <1>1, GraphFacts
<1>3. /\ d \in CursorType /\ d.nodes[s].state = "done"
      /\ \A t \in Steps \ {s} : d.nodes[t] = c.nodes[t]
    BY <1>1, <1>2, DoneFields
<1> HIDE DEF d
<1>4. StepDone(d, s) /\ \A t \in Graph : StepDone(d, t) => t = s \/ StepDone(c, t)
    BY <1>3, GraphFacts DEF StepDone
<1>5. ListedForward => \A t \in Graph : StepDone(d, t) => t = s \/ Before(t, s)
    BY <1>1, <1>4 DEF Behind
<1>6. <<d, s>> \in Ended
    BY <1>1, <1>3, <1>4, <1>5 DEF Ended
<1>7. ASSUME NEW t \in Graph, t \in Edges(spec.steps[s]) PROVE <<d, t>> \in Passed
    <2>1. ListedForward => Before(s, t)
        BY <1>1, <1>7, BeforeFacts
    <2>2. ListedForward => \A u \in Graph : StepDone(d, u) => Before(u, t)
        BY <2>1, <1>5, BeforeFacts
    <2>3. Behind(d, t)
        BY <2>2 DEF Behind
    <2> QED BY <1>3, <1>7, <2>3 DEF Passed
<1> QED BY <1>6, <1>7 DEF d

\* An execution that goes on from a step that is done, by its outcome, is sound,
\* whatever its cascade still held.
LEMMA AdvanceSoundLike ==
    ASSUME spec \in Specs, Frozen, NEW e, NEW r \in ExecType, NEW s, NEW out \in Outs,
           NEW onward \in {"enter", "onward"},
           LET a == advanceFrom(r, s, out, onward)
           IN  /\ exec'[e].pc = a.pc /\ exec'[e].cur = a.cur
               /\ exec'[e].step = a.step /\ exec'[e].last = a.last,
           exec'[e] \in ExecType, ~exec'[e].retry, <<r.cur, s>> \in Passed,
           \/ spec.steps[s].kind = "loop"
           \/ spec.steps[s].kind = "plain" /\ evalFails(s, out)
           \/ nodeSuccessor(s, out) \in LeadsTo(s)
    PROVE  Sound(exec[e])'
<1> DEFINE a == advanceFrom(r, s, out, onward)
           q == exec'[e]
           stop == spec.steps[s].kind = "plain" /\ evalFails(s, out)
           succ == nodeSuccessor(s, out)
<1>0. s \in Graph
    BY DEF Passed
<1>a. /\ a.cur = DoneCursor(r.cur, s, out) /\ a.step = succ /\ a.last = s
      /\ \/ a.pc = "fail" /\ stop
         \/ a.pc = "complete" /\ ~stop /\ succ = NoStep
         \/ a.pc = onward /\ ~stop /\ succ # NoStep
    BY <1>0, AdvanceFields
<1>1. /\ q \in ExecType /\ q.cur = DoneCursor(r.cur, s, out) /\ q.step = succ /\ q.last = s
      /\ \/ q.pc = "fail" /\ stop
         \/ q.pc = "complete" /\ ~stop /\ succ = NoStep
         \/ q.pc = onward /\ ~stop /\ succ # NoStep
    BY <1>a
<1>2. ~q.retry
    OBVIOUS
<1>3. exec'[e] = q
    OBVIOUS
<1> HIDE DEF q, stop
<1> USE FactsKept
<1>4. CASE q.pc = "fail"
    BY <1>1, <1>2, <1>3, <1>4
       DEF Sound, ResumeOK, ExhaustedOK, EnterOK, LaunchOK, RetryOK, CascadeOK, CompleteOK,
           Launching, Cascading
<1>5. CASE q.pc = "complete"
    <2>1. ~stop /\ succ = NoStep
        BY <1>1, <1>5
    <2>2. s \in FinalSteps
        BY <1>0, <2>1 DEF FinalSteps, stop
    <2>3. <<q.cur, q.last>> \in Ended
        BY <1>1, DonePassed
    <2> QED BY <1>1, <1>2, <1>3, <1>5, <2>2, <2>3
       DEF Sound, ResumeOK, ExhaustedOK, EnterOK, LaunchOK, RetryOK, CascadeOK, CompleteOK,
           Launching, Cascading
<1>6. CASE q.pc = onward
    <2>1. ~stop /\ succ # NoStep
        BY <1>1, <1>6
    <2>2. spec.steps[s].kind # "loop"
        BY <2>1 DEF nodeSuccessor
    <2>3. succ \in LeadsTo(s) /\ succ \in Graph /\ succ \in Edges(spec.steps[s])
        BY <1>0, <2>1, <2>2, SuccessorListed DEF stop
    <2>4. succ \in ReachedSteps
        BY <1>0, <2>3 DEF ReachedSteps, Reached, Graph
    <2>5. <<q.cur, q.step>> \in Passed
        BY <1>1, <2>3, DonePassed
    <2> QED BY <1>1, <1>2, <1>3, <1>6, <2>4, <2>5
       DEF Sound, ResumeOK, ExhaustedOK, EnterOK, LaunchOK, RetryOK, CascadeOK, CompleteOK,
           Launching, Cascading
<1> QED BY <1>1, <1>4, <1>5, <1>6

\* In particular one that is just the advance.
LEMMA AdvanceSound ==
    ASSUME spec \in Specs, Frozen, NEW e, NEW r \in ExecType, NEW s, NEW out \in Outs,
           NEW onward \in {"enter", "onward"}, exec'[e] = advanceFrom(r, s, out, onward),
           <<r.cur, s>> \in Passed, ~r.retry,
           \/ spec.steps[s].kind = "loop"
           \/ spec.steps[s].kind = "plain" /\ evalFails(s, out)
           \/ nodeSuccessor(s, out) \in LeadsTo(s)
    PROVE  Sound(exec[e])'
<1>1. s \in Graph
    BY DEF Passed
<1>2. exec'[e] \in ExecType /\ Keeps(exec'[e], r)
    BY <1>1, AdvanceFields
<1>3. ~exec'[e].retry
    BY <1>2 DEF Keeps
<1> QED BY <1>2, <1>3, AdvanceSoundLike

\* An execution that launches a sub-run that is due is sound.
LEMMA LaunchSound ==
    ASSUME spec \in Specs, Frozen, NEW e, NEW c, NEW s, NEW n \in Nat, NEW k,
           exec'[e] \in ExecType, exec'[e].pc = "reserve", exec'[e].cur = launched(c, s, n),
           exec'[e].step = s, exec'[e].i = k, <<c, s>> \in Passed,
           spec.steps[s].kind = "map" => n = spec.steps[s].size,
           spec.steps[s].kind # "map" => n = k,
           k \in Launches(spec.steps[s]),
           SpawnRunID(s, k) \in DueRuns \/ BudgetSpent,
           exec'[e].retry => k > 0 /\ <<s, exec'[e].code>> \in LostSteps
    PROVE  Sound(exec[e])'
<1> USE FactsKept
<1>s. spec' = spec
    BY DEF Frozen
<1>1. launched(c, s, n) \in GoodCursors /\ <<launched(c, s, n), s>> \in Passed
    BY LaunchedGood
<1>2. s \in Graph /\ c \in CursorType
    BY DEF Passed
<1>3. s \in Steps /\ k \in Nat
    BY <1>2, GraphFacts
<1> DEFINE d == launched(c, s, n)
<1>c. exec'[e].cur = d
    OBVIOUS
<1>f. d.current = s /\ d.nodes[s] = [state |-> "launched", n |-> n, out |-> "none"]
    BY <1>2, <1>3, LaunchedFields
<1> HIDE DEF d
<1>4. d.current = s /\ d.nodes[s].n = n
    BY <1>f
<1>g. d \in GoodCursors /\ <<d, s>> \in Passed
    BY <1>1 DEF d
<1>5. LaunchOK(exec[e])'
    <2>1. exec'[e].step \in Graph' /\ exec'[e].cur.current = exec'[e].step
          /\ exec'[e].cur \in GoodCursors'
        BY <1>c, <1>g, <1>2, <1>4
    <2>2. exec'[e].i \in Launches(spec.steps[exec[e].step])'
        BY <1>s
    <2>3. (spec.steps[exec[e].step].kind # "map")' => exec'[e].cur.nodes[exec'[e].step].n = exec'[e].i
        BY <1>s, <1>c, <1>4
    <2>4. SpawnRunID(exec[e].step, exec[e].i)' \in DueRuns' \/ (BudgetSpent' /\ exec'[e].pc # "spawn")
        BY DEF SpawnRunID
    <2> QED BY <2>1, <2>2, <2>3, <2>4 DEF LaunchOK
<1>6. RetryOK(exec[e])'
    BY <1>c, <1>g, <1>4 DEF RetryOK, Launching, Cascading
<1> QED BY <1>5, <1>6 DEF Sound, ResumeOK, ExhaustedOK, EnterOK, CascadeOK, CompleteOK, Cascading

\* The facts at the start of the fold of the step in flight.
LEMMA AtResume ==
    ASSUME WalkInv, NEW e \in Execs, At(e, "resume")
    PROVE  /\ spec \in Specs /\ exec \in [Execs -> ExecType] /\ exec[e] \in ExecType
           /\ exec[e].cur \in GoodCursors /\ ~exec[e].retry
           /\ exec[e].cur.current # NoStep =>
                 /\ exec[e].cur.current \in Graph
                 /\ <<exec[e].cur, exec[e].cur.current>> \in Passed
                 /\ Counted(exec[e].cur, exec[e].cur.current)
<1>1. spec \in Specs /\ exec \in [Execs -> ExecType] /\ Sound(exec[e])
    BY DEF WalkInv, WfRest, ExecsSound
<1>2. exec[e].cur \in GoodCursors
    BY <1>1 DEF Sound, ResumeOK, At
<1>3. ~exec[e].retry
    BY <1>1 DEF Sound, RetryOK, At, Launching, Cascading
<1> QED BY <1>1, <1>2, <1>3, GoodPassed

\* failThen, by its effect.
LEMMA FailThenFields ==
    ASSUME NEW r \in ExecType
    PROVE  /\ failThen(r) \in ExecType /\ failThen(r).pc = "cascade" /\ failThen(r).then = "fail"
           /\ failThen(r).cur = r.cur /\ failThen(r).step = r.step /\ failThen(r).i = r.i
           /\ failThen(r).code = r.code /\ failThen(r).retry = r.retry
<1> DEFINE g == [r EXCEPT !.pc = "cascade"]
           q == [g EXCEPT !.then = "fail"]
<1>1. /\ g \in ExecType /\ g.pc = "cascade" /\ g.cur = r.cur /\ g.step = r.step /\ g.i = r.i
      /\ g.code = r.code /\ g.retry = r.retry
    BY DEF ExecType, Pcs
<1>2. failThen(r) = q
    BY DEF failThen
<1> HIDE DEF g
<1>3. /\ q \in ExecType /\ q.pc = "cascade" /\ q.then = "fail" /\ q.cur = r.cur
      /\ q.step = r.step /\ q.i = r.i /\ q.code = r.code /\ q.retry = r.retry
    BY <1>1 DEF ExecType
<1> QED BY <1>2, <1>3

\* An execution that fails fast is sound; if it was retrying, the budget is spent.
LEMMA FailThenSound ==
    ASSUME spec \in Specs, Frozen, exec \in [Execs -> ExecType], NEW e \in Execs,
           Become(e, failThen(exec[e])), RetryOK(exec[e]), exec[e].retry => BudgetSpent
    PROVE  exec' \in [Execs -> ExecType] /\ Others(e) /\ Sound(exec[e])'
<1>1. /\ failThen(exec[e]) \in ExecType /\ failThen(exec[e]).pc = "cascade"
      /\ failThen(exec[e]).then = "fail" /\ failThen(exec[e]).cur = exec[e].cur
      /\ failThen(exec[e]).code = exec[e].code /\ failThen(exec[e]).retry = exec[e].retry
    BY FailThenFields
<1>2. exec' \in [Execs -> ExecType] /\ exec'[e] = failThen(exec[e]) /\ Others(e)
    BY <1>1, BecomeForm
<1>3. RetryOK(exec[e])'
    BY <1>1, <1>2, FactsKept DEF RetryOK, Cascading, Launching
<1> QED BY <1>1, <1>2, <1>3
       DEF Sound, ResumeOK, ExhaustedOK, EnterOK, LaunchOK, CascadeOK, CompleteOK, Launching,
           Cascading

\* An execution that goes to its failure, and was not retrying, is sound.
LEMMA GotoFailSound ==
    ASSUME spec \in Specs, Frozen, exec \in [Execs -> ExecType], NEW e \in Execs,
           Goto(e, "fail"), RetryOK(exec[e]), exec[e].retry => TooLate
    PROVE  exec' \in [Execs -> ExecType] /\ Others(e) /\ Sound(exec[e])'
<1>1. /\ exec' \in [Execs -> ExecType] /\ exec'[e] \in ExecType /\ Others(e)
      /\ exec'[e].pc = "fail" /\ SameBut(e)
    BY GotoForm DEF Pcs
<1>2. RetryOK(exec[e])'
    BY <1>1, FactsKept DEF RetryOK, Cascading, Launching, SameBut, Keeps
<1> QED BY <1>1, <1>2
       DEF Sound, ResumeOK, ExhaustedOK, EnterOK, LaunchOK, CascadeOK, CompleteOK, Launching,
           Cascading

\* The step of e leaves e sound, and the others where they are.
Stays(e) == exec' \in [Execs -> ExecType] /\ Others(e) /\ Sound(exec[e])'

\* Where an execution relies on nothing, it is sound.
LEMMA QuietSound ==
    ASSUME NEW e, exec'[e] \in ExecType, ~exec'[e].retry,
           \/ exec'[e].pc \in {"idle", "poison", "opening", "load", "resuming", "fail"}
           \/ exec'[e].pc \in Cascading /\ exec'[e].then \in {"fail", "return"}
    PROVE  Sound(exec[e])'
<1>1. /\ exec'[e].pc \notin Launching
      /\ exec'[e].pc \notin {"gate", "resume", "resuspend", "exhausted", "enter", "onward", "complete"}
    BY DEF Launching, Cascading
<1>2. CascadeOK(exec[e])'
    BY DEF CascadeOK, Cascading
<1> QED BY <1>1, <1>2 DEF Sound, ResumeOK, ExhaustedOK, EnterOK, LaunchOK, RetryOK, CompleteOK

\* What WalkInv says of one execution.
LEMMA OneSound ==
    ASSUME WalkInv, NEW e \in Execs
    PROVE  /\ spec \in Specs /\ exec \in [Execs -> ExecType] /\ exec[e] \in ExecType
           /\ Sound(exec[e]) /\ RetryOK(exec[e]) /\ cursor \in GoodCursors
BY DEF WalkInv, WfRest, ExecsSound, Sound, CursorSound, GoodCursors

\* The opening relies on nothing.
LEMMA OpeningSound ==
    ASSUME WalkInv, Frozen, NEW e \in Execs, opening(e)
    PROVE  Stays(e)
<1>0. exec \in [Execs -> ExecType] /\ RetryOK(exec[e])
    BY OneSound
<1>1. CASE Return(e)
    BY <1>0, <1>1, ReturnForm DEF Stays
<1>2. CASE Goto(e, "load")
    <2>1. /\ exec' \in [Execs -> ExecType] /\ exec'[e] \in ExecType /\ Others(e)
          /\ exec'[e].pc = "load" /\ SameBut(e)
        BY <1>0, <1>2, GotoForm DEF Pcs
    <2>2. ~exec'[e].retry
        BY <1>0, <2>1 DEF RetryOK, SameBut, Keeps, opening, At, Launching, Cascading
    <2> QED BY <2>1, <2>2, QuietSound DEF Stays
<1> QED BY <1>1, <1>2 DEF opening

\* The copy of the cursor that an execution loads is sound.
LEMMA LoadSound ==
    ASSUME WalkInv, Frozen, NEW e \in Execs, load(e)
    PROVE  Stays(e)
<1>0. /\ spec \in Specs /\ exec \in [Execs -> ExecType] /\ exec[e] \in ExecType
      /\ RetryOK(exec[e]) /\ cursor \in GoodCursors
    BY OneSound
<1>1. CASE Return(e)
    BY <1>0, <1>1, ReturnForm DEF Stays
<1>2. ASSUME NEW pc \in {"gate", "resume"}, Become(e, [exec[e] EXCEPT !.cur = cursor, !.pc = pc])
      PROVE  Stays(e)
    <2> DEFINE g == [exec[e] EXCEPT !.cur = cursor]
               q == [g EXCEPT !.pc = pc]
    <2>1. g \in ExecType /\ g.cur = cursor /\ g.retry = exec[e].retry
        BY <1>0 DEF ExecType, GoodCursors
    <2>2. Become(e, q)
        BY <1>2
    <2> HIDE DEF g
    <2>3. q \in ExecType /\ q.cur = cursor /\ q.pc = pc /\ q.retry = exec[e].retry
        BY <2>1 DEF ExecType, Pcs
    <2> HIDE DEF q
    <2>4. exec' \in [Execs -> ExecType] /\ exec'[e] = q /\ Others(e)
        BY <1>0, <2>2, <2>3, BecomeForm
    <2>5. ~q.retry
        BY <1>0, <2>3 DEF RetryOK, load, At, Launching, Cascading
    <2>6. exec'[e].cur \in GoodCursors'
        BY <1>0, <2>3, <2>4, FactsKept
    <2> QED BY <2>3, <2>4, <2>5, <2>6
       DEF Stays, Sound, ResumeOK, ExhaustedOK, EnterOK, LaunchOK, RetryOK, CascadeOK,
           CompleteOK, Launching, Cascading
<1> QED BY <1>1, <1>2 DEF load

\* The first step of a fresh cursor has passed nothing.
LEMMA StartSound ==
    ASSUME WalkInv, Frozen, NEW e \in Execs, startGraph(e)
    PROVE  Stays(e)
<1> DEFINE s == Head(spec.order)
           g == [exec[e] EXCEPT !.step = s]
           q == [g EXCEPT !.pc = "enter"]
<1>0. /\ spec \in Specs /\ exec \in [Execs -> ExecType] /\ exec[e] \in ExecType
      /\ exec[e].cur \in GoodCursors /\ ~exec[e].retry
    BY AtResume DEF startGraph
<1>1. s \in Graph
    BY <1>0, SpecAssumption DEF Graph, Range
<1>2. s \in Steps
    BY <1>0, <1>1, GraphFacts
<1>3. s \in ReachedSteps
    BY <1>1 DEF ReachedSteps, Reached
<1>4. \A t \in Graph : ~StepDone(exec[e].cur, t)
    BY <1>0, GraphFacts DEF startGraph, fresh, Pending, StepDone
<1>5. <<exec[e].cur, s>> \in Passed
    BY <1>0, <1>1, <1>4 DEF Passed, Behind, GoodCursors
<1>6. Become(e, q)
    BY DEF startGraph
<1> HIDE DEF s
<1>7. g \in ExecType /\ g.cur = exec[e].cur /\ g.step = s /\ ~g.retry
    BY <1>0, <1>2 DEF ExecType
<1> HIDE DEF g
<1>8. q \in ExecType /\ q.cur = exec[e].cur /\ q.step = s /\ ~q.retry /\ q.pc = "enter"
    BY <1>7 DEF ExecType, Pcs
<1> HIDE DEF q
<1>9. exec' \in [Execs -> ExecType] /\ exec'[e] = q /\ Others(e)
    BY <1>0, <1>6, <1>8, BecomeForm
<1>10. exec'[e].step \in ReachedSteps' /\ <<exec'[e].cur, exec'[e].step>> \in Passed'
    BY <1>0, <1>3, <1>5, <1>8, <1>9, FactsKept
<1> QED BY <1>8, <1>9, <1>10
       DEF Stays, Sound, ResumeOK, ExhaustedOK, EnterOK, LaunchOK, RetryOK, CascadeOK,
           CompleteOK, Launching, Cascading

\* What the outcome of an attempt of a plain step says.
LEMMA PlainOutcome ==
    ASSUME WalkInv, NEW s \in Graph, spec.steps[s].kind = "plain",
           NEW n \in 0..spec.steps[s].size, IsTerminal(status[SpawnRunID(s, n)])
    PROVE  LET c == SpawnRunID(s, n)
           IN  /\ answer[c] \in Outs
               /\ Succeeded(c) => evalFails(s, answer[c]) \/ nodeSuccessor(s, answer[c]) \in LeadsTo(s)
               /\ ~Succeeded(c) => <<s, Code(c)>> \in LostSteps /\ Missed(s, n, Code(c))
               /\ ~Succeeded(c) /\ n < spec.steps[s].size => SpawnRunID(s, n + 1) \in DueRuns
<1> DEFINE c == SpawnRunID(s, n)
           st == spec.steps[s]
<1>0. spec \in Specs /\ answer \in [Runs -> Answers \cup {"none"}]
    BY DEF WalkInv, WfRest
<1>1. /\ st \in StepType /\ st.size \in Nat /\ n \in Nat /\ Launches(st) = 0..st.size
      /\ \A i \in 0..st.size : SpawnRunID(s, i) \in Children(wf)
    BY <1>0, GraphFacts DEF Launches, StepType
<1>2. c \in Runs
    BY <1>1 DEF Children
<1>3. answer[c] \in Outs
    BY <1>0, <1>2 DEF Outs
<1>4. ASSUME Succeeded(c) PROVE evalFails(s, answer[c]) \/ nodeSuccessor(s, answer[c]) \in LeadsTo(s)
    BY <1>4 DEF LeadsTo
<1>5. ASSUME ~Succeeded(c) PROVE Missed(s, n, Code(c))
    BY <1>5 DEF Missed
<1>6. ASSUME ~Succeeded(c) PROVE <<s, Code(c)>> \in LostSteps
    <2>1. Code(c) \in Codes
        BY DEF Code, Codes
    <2> QED BY <1>1, <1>5, <1>6, <2>1 DEF LostSteps
<1>7. ASSUME ~Succeeded(c), n < st.size PROVE SpawnRunID(s, n + 1) \in DueRuns
    <2>1. n + 1 \in 1..st.size /\ n + 1 \in Launches(st) /\ (n + 1) - 1 = n
        BY <1>1, <1>7
    <2>2. Due(s, n + 1)
        BY <1>7, <2>1 DEF Due
    <2>3. SpawnRunID(s, n + 1) \in Children(wf)
        BY <1>1, <2>1
    <2> QED BY <2>1, <2>2, <2>3 DEF DueRuns, SpawnRunID
<1> QED BY <1>3, <1>4, <1>5, <1>6, <1>7

\* The fold of a plain step: on, once more, or to the handler.
LEMMA PlainSound ==
    ASSUME WalkInv, Frozen, NEW e \in Execs, NEW s \in Graph, At(e, "resume"),
           exec[e].cur.current = s, resumePlainNode(e, s)
    PROVE  Stays(e)
<1> DEFINE rec == exec[e]
           n == rec.cur.nodes[s].n
           c == SpawnRunID(s, n)
           code == Code(c)
<1>0. s # NoStep /\ s \in Steps
    BY GraphFacts DEF WalkInv, WfRest
<1>1. /\ spec \in Specs /\ exec \in [Execs -> ExecType] /\ rec \in ExecType
      /\ ~rec.retry /\ <<rec.cur, s>> \in Passed /\ Counted(rec.cur, s)
    BY <1>0, AtResume
<1>2. spec.steps[s].kind = "plain" /\ IsTerminal(status[c])
    BY DEF resumePlainNode
<1>3. n \in 0..spec.steps[s].size /\ spec.steps[s].size \in Nat
    BY <1>1, <1>2, GraphFacts DEF Counted, Launches, StepType
<1>4. /\ answer[c] \in Outs
      /\ Succeeded(c) => evalFails(s, answer[c]) \/ nodeSuccessor(s, answer[c]) \in LeadsTo(s)
      /\ ~Succeeded(c) => <<s, code>> \in LostSteps /\ Missed(s, n, code)
      /\ ~Succeeded(c) /\ n < spec.steps[s].size => SpawnRunID(s, n + 1) \in DueRuns
    BY <1>2, <1>3, PlainOutcome
<1>c. code \in {"agent_error", "cancelled"}
    BY DEF Code
<1> HIDE DEF code
<1>5. CASE Succeeded(c) /\ Become(e, advanceFrom(rec, s, answer[c], "enter"))
    <2>1. advanceFrom(rec, s, answer[c], "enter") \in ExecType
        BY <1>1, <1>4, AdvanceFields
    <2>2. exec' \in [Execs -> ExecType] /\ exec'[e] = advanceFrom(rec, s, answer[c], "enter") /\ Others(e)
        BY <1>1, <1>5, <2>1, BecomeForm
    <2>3. Sound(exec[e])'
        BY <1>1, <1>2, <1>4, <1>5, <2>2, AdvanceSound
    <2> QED BY <2>2, <2>3 DEF Stays
<1>6. CASE /\ ~Succeeded(c) /\ n < spec.steps[s].size
           /\ Become(e, [retryNode(rec, s) EXCEPT !.retry = TRUE, !.code = code])
    <2> DEFINE l == launch(rec, s, n + 1)
               g == [l EXCEPT !.retry = TRUE]
               q == [g EXCEPT !.code = code]
    <2>1. /\ l \in ExecType /\ l.pc = "reserve" /\ l.cur = launched(rec.cur, s, n + 1)
          /\ l.step = s /\ l.i = n + 1
        <3> DEFINE m == n + 1
        <3>1. m \in Nat
            BY <1>3
        <3> HIDE DEF m
        <3>2. /\ launch(rec, s, m) \in ExecType /\ launch(rec, s, m).pc = "reserve"
              /\ launch(rec, s, m).cur = launched(rec.cur, s, m)
              /\ launch(rec, s, m).step = s /\ launch(rec, s, m).i = m
            BY <1>0, <1>1, <3>1, LaunchFields
        <3> QED BY <3>2 DEF m
    <2>2. Become(e, q)
        BY <1>6 DEF retryNode
    <2> HIDE DEF l
    <2>3. /\ g \in ExecType /\ g.pc = "reserve" /\ g.cur = launched(rec.cur, s, n + 1)
          /\ g.step = s /\ g.i = n + 1 /\ g.retry
        BY <2>1 DEF ExecType
    <2> HIDE DEF g
    <2>4. /\ q \in ExecType /\ q.pc = "reserve" /\ q.cur = launched(rec.cur, s, n + 1)
          /\ q.step = s /\ q.i = n + 1 /\ q.retry /\ q.code = code
        BY <2>3, <1>c DEF ExecType
    <2> HIDE DEF q
    <2>5. exec' \in [Execs -> ExecType] /\ exec'[e] = q /\ Others(e)
        BY <1>1, <2>2, <2>4, BecomeForm
    <2>6. n + 1 \in Nat /\ n + 1 > 0 /\ n + 1 \in Launches(spec.steps[s])
        BY <1>2, <1>3, <1>6 DEF Launches
    <2>7. Sound(exec[e])'
        BY <1>1, <1>2, <1>4, <1>6, <2>4, <2>5, <2>6, LaunchSound
    <2> QED BY <2>5, <2>7 DEF Stays
<1>7. CASE /\ ~Succeeded(c) /\ n >= spec.steps[s].size
           /\ Become(e, [rec EXCEPT !.pc = "exhausted", !.code = code])
    <2> DEFINE g == [rec EXCEPT !.pc = "exhausted"]
               q == [g EXCEPT !.code = code]
    <2>1. g \in ExecType /\ g.pc = "exhausted" /\ g.cur = rec.cur /\ ~g.retry
        BY <1>1 DEF ExecType, Pcs
    <2>2. Become(e, q)
        BY <1>7
    <2> HIDE DEF g
    <2>3. q \in ExecType /\ q.pc = "exhausted" /\ q.cur = rec.cur /\ ~q.retry /\ q.code = code
        BY <2>1, <1>c DEF ExecType
    <2> HIDE DEF q
    <2>4. exec' \in [Execs -> ExecType] /\ exec'[e] = q /\ Others(e)
        BY <1>1, <2>2, <2>3, BecomeForm
    <2>5. n = spec.steps[s].size
        BY <1>3, <1>7
    <2>6. <<s, code>> \in ExhaustedSteps
        BY <1>4, <1>7, <2>5 DEF ExhaustedSteps
    <2>7. <<exec'[e].cur.current, exec'[e].code>> \in ExhaustedSteps'
          /\ <<exec'[e].cur, exec'[e].cur.current>> \in Passed'
        BY <1>1, <2>3, <2>4, <2>6, FactsKept
    <2> QED BY <2>3, <2>4, <2>7
       DEF Stays, Sound, ResumeOK, ExhaustedOK, EnterOK, LaunchOK, RetryOK, CascadeOK,
           CompleteOK, Launching, Cascading
<1> QED BY <1>5, <1>6, <1>7 DEF resumePlainNode, code

\* The fold of a loop: on, once more, or the failure.
LEMMA LoopSound ==
    ASSUME WalkInv, Frozen, NEW e \in Execs, NEW s \in Graph, At(e, "resume"),
           exec[e].cur.current = s, resumeLoopNode(e, s)
    PROVE  Stays(e)
<1> DEFINE rec == exec[e]
           n == rec.cur.nodes[s].n
           m == n + 1
           c == SpawnRunID(s, n)
           st == spec.steps[s]
<1>0. s # NoStep /\ s \in Steps
    BY GraphFacts DEF WalkInv, WfRest
<1>1. /\ spec \in Specs /\ exec \in [Execs -> ExecType] /\ rec \in ExecType
      /\ ~rec.retry /\ <<rec.cur, s>> \in Passed /\ Counted(rec.cur, s)
    BY <1>0, AtResume
<1>2. st.kind = "loop" /\ IsTerminal(status[c])
    BY DEF resumeLoopNode
<1>3. n \in Launches(st) /\ Launches(st) = 0..st.size - 1 /\ st.size \in Nat
    BY <1>1, <1>2, GraphFacts DEF Counted, Launches, StepType
<1>4. \A i \in Launches(st) : SpawnRunID(s, i) \in Children(wf)
    BY <1>1, GraphFacts
<1>5. answer[c] \in Outs
    BY <1>3, <1>4 DEF WalkInv, WfRest, Outs, Children
<1>r. RetryOK(rec)
    BY OneSound
<1>6. CASE Become(e, failThen(rec))
    BY <1>1, <1>6, <1>r, FailThenSound DEF Stays
<1>7. CASE Goto(e, "fail")
    BY <1>1, <1>7, <1>r, GotoFailSound DEF Stays
<1>8. CASE Become(e, advanceFrom(rec, s, answer[c], "enter"))
    <2>1. advanceFrom(rec, s, answer[c], "enter") \in ExecType
        BY <1>1, <1>5, AdvanceFields
    <2>2. exec' \in [Execs -> ExecType] /\ exec'[e] = advanceFrom(rec, s, answer[c], "enter") /\ Others(e)
        BY <1>1, <1>8, <2>1, BecomeForm
    <2>3. Sound(exec[e])'
        BY <1>1, <1>2, <1>5, <2>2, AdvanceSound
    <2> QED BY <2>2, <2>3 DEF Stays
<1>9. CASE /\ Succeeded(c) /\ answer[c] = "no" /\ m < st.size /\ Become(e, launch(rec, s, m))
    <2>1. m \in Launches(st) /\ m \in Nat /\ m \in 1..st.size - 1 /\ m - 1 = n
        BY <1>3, <1>9
    <2>2. Due(s, m)
        BY <1>2, <1>9, <2>1 DEF Due
    <2>3. SpawnRunID(s, m) \in DueRuns
        BY <1>4, <2>1, <2>2 DEF DueRuns, SpawnRunID
    <2> HIDE DEF m
    <2>4. /\ launch(rec, s, m) \in ExecType /\ launch(rec, s, m).pc = "reserve"
          /\ launch(rec, s, m).cur = launched(rec.cur, s, m)
          /\ launch(rec, s, m).step = s /\ launch(rec, s, m).i = m
          /\ Keeps(launch(rec, s, m), rec)
        BY <1>0, <1>1, <2>1, LaunchFields
    <2>5. exec' \in [Execs -> ExecType] /\ exec'[e] = launch(rec, s, m) /\ Others(e)
        BY <1>1, <1>9, <2>4, BecomeForm
    <2>6. ~exec'[e].retry
        BY <1>1, <2>4, <2>5 DEF Keeps
    <2>7. Sound(exec[e])'
        BY <1>1, <1>2, <2>1, <2>3, <2>4, <2>5, <2>6, LaunchSound
    <2> QED BY <2>5, <2>7 DEF Stays
<1> QED BY <1>6, <1>7, <1>8, <1>9 DEF resumeLoopNode

\* The sub-runs of a map in flight are its items.
LEMMA MapItems ==
    ASSUME NEW c, NEW s \in Graph, Counted(c, s), spec.steps[s].kind = "map"
    PROVE  ChildrenOf(c, s) = Items(s)
BY DEF ChildrenOf, Items, Counted

\* The fold of a map that needs all its items.
LEMMA MapSound ==
    ASSUME WalkInv, Frozen, NEW e \in Execs, NEW s \in Graph, At(e, "resume"),
           exec[e].cur.current = s, resumeMapNode(e, s)
    PROVE  Stays(e)
<1> DEFINE rec == exec[e]
           q == advanceFrom(rec, s, "list", "enter")
<1>0. s # NoStep /\ s \in Steps
    BY GraphFacts DEF WalkInv, WfRest
<1>1. /\ spec \in Specs /\ exec \in [Execs -> ExecType] /\ rec \in ExecType
      /\ ~rec.retry /\ <<rec.cur, s>> \in Passed /\ Counted(rec.cur, s) /\ RetryOK(rec)
    BY <1>0, AtResume, OneSound
<1>2. spec.steps[s].kind = "map" /\ "list" \in Outs
    BY DEF resumeMapNode, Outs
<1>3. CASE Become(e, failThen(rec))
    BY <1>1, <1>3, FailThenSound DEF Stays
<1>4. CASE (\A c \in ChildrenOf(rec.cur, s) : Succeeded(c)) /\ Become(e, q)
    <2>1. \A c \in Items(s) : Succeeded(c)
        BY <1>1, <1>2, <1>4, MapItems
    <2>2. nodeSuccessor(s, "list") \in LeadsTo(s)
        BY <1>2, <2>1 DEF nodeSuccessor, LeadsTo
    <2>3. q \in ExecType
        BY <1>1, <1>2, AdvanceFields
    <2>4. exec' \in [Execs -> ExecType] /\ exec'[e] = q /\ Others(e)
        BY <1>1, <1>4, <2>3, BecomeForm
    <2>5. Sound(exec[e])'
        BY <1>1, <1>2, <2>2, <2>4, AdvanceSound
    <2> QED BY <2>4, <2>5 DEF Stays
<1> QED BY <1>3, <1>4 DEF resumeMapNode

\* The fold of a map that needs one of its items.
LEMMA MapAnySound ==
    ASSUME WalkInv, Frozen, NEW e \in Execs, NEW s \in Graph, At(e, "resume"),
           exec[e].cur.current = s, resumeMapNodeAny(e, s)
    PROVE  Stays(e)
<1> DEFINE rec == exec[e]
           f == [rec EXCEPT !.pc = "cascade"]
           g == [f EXCEPT !.then = "advance"]
           q == [g EXCEPT !.step = s]
<1>0. s # NoStep /\ s \in Steps
    BY GraphFacts DEF WalkInv, WfRest
<1>1. /\ spec \in Specs /\ exec \in [Execs -> ExecType] /\ rec \in ExecType
      /\ ~rec.retry /\ Counted(rec.cur, s) /\ RetryOK(rec) /\ rec.cur \in GoodCursors
    BY <1>0, AtResume, OneSound
<1>2. spec.steps[s].kind = "map" /\ spec.steps[s].any
    BY DEF resumeMapNodeAny
<1>3. CASE Goto(e, "fail")
    BY <1>1, <1>3, GotoFailSound DEF Stays
<1>4. CASE (\E c \in ChildrenOf(rec.cur, s) : Succeeded(c)) /\ Become(e, q)
    <2>1. s \in WonMaps
        BY <1>1, <1>2, <1>4, MapItems DEF WonMaps
    <2>2. Become(e, q)
        BY <1>4
    <2>3. f \in ExecType /\ f.pc = "cascade" /\ f.cur = rec.cur /\ ~f.retry
        BY <1>1 DEF ExecType, Pcs
    <2> HIDE DEF f
    <2>4. g \in ExecType /\ g.pc = "cascade" /\ g.cur = rec.cur /\ ~g.retry /\ g.then = "advance"
        BY <2>3 DEF ExecType
    <2> HIDE DEF g
    <2>5. /\ q \in ExecType /\ q.pc = "cascade" /\ q.cur = rec.cur /\ ~q.retry
          /\ q.then = "advance" /\ q.step = s
        BY <1>0, <2>4 DEF ExecType
    <2> HIDE DEF q
    <2>6. exec' \in [Execs -> ExecType] /\ exec'[e] = q /\ Others(e)
        BY <1>1, <2>2, <2>5, BecomeForm
    <2>7. exec'[e].step \in WonMaps' /\ exec'[e].cur \in GoodCursors'
        BY <1>1, <2>1, <2>5, <2>6, FactsKept
    <2> QED BY <2>5, <2>6, <2>7
       DEF Stays, Sound, ResumeOK, ExhaustedOK, EnterOK, LaunchOK, RetryOK, CascadeOK,
           CompleteOK, Launching, Cascading
<1> QED BY <1>3, <1>4 DEF resumeMapNodeAny

\* The whole resume phase.
LEMMA ResumeSound ==
    ASSUME WalkInv, Frozen, NEW e \in Execs, resumeCurrentNode(e)
    PROVE  Stays(e)
<1>1. CASE startGraph(e)
    BY <1>1, StartSound
<1>2. ASSUME NEW s \in Graph, At(e, "resume"), exec[e].cur.current = s,
             Become(e, [exec[e] EXCEPT !.pc = "resuspend", !.step = s])
      PROVE  Stays(e)
    <2> DEFINE g == [exec[e] EXCEPT !.pc = "resuspend"]
               q == [g EXCEPT !.step = s]
    <2>1. /\ spec \in Specs /\ exec \in [Execs -> ExecType] /\ exec[e] \in ExecType
          /\ exec[e].cur \in GoodCursors /\ ~exec[e].retry
        BY <1>2, AtResume
    <2>2. s \in Steps
        BY <2>1, GraphFacts
    <2>3. g \in ExecType /\ g.pc = "resuspend" /\ g.cur = exec[e].cur /\ ~g.retry
        BY <2>1 DEF ExecType, Pcs
    <2>4. Become(e, q)
        BY <1>2
    <2> HIDE DEF g
    <2>5. q \in ExecType /\ q.pc = "resuspend" /\ q.cur = exec[e].cur /\ ~q.retry /\ q.step = s
        BY <2>2, <2>3 DEF ExecType
    <2> HIDE DEF q
    <2>6. exec' \in [Execs -> ExecType] /\ exec'[e] = q /\ Others(e)
        BY <2>1, <2>4, <2>5, BecomeForm
    <2>7. exec'[e].cur \in GoodCursors' /\ exec'[e].step \in Graph'
          /\ exec'[e].step = exec'[e].cur.current
        BY <1>2, <2>1, <2>5, <2>6, FactsKept
    <2> QED BY <2>5, <2>6, <2>7
       DEF Stays, Sound, ResumeOK, ExhaustedOK, EnterOK, LaunchOK, RetryOK, CascadeOK,
           CompleteOK, Launching, Cascading
<1> QED BY <1>1, <1>2, PlainSound, LoopSound, MapSound, MapAnySound DEF resumeCurrentNode, Graph

\* The defensive suspend relies on nothing after it.
LEMMA ResuspendSound ==
    ASSUME WalkInv, Frozen, NEW e \in Execs, defensiveResuspend(e)
    PROVE  Stays(e)
<1>0. spec \in Specs /\ exec \in [Execs -> ExecType] /\ RetryOK(exec[e])
    BY OneSound
<1>1. ~exec[e].retry
    BY <1>0 DEF RetryOK, defensiveResuspend, At, Launching, Cascading
<1>2. CASE Return(e)
    BY <1>0, <1>2, ReturnForm DEF Stays
<1>3. CASE Goto(e, "fail")
    BY <1>0, <1>1, <1>3, GotoFailSound DEF Stays
<1> QED BY <1>2, <1>3 DEF defensiveResuspend

\* The handler of a step whose attempts are used up is reached.
LEMMA HandlerReached ==
    ASSUME spec \in Specs, NEW s, NEW code, <<s, code>> \in ExhaustedSteps
    PROVE  /\ s \in Graph /\ code \in Codes
           /\ BudgetSpent \/ routeCatch(s, code) \in LeadsTo(s)
<1> DEFINE st == spec.steps[s]
<1>1. /\ s \in Graph /\ code \in Codes /\ st.kind = "plain"
      /\ \E i \in Nat : Missed(s, i, code)
      /\ TooLate \/ Missed(s, st.size, code)
    BY DEF ExhaustedSteps, LostSteps
<1>2. ASSUME NEW i, Missed(s, i, code), i = st.size \/ spec.gate \/ IsTerminal(status[wf])
      PROVE  routeCatch(s, code) \in LeadsTo(s)
    <2> DEFINE c == SpawnRunID(s, i)
    <2>1. i \in 0..st.size /\ IsTerminal(status[c]) /\ ~Succeeded(c) /\ Code(c) = code
        BY <1>2 DEF Missed
    <2> QED BY <1>1, <1>2, <2>1 DEF LeadsTo, routeCatch
<1>3. CASE BudgetSpent
    BY <1>1, <1>3
<1>4. CASE spec.gate \/ IsTerminal(status[wf])
    BY <1>1, <1>2, <1>4
<1>5. CASE Missed(s, st.size, code)
    BY <1>1, <1>2, <1>5
<1> QED BY <1>1, <1>3, <1>4, <1>5 DEF TooLate

\* A plain step without a retry left: on to its handler, or the failure.
LEMMA ExhaustedSound ==
    ASSUME WalkInv, Frozen, NEW e \in Execs, exhausted(e)
    PROVE  Stays(e)
<1> DEFINE rec == exec[e]
           s == rec.cur.current
           handler == routeCatch(s, rec.code)
           d == DoneCursor(rec.cur, s, "null")
           f == [rec EXCEPT !.cur = d]
           g == [f EXCEPT !.step = handler]
           q == [g EXCEPT !.pc = "enter"]
<1>0. /\ spec \in Specs /\ exec \in [Execs -> ExecType] /\ rec \in ExecType
      /\ RetryOK(rec) /\ Sound(rec)
    BY OneSound
<1>1. ~rec.retry
    BY <1>0 DEF RetryOK, exhausted, At, Launching, Cascading
<1>2. <<s, rec.code>> \in ExhaustedSteps /\ <<rec.cur, s>> \in Passed
    BY <1>0 DEF Sound, ExhaustedOK, exhausted, At
<1>3. s \in Graph /\ rec.code \in Codes /\ (BudgetSpent \/ handler \in LeadsTo(s))
    BY <1>0, <1>2, HandlerReached
<1>4. CASE Become(e, failThen(rec))
    BY <1>0, <1>1, <1>4, FailThenSound DEF Stays
<1>5. CASE handler # NoStep /\ Become(e, q)
    <2>1. handler \in Edges(spec.steps[s]) /\ handler \in Graph
        BY <1>0, <1>3, <1>5, HandlerListed DEF Codes
    <2>2. handler \in ReachedSteps \/ BudgetSpent
        BY <1>3, <2>1 DEF ReachedSteps, Reached, Graph
    <2>3. d \in CursorType
        BY <1>0, <1>3, GraphFacts, DoneFields DEF Outs, ExecType
    <2>4. <<d, handler>> \in Passed
        BY <1>0, <1>2, <2>1, DonePassed DEF Outs
    <2>5. handler \in Steps
        BY <1>0, <2>1, GraphFacts
    <2>6. Become(e, q)
        BY <1>5
    <2> HIDE DEF d, handler
    <2>7. f \in ExecType /\ f.cur = d /\ ~f.retry
        BY <1>0, <1>1, <2>3 DEF ExecType
    <2> HIDE DEF f
    <2>8. g \in ExecType /\ g.cur = d /\ ~g.retry /\ g.step = handler
        BY <2>5, <2>7 DEF ExecType
    <2> HIDE DEF g
    <2>9. q \in ExecType /\ q.cur = d /\ ~q.retry /\ q.step = handler /\ q.pc = "enter"
        BY <2>8 DEF ExecType, Pcs
    <2> HIDE DEF q
    <2>10. exec' \in [Execs -> ExecType] /\ exec'[e] = q /\ Others(e)
        BY <1>0, <2>6, <2>9, BecomeForm
    <2>11. /\ <<exec'[e].cur, exec'[e].step>> \in Passed'
           /\ exec'[e].step \in ReachedSteps' \/ BudgetSpent'
        BY <1>0, <2>2, <2>4, <2>9, <2>10, FactsKept
    <2> QED BY <2>9, <2>10, <2>11
       DEF Stays, Sound, ResumeOK, ExhaustedOK, EnterOK, LaunchOK, RetryOK, CascadeOK,
           CompleteOK, Launching, Cascading
<1> QED BY <1>4, <1>5 DEF exhausted, DoneCursor

\* The first sub-run of a step that is reached is due.
LEMMA FirstDue ==
    ASSUME spec \in Specs, NEW s \in ReachedSteps, 0 \in Launches(spec.steps[s])
    PROVE  SpawnRunID(s, 0) \in DueRuns
<1> DEFINE st == spec.steps[s]
<1>1. s \in Graph /\ Reached(s)
    BY DEF ReachedSteps
<1>2. st \in StepType /\ st.size \in Nat /\ SpawnRunID(s, 0) \in Children(wf)
    BY <1>1, GraphFacts DEF StepType
<1>3. st.kind = "map" => 0 < st.size
    BY <1>2 DEF Launches
<1>4. Due(s, 0)
    BY <1>1, <1>3 DEF Due
<1> QED BY <1>1, <1>2, <1>4 DEF DueRuns, SpawnRunID

\* The entry into a step.
LEMMA EnterSound ==
    ASSUME WalkInv, Frozen, NEW e \in Execs, enterNode(e)
    PROVE  Stays(e)
<1> DEFINE rec == exec[e]
           s == rec.step
           st == spec.steps[s]
<1>0. /\ spec \in Specs /\ exec \in [Execs -> ExecType] /\ rec \in ExecType
      /\ RetryOK(rec) /\ Sound(rec) /\ rec.pc \in {"enter", "onward"}
    BY OneSound DEF enterNode, At
<1>1. ~rec.retry
    BY <1>0 DEF RetryOK, Launching, Cascading
<1>2. <<rec.cur, s>> \in Passed /\ (s \in ReachedSteps \/ BudgetSpent)
    BY <1>0 DEF Sound, EnterOK
<1>3. s \in Graph /\ s \in Steps /\ st \in StepType /\ st.size \in Nat /\ rec.cur \in CursorType
    BY <1>0, <1>2, GraphFacts DEF Passed, StepType
<1>4. CASE Return(e)
    BY <1>0, <1>4, ReturnForm DEF Stays
<1>5. CASE /\ st.kind = "map" /\ st.size = 0
           /\ Become(e, advanceFrom([rec EXCEPT !.cur = launched(@, s, 0)], s, "list", "onward"))
    <2> DEFINE c == launched(rec.cur, s, 0)
               r == [rec EXCEPT !.cur = c]
               q == advanceFrom(r, s, "list", "onward")
    <2>1. c \in CursorType
        BY <1>3, LaunchedFields
    <2>2. <<c, s>> \in Passed
        BY <1>0, <1>2, <1>5, LaunchedGood
    <2>3. Become(e, q)
        BY <1>5
    <2> HIDE DEF c
    <2>4. r \in ExecType /\ r.cur = c /\ ~r.retry
        BY <1>0, <1>1, <2>1 DEF ExecType
    <2> HIDE DEF r
    <2>5. q \in ExecType
        BY <1>0, <1>3, <2>4, AdvanceFields DEF Outs
    <2>6. exec' \in [Execs -> ExecType] /\ exec'[e] = q /\ Others(e)
        BY <1>0, <2>3, <2>5, BecomeForm
    <2>7. nodeSuccessor(s, "list") \in LeadsTo(s)
        BY <1>5 DEF nodeSuccessor, LeadsTo
    <2>8. Sound(exec[e])'
        BY <1>0, <2>2, <2>4, <2>6, <2>7, AdvanceSound DEF Outs
    <2> QED BY <2>6, <2>8 DEF Stays
<1>6. CASE /\ st.kind = "map" /\ st.size # 0
           /\ Become(e, [rec EXCEPT !.cur = launched(@, s, st.size), !.i = 0, !.pc = "reserve"])
    <2> DEFINE c == launched(rec.cur, s, st.size)
               f == [rec EXCEPT !.cur = c]
               g == [f EXCEPT !.i = 0]
               q == [g EXCEPT !.pc = "reserve"]
    <2>1. c \in CursorType
        BY <1>3, LaunchedFields
    <2>2. 0 \in Launches(st)
        BY <1>3, <1>6 DEF Launches
    <2>3. SpawnRunID(s, 0) \in DueRuns \/ BudgetSpent
        BY <1>0, <1>2, <2>2, FirstDue
    <2>4. Become(e, q)
        BY <1>6
    <2>5. c = launched(rec.cur, s, st.size)
        OBVIOUS
    <2> HIDE DEF c
    <2>6. f \in ExecType /\ f.cur = c /\ f.step = s /\ ~f.retry
        BY <1>0, <1>1, <2>1 DEF ExecType
    <2> HIDE DEF f
    <2>7. g \in ExecType /\ g.cur = c /\ g.step = s /\ ~g.retry /\ g.i = 0
        BY <2>6 DEF ExecType
    <2> HIDE DEF g
    <2>8. q \in ExecType /\ q.cur = c /\ q.step = s /\ ~q.retry /\ q.i = 0 /\ q.pc = "reserve"
        BY <2>7 DEF ExecType, Pcs
    <2> HIDE DEF q
    <2>9. exec' \in [Execs -> ExecType] /\ exec'[e] = q /\ Others(e)
        BY <1>0, <2>4, <2>8, BecomeForm
    <2>10. Sound(exec[e])'
        BY <1>0, <1>2, <1>3, <1>6, <2>2, <2>3, <2>5, <2>8, <2>9, LaunchSound
    <2> QED BY <2>9, <2>10 DEF Stays
<1>7. CASE st.kind # "map" /\ Become(e, launch(rec, s, 0))
    <2>1. 0 \in Launches(st)
        BY <1>0, <1>3, <1>7, GraphFacts DEF Launches, StepType
    <2>2. SpawnRunID(s, 0) \in DueRuns \/ BudgetSpent
        BY <1>0, <1>2, <2>1, FirstDue
    <2>3. /\ launch(rec, s, 0) \in ExecType /\ launch(rec, s, 0).pc = "reserve"
          /\ launch(rec, s, 0).cur = launched(rec.cur, s, 0)
          /\ launch(rec, s, 0).step = s /\ launch(rec, s, 0).i = 0
          /\ Keeps(launch(rec, s, 0), rec)
        BY <1>0, <1>3, LaunchFields
    <2>4. exec' \in [Execs -> ExecType] /\ exec'[e] = launch(rec, s, 0) /\ Others(e)
        BY <1>0, <1>7, <2>3, BecomeForm
    <2>5. ~exec'[e].retry
        BY <1>1, <2>3, <2>4 DEF Keeps
    <2>6. Sound(exec[e])'
        BY <1>0, <1>2, <1>7, <2>1, <2>2, <2>3, <2>4, <2>5, LaunchSound
    <2> QED BY <2>4, <2>6 DEF Stays
<1> QED BY <1>4, <1>5, <1>6, <1>7 DEF enterNode

\* What a launching execution relies on.
LEMMA AtLaunch ==
    ASSUME WalkInv, NEW e \in Execs, exec[e].pc \in Launching
    PROVE  /\ spec \in Specs /\ exec \in [Execs -> ExecType] /\ exec[e] \in ExecType
           /\ RetryOK(exec[e]) /\ exec[e].step \in Graph /\ exec[e].cur.current = exec[e].step
           /\ exec[e].cur \in GoodCursors /\ exec[e].i \in Launches(spec.steps[exec[e].step])
           /\ exec[e].i \in Nat
           /\ spec.steps[exec[e].step].kind # "map" => exec[e].cur.nodes[exec[e].step].n = exec[e].i
           /\ SpawnRunID(exec[e].step, exec[e].i) \in DueRuns \/ (BudgetSpent /\ exec[e].pc # "spawn")
<1>1. LaunchOK(exec[e])
    BY OneSound DEF Sound
<1>2. /\ spec \in Specs /\ exec \in [Execs -> ExecType] /\ exec[e] \in ExecType
      /\ RetryOK(exec[e])
    BY OneSound
<1> QED BY <1>1, <1>2 DEF LaunchOK, ExecType

\* An execution that goes on with a launch, of the same or of the next sub-run.
LEMMA StillLaunching ==
    ASSUME WalkInv, Frozen, NEW e \in Execs, exec[e].pc \in Launching,
           exec'[e] \in ExecType, exec'[e].pc \in Launching,
           exec'[e].cur = exec[e].cur, exec'[e].step = exec[e].step, exec'[e].code = exec[e].code,
           exec'[e].retry = exec[e].retry, exec'[e].i >= exec[e].i,
           exec'[e].i \in Launches(spec.steps[exec[e].step]),
           spec.steps[exec[e].step].kind # "map" => exec'[e].i = exec[e].i,
           \/ SpawnRunID(exec[e].step, exec'[e].i) \in DueRuns
           \/ BudgetSpent /\ exec'[e].pc # "spawn"
    PROVE  Sound(exec[e])'
<1> USE FactsKept
<1>0. /\ spec \in Specs /\ exec[e] \in ExecType /\ RetryOK(exec[e]) /\ exec[e].step \in Graph
      /\ exec[e].cur.current = exec[e].step /\ exec[e].cur \in GoodCursors /\ exec[e].i \in Nat
      /\ spec.steps[exec[e].step].kind # "map" => exec[e].cur.nodes[exec[e].step].n = exec[e].i
    BY AtLaunch
<1>s. spec' = spec
    BY DEF Frozen
<1>1. LaunchOK(exec[e])'
    <2>1. exec'[e].step \in Graph' /\ exec'[e].cur.current = exec'[e].step
          /\ exec'[e].cur \in GoodCursors'
        BY <1>0
    <2>2. exec'[e].i \in Launches(spec.steps[exec[e].step])'
        BY <1>s
    <2>3. (spec.steps[exec[e].step].kind # "map")' => exec'[e].cur.nodes[exec'[e].step].n = exec'[e].i
        BY <1>s, <1>0
    <2>4. SpawnRunID(exec[e].step, exec[e].i)' \in DueRuns' \/ (BudgetSpent' /\ exec'[e].pc # "spawn")
        BY <1>0 DEF SpawnRunID
    <2> QED BY <2>1, <2>2, <2>3, <2>4 DEF LaunchOK
<1>2. exec[e].retry => exec[e].i > 0
    BY <1>0 DEF RetryOK
<1>3. exec'[e].i \in Nat
    BY DEF ExecType
<1>4. exec'[e].retry => exec'[e].i > 0
    BY <1>0, <1>2, <1>3
<1>5. RetryOK(exec[e])'
    BY <1>0, <1>4 DEF RetryOK, Launching, Cascading
<1> QED BY <1>1, <1>5
       DEF Sound, ResumeOK, ExhaustedOK, EnterOK, CascadeOK, CompleteOK, Launching, Cascading

\* The reservation.  The input of a retry evaluates: it did for the first attempt.
LEMMA ReserveSound ==
    ASSUME WalkInv, Frozen, NEW e \in Execs, reserve(e)
    PROVE  Stays(e)
<1> DEFINE rec == exec[e]
<1>p. rec.pc = "reserve" /\ rec.pc \in Launching
    BY DEF reserve, At, Launching
<1>0. /\ spec \in Specs /\ exec \in [Execs -> ExecType] /\ rec \in ExecType
      /\ RetryOK(rec) /\ rec.step \in Graph /\ rec.cur.current = rec.step
      /\ rec.i \in Launches(spec.steps[rec.step]) /\ rec.i \in Nat
      /\ SpawnRunID(rec.step, rec.i) \in DueRuns \/ BudgetSpent
    BY <1>p, AtLaunch
<1>1. CASE rec.i \in spec.steps[rec.step].bad /\ Goto(e, "fail")
    <2>1. ASSUME rec.retry PROVE FALSE
        <3>1. <<rec.step, rec.code>> \in LostSteps /\ rec.i > 0
            BY <1>0, <1>p, <2>1 DEF RetryOK
        <3>2. spec.steps[rec.step].kind = "plain"
            BY <3>1 DEF LostSteps
        <3>3. spec.steps[rec.step].bad \subseteq {0}
            BY <1>0, <3>2, GraphFacts
        <3> QED BY <1>0, <1>1, <3>1, <3>3
    <2> QED BY <1>0, <1>1, <2>1, GotoFailSound DEF Stays
<1>2. CASE reserveNodeSpawn(rec) /\ Goto(e, "spawn")
    <2>1. ~BudgetSpent
        BY <1>2, BoundAssumption, WfAssumption
           DEF reserveNodeSpawn, ReserveSpawn, BudgetSpent, WalkInv, TypeOK
    <2>2. /\ exec' \in [Execs -> ExecType] /\ exec'[e] \in ExecType /\ Others(e)
          /\ exec'[e].pc = "spawn" /\ SameBut(e)
        BY <1>0, <1>2, GotoForm DEF Pcs
    <2>3. /\ exec'[e].cur = rec.cur /\ exec'[e].step = rec.step /\ exec'[e].i = rec.i
          /\ exec'[e].code = rec.code /\ exec'[e].retry = rec.retry /\ exec'[e].pc \in Launching
        BY <2>2 DEF SameBut, Keeps, Launching
    <2>4. Sound(exec[e])'
        BY <1>0, <1>p, <2>1, <2>2, <2>3, StillLaunching
    <2> QED BY <2>2, <2>4 DEF Stays
<1>3. CASE spec.budget /\ spawns[wf] >= MaxTotalSpawns /\ Become(e, failThen(rec))
    BY <1>0, <1>3, FailThenSound DEF Stays, BudgetSpent
<1> QED BY <1>1, <1>2, <1>3 DEF reserve

\* The insert of a sub-run; the items of a map are due one after the other.
LEMMA SpawnSound ==
    ASSUME WalkInv, Frozen, NEW e \in Execs, spawnWorkflowNode(e)
    PROVE  Stays(e)
<1> DEFINE rec == exec[e]
           st == spec.steps[rec.step]
<1>p. rec.pc = "spawn" /\ rec.pc \in Launching
    BY DEF spawnWorkflowNode, At, Launching
<1>0. /\ spec \in Specs /\ exec \in [Execs -> ExecType] /\ rec \in ExecType
      /\ rec.step \in Graph /\ rec.cur.current = rec.step /\ rec.cur \in GoodCursors
      /\ rec.i \in Launches(st) /\ rec.i \in Nat
      /\ SpawnRunID(rec.step, rec.i) \in DueRuns
    BY <1>p, AtLaunch
<1>1. CASE Become(e, [rec EXCEPT !.pc = "suspend"])
    <2> DEFINE q == [rec EXCEPT !.pc = "suspend"]
    <2>1. /\ q \in ExecType /\ q.pc = "suspend" /\ q.cur = rec.cur /\ q.step = rec.step
          /\ q.i = rec.i /\ q.code = rec.code /\ q.retry = rec.retry
        BY <1>0 DEF ExecType, Pcs
    <2>2. Become(e, q)
        BY <1>1
    <2> HIDE DEF q
    <2>3. exec' \in [Execs -> ExecType] /\ exec'[e] = q /\ Others(e)
        BY <1>0, <2>1, <2>2, BecomeForm
    <2>4. q.pc \in Launching
        BY <2>1 DEF Launching
    <2>5. Sound(exec[e])'
        BY <1>0, <1>p, <2>1, <2>3, <2>4, StillLaunching
    <2> QED BY <2>3, <2>5 DEF Stays
<1>2. CASE /\ st.kind = "map" /\ rec.i + 1 < rec.cur.nodes[rec.step].n
           /\ Become(e, [rec EXCEPT !.i = @ + 1, !.pc = "reserve"])
    <2> DEFINE m == rec.i + 1
               g == [rec EXCEPT !.i = m]
               q == [g EXCEPT !.pc = "reserve"]
    <2>1. rec.step # NoStep
        BY <1>0, GraphFacts
    <2>2. rec.cur.nodes[rec.step].n = st.size /\ st.size \in Nat
        BY <1>0, <1>2, <2>1, GoodPassed, GraphFacts DEF Counted, StepType
    <2>3. m \in Launches(st) /\ m \in Nat /\ m >= rec.i /\ m < st.size
        BY <1>0, <1>2, <2>2 DEF Launches
    <2>4. SpawnRunID(rec.step, m) \in DueRuns
        <3>1. Due(rec.step, rec.i)
            BY <1>0 DEF DueRuns, SpawnRunID
        <3>2. Reached(rec.step)
            BY <1>2, <3>1 DEF Due
        <3>3. Due(rec.step, m)
            BY <1>2, <2>3, <3>2 DEF Due
        <3>4. SpawnRunID(rec.step, m) \in Children(wf)
            BY <1>0, <2>3, GraphFacts
        <3> QED BY <1>0, <2>3, <3>3, <3>4 DEF DueRuns, SpawnRunID
    <2>5. Become(e, q)
        BY <1>2
    <2> HIDE DEF m
    <2>6. /\ g \in ExecType /\ g.cur = rec.cur /\ g.step = rec.step
          /\ g.i = m /\ g.code = rec.code /\ g.retry = rec.retry
        BY <1>0, <2>3 DEF ExecType
    <2> HIDE DEF g
    <2>7. /\ q \in ExecType /\ q.pc = "reserve" /\ q.cur = rec.cur /\ q.step = rec.step
          /\ q.i = m /\ q.code = rec.code /\ q.retry = rec.retry
        BY <2>6 DEF ExecType, Pcs
    <2> HIDE DEF q
    <2>8. exec' \in [Execs -> ExecType] /\ exec'[e] = q /\ Others(e)
        BY <1>0, <2>5, <2>7, BecomeForm
    <2>9. q.pc \in Launching
        BY <2>7 DEF Launching
    <2>10. Sound(exec[e])'
        BY <1>0, <1>2, <1>p, <2>3, <2>4, <2>7, <2>8, <2>9, StillLaunching
    <2> QED BY <2>8, <2>10 DEF Stays
<1> QED BY <1>1, <1>2 DEF spawnWorkflowNode

\* The suspend.  A run that cannot be parked by the worker its row names, and
\* that no request executes, has ended.
LEMMA SuspendSound ==
    ASSUME WalkInv, Frozen, NEW e \in Execs, suspendOnChildren(e)
    PROVE  Stays(e)
<1>0. spec \in Specs /\ exec \in [Execs -> ExecType] /\ RetryOK(exec[e])
    BY OneSound
<1>1. CASE Return(e)
    BY <1>0, <1>1, ReturnForm DEF Stays
<1>2. CASE Fence(e) /\ ~MaySuspend(wf) /\ Goto(e, "fail")
    <2>1. ASSUME ~spec.gate PROVE IsTerminal(status[wf])
        <3>1. e \notin Inline
            BY <2>1 DEF WalkInv, Ungated, suspendOnChildren, At, Cascading
        <3>2. e \in Workers
            BY <3>1 DEF Execs, Pool
        <3>3. worker[wf] = e /\ worker[wf] # NoWorker
            BY <1>2, <3>2, WorkerAssumption DEF Fence
        <3>4. status[wf] \notin {"waiting", "queued", Absent}
            BY <3>3, WfAssumption DEF WalkInv, ParkedConsistent
        <3>5. status[wf] # "requires_action"
            BY <2>1 DEF WalkInv, Ungated
        <3> QED BY <1>2, <3>4, <3>5, WfAssumption
            DEF WalkInv, TypeOK, Status, IsTerminal, MaySuspend
    <2>2. TooLate
        BY <2>1 DEF TooLate
    <2> QED BY <1>0, <1>2, <2>2, GotoFailSound DEF Stays
<1> QED BY <1>1, <1>2 DEF suspendOnChildren

\* The failure of the workflow; a retry that came too late goes to the handler.
LEMMA FailSound ==
    ASSUME WalkInv, Frozen, NEW e \in Execs, failWorkflow(e)
    PROVE  Stays(e)
<1> DEFINE rec == exec[e]
           g == [rec EXCEPT !.retry = FALSE]
           q == [g EXCEPT !.pc = "exhausted"]
<1>0. spec \in Specs /\ exec \in [Execs -> ExecType] /\ rec \in ExecType /\ RetryOK(rec)
      /\ rec.pc = "fail"
    BY OneSound DEF failWorkflow, At
<1>1. CASE Return(e)
    BY <1>0, <1>1, ReturnForm DEF Stays
<1>2. CASE rec.retry /\ Become(e, q)
    <2>1. /\ <<rec.cur.current, rec.code>> \in LostSteps /\ TooLate
          /\ <<rec.cur, rec.cur.current>> \in Passed
        BY <1>0, <1>2 DEF RetryOK
    <2>2. <<rec.cur.current, rec.code>> \in ExhaustedSteps
        BY <2>1 DEF ExhaustedSteps
    <2>3. g \in ExecType /\ g.cur = rec.cur /\ g.code = rec.code /\ ~g.retry
        BY <1>0 DEF ExecType
    <2>4. Become(e, q)
        BY <1>2
    <2> HIDE DEF g
    <2>5. q \in ExecType /\ q.cur = rec.cur /\ q.code = rec.code /\ ~q.retry /\ q.pc = "exhausted"
        BY <2>3 DEF ExecType, Pcs
    <2> HIDE DEF q
    <2>6. exec' \in [Execs -> ExecType] /\ exec'[e] = q /\ Others(e)
        BY <1>0, <2>4, <2>5, BecomeForm
    <2>7. <<exec'[e].cur.current, exec'[e].code>> \in ExhaustedSteps'
          /\ <<exec'[e].cur, exec'[e].cur.current>> \in Passed'
        BY <1>0, <2>1, <2>2, <2>5, <2>6, FactsKept
    <2> QED BY <2>5, <2>6, <2>7
       DEF Stays, Sound, ResumeOK, ExhaustedOK, EnterOK, LaunchOK, RetryOK, CascadeOK,
           CompleteOK, Launching, Cascading
<1> QED BY <1>1, <1>2 DEF failWorkflow

\* A cascade that goes on.
LEMMA StillCascading ==
    ASSUME WalkInv, Frozen, NEW e \in Execs, exec[e].pc \in Cascading,
           exec'[e] \in ExecType, exec'[e].pc \in Cascading,
           exec'[e].cur = exec[e].cur, exec'[e].step = exec[e].step, exec'[e].code = exec[e].code,
           exec'[e].retry = exec[e].retry, exec'[e].then = exec[e].then
    PROVE  Sound(exec[e])'
<1> USE FactsKept
<1>0. spec \in Specs /\ RetryOK(exec[e]) /\ CascadeOK(exec[e])
    BY OneSound DEF Sound
<1>1. RetryOK(exec[e])'
    BY <1>0 DEF RetryOK, Launching, Cascading
<1>2. CascadeOK(exec[e])'
    BY <1>0 DEF CascadeOK
<1> QED BY <1>1, <1>2
       DEF Sound, ResumeOK, ExhaustedOK, EnterOK, LaunchOK, CompleteOK, Launching, Cascading

\* What follows a cascade: the failure, the advance past the winner, the end.
LEMMA AfterCascadeSound ==
    ASSUME WalkInv, Frozen, NEW e \in Execs, exec[e].pc \in Cascading,
           Become(e, AfterCascade(exec[e]))
    PROVE  Stays(e)
<1> DEFINE rec == exec[e]
<1>0. /\ spec \in Specs /\ exec \in [Execs -> ExecType] /\ rec \in ExecType
      /\ RetryOK(rec) /\ CascadeOK(rec)
    BY OneSound DEF Sound
<1>1. CASE rec.then = "return"
    BY <1>0, <1>1, ReturnForm DEF AfterCascade, Return, Stays
<1>2. CASE rec.then = "fail"
    <2> DEFINE g == [rec EXCEPT !.pc = "fail"]
               q == [g EXCEPT !.todo = {}]
    <2>1. Become(e, q)
        BY <1>2 DEF AfterCascade
    <2>2. g \in ExecType /\ g.pc = "fail" /\ g.cur = rec.cur /\ g.code = rec.code
          /\ g.retry = rec.retry
        BY <1>0 DEF ExecType, Pcs
    <2> HIDE DEF g
    <2>3. q \in ExecType /\ q.pc = "fail" /\ q.cur = rec.cur /\ q.code = rec.code
          /\ q.retry = rec.retry
        BY <2>2 DEF ExecType
    <2> HIDE DEF q
    <2>4. exec' \in [Execs -> ExecType] /\ exec'[e] = q /\ Others(e)
        BY <1>0, <2>1, <2>3, BecomeForm
    <2>5. rec.retry => TooLate
        BY <1>0 DEF RetryOK, TooLate
    <2>6. RetryOK(exec[e])'
        BY <1>0, <2>3, <2>4, <2>5, FactsKept DEF RetryOK, Launching, Cascading
    <2> QED BY <2>3, <2>4, <2>6
       DEF Stays, Sound, ResumeOK, ExhaustedOK, EnterOK, LaunchOK, CascadeOK,
           CompleteOK, Launching, Cascading
<1>3. CASE rec.then = "advance"
    <2> DEFINE s == rec.step
               a == advanceFrom(rec, s, "list", "enter")
               q == [a EXCEPT !.todo = {}]
    <2>1. s \in WonMaps /\ rec.cur.current = s /\ rec.cur \in GoodCursors
        BY <1>0, <1>3 DEF CascadeOK
    <2>2. s \in Graph /\ spec.steps[s].kind = "map" /\ spec.steps[s].any
          /\ \E c \in Items(s) : Succeeded(c)
        BY <2>1 DEF WonMaps
    <2>3. s # NoStep
        BY <1>0, <2>2, GraphFacts
    <2>4. <<rec.cur, s>> \in Passed
        BY <1>0, <2>1, <2>3, GoodPassed
    <2>5. nodeSuccessor(s, "list") \in LeadsTo(s)
        BY <2>2 DEF nodeSuccessor, LeadsTo
    <2>6. ~rec.retry
        BY <1>0, <1>3 DEF RetryOK
    <2>7. Become(e, q)
        BY <1>3 DEF AfterCascade
    <2>8. a \in ExecType /\ Keeps(a, rec)
        BY <1>0, <2>2, AdvanceFields DEF Outs
    <2>9. ~a.retry
        BY <2>6, <2>8 DEF Keeps
    <2>10. a = advanceFrom(rec, s, "list", "enter")
        OBVIOUS
    <2> HIDE DEF a
    <2>11. /\ q \in ExecType /\ q.pc = a.pc /\ q.cur = a.cur /\ q.step = a.step
           /\ q.last = a.last /\ ~q.retry
        BY <2>8, <2>9 DEF ExecType
    <2> HIDE DEF q
    <2>12. exec' \in [Execs -> ExecType] /\ exec'[e] = q /\ Others(e)
        BY <1>0, <2>7, <2>11, BecomeForm
    <2>13. Sound(exec[e])'
        BY <1>0, <2>4, <2>5, <2>10, <2>11, <2>12, AdvanceSoundLike DEF Outs
    <2> QED BY <2>12, <2>13 DEF Stays
<1> QED BY <1>0, <1>1, <1>2, <1>3 DEF CascadeOK

\* The cascade.
LEMMA CascadeSound ==
    ASSUME WalkInv, Frozen, NEW e \in Execs,
           cascadeStarts(e) \/ cascadeLists(e) \/ cascadeCancels(e)
    PROVE  Stays(e)
<1> DEFINE rec == exec[e]
<1>0. /\ spec \in Specs /\ exec \in [Execs -> ExecType] /\ rec \in ExecType
      /\ rec.pc \in Cascading
    BY OneSound DEF cascadeStarts, cascadeLists, cascadeCancels, At, Cascading
<1>1. CASE Become(e, AfterCascade(rec))
    BY <1>0, <1>1, AfterCascadeSound
<1>2. CASE Goto(e, "list")
    <2>1. /\ exec' \in [Execs -> ExecType] /\ exec'[e] \in ExecType /\ Others(e)
          /\ exec'[e].pc = "list" /\ SameBut(e)
        BY <1>0, <1>2, GotoForm DEF Pcs
    <2>2. /\ exec'[e].cur = rec.cur /\ exec'[e].step = rec.step /\ exec'[e].then = rec.then
          /\ exec'[e].code = rec.code /\ exec'[e].retry = rec.retry /\ exec'[e].pc \in Cascading
        BY <2>1 DEF SameBut, Keeps, Cascading
    <2>3. Sound(exec[e])'
        BY <1>0, <2>1, <2>2, StillCascading
    <2> QED BY <2>1, <2>3 DEF Stays
<1>3. ASSUME NEW todo \in SUBSET Children(wf), rec.pc = "list",
             Become(e, [rec EXCEPT !.pc = "cancelling", !.todo = todo])
      PROVE  Stays(e)
    <2> DEFINE g == [rec EXCEPT !.pc = "cancelling"]
               q == [g EXCEPT !.todo = todo]
    <2>1. Become(e, q)
        BY <1>3
    <2>2. /\ g \in ExecType /\ g.pc = "cancelling" /\ g.cur = rec.cur /\ g.step = rec.step
          /\ g.code = rec.code /\ g.retry = rec.retry /\ g.then = rec.then
        BY <1>0 DEF ExecType, Pcs
    <2> HIDE DEF g
    <2>3. /\ q \in ExecType /\ q.pc = "cancelling" /\ q.cur = rec.cur /\ q.step = rec.step
          /\ q.code = rec.code /\ q.retry = rec.retry /\ q.then = rec.then
        BY <2>2 DEF ExecType
    <2> HIDE DEF q
    <2>4. exec' \in [Execs -> ExecType] /\ exec'[e] = q /\ Others(e)
        BY <1>0, <2>1, <2>3, BecomeForm
    <2>5. q.pc \in Cascading
        BY <2>3 DEF Cascading
    <2>6. Sound(exec[e])'
        BY <1>0, <2>3, <2>4, <2>5, StillCascading
    <2> QED BY <2>4, <2>6 DEF Stays
<1>4. ASSUME NEW c \in rec.todo, Become(e, [rec EXCEPT !.todo = @ \ {c}]) PROVE Stays(e)
    <2> DEFINE todo == rec.todo \ {c}
               q == [rec EXCEPT !.todo = todo]
    <2>0. todo \in SUBSET Children(wf)
        BY <1>0 DEF ExecType
    <2>1. Become(e, q)
        BY <1>4
    <2> HIDE DEF todo
    <2>2. /\ q \in ExecType /\ q.pc = rec.pc /\ q.cur = rec.cur /\ q.step = rec.step
          /\ q.code = rec.code /\ q.retry = rec.retry /\ q.then = rec.then
        BY <1>0, <2>0 DEF ExecType
    <2> HIDE DEF q
    <2>3. exec' \in [Execs -> ExecType] /\ exec'[e] = q /\ Others(e)
        BY <1>0, <2>1, <2>2, BecomeForm
    <2>4. Sound(exec[e])'
        BY <1>0, <2>2, <2>3, StillCascading
    <2> QED BY <2>3, <2>4 DEF Stays
<1>5. CASE cascadeStarts(e)
    BY <1>5, <1>1, <1>2 DEF cascadeStarts
<1>6. CASE cascadeLists(e)
    <2> DEFINE live == {c \in Children(wf) : Created(c) /\ ~IsTerminal(status[c])}
    <2>1. live \in SUBSET Children(wf) /\ rec.pc = "list"
        BY <1>6 DEF cascadeLists, At
    <2>2. Become(e, [rec EXCEPT !.pc = "cancelling", !.todo = live])
        BY <1>6 DEF cascadeLists
    <2> HIDE DEF live
    <2> QED BY <1>3, <2>1, <2>2
<1>7. CASE cascadeCancels(e)
    BY <1>7, <1>1, <1>4 DEF cascadeCancels
<1> QED BY <1>5, <1>6, <1>7

\* Every step of an execution keeps it sound.
LEMMA AdvanceStays ==
    ASSUME WalkInv, Frozen, NEW e \in Execs, Advance(e) \/ Crash(e)
    PROVE  Stays(e)
<1>0. exec \in [Execs -> ExecType]
    BY OneSound
<1>1. Return(e) => Stays(e)
    BY <1>0, ReturnForm DEF Stays
<1> QED BY <1>1, OpeningSound, LoadSound, ResumeSound, ResuspendSound, ExhaustedSound,
       EnterSound, ReserveSound, SpawnSound, SuspendSound, FailSound, CascadeSound
       DEF Advance, Crash, gatePlanApproval, completeWorkflow

\* An execution that starts, as a claim, a request or a cancel makes it.
LEMMA StartForm ==
    ASSUME exec \in [Execs -> ExecType], NEW e \in Execs,
           NEW pc \in {"opening", "poison", "resuming"}, Become(e, [Idle EXCEPT !.pc = pc])
    PROVE  /\ Stays(e) /\ exec'[e].pc = pc /\ exec'[e].cur = Idle.cur /\ exec'[e].then = Idle.then
<1> DEFINE q == [Idle EXCEPT !.pc = pc]
<1>0. Become(e, q)
    OBVIOUS
<1>1. q \in ExecType /\ q.pc = pc /\ ~q.retry /\ q.cur = Idle.cur /\ q.then = Idle.then
    BY IdleFields DEF ExecType, Pcs
<1> HIDE DEF q
<1>2. exec' \in [Execs -> ExecType] /\ exec'[e] = q /\ Others(e)
    BY <1>0, <1>1, BecomeForm
<1> QED BY <1>1, <1>2, QuietSound DEF Stays

\* A claim starts an execution or a dead-letter.
LEMMA ClaimForm ==
    ASSUME exec \in [Execs -> ExecType], NEW w \in Execs, claim(w)
    PROVE  Stays(w) /\ exec'[w].pc \in {"opening", "poison"} /\ exec'[w].cur = Idle.cur
<1>1. \E pc \in {"opening", "poison"} : Become(w, [Idle EXCEPT !.pc = pc])
    BY DEF claim
<1> QED BY <1>1, StartForm

\* A request that cancels the workflow goes on to its cascade, and so does a
\* dead-letter.
LEMMA CancelForm ==
    ASSUME exec \in [Execs -> ExecType], NEW e \in Execs, NEW pc \in {"cascade", "list"},
           Become(e, [Idle EXCEPT !.pc = pc, !.then = "return"])
    PROVE  /\ Stays(e) /\ exec'[e].pc = pc /\ exec'[e].then = "return"
           /\ exec'[e].cur = Idle.cur
<1> DEFINE g == [Idle EXCEPT !.pc = pc]
           q == [g EXCEPT !.then = "return"]
<1>0. Become(e, q)
    OBVIOUS
<1>1. g \in ExecType /\ g.pc = pc /\ ~g.retry /\ g.cur = Idle.cur
    BY IdleFields DEF ExecType, Pcs
<1> HIDE DEF g
<1>2. q \in ExecType /\ q.pc = pc /\ ~q.retry /\ q.then = "return" /\ q.cur = Idle.cur
    BY <1>1 DEF ExecType
<1> HIDE DEF q
<1>3. exec' \in [Execs -> ExecType] /\ exec'[e] = q /\ Others(e)
    BY <1>0, <1>2, BecomeForm
<1> QED BY <1>2, <1>3, QuietSound DEF Stays, Cascading

\* A dead-letter goes to the list of its cascade, with the run failed, or back.
LEMMA DeadForm ==
    ASSUME TypeOK, exec \in [Execs -> ExecType], NEW w \in Execs, deadLetterPoison(w)
    PROVE  /\ Stays(w)
           /\ \/ exec'[w] = Idle /\ UNCHANGED vars
              \/ /\ exec'[w].pc = "list" /\ exec'[w].then = "return" /\ exec'[w].cur = Idle.cur
                 /\ Update(wf, "failed") /\ status'[wf] = "failed"
<1>1. CASE Return(w) /\ UNCHANGED vars
    BY <1>1, ReturnForm DEF Stays
<1>2. CASE Update(wf, "failed") /\ Become(w, DeadLettered)
    <2>1. status'[wf] = "failed"
        BY <1>2, WfAssumption DEF Update, TypeOK
    <2> QED BY <1>2, <2>1, CancelForm DEF DeadLettered
<1> QED BY <1>1, <1>2 DEF deadLetterPoison

\* A heartbeat that stops an execution changes nothing else of it.
LEMMA StopForm ==
    ASSUME exec \in [Execs -> ExecType], NEW w \in Execs,
           exec' = [exec EXCEPT ![w].stopped = TRUE]
    PROVE  /\ exec' \in [Execs -> ExecType] /\ Others(w) /\ Alike(exec'[w], exec[w])
<1> DEFINE q == [exec[w] EXCEPT !.stopped = TRUE]
<1>1. exec[w] \in ExecType /\ exec' = [exec EXCEPT ![w] = q]
    OBVIOUS
<1>2. q \in ExecType /\ Alike(q, exec[w])
    BY <1>1 DEF ExecType, Alike
<1> HIDE DEF q
<1> QED BY <1>1, <1>2 DEF Others

\* The executions stay sound in every step.
LEMMA ExecsStep ==
    ASSUME WalkInv, Frozen, [WfNext]_wfvars
    PROVE  ExecsSound'
<1>0. spec \in Specs /\ exec \in [Execs -> ExecType] /\ \A e \in Execs : Sound(exec[e])
    BY DEF WalkInv, WfRest, ExecsSound
<1>1. ASSUME NEW e \in Execs, Stays(e) PROVE ExecsSound'
    <2>1. \A f \in Execs \ {e} : Sound(exec[f])'
        BY <1>0, <1>1, SoundKept DEF Stays, Others
    <2> QED BY <1>1, <2>1 DEF Stays, ExecsSound
<1>2. CASE UNCHANGED exec
    BY <1>0, <1>2, SoundKept DEF ExecsSound
<1>3. ASSUME NEW e \in Execs, Advance(e) \/ Crash(e) PROVE ExecsSound'
    BY <1>1, <1>3, AdvanceStays
<1>4. ASSUME NEW e \in Inline, Request(e) PROVE ExecsSound'
    <2>0. e \in Execs
        BY DEF Execs
    <2>1. Return(e) => Stays(e)
        BY <1>0, <2>0, ReturnForm DEF Stays
    <2>2. Become(e, [Idle EXCEPT !.pc = "cascade", !.then = "return"]) => Stays(e)
        BY <1>0, <2>0, CancelForm
    <2>3. \A pc \in {"opening", "resuming"} : Become(e, [Idle EXCEPT !.pc = pc]) => Stays(e)
        BY <1>0, <2>0, StartForm
    <2> QED BY <1>1, <1>4, <2>0, <2>1, <2>2, <2>3
        DEF Request, handleCancelRun, resumeChecks, resumePlanApproval, denyPlan
<1>5. ASSUME NEW w \in Pool, claim(w) PROVE ExecsSound'
    BY <1>0, <1>1, <1>5, ClaimForm DEF Execs
<1>11. ASSUME NEW w \in Pool, deadLetterPoison(w) PROVE ExecsSound'
    BY <1>0, <1>1, <1>11, DeadForm DEF Execs, WalkInv
<1>6. ASSUME NEW w \in Pool, heartbeatStops(w) PROVE ExecsSound'
    <2>0. w \in Execs
        BY DEF Execs
    <2>1. exec' \in [Execs -> ExecType] /\ Others(w) /\ Alike(exec'[w], exec[w])
        BY <1>0, <1>6, <2>0, StopForm DEF heartbeatStops
    <2>2. Sound(exec[w])'
        BY <1>0, <2>0, <2>1, SoundAlike
    <2> QED BY <1>1, <2>0, <2>1, <2>2 DEF Stays
<1>7. ASSUME NEW w \in Pool, heartbeatRenews(w) PROVE ExecsSound'
    BY <1>2, <1>7 DEF heartbeatRenews, evars
<1>8. ASSUME NEW c \in Children(wf), SubRun(c) PROVE ExecsSound'
    BY <1>2, <1>8 DEF SubRun, childStarts, cancelChild, childEnds, evars
<1>9. ASSUME createWorkflow \/ sweepWaiting \/ LeaseRunsOut \/ LeaseLapses PROVE ExecsSound'
    BY <1>2, <1>9 DEF createWorkflow, sweepWaiting, LeaseRunsOut, LeaseLapses, evars
<1>10. CASE UNCHANGED wfvars
    BY <1>2, <1>10 DEF wfvars
<1> QED BY <1>3, <1>4, <1>5, <1>6, <1>7, <1>8, <1>9, <1>10, <1>11 DEF WfNext

-------------------------------------------------------------------------------
(* Where an execution can go in a step.                                    *)

\* Where an execution stands once it has folded a step.
Walk == Cascading \cup {"idle", "exhausted", "enter", "onward", "reserve", "suspend", "fail", "complete"}

\* It walks on, with the approval that it has read.
Onward(e) == exec'[e].pc \in Walk /\ exec'[e].cur.approval \in {"none", exec[e].cur.approval}

\* A launch keeps the approval of the cursor.
LEMMA LaunchedApproval ==
    \A c \in CursorType, s \in Steps, n \in Nat :
        launched(c, s, n) \in CursorType /\ launched(c, s, n).approval = c.approval
BY LaunchedFields

\* A return, a failure, an advance and a launch are such moves.
LEMMA OnwardForms ==
    ASSUME WalkInv, NEW e \in Execs
    PROVE  /\ Return(e) => Onward(e)
           /\ Become(e, failThen(exec[e])) => Onward(e)
           /\ \A pc \in Walk : Goto(e, pc) => Onward(e)
           /\ \A s \in Graph, out \in Outs :
                 Become(e, advanceFrom(exec[e], s, out, "enter")) => Onward(e)
           /\ \A s \in Graph, n \in Nat : Become(e, launch(exec[e], s, n)) => Onward(e)
<1>0. spec \in Specs /\ exec \in [Execs -> ExecType] /\ exec[e] \in ExecType /\ exec[e].cur \in CursorType
    BY OneSound DEF ExecType
<1>1. ASSUME Return(e) PROVE Onward(e)
    BY <1>0, <1>1, ReturnForm, IdleFields DEF Onward, Walk
<1>2. ASSUME Become(e, failThen(exec[e])) PROVE Onward(e)
    BY <1>0, <1>2, BecomeForm, FailThenFields DEF Onward, Walk, Cascading
<1>3. ASSUME NEW pc \in Walk, Goto(e, pc) PROVE Onward(e)
    <2>1. pc \in Pcs
        BY DEF Walk, Pcs, Cascading
    <2> QED BY <1>0, <1>3, <2>1, GotoForm DEF Onward, SameBut
<1>4. ASSUME NEW s \in Graph, NEW out \in Outs, Become(e, advanceFrom(exec[e], s, out, "enter"))
      PROVE  Onward(e)
    <2> DEFINE q == advanceFrom(exec[e], s, out, "enter")
    <2>1. q \in ExecType /\ q.cur = DoneCursor(exec[e].cur, s, out)
          /\ q.pc \in {"fail", "complete", "enter"}
        BY <1>0, AdvanceFields
    <2>2. s \in Steps
        BY <1>0, GraphFacts
    <2>3. DoneCursor(exec[e].cur, s, out).approval = exec[e].cur.approval
        BY <1>0, <2>2, DoneFields
    <2>4. exec'[e] = q
        BY <1>0, <1>4, <2>1, BecomeForm
    <2> QED BY <2>1, <2>3, <2>4 DEF Onward, Walk
<1>5. ASSUME NEW s \in Graph, NEW n \in Nat, Become(e, launch(exec[e], s, n)) PROVE Onward(e)
    <2> DEFINE q == launch(exec[e], s, n)
    <2>1. s \in Steps
        BY <1>0, GraphFacts
    <2>2. q \in ExecType /\ q.cur = launched(exec[e].cur, s, n) /\ q.pc = "reserve"
        BY <1>0, <2>1, LaunchFields
    <2>3. launched(exec[e].cur, s, n).approval = exec[e].cur.approval
        BY <1>0, <2>1, LaunchedApproval
    <2>4. exec'[e] = q
        BY <1>0, <1>5, <2>2, BecomeForm
    <2> QED BY <2>2, <2>3, <2>4 DEF Onward, Walk
<1> QED BY <1>1, <1>2, <1>3, <1>4, <1>5

\* A record changed in other fields than its cursor and its pc.
LEMMA OnwardExcept ==
    ASSUME WalkInv, NEW e \in Execs, NEW q \in ExecType, Become(e, q),
           q.pc \in Walk, q.cur.approval = exec[e].cur.approval
    PROVE  Onward(e)
BY OneSound, BecomeForm DEF Onward

\* The resume phase walks on, or waits for the step in flight once more.
LEMMA ResumeMoves ==
    ASSUME WalkInv, NEW e \in Execs, resumeCurrentNode(e)
    PROVE  /\ At(e, "resume")
           /\ \/ Onward(e)
              \/ /\ exec'[e].pc = "resuspend" /\ exec'[e].cur = exec[e].cur
                 /\ exec[e].cur.current \in Graph
                 /\ Undecided(exec[e], exec[e].cur.current)
<1> DEFINE rec == exec[e]
<1>a. At(e, "resume")
    BY DEF resumeCurrentNode, startGraph
<1>0. /\ spec \in Specs /\ exec \in [Execs -> ExecType] /\ rec \in ExecType
      /\ rec.cur \in CursorType /\ answer \in [Runs -> Answers \cup {"none"}]
    BY OneSound DEF ExecType, WalkInv, WfRest
<1>f. /\ Become(e, failThen(exec[e])) => Onward(e)
      /\ \A pc \in Walk : Goto(e, pc) => Onward(e)
      /\ \A s \in Graph, out \in Outs :
            Become(e, advanceFrom(exec[e], s, out, "enter")) => Onward(e)
      /\ \A s \in Graph, n \in Nat : Become(e, launch(exec[e], s, n)) => Onward(e)
    BY OnwardForms
<1>w. "fail" \in Walk /\ "enter" \in Walk /\ "exhausted" \in Walk /\ "reserve" \in Walk
      /\ "cascade" \in Walk /\ "list" \in Outs
    BY DEF Walk, Cascading, Outs
<1>1. CASE startGraph(e)
    <2> DEFINE s == Head(spec.order)
               g == [exec[e] EXCEPT !.step = s]
               q == [g EXCEPT !.pc = "enter"]
    <2>1. s \in Steps
        BY <1>0, SpecAssumption
    <2>2. Become(e, q)
        BY <1>1 DEF startGraph
    <2> HIDE DEF s
    <2>3. g \in ExecType /\ g.cur = rec.cur
        BY <1>0, <2>1 DEF ExecType
    <2> HIDE DEF g
    <2>4. q \in ExecType /\ q.cur = rec.cur /\ q.pc = "enter"
        BY <2>3 DEF ExecType, Pcs
    <2> HIDE DEF q
    <2> QED BY <1>a, <1>w, <2>2, <2>4, OnwardExcept
<1>2. ASSUME NEW s \in Graph, rec.cur.current = s, s \in Steps PROVE
          /\ resumePlainNode(e, s) => Onward(e)
          /\ resumeLoopNode(e, s) => Onward(e)
          /\ resumeMapNode(e, s) => Onward(e)
          /\ resumeMapNodeAny(e, s) => Onward(e)
    <2> DEFINE n == rec.cur.nodes[s].n
               c == SpawnRunID(s, n)
    <2>1. n \in Nat
        BY <1>0, <1>2 DEF CursorType, NodeType
    <2>2. <<rec.cur, s>> \in Passed /\ Counted(rec.cur, s)
        BY <1>2, <1>a, <1>0, AtResume, GraphFacts
    <2>3. spec.steps[s].kind # "map" => answer[c] \in Outs
        <3>1. spec.steps[s].kind # "map" => c \in Children(wf)
            BY <1>0, <2>2, GraphFacts DEF Counted
        <3> QED BY <1>0, <3>1 DEF Outs, Children
    <2>4. ASSUME resumeLoopNode(e, s) PROVE Onward(e)
        <3>1. n + 1 \in Nat
            BY <2>1
        <3> QED BY <1>f, <1>w, <2>3, <2>4, <3>1 DEF resumeLoopNode
    <2>5. ASSUME resumeMapNode(e, s) PROVE Onward(e)
        BY <1>f, <1>w, <2>5 DEF resumeMapNode
    <2>6. ASSUME resumeMapNodeAny(e, s) PROVE Onward(e)
        <3> DEFINE f == [rec EXCEPT !.pc = "cascade"]
                   g == [f EXCEPT !.then = "advance"]
                   q == [g EXCEPT !.step = s]
        <3>1. Goto(e, "fail") \/ Become(e, q)
            BY <2>6 DEF resumeMapNodeAny
        <3>2. f \in ExecType /\ f.pc = "cascade" /\ f.cur = rec.cur
            BY <1>0 DEF ExecType, Pcs
        <3> HIDE DEF f
        <3>3. g \in ExecType /\ g.pc = "cascade" /\ g.cur = rec.cur
            BY <3>2 DEF ExecType
        <3> HIDE DEF g
        <3>4. q \in ExecType /\ q.pc = "cascade" /\ q.cur = rec.cur
            BY <1>2, <3>3 DEF ExecType
        <3> HIDE DEF q
        <3> QED BY <1>f, <1>w, <3>1, <3>4, OnwardExcept
    <2>7. ASSUME resumePlainNode(e, s) PROVE Onward(e)
        <3> DEFINE l == launch(rec, s, n + 1)
                   f == [l EXCEPT !.retry = TRUE]
                   q == [f EXCEPT !.code = Code(c)]
                   g == [rec EXCEPT !.pc = "exhausted"]
                   h == [g EXCEPT !.code = Code(c)]
        <3>1. \/ Become(e, advanceFrom(rec, s, answer[c], "enter")) /\ answer[c] \in Outs
              \/ Become(e, q) \/ Become(e, h)
            BY <2>3, <2>7 DEF resumePlainNode, retryNode
        <3>2. Code(c) \in {"agent_error", "cancelled"}
            BY DEF Code
        <3>3. l \in ExecType /\ l.pc = "reserve" /\ l.cur.approval = rec.cur.approval
            <4> DEFINE m == n + 1
            <4>1. m \in Nat
                BY <2>1
            <4> HIDE DEF m
            <4>2. launch(rec, s, m) \in ExecType /\ launch(rec, s, m).pc = "reserve"
                  /\ launch(rec, s, m).cur = launched(rec.cur, s, m)
                BY <1>0, <1>2, <4>1, LaunchFields
            <4>3. launched(rec.cur, s, m).approval = rec.cur.approval
                BY <1>0, <1>2, <4>1, LaunchedApproval
            <4> QED BY <4>2, <4>3 DEF m
        <3> HIDE DEF l
        <3>4. f \in ExecType /\ f.pc = "reserve" /\ f.cur.approval = rec.cur.approval
            BY <3>3 DEF ExecType
        <3> HIDE DEF f
        <3>5. q \in ExecType /\ q.pc = "reserve" /\ q.cur.approval = rec.cur.approval
            BY <3>2, <3>4 DEF ExecType
        <3> HIDE DEF q
        <3>6. g \in ExecType /\ g.pc = "exhausted" /\ g.cur = rec.cur
            BY <1>0 DEF ExecType, Pcs
        <3> HIDE DEF g
        <3>7. h \in ExecType /\ h.pc = "exhausted" /\ h.cur = rec.cur
            BY <3>2, <3>6 DEF ExecType
        <3> HIDE DEF h
        <3> QED BY <1>f, <1>w, <3>1, <3>5, <3>7, OnwardExcept
    <2> QED BY <2>4, <2>5, <2>6, <2>7
<1>3. ASSUME NEW s \in Graph, rec.cur.current = s, s \in Steps,
             Become(e, [rec EXCEPT !.pc = "resuspend", !.step = s])
      PROVE  exec'[e].pc = "resuspend" /\ exec'[e].cur = rec.cur
    <2> DEFINE g == [rec EXCEPT !.pc = "resuspend"]
               q == [g EXCEPT !.step = s]
    <2>1. g \in ExecType /\ g.pc = "resuspend" /\ g.cur = rec.cur
        BY <1>0 DEF ExecType, Pcs
    <2>2. Become(e, q)
        BY <1>3
    <2> HIDE DEF g
    <2>3. q \in ExecType /\ q.pc = "resuspend" /\ q.cur = rec.cur
        BY <1>3, <2>1 DEF ExecType
    <2> HIDE DEF q
    <2> QED BY <1>0, <2>2, <2>3, BecomeForm
<1>4. \A s \in Graph : s \in Steps
    BY <1>0, GraphFacts
<1> QED BY <1>a, <1>1, <1>2, <1>3, <1>4 DEF resumeCurrentNode, Graph

\* The entry into a step walks on.
LEMMA EnterMoves ==
    ASSUME WalkInv, NEW e \in Execs, enterNode(e)
    PROVE  Onward(e)
<1> DEFINE rec == exec[e]
           s == rec.step
           st == spec.steps[s]
<1>0. /\ spec \in Specs /\ exec \in [Execs -> ExecType] /\ rec \in ExecType
      /\ Sound(rec) /\ rec.pc \in {"enter", "onward"}
    BY OneSound DEF enterNode, At
<1>1. s \in Graph /\ rec.cur \in CursorType
    BY <1>0 DEF Sound, EnterOK, Passed
<1>2. s \in Steps /\ st.size \in Nat
    BY <1>0, <1>1, GraphFacts DEF StepType
<1>w. {"fail", "complete", "onward", "reserve"} \subseteq Walk
    BY DEF Walk
<1>c. \A n \in Nat : /\ launched(rec.cur, s, n) \in CursorType
                     /\ launched(rec.cur, s, n).approval = rec.cur.approval
    BY <1>1, <1>2, LaunchedApproval
<1>3. CASE Return(e)
    BY <1>3, OnwardForms
<1>4. CASE Become(e, launch(rec, s, 0))
    BY <1>1, <1>4, OnwardForms
<1>5. CASE Become(e, advanceFrom([rec EXCEPT !.cur = launched(@, s, 0)], s, "list", "onward"))
    <2> DEFINE c == launched(rec.cur, s, 0)
               r == [rec EXCEPT !.cur = c]
               q == advanceFrom(r, s, "list", "onward")
    <2>1. c \in CursorType /\ c.approval = rec.cur.approval
        BY <1>c
    <2>2. Become(e, q)
        BY <1>5
    <2> HIDE DEF c
    <2>3. r \in ExecType /\ r.cur = c
        BY <1>0, <2>1 DEF ExecType
    <2> HIDE DEF r
    <2>4. q \in ExecType /\ q.cur = DoneCursor(c, s, "list") /\ q.pc \in {"fail", "complete", "onward"}
        BY <1>0, <1>1, <2>3, AdvanceFields DEF Outs
    <2>5. DoneCursor(c, s, "list").approval = rec.cur.approval
        BY <1>2, <2>1, DoneFields DEF Outs
    <2> HIDE DEF q
    <2> QED BY <1>w, <2>2, <2>4, <2>5, OnwardExcept
<1>6. CASE Become(e, [rec EXCEPT !.cur = launched(@, s, st.size), !.i = 0, !.pc = "reserve"])
    <2> DEFINE c == launched(rec.cur, s, st.size)
               f == [rec EXCEPT !.cur = c]
               g == [f EXCEPT !.i = 0]
               q == [g EXCEPT !.pc = "reserve"]
    <2>1. c \in CursorType /\ c.approval = rec.cur.approval
        BY <1>2, <1>c
    <2>2. Become(e, q)
        BY <1>6
    <2> HIDE DEF c
    <2>3. f \in ExecType /\ f.cur = c
        BY <1>0, <2>1 DEF ExecType
    <2> HIDE DEF f
    <2>4. g \in ExecType /\ g.cur = c
        BY <2>3 DEF ExecType
    <2> HIDE DEF g
    <2>5. q \in ExecType /\ q.cur = c /\ q.pc = "reserve"
        BY <2>4 DEF ExecType, Pcs
    <2> HIDE DEF q
    <2> QED BY <1>w, <2>1, <2>2, <2>5, OnwardExcept
<1> QED BY <1>3, <1>4, <1>5, <1>6 DEF enterNode

\* So do the handler, the launch and the end of the workflow.
LEMMA LaunchMoves ==
    ASSUME WalkInv, NEW e \in Execs,
           \/ defensiveResuspend(e) \/ exhausted(e) \/ spawnWorkflowNode(e)
           \/ suspendOnChildren(e) \/ failWorkflow(e) \/ completeWorkflow(e)
    PROVE  Onward(e)
<1> DEFINE rec == exec[e]
<1>0. spec \in Specs /\ exec \in [Execs -> ExecType] /\ rec \in ExecType /\ Sound(rec)
    BY OneSound
<1>f. /\ Return(e) => Onward(e)
      /\ Become(e, failThen(exec[e])) => Onward(e)
      /\ \A pc \in Walk : Goto(e, pc) => Onward(e)
    BY OnwardForms
<1>w. {"fail", "suspend", "enter", "reserve", "exhausted"} \subseteq Walk
    BY DEF Walk
<1>1. CASE defensiveResuspend(e) \/ suspendOnChildren(e) \/ completeWorkflow(e)
    BY <1>1, <1>f, <1>w DEF defensiveResuspend, suspendOnChildren, completeWorkflow
<1>2. CASE exhausted(e)
    <2> DEFINE s == rec.cur.current
               h == routeCatch(s, rec.code)
               d == DoneCursor(rec.cur, s, "null")
               f == [rec EXCEPT !.cur = d]
               g == [f EXCEPT !.step = h]
               q == [g EXCEPT !.pc = "enter"]
    <2>0. <<s, rec.code>> \in ExhaustedSteps
        BY <1>0, <1>2 DEF Sound, ExhaustedOK, exhausted, At
    <2>1. s \in Graph /\ rec.code \in Codes
        BY <1>0, <2>0, HandlerReached
    <2>2. h \in Steps \cup {NoStep} /\ s \in Steps
        BY <1>0, <2>1, HandlerListed, GraphFacts DEF Codes
    <2>3. d \in CursorType /\ d.approval = rec.cur.approval
        BY <1>0, <2>2, DoneFields DEF Outs, ExecType
    <2>4. Become(e, q) \/ Become(e, failThen(rec))
        BY <1>2 DEF exhausted, DoneCursor
    <2> HIDE DEF d, h
    <2>5. f \in ExecType /\ f.cur = d
        BY <1>0, <2>3 DEF ExecType
    <2> HIDE DEF f
    <2>6. g \in ExecType /\ g.cur = d
        BY <2>2, <2>5 DEF ExecType
    <2> HIDE DEF g
    <2>7. q \in ExecType /\ q.cur = d /\ q.pc = "enter"
        BY <2>6 DEF ExecType, Pcs
    <2> HIDE DEF q
    <2> QED BY <1>f, <1>w, <2>3, <2>4, <2>7, OnwardExcept
<1>3. CASE spawnWorkflowNode(e)
    <2> DEFINE g == [rec EXCEPT !.i = rec.i + 1]
               q == [g EXCEPT !.pc = "reserve"]
               r == [rec EXCEPT !.pc = "suspend"]
    <2>1. Become(e, q) \/ Become(e, r)
        BY <1>3 DEF spawnWorkflowNode
    <2>2. g \in ExecType /\ g.cur = rec.cur
        BY <1>0 DEF ExecType
    <2> HIDE DEF g
    <2>3. q \in ExecType /\ q.cur = rec.cur /\ q.pc = "reserve"
        BY <2>2 DEF ExecType, Pcs
    <2>4. r \in ExecType /\ r.cur = rec.cur /\ r.pc = "suspend"
        BY <1>0 DEF ExecType, Pcs
    <2> HIDE DEF q, r
    <2> QED BY <1>w, <2>1, <2>3, <2>4, OnwardExcept
<1>4. CASE failWorkflow(e)
    <2> DEFINE g == [rec EXCEPT !.retry = FALSE]
               q == [g EXCEPT !.pc = "exhausted"]
    <2>1. Become(e, q) \/ Return(e)
        BY <1>4 DEF failWorkflow
    <2>2. g \in ExecType /\ g.cur = rec.cur
        BY <1>0 DEF ExecType
    <2> HIDE DEF g
    <2>3. q \in ExecType /\ q.cur = rec.cur /\ q.pc = "exhausted"
        BY <2>2 DEF ExecType, Pcs
    <2> HIDE DEF q
    <2> QED BY <1>f, <1>w, <2>1, <2>3, OnwardExcept
<1> QED BY <1>1, <1>2, <1>3, <1>4

\* A cascade walks on; the one of a cancel request ends with the request.
LEMMA CascadeMoves ==
    ASSUME WalkInv, NEW e \in Execs,
           cascadeStarts(e) \/ cascadeLists(e) \/ cascadeCancels(e)
    PROVE  /\ Onward(e) /\ exec[e].pc \in Cascading
           /\ exec[e].then = "return" =>
                 exec'[e].pc = "idle" \/ (exec'[e].pc \in Cascading /\ exec'[e].then = "return")
<1> DEFINE rec == exec[e]
           Kept(q) == /\ q \in ExecType /\ q.pc \in Cascading /\ q.cur = rec.cur
                      /\ q.then = rec.then
<1>0. /\ spec \in Specs /\ exec \in [Execs -> ExecType] /\ rec \in ExecType
      /\ CascadeOK(rec) /\ rec.pc \in Cascading
    BY OneSound DEF cascadeStarts, cascadeLists, cascadeCancels, At, Cascading, Sound
<1>k. ASSUME NEW q, Kept(q), Become(e, q) PROVE
          Onward(e) /\ exec'[e].pc \in Cascading /\ exec'[e].then = rec.then
    BY <1>0, <1>k, BecomeForm DEF Onward, Walk
<1>a. ASSUME Become(e, AfterCascade(rec))
      PROVE  Onward(e) /\ (rec.then = "return" => exec'[e].pc = "idle")
    <2>1. CASE rec.then = "return"
        <3>1. Return(e)
            BY <1>a, <2>1 DEF AfterCascade, Return
        <3> QED BY <1>0, <3>1, OnwardForms, ReturnForm, IdleFields
    <2>2. CASE rec.then = "fail"
        <3> DEFINE g == [rec EXCEPT !.pc = "fail"]
                   q == [g EXCEPT !.todo = {}]
        <3>1. Become(e, q)
            BY <1>a, <2>2 DEF AfterCascade
        <3>2. g \in ExecType /\ g.pc = "fail" /\ g.cur = rec.cur
            BY <1>0 DEF ExecType, Pcs
        <3> HIDE DEF g
        <3>3. q \in ExecType /\ q.pc = "fail" /\ q.cur = rec.cur
            BY <3>2 DEF ExecType
        <3> HIDE DEF q
        <3> QED BY <2>2, <3>1, <3>3, OnwardExcept DEF Walk
    <2>3. CASE rec.then = "advance"
        <3> DEFINE s == rec.step
                   a == advanceFrom(rec, s, "list", "enter")
                   q == [a EXCEPT !.todo = {}]
        <3>1. s \in Graph
            BY <1>0, <2>3 DEF CascadeOK, WonMaps
        <3>2. a \in ExecType /\ a.cur = DoneCursor(rec.cur, s, "list")
              /\ a.pc \in {"fail", "complete", "enter"}
            BY <1>0, <3>1, AdvanceFields DEF Outs
        <3>3. DoneCursor(rec.cur, s, "list").approval = rec.cur.approval
            BY <1>0, <3>1, GraphFacts, DoneFields DEF Outs, ExecType
        <3>4. Become(e, q)
            BY <1>a, <2>3 DEF AfterCascade
        <3> HIDE DEF a
        <3>5. q \in ExecType /\ q.pc = a.pc /\ q.cur = a.cur
            BY <3>2 DEF ExecType
        <3> HIDE DEF q
        <3> QED BY <2>3, <3>2, <3>3, <3>4, <3>5, OnwardExcept DEF Walk
    <2> QED BY <1>0, <2>1, <2>2, <2>3 DEF CascadeOK
<1>1. CASE cascadeStarts(e)
    <2>1. CASE Goto(e, "list")
        <3>1. exec'[e].pc = "list" /\ SameBut(e)
            BY <1>0, <2>1, GotoForm DEF Pcs
        <3> QED BY <1>0, <3>1 DEF Onward, Walk, Cascading, SameBut, Keeps
    <2> QED BY <1>0, <1>1, <1>a, <2>1 DEF cascadeStarts
<1>2. CASE cascadeLists(e)
    <2> DEFINE live == {c \in Children(wf) : Created(c) /\ ~IsTerminal(status[c])}
               g == [rec EXCEPT !.pc = "cancelling"]
               q == [g EXCEPT !.todo = live]
    <2>1. live \in SUBSET Children(wf) /\ Become(e, q)
        BY <1>2 DEF cascadeLists
    <2> HIDE DEF live
    <2>2. g \in ExecType /\ g.pc = "cancelling" /\ g.cur = rec.cur /\ g.then = rec.then
        BY <1>0 DEF ExecType, Pcs
    <2> HIDE DEF g
    <2>3. q \in ExecType /\ q.pc = "cancelling" /\ q.cur = rec.cur /\ q.then = rec.then
        BY <2>1, <2>2 DEF ExecType
    <2> HIDE DEF q
    <2> QED BY <1>0, <1>k, <2>1, <2>3 DEF Cascading
<1>3. CASE cascadeCancels(e)
    <2>1. ASSUME NEW c \in rec.todo, Become(e, [rec EXCEPT !.todo = @ \ {c}])
          PROVE  Onward(e) /\ exec'[e].pc \in Cascading /\ exec'[e].then = rec.then
        <3> DEFINE todo == rec.todo \ {c}
                   q == [rec EXCEPT !.todo = todo]
        <3>1. todo \in SUBSET Children(wf) /\ Become(e, q)
            BY <1>0, <2>1 DEF ExecType
        <3> HIDE DEF todo
        <3>2. q \in ExecType /\ q.pc = rec.pc /\ q.cur = rec.cur /\ q.then = rec.then
            BY <1>0, <3>1 DEF ExecType
        <3> HIDE DEF q
        <3> QED BY <1>0, <1>k, <3>1, <3>2
    <2> QED BY <1>0, <1>3, <1>a, <2>1 DEF cascadeCancels
<1> QED BY <1>0, <1>1, <1>2, <1>3

\* Where one step of an execution can lead, from where it stands.
Moves(e) ==
    \/ /\ exec[e].pc = "opening" /\ exec'[e].pc \in {"idle", "load"}
       /\ exec'[e].cur.approval \in {"none", exec[e].cur.approval}
    \/ /\ exec[e].pc = "load" /\ exec'[e].cur = cursor
       /\ exec'[e].pc = IF gatePending(cursor) /\ fresh(cursor) THEN "gate" ELSE "resume"
    \/ exec[e].pc \in {"load", "gate"} /\ exec'[e] = Idle
    \/ /\ exec[e].pc = "resume" /\ exec'[e].pc = "resuspend" /\ exec'[e].cur = exec[e].cur
       /\ exec[e].cur.current \in Graph /\ Undecided(exec[e], exec[e].cur.current)
    \/ /\ exec[e].pc = "reserve" /\ exec'[e].pc = "spawn" /\ exec'[e].cur = exec[e].cur
       /\ reserveNodeSpawn(exec[e])
    \/ /\ exec[e].pc \in Cascading /\ Onward(e)
       /\ exec[e].then = "return" =>
             exec'[e].pc = "idle" \/ (exec'[e].pc \in Cascading /\ exec'[e].then = "return")
    \/ /\ exec[e].pc \notin {"idle", "poison", "opening", "load", "gate", "resuming"} \cup Cascading
       /\ Onward(e)

\* Every step of an execution is one of these.
LEMMA AdvanceMoves ==
    ASSUME WalkInv, NEW e \in Execs, Advance(e)
    PROVE  Moves(e)
<1> DEFINE rec == exec[e]
<1>0. /\ spec \in Specs /\ exec \in [Execs -> ExecType] /\ rec \in ExecType
      /\ cursor \in CursorType
    BY OneSound DEF GoodCursors
<1>f. /\ Return(e) => exec'[e] = Idle /\ Onward(e)
      /\ Become(e, failThen(exec[e])) => Onward(e)
      /\ \A pc \in Walk : Goto(e, pc) => Onward(e)
    BY <1>0, OnwardForms, ReturnForm
<1>1. CASE opening(e)
    <2>1. CASE Goto(e, "load")
        BY <1>0, <1>1, <2>1, GotoForm DEF Pcs, SameBut, Moves, opening, At
    <2>2. CASE Return(e)
        BY <1>f, <1>1, <2>2, IdleFields DEF Moves, opening, At
    <2> QED BY <1>1, <2>1, <2>2 DEF opening
<1>2. CASE load(e)
    <2>1. CASE Return(e)
        BY <1>f, <1>2, <2>1 DEF Moves, load, At
    <2>2. ASSUME NEW pc \in {"gate", "resume"}, Become(e, [rec EXCEPT !.cur = cursor, !.pc = pc])
          PROVE  exec'[e].cur = cursor /\ exec'[e].pc = pc
        <3> DEFINE g == [rec EXCEPT !.cur = cursor]
                   q == [g EXCEPT !.pc = pc]
        <3>1. g \in ExecType /\ g.cur = cursor
            BY <1>0 DEF ExecType
        <3>2. Become(e, q)
            BY <2>2
        <3> HIDE DEF g
        <3>3. q \in ExecType /\ q.cur = cursor /\ q.pc = pc
            BY <3>1 DEF ExecType, Pcs
        <3> HIDE DEF q
        <3> QED BY <1>0, <3>2, <3>3, BecomeForm
    <2> QED BY <1>2, <2>1, <2>2 DEF load, Moves, At
<1>3. CASE gatePlanApproval(e)
    BY <1>f, <1>3 DEF gatePlanApproval, Moves, At
<1>4. CASE resumeCurrentNode(e)
    BY <1>4, ResumeMoves DEF Moves, At, Cascading
<1>5. CASE enterNode(e)
    BY <1>5, EnterMoves DEF Moves, At, Cascading, enterNode
<1>6. CASE reserve(e)
    <2>1. CASE reserveNodeSpawn(rec) /\ Goto(e, "spawn")
        BY <1>0, <1>6, <2>1, GotoForm DEF Pcs, SameBut, Moves, reserve, At
    <2>2. CASE Goto(e, "fail") \/ Become(e, failThen(rec))
        BY <1>f, <1>6, <2>2 DEF Moves, reserve, At, Cascading, Walk
    <2> QED BY <1>6, <2>1, <2>2 DEF reserve
<1>7. CASE \/ defensiveResuspend(e) \/ exhausted(e) \/ spawnWorkflowNode(e)
           \/ suspendOnChildren(e) \/ failWorkflow(e) \/ completeWorkflow(e)
    <2>1. Onward(e)
        BY <1>7, LaunchMoves
    <2> QED BY <1>7, <2>1
        DEF Moves, At, Cascading, defensiveResuspend, exhausted, spawnWorkflowNode,
            suspendOnChildren, failWorkflow, completeWorkflow
<1>8. CASE cascadeStarts(e) \/ cascadeLists(e) \/ cascadeCancels(e)
    BY <1>8, CascadeMoves DEF Moves
<1> QED BY <1>1, <1>2, <1>3, <1>4, <1>5, <1>6, <1>7, <1>8 DEF Advance

-------------------------------------------------------------------------------
(* The rows.                                                               *)

\* The operations of the store that insert no row.
LEMMA NoNewRow ==
    ASSUME TypeOK, NEW r \in Runs,
           \/ \E to : Update(r, to) \/ (r # wf /\ CompleteAndWake(r, to))
           \/ \E kids, mode : Suspend(r, kids, mode)
           \/ \E w : ClaimQueued(w, r) \/ ClaimReclaimable(w, r) \/ Heartbeat(w, r)
           \/ SweepWaiting(r) \/ ExpireLease(r) \/ ReserveSpawn(r),
           NEW x \in Runs, Created(x)'
    PROVE  Created(x)
<1> USE DEF Created, Absent, TypeOK
<1>1. ASSUME NEW to, CompleteAndWake(r, to) PROVE Created(x)
    BY <1>1 DEF CompleteAndWake, WakeWaiters, Woken, Waiters
<1>2. ASSUME NEW to, Update(r, to) PROVE Created(x)
    BY <1>2 DEF Update
<1>3. ASSUME NEW kids, NEW mode, Suspend(r, kids, mode) PROVE Created(x)
    BY <1>3 DEF Suspend, MaySuspend
<1>4. ASSUME NEW w, ClaimQueued(w, r) \/ ClaimReclaimable(w, r) \/ Heartbeat(w, r) PROVE Created(x)
    BY <1>4 DEF ClaimQueued, ClaimReclaimable, Heartbeat
<1>5. ASSUME SweepWaiting(r) \/ ExpireLease(r) \/ ReserveSpawn(r) PROVE Created(x)
    BY <1>5 DEF SweepWaiting, ExpireLease, ReserveSpawn
<1> QED BY <1>1, <1>2, <1>3, <1>4, <1>5

\* A sub-run that is new was inserted by an execution at its spawn.
LEMMA NewSubRun ==
    ASSUME WalkInv, [WfNext]_wfvars, NEW c \in Children(wf), Created(c)', ~Created(c)
    PROVE  \E e \in Execs : /\ exec[e].pc = "spawn" /\ c = SpawnRunID(exec[e].step, exec[e].i)
                            /\ spawnWorkflowNode(e)
<1>0. /\ TypeOK /\ wf \in Runs /\ Children(wf) \subseteq Runs /\ c \in Runs /\ c # wf
      /\ \A e \in Execs : exec[e].todo \subseteq Runs
    BY WfAssumption, ParentAssumption DEF WalkInv, Children, ExecsSound, ExecType
<1>n. /\ UNCHANGED vars => FALSE
      /\ \A r \in Runs : \A to : ~Update(r, to)
      /\ \A r \in Children(wf) : \A to : ~CompleteAndWake(r, to)
      /\ \A kids, mode : ~Suspend(wf, kids, mode)
      /\ \A r \in Runs : \A w : ~ClaimQueued(w, r) /\ ~ClaimReclaimable(w, r) /\ ~Heartbeat(w, r)
      /\ ~SweepWaiting(wf) /\ ~ExpireLease(wf) /\ ~ReserveSpawn(wf)
    <2>1. ~(UNCHANGED vars)
        BY DEF vars, Created
    <2>2. \A r \in Children(wf) : r \in Runs /\ r # wf
        BY WfAssumption, ParentAssumption DEF Children
    <2> QED BY <1>0, <2>1, <2>2, NoNewRow
<1>1. ASSUME NEW e \in Execs, Advance(e) PROVE
          exec[e].pc = "spawn" /\ c = SpawnRunID(exec[e].step, exec[e].i) /\ spawnWorkflowNode(e)
    <2>1. ASSUME spawnWorkflowNode(e) PROVE exec[e].pc = "spawn" /\ c = SpawnRunID(exec[e].step, exec[e].i)
        <3>1. Create(SpawnRunID(exec[e].step, exec[e].i)) /\ exec[e].pc = "spawn"
            BY <1>n, <2>1 DEF spawnWorkflowNode, At
        <3> DEFINE d == SpawnRunID(exec[e].step, exec[e].i)
        <3>2. Create(d)
            BY <3>1
        <3> HIDE DEF d
        <3>3. c = d
            BY <1>0, <3>2 DEF Create, Created, TypeOK
        <3> QED BY <3>1, <3>3 DEF d
    <2> QED BY <1>n, <1>0, <1>1, <2>1
        DEF Advance, opening, load, gatePlanApproval, resumeCurrentNode, defensiveResuspend,
            exhausted, enterNode, reserve, reserveNodeSpawn, suspendOnChildren, failWorkflow,
            completeWorkflow, cascadeStarts, cascadeLists, cascadeCancels
<1>2. ASSUME NEW e \in Execs, Crash(e) PROVE FALSE
    BY <1>n, <1>2 DEF Crash
<1>3. ASSUME NEW e \in Inline, Request(e) PROVE FALSE
    BY <1>0, <1>n, <1>3 DEF Request, handleCancelRun, resumeChecks, resumePlanApproval, denyPlan
<1>4. ASSUME NEW w \in Pool, claim(w) \/ deadLetterPoison(w) \/ heartbeatRenews(w) \/ heartbeatStops(w) PROVE FALSE
    BY <1>0, <1>n, <1>4 DEF claim, deadLetterPoison, heartbeatRenews, heartbeatStops
<1>5. ASSUME NEW d \in Children(wf), SubRun(d) PROVE FALSE
    BY <1>0, <1>n, <1>5 DEF SubRun, childStarts, cancelChild, childEnds
<1>6. ASSUME sweepWaiting \/ LeaseRunsOut \/ LeaseLapses PROVE FALSE
    BY <1>0, <1>n, <1>6 DEF sweepWaiting, LeaseRunsOut, LeaseLapses
<1>7. ASSUME createWorkflow PROVE FALSE
    BY <1>0, <1>7 DEF createWorkflow, Create, Created, TypeOK
<1>8. CASE UNCHANGED wfvars
    BY <1>n, <1>8 DEF wfvars, vars
<1> QED BY <1>1, <1>2, <1>3, <1>4, <1>5, <1>6, <1>7, <1>8 DEF WfNext

\* Every sub-run was due when it was inserted, and still is.
LEMMA LaunchedStep ==
    ASSUME WalkInv, Frozen, [WfNext]_wfvars
    PROVE  Launched'
<1>0. spec \in Specs /\ DueRuns \subseteq DueRuns'
    BY FactsKept DEF WalkInv, WfRest
<1> SUFFICES ASSUME NEW c \in Children(wf), Created(c)' PROVE c \in DueRuns'
    BY DEF Launched, Children
<1>1. CASE Created(c)
    BY <1>0, <1>1 DEF WalkInv, Launched
<1>2. CASE ~Created(c)
    <2>1. PICK e \in Execs : exec[e].pc = "spawn" /\ c = SpawnRunID(exec[e].step, exec[e].i)
        BY <1>2, NewSubRun
    <2>2. c \in DueRuns
        BY <2>1, AtLaunch DEF Launching
    <2> QED BY <1>0, <2>2
<1> QED BY <1>1, <1>2

-------------------------------------------------------------------------------
(* The rest of the invariant.                                              *)

\* What is written as the cursor: a copy at its gate or at its suspend, or the
\* approval.
LEMMA CursorWrites ==
    ASSUME WalkInv, [WfNext]_wfvars
    PROVE  \/ cursor' = cursor
           \/ \E e \in Execs : gatePlanApproval(e) /\ exec[e].pc = "gate" /\ cursor' = exec[e].cur
           \/ \E e \in Execs : suspendOnChildren(e) /\ exec[e].pc = "suspend" /\ cursor' = exec[e].cur
           \/ \E e \in Inline : /\ resumePlanApproval(e) /\ exec[e].pc = "resuming"
                                /\ cursor' = [cursor EXCEPT !.approval = "approved"]
                                /\ approved'
<1> DEFINE Goal == \/ cursor' = cursor
                   \/ \E e \in Execs : gatePlanApproval(e) /\ exec[e].pc = "gate" /\ cursor' = exec[e].cur
                   \/ \E e \in Execs : suspendOnChildren(e) /\ exec[e].pc = "suspend" /\ cursor' = exec[e].cur
                   \/ \E e \in Inline : /\ resumePlanApproval(e) /\ exec[e].pc = "resuming"
                                        /\ cursor' = [cursor EXCEPT !.approval = "approved"]
                                        /\ approved'
<1>1. ASSUME NEW e \in Execs, Advance(e) \/ Crash(e) PROVE Goal
    BY <1>1 DEF Advance, Crash, opening, load, gatePlanApproval, resumeCurrentNode,
       defensiveResuspend, exhausted, enterNode, reserve, spawnWorkflowNode, suspendOnChildren,
       failWorkflow, completeWorkflow, cascadeStarts, cascadeLists, cascadeCancels, At
<1>2. ASSUME NEW e \in Inline, Request(e) PROVE Goal
    BY <1>2 DEF Request, handleCancelRun, resumeChecks, resumePlanApproval, denyPlan, At
<1>3. ASSUME NEW w \in Pool, claim(w) \/ deadLetterPoison(w) \/ heartbeatRenews(w) \/ heartbeatStops(w) PROVE Goal
    BY <1>3 DEF claim, deadLetterPoison, heartbeatRenews, heartbeatStops, evars
<1>4. ASSUME NEW c \in Children(wf), SubRun(c) PROVE Goal
    BY <1>4 DEF SubRun, childStarts, cancelChild, childEnds, evars
<1>5. ASSUME createWorkflow \/ sweepWaiting \/ LeaseRunsOut \/ LeaseLapses PROVE Goal
    BY <1>5 DEF createWorkflow, sweepWaiting, LeaseRunsOut, LeaseLapses, evars
<1>6. CASE UNCHANGED wfvars
    BY <1>6 DEF wfvars
<1> QED BY <1>1, <1>2, <1>3, <1>4, <1>5, <1>6 DEF WfNext

\* The approval changes nothing else of the cursor.
LEMMA ApprovedFields ==
    ASSUME NEW c \in CursorType
    PROVE  LET d == [c EXCEPT !.approval = "approved"]
           IN  /\ d \in CursorType /\ d.approval = "approved"
               /\ d.current = c.current /\ d.nodes = c.nodes
BY DEF CursorType

\* The persisted cursor stays sound.
LEMMA CursorStep ==
    ASSUME WalkInv, Frozen, [WfNext]_wfvars
    PROVE  CursorSound'
<1>0. spec \in Specs /\ cursor \in GoodCursors /\ GoodCursors' = GoodCursors /\ CursorType' = CursorType
    BY FactsKept DEF WalkInv, WfRest, CursorSound, GoodCursors, CursorType
<1> SUFFICES cursor' \in GoodCursors
    BY <1>0 DEF CursorSound, GoodCursors
<1>1. CASE cursor' = cursor
    BY <1>0, <1>1
<1>2. ASSUME NEW e \in Execs, exec[e].pc \in {"gate", "suspend"}, cursor' = exec[e].cur
      PROVE  cursor' \in GoodCursors
    BY <1>2, OneSound DEF Sound, ResumeOK, LaunchOK, Launching
<1>3. CASE cursor' = [cursor EXCEPT !.approval = "approved"]
    <2> DEFINE d == [cursor EXCEPT !.approval = "approved"]
    <2>1. cursor \in CursorType /\ CursorOK(cursor)
        BY <1>0 DEF GoodCursors
    <2>2. d \in CursorType /\ d.current = cursor.current /\ d.nodes = cursor.nodes
        BY <2>1, ApprovedFields
    <2> HIDE DEF d
    <2>3. CursorOK(d)
        BY <2>1, <2>2 DEF CursorOK, fresh, Counted, Behind, StepDone
    <2> QED BY <1>3, <2>2, <2>3 DEF GoodCursors, d
<1> QED BY <1>1, <1>2, <1>3, CursorWrites

\* The types of the other variables.
LEMMA RestStep ==
    ASSUME WalkInv, Frozen, [WfNext]_wfvars
    PROVE  WfRest'
<1>0. /\ spec \in Specs /\ answer \in [Runs -> Answers \cup {"none"}]
      /\ approved \in BOOLEAN /\ lapsed \in BOOLEAN /\ faults \in 0..MaxFaults[spec]
      /\ MaxFaults[spec] \in Nat /\ spec' = spec
    BY WfAssumption DEF WalkInv, WfRest, Frozen
<1> DEFINE Goal == /\ answer' \in [Runs -> Answers \cup {"none"}]
                   /\ approved' \in BOOLEAN /\ lapsed' \in BOOLEAN /\ faults' \in 0..MaxFaults[spec]
<1>u. Fault => faults' \in 0..MaxFaults[spec]
    BY <1>0 DEF Fault
<1>1. ASSUME NEW e \in Execs, Advance(e) \/ Crash(e) PROVE Goal
    BY <1>0, <1>1, <1>u DEF Advance, Crash, opening, load, gatePlanApproval, resumeCurrentNode,
       defensiveResuspend, exhausted, enterNode, reserve, spawnWorkflowNode, suspendOnChildren,
       failWorkflow, completeWorkflow, cascadeStarts, cascadeLists, cascadeCancels
<1>2. ASSUME NEW e \in Inline, Request(e) PROVE Goal
    BY <1>0, <1>2, <1>u DEF Request, handleCancelRun, resumeChecks, resumePlanApproval, denyPlan
<1>3. ASSUME NEW w \in Pool, claim(w) \/ deadLetterPoison(w) \/ heartbeatRenews(w) \/ heartbeatStops(w) PROVE Goal
    BY <1>0, <1>3 DEF claim, deadLetterPoison, heartbeatRenews, heartbeatStops, evars
<1>4. ASSUME NEW c \in Children(wf), SubRun(c) PROVE Goal
    BY <1>0, <1>4, <1>u DEF SubRun, childStarts, cancelChild, childEnds, evars
<1>5. ASSUME createWorkflow \/ sweepWaiting \/ LeaseRunsOut \/ LeaseLapses PROVE Goal
    BY <1>0, <1>5, <1>u DEF createWorkflow, sweepWaiting, LeaseRunsOut, LeaseLapses, evars
<1>6. ASSUME UNCHANGED wfvars PROVE Goal
    BY <1>0, <1>6 DEF wfvars
<1>7. Goal
    BY <1>1, <1>2, <1>3, <1>4, <1>5, <1>6 DEF WfNext
<1> QED BY <1>0, <1>7 DEF WfRest

\* The row of the workflow, as far as its steps tell it apart, stays as it is.
RowKept ==
    /\ status'[wf] = status[wf] /\ worker'[wf] = worker[wf] /\ lease'[wf] = lease[wf]
    /\ waitMode'[wf] = waitMode[wf] /\ parkedOn'[wf] = parkedOn[wf]

\* The insert, the claim and the plain update of a sub-run leave that row alone.
LEMMA OtherRow ==
    ASSUME TypeOK, NEW c \in Runs \ {wf},
           \/ Create(c) \/ (\E to : Update(c, to)) \/ (\E w : ClaimQueued(w, c))
    PROVE  RowKept
<1> USE WfAssumption DEF TypeOK, RowKept
<1>1. CASE Create(c)
    BY <1>1 DEF Create
<1>2. ASSUME NEW to, Update(c, to) PROVE RowKept
    BY <1>2 DEF Update, ClearWait, Forget
<1>3. ASSUME NEW w, ClaimQueued(w, c) PROVE RowKept
    BY <1>3 DEF ClaimQueued, TakeLease, Forget
<1> QED BY <1>1, <1>2, <1>3

\* The end of a sub-run leaves it alone too, or wakes the workflow.
LEMMA WakeRow ==
    ASSUME TypeOK, NEW c \in Runs \ {wf}, NEW to, CompleteAndWake(c, to)
    PROVE  \/ RowKept
           \/ /\ status[wf] = "waiting" /\ status'[wf] = "queued" /\ wf \in Woken(c, to)
              /\ worker'[wf] = worker[wf] /\ lease'[wf] = lease[wf] /\ parkedOn'[wf] = parkedOn[wf]
<1> USE WfAssumption DEF TypeOK
<1>1. /\ worker'[wf] = worker[wf] /\ lease'[wf] = lease[wf] /\ parkedOn'[wf] = parkedOn[wf]
    BY DEF CompleteAndWake, WakeWaiters, Forget
<1>2. CASE wf \in Woken(c, to)
    BY <1>1, <1>2 DEF CompleteAndWake, WakeWaiters, Woken, Waiters
<1>3. CASE wf \notin Woken(c, to)
    BY <1>1, <1>3 DEF CompleteAndWake, WakeWaiters, RowKept
<1> QED BY <1>2, <1>3

\* Only the gate pauses the run, and only the end of the walk, or a dead-letter,
\* lets it succeed or fail.
LEMMA WhoDecides ==
    ASSUME WalkInv, [WfNext]_wfvars
    PROVE  \/ status'[wf] = status[wf] \/ status'[wf] \notin {"requires_action", "succeeded", "failed"}
           \/ \E e \in Execs : gatePlanApproval(e) \/ completeWorkflow(e) \/ failWorkflow(e)
           \/ \E w \in Pool : deadLetterPoison(w)
<1> SUFFICES ASSUME \A e \in Execs : ~gatePlanApproval(e) /\ ~completeWorkflow(e) /\ ~failWorkflow(e),
                    \A w \in Pool : ~deadLetterPoison(w)
             PROVE  status'[wf] = status[wf] \/ status'[wf] \notin {"requires_action", "succeeded", "failed"}
    OBVIOUS
<1> DEFINE Goal == status'[wf] = status[wf] \/ status'[wf] \notin {"requires_action", "succeeded", "failed"}
<1>0. /\ TypeOK /\ wf \in Runs /\ Children(wf) \subseteq Runs \ {wf}
      /\ \A e \in Execs : exec[e].todo \subseteq Children(wf)
      /\ status \in [Runs -> Status \cup {Absent}]
    BY WfAssumption, ParentAssumption DEF WalkInv, Children, ExecsSound, ExecType, TypeOK
<1>u. /\ UNCHANGED vars => Goal
      /\ \A to \in {"running", "cancelled"} : Update(wf, to) => Goal
      /\ \A c \in Children(wf) : Create(c) \/ (\E to : Update(c, to)) \/ (\E w : ClaimQueued(w, c)) => Goal
      /\ \A c \in Children(wf) : \A to : CompleteAndWake(c, to) => Goal
      /\ \A kids, mode : Suspend(wf, kids, mode) => Goal
      /\ Create(wf) \/ SweepWaiting(wf) \/ ExpireLease(wf) \/ ReserveSpawn(wf) => Goal
      /\ \A w : ClaimQueued(w, wf) \/ ClaimReclaimable(w, wf) \/ Heartbeat(w, wf) => Goal
    <2>1. UNCHANGED vars => Goal
        BY DEF vars
    <2>2. \A to \in {"running", "cancelled"} : Update(wf, to) => Goal
        BY <1>0 DEF Update
    <2>3. \A c \in Children(wf) : Create(c) \/ (\E to : Update(c, to)) \/ (\E w : ClaimQueued(w, c)) => Goal
        BY <1>0, OtherRow DEF RowKept
    <2>4. \A c \in Children(wf) : \A to : CompleteAndWake(c, to) => Goal
        BY <1>0, WakeRow DEF RowKept
    <2>5. \A kids, mode : Suspend(wf, kids, mode) => Goal
        BY <1>0 DEF Suspend
    <2>6. Create(wf) \/ SweepWaiting(wf) \/ ExpireLease(wf) \/ ReserveSpawn(wf) => Goal
        BY <1>0 DEF Create, SweepWaiting, ExpireLease, ReserveSpawn
    <2>7. \A w : ClaimQueued(w, wf) \/ ClaimReclaimable(w, wf) \/ Heartbeat(w, wf) => Goal
        BY <1>0 DEF ClaimQueued, ClaimReclaimable, Heartbeat
    <2> QED BY <2>1, <2>2, <2>3, <2>4, <2>5, <2>6, <2>7
<1> HIDE DEF Goal
<1>1. ASSUME NEW e \in Execs, Advance(e) PROVE Goal
    <2>1. ASSUME spawnWorkflowNode(e) PROVE Goal
        <3>1. SpawnRunID(exec[e].step, exec[e].i) \in Children(wf)
            BY <2>1, AtLaunch DEF DueRuns, spawnWorkflowNode, At, Launching
        <3> QED BY <1>u, <2>1, <3>1 DEF spawnWorkflowNode
    <2> QED BY <1>u, <1>0, <1>1, <2>1
        DEF Advance, opening, load, resumeCurrentNode, defensiveResuspend,
            exhausted, enterNode, reserve, reserveNodeSpawn, suspendOnChildren,
            cascadeStarts, cascadeLists, cascadeCancels
<1>2. ASSUME NEW e \in Execs, Crash(e) PROVE Goal
    BY <1>u, <1>2 DEF Crash
<1>3. ASSUME NEW e \in Inline, Request(e) PROVE Goal
    BY <1>u, <1>3 DEF Request, handleCancelRun, resumeChecks, resumePlanApproval, denyPlan
<1>4. ASSUME NEW w \in Pool, claim(w) \/ deadLetterPoison(w) \/ heartbeatRenews(w) \/ heartbeatStops(w) PROVE Goal
    BY <1>u, <1>4 DEF claim, deadLetterPoison, heartbeatRenews, heartbeatStops
<1>5. ASSUME NEW d \in Children(wf), SubRun(d) PROVE Goal
    BY <1>u, <1>5 DEF SubRun, childStarts, cancelChild, childEnds
<1>6. ASSUME createWorkflow \/ sweepWaiting \/ LeaseRunsOut \/ LeaseLapses PROVE Goal
    BY <1>u, <1>6 DEF createWorkflow, sweepWaiting, LeaseRunsOut, LeaseLapses
<1>7. ASSUME UNCHANGED wfvars PROVE Goal
    BY <1>u, <1>7 DEF wfvars, vars
<1>8. Goal
    BY <1>1, <1>2, <1>3, <1>4, <1>5, <1>6, <1>7 DEF WfNext
<1> QED BY <1>8 DEF Goal

\* A pause or a success, in particular.
LEMMA PausesOrSucceeds ==
    ASSUME WalkInv, [WfNext]_wfvars
    PROVE  \/ status'[wf] = status[wf] \/ status'[wf] \notin {"requires_action", "succeeded"}
           \/ \E e \in Execs : gatePlanApproval(e) \/ completeWorkflow(e)
<1>1. \A e \in Execs : failWorkflow(e) => status'[wf] = status[wf] \/ status'[wf] = "failed"
    BY WfAssumption DEF failWorkflow, Update, WalkInv, TypeOK, vars
<1>2. \A w \in Pool : deadLetterPoison(w) => status'[wf] = status[wf] \/ status'[wf] = "failed"
    BY WfAssumption DEF deadLetterPoison, Update, WalkInv, TypeOK, vars
<1> QED BY <1>1, <1>2, WhoDecides

\* Without a gate no request becomes an execution.
LEMMA UngatedStep ==
    ASSUME WalkInv, Frozen, [WfNext]_wfvars
    PROVE  Ungated'
<1>s. spec' = spec
    BY DEF Frozen
<1> SUFFICES ASSUME ~spec.gate
             PROVE  /\ ~approved' /\ status'[wf] # "requires_action" /\ cursor'.approval = "none"
                    /\ \A e \in Execs : exec'[e].cur.approval = "none"
                                        /\ exec'[e].pc \notin {"gate", "resuming"}
                    /\ \A e \in Inline : exec'[e].pc \in {"idle"} \cup Cascading
                                         /\ (exec'[e].pc # "idle" => exec'[e].then = "return")
    BY <1>s DEF Ungated, Cascading
<1>0. /\ ~approved /\ status[wf] # "requires_action" /\ cursor.approval = "none"
      /\ \A e \in Execs : exec[e].cur.approval = "none" /\ exec[e].pc \notin {"gate", "resuming"}
      /\ \A e \in Inline : exec[e].pc \in {"idle"} \cup Cascading
                           /\ (exec[e].pc # "idle" => exec[e].then = "return")
      /\ exec \in [Execs -> ExecType] /\ Inline \subseteq Execs
    BY DEF WalkInv, Ungated, ExecsSound, Execs
<1>1. status'[wf] # "requires_action"
    <2>1. \A e \in Execs : ~gatePlanApproval(e)
        BY <1>0 DEF gatePlanApproval, At
    <2>2. \A e \in Execs : completeWorkflow(e) => status'[wf] \in {status[wf], "succeeded"}
        BY WfAssumption DEF completeWorkflow, Update, vars, WalkInv, TypeOK
    <2> QED BY <1>0, <2>1, <2>2, PausesOrSucceeds
<1>r. \A e \in Inline : ~resumePlanApproval(e) /\ ~resumeChecks(e) /\ ~denyPlan(e)
    BY <1>0 DEF resumePlanApproval, resumeChecks, denyPlan, At
<1>2. cursor'.approval = "none"
    BY <1>0, <1>r, CursorWrites
<1> DEFINE One(e) == /\ exec'[e].cur.approval = "none" /\ exec'[e].pc \notin {"gate", "resuming"}
                     /\ e \in Inline => /\ exec'[e].pc \in {"idle"} \cup Cascading
                                        /\ exec'[e].pc # "idle" => exec'[e].then = "return"
           All == \A e \in Execs : One(e)
<1>k. \A e \in Execs : exec'[e] = exec[e] => One(e)
    BY <1>0
<1>3. ASSUME NEW e \in Execs, Others(e), One(e) PROVE All
    BY <1>3, <1>k DEF Others
<1>4. ASSUME NEW e \in Execs, exec'[e] = Idle PROVE One(e)
    BY <1>4, IdleFields
<1>5. ASSUME NEW e \in Execs, Advance(e) PROVE All /\ ~approved'
    <2>1. Moves(e) /\ Others(e)
        BY <1>5, AdvanceMoves, AdvanceStays DEF Stays
    <2>2. exec'[e].cur.approval = "none" /\ exec'[e].pc \notin {"gate", "resuming"}
        BY <1>0, <2>1, IdleFields
           DEF Moves, Onward, Walk, Cascading, gatePending
    <2>3. ASSUME e \in Inline
          PROVE  /\ exec'[e].pc \in {"idle"} \cup Cascading
                 /\ exec'[e].pc # "idle" => exec'[e].then = "return"
        <3>1. exec[e].pc \in {"idle"} \cup Cascading /\ (exec[e].pc # "idle" => exec[e].then = "return")
            BY <1>0, <2>3
        <3>2. exec[e].pc \in Cascading /\ exec[e].then = "return"
            BY <2>1, <3>1 DEF Moves, Cascading
        <3> QED BY <2>1, <3>2 DEF Moves, Cascading
    <2>4. ~approved'
        BY <1>0, <1>5 DEF Advance, opening, load, gatePlanApproval, resumeCurrentNode,
           defensiveResuspend, exhausted, enterNode, reserve, spawnWorkflowNode, suspendOnChildren,
           failWorkflow, completeWorkflow, cascadeStarts, cascadeLists, cascadeCancels
    <2> QED BY <1>3, <2>1, <2>2, <2>3, <2>4
<1>6. ASSUME NEW e \in Execs, Crash(e) PROVE All /\ ~approved'
    <2>1. exec'[e] = Idle /\ Others(e)
        BY <1>0, <1>6, ReturnForm DEF Crash
    <2> QED BY <1>0, <1>3, <1>4, <1>6, <2>1 DEF Crash
<1>7. ASSUME NEW e \in Inline, Request(e) PROVE All /\ ~approved'
    <2>0. handleCancelRun(e) /\ e \in Execs
        BY <1>0, <1>7, <1>r DEF Request
    <2>1. Stays(e) /\ exec'[e].pc = "cascade" /\ exec'[e].then = "return" /\ exec'[e].cur = Idle.cur
        BY <1>0, <2>0, CancelForm DEF handleCancelRun
    <2>2. One(e)
        BY <2>1, IdleFields DEF Cascading
    <2> QED BY <1>0, <1>3, <2>0, <2>1, <2>2 DEF handleCancelRun, Stays
<1>8. ASSUME NEW w \in Pool, claim(w) PROVE All /\ ~approved'
    <2>0. w \in Execs /\ w \notin Inline
        BY WfAssumption DEF Execs, Pool
    <2>1. Stays(w) /\ exec'[w].pc \in {"opening", "poison"} /\ exec'[w].cur = Idle.cur
        BY <1>0, <1>8, <2>0, ClaimForm
    <2>2. One(w)
        BY <2>0, <2>1, IdleFields
    <2> QED BY <1>0, <1>3, <1>8, <2>0, <2>1, <2>2 DEF claim, Stays
<1>13. ASSUME NEW w \in Pool, deadLetterPoison(w) PROVE All /\ ~approved'
    <2>0. w \in Execs /\ w \notin Inline /\ TypeOK
        BY WfAssumption DEF Execs, Pool, WalkInv
    <2>1. Stays(w) /\ (exec'[w] = Idle \/ (exec'[w].pc = "list" /\ exec'[w].cur = Idle.cur))
        BY <1>0, <1>13, <2>0, DeadForm
    <2>2. One(w)
        BY <2>0, <2>1, <1>4, IdleFields
    <2> QED BY <1>0, <1>3, <1>13, <2>0, <2>1, <2>2 DEF deadLetterPoison, Stays
<1>9. ASSUME NEW w \in Pool, heartbeatStops(w) PROVE All /\ ~approved'
    <2>0. w \in Execs
        BY DEF Execs
    <2>1. Others(w) /\ Alike(exec'[w], exec[w])
        BY <1>0, <1>9, <2>0, StopForm DEF heartbeatStops
    <2>2. One(w)
        BY <1>0, <2>0, <2>1 DEF Alike
    <2> QED BY <1>0, <1>3, <1>9, <2>0, <2>1, <2>2 DEF heartbeatStops
<1>10. ASSUME UNCHANGED <<exec, approved>> PROVE All /\ ~approved'
    BY <1>0, <1>10
<1>11. ASSUME NEW c \in Children(wf), SubRun(c) PROVE All /\ ~approved'
    BY <1>10, <1>11 DEF SubRun, childStarts, cancelChild, childEnds, evars
<1>12. All /\ ~approved'
    BY <1>5, <1>6, <1>7, <1>8, <1>9, <1>10, <1>11, <1>13
       DEF WfNext, heartbeatRenews, createWorkflow, sweepWaiting, LeaseRunsOut, LeaseLapses, evars, wfvars
<1> QED BY <1>0, <1>1, <1>2, <1>12

\* WalkInv is inductive.
LEMMA WalkStep ==
    ASSUME WalkInv, [WfNext]_wfvars
    PROVE  WalkInv'
<1>1. TypeOK /\ ParkedConsistent /\ [Next]_vars
    BY UsesStore DEF WalkInv
<1>2. TypeOK' /\ ParkedConsistent'
    BY <1>1, TypeStep, ParkedStep
<1>3. Frozen
    BY FrozenStep
<1> QED BY <1>2, <1>3, CursorStep, ExecsStep, LaunchedStep, UngatedStep, RestStep DEF WalkInv

\* It holds at the start.
LEMMA WalkInit == WfInit => WalkInv
<1> SUFFICES ASSUME WfInit PROVE WalkInv
    OBVIOUS
<1>1. TypeOK /\ ParkedConsistent
    BY BoundAssumption DEF WfInit, Init, TypeOK, Leases, WaitMode, ParkedConsistent, Absent
<1>2. WfRest
    <2>1. answer \in [Runs -> Answers \cup {"none"}]
        BY DEF WfInit
    <2>2. faults \in 0..MaxFaults[spec]
        BY WfAssumption DEF WfInit
    <2>3. spec \in Specs /\ approved = FALSE /\ lapsed = FALSE
        BY DEF WfInit
    <2>4. approved \in BOOLEAN /\ lapsed \in BOOLEAN
        BY <2>3
    <2> QED BY <2>1, <2>2, <2>3, <2>4 DEF WfRest
<1>3. Pending \in NodeType
    BY DEF Pending, NodeType, Outs
<1>4. cursor \in CursorType /\ cursor.current = NoStep /\ cursor.nodes = [s \in Steps |-> Pending]
      /\ (~spec.gate => cursor.approval = "none")
    BY <1>3 DEF WfInit, newCursor, CursorType
<1>5. CursorSound
    BY <1>4 DEF CursorSound, CursorOK, fresh
<1>6. \A e \in Execs : exec[e] = Idle
    BY DEF WfInit
<1>7. \A e \in Execs : Sound(exec[e])
    BY <1>6, IdleFields
       DEF Sound, ResumeOK, ExhaustedOK, EnterOK, LaunchOK, RetryOK, CascadeOK, CompleteOK,
           Launching, Cascading
<1>8. ExecsSound
    BY <1>7, IdleFields DEF ExecsSound, WfInit
<1>9. Launched
    BY DEF WfInit, Init, Launched, Created, Children
<1>10. Ungated
    BY <1>4, <1>6, IdleFields, WfAssumption DEF Ungated, WfInit, Init, Execs, Absent
<1> QED BY <1>1, <1>2, <1>5, <1>8, <1>9, <1>10 DEF WalkInv

\* What every reachable state satisfies: types, a cursor that stands for a walk
\* of the graph, executions that rely only on what has been decided, and
\* sub-runs that were due.
THEOREM WalkAlways == WfSpec => []WalkInv
BY WalkInit, WalkStep, PTL DEF WfSpec

\* The workflow executor is a client of the durable store: each of its steps,
\* in any process, is one operation of the Store interface or none.
THEOREM WorkflowUsesStore == WfSpec => Spec
<1>1. WfInit => Init
    BY DEF WfInit
<1>2. WalkInv /\ [WfNext]_wfvars => [Next]_vars
    BY UsesStore
<1> QED BY <1>1, <1>2, WalkAlways, PTL DEF WfSpec, Spec

\* The type invariant of the executor, for every set of graphs, pool and number
\* of faults.
THEOREM WorkflowTypeCorrect == WfSpec => []WfTypeOK
<1>1. WalkInv => WfTypeOK
    <2> SUFFICES ASSUME WalkInv PROVE WfTypeOK
        OBVIOUS
    <2>1. cursor.current \in Steps \cup {NoStep}
        BY DEF WalkInv, CursorSound, CursorType
    <2>2. \A e \in Execs : exec[e].todo \subseteq Children(wf)
        BY DEF WalkInv, ExecsSound, ExecType
    <2>3. faults <= MaxFaults[spec]
        BY WfAssumption DEF WalkInv, WfRest
    <2> QED BY <2>1, <2>2, <2>3 DEF WalkInv, WfRest, WfTypeOK
<1> QED BY <1>1, WalkAlways, PTL

\* Every sub-run was due: its step is the first one, or the outcome of a step
\* leads to it, or it follows a failed attempt or an iteration that said "no" -
\* whatever crashed, lapsed, was cancelled or ran twice.
THEOREM LaunchesAreDue == WfSpec => []LaunchesFollowEdges
<1>1. WalkInv => LaunchesFollowEdges
    BY DEF WalkInv, Launched, LaunchesFollowEdges, DueRuns
<1> QED BY <1>1, WalkAlways, PTL

-------------------------------------------------------------------------------
(* Success.                                                                *)

\* The answer is the one of the step the walk ended at.
LEMMA AnswerOfLast ==
    ASSUME spec \in Specs, ListedForward, NEW c, NEW s, <<c, s>> \in Ended
    PROVE  terminalOutput(c) = s
<1> DEFINE done == {i \in DOMAIN spec.order : c.nodes[spec.order[i]].state = "done"}
<1>1. /\ spec.order \in Seq(Steps) /\ IsInjective(spec.order) /\ Graph = Range(spec.order)
    BY SpecAssumption DEF Graph
<1>2. \A i, j \in DOMAIN spec.order : spec.order[i] = spec.order[j] => i = j
    BY <1>1 DEF IsInjective
<1>3. DOMAIN spec.order \subseteq Nat
    BY <1>1
<1>4. s \in Graph /\ StepDone(c, s) /\ \A t \in Graph : StepDone(c, t) => t = s \/ Before(t, s)
    BY DEF Ended
<1>5. PICK k \in DOMAIN spec.order : spec.order[k] = s
    BY <1>1, <1>4 DEF Range
<1>6. k \in done
    BY <1>4, <1>5 DEF StepDone
<1>7. ASSUME NEW j \in done PROVE j <= k
    <2>1. spec.order[j] \in Graph /\ StepDone(c, spec.order[j])
        BY <1>1 DEF StepDone, Range
    <2>2. CASE spec.order[j] = s
        BY <1>2, <1>3, <1>5, <2>2
    <2>3. CASE Before(spec.order[j], s)
        <3>1. PICK a, b \in DOMAIN spec.order : a < b /\ spec.order[a] = spec.order[j] /\ spec.order[b] = s
            BY <2>3 DEF Before
        <3>2. a = j /\ b = k
            BY <1>2, <1>5, <3>1
        <3> QED BY <1>3, <3>1, <3>2
    <2> QED BY <1>4, <2>1, <2>2, <2>3
<1>8. done \subseteq Nat
    BY <1>3
<1>9. terminalOutput(c) = spec.order[CHOOSE i \in done : \A j \in done : j <= i]
    BY DEF terminalOutput
<1> HIDE DEF done
<1>10. (CHOOSE i \in done : \A j \in done : j <= i) = k
    <2> DEFINE m == CHOOSE i \in done : \A j \in done : j <= i
    <2>1. m \in done /\ \A j \in done : j <= m
        BY <1>6, <1>7
    <2> HIDE DEF m
    <2>2. m = k
        BY <1>6, <1>7, <1>8, <2>1
    <2> QED BY <2>2 DEF m
<1> QED BY <1>5, <1>9, <1>10

\* Success was earned, in the terms of the invariant.
Earned ==
    status[wf] = "succeeded" =>
        reply.last \in FinalSteps /\ (ListedForward => reply.from = reply.last)

\* Earned is kept: only the end of a walk gives an answer, and only once.
LEMMA EarnedStep ==
    ASSUME WalkInv, Earned, [WfNext]_wfvars
    PROVE  Earned'
<1>f. Frozen
    BY FrozenStep
<1>0. /\ spec \in Specs /\ spec' = spec /\ FinalSteps \subseteq FinalSteps'
      /\ ListedForward' = ListedForward
    BY <1>f, FactsKept DEF WalkInv, WfRest, Frozen, ListedForward
<1>w. wf \in Runs /\ status \in [Runs -> Status \cup {Absent}]
    BY WfAssumption DEF WalkInv, TypeOK
<1>k. ASSUME reply' = reply, status'[wf] = status[wf] \/ status'[wf] # "succeeded" PROVE Earned'
    BY <1>0, <1>k DEF Earned
<1>1. ASSUME NEW e \in Execs, completeWorkflow(e) PROVE Earned'
    <2> DEFINE rec == exec[e]
    <2>0. rec.last \in FinalSteps /\ <<rec.cur, rec.last>> \in Ended
        BY <1>1, OneSound DEF Sound, CompleteOK, completeWorkflow, At
    <2>1. CASE UNCHANGED <<vars, reply>>
        BY <1>k, <2>1 DEF vars
    <2>2. CASE reply' = [from |-> terminalOutput(rec.cur), last |-> rec.last]
        <3>1. reply'.last = rec.last /\ reply'.from = terminalOutput(rec.cur)
            BY <2>2
        <3>2. ListedForward => reply'.from = reply'.last
            BY <1>0, <2>0, <3>1, AnswerOfLast
        <3> QED BY <1>0, <2>0, <3>1, <3>2 DEF Earned
    <2> QED BY <1>1, <2>1, <2>2 DEF completeWorkflow
<1>2. ASSUME NEW e \in Execs, gatePlanApproval(e) PROVE Earned'
    <2>1. reply' = reply
        BY <1>2 DEF gatePlanApproval
    <2>2. status'[wf] \in {status[wf], "requires_action"}
        BY <1>w, <1>2 DEF gatePlanApproval, Update, vars
    <2> QED BY <1>k, <2>1, <2>2
<1>3. ASSUME \A e \in Execs : ~completeWorkflow(e) PROVE reply' = reply
    <2>1. ASSUME NEW e \in Execs, Advance(e) \/ Crash(e) PROVE reply' = reply
        BY <1>3, <2>1 DEF Advance, Crash, opening, load, gatePlanApproval, resumeCurrentNode,
           defensiveResuspend, exhausted, enterNode, reserve, spawnWorkflowNode, suspendOnChildren,
           failWorkflow, cascadeStarts, cascadeLists, cascadeCancels
    <2>2. ASSUME NEW e \in Inline, Request(e) PROVE reply' = reply
        BY <2>2 DEF Request, handleCancelRun, resumeChecks, resumePlanApproval, denyPlan
    <2>3. ASSUME NEW w \in Pool, claim(w) \/ deadLetterPoison(w) \/ heartbeatRenews(w) \/ heartbeatStops(w)
          PROVE  reply' = reply
        BY <2>3 DEF claim, deadLetterPoison, heartbeatRenews, heartbeatStops, evars
    <2>4. ASSUME NEW c \in Children(wf), SubRun(c) PROVE reply' = reply
        BY <2>4 DEF SubRun, childStarts, cancelChild, childEnds, evars
    <2> QED BY <2>1, <2>2, <2>3, <2>4
        DEF WfNext, createWorkflow, sweepWaiting, LeaseRunsOut, LeaseLapses, evars, wfvars
<1> QED BY <1>1, <1>2, <1>3, <1>k, PausesOrSucceeds

\* A workflow that succeeded ended at a step that leads nowhere further by what
\* its sub-runs returned, and where all edges lead forward its answer is that
\* step's.
THEOREM SuccessEarned == WfSpec => []SuccessIsEarned
<1>1. WfInit => Earned
    BY WfAssumption DEF WfInit, Init, Earned, Absent
<1>2. WalkInv /\ Earned /\ [WfNext]_wfvars => Earned'
    BY EarnedStep
<1>3. WalkInv /\ Earned => SuccessIsEarned
    <2> SUFFICES ASSUME WalkInv, status[wf] = "succeeded", reply.last \in FinalSteps,
                        ListedForward => reply.from = reply.last
                 PROVE  SuccessIsEarned
        BY DEF Earned, SuccessIsEarned
    <2>1. reply.last \in Graph
        BY DEF FinalSteps
    <2>2. reply.last # NoStep
        BY <2>1, GraphFacts DEF WalkInv, WfRest
    <2> QED BY <2>2 DEF SuccessIsEarned, FinalSteps
<1> QED BY <1>1, <1>2, <1>3, WalkAlways, PTL DEF WfSpec

-------------------------------------------------------------------------------
(* The budget.                                                             *)

Made == {c \in Children(wf) : Created(c)}
Paying == {e \in Execs : exec[e].pc = "spawn"}

\* With a budget, the sub-runs there are and those about to be inserted were
\* all paid for.
Paid == spec.budget => Cardinality(Made) + Cardinality(Paying) <= spawns[wf]

\* Both sets are finite.
LEMMA FiniteLaunches ==
    /\ IsFiniteSet(Made) /\ Cardinality(Made) \in Nat
    /\ IsFiniteSet(Paying) /\ Cardinality(Paying) \in Nat
    /\ IsFiniteSet(Runs) /\ IsFiniteSet(Execs)
<1>1. IsFiniteSet(Runs) /\ IsFiniteSet(Workers) /\ IsFiniteSet(Inline)
    BY WfAssumption
<1>2. IsFiniteSet(Made)
    BY <1>1, FS_Subset DEF Made, Children
<1>3. IsFiniteSet(Pool)
    BY <1>1, FS_Subset DEF Pool
<1>4. IsFiniteSet(Execs)
    BY <1>1, <1>3, FS_Union DEF Execs
<1>5. IsFiniteSet(Paying)
    BY <1>4, FS_Subset DEF Paying
<1> QED BY <1>1, <1>2, <1>4, <1>5, FS_CardinalityType

\* An execution comes to its spawn by a reservation only.
LEMMA NewPayer ==
    ASSUME WalkInv, spec.budget, [WfNext]_wfvars
    PROVE  \/ Paying' \subseteq Paying
           \/ \E e \in Execs : Paying' \subseteq Paying \cup {e} /\ ReserveSpawn(wf)
<1> DEFINE Goal == \/ Paying' \subseteq Paying
                   \/ \E e \in Execs : Paying' \subseteq Paying \cup {e} /\ ReserveSpawn(wf)
<1>0. exec \in [Execs -> ExecType] /\ Inline \subseteq Execs /\ Pool \subseteq Execs /\ Frozen
    BY FrozenStep DEF WalkInv, ExecsSound, Execs
<1>1. ASSUME NEW e \in Execs, Others(e), exec'[e].pc = "spawn" => exec[e].pc = "spawn" \/ ReserveSpawn(wf)
      PROVE  Goal
    BY <1>1 DEF Paying, Others
<1>2. ASSUME UNCHANGED exec PROVE Goal
    BY <1>2 DEF Paying
<1>3. ASSUME NEW e \in Execs, Advance(e) PROVE Goal
    <2>1. Moves(e) /\ Others(e)
        BY <1>0, <1>3, AdvanceMoves, AdvanceStays DEF Stays
    <2>2. exec'[e].pc = "spawn" => ReserveSpawn(wf)
        BY <2>1, IdleFields DEF Moves, Onward, Walk, Cascading, reserveNodeSpawn
    <2> QED BY <1>1, <2>1, <2>2
<1>4. ASSUME NEW e \in Execs, Return(e) PROVE Goal
    BY <1>0, <1>1, <1>4, ReturnForm, IdleFields
<1>5. ASSUME NEW e \in Execs, NEW pc \in {"opening", "resuming"}, Become(e, [Idle EXCEPT !.pc = pc])
      PROVE  Goal
    BY <1>0, <1>1, <1>5, StartForm DEF Stays
<1>6. ASSUME NEW e \in Inline, Request(e) PROVE Goal
    <2>1. CASE handleCancelRun(e)
        BY <1>0, <1>1, <2>1, CancelForm DEF handleCancelRun, Stays
    <2> QED BY <1>0, <1>4, <1>5, <1>6, <2>1
        DEF Request, resumeChecks, resumePlanApproval, denyPlan
<1>7. ASSUME NEW w \in Pool, claim(w) \/ deadLetterPoison(w) PROVE Goal
    BY <1>0, <1>1, <1>7, ClaimForm, DeadForm, IdleFields DEF Stays, WalkInv
<1>8. ASSUME NEW w \in Pool, heartbeatStops(w) PROVE Goal
    <2>1. w \in Execs /\ Others(w) /\ exec'[w].pc = exec[w].pc
        BY <1>0, <1>8, StopForm DEF heartbeatStops, Alike
    <2> QED BY <1>1, <2>1
<1>9. ASSUME NEW c \in Children(wf), SubRun(c) PROVE Goal
    BY <1>2, <1>9 DEF SubRun, childStarts, cancelChild, childEnds, evars
<1>10. ASSUME createWorkflow \/ sweepWaiting \/ LeaseRunsOut \/ LeaseLapses PROVE Goal
    BY <1>2, <1>10 DEF createWorkflow, sweepWaiting, LeaseRunsOut, LeaseLapses, evars
<1>11. ASSUME UNCHANGED wfvars PROVE Goal
    BY <1>2, <1>11 DEF wfvars
<1> QED BY <1>3, <1>4, <1>6, <1>7, <1>8, <1>9, <1>10, <1>11, <1>2
    DEF WfNext, Crash, heartbeatRenews, evars

\* The counter of the tree never goes down.
LEMMA CounterGrows ==
    ASSUME TypeOK, [Next]_vars
    PROVE  /\ spawns'[wf] >= spawns[wf] /\ spawns[wf] \in Nat /\ spawns'[wf] \in Nat
           /\ ReserveSpawn(wf) => spawns'[wf] = spawns[wf] + 1
<1>0. wf \in Runs /\ spawns \in [Runs -> 0..MaxTotalSpawns] /\ MaxTotalSpawns \in Nat
    BY WfAssumption, BoundAssumption DEF TypeOK
<1>1. ASSUME NEW r \in Runs, ReserveSpawn(r) PROVE spawns'[wf] >= spawns[wf] /\ spawns'[wf] \in Nat
    BY <1>0, <1>1 DEF ReserveSpawn
<1>2. ASSUME UNCHANGED spawns PROVE spawns'[wf] >= spawns[wf] /\ spawns'[wf] \in Nat
    BY <1>0, <1>2
<1>3. spawns'[wf] >= spawns[wf] /\ spawns'[wf] \in Nat
    BY <1>1, <1>2
       DEF Next, RunStep, WorkerStep, Create, Update, CompleteAndWake, Suspend,
           SuspendOnDelegate, SweepWaiting, ExpireLease, ClaimQueued, Heartbeat, ReleaseLease,
           ClaimReclaimable, vars
<1>4. ReserveSpawn(wf) => spawns'[wf] = spawns[wf] + 1
    BY <1>0 DEF ReserveSpawn
<1> QED BY <1>0, <1>3, <1>4

\* Every launch stays paid for.
LEMMA PaidStep ==
    ASSUME WalkInv, Paid, [WfNext]_wfvars
    PROVE  Paid'
<1> SUFFICES ASSUME spec.budget PROVE Paid'
    BY FrozenStep DEF Paid, Frozen
<1>0. TypeOK /\ [Next]_vars /\ exec \in [Execs -> ExecType] /\ Frozen
    BY UsesStore, FrozenStep DEF WalkInv, ExecsSound
<1>g. /\ spawns'[wf] >= spawns[wf] /\ spawns[wf] \in Nat /\ spawns'[wf] \in Nat
      /\ ReserveSpawn(wf) => spawns'[wf] = spawns[wf] + 1
    BY <1>0, CounterGrows
<1> DEFINE made == Made
           later == Made'
           paying == Paying
           next == Paying'
<1>f. /\ IsFiniteSet(made) /\ Cardinality(made) \in Nat
      /\ IsFiniteSet(paying) /\ Cardinality(paying) \in Nat
    BY FiniteLaunches
<1>h. /\ IsFiniteSet(later) /\ Cardinality(later) \in Nat
      /\ IsFiniteSet(next) /\ Cardinality(next) \in Nat
    <2>1. later \subseteq Runs /\ next \subseteq Execs
        BY DEF Made, Children, Paying
    <2> HIDE DEF later, next
    <2>2. IsFiniteSet(later) /\ IsFiniteSet(next)
        BY <2>1, FiniteLaunches, FS_Subset
    <2> QED BY <2>2, FS_CardinalityType
<1>p. Cardinality(made) + Cardinality(paying) <= spawns[wf]
    BY DEF Paid
<1> SUFFICES Cardinality(later) + Cardinality(next) <= spawns'[wf]
    BY DEF Paid
<1>1. CASE \E c \in Children(wf) : Created(c)' /\ ~Created(c)
    <2>1. PICK c \in Children(wf) : Created(c)' /\ ~Created(c)
        BY <1>1
    <2>2. PICK e \in Execs : /\ exec[e].pc = "spawn" /\ c = SpawnRunID(exec[e].step, exec[e].i)
                             /\ spawnWorkflowNode(e)
        BY <2>1, NewSubRun
    <2>3. Create(c)
        BY <2>1, <2>2 DEF spawnWorkflowNode, Created, vars
    <2>4. later = made \cup {c} /\ c \notin made
        BY <1>0, <2>1, <2>3 DEF Made, Create, Created, TypeOK, Children, Absent
    <2>5. Advance(e)
        BY <2>2 DEF Advance
    <2>6. Onward(e) /\ Others(e)
        BY <1>0, <2>2, <2>5, LaunchMoves, AdvanceStays DEF Stays
    <2>7. exec'[e].pc # "spawn"
        BY <2>6 DEF Onward, Walk, Cascading
    <2>8. next \subseteq paying \ {e} /\ e \in paying
        BY <2>2, <2>6, <2>7 DEF Paying, Others
    <2> HIDE DEF later, made, next, paying
    <2>9. Cardinality(later) = Cardinality(made) + 1
        BY <1>f, <2>4, FS_AddElement
    <2>10. IsFiniteSet(paying \ {e}) /\ Cardinality(paying \ {e}) = Cardinality(paying) - 1
        BY <1>f, <2>8, FS_RemoveElement
    <2>11. Cardinality(next) <= Cardinality(paying) - 1
        BY <2>8, <2>10, FS_Subset
    <2> QED BY <1>f, <1>h, <1>p, <1>g, <2>9, <2>11
<1>2. CASE ~ \E c \in Children(wf) : Created(c)' /\ ~Created(c)
    <2>1. later \subseteq made
        BY <1>2 DEF Made, Children
    <2>2. CASE next \subseteq paying
        <3> HIDE DEF later, made, next, paying
        <3>1. Cardinality(later) <= Cardinality(made) /\ Cardinality(next) <= Cardinality(paying)
            BY <1>f, <2>1, <2>2, FS_Subset
        <3> QED BY <1>f, <1>h, <1>p, <1>g, <3>1
    <2>3. CASE \E e \in Execs : next \subseteq paying \cup {e} /\ ReserveSpawn(wf)
        <3>1. PICK e \in Execs : next \subseteq paying \cup {e} /\ ReserveSpawn(wf)
            BY <2>3
        <3> HIDE DEF later, made, next, paying
        <3>2. Cardinality(later) <= Cardinality(made)
            BY <1>f, <2>1, FS_Subset
        <3>3. IsFiniteSet(paying \cup {e}) /\ Cardinality(paying \cup {e}) <= Cardinality(paying) + 1
            <4>1. CASE e \in paying
                <5>1. paying \cup {e} = paying
                    BY <4>1
                <5> QED BY <1>f, <5>1
            <4>2. CASE e \notin paying
                <5>1. IsFiniteSet(paying \cup {e}) /\ Cardinality(paying \cup {e}) = Cardinality(paying) + 1
                    BY <1>f, <4>2, FS_AddElement
                <5> QED BY <1>f, <5>1
            <4> QED BY <4>1, <4>2
        <3>4. Cardinality(next) <= Cardinality(paying \cup {e})
            BY <3>1, <3>3, FS_Subset
        <3>5. Cardinality(paying \cup {e}) \in Nat
            BY <3>3, FS_CardinalityType
        <3> QED BY <1>f, <1>h, <1>p, <1>g, <3>1, <3>2, <3>3, <3>4, <3>5
    <2> QED BY <2>2, <2>3, NewPayer
<1> QED BY <1>1, <1>2

\* Every sub-run of a workflow with a budget block was paid for, and the tree
\* stays within its budget, replays, retries, fan-outs and cycles included.
THEOREM LaunchesArePaid == WfSpec => []LaunchBudget
<1>1. WfInit => Paid
    <2> SUFFICES ASSUME WfInit PROVE Paid
        OBVIOUS
    <2>1. Made = {} /\ Paying = {} /\ spawns[wf] = 0
        BY WfAssumption, IdleFields DEF WfInit, Init, Made, Paying, Created, Children
    <2>2. Cardinality({}) = 0
        BY FS_EmptySet
    <2> QED BY <2>1, <2>2 DEF Paid
<1>2. WalkInv /\ Paid /\ [WfNext]_wfvars => Paid'
    BY PaidStep
<1>3. WalkInv /\ Paid => LaunchBudget
    <2> SUFFICES ASSUME WalkInv, Paid, spec.budget PROVE LaunchBudget
        BY DEF LaunchBudget
    <2>1. spawns[wf] \in 0..MaxTotalSpawns
        BY WfAssumption DEF WalkInv, TypeOK
    <2>2. Cardinality(Made) <= spawns[wf]
        BY <2>1, FiniteLaunches, BoundAssumption DEF Paid
    <2> QED BY <2>1, <2>2, BoundAssumption DEF LaunchBudget, Made
<1> QED BY <1>1, <1>2, <1>3, WalkAlways, PTL DEF WfSpec

-------------------------------------------------------------------------------
(* Who moves, and who changes the row of the workflow.                     *)

\* What a step of the system does to one execution.
ExecMoves(e) ==
    \/ Alike(exec'[e], exec[e])
    \/ exec'[e] = Idle
    \/ Advance(e) /\ Moves(e)
    \/ e \in Pool /\ claim(e) /\ exec'[e].pc \in {"opening", "poison"}
    \/ /\ e \in Pool /\ exec[e].pc = "poison" /\ exec'[e].pc = "list"
       /\ exec'[e].then = "return" /\ exec'[e].cur.approval = "none" /\ status'[wf] = "failed"
    \/ /\ e \in Inline /\ exec'[e].pc \in {"opening", "resuming", "cascade"}
       /\ exec'[e].pc = "opening" => approved'
       /\ exec'[e].pc = "resuming" => status'[wf] = "requires_action"
       /\ exec'[e].pc = "cascade" => exec'[e].then = "return"
       /\ exec'[e].cur.approval = "none"

\* Every step moves each execution in one of these ways.
LEMMA EveryMove ==
    ASSUME WalkInv, [WfNext]_wfvars
    PROVE  \A e \in Execs : ExecMoves(e)
<1> DEFINE Goal == \A e \in Execs : ExecMoves(e)
<1>0. exec \in [Execs -> ExecType] /\ Inline \subseteq Execs /\ Pool \subseteq Execs /\ Frozen
    BY FrozenStep DEF WalkInv, ExecsSound, Execs
<1>k. \A e \in Execs : exec'[e] = exec[e] => ExecMoves(e)
    BY DEF ExecMoves, Alike
<1>1. ASSUME NEW e \in Execs, Others(e), ExecMoves(e) PROVE Goal
    BY <1>1, <1>k DEF Others
<1>2. ASSUME UNCHANGED exec PROVE Goal
    BY <1>2, <1>k
<1>3. ASSUME NEW e \in Execs, Advance(e) PROVE Goal
    <2>1. Moves(e) /\ Others(e)
        BY <1>0, <1>3, AdvanceMoves, AdvanceStays DEF Stays
    <2> QED BY <1>1, <1>3, <2>1 DEF ExecMoves
<1>4. ASSUME NEW e \in Execs, Return(e) PROVE Goal
    <2>1. exec'[e] = Idle /\ Others(e)
        BY <1>0, <1>4, ReturnForm
    <2> QED BY <1>1, <2>1 DEF ExecMoves
<1>5. ASSUME NEW e \in Inline, handleCancelRun(e) PROVE Goal
    <2>1. exec'[e].pc = "cascade" /\ exec'[e].then = "return" /\ exec'[e].cur = Idle.cur /\ Others(e)
        BY <1>0, <1>5, CancelForm DEF handleCancelRun, Stays
    <2> QED BY <1>0, <1>1, <2>1, IdleFields DEF ExecMoves
<1>6. ASSUME NEW e \in Inline, resumeChecks(e) PROVE Goal
    <2>1. exec'[e].pc = "resuming" /\ exec'[e].cur = Idle.cur /\ Others(e)
        BY <1>0, <1>6, StartForm DEF resumeChecks, Stays
    <2>2. status'[wf] = "requires_action"
        BY <1>6 DEF resumeChecks, vars
    <2> QED BY <1>0, <1>1, <2>1, <2>2, IdleFields DEF ExecMoves
<1>7. ASSUME NEW e \in Inline, resumePlanApproval(e) PROVE Goal
    <2>1. CASE approved' /\ Become(e, [Idle EXCEPT !.pc = "opening"])
        <3>1. exec'[e].pc = "opening" /\ exec'[e].cur = Idle.cur /\ Others(e)
            BY <1>0, <2>1, StartForm DEF Stays
        <3> QED BY <1>0, <1>1, <2>1, <3>1, IdleFields DEF ExecMoves
    <2> QED BY <1>0, <1>4, <1>7, <2>1 DEF resumePlanApproval
<1>8. ASSUME NEW w \in Pool, claim(w) PROVE Goal
    <2>1. exec'[w].pc \in {"opening", "poison"} /\ Others(w)
        BY <1>0, <1>8, ClaimForm DEF Stays
    <2> QED BY <1>0, <1>1, <1>8, <2>1 DEF ExecMoves
<1>15. ASSUME NEW w \in Pool, deadLetterPoison(w) PROVE Goal
    <2>1. Others(w) /\ w \in Execs
        BY <1>0, <1>15, DeadForm DEF Stays, WalkInv
    <2>2. \/ exec'[w] = Idle
          \/ /\ exec'[w].pc = "list" /\ exec'[w].then = "return"
             /\ exec'[w].cur.approval = "none" /\ status'[wf] = "failed"
        BY <1>0, <1>15, DeadForm, IdleFields DEF WalkInv
    <2>3. ExecMoves(w)
        BY <1>15, <2>2 DEF ExecMoves, deadLetterPoison, At
    <2> QED BY <1>1, <2>1, <2>3
<1>9. ASSUME NEW w \in Pool, heartbeatStops(w) PROVE Goal
    <2>1. w \in Execs /\ Others(w) /\ Alike(exec'[w], exec[w])
        BY <1>0, <1>9, StopForm DEF heartbeatStops
    <2> QED BY <1>1, <2>1 DEF ExecMoves
<1>10. ASSUME NEW c \in Children(wf), SubRun(c) PROVE Goal
    BY <1>2, <1>10 DEF SubRun, childStarts, cancelChild, childEnds, evars
<1>11. ASSUME createWorkflow \/ sweepWaiting \/ LeaseRunsOut \/ LeaseLapses PROVE Goal
    BY <1>2, <1>11 DEF createWorkflow, sweepWaiting, LeaseRunsOut, LeaseLapses, evars
<1>12. ASSUME UNCHANGED wfvars PROVE Goal
    BY <1>2, <1>12 DEF wfvars
<1>13. ASSUME NEW e \in Inline, denyPlan(e) PROVE Goal
    BY <1>0, <1>4, <1>13 DEF denyPlan
<1> HIDE DEF Goal
<1>14. Goal
    BY <1>0, <1>2, <1>3, <1>4, <1>5, <1>6, <1>7, <1>8, <1>9, <1>10, <1>11, <1>12, <1>13, <1>15
       DEF WfNext, Crash, Request, heartbeatRenews, evars
<1> QED BY <1>14 DEF Goal

\* The worker and the lease of the row stay as they are.
LeaseKept == worker'[wf] = worker[wf] /\ lease'[wf] = lease[wf]

\* What each operation of the store does to the row.
LEMMA RowChange ==
    ASSUME TypeOK
    PROVE  /\ UNCHANGED vars \/ ReserveSpawn(wf) => RowKept
           /\ \A to : Update(wf, to) => status'[wf] = to /\ LeaseKept /\ parkedOn'[wf] = {}
           /\ \A c \in Children(wf) : Create(c) \/ (\E to : Update(c, to)) \/ (\E w : ClaimQueued(w, c)) => RowKept
           /\ \A c \in Children(wf) : \A to : CompleteAndWake(c, to) =>
                 \/ RowKept
                 \/ /\ status[wf] = "waiting" /\ status'[wf] = "queued" /\ LeaseKept
                    /\ wf \in Woken(c, to)
           /\ \A kids, mode : Suspend(wf, kids, mode) =>
                 status'[wf] = "waiting" /\ waitMode'[wf] = mode /\ parkedOn'[wf] = kids
           /\ Create(wf) => status[wf] = Absent /\ status'[wf] = "queued" /\ LeaseKept
           /\ SweepWaiting(wf) => status[wf] = "waiting" /\ status'[wf] = "queued" /\ LeaseKept
           /\ ExpireLease(wf) =>
                 lease[wf] = "live" /\ status'[wf] = status[wf] /\ worker'[wf] = worker[wf]
           /\ \A w : ClaimQueued(w, wf) \/ ClaimReclaimable(w, wf) =>
                 /\ status[wf] = "queued" \/ (status[wf] = "running" /\ lease[wf] = "expired")
                 /\ status'[wf] = "running" /\ worker'[wf] = w /\ lease'[wf] = "live"
           /\ \A w : Heartbeat(w, wf) => /\ status[wf] = "running" /\ status'[wf] = status[wf]
                                         /\ worker'[wf] = worker[wf] /\ lease'[wf] = "live"
<1> USE DEF LeaseKept
<1>0. /\ TypeOK /\ wf \in Runs /\ Children(wf) \subseteq Runs \ {wf}
    BY WfAssumption, ParentAssumption DEF Children, TypeOK
<1>1. UNCHANGED vars \/ ReserveSpawn(wf) => RowKept
    BY DEF vars, RowKept, ReserveSpawn
<1>2. \A to : Update(wf, to) => status'[wf] = to /\ LeaseKept /\ parkedOn'[wf] = {}
    BY <1>0 DEF Update, TypeOK, Forget
<1>3. \A c \in Children(wf) : Create(c) \/ (\E to : Update(c, to)) \/ (\E w : ClaimQueued(w, c)) => RowKept
    BY <1>0, OtherRow
<1>4. \A c \in Children(wf) : \A to : CompleteAndWake(c, to) =>
                 \/ RowKept
                 \/ /\ status[wf] = "waiting" /\ status'[wf] = "queued" /\ LeaseKept
                    /\ wf \in Woken(c, to)
    BY <1>0, WakeRow
<1>5. \A kids, mode : Suspend(wf, kids, mode) =>
                 status'[wf] = "waiting" /\ waitMode'[wf] = mode /\ parkedOn'[wf] = kids
    BY <1>0 DEF Suspend, suspendToWaiting, TypeOK
<1>6. Create(wf) => status[wf] = Absent /\ status'[wf] = "queued" /\ LeaseKept
    BY <1>0 DEF Create, Created, TypeOK
<1>7. SweepWaiting(wf) => status[wf] = "waiting" /\ status'[wf] = "queued" /\ LeaseKept
    BY <1>0 DEF SweepWaiting, TypeOK
<1>8. ExpireLease(wf) => lease[wf] = "live" /\ status'[wf] = status[wf] /\ worker'[wf] = worker[wf]
    BY DEF ExpireLease
<1>9. \A w : ClaimQueued(w, wf) \/ ClaimReclaimable(w, wf) =>
                 /\ status[wf] = "queued" \/ (status[wf] = "running" /\ lease[wf] = "expired")
                 /\ status'[wf] = "running" /\ worker'[wf] = w /\ lease'[wf] = "live"
    BY <1>0 DEF ClaimQueued, ClaimReclaimable, TakeLease, TypeOK
<1>10. \A w : Heartbeat(w, wf) => /\ status[wf] = "running" /\ status'[wf] = status[wf]
                                  /\ worker'[wf] = worker[wf] /\ lease'[wf] = "live"
    BY <1>0 DEF Heartbeat, Holds, TypeOK
<1> QED BY <1>1, <1>2, <1>3, <1>4, <1>5, <1>6, <1>7, <1>8, <1>9, <1>10

\* The run is parked, with the cursor, on the step that was launched.
ParkStep(e) ==
    /\ exec[e].pc = "suspend" /\ Fence(e)
    /\ Suspend(wf, ChildrenOf(exec[e].cur, exec[e].step), ModeOf(exec[e].step))
    /\ cursor' = exec[e].cur /\ exec'[e] = Idle /\ status'[wf] = "waiting"

\* Who changes the status, the worker or the lease of the row.
RowMoves ==
    \/ RowKept
    \/ /\ status[wf] = "waiting" /\ status'[wf] = "queued" /\ LeaseKept
       /\ \/ sweepWaiting
          \/ \E c \in Children(wf), to \in Terminal : CompleteAndWake(c, to) /\ wf \in Woken(c, to)
    \/ status[wf] = Absent /\ status'[wf] = "queued" /\ LeaseKept
    \/ \E w \in Pool :
          /\ claim(w) /\ status'[wf] = "running" /\ worker'[wf] = w /\ lease'[wf] = "live"
          /\ status[wf] = "queued" \/ (status[wf] = "running" /\ lease[wf] = "expired")
    \/ /\ status[wf] = "running" /\ status'[wf] = status[wf]
       /\ worker'[wf] = worker[wf] /\ lease'[wf] = "live"
    \/ LeaseRunsOut /\ lease[wf] = "live" /\ status'[wf] = status[wf] /\ worker'[wf] = worker[wf]
    \/ LeaseLapses
    \/ \E e \in Execs : ParkStep(e)
    \/ \E e \in Execs : /\ exec[e].pc = "resuspend" /\ defensiveResuspend(e) /\ exec'[e] = Idle
                        /\ status'[wf] = "waiting"
    \/ \E e \in Execs : /\ exec[e].pc = "gate" /\ Fence(e) /\ exec'[e] = Idle
                        /\ status'[wf] = "requires_action" /\ LeaseKept
    \/ \E e \in Execs : exec[e].pc = "opening" /\ status'[wf] = "running" /\ LeaseKept
    \/ \E e \in Inline : exec[e].pc = "resuming" /\ resumePlanApproval(e) /\ approved'
    \/ status'[wf] \in Terminal /\ LeaseKept

\* Every step changes it in one of these ways.
LEMMA EveryRow ==
    ASSUME WalkInv, [WfNext]_wfvars
    PROVE  RowMoves
<1>0. /\ TypeOK /\ exec \in [Execs -> ExecType] /\ Inline \subseteq Execs
      /\ \A e \in Execs : exec[e].todo \subseteq Children(wf)
    BY DEF WalkInv, ExecsSound, Execs, ExecType
<1>t. \A to \in {"failed", "succeeded", "cancelled"} : Update(wf, to) => RowMoves
    BY <1>0, RowChange DEF RowMoves, Terminal
<1>k. RowKept => RowMoves
    BY DEF RowMoves
<1>1. ASSUME NEW e \in Execs, Advance(e) PROVE RowMoves
    <2>1. CASE opening(e)
        BY <1>0, <1>k, <2>1, RowChange DEF opening, At, RowMoves
    <2>2. CASE gatePlanApproval(e)
        <3>1. exec'[e] = Idle
            BY <1>0, <2>2, ReturnForm DEF gatePlanApproval
        <3>2. CASE UNCHANGED vars
            BY <1>0, <1>k, <3>2, RowChange
        <3>3. CASE Fence(e) /\ Update(wf, "requires_action")
            <4>1. status'[wf] = "requires_action" /\ LeaseKept
                BY <1>0, <3>3, RowChange
            <4> QED BY <2>2, <3>1, <3>3, <4>1 DEF gatePlanApproval, At, RowMoves
        <3> QED BY <2>2, <3>2, <3>3 DEF gatePlanApproval
    <2>3. CASE suspendOnChildren(e)
        <3>1. CASE UNCHANGED vars
            BY <1>0, <1>k, <3>1, RowChange
        <3>2. CASE /\ Fence(e) /\ Return(e) /\ cursor' = exec[e].cur
                   /\ Suspend(wf, ChildrenOf(exec[e].cur, exec[e].step), ModeOf(exec[e].step))
            <4>1. status'[wf] = "waiting" /\ exec'[e] = Idle
                BY <1>0, <3>2, RowChange, ReturnForm
            <4> QED BY <2>3, <3>2, <4>1 DEF suspendOnChildren, At, RowMoves, ParkStep
        <3> QED BY <2>3, <3>1, <3>2 DEF suspendOnChildren
    <2>4. CASE defensiveResuspend(e)
        <3>1. CASE UNCHANGED vars
            BY <1>0, <1>k, <3>1, RowChange
        <3>2. CASE Return(e) /\ Suspend(wf, ChildrenOf(exec[e].cur, exec[e].step), ModeOf(exec[e].step))
            <4>1. status'[wf] = "waiting" /\ exec'[e] = Idle
                BY <1>0, <3>2, RowChange, ReturnForm
            <4> QED BY <2>4, <4>1 DEF defensiveResuspend, At, RowMoves
        <3> QED BY <2>4, <3>1, <3>2 DEF defensiveResuspend
    <2>5. CASE spawnWorkflowNode(e)
        <3>1. SpawnRunID(exec[e].step, exec[e].i) \in Children(wf)
            BY <2>5, AtLaunch DEF DueRuns, spawnWorkflowNode, At, Launching
        <3> QED BY <1>0, <1>k, <2>5, <3>1, RowChange DEF spawnWorkflowNode
    <2>6. CASE failWorkflow(e) \/ completeWorkflow(e)
        BY <1>0, <1>k, <1>t, <2>6, RowChange DEF failWorkflow, completeWorkflow
    <2>7. CASE cascadeCancels(e)
        BY <1>0, <1>k, <2>7, RowChange DEF cascadeCancels
    <2>8. CASE UNCHANGED vars \/ ReserveSpawn(wf)
        BY <1>0, <1>k, <2>8, RowChange
    <2> QED BY <1>1, <2>1, <2>2, <2>3, <2>4, <2>5, <2>6, <2>7, <2>8
        DEF Advance, load, resumeCurrentNode, exhausted, enterNode, reserve, reserveNodeSpawn,
            cascadeStarts, cascadeLists
<1>2. ASSUME NEW e \in Execs, Crash(e) PROVE RowMoves
    BY <1>0, <1>k, <1>2, RowChange DEF Crash
<1>3. ASSUME NEW e \in Inline, Request(e) PROVE RowMoves
    <2>1. CASE handleCancelRun(e) \/ denyPlan(e)
        BY <1>0, <1>k, <1>t, <2>1, RowChange DEF handleCancelRun, denyPlan
    <2>2. CASE resumePlanApproval(e)
        <3>1. CASE UNCHANGED vars
            BY <1>0, <1>k, <3>1, RowChange
        <3>2. CASE approved'
            BY <2>2, <3>2 DEF RowMoves, resumePlanApproval, At
        <3> QED BY <2>2, <3>1, <3>2 DEF resumePlanApproval
    <2> QED BY <1>0, <1>k, <1>3, <2>1, <2>2, RowChange DEF Request, resumeChecks
<1>4. ASSUME NEW w \in Pool, claim(w) PROVE RowMoves
    <2>1. /\ status'[wf] = "running" /\ worker'[wf] = w /\ lease'[wf] = "live"
          /\ status[wf] = "queued" \/ (status[wf] = "running" /\ lease[wf] = "expired")
        BY <1>0, <1>4, RowChange DEF claim
    <2> QED BY <1>4, <2>1 DEF RowMoves
<1>5. ASSUME NEW w \in Pool, heartbeatRenews(w) \/ heartbeatStops(w) PROVE RowMoves
    BY <1>0, <1>k, <1>5, RowChange DEF heartbeatRenews, heartbeatStops, RowMoves
<1>6. ASSUME NEW c \in Children(wf), SubRun(c) PROVE RowMoves
    <2>1. ASSUME NEW to, CompleteAndWake(c, to) PROVE RowMoves
        <3>1. to \in Terminal
            BY <2>1 DEF CompleteAndWake
        <3> QED BY <1>0, <1>k, <2>1, <3>1, RowChange DEF RowMoves
    <2>2. ASSUME childStarts(c) \/ cancelChild(c) PROVE RowMoves
        BY <1>0, <1>k, <2>2, RowChange DEF childStarts, cancelChild
    <2> QED BY <1>6, <2>1, <2>2 DEF SubRun, childEnds
<1>7. ASSUME createWorkflow \/ sweepWaiting \/ LeaseRunsOut \/ LeaseLapses PROVE RowMoves
    BY <1>0, <1>7, RowChange DEF createWorkflow, sweepWaiting, LeaseRunsOut, RowMoves
<1>8. ASSUME UNCHANGED wfvars PROVE RowMoves
    BY <1>0, <1>k, <1>8, RowChange DEF wfvars, vars
<1>9. ASSUME NEW w \in Pool, deadLetterPoison(w) PROVE RowMoves
    BY <1>0, <1>k, <1>t, <1>9, RowChange DEF deadLetterPoison
<1> QED BY <1>1, <1>2, <1>3, <1>4, <1>5, <1>6, <1>7, <1>8, <1>9 DEF WfNext

\* The history of lapses, of the approval and of dead-letters given up only grows.
LEMMA HistoryGrows ==
    ASSUME WalkInv, [WfNext]_wfvars
    PROVE  /\ lapsed => lapsed'
           /\ approved => approved'
           /\ deserted => deserted'
           /\ LeaseLapses => lapsed'
<1> DEFINE Goal == (lapsed => lapsed') /\ (approved => approved') /\ (deserted => deserted')
<1>1. ASSUME NEW e \in Execs, Advance(e) PROVE Goal
    <2>1. lapsed' = lapsed /\ approved' = approved /\ deserted' = deserted
        BY <1>1 DEF Advance, opening, load, gatePlanApproval, resumeCurrentNode,
           defensiveResuspend, exhausted, enterNode, reserve, spawnWorkflowNode, suspendOnChildren,
           failWorkflow, completeWorkflow, cascadeStarts, cascadeLists, cascadeCancels
    <2> QED BY <2>1
<1>7. ASSUME NEW e \in Execs, Crash(e) PROVE Goal
    BY <1>7, Zenon DEF Crash
<1>2. ASSUME NEW e \in Inline, Request(e) PROVE Goal
    BY <1>2 DEF Request, handleCancelRun, resumeChecks, resumePlanApproval, denyPlan
<1>3. ASSUME NEW w \in Pool, claim(w) \/ deadLetterPoison(w) \/ heartbeatRenews(w) \/ heartbeatStops(w) PROVE Goal
    BY <1>3 DEF claim, deadLetterPoison, heartbeatRenews, heartbeatStops, evars
<1>4. ASSUME NEW c \in Children(wf), SubRun(c) PROVE Goal
    BY <1>4 DEF SubRun, childStarts, cancelChild, childEnds, evars
<1>5. ASSUME createWorkflow \/ sweepWaiting \/ LeaseRunsOut \/ LeaseLapses PROVE Goal
    BY <1>5 DEF createWorkflow, sweepWaiting, LeaseRunsOut, LeaseLapses, evars
<1>6. ASSUME UNCHANGED wfvars PROVE Goal
    BY <1>6 DEF wfvars
<1> QED BY <1>1, <1>2, <1>3, <1>4, <1>5, <1>6, <1>7 DEF WfNext, LeaseLapses

\* Only an approval approves.
LEMMA OnlyApproval ==
    ASSUME WalkInv, [WfNext]_wfvars, approved', ~approved
    PROVE  \E e \in Inline : resumePlanApproval(e)
<1>1. ASSUME NEW e \in Execs, Advance(e) \/ Crash(e) PROVE approved' = approved
    BY <1>1 DEF Advance, Crash, opening, load, gatePlanApproval, resumeCurrentNode,
       defensiveResuspend, exhausted, enterNode, reserve, spawnWorkflowNode, suspendOnChildren,
       failWorkflow, completeWorkflow, cascadeStarts, cascadeLists, cascadeCancels
<1>2. ASSUME NEW e \in Inline, Request(e) PROVE approved' = approved \/ resumePlanApproval(e)
    BY <1>2 DEF Request, handleCancelRun, resumeChecks, denyPlan
<1>3. ASSUME NEW w \in Pool, claim(w) \/ deadLetterPoison(w) \/ heartbeatRenews(w) \/ heartbeatStops(w) PROVE approved' = approved
    BY <1>3 DEF claim, deadLetterPoison, heartbeatRenews, heartbeatStops, evars
<1>4. ASSUME NEW c \in Children(wf), SubRun(c) PROVE approved' = approved
    BY <1>4 DEF SubRun, childStarts, cancelChild, childEnds, evars
<1>5. ASSUME createWorkflow \/ sweepWaiting \/ LeaseRunsOut \/ LeaseLapses PROVE approved' = approved
    BY <1>5 DEF createWorkflow, sweepWaiting, LeaseRunsOut, LeaseLapses, evars
<1>6. ASSUME UNCHANGED wfvars PROVE approved' = approved
    BY <1>6 DEF wfvars
<1> QED BY <1>1, <1>2, <1>3, <1>4, <1>5, <1>6 DEF WfNext

-------------------------------------------------------------------------------
(* One execution at a time.                                                *)

\* The worker that is at work on the run is the one its row names, with a
\* lease that lives.
PoolAlone ==
    \A w \in Pool : exec[w].pc # "idle" =>
        worker[wf] = w /\ lease[wf] = "live" /\ status[wf] \in {"running"} \cup Terminal

\* The requests do not execute the run.
AsideOnly ==
    \A e \in Inline :
        /\ exec[e].pc \in {"idle", "resuming"} \cup Cascading
        /\ exec[e].pc \in Cascading => exec[e].then = "return"
        /\ exec[e].cur.approval = "none"
        /\ exec[e].pc = "resuming" => status[wf] \in {"requires_action"} \cup Terminal

\* So it is until a lease lapses or an approval starts an inline execution.
Sole == ~lapsed /\ ~approved => PoolAlone /\ AsideOnly

\* Every step keeps it so.
LEMMA SoleStep ==
    ASSUME WalkInv, Sole, [WfNext]_wfvars
    PROVE  Sole'
<1> SUFFICES ASSUME ~lapsed', ~approved' PROVE PoolAlone' /\ AsideOnly'
    BY DEF Sole
<1>0. /\ PoolAlone /\ AsideOnly /\ ~LeaseLapses /\ Inline \subseteq Execs /\ Pool \subseteq Execs
      /\ Pool \cap Inline = {} /\ Pool \subseteq Workers /\ Frozen
    BY HistoryGrows, WfAssumption, FrozenStep DEF Sole, Execs, Pool
<1>t. /\ TypeOK /\ wf \in Runs
      /\ IsTerminal(status[wf]) => status'[wf] = status[wf]
    BY <1>0, WfAssumption DEF WalkInv, Frozen
<1>m. \A e \in Execs : ExecMoves(e)
    BY EveryMove
<1>i. \A e \in Inline : exec[e].pc \notin {"suspend", "resuspend", "gate", "opening"}
    BY <1>0 DEF AsideOnly, Cascading
<1>w. \A w \in Pool : exec'[w].pc # "idle" => exec[w].pc # "idle" \/ claim(w)
    <2> SUFFICES ASSUME NEW w \in Pool, exec'[w].pc # "idle", exec[w].pc = "idle" PROVE claim(w)
        OBVIOUS
    <2> QED BY <1>0, <1>m, IdleFields DEF ExecMoves, Moves, Alike, Cascading
<1>c. \A w \in Pool : claim(w) => /\ status'[wf] = "running" /\ worker'[wf] = w /\ lease'[wf] = "live"
                                  /\ status[wf] = "queued" \/ (status[wf] = "running" /\ lease[wf] = "expired")
    BY <1>t, RowChange DEF claim
<1>n. "running" \notin Terminal /\ "queued" \notin Terminal /\ "waiting" \notin Terminal
      /\ Absent \notin Terminal /\ "requires_action" \notin Terminal
    BY DEF Terminal, Absent
<1>1. PoolAlone'
    <2> SUFFICES ASSUME NEW w \in Pool, exec'[w].pc # "idle"
                 PROVE  worker'[wf] = w /\ lease'[wf] = "live"
                        /\ status'[wf] \in {"running"} \cup Terminal
        BY DEF PoolAlone
    <2>1. CASE claim(w)
        BY <1>c, <2>1
    <2>2. CASE ~claim(w)
        <3>1. /\ exec[w].pc # "idle" /\ worker[wf] = w /\ lease[wf] = "live"
              /\ status[wf] \in {"running"} \cup Terminal
            BY <1>0, <1>w, <2>2 DEF PoolAlone
        <3>2. ~LeaseRunsOut
            BY <3>1 DEF LeaseRunsOut, HolderLives, Busy, At
        <3>3. \A v \in Pool : ~claim(v)
            BY <1>c, <1>n, <3>1
        <3>4. \A e \in Execs : exec[e].pc \in {"gate", "suspend", "resuspend"} /\ exec'[e] = Idle => FALSE
            <4> SUFFICES ASSUME NEW e \in Execs, exec[e].pc \in {"gate", "suspend", "resuspend"},
                                exec'[e] = Idle
                         PROVE  FALSE
                OBVIOUS
            <4>1. e \in Pool
                BY <1>i DEF Execs
            <4>2. worker[wf] = e
                BY <1>0, <4>1 DEF PoolAlone
            <4> QED BY <3>1, <4>2, IdleFields
        <3>5. \/ RowKept
              \/ status'[wf] = status[wf] /\ worker'[wf] = worker[wf] /\ lease'[wf] = "live"
              \/ status'[wf] = "running" /\ LeaseKept
              \/ status'[wf] \in Terminal /\ LeaseKept
            <4>1. status[wf] # "waiting" /\ status[wf] # Absent
                BY <3>1 DEF Terminal, Absent
            <4>2. ~ \E f \in Inline : exec[f].pc = "resuming" /\ resumePlanApproval(f) /\ approved'
                OBVIOUS
            <4> QED BY <1>0, <3>2, <3>3, <3>4, <4>1, <4>2, EveryRow DEF RowMoves, ParkStep
        <3> QED BY <3>1, <3>5 DEF RowKept, LeaseKept
    <2> QED BY <2>1, <2>2
<1>2. AsideOnly'
    <2> SUFFICES ASSUME NEW e \in Inline
                 PROVE  /\ exec'[e].pc \in {"idle", "resuming"} \cup Cascading
                        /\ exec'[e].pc \in Cascading => exec'[e].then = "return"
                        /\ exec'[e].cur.approval = "none"
                        /\ exec'[e].pc = "resuming" => status'[wf] \in {"requires_action"} \cup Terminal
        BY DEF AsideOnly, Cascading
    <2>0. /\ exec[e].pc \in {"idle", "resuming"} \cup Cascading
          /\ exec[e].pc \in Cascading => exec[e].then = "return"
          /\ exec[e].cur.approval = "none"
          /\ exec[e].pc = "resuming" => status[wf] \in {"requires_action"} \cup Terminal
          /\ e \in Execs /\ e \notin Pool
        BY <1>0 DEF AsideOnly
    <2>1. CASE Alike(exec'[e], exec[e])
        <3>1. exec'[e].pc = exec[e].pc /\ exec'[e].then = exec[e].then /\ exec'[e].cur = exec[e].cur
            BY <2>1 DEF Alike
        <3>2. ASSUME exec[e].pc = "resuming" PROVE status'[wf] \in {"requires_action"} \cup Terminal
            <4>1. CASE IsTerminal(status[wf])
                BY <1>t, <4>1 DEF IsTerminal
            <4>2. CASE status[wf] = "requires_action"
                <5>1. \A w \in Pool : exec[w].pc = "idle"
                    BY <1>0, <1>n, <4>2 DEF PoolAlone
                <5>2. \A f \in Execs : exec[f].pc \notin {"opening", "gate", "suspend", "resuspend"}
                    BY <1>i, <5>1 DEF Execs
                <5>3. \A w \in Pool : ~claim(w)
                    BY <1>c, <4>2
                <5>4. status'[wf] = status[wf] \/ status'[wf] \in Terminal
                    BY <1>0, <4>2, <5>2, <5>3, EveryRow DEF RowMoves, RowKept, Absent, ParkStep
                <5> QED BY <4>2, <5>4
            <4> QED BY <2>0, <3>2, <4>1, <4>2 DEF IsTerminal
        <3> QED BY <2>0, <3>1, <3>2
    <2>2. CASE exec'[e] = Idle
        BY <2>2, IdleFields DEF Cascading
    <2>3. CASE Advance(e) /\ Moves(e)
        <3>1. exec[e].pc \in Cascading /\ Onward(e)
              /\ (exec'[e].pc = "idle" \/ (exec'[e].pc \in Cascading /\ exec'[e].then = "return"))
            BY <2>0, <2>3 DEF Moves, Cascading
        <3> QED BY <2>0, <3>1 DEF Onward, Cascading
    <2>4. CASE /\ exec'[e].pc \in {"opening", "resuming", "cascade"}
               /\ exec'[e].pc = "opening" => approved'
               /\ exec'[e].pc = "resuming" => status'[wf] = "requires_action"
               /\ exec'[e].pc = "cascade" => exec'[e].then = "return"
               /\ exec'[e].cur.approval = "none"
        BY <2>4 DEF Cascading
    <2> QED BY <1>m, <2>0, <2>1, <2>2, <2>3, <2>4 DEF ExecMoves
<1> QED BY <1>1, <1>2

-------------------------------------------------------------------------------
(* The gate.                                                               *)

\* An execution that has not passed the gate.
Halted(r) ==
    /\ r.pc \in {"idle", "poison", "opening", "load", "gate", "resuming"} \cup Cascading
    /\ r.pc = "gate" => gatePending(r.cur) /\ fresh(r.cur)
    /\ r.pc \in Cascading => r.then = "return"

\* Before the approval of a gated plan nothing is past the gate.
BeforeApproval ==
    spec.gate /\ ~approved =>
        /\ gatePending(cursor) /\ fresh(cursor)
        /\ \A c \in Children(wf) : ~Created(c)
        /\ \A e \in Execs : Halted(exec[e])

\* An execution that will not write a cursor that asks for approval.
Opened(r) ==
    /\ r.pc # "gate"
    /\ r.pc \notin {"idle", "poison", "opening", "load", "resuming"} => ~gatePending(r.cur)

\* After it nothing asks again.
AfterApproval ==
    approved /\ ~lapsed => ~gatePending(cursor) /\ \A e \in Execs : Opened(exec[e])

\* Nothing passes the gate before the approval.
LEMMA BeforeStep ==
    ASSUME WalkInv, BeforeApproval, [WfNext]_wfvars
    PROVE  BeforeApproval'
<1>s. spec' = spec
    BY FrozenStep DEF WalkInv, Frozen
<1> SUFFICES ASSUME spec.gate, ~approved'
             PROVE  /\ gatePending(cursor') /\ fresh(cursor')
                    /\ \A c \in Children(wf) : ~Created(c)'
                    /\ \A e \in Execs : Halted(exec'[e])
    BY <1>s DEF BeforeApproval, gatePending, fresh, Halted, Children
<1>0. /\ gatePending(cursor) /\ fresh(cursor) /\ Inline \subseteq Execs
      /\ \A c \in Children(wf) : ~Created(c)
      /\ \A e \in Execs : Halted(exec[e])
    BY HistoryGrows DEF BeforeApproval, Execs
<1>1. gatePending(cursor') /\ fresh(cursor')
    BY <1>0, CursorWrites DEF Halted, Cascading
<1>2. ASSUME NEW c \in Children(wf), Created(c)' PROVE FALSE
    BY <1>0, <1>2, NewSubRun DEF Halted, Cascading
<1>3. ASSUME NEW e \in Execs PROVE Halted(exec'[e])
    <2>0. Halted(exec[e])
        BY <1>0
    <2>1. CASE Alike(exec'[e], exec[e])
        BY <2>0, <2>1 DEF Halted, Alike
    <2>2. CASE exec'[e] = Idle
        BY <2>2, IdleFields DEF Halted, Cascading
    <2>3. CASE Moves(e)
        BY <1>0, <2>0, <2>3, IdleFields DEF Moves, Halted, Cascading
    <2> QED BY <2>1, <2>2, <2>3, EveryMove DEF ExecMoves, Halted, Cascading
<1> QED BY <1>1, <1>2, <1>3

\* Nothing asks for a second approval.
LEMMA AfterStep ==
    ASSUME WalkInv, Sole, BeforeApproval, AfterApproval, [WfNext]_wfvars
    PROVE  AfterApproval'
<1> SUFFICES ASSUME approved', ~lapsed'
             PROVE  ~gatePending(cursor') /\ \A e \in Execs : Opened(exec'[e])
    BY DEF AfterApproval, gatePending, Opened
<1>0. ~lapsed /\ Inline \subseteq Execs /\ cursor \in CursorType
    BY HistoryGrows DEF Execs, WalkInv, CursorSound
<1>1. ASSUME NEW e \in Execs, Opened(exec[e]), ~gatePending(cursor)
      PROVE  Opened(exec'[e])
    <2>1. CASE Alike(exec'[e], exec[e])
        BY <1>1, <2>1 DEF Opened, Alike
    <2>2. CASE exec'[e] = Idle
        BY <2>2, IdleFields DEF Opened
    <2>3. CASE Moves(e)
        BY <1>1, <2>3, IdleFields DEF Moves, Opened, Onward, Walk, Cascading, gatePending
    <2> QED BY <2>1, <2>2, <2>3, EveryMove DEF ExecMoves, Opened, gatePending
<1>2. CASE approved
    <2>1. ~gatePending(cursor) /\ \A e \in Execs : Opened(exec[e])
        BY <1>0, <1>2 DEF AfterApproval
    <2>2. ~gatePending(cursor')
        <3>1. CASE cursor' = [cursor EXCEPT !.approval = "approved"]
            BY <1>0, <3>1, ApprovedFields DEF gatePending
        <3> QED BY <2>1, <3>1, CursorWrites DEF Opened, gatePending
    <2> QED BY <1>1, <2>1, <2>2
<1>3. CASE ~approved
    <2>1. PoolAlone /\ AsideOnly
        BY <1>0, <1>3 DEF Sole
    <2>2. PICK e \in Inline : resumePlanApproval(e)
        BY <1>3, OnlyApproval
    <2>3. /\ exec[e].pc = "resuming" /\ e \in Execs
          /\ cursor' = [cursor EXCEPT !.approval = "approved"]
          /\ Become(e, [Idle EXCEPT !.pc = "opening"])
          /\ status[wf] \in {"requires_action"} \cup Terminal
          /\ status[wf] = "running" \/ CanTransition(status[wf], "running")
        BY <1>0, <1>3, <2>1, <2>2 DEF resumePlanApproval, At, AsideOnly, Update
    <2>4. status[wf] = "requires_action"
        BY <2>3 DEF Terminal, Status, CanTransition, transitions
    <2>5. exec \in [Execs -> ExecType]
        BY DEF WalkInv, ExecsSound
    <2>6. exec'[e].pc = "opening" /\ Others(e)
        BY <2>3, <2>5, StartForm DEF Stays
    <2>7. \A f \in Execs : Opened(exec[f])
        BY <2>1, <2>4 DEF Execs, PoolAlone, AsideOnly, Opened, Terminal, Cascading, gatePending
    <2>8. \A f \in Execs : Opened(exec'[f])
        BY <2>6, <2>7 DEF Others, Opened
    <2>9. ~gatePending(cursor')
        BY <1>0, <2>3, ApprovedFields DEF gatePending
    <2> QED BY <2>8, <2>9
<1> QED BY <1>2, <1>3

\* No sub-run exists before a human approved the plan, and the approval is not
\* asked for twice while one execution at a time is at work.
THEOREM GateIsKept == WfSpec => []GateHolds
<1>1. WfInit => Sole /\ BeforeApproval /\ AfterApproval
    <2> SUFFICES ASSUME WfInit PROVE Sole /\ BeforeApproval /\ AfterApproval
        OBVIOUS
    <2>1. \A e \in Execs : exec[e] = Idle
        BY DEF WfInit
    <2>2. ~approved /\ \A c \in Children(wf) : ~Created(c)
        BY DEF WfInit, Init, Created, Children
    <2>3. Sole
        BY <2>1, IdleFields DEF Sole, PoolAlone, AsideOnly, Execs, Cascading
    <2>4. spec.gate => gatePending(cursor) /\ fresh(cursor)
        BY DEF WfInit, newCursor, gatePending, fresh
    <2>5. BeforeApproval
        BY <2>1, <2>2, <2>4, IdleFields DEF BeforeApproval, Halted, Cascading
    <2> QED BY <2>2, <2>3, <2>5 DEF AfterApproval
<1>2. WalkInv /\ Sole /\ BeforeApproval /\ AfterApproval /\ [WfNext]_wfvars
      => Sole' /\ BeforeApproval' /\ AfterApproval'
    BY SoleStep, BeforeStep, AfterStep
<1>3. BeforeApproval /\ AfterApproval => GateHolds
    BY DEF BeforeApproval, AfterApproval, GateHolds
<1> QED BY <1>1, <1>2, <1>3, WalkAlways, PTL DEF WfSpec

-------------------------------------------------------------------------------
(* No wake comes early.                                                    *)

\* The sub-runs of the step in flight exist and decide it.
Decided(c) ==
    LET kids == ChildrenOf(c, c.current)
    IN  /\ c.current # NoStep /\ \A k \in kids : Created(k)
        /\ waitSatisfied(ModeOf(c.current), kids, status)

DecidedCursors == {c \in GoodCursors : Decided(c)}

\* A cursor that may be resumed.
Resumable == {c \in GoodCursors : fresh(c) \/ Decided(c)}

\* Somebody is, or will be, at work on the run, with no wait in between.
Active == status[wf] \in {Absent, "queued", "running"} \/ \E w \in Pool : exec[w].pc # "idle"

(***************************************************************************)
(* While one execution at a time is at work: a parked run waits for the    *)
(* sub-runs of the step in flight of its cursor; an active one has a       *)
(* cursor that may be resumed; and so has each copy of it.                 *)
(***************************************************************************)
WakeInv ==
    ~lapsed /\ ~spec.gate =>
        /\ status[wf] = "waiting" =>
              /\ cursor.current # NoStep /\ parkedOn[wf] = ChildrenOf(cursor, cursor.current)
              /\ waitMode[wf] = ModeOf(cursor.current)
        /\ Active => cursor \in Resumable
        /\ \A e \in Execs : /\ exec[e].pc # "resuspend"
                            /\ exec[e].pc = "resume" => exec[e].cur \in Resumable

\* A wait that is met stays met, over children that exist.
LEMMA MetKept ==
    ASSUME NEW mode, NEW kids \in SUBSET Runs, \A k \in kids : Created(k),
           \A k \in kids : IsTerminal(status[k]) => status'[k] = status[k],
           waitSatisfied(mode, kids, status)
    PROVE  waitSatisfied(mode, kids, status')
<1> DEFINE Done(k) == IsTerminal(PersistedStatus(status[k]))
           Won(k) == status[k] = "succeeded"
<1>1. \A k \in kids : /\ Done(k) => IsTerminal(PersistedStatus(status'[k])) /\ status'[k] = status[k]
                      /\ Won(k) => status'[k] = "succeeded"
    BY DEF Created, PersistedStatus, IsTerminal, Terminal
<1>2. (\A k \in kids : Done(k)) => \A k \in kids : IsTerminal(PersistedStatus(status'[k]))
    BY <1>1
<1>3. (\E k \in kids : Done(k)) => \E k \in kids : IsTerminal(PersistedStatus(status'[k]))
    BY <1>1
<1>4. (\E k \in kids : Done(k) /\ ~Won(k)) =>
      \E k \in kids : IsTerminal(PersistedStatus(status'[k])) /\ ~(status'[k] = "succeeded")
    BY <1>1
<1>5. (\E k \in kids : Won(k)) => \E k \in kids : status'[k] = "succeeded"
    BY <1>1
<1> QED BY <1>2, <1>3, <1>4, <1>5 DEF waitSatisfied

\* So a step that is decided stays decided.
LEMMA DecidedKept ==
    ASSUME WalkInv, [WfNext]_wfvars
    PROVE  DecidedCursors \subseteq DecidedCursors' /\ Resumable \subseteq Resumable'
<1>0. /\ TypeOK /\ [Next]_vars /\ Frozen /\ spec \in Specs /\ GoodCursors' = GoodCursors
      /\ spec' = spec /\ Children(wf) \subseteq Runs
    BY UsesStore, FrozenStep, FactsKept DEF WalkInv, WfRest, Frozen, Children
<1>1. ASSUME NEW c \in DecidedCursors PROVE c \in DecidedCursors'
    <2> DEFINE kids == ChildrenOf(c, c.current)
               mode == ModeOf(c.current)
    <2>1. c \in GoodCursors /\ c.current # NoStep /\ kids \subseteq Runs /\ Decided(c)
        BY <1>0, ChildrenOfAreChildren DEF DecidedCursors, Decided
    <2>2. ChildrenOf(c, c.current)' = kids /\ ModeOf(c.current)' = mode
        BY <1>0 DEF ChildrenOf, ModeOf, mapWaitMode
    <2>3. \A k \in kids : Created(k) /\ Created(k)'
        BY <1>0, <2>1, TerminalFrozen DEF Decided, Created
    <2>4. waitSatisfied(mode, kids, status)
        BY <2>1 DEF Decided
    <2>5. \A k \in kids : IsTerminal(status[k]) => status'[k] = status[k]
        BY <1>0, <2>1 DEF Frozen
    <2>6. waitSatisfied(mode, kids, status')
        <3> HIDE DEF mode, kids
        <3> QED BY <2>1, <2>3, <2>4, <2>5, MetKept
    <2>7. Decided(c)'
        BY <2>1, <2>2, <2>3, <2>6 DEF Decided
    <2> QED BY <1>0, <2>1, <2>7 DEF DecidedCursors
<1>2. \A c \in GoodCursors : Decided(c) <=> c \in DecidedCursors
    BY DEF DecidedCursors
<1>3. \A c \in DecidedCursors' : c \in GoodCursors /\ Decided(c)'
    BY <1>0 DEF DecidedCursors
<1>4. ASSUME NEW c \in Resumable PROVE c \in Resumable'
    <2>1. CASE fresh(c)
        BY <1>0, <2>1 DEF Resumable, fresh
    <2>2. CASE Decided(c)
        <3>1. c \in DecidedCursors'
            BY <1>1, <2>2 DEF Resumable, DecidedCursors
        <3> QED BY <1>0, <3>1 DEF Resumable, DecidedCursors
    <2> QED BY <2>1, <2>2 DEF Resumable
<1> QED BY <1>1, <1>4

\* A step whose wait is met is not undecided.
LEMMA DecidedIsDecided ==
    ASSUME spec \in Specs, NEW e \in Execs, exec[e].cur \in GoodCursors, Decided(exec[e].cur)
    PROVE  ~Undecided(exec[e], exec[e].cur.current)
<1> DEFINE c == exec[e].cur
           s == c.current
           kids == ChildrenOf(c, s)
<1>1. /\ c \in GoodCursors /\ s # NoStep /\ \A k \in kids : Created(k)
      /\ waitSatisfied(ModeOf(s), kids, status)
    BY DEF Decided
<1>2. \A k \in kids : PersistedStatus(status[k]) = status[k]
    BY <1>1 DEF Created, PersistedStatus
<1>3. \A k \in kids : Succeeded(k) <=> status[k] = "succeeded"
    BY DEF Succeeded
<1>4. spec.steps[s].any \in BOOLEAN
    <2>1. s \in DOMAIN spec.steps
        BY <1>1, ChildrenOfAreChildren DEF Graph
    <2> QED BY <2>1, SpecAssumption DEF StepType
<1>5. Undecided(exec[e], s) <=>
        ~ \/ \A k \in kids : IsTerminal(status[k])
          \/ /\ spec.steps[s].kind = "map"
             /\ IF spec.steps[s].any THEN \E k \in kids : Succeeded(k)
                ELSE \E k \in kids : IsTerminal(status[k]) /\ ~Succeeded(k)
    BY DEF Undecided
<1> HIDE DEF kids, s, c
<1>6. CASE spec.steps[s].kind = "map" /\ spec.steps[s].any
    <2>1. ModeOf(s) = "any-success"
        BY <1>6 DEF ModeOf, mapWaitMode
    <2>2. (\E k \in kids : status[k] = "succeeded") \/ \A k \in kids : IsTerminal(PersistedStatus(status[k]))
        BY <1>1, <2>1 DEF waitSatisfied
    <2> QED BY <1>2, <1>3, <1>5, <1>6, <2>2 DEF c, s
<1>7. CASE spec.steps[s].kind = "map" /\ ~spec.steps[s].any
    <2>1. ModeOf(s) = "all-fail-fast"
        BY <1>7 DEF ModeOf, mapWaitMode
    <2>2. \/ \E k \in kids : IsTerminal(PersistedStatus(status[k])) /\ ~(status[k] = "succeeded")
          \/ \A k \in kids : IsTerminal(PersistedStatus(status[k]))
        BY <1>1, <2>1 DEF waitSatisfied
    <2> QED BY <1>2, <1>3, <1>5, <1>7, <2>2 DEF c, s
<1>8. CASE spec.steps[s].kind # "map"
    <2>1. ModeOf(s) = "all"
        BY <1>8 DEF ModeOf
    <2>2. \A k \in kids : IsTerminal(PersistedStatus(status[k]))
        BY <1>1, <2>1 DEF waitSatisfied
    <2> QED BY <1>2, <1>5, <2>2 DEF c, s
<1> QED BY <1>4, <1>6, <1>7, <1>8

\* The wake of a run that is parked on the step in flight decides that step.
LEMMA WakeDecides ==
    ASSUME WalkInv, RemovedAreSpent, [WfNext]_wfvars, status[wf] = "waiting",
           NEW c \in GoodCursors, c.current # NoStep,
           parkedOn[wf] = ChildrenOf(c, c.current), waitMode[wf] = ModeOf(c.current),
           \/ sweepWaiting
           \/ \E d \in Children(wf), to \in Terminal : CompleteAndWake(d, to) /\ wf \in Woken(d, to)
    PROVE  c \in Resumable'
<1> DEFINE kids == ChildrenOf(c, c.current)
           mode == ModeOf(c.current)
<1>0. /\ TypeOK /\ ParkedConsistent /\ wf \in Runs /\ spec \in Specs
      /\ Frozen /\ [Next]_vars /\ Children(wf) \subseteq Runs \ {wf}
    BY WfAssumption, ParentAssumption, UsesStore, FrozenStep DEF WalkInv, WfRest, Children
<1>1. kids \subseteq Children(wf) /\ \A k \in kids : Created(k)
    BY <1>0, ChildrenOfAreChildren DEF RemovedAreSpent
<1>2. CASE sweepWaiting
    <2>1. waitSatisfied(mode, kids, status)
        BY <1>0, <1>2, SameVerdict DEF sweepWaiting, SweepWaiting
    <2>2. c \in Resumable
        BY <1>0, <1>1, <2>1 DEF Resumable, Decided
    <2> QED BY <2>2, DecidedKept
<1>3. ASSUME NEW d \in Children(wf), NEW to \in Terminal, CompleteAndWake(d, to), wf \in Woken(d, to)
      PROVE  c \in Resumable'
    <2> DEFINE st == [status EXCEPT ![d] = to]
    <2>1. d \in Runs
        BY <1>0
    <2>2. waitSatisfied(mode, kids, st)
        BY <1>0, <1>3, <2>1, EarlyWakeIsRight
    <2>3. \A k \in kids : status'[k] = st[k]
        <3>1. \A k \in Runs \ {wf} : k \notin Woken(d, to)
            BY <1>3 DEF Woken, Waiters, Children
        <3>2. \A k \in kids : k \in Runs \ {wf}
            BY <1>0, <1>1
        <3> HIDE DEF kids
        <3> QED BY <1>0, <1>3, <3>1, <3>2 DEF CompleteAndWake, WakeWaiters, TypeOK
    <2>4. waitSatisfied(mode, kids, status')
        <3> HIDE DEF st, kids, mode
        <3> QED BY <2>2, <2>3 DEF waitSatisfied
    <2>5. \A k \in kids : Created(k)'
        BY <1>0, <1>1, TerminalFrozen DEF Created
    <2>6. /\ spec' = spec /\ GoodCursors' = GoodCursors
          /\ ChildrenOf(c, c.current)' = kids /\ ModeOf(c.current)' = mode
        BY <1>0, FactsKept DEF Frozen, ChildrenOf, ModeOf, mapWaitMode
    <2>7. Decided(c)'
        BY <2>4, <2>5, <2>6 DEF Decided
    <2> QED BY <2>6, <2>7 DEF Resumable
<1> QED BY <1>2, <1>3

\* Without a gate the cursor is written with the park, and not otherwise.
LEMMA ParksWithCursor ==
    ASSUME WalkInv, [WfNext]_wfvars, ~spec.gate
    PROVE  cursor' = cursor \/ \E e \in Execs : ParkStep(e)
<1>0. /\ exec \in [Execs -> ExecType] /\ Inline \subseteq Execs /\ TypeOK
      /\ \A e \in Execs : exec[e].pc \notin {"gate", "resuming"}
    BY DEF WalkInv, Ungated, ExecsSound, Execs
<1> SUFFICES ASSUME NEW e \in Execs, suspendOnChildren(e), exec[e].pc = "suspend", cursor' # cursor
             PROVE  ParkStep(e)
    BY <1>0, CursorWrites
<1>1. /\ cursor' = exec[e].cur /\ Return(e) /\ Fence(e)
      /\ Suspend(wf, ChildrenOf(exec[e].cur, exec[e].step), ModeOf(exec[e].step))
    BY DEF suspendOnChildren
<1>2. exec'[e] = Idle
    BY <1>0, <1>1, ReturnForm
<1>3. status'[wf] = "waiting"
    BY <1>0, <1>1, RowChange
<1> QED BY <1>1, <1>2, <1>3 DEF ParkStep

\* No wake comes early, step by step.
LEMMA WakeStep ==
    ASSUME WalkInv, RemovedAreSpent, Sole, WakeInv, [WfNext]_wfvars
    PROVE  WakeInv'
<1>f. Frozen /\ spec' = spec /\ spec \in Specs
    BY FrozenStep DEF WalkInv, WfRest, Frozen
<1> SUFFICES ASSUME ~lapsed', ~spec.gate
             PROVE  /\ status'[wf] = "waiting" =>
                          /\ cursor'.current # NoStep
                          /\ parkedOn'[wf] = ChildrenOf(cursor', cursor'.current)
                          /\ waitMode'[wf] = ModeOf(cursor'.current)
                    /\ Active' => cursor' \in Resumable'
                    /\ \A e \in Execs : /\ exec'[e].pc # "resuspend"
                                        /\ exec'[e].pc = "resume" => exec'[e].cur \in Resumable'
    BY <1>f DEF WakeInv, ChildrenOf, ModeOf, mapWaitMode
<1>0. /\ ~lapsed /\ ~approved /\ ~LeaseLapses /\ PoolAlone /\ AsideOnly
      /\ \A e \in Execs : exec[e].pc \notin {"gate", "resuming"}
      /\ \A e \in Inline : exec[e].pc \in {"idle"} \cup Cascading
      /\ cursor \in GoodCursors /\ exec \in [Execs -> ExecType]
    BY HistoryGrows DEF Sole, WalkInv, Ungated, CursorSound, GoodCursors, ExecsSound
<1>1. /\ status[wf] = "waiting" =>
            /\ cursor.current # NoStep /\ parkedOn[wf] = ChildrenOf(cursor, cursor.current)
            /\ waitMode[wf] = ModeOf(cursor.current)
      /\ Active => cursor \in Resumable
      /\ \A e \in Execs : /\ exec[e].pc # "resuspend"
                          /\ exec[e].pc = "resume" => exec[e].cur \in Resumable
    BY <1>0 DEF WakeInv
<1>k. Resumable \subseteq Resumable'
    BY DecidedKept
<1>t. TypeOK /\ wf \in Runs /\ (status[wf] = "waiting" => lease[wf] = "none")
    BY WfAssumption DEF WalkInv, ParkedConsistent
<1>p. \A e \in Execs : exec[e].pc \notin {"idle"} \cup Cascading => e \in Pool
    BY <1>0 DEF Execs
<1>2. ASSUME NEW e \in Execs
      PROVE  exec'[e].pc # "resuspend" /\ (exec'[e].pc = "resume" => exec'[e].cur \in Resumable')
    <2>1. CASE Alike(exec'[e], exec[e])
        BY <1>1, <1>k, <2>1 DEF Alike
    <2>2. CASE exec'[e] = Idle
        BY <2>2, IdleFields
    <2>3. CASE Moves(e)
        <3>1. ASSUME exec'[e].pc = "resuspend" PROVE FALSE
            <4>1. /\ exec[e].pc = "resume" /\ exec[e].cur.current \in Graph
                  /\ Undecided(exec[e], exec[e].cur.current)
                BY <2>3, <3>1, IdleFields DEF Moves, Onward, Walk, Cascading
            <4>2. exec[e].cur \in GoodCursors /\ (fresh(exec[e].cur) \/ Decided(exec[e].cur))
                BY <1>1, <4>1 DEF Resumable
            <4>3. ~fresh(exec[e].cur)
                BY <1>f, <4>1, GraphFacts, SpecAssumption DEF fresh
            <4> QED BY <1>f, <4>1, <4>2, <4>3, DecidedIsDecided
        <3>2. ASSUME exec'[e].pc = "resume" PROVE exec'[e].cur \in Resumable'
            <4>1. exec[e].pc = "load" /\ exec'[e].cur = cursor
                BY <2>3, <3>2, IdleFields DEF Moves, Onward, Walk, Cascading
            <4>2. Active
                BY <1>p, <4>1 DEF Active, Cascading
            <4> QED BY <1>1, <1>k, <4>1, <4>2
        <3> QED BY <3>1, <3>2
    <2> QED BY <2>1, <2>2, <2>3, EveryMove DEF ExecMoves
<1>w. \A w \in Pool : exec'[w].pc # "idle" => exec[w].pc # "idle" \/ claim(w)
    <2> SUFFICES ASSUME NEW w \in Pool, exec'[w].pc # "idle", exec[w].pc = "idle" PROVE claim(w)
        OBVIOUS
    <2>1. w \in Execs /\ w \notin Inline
        BY WfAssumption DEF Execs, Pool
    <2> QED BY <2>1, EveryMove, IdleFields DEF ExecMoves, Moves, Alike, Cascading
<1>c. \A w \in Pool : claim(w) => status'[wf] = "running" /\ status[wf] \in {"queued", "running"}
    BY <1>t, RowChange DEF claim
<1>3. ASSUME NEW e \in Execs, ParkStep(e)
      PROVE  /\ status'[wf] = "waiting" =>
                   /\ cursor'.current # NoStep
                   /\ parkedOn'[wf] = ChildrenOf(cursor', cursor'.current)
                   /\ waitMode'[wf] = ModeOf(cursor'.current)
             /\ Active' => cursor' \in Resumable'
    <2>1. /\ exec[e].cur.current = exec[e].step /\ exec[e].step \in Graph /\ cursor' = exec[e].cur
          /\ e \in Pool
        BY <1>3, <1>p, AtLaunch DEF ParkStep, Launching, Cascading
    <2>2. exec[e].step # NoStep
        BY <1>f, <2>1, GraphFacts, SpecAssumption
    <2>3. /\ parkedOn'[wf] = ChildrenOf(exec[e].cur, exec[e].step)
          /\ waitMode'[wf] = ModeOf(exec[e].step)
        BY <1>3, <1>t, RowChange DEF ParkStep
    <2>4. \A w \in Pool : exec'[w].pc = "idle"
        <3> SUFFICES ASSUME NEW w \in Pool, exec'[w].pc # "idle" PROVE FALSE
            OBVIOUS
        <3>1. exec[w].pc # "idle"
            BY <1>3, <1>c, <1>w DEF ParkStep
        <3>2. worker[wf] = w /\ worker[wf] = e
            BY <1>0, <1>3, <2>1, <3>1 DEF PoolAlone, ParkStep
        <3> QED BY <1>3, <3>2, IdleFields DEF ParkStep
    <2>5. ~Active'
        BY <1>3, <2>4 DEF Active, ParkStep, Absent
    <2> QED BY <2>1, <2>2, <2>3, <2>5
<1>4. ASSUME \A e \in Execs : ~ParkStep(e)
      PROVE  /\ status'[wf] = "waiting" =>
                   /\ cursor'.current # NoStep
                   /\ parkedOn'[wf] = ChildrenOf(cursor', cursor'.current)
                   /\ waitMode'[wf] = ModeOf(cursor'.current)
             /\ Active' => cursor' \in Resumable'
    <2>0. cursor' = cursor
        BY <1>4, ParksWithCursor
    <2>r. \/ RowKept
          \/ /\ status[wf] = "waiting"
             /\ \/ sweepWaiting
                \/ \E d \in Children(wf), to \in Terminal : CompleteAndWake(d, to) /\ wf \in Woken(d, to)
          \/ /\ status[wf] \in {Absent, "queued", "running"}
             /\ status'[wf] \in {"queued", "running"}
          \/ LeaseRunsOut /\ lease[wf] = "live" /\ status'[wf] = status[wf]
          \/ \E e \in Execs : exec[e].pc = "opening" /\ status'[wf] = "running"
          \/ status'[wf] \in Terminal
        <3>1. Inline \subseteq Execs
            BY DEF Execs
        <3> QED BY <1>0, <1>1, <1>4, <3>1, EveryRow DEF RowMoves
    <2>1. ASSUME status'[wf] = "waiting"
          PROVE  status[wf] = "waiting" /\ parkedOn'[wf] = parkedOn[wf] /\ waitMode'[wf] = waitMode[wf]
        <3>1. ~sweepWaiting /\ \A d \in Children(wf), to \in Terminal :
                                  ~(CompleteAndWake(d, to) /\ wf \in Woken(d, to))
            <4>1. sweepWaiting => status'[wf] = "queued"
                BY <1>t, RowChange DEF sweepWaiting
            <4>2. ASSUME NEW d \in Children(wf), NEW to \in Terminal,
                         CompleteAndWake(d, to), wf \in Woken(d, to)
                  PROVE  status'[wf] = "queued"
                <5>1. d # wf
                    BY WfAssumption, ParentAssumption DEF Children
                <5> QED BY <1>t, <4>2, <5>1 DEF CompleteAndWake, WakeWaiters
            <4> QED BY <2>1, <4>1, <4>2
        <3>2. RowKept
            BY <1>t, <2>1, <2>r, <3>1 DEF Terminal
        <3> QED BY <2>1, <3>2 DEF RowKept
    <2>2. ASSUME Active' PROVE cursor \in Resumable'
        <3>1. CASE /\ status[wf] = "waiting"
                   /\ \/ sweepWaiting
                      \/ \E d \in Children(wf), to \in Terminal : CompleteAndWake(d, to) /\ wf \in Woken(d, to)
            BY <1>0, <1>1, <3>1, WakeDecides
        <3>2. CASE Active
            BY <1>1, <1>k, <3>2
        <3>3. CASE \E e \in Execs : exec[e].pc = "opening"
            BY <1>p, <3>2, <3>3 DEF Active, Cascading
        <3>4. CASE status'[wf] = status[wf] \/ status'[wf] \in Terminal
            <4>1. CASE status'[wf] \in {Absent, "queued", "running"}
                BY <3>2, <3>4, <4>1 DEF Active, Terminal, Absent
            <4>2. ASSUME NEW w \in Pool, exec'[w].pc # "idle" PROVE Active
                BY <1>w, <1>c, <4>2 DEF Active
            <4> QED BY <2>2, <3>2, <4>1, <4>2 DEF Active
        <3> QED BY <2>r, <3>1, <3>2, <3>3, <3>4 DEF Active, RowKept
    <2> QED BY <1>1, <2>0, <2>1, <2>2
<1> QED BY <1>2, <1>3, <1>4

\* Both hold at the start.
LEMMA StartsAlone ==
    ASSUME WfInit
    PROVE  Sole /\ WakeInv
<1>1. \A e \in Execs : exec[e] = Idle
    BY DEF WfInit
<1>2. Sole
    BY <1>1, IdleFields DEF Sole, PoolAlone, AsideOnly, Execs, Cascading
<1>3. fresh(cursor) /\ cursor \in GoodCursors
    BY WalkInit DEF WfInit, newCursor, fresh, WalkInv, CursorSound, GoodCursors
<1>4. status[wf] # "waiting"
    BY WfAssumption DEF WfInit, Init, Absent
<1> QED BY <1>1, <1>2, <1>3, <1>4, IdleFields DEF WakeInv, Resumable

\* While one execution at a time is at work, none resumes a step that its
\* sub-runs have not decided.
THEOREM NoEarlyWake == WfSpec => []WakesAreDue
<1>1. WfInit => Sole /\ WakeInv
    BY StartsAlone
<1>2. WalkInv /\ RemovedAreSpent /\ Sole /\ WakeInv /\ [WfNext]_wfvars => Sole' /\ WakeInv'
    BY SoleStep, WakeStep
<1>3. WalkInv /\ WakeInv => WakesAreDue
    <2> SUFFICES ASSUME WalkInv, WakeInv, ~lapsed, ~spec.gate, NEW e \in Execs, At(e, "resume")
                 PROVE  LET c == exec[e].cur
                        IN  fresh(c) \/ (c.current # NoStep /\ ~Undecided(exec[e], c.current))
        BY DEF WakesAreDue
    <2>1. exec[e].cur \in GoodCursors /\ (fresh(exec[e].cur) \/ Decided(exec[e].cur)) /\ spec \in Specs
        BY DEF WakeInv, At, Resumable, WalkInv, WfRest
    <2> QED BY <2>1, DecidedIsDecided DEF Decided
<1> QED BY <1>1, <1>2, <1>3, WalkAlways, WorkflowUsesStore, RemovedAlways, PTL DEF WfSpec

-------------------------------------------------------------------------------
(* Fail-fast leaves no work behind.                                        *)

\* A map without items: its join is entered in the same advance.
EmptyMap(s) == spec.steps[s].kind = "map" /\ spec.steps[s].size = 0

\* A set of steps that holds the join of each of its empty maps.
Closed(X) == \A p \in X : EmptyMap(p) /\ spec.steps[p].next # NoStep => spec.steps[p].next \in X

\* The steps that an advance which enters s may pass: s, and the joins behind
\* empty maps.  (Without induction over the list: the least closed set.)
Chain(s) == {t \in Graph : \A X \in SUBSET Graph : s \in X /\ Closed(X) => t \in X}

\* An advance passes the step it enters, and the join of an empty map it passes.
LEMMA ChainFacts ==
    ASSUME spec \in Specs, NEW s \in Graph
    PROVE  /\ s \in Chain(s)
           /\ \A t \in Chain(s) : EmptyMap(t) /\ spec.steps[t].next # NoStep => spec.steps[t].next \in Chain(s)
<1>1. s \in Chain(s)
    BY DEF Chain
<1>2. ASSUME NEW t \in Chain(s), EmptyMap(t), spec.steps[t].next # NoStep
      PROVE  spec.steps[t].next \in Chain(s)
    <2> DEFINE u == spec.steps[t].next
    <2>1. t \in Graph
        BY DEF Chain
    <2>2. u \in Graph
        BY <1>2, <2>1, GraphFacts DEF Edges
    <2>3. ASSUME NEW X \in SUBSET Graph, s \in X, Closed(X) PROVE u \in X
        <3>1. t \in X
            BY <2>3 DEF Chain
        <3> QED BY <1>2, <2>3, <3>1 DEF Closed
    <2> HIDE DEF u
    <2> QED BY <2>2, <2>3 DEF Chain, u
<1> QED BY <1>1, <1>2

\* An advance launches at most one step: the chain ends at it.
LEMMA ChainEnds ==
    ASSUME spec \in Specs, NEW s \in Graph, NEW t \in Chain(s), NEW u \in Chain(s),
           ~EmptyMap(t), ~EmptyMap(u)
    PROVE  t = u
<1> DEFINE X == {p \in Graph : t \in Chain(p)}
<1>1. Closed(X)
    <2> SUFFICES ASSUME NEW p \in X, EmptyMap(p), spec.steps[p].next # NoStep
                 PROVE  spec.steps[p].next \in X
        BY DEF Closed
    <2> DEFINE q == spec.steps[p].next
    <2>1. p \in Graph /\ t \in Chain(p) /\ t # p /\ t \in Graph
        BY DEF Chain
    <2>2. q \in Graph
        BY <2>1, GraphFacts DEF Edges
    <2>3. ASSUME NEW Y \in SUBSET Graph, q \in Y, Closed(Y) PROVE t \in Y
        <3> DEFINE Z == Y \cup {p}
        <3>1. Z \in SUBSET Graph /\ p \in Z /\ Closed(Z)
            BY <2>1, <2>3 DEF Closed
        <3>2. t \in Z
            <4> HIDE DEF Z
            <4> QED BY <2>1, <3>1 DEF Chain
        <3> QED BY <2>1, <3>2
    <2>4. t \in Chain(q)
        <3> HIDE DEF q
        <3> QED BY <2>1, <2>3 DEF Chain
    <2> QED BY <2>2, <2>4
<1>2. s \in X /\ X \in SUBSET Graph
    OBVIOUS
<1>3. u \in X
    <2> HIDE DEF X
    <2> QED BY <1>1, <1>2 DEF Chain
<1>4. t \in Chain(u) /\ u \in Graph
    BY <1>3
<1>5. Closed({u})
    BY DEF Closed
<1>6. t \in {u}
    BY <1>4, <1>5 DEF Chain
<1> QED BY <1>6

\* The sub-runs of the first launch of a step.
Batch(t) == IF spec.steps[t].kind = "map" THEN Items(t) ELSE {SpawnRunID(t, 0)}

\* The sub-runs that the run is, or was last, parked on.
InFlight(c) == IF c.current = NoStep THEN {} ELSE ChildrenOf(c, c.current)

\* The sub-runs of the step in flight, as they have ended, lead to step h.
Leads(c, h) ==
    LET s == c.current
        st == spec.steps[s]
        k == SpawnRunID(s, c.nodes[s].n)
    IN  \/ s = NoStep /\ h = Head(spec.order)
        \/ /\ s # NoStep /\ st.kind = "map" /\ h = st.next
           /\ \/ st.any /\ \E x \in ChildrenOf(c, s) : Succeeded(x)
              \/ ~st.any /\ \A x \in ChildrenOf(c, s) : Succeeded(x)
        \/ /\ s # NoStep /\ st.kind = "plain" /\ Succeeded(k)
           /\ ~evalFails(s, answer[k]) /\ h = nodeSuccessor(s, answer[k])
        \/ /\ s # NoStep /\ st.kind = "plain" /\ IsTerminal(status[k]) /\ ~Succeeded(k)
           /\ c.nodes[s].n >= st.size /\ h = routeCatch(s, Code(k))

\* They call for one more attempt, or one more iteration, of the same step.
Repeats(c) ==
    LET s == c.current
        st == spec.steps[s]
        n == c.nodes[s].n
        k == SpawnRunID(s, n)
    IN  /\ s # NoStep
        /\ \/ st.kind = "plain" /\ IsTerminal(status[k]) /\ ~Succeeded(k) /\ n < st.size
           \/ st.kind = "loop" /\ Succeeded(k) /\ answer[k] = "no" /\ n + 1 < st.size

\* The steps that the next advance may pass.
Ahead(c) == {t \in Graph : \E h \in Graph : Leads(c, h) /\ t \in Chain(h)}

\* The sub-runs that the next advance launches.
Upcoming(c) ==
    {x \in Children(wf) :
        \/ Repeats(c) /\ x = SpawnRunID(c.current, c.nodes[c.current].n + 1)
        \/ \E t \in Ahead(c) : x \in Batch(t)}

\* They lead to one step at most, and not while they call for one more launch.
LEMMA OneWay ==
    ASSUME spec \in Specs, NEW c \in GoodCursors, NEW h, Leads(c, h)
    PROVE  ~Repeats(c) /\ \A g : Leads(c, g) => g = h
<1> DEFINE s == c.current
           st == spec.steps[s]
           n == c.nodes[s].n
           k == SpawnRunID(s, n)
<1>1. ASSUME s # NoStep PROVE n \in Nat /\ st.size \in Nat
    <2>1. s \in Graph /\ s \in Steps /\ c \in CursorType
        BY <1>1, GoodPassed, GraphFacts
    <2> QED BY <2>1, GraphFacts DEF CursorType, NodeType, StepType
<1>2. ~(n >= st.size /\ n < st.size) \/ s = NoStep
    BY <1>1
<1> HIDE DEF k, n, st, s
<1>3. ~Repeats(c)
    BY <1>2 DEF Leads, Repeats, k, n, st, s
<1>4. ASSUME NEW g, Leads(c, g) PROVE g = h
    BY <1>4 DEF Leads
<1> QED BY <1>3, <1>4

\* Where the next advance launches a step, it launches that step's sub-runs only.
LEMMA OneBatch ==
    ASSUME spec \in Specs, NEW c \in GoodCursors, NEW t \in Ahead(c), ~EmptyMap(t)
    PROVE  Upcoming(c) = Batch(t)
<1>1. PICK h \in Graph : Leads(c, h) /\ t \in Chain(h)
    BY DEF Ahead
<1>2. ~Repeats(c) /\ \A g : Leads(c, g) => g = h
    BY <1>1, OneWay
<1>3. t \in Graph /\ spec.steps[t] \in StepType
    BY GraphFacts DEF Ahead
<1>4. Batch(t) \subseteq Children(wf)
    <2>1. CASE spec.steps[t].kind = "map"
        BY <1>3, <2>1, ItemsAreChildren DEF Batch
    <2>2. CASE spec.steps[t].kind # "map"
        <3>1. 0 \in Launches(spec.steps[t])
            BY <1>3, <2>2, GraphFacts DEF Launches, StepType
        <3> QED BY <1>3, <2>2, <3>1, GraphFacts DEF Batch
    <2> QED BY <2>1, <2>2
<1>5. \A u \in Ahead(c) : u = t \/ Batch(u) = {}
    <2> SUFFICES ASSUME NEW u \in Ahead(c), u # t PROVE Batch(u) = {}
        OBVIOUS
    <2>1. u \in Chain(h)
        BY <1>2 DEF Ahead
    <2>2. EmptyMap(u)
        BY <1>1, <2>1, ChainEnds
    <2> QED BY <2>2 DEF EmptyMap, Batch, Items
<1> QED BY <1>2, <1>4, <1>5 DEF Upcoming

\* Where no step is ahead and none is repeated, nothing is launched.
LEMMA NothingAhead ==
    ASSUME NEW c, ~Repeats(c), \A h \in Graph : ~Leads(c, h)
    PROVE  Upcoming(c) = {}
BY DEF Upcoming, Ahead

\* What a step leads to, as a set of facts that only grows.
Outcomes ==
    {p \in GoodCursors \X Graph : p[2] \in Ahead(p[1])}
Launchables ==
    {p \in GoodCursors \X Children(wf) : p[2] \in Upcoming(p[1])}

\* What the sub-runs that have ended lead to, they still lead to later on.
LEMMA AheadKept ==
    ASSUME spec \in Specs, Frozen
    PROVE  Outcomes \subseteq Outcomes' /\ Launchables \subseteq Launchables'
<1>s. spec' = spec /\ Graph' = Graph /\ GoodCursors' = GoodCursors
    BY FactsKept DEF Frozen
<1>f. /\ \A x \in Children(wf) : IsTerminal(status[x]) => status'[x] = status[x] /\ answer'[x] = answer[x]
      /\ \A x \in Children(wf) : Succeeded(x) => status'[x] = status[x] /\ answer'[x] = answer[x]
    BY DEF Frozen, Children, Succeeded, IsTerminal, Terminal
<1>c. \A s : Chain(s)' = Chain(s)
    BY <1>s DEF Chain, Closed, EmptyMap
<1>b. \A t : Batch(t)' = Batch(t)
    BY <1>s DEF Batch, Items, SpawnRunID
<1>k. ASSUME NEW c \in GoodCursors, c.current # NoStep
      PROVE  /\ ChildrenOf(c, c.current)' = ChildrenOf(c, c.current)
             /\ ChildrenOf(c, c.current) \subseteq Children(wf)
             /\ spec.steps[c.current].kind # "map" =>
                   SpawnRunID(c.current, c.nodes[c.current].n) \in Children(wf)
    <2>1. ChildrenOf(c, c.current) \subseteq Children(wf)
        BY <1>k, ChildrenOfAreChildren
    <2> QED BY <1>s, <1>k, <2>1 DEF ChildrenOf, SpawnRunID
<1>1. ASSUME NEW c \in GoodCursors, NEW h \in Graph, Leads(c, h) PROVE Leads(c, h)'
    <2> DEFINE s == c.current
               st == spec.steps[s]
               k == SpawnRunID(s, c.nodes[s].n)
    <2>1. CASE s = NoStep /\ h = Head(spec.order)
        BY <1>s, <2>1 DEF Leads
    <2>2. CASE /\ s # NoStep /\ st.kind = "map" /\ h = st.next
               /\ st.any /\ \E x \in ChildrenOf(c, s) : Succeeded(x)
        <3>1. \E x \in ChildrenOf(c, s)' : Succeeded(x)'
            BY <1>k, <1>f, <2>2 DEF Succeeded
        <3> QED BY <1>s, <2>2, <3>1 DEF Leads
    <2>3. CASE /\ s # NoStep /\ st.kind = "map" /\ h = st.next
               /\ ~st.any /\ \A x \in ChildrenOf(c, s) : Succeeded(x)
        <3>1. \A x \in ChildrenOf(c, s)' : Succeeded(x)'
            BY <1>k, <1>f, <2>3 DEF Succeeded
        <3> QED BY <1>s, <2>3, <3>1 DEF Leads
    <2>4. CASE /\ s # NoStep /\ st.kind = "plain" /\ Succeeded(k)
               /\ ~evalFails(s, answer[k]) /\ h = nodeSuccessor(s, answer[k])
        <3>1. status'[k] = status[k] /\ answer'[k] = answer[k]
            BY <1>k, <1>f, <2>4
        <3> QED BY <1>s, <2>4, <3>1 DEF Leads, Succeeded, evalFails, nodeSuccessor, SpawnRunID
    <2>5. CASE /\ s # NoStep /\ st.kind = "plain" /\ IsTerminal(status[k]) /\ ~Succeeded(k)
               /\ c.nodes[s].n >= st.size /\ h = routeCatch(s, Code(k))
        <3>1. status'[k] = status[k]
            BY <1>k, <1>f, <2>5
        <3> QED BY <1>s, <2>5, <3>1 DEF Leads, Succeeded, routeCatch, Code, SpawnRunID
    <2> QED BY <1>1, <2>1, <2>2, <2>3, <2>4, <2>5 DEF Leads
<1>2. ASSUME NEW c \in GoodCursors, Repeats(c) PROVE Repeats(c)'
    <2> DEFINE s == c.current
               k == SpawnRunID(s, c.nodes[s].n)
    <2>1. s # NoStep /\ spec.steps[s].kind # "map" /\ (IsTerminal(status[k]) \/ Succeeded(k))
        BY <1>2 DEF Repeats
    <2>2. status'[k] = status[k] /\ answer'[k] = answer[k]
        BY <1>k, <1>f, <2>1
    <2> QED BY <1>s, <1>2, <2>2 DEF Repeats, Succeeded, SpawnRunID
<1>3. ASSUME NEW c \in GoodCursors, NEW t \in Ahead(c) PROVE t \in Ahead(c)'
    BY <1>s, <1>c, <1>1, <1>3 DEF Ahead
<1>4. ASSUME NEW c \in GoodCursors, NEW x \in Upcoming(c) PROVE x \in Upcoming(c)'
    BY <1>b, <1>2, <1>3, <1>4 DEF Upcoming, SpawnRunID, Children
<1>5. Children(wf)' = Children(wf)
    BY DEF Children
<1> QED BY <1>s, <1>3, <1>4, <1>5 DEF Outcomes, Launchables

\* The sub-runs that exist and have not ended, as the cascade lists them.
LiveKids == {c \in Children(wf) : Created(c) /\ ~IsTerminal(status[c])}

\* The plain step in flight has failed with this class, and no retry is left.
NoRetryLeft(c, code) ==
    LET s == c.current
        k == SpawnRunID(s, c.nodes[s].n)
    IN  /\ s \in Graph /\ spec.steps[s].kind = "plain" /\ c.nodes[s].n >= spec.steps[s].size
        /\ IsTerminal(status[k]) /\ ~Succeeded(k) /\ code = Code(k)

(***************************************************************************)
(* The only execution at work is in step with the persisted cursor: the    *)
(* step it enters is one that the step in flight leads to, and what it     *)
(* launches, or finds launched by an execution that crashed, are the       *)
(* sub-runs of that step.  When it fails, nothing is left.                 *)
(***************************************************************************)
Follows(r) ==
    /\ r.pc \in {"resume", "exhausted"} => r.cur = cursor
    /\ r.pc = "exhausted" => NoRetryLeft(cursor, r.code)
    /\ r.pc \in {"enter", "onward"} => r.step \in Ahead(cursor) /\ LiveKids \subseteq Upcoming(cursor)
    /\ r.pc \in Launching => /\ ChildrenOf(r.cur, r.step) \subseteq Upcoming(cursor)
                             /\ LiveKids \subseteq ChildrenOf(r.cur, r.step)
    /\ r.pc \in Cascading /\ r.then = "advance" => r.cur = cursor
    /\ r.pc = "cancelling" => LiveKids \subseteq r.todo
    /\ r.pc = "fail" => LiveKids = {}

\* The live sub-runs are those of the step in flight, or of the next one.
Tracked == LiveKids \subseteq InFlight(cursor) \cup Upcoming(cursor)

\* What the run has come to stays so, while the cursor stays.
LEMMA TrackKept ==
    ASSUME WalkInv, Frozen, cursor' = cursor
    PROVE  /\ Ahead(cursor) \subseteq Ahead(cursor)' /\ Upcoming(cursor) \subseteq Upcoming(cursor)'
           /\ InFlight(cursor)' = InFlight(cursor)
           /\ \A code : NoRetryLeft(cursor, code) => NoRetryLeft(cursor, code)'
<1>0. spec \in Specs /\ cursor \in GoodCursors /\ GoodCursors' = GoodCursors /\ spec' = spec
      /\ Graph' = Graph
    BY FactsKept DEF WalkInv, WfRest, CursorSound, GoodCursors, Frozen
<1>1. Outcomes \subseteq Outcomes' /\ Launchables \subseteq Launchables'
    BY <1>0, AheadKept
<1>2. ASSUME NEW t \in Ahead(cursor) PROVE t \in Ahead(cursor)'
    <2>1. t \in Graph
        BY DEF Ahead
    <2>2. <<cursor, t>> \in Outcomes'
        BY <1>0, <1>1, <2>1 DEF Outcomes
    <2> QED BY <2>2 DEF Outcomes
<1>3. ASSUME NEW x \in Upcoming(cursor) PROVE x \in Upcoming(cursor)'
    <2>1. x \in Children(wf)
        BY DEF Upcoming
    <2>2. <<cursor, x>> \in Launchables'
        BY <1>0, <1>1, <2>1 DEF Launchables
    <2> QED BY <2>2 DEF Launchables
<1>4. InFlight(cursor)' = InFlight(cursor)
    BY <1>0 DEF InFlight, ChildrenOf, SpawnRunID
<1>5. ASSUME NEW code, NoRetryLeft(cursor, code) PROVE NoRetryLeft(cursor, code)'
    <2> DEFINE s == cursor.current
               k == SpawnRunID(s, cursor.nodes[s].n)
    <2>1. s \in Graph /\ s # NoStep /\ spec.steps[s].kind = "plain"
        BY <1>0, <1>5, GraphFacts DEF NoRetryLeft
    <2>2. k \in Runs
        BY <1>0, <2>1, ChildrenOfAreChildren DEF ChildrenOf, Children
    <2>3. status'[k] = status[k]
        BY <1>5, <2>2 DEF NoRetryLeft, Frozen
    <2> QED BY <1>0, <1>5, <2>3 DEF NoRetryLeft, Succeeded, Code, SpawnRunID
<1> QED BY <1>2, <1>3, <1>4, <1>5

\* So an execution that was in step stays in step, if no sub-run is new.
LEMMA FollowsKept ==
    ASSUME WalkInv, Frozen, cursor' = cursor, LiveKids' \subseteq LiveKids,
           NEW e \in Execs, Follows(exec'[e])
    PROVE  Follows(exec[e])'
<1>0. spec' = spec
    BY DEF Frozen
<1>1. ChildrenOf(exec[e].cur, exec[e].step)' = ChildrenOf(exec'[e].cur, exec'[e].step)
    BY <1>0 DEF ChildrenOf, SpawnRunID
<1>2. /\ Ahead(cursor) \subseteq Ahead(cursor)' /\ Upcoming(cursor) \subseteq Upcoming(cursor)'
      /\ \A code : NoRetryLeft(cursor, code) => NoRetryLeft(cursor, code)'
    BY TrackKept
<1>3. exec'[e].pc = "exhausted" => NoRetryLeft(cursor, exec[e].code)'
    BY <1>2 DEF Follows
<1> QED BY <1>1, <1>2, <1>3 DEF Follows, Launching, Cascading

\* A sub-run is live because it was, or because an execution has launched it.
LEMMA LiveKept ==
    ASSUME WalkInv, [WfNext]_wfvars, NEW x \in LiveKids'
    PROVE  \/ x \in LiveKids
           \/ \E e \in Execs : /\ exec[e].pc = "spawn" /\ spawnWorkflowNode(e)
                               /\ x = SpawnRunID(exec[e].step, exec[e].i)
<1>1. x \in Children(wf) /\ Created(x)' /\ ~IsTerminal(status'[x]) /\ x \in Runs
    BY DEF LiveKids, Children
<1>2. CASE Created(x)
    BY <1>1, <1>2, FrozenStep DEF Frozen, LiveKids
<1>3. CASE ~Created(x)
    BY <1>1, <1>3, NewSubRun
<1> QED BY <1>2, <1>3


\* Where an execution relies on nothing of this.
Aside == {"idle", "poison", "opening", "load", "gate", "resuspend", "complete", "resuming"}

\* It is in step there.
LEMMA AsideFollows ==
    ASSUME NEW r, r.pc \in Aside \/ (r.pc \in {"cascade", "list"} /\ r.then # "advance")
    PROVE  Follows(r)
BY DEF Follows, Aside, Launching, Cascading

\* Once the sub-runs in flight have ended, the live ones are those of the next
\* step; if there is none, nothing is live.
LEMMA OnceEnded ==
    ASSUME WalkInv, Tracked, \A k \in InFlight(cursor) : IsTerminal(status[k])
    PROVE  /\ LiveKids \subseteq Upcoming(cursor)
           /\ ~Repeats(cursor) /\ (\A h \in Graph : ~Leads(cursor, h)) => LiveKids = {}
<1>1. LiveKids \subseteq Upcoming(cursor)
    BY DEF Tracked, LiveKids
<1> QED BY <1>1, NothingAhead

\* A step that the step in flight leads to is entered in step.
LEMMA EnterFollows ==
    ASSUME WalkInv, NEW h \in Graph, Leads(cursor, h), LiveKids \subseteq Upcoming(cursor),
           NEW r, r.step = h, r.pc \in {"enter", "onward"}
    PROVE  Follows(r)
<1>1. h \in Ahead(cursor)
    BY ChainFacts DEF Ahead, WalkInv, WfRest
<1> QED BY <1>1 DEF Follows, Launching, Cascading

\* One more launch of the step in flight is in step.
LEMMA RepeatFollows ==
    ASSUME WalkInv, Repeats(cursor), LiveKids \subseteq Upcoming(cursor), NEW r,
           r.step = cursor.current, spec.steps[r.step].kind # "map", r.pc = "reserve",
           r.cur.nodes[r.step].n = cursor.nodes[cursor.current].n + 1,
           SpawnRunID(cursor.current, cursor.nodes[cursor.current].n + 1) \in Children(wf)
    PROVE  Follows(r)
<1> DEFINE x == SpawnRunID(cursor.current, cursor.nodes[cursor.current].n + 1)
<1>0. spec \in Specs /\ cursor \in GoodCursors
    BY DEF WalkInv, WfRest, CursorSound, GoodCursors
<1>1. ChildrenOf(r.cur, r.step) = {x}
    BY DEF ChildrenOf
<1>2. Ahead(cursor) = {}
    BY <1>0, OneWay DEF Ahead
<1>3. Upcoming(cursor) = {x}
    BY <1>2 DEF Upcoming
<1> HIDE DEF x
<1> QED BY <1>1, <1>3 DEF Follows, Launching, Cascading

\* The start of the graph is in step.
LEMMA StartFollows ==
    ASSUME WalkInv, Tracked, NEW e \in Execs, exec[e].cur = cursor, startGraph(e)
    PROVE  Follows(exec'[e])
<1> DEFINE s == Head(spec.order)
           g == [exec[e] EXCEPT !.step = s]
           q == [g EXCEPT !.pc = "enter"]
<1>0. /\ spec \in Specs /\ exec \in [Execs -> ExecType] /\ exec[e] \in ExecType
    BY OneSound
<1>1. s \in Graph
    BY <1>0, SpecAssumption DEF Graph, Range
<1>2. s \in Steps
    BY <1>0, <1>1, GraphFacts
<1>3. cursor.current = NoStep
    BY DEF startGraph, fresh
<1>4. Leads(cursor, s) /\ InFlight(cursor) = {}
    BY <1>3 DEF Leads, InFlight
<1>6. Become(e, q)
    BY DEF startGraph
<1> HIDE DEF s
<1>7. g \in ExecType /\ g.step = s
    BY <1>0, <1>2 DEF ExecType
<1> HIDE DEF g
<1>8. q \in ExecType /\ q.step = s /\ q.pc = "enter"
    BY <1>7 DEF ExecType, Pcs
<1> HIDE DEF q
<1>9. exec'[e] = q
    BY <1>0, <1>6, <1>8, BecomeForm
<1> QED BY <1>1, <1>4, <1>8, <1>9, OnceEnded, EnterFollows

\* So is an advance past the step in flight.
LEMMA AdvanceFollows ==
    ASSUME WalkInv, LiveKids \subseteq Upcoming(cursor), NEW r \in ExecType, NEW s \in Graph,
           NEW out \in Outs, spec.steps[s].kind = "plain" /\ evalFails(s, out) => LiveKids = {},
           ~(spec.steps[s].kind = "plain" /\ evalFails(s, out)) => Leads(cursor, nodeSuccessor(s, out)),
           NEW q, q.pc = advanceFrom(r, s, out, "enter").pc, q.step = advanceFrom(r, s, out, "enter").step
    PROVE  Follows(q)
<1> DEFINE a == advanceFrom(r, s, out, "enter")
           h == nodeSuccessor(s, out)
           stop == spec.steps[s].kind = "plain" /\ evalFails(s, out)
<1>0. spec \in Specs /\ h \in Graph \cup {NoStep}
    BY SuccessorListed DEF WalkInv, WfRest
<1>1. /\ a.step = h
      /\ \/ a.pc = "fail" /\ stop
         \/ a.pc = "complete" /\ ~stop /\ h = NoStep
         \/ a.pc = "enter" /\ ~stop /\ h # NoStep
    BY <1>0, AdvanceFields
<1>2. q.pc = a.pc /\ q.step = a.step /\ (stop => LiveKids = {}) /\ (~stop => Leads(cursor, h))
    OBVIOUS
<1> HIDE DEF a, h, stop
<1>3. CASE a.pc = "fail" /\ stop
    BY <1>2, <1>3 DEF Follows, Launching, Cascading
<1>4. CASE a.pc = "complete"
    BY <1>2, <1>4, AsideFollows DEF Aside
<1>5. CASE a.pc = "enter" /\ ~stop /\ h # NoStep
    BY <1>0, <1>1, <1>2, <1>5, EnterFollows
<1> QED BY <1>1, <1>3, <1>4, <1>5

\* The fold of a plain step is in step.
LEMMA PlainFollows ==
    ASSUME WalkInv, Tracked, NEW e \in Execs, NEW s \in Graph, At(e, "resume"),
           exec[e].cur = cursor, cursor.current = s, resumePlainNode(e, s)
    PROVE  Follows(exec'[e])
<1> DEFINE rec == exec[e]
           n == cursor.nodes[s].n
           k == SpawnRunID(s, n)
           code == Code(k)
<1>0. s # NoStep /\ s \in Steps
    BY GraphFacts DEF WalkInv, WfRest
<1>1. /\ spec \in Specs /\ exec \in [Execs -> ExecType] /\ rec \in ExecType
      /\ Counted(cursor, s) /\ cursor \in GoodCursors
    BY <1>0, AtResume
<1>2. spec.steps[s].kind = "plain" /\ IsTerminal(status[k])
    BY DEF resumePlainNode
<1>3. n \in 0..spec.steps[s].size /\ spec.steps[s].size \in Nat /\ n \in Nat
    BY <1>1, <1>2, GraphFacts DEF Counted, Launches, StepType
<1>4. answer[k] \in Outs
    BY <1>2, <1>3, PlainOutcome
<1>c. code \in Codes /\ code \in {"none", "agent_error", "cancelled"}
    BY DEF Code, Codes
<1>i. InFlight(cursor) = {k}
    BY <1>0, <1>2 DEF InFlight, ChildrenOf
<1>l. LiveKids \subseteq Upcoming(cursor)
    BY <1>2, <1>i, OnceEnded
<1>5. CASE Succeeded(k) /\ Become(e, advanceFrom(rec, s, answer[k], "enter"))
    <2>1. advanceFrom(rec, s, answer[k], "enter") \in ExecType
        BY <1>1, <1>4, AdvanceFields
    <2>2. exec'[e] = advanceFrom(rec, s, answer[k], "enter")
        BY <1>1, <1>5, <2>1, BecomeForm
    <2>3. ~evalFails(s, answer[k]) => Leads(cursor, nodeSuccessor(s, answer[k]))
        BY <1>0, <1>2, <1>5 DEF Leads
    <2>4. ASSUME evalFails(s, answer[k]) PROVE LiveKids = {}
        <3>1. ~Repeats(cursor) /\ \A h \in Graph : ~Leads(cursor, h)
            BY <1>0, <1>2, <1>5, <2>4 DEF Repeats, Leads
        <3> QED BY <1>2, <1>i, <3>1, OnceEnded
    <2> HIDE DEF k
    <2> QED BY <1>1, <1>2, <1>4, <1>l, <2>2, <2>3, <2>4, AdvanceFollows
<1>6. CASE /\ ~Succeeded(k) /\ n < spec.steps[s].size
           /\ Become(e, [retryNode(rec, s) EXCEPT !.retry = TRUE, !.code = code])
    <2> DEFINE l == launch(rec, s, n + 1)
               g == [l EXCEPT !.retry = TRUE]
               q == [g EXCEPT !.code = code]
    <2>0. rec \in ExecType /\ s \in Steps /\ n + 1 \in Nat
        BY <1>0, <1>1, <1>3
    <2>1. /\ l \in ExecType /\ l.pc = "reserve" /\ l.cur = launched(rec.cur, s, n + 1) /\ l.step = s
        BY <2>0, LaunchFields
    <2>2. Become(e, q)
        BY <1>6 DEF retryNode
    <2> HIDE DEF l
    <2>3. g \in ExecType /\ g.pc = "reserve" /\ g.cur = l.cur /\ g.step = s
        BY <2>1 DEF ExecType
    <2> HIDE DEF g, code
    <2>4. q \in ExecType /\ q.pc = "reserve" /\ q.cur = l.cur /\ q.step = s
        BY <1>c, <2>3 DEF ExecType
    <2> HIDE DEF q
    <2>5. exec'[e] = q
        BY <1>1, <2>2, <2>4, BecomeForm
    <2>6. q.cur.nodes[s].n = n + 1
        <3>1. rec.cur \in CursorType
            BY <1>1 DEF ExecType
        <3>2. launched(rec.cur, s, n + 1).nodes[s] = [state |-> "launched", n |-> n + 1, out |-> "none"]
            BY <1>0, <1>3, <3>1, LaunchedFields
        <3> QED BY <2>1, <2>4, <3>2
    <2>7. Repeats(cursor)
        BY <1>0, <1>2, <1>6 DEF Repeats
    <2>8. SpawnRunID(s, n + 1) \in Children(wf)
        <3>1. n + 1 \in Launches(spec.steps[s])
            BY <1>2, <1>3, <1>6 DEF Launches
        <3> QED BY <1>1, <3>1, GraphFacts
    <2> QED BY <1>2, <1>l, <2>4, <2>5, <2>6, <2>7, <2>8, RepeatFollows
<1>7. CASE /\ ~Succeeded(k) /\ n >= spec.steps[s].size
           /\ Become(e, [rec EXCEPT !.pc = "exhausted", !.code = code])
    <2> DEFINE g == [rec EXCEPT !.pc = "exhausted"]
               q == [g EXCEPT !.code = code]
    <2>1. Become(e, q)
        BY <1>7
    <2>2. NoRetryLeft(cursor, code)
        BY <1>2, <1>7 DEF NoRetryLeft
    <2>3. g \in ExecType /\ g.pc = "exhausted" /\ g.cur = cursor
        BY <1>1 DEF ExecType, Pcs
    <2> HIDE DEF g, code
    <2>4. q \in ExecType /\ q.pc = "exhausted" /\ q.cur = cursor /\ q.code = code
        BY <1>c, <2>3 DEF ExecType
    <2> HIDE DEF q
    <2>5. exec'[e] = q
        BY <1>1, <2>1, <2>4, BecomeForm
    <2> QED BY <2>2, <2>4, <2>5 DEF Follows, Launching, Cascading
<1> QED BY <1>5, <1>6, <1>7 DEF resumePlainNode

\* The fold of a loop is in step.
LEMMA LoopFollows ==
    ASSUME WalkInv, Tracked, NEW e \in Execs, NEW s \in Graph, At(e, "resume"),
           exec[e].cur = cursor, cursor.current = s, resumeLoopNode(e, s)
    PROVE  Follows(exec'[e])
<1> DEFINE rec == exec[e]
           n == cursor.nodes[s].n
           k == SpawnRunID(s, n)
<1>0. s # NoStep /\ s \in Steps
    BY GraphFacts DEF WalkInv, WfRest
<1>1. /\ spec \in Specs /\ exec \in [Execs -> ExecType] /\ rec \in ExecType
      /\ Counted(cursor, s) /\ cursor \in GoodCursors
    BY <1>0, AtResume
<1>2. spec.steps[s].kind = "loop" /\ IsTerminal(status[k])
    BY DEF resumeLoopNode
<1>3. n \in 0..spec.steps[s].size - 1 /\ spec.steps[s].size \in Nat /\ n \in Nat
    BY <1>1, <1>2, GraphFacts DEF Counted, Launches, StepType
<1>4. answer[k] \in Outs
    <2>1. k \in Runs
        BY <1>0, <1>1, <1>2, ChildrenOfAreChildren DEF ChildrenOf, Children
    <2> QED BY <2>1 DEF WalkInv, WfRest, Outs
<1>i. InFlight(cursor) = {k}
    BY <1>0, <1>2 DEF InFlight, ChildrenOf
<1>l. LiveKids \subseteq Upcoming(cursor)
    BY <1>2, <1>i, OnceEnded
<1>5. CASE Become(e, failThen(rec))
    BY <1>1, <1>5, BecomeForm, FailThenFields, AsideFollows
<1>6. CASE answer[k] = "bad" /\ Goto(e, "fail")
    <2>1. exec'[e].pc = "fail"
        BY <1>1, <1>6, GotoForm DEF Pcs
    <2>2. ~Repeats(cursor) /\ \A h \in Graph : ~Leads(cursor, h)
        BY <1>0, <1>2, <1>6 DEF Repeats, Leads
    <2>3. LiveKids = {}
        BY <1>2, <1>i, <2>2, OnceEnded
    <2> QED BY <2>1, <2>3 DEF Follows, Launching, Cascading
<1>7. CASE Become(e, advanceFrom(rec, s, answer[k], "enter"))
    <2> DEFINE q == advanceFrom(rec, s, answer[k], "enter")
    <2>1. nodeSuccessor(s, answer[k]) = NoStep
        BY <1>2 DEF nodeSuccessor
    <2>2. q \in ExecType /\ q.pc = "complete"
        BY <1>1, <1>2, <1>4, <2>1, AdvanceFields
    <2>3. exec'[e] = q
        BY <1>1, <1>7, <2>2, BecomeForm
    <2> HIDE DEF q
    <2> QED BY <2>2, <2>3, AsideFollows DEF Aside
<1>8. CASE /\ Succeeded(k) /\ answer[k] = "no" /\ n + 1 < spec.steps[s].size
           /\ Become(e, launch(rec, s, n + 1))
    <2> DEFINE q == launch(rec, s, n + 1)
    <2>1. q \in ExecType /\ q.pc = "reserve" /\ q.cur = launched(rec.cur, s, n + 1) /\ q.step = s
        BY <1>0, <1>1, <1>3, LaunchFields
    <2>5. exec'[e] = q
        BY <1>1, <1>8, <2>1, BecomeForm
    <2> HIDE DEF q
    <2>6. q.cur.nodes[s].n = n + 1
        <3>1. rec.cur \in CursorType
            BY <1>1 DEF ExecType
        <3>2. launched(rec.cur, s, n + 1).nodes[s] = [state |-> "launched", n |-> n + 1, out |-> "none"]
            BY <1>0, <1>3, <3>1, LaunchedFields
        <3> QED BY <2>1, <3>2
    <2>7. Repeats(cursor)
        BY <1>0, <1>2, <1>8 DEF Repeats
    <2>8. SpawnRunID(s, n + 1) \in Children(wf)
        <3>1. n + 1 \in Launches(spec.steps[s])
            BY <1>2, <1>3, <1>8 DEF Launches
        <3> QED BY <1>1, <3>1, GraphFacts
    <2> QED BY <1>2, <1>l, <2>1, <2>5, <2>6, <2>7, <2>8, RepeatFollows
<1> QED BY <1>5, <1>6, <1>7, <1>8 DEF resumeLoopNode

\* The fold of a map that needs all its items is in step.
LEMMA MapFollows ==
    ASSUME WalkInv, Tracked, NEW e \in Execs, NEW s \in Graph, At(e, "resume"),
           exec[e].cur = cursor, cursor.current = s, resumeMapNode(e, s)
    PROVE  Follows(exec'[e])
<1> DEFINE rec == exec[e]
           q == advanceFrom(rec, s, "list", "enter")
<1>0. s # NoStep /\ s \in Steps
    BY GraphFacts DEF WalkInv, WfRest
<1>1. spec \in Specs /\ exec \in [Execs -> ExecType] /\ rec \in ExecType
    BY <1>0, AtResume
<1>2. spec.steps[s].kind = "map" /\ "list" \in Outs /\ ~spec.steps[s].any
    BY DEF resumeMapNode, Outs
<1>i. InFlight(cursor) = ChildrenOf(cursor, s)
    BY <1>0 DEF InFlight
<1>3. CASE Become(e, failThen(rec))
    BY <1>1, <1>3, BecomeForm, FailThenFields, AsideFollows
<1>4. CASE (\A x \in ChildrenOf(cursor, s) : Succeeded(x)) /\ Become(e, q)
    <2>1. \A x \in InFlight(cursor) : IsTerminal(status[x])
        BY <1>4, <1>i DEF Succeeded, IsTerminal, Terminal
    <2>2. Leads(cursor, nodeSuccessor(s, "list"))
        BY <1>0, <1>2, <1>4 DEF nodeSuccessor, Leads
    <2>3. q \in ExecType
        BY <1>1, <1>2, AdvanceFields
    <2>4. exec'[e] = q
        BY <1>1, <1>4, <2>3, BecomeForm
    <2> QED BY <1>1, <1>2, <2>1, <2>2, <2>4, OnceEnded, AdvanceFollows
<1> QED BY <1>3, <1>4 DEF resumeMapNode

\* The fold of a map that needs one of its items is in step.
LEMMA MapAnyFollows ==
    ASSUME WalkInv, Tracked, NEW e \in Execs, NEW s \in Graph, At(e, "resume"),
           exec[e].cur = cursor, cursor.current = s, resumeMapNodeAny(e, s)
    PROVE  Follows(exec'[e])
<1> DEFINE rec == exec[e]
           f == [rec EXCEPT !.pc = "cascade"]
           g == [f EXCEPT !.then = "advance"]
           q == [g EXCEPT !.step = s]
<1>0. s # NoStep /\ s \in Steps
    BY GraphFacts DEF WalkInv, WfRest
<1>1. spec \in Specs /\ exec \in [Execs -> ExecType] /\ rec \in ExecType
    BY <1>0, AtResume
<1>2. spec.steps[s].kind = "map" /\ spec.steps[s].any
    BY DEF resumeMapNodeAny
<1>i. InFlight(cursor) = ChildrenOf(cursor, s)
    BY <1>0 DEF InFlight
<1>3. CASE (\A x \in ChildrenOf(cursor, s) : IsTerminal(status[x]) /\ ~Succeeded(x)) /\ Goto(e, "fail")
    <2>1. exec'[e].pc = "fail"
        BY <1>1, <1>3, GotoForm DEF Pcs
    <2>2. ~Repeats(cursor) /\ \A h \in Graph : ~Leads(cursor, h)
        BY <1>0, <1>2, <1>3 DEF Repeats, Leads
    <2>3. LiveKids = {}
        BY <1>3, <1>i, <2>2, OnceEnded
    <2> QED BY <2>1, <2>3 DEF Follows, Launching, Cascading
<1>4. CASE Become(e, q)
    <2>3. f \in ExecType /\ f.pc = "cascade" /\ f.cur = rec.cur
        BY <1>1 DEF ExecType, Pcs
    <2> HIDE DEF f
    <2>4. g \in ExecType /\ g.pc = "cascade" /\ g.cur = rec.cur
        BY <2>3 DEF ExecType
    <2> HIDE DEF g
    <2>5. q \in ExecType /\ q.pc = "cascade" /\ q.cur = rec.cur
        BY <1>0, <2>4 DEF ExecType
    <2>6. exec'[e] = q
        BY <1>1, <1>4, <2>5, BecomeForm
    <2> HIDE DEF q
    <2> QED BY <2>5, <2>6 DEF Follows, Launching, Cascading
<1> QED BY <1>3, <1>4 DEF resumeMapNodeAny


\* The whole resume phase is in step.
LEMMA ResumeFollows ==
    ASSUME WalkInv, Tracked, NEW e \in Execs, Follows(exec[e]), resumeCurrentNode(e)
    PROVE  Follows(exec'[e])
<1>0. At(e, "resume") /\ exec[e].cur = cursor
    BY DEF resumeCurrentNode, startGraph, Follows, At
<1>1. CASE startGraph(e)
    BY <1>0, <1>1, StartFollows
<1>2. ASSUME NEW s \in Graph, Become(e, [exec[e] EXCEPT !.pc = "resuspend", !.step = s])
      PROVE  Follows(exec'[e])
    <2> DEFINE g == [exec[e] EXCEPT !.pc = "resuspend"]
               q == [g EXCEPT !.step = s]
    <2>1. spec \in Specs /\ exec \in [Execs -> ExecType] /\ exec[e] \in ExecType
        BY OneSound
    <2>2. s \in Steps
        BY <2>1, GraphFacts
    <2>3. g \in ExecType /\ g.pc = "resuspend"
        BY <2>1 DEF ExecType, Pcs
    <2>4. Become(e, q)
        BY <1>2
    <2> HIDE DEF g
    <2>5. q \in ExecType /\ q.pc = "resuspend"
        BY <2>2, <2>3 DEF ExecType
    <2> HIDE DEF q
    <2>6. exec'[e] = q
        BY <2>1, <2>4, <2>5, BecomeForm
    <2> QED BY <2>5, <2>6, AsideFollows DEF Aside
<1>3. CASE \E s \in Graph : /\ exec[e].cur.current = s
                            /\ \/ resumePlainNode(e, s) \/ resumeLoopNode(e, s)
                               \/ resumeMapNode(e, s) \/ resumeMapNodeAny(e, s)
    BY <1>0, <1>3, PlainFollows, LoopFollows, MapFollows, MapAnyFollows
<1> QED BY <1>1, <1>2, <1>3 DEF resumeCurrentNode, Graph

\* The handler of a step without a retry left is entered in step.
LEMMA ExhaustedFollows ==
    ASSUME WalkInv, Tracked, NEW e \in Execs, Follows(exec[e]), exhausted(e)
    PROVE  Follows(exec'[e])
<1> DEFINE rec == exec[e]
           s == cursor.current
           n == cursor.nodes[s].n
           k == SpawnRunID(s, n)
           h == routeCatch(s, rec.code)
<1>0. spec \in Specs /\ exec \in [Execs -> ExecType] /\ rec \in ExecType
    BY OneSound
<1>1. rec.cur = cursor /\ NoRetryLeft(cursor, rec.code)
    BY DEF exhausted, At, Follows
<1>2. /\ s \in Graph /\ spec.steps[s].kind = "plain" /\ n >= spec.steps[s].size
      /\ IsTerminal(status[k]) /\ ~Succeeded(k) /\ rec.code = Code(k)
    BY <1>1 DEF NoRetryLeft
<1>3. s # NoStep /\ s \in Steps /\ rec.code \in {"agent_error", "cancelled"}
    BY <1>0, <1>2, GraphFacts DEF Code
<1>4. InFlight(cursor) = {k}
    BY <1>2, <1>3 DEF InFlight, ChildrenOf
<1>5. LiveKids \subseteq Upcoming(cursor)
    BY <1>2, <1>4, OnceEnded
<1>6. Leads(cursor, h)
    BY <1>2, <1>3 DEF Leads
<1>7. CASE Become(e, failThen(rec))
    BY <1>0, <1>7, BecomeForm, FailThenFields, AsideFollows
<1>8. CASE /\ h # NoStep
           /\ Become(e, [rec EXCEPT
                  !.cur = [markNodeDone(@, rec.cur.current, "null") EXCEPT !.current = NoStep],
                  !.step = h, !.pc = "enter"])
    <2> DEFINE d == DoneCursor(cursor, s, "null")
               f == [rec EXCEPT !.cur = d]
               g == [f EXCEPT !.step = h]
               q == [g EXCEPT !.pc = "enter"]
    <2>1. d \in CursorType
        BY <1>0, <1>1, <1>3, DoneFields DEF ExecType, Outs
    <2>2. h \in Graph
        BY <1>0, <1>2, <1>3, <1>8, HandlerListed
    <2>3. h \in Steps
        BY <1>0, <2>2, GraphFacts
    <2>4. Become(e, q)
        BY <1>1, <1>8 DEF DoneCursor
    <2> HIDE DEF d, h
    <2>5. f \in ExecType
        BY <1>0, <2>1 DEF ExecType
    <2> HIDE DEF f
    <2>6. g \in ExecType /\ g.step = h
        BY <2>3, <2>5 DEF ExecType
    <2> HIDE DEF g
    <2>7. q \in ExecType /\ q.step = h /\ q.pc = "enter"
        BY <2>6 DEF ExecType, Pcs
    <2> HIDE DEF q
    <2>8. exec'[e] = q
        BY <1>0, <2>4, <2>7, BecomeForm
    <2> QED BY <1>5, <1>6, <2>2, <2>7, <2>8, EnterFollows
<1> QED BY <1>1, <1>7, <1>8 DEF exhausted

\* The step that is entered launches what is upcoming; an empty map passes on.
LEMMA EnterNodeFollows ==
    ASSUME WalkInv, NEW e \in Execs, Follows(exec[e]), enterNode(e)
    PROVE  Follows(exec'[e])
<1> DEFINE rec == exec[e]
           s == rec.step
           st == spec.steps[s]
<1>0. /\ spec \in Specs /\ exec \in [Execs -> ExecType] /\ rec \in ExecType
      /\ rec.pc \in {"enter", "onward"} /\ cursor \in GoodCursors
    BY OneSound DEF enterNode, At
<1>1. s \in Ahead(cursor) /\ LiveKids \subseteq Upcoming(cursor)
    BY <1>0 DEF Follows
<1>2. s \in Graph /\ s \in Steps /\ st.size \in Nat /\ rec.cur \in CursorType
    BY <1>0, <1>1, GraphFacts DEF Ahead, StepType, ExecType
<1>4. CASE Return(e)
    BY <1>0, <1>4, ReturnForm, IdleFields, AsideFollows DEF Aside
<1>5. CASE /\ st.kind = "map" /\ st.size = 0
           /\ Become(e, advanceFrom([rec EXCEPT !.cur = launched(@, s, 0)], s, "list", "onward"))
    <2> DEFINE c == launched(rec.cur, s, 0)
               r == [rec EXCEPT !.cur = c]
               q == advanceFrom(r, s, "list", "onward")
    <2>1. c \in CursorType
        BY <1>2, LaunchedFields
    <2>3. Become(e, q)
        BY <1>5
    <2> HIDE DEF c
    <2>4. r \in ExecType
        BY <1>0, <2>1 DEF ExecType
    <2> HIDE DEF r
    <2>5. /\ q \in ExecType /\ q.step = nodeSuccessor(s, "list")
          /\ q.pc = "complete" \/ (q.pc = "onward" /\ nodeSuccessor(s, "list") # NoStep)
        BY <1>0, <1>2, <1>5, <2>4, AdvanceFields DEF Outs
    <2>6. exec'[e] = q
        BY <1>0, <2>3, <2>5, BecomeForm
    <2> HIDE DEF q
    <2>7. nodeSuccessor(s, "list") = st.next /\ EmptyMap(s)
        BY <1>5 DEF nodeSuccessor, EmptyMap
    <2>8. PICK h \in Graph : Leads(cursor, h) /\ s \in Chain(h)
        BY <1>1 DEF Ahead
    <2>9. st.next # NoStep => st.next \in Ahead(cursor)
        <3>1. st.next # NoStep => st.next \in Chain(h)
            BY <1>0, <2>7, <2>8, ChainFacts
        <3> QED BY <2>8, <3>1 DEF Ahead, Chain
    <2>10. CASE q.pc = "complete"
        BY <2>6, <2>10, AsideFollows DEF Aside
    <2>11. CASE q.pc = "onward" /\ st.next # NoStep
        BY <1>1, <2>5, <2>6, <2>7, <2>9, <2>11 DEF Follows, Launching, Cascading
    <2> QED BY <2>5, <2>7, <2>10, <2>11
<1>6. CASE /\ st.kind = "map" /\ st.size # 0
           /\ Become(e, [rec EXCEPT !.cur = launched(@, s, st.size), !.i = 0, !.pc = "reserve"])
    <2> DEFINE c == launched(rec.cur, s, st.size)
               f == [rec EXCEPT !.cur = c]
               g == [f EXCEPT !.i = 0]
               q == [g EXCEPT !.pc = "reserve"]
    <2>1. c \in CursorType /\ c.nodes[s] = [state |-> "launched", n |-> st.size, out |-> "none"]
        BY <1>2, LaunchedFields
    <2>2. c.nodes[s].n = st.size
        BY <2>1
    <2>4. Become(e, q)
        BY <1>6
    <2> HIDE DEF c
    <2>6. f \in ExecType /\ f.cur = c /\ f.step = s
        BY <1>0, <2>1 DEF ExecType
    <2> HIDE DEF f
    <2>7. g \in ExecType /\ g.cur = c /\ g.step = s
        BY <2>6 DEF ExecType
    <2> HIDE DEF g
    <2>8. q \in ExecType /\ q.cur = c /\ q.step = s /\ q.pc = "reserve"
        BY <2>7 DEF ExecType, Pcs
    <2> HIDE DEF q
    <2>9. exec'[e] = q
        BY <1>0, <2>4, <2>8, BecomeForm
    <2>10. ChildrenOf(q.cur, q.step) = Batch(s)
        BY <1>6, <2>2, <2>8 DEF ChildrenOf, Batch, Items
    <2>11. Upcoming(cursor) = Batch(s)
        BY <1>0, <1>1, <1>6, OneBatch DEF EmptyMap
    <2> QED BY <1>1, <2>8, <2>9, <2>10, <2>11 DEF Follows, Launching, Cascading
<1>7. CASE st.kind # "map" /\ Become(e, launch(rec, s, 0))
    <2> DEFINE q == launch(rec, s, 0)
    <2>1. /\ q \in ExecType /\ q.pc = "reserve" /\ q.cur = launched(rec.cur, s, 0) /\ q.step = s
        BY <1>0, <1>2, LaunchFields
    <2>2. exec'[e] = q
        BY <1>0, <1>7, <2>1, BecomeForm
    <2> HIDE DEF q
    <2>3. launched(rec.cur, s, 0).nodes[s] = [state |-> "launched", n |-> 0, out |-> "none"]
        BY <1>2, LaunchedFields
    <2>4. q.cur.nodes[s].n = 0
        BY <2>1, <2>3
    <2>5. ChildrenOf(q.cur, q.step) = Batch(s)
        BY <1>7, <2>1, <2>4 DEF ChildrenOf, Batch
    <2>6. Upcoming(cursor) = Batch(s)
        BY <1>0, <1>1, <1>7, OneBatch DEF EmptyMap
    <2> QED BY <1>1, <2>1, <2>2, <2>5, <2>6 DEF Follows, Launching, Cascading
<1> QED BY <1>4, <1>5, <1>6, <1>7 DEF enterNode


\* After the cascade nothing is live: the failure, or the join of the map.
LEMMA AfterCascadeFollows ==
    ASSUME WalkInv, NEW e \in Execs, exec[e].pc \in Cascading, LiveKids = {}, Follows(exec[e]),
           Become(e, AfterCascade(exec[e]))
    PROVE  Follows(exec'[e])
<1> DEFINE rec == exec[e]
<1>0. spec \in Specs /\ exec \in [Execs -> ExecType] /\ rec \in ExecType /\ CascadeOK(rec)
    BY OneSound DEF Sound
<1>1. CASE rec.then = "return"
    BY <1>0, <1>1, ReturnForm, IdleFields, AsideFollows DEF AfterCascade, Return, Aside
<1>2. CASE rec.then = "fail"
    <2> DEFINE g == [rec EXCEPT !.pc = "fail"]
               q == [g EXCEPT !.todo = {}]
    <2>1. Become(e, q)
        BY <1>2 DEF AfterCascade
    <2>2. g \in ExecType /\ g.pc = "fail"
        BY <1>0 DEF ExecType, Pcs
    <2> HIDE DEF g
    <2>3. q \in ExecType /\ q.pc = "fail"
        BY <2>2 DEF ExecType
    <2> HIDE DEF q
    <2>4. exec'[e] = q
        BY <1>0, <2>1, <2>3, BecomeForm
    <2> QED BY <2>3, <2>4 DEF Follows, Launching, Cascading
<1>3. CASE rec.then = "advance"
    <2> DEFINE s == rec.step
               a == advanceFrom(rec, s, "list", "enter")
               q == [a EXCEPT !.todo = {}]
    <2>1. s \in WonMaps /\ cursor.current = s /\ cursor \in GoodCursors /\ rec.cur = cursor
        BY <1>0, <1>3 DEF CascadeOK, Follows
    <2>2. s \in Graph /\ spec.steps[s].kind = "map" /\ spec.steps[s].any
          /\ \E c \in Items(s) : Succeeded(c)
        BY <2>1 DEF WonMaps
    <2>3. s # NoStep
        BY <1>0, <2>2, GraphFacts
    <2>4. \E c \in ChildrenOf(cursor, s) : Succeeded(c)
        BY <1>0, <2>1, <2>2, <2>3, GoodPassed, MapItems
    <2>5. Leads(cursor, nodeSuccessor(s, "list"))
        BY <2>1, <2>2, <2>3, <2>4 DEF nodeSuccessor, Leads
    <2>7. Become(e, q)
        BY <1>3 DEF AfterCascade
    <2>8. a \in ExecType
        BY <1>0, <2>2, AdvanceFields DEF Outs
    <2>10. a = advanceFrom(rec, s, "list", "enter")
        OBVIOUS
    <2> HIDE DEF a
    <2>11. q \in ExecType /\ q.pc = a.pc /\ q.step = a.step
        BY <2>8 DEF ExecType
    <2> HIDE DEF q
    <2>12. exec'[e] = q
        BY <1>0, <2>7, <2>11, BecomeForm
    <2> QED BY <1>0, <2>2, <2>5, <2>10, <2>11, <2>12, AdvanceFollows DEF Outs
<1> QED BY <1>0, <1>1, <1>2, <1>3 DEF CascadeOK

\* The holder lists all that is live, and goes on when nothing is left of it.
LEMMA CascadeFollows ==
    ASSUME WalkInv, NEW e \in Execs, Fence(e), Follows(exec[e]),
           cascadeStarts(e) \/ cascadeLists(e) \/ (cascadeCancels(e) /\ exec[e].todo = {})
    PROVE  Follows(exec'[e])
<1> DEFINE rec == exec[e]
<1>0. spec \in Specs /\ exec \in [Execs -> ExecType] /\ rec \in ExecType
    BY OneSound
<1>1. CASE cascadeStarts(e)
    <2>1. rec.pc = "cascade" /\ Goto(e, "list")
        BY <1>1 DEF cascadeStarts, At
    <2>2. exec'[e].pc = "list" /\ exec'[e].then = rec.then /\ exec'[e].cur = rec.cur
        BY <1>0, <2>1, GotoForm DEF Pcs, SameBut, Keeps
    <2> QED BY <2>1, <2>2 DEF Follows, Launching, Cascading
<1>2. CASE cascadeLists(e)
    <2> DEFINE g == [rec EXCEPT !.pc = "cancelling"]
               q == [g EXCEPT !.todo = LiveKids]
    <2>1. rec.pc = "list" /\ Become(e, q)
        BY <1>2 DEF cascadeLists, At, LiveKids
    <2>2. g \in ExecType /\ g.pc = "cancelling" /\ g.then = rec.then /\ g.cur = rec.cur
        BY <1>0 DEF ExecType, Pcs
    <2>3. LiveKids \subseteq Children(wf)
        BY DEF LiveKids
    <2> HIDE DEF g
    <2>4. q \in ExecType /\ q.pc = "cancelling" /\ q.then = rec.then /\ q.cur = rec.cur /\ q.todo = LiveKids
        BY <2>2, <2>3 DEF ExecType
    <2> HIDE DEF q
    <2>5. exec'[e] = q
        BY <1>0, <2>1, <2>4, BecomeForm
    <2> QED BY <2>1, <2>4, <2>5 DEF Follows, Launching, Cascading
<1>3. CASE cascadeCancels(e) /\ rec.todo = {}
    <2>1. rec.pc = "cancelling" /\ Become(e, AfterCascade(rec))
        BY <1>3 DEF cascadeCancels, At
    <2>2. LiveKids = {}
        BY <1>3, <2>1 DEF Follows
    <2> QED BY <2>1, <2>2, AfterCascadeFollows DEF Cascading
<1> QED BY <1>1, <1>2, <1>3

\* What has been cancelled, or has ended since, needs no further look.
LEMMA CancelsFollows ==
    ASSUME WalkInv, Frozen, NEW e \in Execs, Follows(exec[e]), cascadeCancels(e),
           exec[e].todo # {}, LiveKids' \subseteq LiveKids
    PROVE  Follows(exec[e])'
<1> DEFINE rec == exec[e]
<1>0. /\ spec \in Specs /\ exec \in [Execs -> ExecType] /\ rec \in ExecType /\ TypeOK
      /\ rec.todo \subseteq Children(wf) /\ Children(wf) \subseteq Runs
    BY OneSound DEF WalkInv, ExecType, Children
<1>1. PICK c \in rec.todo : /\ Update(c, "cancelled") \/ (IsTerminal(status[c]) /\ UNCHANGED vars)
                            /\ Become(e, [rec EXCEPT !.todo = @ \ {c}])
    BY DEF cascadeCancels
<1>2. rec.pc = "cancelling" /\ cursor' = cursor
    BY DEF cascadeCancels, At
<1> DEFINE todo == rec.todo \ {c}
           q == [rec EXCEPT !.todo = todo]
<1>3. Become(e, q) /\ todo \subseteq Children(wf)
    BY <1>0, <1>1
<1> HIDE DEF todo
<1>4. q \in ExecType /\ q.pc = "cancelling" /\ q.cur = rec.cur /\ q.then = rec.then /\ q.todo = todo
    BY <1>0, <1>2, <1>3 DEF ExecType
<1> HIDE DEF q
<1>5. exec'[e] = q
    BY <1>0, <1>3, <1>4, BecomeForm
<1>6. IsTerminal(status'[c])
    BY <1>0, <1>1 DEF Update, TypeOK, IsTerminal, Terminal, vars
<1>7. LiveKids' \subseteq todo
    <2>1. LiveKids \subseteq rec.todo
        BY <1>2 DEF Follows
    <2>2. c \notin LiveKids'
        BY <1>6 DEF LiveKids
    <2> QED BY <2>1, <2>2 DEF todo
<1> QED BY <1>2, <1>4, <1>5, <1>7 DEF Follows, Launching, Cascading

\* A spent budget goes to the cascade, a reservation to the spawn.
LEMMA ReserveFollows ==
    ASSUME WalkInv, NEW e \in Execs, \A s \in Graph : spec.steps[s].bad = {}, Follows(exec[e]), reserve(e)
    PROVE  Follows(exec'[e])
<1> DEFINE rec == exec[e]
<1>0. /\ spec \in Specs /\ exec \in [Execs -> ExecType] /\ rec \in ExecType /\ rec.step \in Graph
      /\ rec.pc = "reserve"
    BY AtLaunch DEF reserve, At, Launching
<1>1. rec.i \notin spec.steps[rec.step].bad
    BY <1>0
<1>2. CASE Become(e, failThen(rec))
    BY <1>0, <1>2, BecomeForm, FailThenFields, AsideFollows
<1>3. CASE Goto(e, "spawn")
    <2>1. exec'[e].pc = "spawn" /\ exec'[e].step = rec.step /\ exec'[e].cur = rec.cur
        BY <1>0, <1>3, GotoForm DEF Pcs, SameBut, Keeps
    <2> QED BY <1>0, <2>1 DEF Follows, Launching, Cascading
<1> QED BY <1>1, <1>2, <1>3 DEF reserve

\* A launched sub-run is one of the step that is being launched.
LEMMA SpawnFollows ==
    ASSUME WalkInv, Frozen, NEW e \in Execs, Follows(exec[e]), spawnWorkflowNode(e),
           LiveKids' \subseteq LiveKids \cup {SpawnRunID(exec[e].step, exec[e].i)}
    PROVE  Follows(exec[e])' /\ Tracked'
<1> DEFINE rec == exec[e]
           s == rec.step
           kids == ChildrenOf(rec.cur, s)
<1>0. /\ spec \in Specs /\ exec \in [Execs -> ExecType] /\ rec \in ExecType /\ s \in Graph
      /\ rec.pc = "spawn" /\ cursor' = cursor /\ rec.i \in Nat /\ spec' = spec
      /\ rec.cur \in GoodCursors /\ rec.cur.current = s /\ rec.i \in Launches(spec.steps[s])
      /\ spec.steps[s].kind # "map" => rec.cur.nodes[s].n = rec.i
    BY AtLaunch DEF spawnWorkflowNode, At, Launching, Frozen
<1>1. kids \subseteq Upcoming(cursor) /\ LiveKids \subseteq kids
    BY <1>0 DEF Follows, Launching
<1>2. SpawnRunID(s, rec.i) \in kids
    <2>1. CASE spec.steps[s].kind = "map"
        <3>1. Counted(rec.cur, s)
            BY <1>0, GraphFacts, GoodPassed
        <3> QED BY <1>0, <2>1, <3>1 DEF Counted, ChildrenOf, Launches
    <2>2. CASE spec.steps[s].kind # "map"
        BY <1>0, <2>2 DEF ChildrenOf
    <2> QED BY <2>1, <2>2
<1>3. exec'[e].pc \in Launching /\ exec'[e].cur = rec.cur /\ exec'[e].step = s
    <2>1. CASE Become(e, [rec EXCEPT !.i = @ + 1, !.pc = "reserve"])
        <3> DEFINE g == [rec EXCEPT !.i = @ + 1]
                   q == [g EXCEPT !.pc = "reserve"]
        <3>1. Become(e, q)
            BY <2>1
        <3>2. g \in ExecType /\ g.cur = rec.cur /\ g.step = s
            BY <1>0 DEF ExecType
        <3> HIDE DEF g
        <3>3. q \in ExecType /\ q.cur = rec.cur /\ q.step = s /\ q.pc = "reserve"
            BY <3>2 DEF ExecType, Pcs
        <3> HIDE DEF q
        <3> QED BY <1>0, <3>1, <3>3, BecomeForm DEF Launching
    <2>2. CASE Become(e, [rec EXCEPT !.pc = "suspend"])
        <3> DEFINE q == [rec EXCEPT !.pc = "suspend"]
        <3>1. q \in ExecType /\ q.cur = rec.cur /\ q.step = s /\ q.pc = "suspend"
            BY <1>0 DEF ExecType, Pcs
        <3>2. Become(e, q)
            BY <2>2
        <3> HIDE DEF q
        <3> QED BY <1>0, <3>1, <3>2, BecomeForm DEF Launching
    <2> QED BY <2>1, <2>2 DEF spawnWorkflowNode
<1>4. LiveKids' \subseteq kids
    BY <1>1, <1>2
<1>5. ChildrenOf(exec[e].cur, exec[e].step)' = kids
    BY <1>0, <1>3 DEF ChildrenOf, SpawnRunID
<1>6. Upcoming(cursor) \subseteq Upcoming(cursor)'
    BY <1>0, TrackKept
<1> HIDE DEF kids
<1>7. Tracked'
    BY <1>1, <1>4, <1>6 DEF Tracked
<1>8. Follows(exec[e])'
    BY <1>1, <1>3, <1>4, <1>5, <1>6 DEF Follows, Launching, Cascading
<1> QED BY <1>7, <1>8


\* A step of the only execution keeps it in step, while the run goes on.
LEMMA AdvanceTracks ==
    ASSUME WalkInv, Frozen, [WfNext]_wfvars, \A s \in Graph : spec.steps[s].bad = {}, Tracked,
           NEW e \in Execs, \A f \in Execs \ {e} : exec[f].pc # "spawn", Advance(e), Follows(exec[e]),
           Fence(e), status[wf] = "running", exec[e].pc \notin {"gate", "resuspend"},
           ~IsTerminal(status'[wf])
    PROVE  Follows(exec[e])' /\ Tracked'
<1> DEFINE rec == exec[e]
<1>0. /\ spec \in Specs /\ exec \in [Execs -> ExecType] /\ rec \in ExecType /\ spec' = spec
      /\ TypeOK /\ wf \in Runs
    BY OneSound, WfAssumption DEF Frozen, WalkInv
<1>1. /\ LiveKids' \subseteq LiveKids \cup {SpawnRunID(rec.step, rec.i)}
      /\ rec.pc # "spawn" => LiveKids' \subseteq LiveKids
    BY LiveKept
<1>2. CASE rec.pc = "spawn"
    <2>1. spawnWorkflowNode(e)
        BY <1>2 DEF Advance, opening, load, gatePlanApproval, resumeCurrentNode, startGraph,
           defensiveResuspend, exhausted, enterNode, reserve, suspendOnChildren, failWorkflow,
           completeWorkflow, cascadeStarts, cascadeLists, cascadeCancels, At
    <2> QED BY <1>1, <2>1, SpawnFollows
<1>3. CASE suspendOnChildren(e)
    <2>1. MaySuspend(wf) /\ rec.pc = "suspend"
        BY <1>3 DEF MaySuspend, suspendOnChildren, At
    <2>2. Return(e) /\ cursor' = rec.cur
        BY <1>3, <2>1 DEF suspendOnChildren
    <2>3. exec'[e].pc = "idle"
        BY <1>0, <2>2, ReturnForm, IdleFields
    <2>4. rec.step \in Graph /\ rec.cur.current = rec.step /\ rec.step # NoStep
        BY <1>0, <2>1, AtLaunch, GraphFacts DEF Launching
    <2>5. InFlight(cursor)' = ChildrenOf(rec.cur, rec.step)
        BY <1>0, <2>2, <2>4 DEF InFlight, ChildrenOf, SpawnRunID
    <2>6. LiveKids' \subseteq ChildrenOf(rec.cur, rec.step)
        BY <1>1, <2>1 DEF Follows, Launching
    <2>7. Tracked'
        BY <2>5, <2>6 DEF Tracked
    <2> QED BY <2>3, <2>7 DEF Follows, Launching, Cascading
<1>4. CASE failWorkflow(e)
    <2>1. MayEnd(e, "failed")
        BY DEF MayEnd, CanTransition, transitions, Status, Terminal
    <2>2. status'[wf] = "failed"
        BY <1>0, <1>4, <2>1 DEF failWorkflow, Update, TypeOK
    <2> QED BY <2>2 DEF IsTerminal, Terminal
<1>5. CASE cursor' = cursor /\ rec.pc # "spawn"
    <2>1. Tracked'
        BY <1>1, <1>5, TrackKept DEF Tracked
    <2>2. CASE Follows(exec'[e])
        BY <1>1, <1>5, <2>1, <2>2, FollowsKept
    <2>3. CASE cascadeCancels(e) /\ rec.todo # {}
        BY <1>1, <1>5, <2>1, <2>3, CancelsFollows
    <2>4. CASE opening(e) \/ load(e)
        <3>1. Moves(e) /\ rec.pc \in {"opening", "load"}
            BY <2>4, AdvanceMoves DEF opening, load, At
        <3>2. \/ exec'[e].pc \in {"idle", "load", "gate"}
              \/ exec'[e].pc = "resume" /\ exec'[e].cur = cursor
            BY <3>1, IdleFields DEF Moves, Cascading
        <3>3. Follows(exec'[e])
            BY <3>2 DEF Follows, Launching, Cascading
        <3> QED BY <2>2, <3>3
    <2>5. CASE completeWorkflow(e)
        BY <1>0, <2>2, <2>5, ReturnForm, IdleFields, AsideFollows DEF completeWorkflow, Aside
    <2>6. CASE cascadeStarts(e) \/ cascadeLists(e) \/ (cascadeCancels(e) /\ rec.todo = {})
        BY <2>2, <2>6, CascadeFollows
    <2>7. CASE resumeCurrentNode(e)
        BY <2>2, <2>7, ResumeFollows
    <2>8. CASE exhausted(e)
        BY <2>2, <2>8, ExhaustedFollows
    <2>9. CASE enterNode(e)
        BY <2>2, <2>9, EnterNodeFollows
    <2>10. CASE reserve(e)
        BY <2>2, <2>10, ReserveFollows
    <2> HIDE DEF rec
    <2> QED BY <1>3, <1>4, <1>5, <2>3, <2>4, <2>5, <2>6, <2>7, <2>8, <2>9, <2>10
        DEF Advance, gatePlanApproval, defensiveResuspend, spawnWorkflowNode, At, rec
<1>6. CASE ~suspendOnChildren(e) /\ cursor' # cursor
    BY <1>6 DEF Advance, opening, load, gatePlanApproval, resumeCurrentNode, startGraph,
       defensiveResuspend, exhausted, enterNode, reserve, spawnWorkflowNode, failWorkflow,
       completeWorkflow, cascadeStarts, cascadeLists, cascadeCancels, At
<1> QED BY <1>2, <1>3, <1>5, <1>6

\* The record of an execution that does not move.
SameTask(q, r) ==
    /\ q.pc = r.pc /\ q.cur = r.cur /\ q.step = r.step /\ q.code = r.code
    /\ q.then = r.then /\ q.todo = r.todo

\* One worker advances; or each stands where it was, starts, or is gone; or
\* the run is dead-lettered.
LEMMA PoolMoves ==
    ASSUME WalkInv, [WfNext]_wfvars
    PROVE  \/ \E e \in Pool : Advance(e) /\ Others(e)
           \/ \A e \in Pool : exec'[e].pc \in {"idle", "opening", "poison"} \/ SameTask(exec'[e], exec[e])
           \/ status'[wf] = "failed"
<1> DEFINE Rest == \A e \in Pool : exec'[e].pc \in {"idle", "opening", "poison"} \/ SameTask(exec'[e], exec[e])
           Goal == (\E e \in Pool : Advance(e) /\ Others(e)) \/ Rest \/ status'[wf] = "failed"
<1>0. /\ exec \in [Execs -> ExecType] /\ Inline \subseteq Execs /\ Pool \subseteq Execs /\ Frozen
      /\ Pool \cap Inline = {}
    BY FrozenStep, WfAssumption DEF WalkInv, ExecsSound, Execs, Pool
<1>1. ASSUME NEW e \in Execs, Others(e),
             e \in Inline \/ exec'[e].pc \in {"idle", "opening", "poison"} \/ SameTask(exec'[e], exec[e])
      PROVE  Rest
    BY <1>0, <1>1 DEF Others, SameTask
<1>2. ASSUME UNCHANGED exec PROVE Rest
    BY <1>2 DEF SameTask
<1> HIDE DEF Rest
<1>3. ASSUME NEW e \in Execs, Advance(e) PROVE Goal
    <2>1. Others(e)
        BY <1>0, <1>3, AdvanceStays DEF Stays
    <2> QED BY <1>0, <1>1, <1>3, <2>1 DEF Execs
<1>4. ASSUME NEW e \in Execs, Return(e) PROVE Rest
    BY <1>0, <1>1, <1>4, ReturnForm, IdleFields
<1>5. ASSUME NEW e \in Inline, Request(e) PROVE Rest
    <2>0. e \in Execs
        BY <1>0
    <2>1. Become(e, [Idle EXCEPT !.pc = "cascade", !.then = "return"]) => Others(e)
        BY <1>0, <2>0, CancelForm DEF Stays
    <2>2. \A pc \in {"opening", "resuming"} : Become(e, [Idle EXCEPT !.pc = pc]) => Others(e)
        BY <1>0, <2>0, StartForm DEF Stays
    <2>3. Return(e) => Others(e)
        BY <1>0, <2>0, ReturnForm
    <2>4. Others(e)
        BY <1>5, <2>1, <2>2, <2>3
           DEF Request, handleCancelRun, resumeChecks, resumePlanApproval, denyPlan
    <2> QED BY <1>1, <2>0, <2>4
<1>6. ASSUME NEW w \in Pool, claim(w) PROVE Rest
    <2>1. exec'[w].pc \in {"opening", "poison"} /\ Others(w)
        BY <1>0, <1>6, ClaimForm DEF Stays
    <2> QED BY <1>0, <1>1, <2>1
<1>13. ASSUME NEW w \in Pool, deadLetterPoison(w) PROVE Rest \/ status'[wf] = "failed"
    BY <1>0, <1>1, <1>13, DeadForm, IdleFields DEF Stays, WalkInv
<1>7. ASSUME NEW w \in Pool, heartbeatStops(w) PROVE Rest
    <2> DEFINE q == [exec[w] EXCEPT !.stopped = TRUE]
    <2>1. w \in Execs /\ exec[w] \in ExecType /\ exec' = [exec EXCEPT ![w] = q]
        BY <1>0, <1>7 DEF heartbeatStops
    <2>2. SameTask(q, exec[w])
        BY <2>1 DEF ExecType, SameTask
    <2> HIDE DEF q
    <2>3. exec'[w] = q /\ Others(w)
        BY <1>0, <2>1 DEF Others
    <2> QED BY <1>1, <2>1, <2>2, <2>3
<1>8. ASSUME NEW c \in Children(wf), SubRun(c) PROVE Rest
    BY <1>2, <1>8 DEF SubRun, childStarts, cancelChild, childEnds, evars
<1>9. ASSUME createWorkflow \/ sweepWaiting \/ LeaseRunsOut \/ LeaseLapses PROVE Rest
    BY <1>2, <1>9 DEF createWorkflow, sweepWaiting, LeaseRunsOut, LeaseLapses, evars
<1>10. ASSUME UNCHANGED wfvars PROVE Rest
    BY <1>2, <1>10 DEF wfvars
<1> HIDE DEF Goal
<1>11. Rest => Goal
    BY DEF Goal
<1>12. Goal
    BY <1>2, <1>3, <1>4, <1>5, <1>6, <1>7, <1>8, <1>9, <1>10, <1>11, <1>13
       DEF WfNext, Crash, heartbeatRenews, evars, Goal
<1> QED BY <1>12 DEF Goal, Rest

\* A worker moves by a step of its own.
LEMMA WhoMoves ==
    ASSUME WalkInv, [WfNext]_wfvars, NEW w \in Pool, exec'[w] # exec[w]
    PROVE  Advance(w) \/ Crash(w) \/ claim(w) \/ deadLetterPoison(w) \/ heartbeatStops(w)
<1>0. /\ exec \in [Execs -> ExecType] /\ Inline \subseteq Execs /\ Pool \subseteq Execs /\ Frozen
      /\ w \notin Inline /\ w \in Execs
    BY FrozenStep, WfAssumption DEF WalkInv, ExecsSound, Execs, Pool
<1>1. ASSUME NEW e \in Execs, Others(e) PROVE w = e
    BY <1>0, <1>1 DEF Others
<1>2. ASSUME NEW e \in Execs, Advance(e) \/ Crash(e) PROVE w = e
    BY <1>0, <1>1, <1>2, AdvanceStays DEF Stays
<1>3. \A e \in Inline : ~Request(e)
    <2> SUFFICES ASSUME NEW e \in Inline, Request(e) PROVE FALSE
        OBVIOUS
    <2>1. \A q : Become(e, q) => exec'[w] = exec[w]
        BY <1>0 DEF Become
    <2> QED BY <2>1 DEF Request, handleCancelRun, resumeChecks, resumePlanApproval, denyPlan, Return
<1>4. ASSUME NEW v \in Pool, claim(v) \/ deadLetterPoison(v) PROVE w = v
    BY <1>0, <1>1, <1>4, ClaimForm, DeadForm DEF Stays, WalkInv
<1>5. ASSUME NEW v \in Pool, heartbeatStops(v) PROVE w = v
    BY <1>0, <1>5 DEF heartbeatStops
<1>6. \A v \in Pool : ~heartbeatRenews(v)
    BY DEF heartbeatRenews, evars
<1>7. \A c \in Children(wf) : ~SubRun(c)
    BY DEF SubRun, childStarts, cancelChild, childEnds, evars
<1>8. ~createWorkflow /\ ~sweepWaiting /\ ~LeaseRunsOut /\ ~LeaseLapses /\ ~UNCHANGED wfvars
    BY DEF createWorkflow, sweepWaiting, LeaseRunsOut, LeaseLapses, evars, wfvars
<1> QED BY <1>2, <1>3, <1>4, <1>5, <1>6, <1>7, <1>8 DEF WfNext

\* A dead-letter that holds the lease cancels all that is live before it returns.
LEMMA DeadLetterWalks ==
    ASSUME WalkInv, Frozen, NEW e \in Execs, Fence(e), exec[e].pc \in Cascading,
           exec[e].then = "return", Follows(exec[e]), Advance(e), LiveKids' \subseteq LiveKids
    PROVE  \/ exec'[e] = Idle /\ LiveKids = {}
           \/ exec'[e].pc \in Cascading /\ exec'[e].then = "return" /\ Follows(exec[e])'
<1> DEFINE rec == exec[e]
<1>0. exec \in [Execs -> ExecType] /\ rec \in ExecType
    BY OneSound
<1>1. cascadeStarts(e) \/ cascadeLists(e) \/ cascadeCancels(e)
    BY DEF Advance, opening, load, gatePlanApproval, resumeCurrentNode, startGraph,
       defensiveResuspend, exhausted, enterNode, reserve, spawnWorkflowNode, suspendOnChildren,
       failWorkflow, completeWorkflow, At, Cascading
<1>2. cursor' = cursor
    BY <1>1 DEF cascadeStarts, cascadeLists, cascadeCancels
<1>3. \/ exec'[e].pc = "idle"
      \/ exec'[e].pc \in Cascading /\ exec'[e].then = "return"
    BY AdvanceMoves DEF Moves, Cascading
<1>4. CASE cascadeStarts(e)
    <2>1. exec'[e].pc = "list"
        BY <1>0, <1>4, GotoForm DEF cascadeStarts, Pcs
    <2> QED BY <1>2, <1>3, <1>4, <2>1, CascadeFollows, FollowsKept
<1>5. CASE cascadeLists(e)
    <2>1. exec'[e].pc = "cancelling"
        BY <1>0, <1>5 DEF cascadeLists, Become, ExecType
    <2> QED BY <1>2, <1>3, <1>5, <2>1, CascadeFollows, FollowsKept
<1>6. CASE cascadeCancels(e) /\ rec.todo = {}
    <2>1. LiveKids = {}
        BY <1>6 DEF cascadeCancels, At, Follows
    <2>2. Return(e)
        BY <1>6 DEF cascadeCancels, AfterCascade, Return
    <2> QED BY <1>0, <2>1, <2>2, ReturnForm
<1>7. CASE cascadeCancels(e) /\ rec.todo # {}
    <2>1. exec'[e].pc = "cancelling"
        BY <1>0, <1>7 DEF cascadeCancels, Become, ExecType, At
    <2> QED BY <1>3, <1>7, <2>1, CancelsFollows
<1> QED BY <1>1, <1>4, <1>5, <1>6, <1>7

\* The runs that the property is about.
Calm == ~lapsed /\ ~spec.gate /\ \A s \in Graph : spec.steps[s].bad = {}

\* Nothing is live, and an execution that still routes to a handler, because
\* its retry came too late, finds the budget spent.
Swept ==
    /\ LiveKids = {}
    /\ \A e \in Pool : exec[e].pc \in Walk /\ (exec[e].pc # "idle" => BudgetSpent)

\* This worker dead-letters the run, and all that is live is on its list or
\* will be.
Sweeping(w) == exec[w].pc \in Cascading /\ exec[w].then = "return" /\ Follows(exec[w])

\* A worker died at it, and none will take up the run again.
Abandoned == deserted /\ \A e \in Pool : exec[e].pc = "idle"

(***************************************************************************)
(* While the run goes on, its execution is in step with the cursor and the *)
(* live sub-runs are accounted for.  Once it has failed none is live, or a *)
(* dead-letter is at its cascade, or its worker has died there.            *)
(***************************************************************************)
Tidy ==
    Calm =>
        /\ status[wf] = "failed" => Swept \/ (\E w \in Pool : Sweeping(w)) \/ Abandoned
        /\ ~IsTerminal(status[wf]) => Tracked /\ \A e \in Pool : Follows(exec[e])

\* Once nothing is live, nothing is launched.
LEMMA SweptStep ==
    ASSUME WalkInv, Frozen, [WfNext]_wfvars, Swept, status[wf] = "failed",
           \A e \in Execs : exec[e].pc = "spawn" => e \in Pool
    PROVE  Swept'
<1>0. TypeOK /\ wf \in Runs /\ Pool \subseteq Execs /\ Pool \cap Inline = {}
    BY WfAssumption DEF WalkInv, Execs, Pool
<1>1. LiveKids = {} /\ \A e \in Pool : exec[e].pc \in Walk /\ (exec[e].pc # "idle" => BudgetSpent)
    BY DEF Swept
<1>2. \A e \in Execs : exec[e].pc # "spawn"
    BY <1>1 DEF Walk, Cascading
<1>3. LiveKids' = {}
    BY <1>1, <1>2, LiveKept
<1>4. ASSUME NEW e \in Pool PROVE exec'[e].pc \in Walk /\ (exec'[e].pc # "idle" => BudgetSpent')
    <2>0. e \in Execs /\ e \notin Inline /\ exec[e].pc # "poison"
        BY <1>0, <1>1 DEF Walk, Cascading
    <2>1. CASE Alike(exec'[e], exec[e])
        BY <1>1, <2>1 DEF Alike, Frozen
    <2>2. CASE exec'[e] = Idle
        BY <2>2, IdleFields DEF Walk
    <2>3. CASE claim(e)
        BY <1>0, <2>3, RowChange DEF claim
    <2>4. CASE Moves(e)
        <3>1. exec[e].pc # "idle"
            BY <2>4 DEF Moves, Cascading
        <3>2. BudgetSpent /\ BudgetSpent'
            BY <1>1, <3>1 DEF Frozen
        <3>3. ~reserveNodeSpawn(exec[e])
            <4>1. spawns[wf] \in Nat
                BY <1>0 DEF TypeOK
            <4> QED BY <3>2, <4>1, BoundAssumption DEF reserveNodeSpawn, ReserveSpawn, BudgetSpent
        <3>4. Onward(e) \/ exec'[e] = Idle
            BY <1>1, <2>4, <3>3 DEF Moves, Walk, Cascading
        <3> QED BY <3>2, <3>4, IdleFields DEF Onward, Walk
    <2> QED BY <2>0, <2>1, <2>2, <2>3, <2>4, EveryMove DEF ExecMoves
<1> QED BY <1>3, <1>4 DEF Swept, Walk, Cascading

\* A dead-letter goes on to its end, or its worker dies.
LEMMA SweepingStep ==
    ASSUME WalkInv, Frozen, [WfNext]_wfvars, cursor' = cursor, LiveKids' \subseteq LiveKids,
           NEW w \in Pool, Sweeping(w), worker[wf] = w,
           \A e \in Pool \ {w} : exec[e].pc = "idle", \A e \in Pool : ~claim(e)
    PROVE  Swept' \/ Sweeping(w)' \/ Abandoned'
<1>0. /\ w \in Execs /\ Fence(w) /\ exec \in [Execs -> ExecType]
      /\ exec[w].pc \in Cascading /\ exec[w].then = "return" /\ Follows(exec[w])
    BY DEF Execs, Fence, WalkInv, ExecsSound, Sweeping
<1>1. CASE exec'[w] = exec[w]
    <2>1. Follows(exec[w])'
        BY <1>0, <1>1, FollowsKept
    <2> QED BY <1>0, <1>1, <2>1 DEF Sweeping, Cascading
<1>2. ASSUME NEW e \in Pool, e # w PROVE exec'[e].pc = "idle"
    <2>1. exec'[e] = exec[e]
        <3> SUFFICES ASSUME exec'[e] # exec[e] PROVE FALSE
            OBVIOUS
        <3>1. ~Crash(e) /\ ~deadLetterPoison(e) /\ ~heartbeatStops(e)
            BY <1>2 DEF Crash, Busy, At, deadLetterPoison, heartbeatStops, Beating
        <3>2. ~Advance(e)
            BY <1>2, AdvanceMoves DEF Moves, Cascading, Execs
        <3> QED BY <3>1, <3>2, WhoMoves
    <2> QED BY <1>2, <2>1
<1>3. CASE Crash(w)
    <2>1. deserted'
        BY <1>0, <1>3 DEF Crash, DeadLettering
    <2>2. exec'[w].pc = "idle"
        BY <1>0, <1>3, ReturnForm, IdleFields DEF Crash
    <2> QED BY <1>2, <2>1, <2>2 DEF Abandoned
<1>4. CASE Advance(w)
    <2>1. CASE exec'[w] = Idle /\ LiveKids = {}
        BY <1>2, <2>1, IdleFields DEF Swept, Walk
    <2>2. CASE exec'[w].pc \in Cascading /\ exec'[w].then = "return" /\ Follows(exec[w])'
        BY <2>2 DEF Sweeping, Cascading
    <2> QED BY <1>0, <1>4, <2>1, <2>2, DeadLetterWalks
<1>5. ~deadLetterPoison(w) /\ ~heartbeatStops(w)
    BY <1>0 DEF deadLetterPoison, heartbeatStops, Beating, DeadLettering, At, Cascading
<1> QED BY <1>1, <1>3, <1>4, <1>5, WhoMoves

\* An abandoned run stays so: nobody claims a run that has failed.
LEMMA AbandonedStep ==
    ASSUME WalkInv, [WfNext]_wfvars, Abandoned, \A e \in Pool : ~claim(e)
    PROVE  Abandoned'
<1>1. deserted' /\ \A e \in Pool : exec[e].pc = "idle"
    BY HistoryGrows DEF Abandoned
<1>2. ASSUME NEW e \in Pool PROVE exec'[e].pc = "idle"
    <2>1. exec'[e] = exec[e]
        <3> SUFFICES ASSUME exec'[e] # exec[e] PROVE FALSE
            OBVIOUS
        <3>1. ~Crash(e) /\ ~deadLetterPoison(e) /\ ~heartbeatStops(e)
            BY <1>1 DEF Crash, Busy, At, deadLetterPoison, heartbeatStops, Beating
        <3>2. ~Advance(e)
            BY <1>1, AdvanceMoves DEF Moves, Cascading, Execs
        <3> QED BY <3>1, <3>2, WhoMoves
    <2> QED BY <1>1, <2>1
<1> QED BY <1>1, <1>2 DEF Abandoned

\* Every step keeps it so.
LEMMA TidyStep ==
    ASSUME WalkInv, Sole, WakeInv, Tidy, [WfNext]_wfvars
    PROVE  Tidy'
<1>f. /\ Frozen /\ spec' = spec /\ Graph' = Graph /\ spec \in Specs
      /\ IsTerminal(status[wf]) => status'[wf] = status[wf]
    BY FrozenStep, FactsKept, WfAssumption DEF WalkInv, WfRest, Frozen
<1> SUFFICES ASSUME Calm'
             PROVE  /\ status'[wf] = "failed" =>
                          Swept' \/ (\E w \in Pool : Sweeping(w)') \/ Abandoned'
                    /\ ~IsTerminal(status'[wf]) => Tracked' /\ \A e \in Pool : Follows(exec[e])'
    BY DEF Tidy
<1>0. /\ Calm /\ PoolAlone /\ Pool \subseteq Execs /\ Inline \subseteq Execs /\ Pool \subseteq Workers
      /\ \A e \in Execs : exec[e].pc \notin {"gate", "resuming", "resuspend"}
      /\ \A e \in Inline : exec[e].pc \in {"idle"} \cup Cascading
      /\ exec \in [Execs -> ExecType] /\ TypeOK /\ wf \in Runs /\ Pool \cap Inline = {}
    BY <1>f, HistoryGrows, WfAssumption
       DEF Calm, Sole, WakeInv, WalkInv, Ungated, ExecsSound, Execs, Pool
<1>p. \A e \in Execs : exec[e].pc \in {"spawn", "fail"} => e \in Pool /\ worker[wf] = e
    BY <1>0 DEF Execs, PoolAlone, Cascading
<1>n. "failed" \in Terminal /\ "running" \notin Terminal /\ "queued" \notin Terminal
    BY DEF Terminal
<1>1. CASE status[wf] = "failed"
    <2>1. status'[wf] = "failed" /\ (Swept \/ (\E w \in Pool : Sweeping(w)) \/ Abandoned)
        BY <1>f, <1>0, <1>1, <1>n DEF Tidy, IsTerminal
    <2>2. \A e \in Pool : ~claim(e)
        BY <1>0, <1>1, RowChange DEF claim
    <2>3. ASSUME Swept PROVE Swept'
        BY <1>f, <1>1, <1>p, <2>3, SweptStep
    <2>4. ASSUME NEW w \in Pool, Sweeping(w) PROVE Swept' \/ Sweeping(w)' \/ Abandoned'
        <3>1. worker[wf] = w /\ exec[w].pc \in Cascading
            BY <1>0, <2>4 DEF PoolAlone, Sweeping, Cascading
        <3>2. \A e \in Pool \ {w} : exec[e].pc = "idle"
            BY <1>0, <3>1 DEF PoolAlone
        <3>3. \A e \in Execs : exec[e].pc \notin {"spawn", "suspend"}
            BY <1>0, <3>1, <3>2 DEF Execs, Cascading
        <3>4. LiveKids' \subseteq LiveKids
            BY <3>3, LiveKept
        <3>5. cursor' = cursor
            BY <1>0, <3>3, CursorWrites
        <3> QED BY <1>f, <2>2, <2>4, <3>1, <3>2, <3>4, <3>5, SweepingStep
    <2>5. ASSUME Abandoned PROVE Abandoned'
        BY <2>2, <2>5, AbandonedStep
    <2> QED BY <1>n, <2>1, <2>3, <2>4, <2>5 DEF IsTerminal
<1>2. CASE ~IsTerminal(status[wf]) /\ status'[wf] = "failed"
    <2>0. (\E e \in Execs : failWorkflow(e)) \/ (\E w \in Pool : deadLetterPoison(w))
        <3>1. \A f \in Execs : ~gatePlanApproval(f)
            BY <1>0 DEF gatePlanApproval, At
        <3>2. \A f \in Execs : completeWorkflow(f) => status'[wf] \in {status[wf], "succeeded"}
            BY <1>0 DEF completeWorkflow, Update, TypeOK, vars
        <3>3. status'[wf] # status[wf]
            BY <1>2, <1>n DEF IsTerminal
        <3> QED BY <1>2, <3>1, <3>2, <3>3, WhoDecides
    <2>1. ASSUME NEW w \in Pool, deadLetterPoison(w) PROVE Sweeping(w)'
        <3>1. ~UNCHANGED vars
            BY <1>2, <1>n DEF IsTerminal, vars
        <3>2. exec'[w].pc = "list" /\ exec'[w].then = "return"
            BY <1>0, <2>1, <3>1, DeadForm
        <3> QED BY <3>2 DEF Sweeping, Follows, Launching, Cascading
    <2>2. ASSUME NEW e \in Execs, failWorkflow(e) PROVE Swept'
        <3>1. exec[e].pc = "fail" /\ e \in Pool /\ worker[wf] = e
            BY <1>p, <2>2 DEF failWorkflow, At
        <3>2. LiveKids = {} /\ \A f \in Execs : exec[f].pc # "spawn"
            <4>1. Follows(exec[e])
                BY <1>0, <1>2, <3>1 DEF Tidy
            <4> QED BY <1>p, <3>1, <4>1 DEF Follows
        <3>3. LiveKids' = {}
            BY <3>2, LiveKept
        <3>4. \A f \in Pool \ {e} : exec'[f].pc = "idle"
            <4>1. Others(e)
                BY <1>f, <2>2, AdvanceStays DEF Advance, Stays
            <4> QED BY <1>0, <3>1, <4>1 DEF Others, PoolAlone
        <3>5. CASE Return(e)
            BY <1>0, <3>3, <3>4, <3>5, ReturnForm, IdleFields DEF Swept, Walk
        <3>6. CASE exec[e].retry /\ Become(e, [exec[e] EXCEPT !.retry = FALSE, !.pc = "exhausted"])
            <4>1. TooLate
                BY <3>1, <3>6, OneSound DEF RetryOK
            <4>2. BudgetSpent'
                BY <1>0, <1>2, <1>f, <4>1 DEF TooLate, Calm, Frozen
            <4>3. Moves(e)
                BY <2>2, AdvanceMoves DEF Advance
            <4>4. exec'[e].pc \in Walk
                BY <3>1, <4>3 DEF Moves, Onward, Cascading
            <4> QED BY <3>3, <3>4, <4>2, <4>4 DEF Swept, Walk
        <3> QED BY <2>2, <3>5, <3>6 DEF failWorkflow
    <2> QED BY <1>n, <1>2, <2>0, <2>1, <2>2 DEF IsTerminal
<1>3. CASE ~IsTerminal(status'[wf])
    <2>1. ~IsTerminal(status[wf]) /\ Tracked /\ \A e \in Pool : Follows(exec[e])
        <3>1. ~IsTerminal(status[wf])
            BY <1>f, <1>3
        <3> QED BY <1>0, <3>1 DEF Tidy
    <2>2. ASSUME NEW e \in Pool, Advance(e), Others(e)
          PROVE  Tracked' /\ \A f \in Pool : Follows(exec[f])'
        <3>1. exec[e].pc # "idle"
            BY <2>2, AdvanceMoves, <1>0 DEF Moves, Cascading
        <3>2. worker[wf] = e /\ status[wf] = "running"
            BY <1>0, <2>1, <3>1 DEF PoolAlone, IsTerminal
        <3>3. \A f \in Execs \ {e} : exec[f].pc # "spawn"
            BY <1>p, <3>2
        <3>4. Fence(e)
            BY <3>2 DEF Fence
        <3>5. Follows(exec[e])' /\ Tracked'
            BY <1>f, <1>0, <1>3, <2>1, <2>2, <3>2, <3>3, <3>4, AdvanceTracks DEF Calm
        <3>6. ASSUME NEW f \in Pool, f # e PROVE Follows(exec[f])'
            <4>1. exec'[f].pc = "idle"
                BY <1>0, <2>2, <3>2, <3>6 DEF Others, PoolAlone
            <4> QED BY <4>1 DEF Follows, Launching, Cascading
        <3> QED BY <3>5, <3>6
    <2>3. ASSUME \A e \in Pool : ~(Advance(e) /\ Others(e))
          PROVE  Tracked' /\ \A e \in Pool : Follows(exec[e])'
        <3>1. \A e \in Pool : ~Advance(e)
            BY <1>f, <1>0, <2>3, AdvanceStays DEF Stays
        <3>2. LiveKids' \subseteq LiveKids
            BY <1>p, <3>1, LiveKept DEF Advance
        <3>3. cursor' = cursor
            <4>1. \A e \in Execs : ~(suspendOnChildren(e) /\ exec[e].pc = "suspend")
                BY <1>0, <3>1 DEF Advance, Cascading, Execs
            <4> QED BY <1>0, <4>1, CursorWrites
        <3>4. Tracked'
            BY <1>f, <2>1, <3>2, <3>3, TrackKept DEF Tracked
        <3>5. ASSUME NEW e \in Pool PROVE Follows(exec[e])'
            <4>1. CASE exec'[e].pc \in {"idle", "opening", "poison"}
                BY <4>1 DEF Follows, Launching, Cascading
            <4>2. CASE SameTask(exec'[e], exec[e])
                <5>1. Follows(exec'[e])
                    BY <2>1, <4>2 DEF Follows, SameTask
                <5> QED BY <1>f, <1>0, <3>2, <3>3, <5>1, FollowsKept
            <4> QED BY <1>3, <1>n, <2>3, <4>1, <4>2, PoolMoves DEF IsTerminal
        <3> QED BY <3>4, <3>5
    <2> QED BY <1>3, <1>n, <2>2, <2>3 DEF IsTerminal
<1> QED BY <1>f, <1>1, <1>2, <1>3, <1>n DEF IsTerminal


\* Fail-fast leaves no work behind: once the workflow has failed and its workers
\* have returned, none of its sub-runs is live, whatever crashed before and
\* whichever step failed or however often it was reclaimed, as long as one
\* execution at a time was at work, every input evaluates, and no worker died
\* between the failed row and the cascade of a dead-letter.
THEOREM FailFastIsClean == WfSpec => []FailFastLeavesNothing
<1>1. WfInit => Sole /\ WakeInv /\ Tidy
    <2> SUFFICES ASSUME WfInit PROVE Sole /\ WakeInv /\ Tidy
        OBVIOUS
    <2>1. Sole /\ WakeInv
        BY StartsAlone
    <2>2. \A e \in Pool : exec[e].pc = "idle"
        BY IdleFields DEF WfInit, Execs
    <2>3. \A c \in Runs : ~Created(c) /\ status[c] # "failed"
        BY DEF WfInit, Init, Created, Absent
    <2>4. LiveKids = {} /\ status[wf] # "failed"
        BY <2>3, WfAssumption DEF LiveKids, Children
    <2>5. \A e \in Pool : Follows(exec[e])
        BY <2>2, AsideFollows DEF Aside
    <2> QED BY <2>1, <2>4, <2>5 DEF Tidy, Tracked
<1>2. WalkInv /\ RemovedAreSpent /\ Sole /\ WakeInv /\ Tidy /\ [WfNext]_wfvars
      => Sole' /\ WakeInv' /\ Tidy'
    BY SoleStep, WakeStep, TidyStep
<1>3. Tidy => FailFastLeavesNothing
    <2> SUFFICES ASSUME Tidy, status[wf] = "failed", Calm, ~deserted, \A e \in Execs : ~Busy(e),
                        NEW c \in Children(wf), Created(c)
                 PROVE  IsTerminal(status[c])
        BY DEF FailFastLeavesNothing, Calm, Graph
    <2>1. \A w \in Pool : ~Sweeping(w)
        BY DEF Sweeping, Busy, At, Cascading, Execs
    <2>2. Swept
        BY <2>1 DEF Tidy, Abandoned
    <2> QED BY <2>2 DEF Swept, LiveKids
<1> QED BY <1>1, <1>2, <1>3, WalkAlways, WorkflowUsesStore, RemovedAlways, PTL DEF WfSpec

===============================================================================
