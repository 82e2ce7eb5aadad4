# ctxmesh runs: a TLA+ verification project

ctxmesh is a Kubernetes operator and control plane for LLM agents. Its core is
the *run*: one durable execution of an agent, kept as a row of a PostgreSQL
table, executed at least once by a pool of workers, paused for humans, parked on
child runs, cancelled as a tree. The project models that core: the run state
machine, the store, the workers over it, and the API calls that race with them;
then two executors that live on top of it, the workflow graph and knowledge-base
ingestion; and the asynchronous message hop between agents, which has a broker
and a dedup claim of its own.

## 1. Inventory

| Part | Source | State | Operations | Interacts with | Hard behaviour |
|---|---|---|---|---|---|
| Run state machine | `internal/run/run.go` | status, wait set, wait mode | `Transition`, `suspendToWaiting`, `satisfyChild`, `waitSatisfied` | every writer | the wait judged incrementally must agree with the wait judged at once |
| Run store | `internal/run/postgres.go` | `runs`, `spawn_counters`, `run_events` | `Create`, `Update`, `Suspend`, `SuspendOnDelegate`, `CompleteAndWake`, `SweepWaiting`, `ClaimQueued`, `Heartbeat`, `ReleaseLease`, `ClaimReclaimable`, `ReserveSpawn`, events | workers, API | lost wakeups, stale leases, counter at its limit |
| Worker pool | `internal/bff/run_worker.go` | the run each loop is on, heartbeat, self-fence flag, drain | claim, reclaim, dead-letter, execute, release | store, agents | crash, drain, zombie, poison run |
| Run API, `executeRun` | `internal/bff/runs_handler.go` | none of its own | create, cancel, resume, execute | store, agents | check-then-act on a paused run; unfenced writes |
| Durable delegation | `internal/bff/delegate_suspend.go` | none of its own | reserve, create the children and park | store | crash between reserve and park, re-delegation |
| Fence and cascade | `internal/bff/workflow_executor.go` | none of its own | `terminalTransition(Fenced)`, `cancelCascade` | store | a cascade from one snapshot of a tree that grows |
| Workflow executor | `internal/bff/workflow_executor.go`, `workflows_handler.go` | cursor in the row | one advance per claim: gate, resume, retry, catch, map, loop, launch, park, cascade, end, dead-letter | store, delegation, approvals | cursor ahead of or behind the sub-runs; replay after a crash; approval races |
| Ingestion | `internal/bff/ingestion_executor.go`, `knowledgebases.go`, `internal/ingestion`, `internal/controlplane/knowledge/pgstore.go` | document cursor in the row, chunk rows, corpus status | admit, per document fetch, upsert, sweep, checkpoint, end | store, object store, cancel | check-then-insert of the active job; a sweep keyed by run id |
| Async hop | `internal/asyncbus/jetstream.go`, `internal/bff/async_dispatcher.go`, `async_publish_handler.go`, `cmd/launcher/async*.go`, `internal/statelayer/dedup*.go` | consumer state, delivery budget, dedup key with TTL (if the pod has a seen-set) | publish, deliver, nak, ack, claim, call | agents | redelivery during and after an attempt; lost acks and replies |
| Spawn, handoff | `internal/bff/{spawn,handoff}_handler.go`, `internal/run/conversation.go` | active-agent pointer | create a child; transfer a conversation | store, a running invoke | three transactions, no wake |
| Dataset export | `internal/bff/dataset_export_executor.go` | cursor in the row | append pages | store | like ingestion, without a sweep |
| Kill switch | `internal/bff/kill_*.go`, `run_control.go` | kill scopes, cancel markers | filter claims, publish | store, launcher | a kill that races a claim |
| Event stream | `internal/run/postgres.go` | `run_events`, tail cursors | append, tail by polling | API | end of stream against the last event |
| Everything else | controllers, credential plane, gateway, control-plane tables, replay, console, SDK, CLI, charts | | | | see `PROJECT.json` |

What makes each modelled part correct:

* **State machine and store.** A run moves along the table only; terminal states
  are frozen; wait record, lease and status agree; a parked run is woken exactly
  when the wait over *all* its children is satisfied, whichever transaction
  notices first.
* **Workers.** One execution of a run at a time as long as leases are renewed;
  poison runs stop; every run ends.
* **Delegation.** No wakeup is lost; the spawn budget holds for the tree whatever
  crashes and zombies do.
* **Cancel.** Nothing live is left below a cancelled run.
* **Workflow.** Only sub-runs the graph leads to are launched, each paid for where
  the spec has a budget; nothing before a human approved a gated plan; the run wakes
  when its step is decided; a failing workflow leaves nothing behind; it ends.
* **Ingestion.** A corpus that is called ready is what its documents yield; a
  resumed run forgets no document; every ingestion ends.
* **Async hop.** One call of the agent per dedup claim, or without a seen-set per
  delivery; what is dropped was claimed; the retries span an outage; the hop
  settles.

## 2. Modules

```
RunState                 statuses, transition table, wait predicates (no state)
  |-- RunLifecycle       abstract specification of what the store promises
  |-- RunStore           the store, one action per transaction; refines RunLifecycle
        |-- RunStoreProofs   proofs about RunStore, used by all the others over it
        |-- MCRunStore       TLC instance
        |-- RunWorkers       workers, executeRun, API calls, cascade over RunStore
        |     |-- RunWorkersProofs     types, refinement of the store, wakeups, poison runs
        |     |     |-- RunExclusionProofs   one execution of a run at a time
        |     |     |-- RunTreeProofs        the spawn budget, and cancel of a tree
        |     |-- MCRunWorkers   TLC instances
        |-- WorkflowExecutor     the graph walk of one workflow run over RunStore
        |     |-- WorkflowProofs   proofs about WorkflowExecutor
        |     |-- MCWorkflow       TLC instance: nine small graphs
        |-- Ingestion            ingestion jobs over RunStore, with the chunk rows
              |-- IngestionProofs  proofs about Ingestion
              |-- MCIngestion      TLC instances
AsyncHop                 one asynchronous message: broker, dispatchers, launcher
  |-- AsyncHopProofs     proofs about AsyncHop
  |-- MCAsyncHop         TLC instances
LeastNatural             a non-empty set of naturals has a least member, and the
                         induction that follows; for IngestionProofs, AsyncHopProofs
```

**RunState** is the pure part of `run.go`. `transitions` is the table;
`waitSatisfied` judges a wait over persisted statuses (the sweep), `satisfyChild`
over one terminated child and what remains (the hot path). A missing child row
reads as cancelled (`PersistedStatus`).

**RunStore** has one variable per column that the control depends on: `status`,
`waitOn`, `waitMode`, `worker`, `lease`, `attempts`, and `spawns` for the counter
table. `lease` keeps only whether `lease_expires_at` is NULL, ahead or past.
`parkedOn` is a history variable: the children the run was last parked on, before
the wait set began to shrink, kept until the run is claimed again. One action is one committed transaction. That is
what the code provides: each operation locks its rows in id order with
`FOR UPDATE`, reads them again under the lock, decides, and a lost version race
starts again from the read. A call that the code rejects rolls back and is no
step. Payload columns (input, messages, cursor, trace, errors) are left out.
`Next` lets any client call any operation at any time, so what is proved of it
holds for the workflow and ingestion executors too. Three modelled facts are
easy to miss in the code: `Update` keeps worker and lease; a `Transition` to the
current status is a no-op, so `Suspend` and `SuspendOnDelegate` also accept a
run that is already waiting, and overwrite its wait; the first `ReserveSpawn` of
a tree inserts its row without comparing with the budget.

**RunLifecycle** knows neither leases nor shrinking wait sets. A run is parked on
a set of children in a mode and returns to the queue only when the wait over the
whole set is satisfied, and with the outcomes of that set; under its fairness it
does. A waiting run may be parked anew, because the code allows it; remembering
the set in the queue is what tells such a re-park from a wake that came too
early.

**RunWorkers** restricts the store's clients to the callers the code has. An
executor (`exec[e]`) is a worker of the pool or an *inline* execution that
`handleResumeRun` starts with `go s.executeRun`. Its `pc` stands between two
store operations, where everybody else interleaves:

| Action | Code |
|---|---|
| `handleCreateRun` | `handleCreateRun` leaves a root run queued |
| `claimQueued`, `reclaim`, `Take` | `runWorkerLoop`, `claimNext`, `reclaim`, with the poison check |
| `deadLetterPoison` | the same name |
| `Open` | the opening `Update` of `executeRun`, unfenced |
| `InvokeAnswer`, `InvokeAborted`, `InvokePause`, `InvokeDelegate` | the outcomes of the agent's invoke that `executeRun` distinguishes |
| `WriteTerminal`, `WritePause` | the terminal write behind the fence, and the unfenced pause |
| `Reserve`, `WriteSuspend`, `FailDelegation` | `suspendOnDelegate`, a step for each reservation |
| `heartbeatRenews`, `heartbeatLeaseLost`, `selfFence` | `startHeartbeat` |
| `Drain`, `drainGraceOver`, `releaseOnDrain` | SIGTERM, the grace watcher, the deferred `ReleaseLease` |
| `Crash` | the process dies between two steps; a restarted container keeps its host name and so its worker ids |
| `LeaseRunsOut`, `LeaseLapses` | time passes the lease of an absent, or of a live, holder |
| `spawnChecks`, `spawnReserves`, `spawnCreates` | `handleSpawnRun`: the read of the parent, the reservation, the insert |
| `resumeChecks`, `resumeApproves`, `resumeDenies` | `handleResumeRun`: the unlocked check, then the write |
| `handleCancelRun`, `cascadeLists`, `cascadeCancels` | the cancel, the one listing, then one `Update` per descendant, parents first |
| `sweepWaiting` | `sweepWaitingLoop` |

The fence (`MayFinish`) and the write it protects are one step because
`terminalTransitionFenced` compares the worker id inside the transaction.

**WorkflowExecutor** is one workflow run and its sub-runs, rows of `RunStore`.
The cursor (`current`, and per step a state, a count and an output) is a column;
each execution works on the copy it loaded, which is why a stale copy can be
written back. The sub-run ids are deterministic (`SpawnRunID`), so a replay finds
the sub-runs of the first attempt. An execution's `pc` walks through

| Action | Code |
|---|---|
| `createWorkflow` | the start handler, which pins the spec |
| `claim`, `opening`, `load` | the claim or reclaim with the poison check, the unfenced move to running, the cursor read |
| `deadLetterPoison` | a poison run: the unfenced failed write first, then the cascade, which asks for no lease |
| `gatePlanApproval`, `resumeChecks`, `resumePlanApproval`, `denyPlan` | the gate, and the approval request that races with it |
| `resumeCurrentNode` (`resumePlainNode`, `resumeMapNode(Any)`, `resumeLoopNode`) | the fold of the step in flight |
| `defensiveResuspend`, `exhausted` (`routeCatch`, `failThen`) | the early wake; the catch routes after the retries |
| `enterNode`, `reserve`, `spawnWorkflowNode`, `suspendOnChildren` | evaluation of the inputs, one reservation and one launch per sub-run, the park with the cursor |
| `cascadeStarts`, `cascadeLists`, `cascadeCancels` | the lease check, the listing, one cancel per row |
| `failWorkflow`, `completeWorkflow` | the fenced terminal writes |
| `handleCancelRun`, `cancelChild`, `childStarts`, `childEnds` | the users and the agents around it |

CEL is data: a sub-run that succeeds answers "yes", "no" or "bad", and the
predicates are functions of that. A spec has a budget block or not (`spec.budget`):
the block is optional and nothing fills it in, and `reserveNodeSpawn` lets a launch
without one pass unreserved. `deserted` is a history variable: a worker died between
the failed row of a dead-letter and the end of its cascade.

**Ingestion** has the documents (`source`), the chunk rows with the run that last
wrote each (`rows`), the cursor of documents done and the corpus status row. The
executor works a document at a time: fetch, upsert, sweep of the rows with
another run's id, checkpoint. `ActiveIngestion` and `CreateIngestionRun` are two
steps of a request. `handleCancelRun` first asks `authorizeRunAccess`: an ingestion
run names no creator, so the request must be able to read an AgentDeployment with
the name of the knowledge base, and is a 404 where there is none; the constant
`Namesake` says whether there is. A cancel that gets through ends the row at once;
the executor notices at its next heartbeat (`heartbeatLeaseLost`). Faults are crash,
drain, lapse, rate limit, lost status write and cancel. A cancelled context stops the
loop before the next document and fails the write of Ready, but not the write of
Failed, which has a context of its own. Between two runs an edit may shrink a
document.

**AsyncHop** is one message (messages share no state but a dispatcher's time).
The broker's side is external and follows from the consumer configuration and
the calls on it: `MaxDeliver`, `BackOff` (which overrides `AckWait`), nak with
delay, acks whose error is dropped. An attempt (`try[k]`) goes through the
dispatcher's queue, the POST, the launcher's decode, the claim, and the agent;
its dispatcher may time out or crash while the launcher works on. A launcher has a
seen-set or not (`Deduped`, chosen in the initial state): it is wired only when the
pod has a memory backend (`cmd/launcher/main.go` 95-101), and without it `markSeen`
lets every delivery pass (`TestConsume_NilSeenSet_DedupeDisabled`). Timers count
down; `Tick` waits for what has to end in time. `hist` is a history record for
the properties only.

## 3. Runs

The longest runs take two to three minutes with two TLC workers.

| Run | Instance | Checks | Result |
|---|---|---|---|
| `store` | parent, two children, one worker, all modes | `TypeOK`, `ParkedConsistent`, `WakeAgreement`, `RemovedAreSpent`, `Lifecycle`, `LifecycleFair` | pass |
| `fanout` | parent, two children, two workers; cancel; one lapse | `NoLostWakeup`, `SpawnBudget`, `NoOrphans` | pass |
| `resume` | parent, child, two workers, one inline; crash, pause, spawn; one lapse | `NoLostWakeup`, `PoisonNeverRuns`, `SpawnBudget` | pass |
| `live` | parent, child, two workers; crash, drain, cancel | `WTypeOK`, `ExclusiveExecution`, `EveryRunEnds` | pass |
| `workflow` | nine graphs of up to three steps, two of them without a budget, two workers, one request; one crash, lapse or cancel, in a fan-out two | `WfTypeOK`, `LaunchesFollowEdges`, `WakesAreDue`, `GateHolds`, `LaunchBudget`, `SuccessIsEarned`, `FailFastLeavesNothing`, `WorkflowEnds` | pass |
| `async` | with and without a seen-set, two dispatchers, three deliveries, one crash | `AsyncTypeOK`, `OneCallPerClaim`, `DropsOnlyAfterFailedClaim`, `OpenAcksAreEarned`, `BudgetSpansOutage`, `HopSettles` | pass |
| `ingestion` | two jobs, two documents, two workers, one fault | `IngestTypeOK`, `ReadyIsWhole`, `DoneStaysDone`, `IngestionEnds` | pass |
| `v_resume` | parent, child, two workers, inline | `ExclusiveExecution` | violated |
| `v_stuck` | parent, child, two workers, one lapse | `EveryRunEnds` | violated |
| `v_drain` | parent, child, two workers, drain | `DrainHandsOff` | violated |
| `v_async` | as `async` | `AckedWasProcessed` | violated |
| `v_ingest` | two jobs, two requests, no fault | `CorpusIsWhole` | violated |

Deadlock is not checked: runs that are all terminal, and a message that is
settled, have nothing left to do.

### Bounds, and why they are enough

* *Runs.* The store relates a run only to its parent and its children. Two
  children are the least for which a wait set shrinks before it is met and two
  children finish in either order. The proofs lift the bound.
* *Workers.* Two: a zombie and its successor. A third is a peer of either.
* `MaxTotalSpawns` 1, 2 or 4: the fan-out fills the budget exactly, a retry or a
  cycle in the graph runs into it.
* `PoisonCap` 1 stands for 5, `MaxAttempts` 2 leaves room for the reclaim that
  passes the cap. `MaxLapses` counts the leases that lapse under live holders;
  one is enough to make one zombie.
* `Faults` names the faults of a run, to keep each question small. `NoOrphans`
  is checked without pauses, because a deny does not cascade, and without the
  spawn edge (see the observations below).
* *Workflow graphs.* `Branching` has a branch, a retry and a handler for one class
  of failure; `MapAll` and `MapAny` fan out to two items under each wait mode, with
  a join; `MapNone` enters an empty map and then a loop in one advance; `MapBad` has
  an item whose input does not evaluate; `Gated` waits for approval; `Cycle` never
  leaves the graph and must be stopped by the budget. `Cycle` is also there without a budget. Two attempts, items or
  iterations are the least with a first and a next. One fault at every point: a
  crash, a lapse under a live holder, or a cancel. `Fanned`, a map without a join and
  without a budget, has two, so that it becomes poison and is dead-lettered
  (`MaxFaults` is a bound for each graph).
* *Async.* Backoff `<<1, 2>>`, so three deliveries (five in the code) with
  different delays. Timeout 1; TTL 4, longer than the span of the schedule as the
  code's ten minutes are longer than its six, so that the claim runs out only when
  slow attempts or an outage stretch it. Two dispatchers, so that a redelivery
  overlaps the attempt it repeats; one crash.
* *Ingestion.* Two jobs (old and new), two documents (one done, one pending), one
  chunk each, which an edit can take away: enough for a stale row, a missing row
  and a resume in the middle. The passing run has one request at a time and an
  AgentDeployment of the right name, so that the cancel is reachable; `v_ingest` has
  two requests and no such AgentDeployment.

### Fairness

`FairSpec` of the store asks weak fairness of the sweep alone: it runs on its own
ticker in every replica. `FairWSpec` asks weak fairness of every step of a live
execution (`executeRun` has a timeout, so every invoke ends), of the dead-letter,
the drain watcher and the deferred release, of the expiry of a lease that nobody
renews, and of the sweep. Claims are strongly fair: the queue is read oldest
first, and every five seconds (`reclaimInterval`) a loop probes reclaim first, so
neither a queued nor an abandoned run is passed over for ever. `WfFairSpec` and
`IngestFairSpec` need only weak fairness of the same steps, the dead-letter of a
workflow included. `AsyncFairSpec` asks that time passes, that the broker delivers
what is due, that an attempt goes on (each of its calls has a timeout) and that a
crashed replica is restarted by its deployment. No fairness is asked of crashes, drains, heartbeats, acks arriving, or
users. `EveryRunEnds` is checked without pauses (a human may never answer) and,
in the passing run, without lapses; `WorkflowEnds` excludes gated plans and
behaviours with a lapse for the same reasons (see finding 2), and unbudgeted graphs
whose edges lead back (see the observations below).

### Findings

1. `v_resume`: after an approval the run executes inline, under the lease of the
   worker that paused it, which nobody renews; the pool reclaims and executes it
   a second time.
2. `v_stuck`: the writes that open, pause and suspend a run are not fenced. A
   worker that stalls between its claim and the opening write can move a run that
   its successor parked, and a child re-queued, to running without a lease; neither
   claim nor reclaim finds such a row again.
3. `v_drain`: the cancellation of the invoke at the end of the drain grace is
   written as the run's failure, so there is nothing left to hand off.
4. `v_async`: the dedup claim is taken before the payload is fetched and the agent
   called, and never released; the retry of an attempt that failed after it is
   acked as a duplicate. `DropsOnlyAfterFailedClaim` says that this is the only way
   in which a message is lost.
5. `v_ingest`: the active-job check and the insert are two transactions, so two
   requests both find nothing in flight and both insert; each executor's sweep deletes
   the rows the other has written, and the corpus is called ready without them. The
   comment on `ActiveIngestion` grants the race and says that a user clicking twice is
   not in it. An executor that outlives its lease leads to the same overlap, and so
   does a cancel where `Namesake` holds: the executor works on until its next
   heartbeat, while the check no longer sees its run.

Smaller observations the modelling made, which the properties state as
conditions:

* a cascade lists the tree once, so a grandchild that a listed child creates
  before it is cancelled stays live; its lease check is made once, before;
* the spawn edge reads the parent's status once, before it reserves and inserts: a
  cancel and its cascade in between leave a live child under a cancelled parent,
  where `handleSpawnRun` says "no orphan/replay spawn";
* a workflow without a budget block reserves nothing and is denied nothing, so a graph
  whose edges lead back never ends: the exception in `WorkflowEnds`. `validate.go`
  (171-173) leaves cycles to "the SAME per-root spawn budget (reserveNodeSpawn) that
  backstops every other edge", and `workflow_types.go` (245) says that a nil block
  "resolves to all defaults in the controller / registry", which nothing does. It does
  not launch for ever: from the second round on it parks on sub-runs that have ended,
  whose ids it reuses;
* a dead-letter writes the workflow failed before it cancels the sub-runs, so that a
  worker which dies in between leaves them live below a terminal row that nobody
  claims again, where `deadLetterPoison` says "so children don't orphan-run": the
  exception (`deserted`) in `FailFastLeavesNothing`. Fail-fast has the two steps the
  other way round;
* a deny cancels without a cascade, and so does a map item whose input does not
  evaluate;
* the fence context of the cursor carries the worker id but not the self-fence
  flag;
* an approval that is served while a reclaimed worker is at the gate, and a
  lapse, make `defensiveResuspend` reachable, which the code calls defensive;
* a reclaimed advance reserves budget again for sub-runs that exist;
* in a gated plan, a retry that an inline execution finds already moved on by a
  second execution routes to the handler although attempts remain;
* a replayed cascade of a map in mode any cancels the sub-run of the join that the
  crashed attempt had launched;
* the workflow's answer is that of the last *listed* step that is done, which is
  the last reached only when edges lead forward in the list;
* `BackOff` replaces `AckWait`: an agent that works longer than the first step
  (5 s) is redelivered while it works. Where the pod has a seen-set the claim alone
  prevents a second call; where it has none, the redelivery makes one.

`PROJECT.json` quotes the lines of the code that say otherwise, and lists the
hazards that no property covers yet, each with the reason.

## 4. Proofs

`RunStoreProofs` proves, for every set of runs and workers, every tree and every
budget, from `ParentAssumption` (parents are runs, nobody is its own parent),
`WorkerAssumption` (`NoWorker` is no worker) and `BoundAssumption`:

* `TypeCorrect`: `Spec => []TypeOK`. The clause that carries weight is
  `spawns[r] <= MaxTotalSpawns`, although the first reservation of a tree is not
  compared with the budget; it needs a budget of at least one.
* `ParkedAlways`: `Spec => []ParkedConsistent`, one step per operation.
* `RemovedAlways` and `WakesAgree`: `WakeAgreement` is not inductive, because it
  says nothing about the children a wait set has already lost. `RemovedAreSpent`
  is the strengthening: what was removed is terminal (so its status is frozen,
  lemma `TerminalFrozen`) and did not meet the wait when it was removed. For each
  mode, removing such a child does not change the verdict (lemma `SameVerdict`).
* `StoreImplementsLifecycle`: `Spec => Lifecycle`. Each transaction is a step of
  `RunLifecycle` or a stutter. `CompleteAndWake` needs `EarlyWakeIsRight`: when
  `satisfyChild` says the wait is met, `waitSatisfied` over all the parked
  children and the new statuses says so too. `SweepWaiting` needs `WakesAgree`.

`RunWorkersProofs` proves about the workers, for any finite pool, any finite set
of inline executions and any set of faults, from `RootAssumption` (roots are
parentless, and children share their parent's) and `ExecutorAssumption`
(finiteness, inline executions are no workers, the poison cap is below the bound
on attempts):

* `WTypeCorrect`: `WSpec => []WTypeOK`, with `Delegating`: an execution that
  delegates does so to children of its run, and gets to the park only when each of
  them is paid for.
* `WorkersUseStore`: `WSpec => Spec`. Every step, whoever takes it, is one
  operation of the store or none, so everything proved of the store holds here.
* `WakeupNeverLost`: `NoLostWakeup`. Inductive with `WaitsOnChildren` and the store's
  `ParkedConsistent`: the transaction in which a child ends finds every run that
  waits for it, and a wait set is built, under the lock, from children that have not
  ended.
* `PoisonIsNotRun`: `PoisonNeverRuns`.

`RunExclusionProofs` has `OneExecution`. Finding 1 refutes `ExclusiveExecution`
where inline executions exist, and a lease that lapses under its holder always
does, so the theorem assumes `Inline = {}` and says `lapses = 0 => ExclusiveExecution`, the case the
lease is meant for. The invariant is `ExecutorsHold`: a worker inside `executeRun`
holds its run under a live lease, or the run is over. It needs heartbeat, crash,
drain and restart under the same worker id to be taken together.

`RunTreeProofs` has the two statements about trees:

* `BudgetHolds`: `SpawnBudget`, for any tree. The strengthening `SpawnsCovered`
  counts, for each root, the children made, the spawn requests that have reserved
  and not yet inserted, and the slots that delegations in flight have paid: together
  they stay within the counter. Replays only enlarge the gap.
* `CancelLeavesNoOrphan`: `NoOrphans`, for trees of one level, without inline
  executions and without the spawn edge. The observations in section 3 say why each
  hypothesis is needed. The invariant `CascadePending` says that every live child of
  a cancelled run is still in reach of a cascade: its listing is to come, or the
  child is on the list.

`WorkflowProofs` is about any set of valid graphs, any finite pool and any number
of faults. `SpecAssumption` is what `internal/workflow/validate.go` accepts (steps
are listed once, edges lead to listed steps or to the end, a loop has a bound);
`WfAssumption` adds that the sub-run ids of a graph are children of the workflow run,
and that the bound on attempts leaves room for the poison cap and the faults.
The basis is `WalkInv`: types, a persisted cursor that is fresh or has a countable
step in flight, and `Sound`, what each execution knows at its `pc`. An execution acts
on a copy of the cursor that others may have overtaken, so a relation between its
copy and the row is not inductive. `Sound` therefore says only things that stay true
once they are (`ReachedSteps`, `DueRuns`, `FinalSteps`, `WonMaps`, `LostSteps`,
`ExhaustedSteps`): facts about sub-runs that have ended or were created. `FactsKept`
proves once that no step of the store takes one of them back, and each action is
then shown to establish the facts of its next `pc` from those of its own.

* `WorkflowTypeCorrect`, and `WorkflowUsesStore`: `WfSpec => Spec`.
* `LaunchesAreDue`: `LaunchesFollowEdges`, zombies and replays included.
* `SuccessEarned`: `SuccessIsEarned`; `Earned` adds to `WalkInv` what the answer of a
  successful run goes back to.
* `LaunchesArePaid`: `LaunchBudget`, which is about workflows with a budget block;
  `Paid` counts the sub-runs made and the executions that have reserved for one.
* `GateIsKept`: `GateHolds`. `Sole` says that until a lease lapses or the plan is
  approved at most one worker is on the run, and that requests stand aside;
  `BeforeApproval` and `AfterApproval` say how far an execution can be in each phase.
* `NoEarlyWake`: `WakesAreDue`. `WakeInv` says that a parked run waits exactly for the
  step in flight of its cursor, and that a run on its way has a cursor that is fresh
  or decided. That a wake decides the step uses the store's `RemovedAreSpent`,
  `SameVerdict` and `EarlyWakeIsRight`.
* `FailFastIsClean`: `FailFastLeavesNothing`. `Sound` forgets the path by which an
  execution came to its step, and the proof needs it: a worker that takes over after a
  crash must come to the step its predecessor was launching, or its cascade misses what
  was launched. `Tidy` therefore relates, as long as no lease lapsed, the one execution
  to the persisted cursor. While the run goes on, the live sub-runs are those of the
  step in flight or of the step the next advance launches (`Tracked`), and the execution
  `Follows` the cursor: what it enters lies `Ahead` of it, what it launches is
  `Upcoming`, and its cascade's list holds whatever is live. Once the run has failed
  nothing is live, and a retry that came too late for the budget finds it spent; or the
  one execution is a dead-letter whose cascade has yet to list what is live, or has it on
  its list (`Sweeping`); or its worker died before that (`Abandoned`), which is the
  exception that `deserted` states. An
  advance may pass through any number of empty maps; `Chain` collects those steps as a
  least closed set instead of by recursion, and `ChainEnds` shows that at most one of
  them launches anything: that is the determinism of a replay.

`IngestionProofs` is about any number of jobs, documents, chunks and workers, from
`IngestAssumption` (a non-empty list of distinct documents; ingestion runs have no
parent; enough attempts for the faults):

* `IngestTypeCorrect`, and `IngestionUsesStore`: `IngestSpec => Spec`.
* `ResumeForgetsNothing`: the action property `DoneStaysDone`. `Alone` says that as
  long as no lease lapsed a worker holds its run alone, and that its own list of
  documents done contains what the row says (`Knows`): the checkpoint overwrites.
* `ReadyCorpusIsWhole`: `ReadyIsWhole`, as long as no two ingestions were executed at
  the same time (finding 5). `Progress` says that every execution under way is of
  the run claimed last, that the chunks it has gone through carry its stamp, and that
  the documents which it, or the cursor of a live run, calls done are indexed as the
  source has them. The loop takes the first
  pending document; that there is one is `Least`.

`AsyncHopProofs` proves, for any number of dispatchers, any backoff schedule, any
number of crashes, and a claim that lives longer than the timeout of a call
(`AsyncAssumption`):

* `AsyncTypeCorrect`: `AsyncSpec => []AsyncTypeOK`.
* `OneCallAlways`: `AsyncSpec => []OneCallPerClaim`. Without a seen-set each delivery
  accounts for at most one call; with one, the strengthening `ClaimHeld`
  says that an attempt between its claim and its call is the only one, that no call
  was made under this key, and that the key outlives the attempt's own timer: that
  is where the relation between timeout and TTL is used. Every step but a claim, a
  call and the clock is dealt with by `ClaimKept`.
* `DropsAlways`: `AsyncSpec => []DropsOnlyAfterFailedClaim`, by `KeyAccounts`: a key
  in the seen-set means that somebody who took it is under way, succeeded, or is on
  record as failed, so that a duplicate's ack is accounted for.
* `NothingDropped`: `OpenAcksAreEarned`, which is, without a seen-set, the statement that
  finding 4 refutes with one.
* `BudgetSpansSchedule`: `AsyncSpec => []BudgetSpansOutage`. `Paced` relates the age of
  the message to the part of the schedule behind it. The sums of the schedule are a
  recursive function, and what they satisfy is proved by `LeastNatural`'s `Induction`,
  which speaks of a set of numbers where the library's rule takes a predicate.

The proofs are hierarchical, one case per action, with the lemmas stated once.

Only model-checked:

* liveness (`LifecycleFair`, `EveryRunEnds`, `WorkflowEnds`, `HopSettles`,
  `IngestionEnds`), which the prover does not handle;
* the five violations, which are counterexamples.

## 5. Not modelled

* The handoff edge, a spawn of a team without a budget, dataset export, the kill switch, the event stream,
  the in-memory store.
* In `executeRun`, the early return for a handoff marker. The handoff edge
  terminates its run by a plain `Update`, so `NoLostWakeup` is a statement about
  executions that answer, fail or delegate.
* A crash of the API process during a cancel's cascade in `RunWorkers`, which the
  code calls best-effort. `authorizeRunAccess` in front of the cancel of an agent or a
  workflow run, which passes for the user who created it.
* The two attempts of a claim to skip killed agents (the claim filter).
* In `Ingestion`: upload and deletion of documents, retrieval, storage accounts,
  the dead-letter of a poison ingestion. The OCR fallback is merged into the plain
  fetch, and the phase PartiallyIngested into Ready. A document is replaced only while
  no ingestion is queued or executed: one uploaded between a crash and the resume of
  the same run would leave rows with that run's id, which its sweep keeps. That a late
  Failed can overwrite a newer Ready is not stated as a property.
* CEL, failure classification, checkpoints: data. Of the graph validation only
  what the walk relies on is kept, as `SpecAssumption`.
* The Kubernetes controllers, the credential plane, gateway rendering, the
  control-plane tables, egress, replay, console, SDK and CLI: reconcilers,
  request/response services and user interface without a protocol of their own.
  They make up most of the repository's lines; `PROJECT.json` gives the reason for
  each.

## 6. Plan

1. `Handoff`: the edge against a running invoke; conversation pointer, source and target run after a crash at each step.
2. `EventStream`: append under the row lock against a polling tail; no event is
   missed or repeated, and the stream ends.
3. `KillSwitch`: the claim filter against claims in flight.
4. Theorems: `CancelLeavesNoOrphan` for deeper trees, restricted to the descendants
   that the cascade listed.
