------------------------------ MODULE RunWorkers ------------------------------
(***************************************************************************)
(* The executors of agent runs in internal/bff over the shared run store:  *)
(*   - the worker loops (run_worker.go): claim or reclaim, execute under a *)
(*     heartbeat, self-fence, drain, dead-letter a poison run;             *)
(*   - the inline executions that handleResumeRun starts after a human's   *)
(*     approval (runs_handler.go): no worker id, no heartbeat, no fence;   *)
(*   - executeRun itself: open, invoke the agent, then finish, pause for a *)
(*     human, or delegate to children and suspend (delegate_suspend.go);   *)
(*   - the spawn edge (spawn_handler.go), by which an agent at work has a  *)
(*     child created and goes on;                                          *)
(*   - user cancels with their subtree cascade (workflow_executor.go), and *)
(*     the sweep of waiting runs.                                          *)
(*                                                                         *)
(* Every step that touches the store is an operation of RunStore; between  *)
(* two of them other executors, crashes and expiring leases interleave.    *)
(***************************************************************************)
EXTENDS RunStore

CONSTANTS
    RootOf,       \* the RootRunID of each run (a root is its own)
    Inline,       \* the executions a resume request may start at a time
    PoisonCap,    \* poisonRedeliveryCap
    MaxLapses,    \* bound: how often a lease may expire under a live holder
    Faults        \* which of crash, drain, cancel, pause and spawn may happen

\* A child takes its parent's RootRunID, or the parent's own id when that is
\* empty: the root is a run, and has no parent.
ASSUME RootAssumption ==
    /\ RootOf \in [Runs -> Runs]
    /\ \A r \in Runs :
          /\ ParentOf[RootOf[r]] = NoRun
          /\ RootOf[r] = IF ParentOf[r] = NoRun THEN r ELSE RootOf[ParentOf[r]]

ASSUME ExecutorAssumption ==
    /\ IsFiniteSet(Runs) /\ IsFiniteSet(Workers) /\ IsFiniteSet(Inline)
    /\ Inline \cap (Workers \cup {NoWorker}) = {}
    /\ PoisonCap \in Nat /\ PoisonCap < MaxAttempts
    /\ MaxLapses \in Nat
    /\ Faults \subseteq {"crash", "drain", "cancel", "pause", "spawn"}

Execs == Workers \cup Inline

VARIABLES
    exec,      \* what each executor is doing
    lapses,    \* how many leases expired under a live holder
    listing,   \* cancelled runs whose cascade has not listed the table yet
    todo,      \* what the cascade of each cancelled run still has to cancel
    spawning   \* how far the spawn request for each child has come

svars == vars
wvars == <<vars, exec, lapses, listing, todo, spawning>>

(***************************************************************************)
(* An execution: where it is (pc), on which run, with which outcome (of    *)
(* the invoke) or which children (of a delegation), how many reservations  *)
(* it still has to make, and the state of its contexts: stopped (execCtx   *)
(* cancelled), fenced (the self-fence flag), draining (pool ctx cancelled).*)
(***************************************************************************)
Idle == [pc |-> "idle", run |-> NoRun, out |-> "none", kids |-> {}, left |-> 0,
         stopped |-> FALSE, fenced |-> FALSE, draining |-> FALSE]

\* Between the call of executeRun and its return.
InRun(e) == exec[e].pc \in {"opening", "invoking", "finish", "pause", "reserve", "suspend"}

Executes(e, r) == InRun(e) /\ exec[e].run = r

\* The heartbeat's context derives from the pool's, so a drain stops it; it
\* also ends itself when it stops the execution.
Beating(w) == InRun(w) /\ ~exec[w].stopped /\ ~exec[w].draining

At(e, pc) == exec[e].pc = pc

Goto(e, pc) == exec' = [exec EXCEPT ![e].pc = pc]

\* executeRun returns.  A draining worker still has its lease to release.
Return(e) == exec' = [exec EXCEPT ![e] =
                IF @.draining THEN [@ EXCEPT !.pc = "release"] ELSE Idle]

WInit ==
    /\ Init
    /\ exec = [e \in Execs |-> Idle]
    /\ lapses = 0
    /\ listing = {}
    /\ todo = [r \in Runs |-> {}]
    /\ spawning = [r \in Runs |-> "none"]

-------------------------------------------------------------------------------
(* The worker loop.                                                        *)

\* POST /api/runs leaves a new root run queued for the pool.
handleCreateRun(r) ==
    /\ ParentOf[r] = NoRun
    /\ Create(r)
    /\ UNCHANGED <<exec, lapses, listing, todo, spawning>>

\* A mutant: the cap lets one more redelivery through.
IsPoison_Late(n) == n > PoisonCap + 1

IsPoison(n) == n > PoisonCap

\* The loop looks at the attempts of the run that the claim returned: past the
\* cap, the run is not executed but dead-lettered.
Take(w, r) ==
    exec' = [exec EXCEPT ![w] = [Idle EXCEPT
                !.pc = IF IsPoison(attempts'[r]) THEN "poison" ELSE "opening",
                !.run = r]]

claimQueued(w, r) ==
    /\ At(w, "idle")
    /\ ClaimQueued(w, r)
    /\ Take(w, r)
    /\ UNCHANGED <<lapses, listing, todo, spawning>>

reclaim(w, r) ==
    /\ At(w, "idle")
    /\ ClaimReclaimable(w, r)
    /\ Take(w, r)
    /\ UNCHANGED <<lapses, listing, todo, spawning>>

\* A mutant: a spawned run ends like a root one, and its parent is not woken.
terminalTransition_NoWake(r, to) == Update(r, to)

\* A spawned run ends through CompleteAndWake, a root run through Update.
terminalTransition(r, to) ==
    IF ParentOf[r] # NoRun THEN CompleteAndWake(r, to) ELSE Update(r, to)

\* The transition if the table allows it; else an error that is only logged.
TryTerminal(r, to) ==
    \/ CanTransition(status[r], to) /\ terminalTransition(r, to)
    \/ ~CanTransition(status[r], to) /\ UNCHANGED svars

\* The dead-letter is not fenced.
deadLetterPoison(w) ==
    /\ At(w, "poison")
    /\ TryTerminal(exec[w].run, "failed")
    /\ exec' = [exec EXCEPT ![w] = Idle]
    /\ UNCHANGED <<lapses, listing, todo, spawning>>

-------------------------------------------------------------------------------
(* executeRun.                                                             *)

\* The opening Update to running.  It is not fenced: whoever holds the run, a
\* queued or paused run is moved to running, and only a run that can no longer
\* be (terminal or waiting) makes the execution return.
Open(e) ==
    LET r == exec[e].run
    IN  /\ At(e, "opening")
        /\ \/ Update(r, "running") /\ Goto(e, "invoking")
           \/ status[r] = "running" /\ Goto(e, "invoking") /\ UNCHANGED svars
           \/ /\ status[r] # "running" /\ ~CanTransition(status[r], "running")
              /\ Return(e) /\ UNCHANGED svars
        /\ UNCHANGED <<lapses, listing, todo, spawning>>

\* The agent answers, or its answer violates the output schema, or it fails.
InvokeAnswer(e, out) ==
    /\ At(e, "invoking")
    /\ exec' = [exec EXCEPT ![e].pc = "finish", ![e].out = out]
    /\ UNCHANGED <<svars, lapses, listing, todo, spawning>>

\* The invoke returns the error of its cancelled context.  executeRun does not
\* tell it from a failure of the agent.
InvokeAborted(e) ==
    /\ At(e, "invoking") /\ exec[e].stopped
    /\ exec' = [exec EXCEPT ![e].pc = "finish", ![e].out = "aborted"]
    /\ UNCHANGED <<svars, lapses, listing, todo, spawning>>

\* The agent asks for consent or for an approval.
InvokePause(e) ==
    /\ At(e, "invoking") /\ "pause" \in Faults
    /\ Goto(e, "pause")
    /\ UNCHANGED <<svars, lapses, listing, todo, spawning>>

\* The agent suspends on delegates: one reservation is due for each.
InvokeDelegate(e, kids) ==
    /\ At(e, "invoking") /\ kids # {}
    /\ exec' = [exec EXCEPT ![e].pc = "reserve", ![e].kids = kids,
                            ![e].left = Cardinality(kids)]
    /\ UNCHANGED <<svars, lapses, listing, todo, spawning>>

\* The fence: not self-fenced and, for a worker, the row still names it.
MayFinish(e, r) ==
    /\ ~exec[e].fenced
    /\ e \in Workers => worker[r] = e

\* terminalTransitionFenced with the outcome of the invoke.  A fenced or an
\* illegal write is dropped and the execution returns.
WriteTerminal(e) ==
    LET r == exec[e].run
        to == IF exec[e].out = "succeeded" THEN "succeeded" ELSE "failed"
    IN  /\ At(e, "finish")
        /\ \/ MayFinish(e, r) /\ TryTerminal(r, to)
           \/ ~MayFinish(e, r) /\ UNCHANGED svars
        /\ Return(e)
        /\ UNCHANGED <<lapses, listing, todo, spawning>>

\* The Update to requires_action.  It is not fenced.
WritePause(e) ==
    LET r == exec[e].run
    IN  /\ At(e, "pause")
        /\ \/ Update(r, "requires_action")
           \/ ~CanTransition(status[r], "requires_action") /\ UNCHANGED svars
        /\ Return(e)
        /\ UNCHANGED <<lapses, listing, todo, spawning>>

\* A mutant: one reservation pays for the whole fan-out.
Reserved_Once(e) == exec' = [exec EXCEPT ![e].left = 0, ![e].pc = "suspend"]

\* One delegate is paid for; after the last one the children may be created.
Reserved(e) ==
    exec' = [exec EXCEPT ![e].left = @ - 1,
                         ![e].pc = IF exec[e].left = 1 THEN "suspend" ELSE "reserve"]

FailDelegation(e) ==
    exec' = [exec EXCEPT ![e].pc = "finish", ![e].out = "failed", ![e].left = 0]

\* One ReserveSpawn of suspendOnDelegate's loop.  A spent budget, or a store
\* that gives no answer, fails the run.
Reserve(e) ==
    LET root == RootOf[exec[e].run]
    IN  /\ At(e, "reserve")
        /\ \/ ReserveSpawn(root) /\ Reserved(e)
           \/ FailDelegation(e) /\ UNCHANGED svars
        /\ UNCHANGED <<lapses, listing, todo, spawning>>

\* SuspendOnDelegate, not fenced.  When it is refused (the run is neither
\* running nor waiting) or an intent lacks a field, the run is failed instead.
WriteSuspend(e) ==
    LET r == exec[e].run
    IN  /\ At(e, "suspend")
        /\ \/ SuspendOnDelegate(r, exec[e].kids) /\ Return(e)
           \/ FailDelegation(e) /\ UNCHANGED svars
        /\ UNCHANGED <<lapses, listing, todo, spawning>>

-------------------------------------------------------------------------------
(***************************************************************************)
(* handleSpawnRun: the blocking delegation.  The agent at work on a run    *)
(* has a child created through an API request of its own, at most one at a *)
(* time for a child, and stays in its invoke.  The team's budget is taken  *)
(* to be the ceiling that the suspending delegation reserves against.      *)
(***************************************************************************)

ToSpawn(c, stage) ==
    /\ spawning' = [spawning EXCEPT ![c] = stage]
    /\ UNCHANGED <<exec, lapses, listing, todo>>

\* The parent is not terminal and the child is not there yet.
spawnChecks(c) ==
    /\ "spawn" \in Faults /\ spawning[c] = "none" /\ ParentOf[c] # NoRun
    /\ \E e \in Execs : At(e, "invoking") /\ exec[e].run = ParentOf[c]
    /\ ~IsTerminal(status[ParentOf[c]]) /\ ~Created(c)
    /\ ToSpawn(c, "checked")
    /\ UNCHANGED svars

\* A mutant: the request goes on without a reservation.
spawnReserves_Free(c) ==
    /\ spawning[c] = "checked"
    /\ ToSpawn(c, "reserved")
    /\ UNCHANGED svars

\* The budget of the tree is reserved, or the request is refused.
spawnReserves(c) ==
    /\ spawning[c] = "checked"
    /\ \/ ReserveSpawn(RootOf[c]) /\ ToSpawn(c, "reserved")
       \/ ToSpawn(c, "none") /\ UNCHANGED svars

\* The child is created, or is there by now, or the insert fails.
spawnCreates(c) ==
    /\ spawning[c] = "reserved"
    /\ Create(c) \/ UNCHANGED svars
    /\ ToSpawn(c, "none")

-------------------------------------------------------------------------------
(* Heartbeat, lease loss, self-fence, drain.                               *)

\* A heartbeat that renews a lease that had run out.
heartbeatRenews(w) ==
    LET r == exec[w].run
    IN  /\ Beating(w) /\ lease[r] = "expired"
        /\ Heartbeat(w, r)
        /\ UNCHANGED <<exec, lapses, listing, todo, spawning>>

\* The heartbeat is refused (ErrLeaseLost): stop the execution.
heartbeatLeaseLost(w) ==
    /\ Beating(w) /\ ~Holds(w, exec[w].run)
    /\ exec' = [exec EXCEPT ![w].stopped = TRUE]
    /\ UNCHANGED <<svars, lapses, listing, todo, spawning>>

\* The heartbeat could not reach the store for a whole lease: raise the
\* self-fence, then stop the execution.
selfFence(w) ==
    LET r == exec[w].run
    IN  /\ Beating(w)
        /\ Holds(w, r) => lease[r] = "expired"
        /\ exec' = [exec EXCEPT ![w].stopped = TRUE, ![w].fenced = TRUE]
        /\ UNCHANGED <<svars, lapses, listing, todo, spawning>>

\* SIGTERM: the pool's context is cancelled.
Drain(w) ==
    /\ "drain" \in Faults
    /\ InRun(w) /\ ~exec[w].draining
    /\ exec' = [exec EXCEPT ![w].draining = TRUE]
    /\ UNCHANGED <<svars, lapses, listing, todo, spawning>>

\* The drain grace is over: the watcher cancels the execution.
drainGraceOver(w) ==
    /\ InRun(w) /\ exec[w].draining /\ ~exec[w].stopped
    /\ exec' = [exec EXCEPT ![w].stopped = TRUE]
    /\ UNCHANGED <<svars, lapses, listing, todo, spawning>>

\* The deferred ReleaseLease of a draining worker, whose loop then ends; the
\* pod's replacement starts as a fresh worker.
releaseOnDrain(w) ==
    LET r == exec[w].run
    IN  /\ At(w, "release")
        /\ \/ ReleaseLease(w, r)
           \/ ~Holds(w, r) /\ UNCHANGED svars
        /\ exec' = [exec EXCEPT ![w] = Idle]
        /\ UNCHANGED <<lapses, listing, todo, spawning>>

\* The process dies; its replacement starts fresh.  A process that dies while
\* it dead-letters has attempts to spare (a bound of the model).
Crash(e) ==
    /\ "crash" \in Faults
    /\ ~At(e, "idle")
    /\ At(e, "poison") => attempts[exec[e].run] < MaxAttempts
    /\ exec' = [exec EXCEPT ![e] = Idle]
    /\ UNCHANGED <<svars, lapses, listing, todo, spawning>>

\* The worker the row names is alive and on this run.
HolderLives(r) == \E w \in Workers : worker[r] = w /\ exec[w].run = r

\* A lease that nobody renews runs out.
LeaseRunsOut(r) ==
    /\ ~HolderLives(r)
    /\ ExpireLease(r)
    /\ UNCHANGED <<exec, lapses, listing, todo, spawning>>

\* A lease runs out under a live holder: a stalled process, a store it cannot
\* reach, a drain that outlasts its grace.
LeaseLapses(r) ==
    /\ HolderLives(r) /\ lapses < MaxLapses
    /\ ExpireLease(r)
    /\ lapses' = lapses + 1
    /\ UNCHANGED <<exec, listing, todo, spawning>>

-------------------------------------------------------------------------------
(* The API: resume, deny, cancel; and the sweep.                           *)

\* handleResumeRun finds the run paused, without a lock.
resumeChecks(e, r) ==
    /\ At(e, "idle")
    /\ status[r] = "requires_action"
    /\ exec' = [exec EXCEPT ![e] = [Idle EXCEPT !.pc = "resuming", !.run = r]]
    /\ UNCHANGED <<svars, lapses, listing, todo, spawning>>

\* ... then moves it to running, or finds it so, and starts executeRun; if the
\* table forbids the move it answers 409.
resumeApproves(e) ==
    LET r == exec[e].run
    IN  /\ At(e, "resuming")
        /\ \/ Update(r, "running") /\ Goto(e, "opening")
           \/ status[r] = "running" /\ Goto(e, "opening") /\ UNCHANGED svars
           \/ /\ status[r] # "running" /\ ~CanTransition(status[r], "running")
              /\ Return(e) /\ UNCHANGED svars
        /\ UNCHANGED <<lapses, listing, todo, spawning>>

\* The deny branch: an Update to cancelled, whatever the run has become since.
resumeDenies(e) ==
    LET r == exec[e].run
    IN  /\ At(e, "resuming")
        /\ \/ Update(r, "cancelled")
           \/ ~CanTransition(status[r], "cancelled") /\ UNCHANGED svars
        /\ Return(e)
        /\ UNCHANGED <<lapses, listing, todo, spawning>>

\* The runs below r: the least set with r's children that is closed.
Below(r) ==
    {x \in Runs : \A S \in SUBSET Runs :
        (Children(r) \subseteq S /\ \A y \in S : Children(y) \subseteq S) => x \in S}

LiveBelow(r) == {x \in Below(r) : Created(x) /\ ~IsTerminal(status[x])}

\* The cancel is a plain Update, for a spawned run too.
handleCancelRun(r) ==
    /\ "cancel" \in Faults
    /\ Update(r, "cancelled")
    /\ listing' = listing \cup {r}
    /\ UNCHANGED <<exec, lapses, todo, spawning>>

\* A mutant: only the runs that execute are listed, not the queued ones.
cascadeLists_RunningOnly(r) ==
    /\ r \in listing
    /\ listing' = listing \ {r}
    /\ todo' = [todo EXCEPT ![r] = {x \in LiveBelow(r) : status[x] = "running"}]
    /\ UNCHANGED <<svars, exec, lapses, spawning>>

\* cancelCascade reads the whole table once.
cascadeLists(r) ==
    /\ r \in listing
    /\ listing' = listing \ {r}
    /\ todo' = [todo EXCEPT ![r] = LiveBelow(r)]
    /\ UNCHANGED <<svars, exec, lapses, spawning>>

\* It cancels what it listed, parents before children, each by a plain Update;
\* a run that ended meanwhile is skipped.
cascadeCancels(r, x) ==
    /\ x \in todo[r] /\ ParentOf[x] \notin todo[r]
    /\ \/ Update(x, "cancelled")
       \/ IsTerminal(status[x]) /\ UNCHANGED svars
    /\ todo' = [todo EXCEPT ![r] = @ \ {x}]
    /\ UNCHANGED <<exec, lapses, listing, spawning>>

sweepWaiting(r) ==
    /\ SweepWaiting(r)
    /\ UNCHANGED <<exec, lapses, listing, todo, spawning>>

-------------------------------------------------------------------------------

ExecuteStep(e) ==
    \/ Open(e)
    \/ \E out \in {"succeeded", "failed"} : InvokeAnswer(e, out)
    \/ InvokeAborted(e)
    \/ InvokePause(e)
    \/ \E kids \in SUBSET Children(exec[e].run) : InvokeDelegate(e, kids)
    \/ WriteTerminal(e)
    \/ WritePause(e)
    \/ Reserve(e)
    \/ WriteSuspend(e)

HolderStep(w) ==
    \/ deadLetterPoison(w)
    \/ heartbeatRenews(w)
    \/ heartbeatLeaseLost(w)
    \/ selfFence(w)
    \/ Drain(w)
    \/ drainGraceOver(w)
    \/ releaseOnDrain(w)

ApiStep(r) ==
    \/ handleCreateRun(r)
    \/ handleCancelRun(r)
    \/ cascadeLists(r)
    \/ \E x \in Runs : cascadeCancels(r, x)
    \/ \E e \in Inline : resumeChecks(e, r)
    \/ spawnChecks(r) \/ spawnReserves(r) \/ spawnCreates(r)
    \/ sweepWaiting(r)
    \/ LeaseRunsOut(r)
    \/ LeaseLapses(r)

WNext ==
    \/ \E e \in Execs : ExecuteStep(e) \/ Crash(e)
    \/ \E e \in Inline : resumeApproves(e) \/ resumeDenies(e)
    \/ \E w \in Workers :
           \/ HolderStep(w)
           \/ \E r \in Runs : claimQueued(w, r) \/ reclaim(w, r)
    \/ \E r \in Runs : ApiStep(r)

WSpec == WInit /\ [][WNext]_wvars

(***************************************************************************)
(* Fairness.  A live process takes its next step (executeRun has a         *)
(* timeout, so every invoke ends); the tickers of the sweep and of the     *)
(* drain fire; time passes.  Claims are strongly fair: the queue is read   *)
(* oldest first and every few seconds reclaim goes first, so a run that is *)
(* claimable again and again, while the workers are now and then idle, is  *)
(* not passed over for ever.  Crashes, drains and users owe nothing.       *)
(***************************************************************************)
Fairness ==
    /\ \A e \in Execs : WF_wvars(ExecuteStep(e))
    /\ \A w \in Workers :
          /\ WF_wvars(deadLetterPoison(w))
          /\ WF_wvars(drainGraceOver(w))
          /\ WF_wvars(releaseOnDrain(w))
    /\ \A r \in Runs :
          /\ SF_wvars(\E w \in Workers : claimQueued(w, r))
          /\ SF_wvars(\E w \in Workers : reclaim(w, r))
          /\ WF_wvars(LeaseRunsOut(r))
          /\ WF_wvars(sweepWaiting(r))

FairWSpec == WSpec /\ Fairness

-------------------------------------------------------------------------------
(* Properties.                                                             *)

ExecRecord ==
    [pc : {"idle", "poison", "opening", "invoking", "finish", "pause", "reserve",
           "suspend", "release", "resuming"},
     run : Runs \cup {NoRun},
     out : {"none", "succeeded", "failed", "aborted"},
     kids : SUBSET Runs,
     left : 0..Cardinality(Runs),
     stopped : BOOLEAN, fenced : BOOLEAN, draining : BOOLEAN]

\* The types of the executors' state; an execution in progress has a run, and
\* that run has a row.
WTypeOK ==
    /\ TypeOK
    /\ exec \in [Execs -> ExecRecord]
    /\ \A e \in Execs : ~At(e, "idle") => exec[e].run \in Runs /\ Created(exec[e].run)
    /\ lapses \in 0..MaxLapses
    /\ listing \subseteq Runs
    /\ todo \in [Runs -> SUBSET Runs]
    /\ spawning \in [Runs -> {"none", "checked", "reserved"}]

\* Never do two executors run the same run, and a worker in executeRun on a
\* running run is the worker its row names: "a healthy long run is not falsely
\* reclaimed by a peer", whatever crashes, drains and cancels do, as long as no
\* lease lapses under its live holder.
ExclusiveExecution ==
    \A r \in Runs :
        /\ \A e, f \in Execs : Executes(e, r) /\ Executes(f, r) => e = f
        /\ \A w \in Workers :
               Executes(w, r) /\ status[r] = "running" => worker[r] = w

\* A parked run never waits for a child whose execution has ended: such a child
\* took itself out of the wait set in the transaction that ended it, or was
\* terminal before the wait set was built.  Only a cancelled child, whose
\* plain Update tells its parent nothing, is left to the sweep.
NoLostWakeup ==
    \A p \in Runs : \A c \in waitOn[p] : status[c] \notin {"succeeded", "failed"}

\* The tree under a root never has more children than were reserved, and never
\* more were reserved than the budget, whatever zombies and retries do.
SpawnBudget ==
    \A root \in Runs : ParentOf[root] = NoRun =>
        /\ Cardinality({c \in Below(root) : Created(c)}) <= spawns[root]
        /\ spawns[root] <= MaxTotalSpawns

\* A run that was reclaimed more often than the cap is executed by no worker
\* that holds it: it is on its way to the dead letters.
PoisonNeverRuns ==
    \A w \in Workers, r \in Runs :
        Executes(w, r) /\ worker[r] = w => attempts[r] <= PoisonCap

\* Once no cancel is in progress, no child of a cancelled run is live: "cancels
\* the ENTIRE SUBTREE ... every non-terminal DESCENDANT".  It takes a tree of
\* one level: a grandchild that a listed child creates before it is cancelled
\* is not in the cascade's listing.
NoOrphans ==
    listing = {} /\ (\A r \in Runs : todo[r] = {}) =>
        \A r \in Runs : status[r] = "cancelled" => LiveBelow(r) = {}

\* An executor's step on its run: every other action changes other records.
StepsOn(e, r) == exec[e].run = r /\ exec'[e] # exec[e]

\* A drain hands an unfinished run off "so a peer reclaims + resumes from the
\* checkpoint": the cancellation of its execution is not written as the run's
\* failure.
DrainHandsOff ==
    [][\A w \in Workers, r \in Runs :
         exec[w].draining /\ exec[w].out = "aborted" /\ StepsOn(w, r) =>
             status'[r] = status[r]]_wvars

\* Every run comes to an end, whatever crashes, drains and cancels happen:
\* abandoned runs are reclaimed ("so an abandoned run makes progress even under
\* sustained backlog"), crash loops end in the dead letters, parked runs are
\* woken, and the spawn budget ends every loop of delegations.
EveryRunEnds ==
    \A r \in Runs : Created(r) ~> IsTerminal(status[r])
===============================================================================
