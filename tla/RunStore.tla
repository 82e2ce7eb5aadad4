------------------------------- MODULE RunStore -------------------------------
(***************************************************************************)
(* The run store of internal/run (postgres.go): the `runs` table, its      *)
(* leases and wait sets, and the per-tree spawn counter.                   *)
(*                                                                         *)
(* One action is one committed transaction.  Every operation locks the     *)
(* rows it writes (FOR UPDATE, in id order) and reads them again under the *)
(* lock before it decides, and a lost version race is retried from the     *)
(* read, so its effect is that of one atomic step.  An operation the code  *)
(* rejects (an illegal Transition, a lost lease, a spent budget) rolls     *)
(* back: it is no step at all.                                             *)
(*                                                                         *)
(* Next is the store under its most general client: any caller, in any     *)
(* order.  RunWorkers restricts it to the callers the code has.            *)
(***************************************************************************)
EXTENDS RunState, Naturals, FiniteSets

CONSTANTS
    Runs,            \* the run ids
    ParentOf,        \* the ParentRunID of each run, NoRun for a root
    NoRun,
    Workers,         \* the worker ids
    NoWorker,        \* the empty WorkerID
    MaxTotalSpawns,  \* the tree's spawn budget
    MaxAttempts      \* a bound of the model on the attempts counter

ASSUME ParentAssumption ==
    /\ NoRun \notin Runs
    /\ ParentOf \in [Runs -> Runs \cup {NoRun}]
    /\ \A r \in Runs : ParentOf[r] # r

ASSUME WorkerAssumption == NoWorker \notin Workers

\* The clamp of the spawn budget never leaves less than one spawn.
ASSUME BoundAssumption ==
    MaxTotalSpawns \in Nat \ {0} /\ MaxAttempts \in Nat

VARIABLES
    status,     \* the status of each run, or Absent
    waitOn,     \* the children a waiting run still waits for
    waitMode,   \* how it waits for them
    worker,     \* worker_id
    lease,      \* lease_expires_at: NULL, in the future or in the past
    attempts,   \* how often the run was reclaimed
    spawns,     \* the spawn counter of each root, 0 for no row
    parkedOn    \* history: all the children a run is parked on, or was when it
                \* was sent back to the queue

vars == <<status, waitOn, waitMode, worker, lease, attempts, spawns, parkedOn>>

Leases == {"none", "live", "expired"}

Children(p) == {c \in Runs : ParentOf[c] = p}

Created(r) == status[r] # Absent

\* No two workers hold one run: the row has one worker_id.  The invariant
\* that matters here is the bound on the spawn counter.
TypeOK ==
    /\ status \in [Runs -> Status \cup {Absent}]
    /\ waitOn \in [Runs -> SUBSET Runs]
    /\ waitMode \in [Runs -> WaitMode \cup {NoMode}]
    /\ worker \in [Runs -> Workers \cup {NoWorker}]
    /\ lease \in [Runs -> Leases]
    /\ attempts \in [Runs -> 0..MaxAttempts]
    /\ spawns \in [Runs -> 0..MaxTotalSpawns]
    /\ parkedOn \in [Runs -> SUBSET Runs]

Init ==
    /\ status = [r \in Runs |-> Absent]
    /\ waitOn = [r \in Runs |-> {}]
    /\ waitMode = [r \in Runs |-> NoMode]
    /\ worker = [r \in Runs |-> NoWorker]
    /\ lease = [r \in Runs |-> "none"]
    /\ attempts = [r \in Runs |-> 0]
    /\ spawns = [r \in Runs |-> 0]
    /\ parkedOn = [r \in Runs |-> {}]

-------------------------------------------------------------------------------
(* The steps of a transaction that several operations share.               *)

\* Transition clears the wait record of a run that it moves out of waiting.
ClearWait(r) ==
    /\ waitOn' = [waitOn EXCEPT ![r] = {}]
    /\ waitMode' = [waitMode EXCEPT ![r] = NoMode]

\* A run that moves on, other than back to the queue, remembers no children.
Forget(r) == parkedOn' = [parkedOn EXCEPT ![r] = {}]

\* r's row loses its worker and its lease.
DropLease(r) ==
    /\ worker' = [worker EXCEPT ![r] = NoWorker]
    /\ lease' = [lease EXCEPT ![r] = "none"]

\* r's row is leased to w from now on.
TakeLease(w, r) ==
    /\ worker' = [worker EXCEPT ![r] = w]
    /\ lease' = [lease EXCEPT ![r] = "live"]

\* suspendToWaiting: r waits for `remaining`, what is left of `children`.
suspendToWaiting(r, remaining, children, mode) ==
    /\ waitOn' = [waitOn EXCEPT ![r] = remaining]
    /\ waitMode' = [waitMode EXCEPT ![r] = mode]
    /\ parkedOn' = [parkedOn EXCEPT ![r] = children]
    /\ DropLease(r)

-------------------------------------------------------------------------------
(* The operations of the Store interface.                                  *)

\* A row is inserted with its lineage: a child names a parent that has a row.
Create(r) ==
    /\ ~Created(r)
    /\ ParentOf[r] # NoRun => Created(ParentOf[r])
    /\ status' = [status EXCEPT ![r] = "queued"]
    /\ UNCHANGED <<waitOn, waitMode, worker, lease, attempts, spawns, parkedOn>>

\* An Update whose fn makes one Transition.  Worker and lease stay as they
\* are.  A Transition to the status the run has is a no-op.
Update(r, to) ==
    /\ Created(r) /\ CanTransition(status[r], to)
    /\ status' = [status EXCEPT ![r] = to]
    /\ ClearWait(r) /\ Forget(r)
    /\ UNCHANGED <<worker, lease, attempts, spawns>>

\* The statuses a plain Update moves a run to.
UpdateTargets == {"running", "requires_action", "succeeded", "failed", "cancelled"}

\* The run is running or, because a Transition to the same status is a no-op,
\* waiting already: then its wait record is overwritten.
MaySuspend(r) == status[r] \in {"running", "waiting"}

\* A mutant: the parked run keeps its worker and its lease.
Suspend_KeepLease(r, children, mode) ==
    /\ MaySuspend(r) /\ children # {} /\ \A c \in children : Created(c)
    /\ status' = [status EXCEPT ![r] = "waiting"]
    /\ waitOn' = [waitOn EXCEPT ![r] = children]
    /\ waitMode' = [waitMode EXCEPT ![r] = mode]
    /\ parkedOn' = [parkedOn EXCEPT ![r] = children]
    /\ UNCHANGED <<worker, lease, attempts, spawns>>

\* Parks r on children that exist.  Some may be terminal already: no
\* CompleteAndWake will come for them.
Suspend(r, children, mode) ==
    /\ MaySuspend(r) /\ children # {} /\ \A c \in children : Created(c)
    /\ status' = [status EXCEPT ![r] = "waiting"]
    /\ suspendToWaiting(r, children, children, mode)
    /\ UNCHANGED <<attempts, spawns>>

\* The statuses once the missing children are inserted.
Upserted(children) ==
    [x \in Runs |-> IF x \in children /\ status[x] = Absent THEN "queued" ELSE status[x]]

\* Inserts the missing children and parks p on those that are not terminal, or
\* sends p back to the queue when all are.  The one caller waits in mode "all".
SuspendOnDelegate(p, children) ==
    LET st == Upserted(children)
        remaining == {c \in children : ~IsTerminal(st[c])}
    IN  /\ MaySuspend(p) /\ children # {}
        /\ \/ /\ remaining # {}
              /\ status' = [st EXCEPT ![p] = "waiting"]
              /\ suspendToWaiting(p, remaining, children, "all")
           \/ /\ remaining = {}
              /\ status' = [st EXCEPT ![p] = "queued"]
              /\ ClearWait(p)
              /\ parkedOn' = [parkedOn EXCEPT ![p] = children]
              /\ DropLease(p)
        /\ UNCHANGED <<attempts, spawns>>

\* The parent CompleteAndWake finds parked on c, as a set.
Waiters(c) == {p \in Runs : p = ParentOf[c] /\ status[p] = "waiting" /\ c \in waitOn[p]}

\* The waiters of c whose wait its termination as `to` meets.
Woken(c, to) == {p \in Waiters(c) : satisfyChild(waitMode[p], to, waitOn[p] \ {c})}

\* The parent's row after the wait set lost c, and c's after it left waiting.
WakeWaiters(c, to) ==
    LET gone == {c} \cup Woken(c, to)
    IN  /\ status' = [r \in Runs |-> IF r = c THEN to
                                    ELSE IF r \in gone THEN "queued" ELSE status[r]]
        /\ waitOn' = [r \in Runs |-> IF r \in gone THEN {}
                                    ELSE IF r \in Waiters(c) THEN waitOn[r] \ {c}
                                    ELSE waitOn[r]]
        /\ waitMode' = [r \in Runs |-> IF r \in gone THEN NoMode ELSE waitMode[r]]
        /\ Forget(c)

\* Terminates c and removes it from its parent's wait set, in one transaction.
\* The rows of both are locked, so the parent's must exist.
CompleteAndWake(c, to) ==
    /\ Created(c) /\ ~IsTerminal(status[c])
    /\ to \in Terminal /\ CanTransition(status[c], to)
    /\ ParentOf[c] # NoRun => Created(ParentOf[c])
    /\ WakeWaiters(c, to)
    /\ UNCHANGED <<worker, lease, attempts, spawns>>

\* A mutant: the sweep is content with one terminal child, whatever the mode.
waitMet_AnyChild(r) == waitSatisfied("any", waitOn[r], status)

\* The sweep's condition, over what is left of the wait set.
waitMet(r) == waitSatisfied(waitMode[r], waitOn[r], status)

\* A mutant: the sweep handles only the waits that need every child.
SweepWaiting_AllOnly(r) ==
    /\ status[r] = "waiting" /\ waitOn[r] # {}
    /\ \A c \in waitOn[r] : IsTerminal(PersistedStatus(status[c]))
    /\ status' = [status EXCEPT ![r] = "queued"]
    /\ ClearWait(r)
    /\ UNCHANGED <<worker, lease, attempts, spawns, parkedOn>>

\* sweepOne: re-queues r when its wait is met by what its children have persisted.
SweepWaiting(r) ==
    /\ status[r] = "waiting" /\ waitOn[r] # {}
    /\ waitMet(r)
    /\ status' = [status EXCEPT ![r] = "queued"]
    /\ ClearWait(r)
    /\ UNCHANGED <<worker, lease, attempts, spawns, parkedOn>>

\* The oldest row that no concurrent claim has locked: any queued run.
ClaimQueued(w, r) ==
    /\ status[r] = "queued"
    /\ status' = [status EXCEPT ![r] = "running"]
    /\ TakeLease(w, r)
    /\ Forget(r)
    /\ UNCHANGED <<waitOn, waitMode, attempts, spawns>>

Holds(w, r) == status[r] = "running" /\ worker[r] = w

\* Renews the lease of the worker that holds r, even an expired one.
Heartbeat(w, r) ==
    /\ Holds(w, r)
    /\ lease' = [lease EXCEPT ![r] = "live"]
    /\ UNCHANGED <<status, waitOn, waitMode, worker, attempts, spawns, parkedOn>>

ReleaseLease(w, r) ==
    /\ Holds(w, r)
    /\ lease' = [lease EXCEPT ![r] = "expired"]
    /\ UNCHANGED <<status, waitOn, waitMode, worker, attempts, spawns, parkedOn>>

\* A mutant: a lease that has not expired can be taken too.
ClaimReclaimable_AnyLease(w, r) ==
    /\ status[r] = "running" /\ lease[r] # "none"
    /\ attempts[r] < MaxAttempts
    /\ TakeLease(w, r)
    /\ attempts' = [attempts EXCEPT ![r] = @ + 1]
    /\ UNCHANGED <<status, waitOn, waitMode, spawns, parkedOn>>

\* Any running run whose lease is over.  A row without a lease never is.
ClaimReclaimable(w, r) ==
    /\ status[r] = "running" /\ lease[r] = "expired"
    /\ attempts[r] < MaxAttempts
    /\ TakeLease(w, r)
    /\ attempts' = [attempts EXCEPT ![r] = @ + 1]
    /\ UNCHANGED <<status, waitOn, waitMode, spawns, parkedOn>>

\* Time passes lease_expires_at.  (Nothing reads the lease of a terminal run.)
ExpireLease(r) ==
    /\ lease[r] = "live" /\ ~IsTerminal(status[r])
    /\ lease' = [lease EXCEPT ![r] = "expired"]
    /\ UNCHANGED <<status, waitOn, waitMode, worker, attempts, spawns, parkedOn>>

\* A mutant: the guard of the upsert is <= where it should be <.
ReserveSpawn_OffByOne(root) ==
    /\ ParentOf[root] = NoRun /\ Created(root)
    /\ spawns[root] = 0 \/ spawns[root] <= MaxTotalSpawns
    /\ spawns' = [spawns EXCEPT ![root] = @ + 1]
    /\ UNCHANGED <<status, waitOn, waitMode, worker, lease, attempts, parkedOn>>

\* Admits one more spawn of the tree.  The first inserts the counter's row and
\* is not compared with the budget.
ReserveSpawn(root) ==
    /\ ParentOf[root] = NoRun /\ Created(root)
    /\ spawns[root] = 0 \/ spawns[root] < MaxTotalSpawns
    /\ spawns' = [spawns EXCEPT ![root] = @ + 1]
    /\ UNCHANGED <<status, waitOn, waitMode, worker, lease, attempts, parkedOn>>

-------------------------------------------------------------------------------

RunStep(r) ==
    \/ Create(r)
    \/ \E to \in UpdateTargets : Update(r, to) \/ CompleteAndWake(r, to)
    \/ \E children \in SUBSET Children(r) :
           \/ \E mode \in WaitMode : Suspend(r, children, mode)
           \/ SuspendOnDelegate(r, children)
    \/ SweepWaiting(r)
    \/ ExpireLease(r)
    \/ ReserveSpawn(r)

WorkerStep(w, r) ==
    \/ ClaimQueued(w, r)
    \/ Heartbeat(w, r)
    \/ ReleaseLease(w, r)
    \/ ClaimReclaimable(w, r)

Next ==
    \/ \E r \in Runs : RunStep(r)
    \/ \E w \in Workers, r \in Runs : WorkerStep(w, r)

Spec == Init /\ [][Next]_vars

\* The sweep runs on a ticker of its own for as long as any replica lives.
FairSpec == Spec /\ \A r \in Runs : WF_vars(SweepWaiting(r))

-------------------------------------------------------------------------------
(* Properties.                                                             *)

\* The wait record and the lease agree with the status: a run has a wait set
\* (a non-empty one: nothing wakes a run that waits for nobody) exactly while
\* it is waiting, and a run that is parked or queued is leased to no one, so
\* that no reclaim can start a second execution of it.
ParkedConsistent ==
    \A r \in Runs :
        /\ status[r] = "waiting" <=> waitOn[r] # {}
        /\ status[r] = "waiting" <=> waitMode[r] # NoMode
        /\ status[r] \in {"waiting", "queued", Absent} =>
               worker[r] = NoWorker /\ lease[r] = "none"

\* CompleteAndWake judges a wait by the child that just ended and what is left
\* of the wait set, and the sweep by what is left; the children that were
\* removed before are forgotten.  Nothing is lost by it: for every waiting
\* run, the wait judged over the remaining children is the wait judged over
\* all the children it was parked on ("EXACTLY what waitSatisfied would
\* return over the children's final statuses").
WakeAgreement ==
    \A r \in Runs :
        status[r] = "waiting" =>
            (waitMet(r) <=> waitSatisfied(waitMode[r], parkedOn[r], status))

\* What was removed from the wait set of a waiting run has ended and did not
\* meet the wait, and a run that neither waits nor was just woken remembers no
\* children: the strengthening that makes WakeAgreement inductive.
RemovedAreSpent ==
    \A r \in Runs :
        /\ status[r] \notin {"waiting", "queued"} => parkedOn[r] = {}
        /\ waitOn[r] \subseteq parkedOn[r]
        /\ \A c \in parkedOn[r] : Created(c)
        /\ status[r] = "waiting" => \A c \in parkedOn[r] \ waitOn[r] :
              /\ IsTerminal(status[c])
              /\ waitMode[r] # "any"
              /\ waitMode[r] = "all-fail-fast" => status[c] = "succeeded"
              /\ waitMode[r] = "any-success" => status[c] # "succeeded"

L == INSTANCE RunLifecycle WITH parkMode <- waitMode

\* The store implements RunLifecycle: whatever the interleaving of its
\* transactions, a run moves along the transition table, terminal states are
\* frozen, and a parked run returns to the queue only when the wait over all
\* the children it was parked on is satisfied, and with their outcomes.
Lifecycle == L!Spec

\* ... and with the sweep running, a due wait does not stay due: the wakeup
\* that a crash, a race or a plain Update of a child loses is made up for.
LifecycleFair == L!FairSpec
===============================================================================
