---------------------------- MODULE RunStoreProofs ----------------------------
(***************************************************************************)
(* Proofs about RunStore, for any runs, lineage, workers and budgets.      *)
(***************************************************************************)
EXTENDS RunStore, TLAPS

-------------------------------------------------------------------------------
(* Type correctness.                                                       *)

\* Every operation of the store keeps every column in its type and the spawn
\* counter within its budget.
LEMMA TypeStep ==
    ASSUME TypeOK, [Next]_vars
    PROVE  TypeOK'
<1> USE ParentAssumption, WorkerAssumption, BoundAssumption
<1> USE DEF TypeOK, Leases, Status, Terminal, Absent, NoMode, WaitMode
<1>1. ASSUME NEW r \in Runs, Create(r) PROVE TypeOK'
    BY <1>1 DEF Create
<1>2. ASSUME NEW r \in Runs, NEW to \in UpdateTargets, Update(r, to) PROVE TypeOK'
    BY <1>2 DEF Update, ClearWait, Forget, UpdateTargets
<1>3. ASSUME NEW r \in Runs, NEW to \in UpdateTargets, CompleteAndWake(r, to)
      PROVE  TypeOK'
    BY <1>3 DEF CompleteAndWake, WakeWaiters, Forget
<1>4. ASSUME NEW r \in Runs, NEW S \in SUBSET Children(r), NEW mode \in WaitMode,
             Suspend(r, S, mode)
      PROVE  TypeOK'
    BY <1>4 DEF Suspend, suspendToWaiting, DropLease, Children
<1>5. ASSUME NEW r \in Runs, NEW S \in SUBSET Children(r), SuspendOnDelegate(r, S)
      PROVE  TypeOK'
    <2> DEFINE st == Upserted(S)
               remaining == {c \in S : ~IsTerminal(st[c])}
    <2>1. st \in [Runs -> Status \cup {Absent}]
        BY DEF Upserted
    <2>2. remaining \in SUBSET Runs /\ S \in SUBSET Runs
        BY DEF Children
    <2>3. CASE remaining # {}
        <3>1. /\ status' = [st EXCEPT ![r] = "waiting"]
              /\ suspendToWaiting(r, remaining, S, "all")
              /\ UNCHANGED <<attempts, spawns>>
            BY <1>5, <2>3 DEF SuspendOnDelegate
        <3> QED BY <2>1, <2>2, <3>1 DEF suspendToWaiting, DropLease
    <2>4. CASE remaining = {}
        BY <1>5, <2>1, <2>2, <2>4 DEF SuspendOnDelegate, ClearWait, DropLease
    <2> QED BY <2>3, <2>4
<1>6. ASSUME NEW r \in Runs, SweepWaiting(r) PROVE TypeOK'
    BY <1>6 DEF SweepWaiting, ClearWait
<1>7. ASSUME NEW r \in Runs, ExpireLease(r) PROVE TypeOK'
    BY <1>7 DEF ExpireLease
<1>8. ASSUME NEW r \in Runs, ReserveSpawn(r) PROVE TypeOK'
    BY <1>8 DEF ReserveSpawn
<1>9. ASSUME NEW w \in Workers, NEW r \in Runs, ClaimQueued(w, r) PROVE TypeOK'
    BY <1>9 DEF ClaimQueued, TakeLease, Forget
<1>10. ASSUME NEW w \in Workers, NEW r \in Runs, Heartbeat(w, r) PROVE TypeOK'
    BY <1>10 DEF Heartbeat
<1>11. ASSUME NEW w \in Workers, NEW r \in Runs, ReleaseLease(w, r) PROVE TypeOK'
    BY <1>11 DEF ReleaseLease
<1>12. ASSUME NEW w \in Workers, NEW r \in Runs, ClaimReclaimable(w, r) PROVE TypeOK'
    BY <1>12 DEF ClaimReclaimable, TakeLease
<1>13. CASE UNCHANGED vars
    BY <1>13 DEF vars
<1> QED
    BY <1>1, <1>2, <1>3, <1>4, <1>5, <1>6, <1>7, <1>8, <1>9, <1>10, <1>11, <1>12, <1>13
       DEF Next, RunStep, WorkerStep

\* In every behaviour of the store the columns have their types and no tree's
\* spawn counter exceeds its budget (ReserveSpawn's unguarded first insert
\* included).
THEOREM TypeCorrect == Spec => []TypeOK
<1>1. Init => TypeOK
    BY BoundAssumption DEF Init, TypeOK, Leases, WaitMode
<1> QED BY <1>1, TypeStep, PTL DEF Spec

-------------------------------------------------------------------------------
(* The wait record and the lease agree with the status.                    *)

\* Every operation of the store keeps the wait record and the lease in
\* agreement with the status.
LEMMA ParkedStep ==
    ASSUME TypeOK, ParkedConsistent, [Next]_vars
    PROVE  ParkedConsistent'
<1> USE ParentAssumption, WorkerAssumption
<1> USE DEF TypeOK, ParkedConsistent, Absent, NoMode
<1>1. ASSUME NEW r \in Runs, Create(r) PROVE ParkedConsistent'
    BY <1>1 DEF Create, Created
<1>2. ASSUME NEW r \in Runs, NEW to \in UpdateTargets, Update(r, to)
      PROVE  ParkedConsistent'
    BY <1>2 DEF Update, ClearWait, Forget, UpdateTargets
<1>3. ASSUME NEW c \in Runs, NEW to \in UpdateTargets, CompleteAndWake(c, to)
      PROVE  ParkedConsistent'
    <2>1. ASSUME NEW x \in Waiters(c), x \notin Woken(c, to) PROVE waitOn[x] \ {c} # {}
        <3>1. ~satisfyChild(waitMode[x], to, waitOn[x] \ {c})
            BY <2>1 DEF Woken
        <3> QED BY <3>1 DEF satisfyChild
    <2>2. \A x \in Waiters(c) : x # c /\ status[x] = "waiting"
        BY DEF Waiters
    <2>3. Woken(c, to) \subseteq Waiters(c)
        BY DEF Woken
    <2>4. to \in Terminal /\ WakeWaiters(c, to) /\ UNCHANGED <<worker, lease>>
        BY <1>3 DEF CompleteAndWake
    <2> SUFFICES ASSUME NEW r \in Runs
                 PROVE  /\ status'[r] = "waiting" <=> waitOn'[r] # {}
                        /\ status'[r] = "waiting" <=> waitMode'[r] # NoMode
                        /\ status'[r] \in {"waiting", "queued", Absent} =>
                               worker'[r] = NoWorker /\ lease'[r] = "none"
        OBVIOUS
    <2>5. CASE r = c
        BY <2>4, <2>5 DEF WakeWaiters, Terminal
    <2>6. CASE r # c /\ r \in Woken(c, to)
        BY <2>2, <2>3, <2>4, <2>6 DEF WakeWaiters
    <2>7. CASE r # c /\ r \notin Woken(c, to) /\ r \in Waiters(c)
        BY <2>1, <2>2, <2>4, <2>7 DEF WakeWaiters
    <2>8. CASE r # c /\ r \notin Woken(c, to) /\ r \notin Waiters(c)
        BY <2>4, <2>8 DEF WakeWaiters
    <2> QED BY <2>5, <2>6, <2>7, <2>8
<1>4. ASSUME NEW r \in Runs, NEW S \in SUBSET Children(r), NEW mode \in WaitMode,
             Suspend(r, S, mode)
      PROVE  ParkedConsistent'
    BY <1>4 DEF Suspend, suspendToWaiting, DropLease, WaitMode
<1>5. ASSUME NEW r \in Runs, NEW S \in SUBSET Children(r), SuspendOnDelegate(r, S)
      PROVE  ParkedConsistent'
    <2> DEFINE st == Upserted(S)
               remaining == {c \in S : ~IsTerminal(st[c])}
    <2>1. \A x \in Runs : st[x] = status[x] \/ (status[x] = Absent /\ st[x] = "queued")
        BY DEF Upserted
    <2>2. st \in [Runs -> Status \cup {Absent}]
        BY DEF Upserted, Status
    <2>3. CASE remaining # {}
        <3>1. /\ status' = [st EXCEPT ![r] = "waiting"]
              /\ suspendToWaiting(r, remaining, S, "all")
            BY <1>5, <2>3 DEF SuspendOnDelegate
        <3> QED BY <2>1, <2>2, <2>3, <3>1 DEF suspendToWaiting, DropLease
    <2>4. CASE remaining = {}
        <3>1. status' = [st EXCEPT ![r] = "queued"] /\ ClearWait(r) /\ DropLease(r)
            BY <1>5, <2>4 DEF SuspendOnDelegate
        <3> QED BY <2>1, <2>2, <3>1 DEF ClearWait, DropLease
    <2> QED BY <2>3, <2>4
<1>6. ASSUME NEW r \in Runs, SweepWaiting(r) PROVE ParkedConsistent'
    BY <1>6 DEF SweepWaiting, ClearWait
<1>7. ASSUME NEW r \in Runs, ExpireLease(r) PROVE ParkedConsistent'
    BY <1>7 DEF ExpireLease
<1>8. ASSUME NEW r \in Runs, ReserveSpawn(r) PROVE ParkedConsistent'
    BY <1>8 DEF ReserveSpawn
<1>9. ASSUME NEW w \in Workers, NEW r \in Runs, ClaimQueued(w, r)
      PROVE  ParkedConsistent'
    BY <1>9 DEF ClaimQueued, TakeLease
<1>10. ASSUME NEW w \in Workers, NEW r \in Runs, Heartbeat(w, r)
       PROVE  ParkedConsistent'
    BY <1>10 DEF Heartbeat, Holds
<1>11. ASSUME NEW w \in Workers, NEW r \in Runs, ReleaseLease(w, r)
       PROVE  ParkedConsistent'
    BY <1>11 DEF ReleaseLease, Holds
<1>12. ASSUME NEW w \in Workers, NEW r \in Runs, ClaimReclaimable(w, r)
       PROVE  ParkedConsistent'
    BY <1>12 DEF ClaimReclaimable, TakeLease
<1>13. CASE UNCHANGED vars
    BY <1>13 DEF vars
<1> QED
    BY <1>1, <1>2, <1>3, <1>4, <1>5, <1>6, <1>7, <1>8, <1>9, <1>10, <1>11, <1>12, <1>13
       DEF Next, RunStep, WorkerStep

\* In every behaviour of the store a run has a non-empty wait set exactly while
\* it is waiting, and a parked or queued run is leased to no worker.
THEOREM ParkedAlways == Spec => []ParkedConsistent
<1>1. Init => ParkedConsistent
    BY DEF Init, ParkedConsistent, Absent
<1>2. TypeOK /\ ParkedConsistent /\ [Next]_vars => ParkedConsistent'
    BY ParkedStep
<1> QED BY <1>1, <1>2, TypeCorrect, PTL DEF Spec

-------------------------------------------------------------------------------
(* The wait judged over what is left is the wait judged over everything.   *)

\* No operation changes the status of a run that has ended, or makes a row
\* disappear.
LEMMA TerminalFrozen ==
    ASSUME TypeOK, [Next]_vars, NEW x \in Runs
    PROVE  /\ IsTerminal(status[x]) => status'[x] = status[x]
           /\ Created(x) => status'[x] # Absent
<1> USE DEF TypeOK, IsTerminal, Terminal, Status, Created, Absent, CanTransition, transitions
<1> DEFINE Kept == /\ IsTerminal(status[x]) => status'[x] = status[x]
                   /\ Created(x) => status'[x] # Absent
<1>1. ASSUME NEW r \in Runs, Create(r) PROVE Kept
    BY <1>1 DEF Create
<1>2. ASSUME NEW r \in Runs, NEW to \in UpdateTargets, Update(r, to) PROVE Kept
    BY <1>2 DEF Update, UpdateTargets
<1>3. ASSUME NEW c \in Runs, NEW to \in UpdateTargets, CompleteAndWake(c, to) PROVE Kept
    BY <1>3 DEF CompleteAndWake, WakeWaiters, Woken, Waiters
<1>4. ASSUME NEW r \in Runs, NEW S \in SUBSET Children(r), NEW mode \in WaitMode,
             Suspend(r, S, mode)
      PROVE  Kept
    BY <1>4 DEF Suspend, MaySuspend
<1>5. ASSUME NEW r \in Runs, NEW S \in SUBSET Children(r), SuspendOnDelegate(r, S)
      PROVE  Kept
    BY <1>5 DEF SuspendOnDelegate, MaySuspend, Upserted
<1>6. ASSUME NEW r \in Runs, SweepWaiting(r) PROVE Kept
    BY <1>6 DEF SweepWaiting
<1>7. ASSUME NEW w \in Workers, NEW r \in Runs, ClaimQueued(w, r) PROVE Kept
    BY <1>7 DEF ClaimQueued
<1>8. ASSUME UNCHANGED status PROVE Kept
    BY <1>8
<1> QED
    BY <1>1, <1>2, <1>3, <1>4, <1>5, <1>6, <1>7, <1>8
       DEF Next, RunStep, WorkerStep, ExpireLease, ReserveSpawn, Heartbeat,
           ReleaseLease, ClaimReclaimable, vars

\* RemovedAreSpent for one run.
Spent(r) ==
    /\ status[r] \notin {"waiting", "queued"} => parkedOn[r] = {}
    /\ waitOn[r] \subseteq parkedOn[r]
    /\ \A c \in parkedOn[r] : Created(c)
    /\ status[r] = "waiting" => \A c \in parkedOn[r] \ waitOn[r] :
          /\ IsTerminal(status[c])
          /\ waitMode[r] # "any"
          /\ waitMode[r] = "all-fail-fast" => status[c] = "succeeded"
          /\ waitMode[r] = "any-success" => status[c] # "succeeded"

\* A step that leaves the wait record and the status of r alone keeps r's record
\* in order: the children that were removed stay as they were.
LEMMA SpentKept ==
    ASSUME TypeOK, RemovedAreSpent, [Next]_vars, NEW r \in Runs,
           waitOn'[r] = waitOn[r], waitMode'[r] = waitMode[r], parkedOn'[r] = parkedOn[r],
           status'[r] = status[r]
    PROVE  Spent(r)'
<1>1. \A x \in Runs : /\ IsTerminal(status[x]) => status'[x] = status[x]
                      /\ Created(x) => status'[x] # Absent
    BY TerminalFrozen
<1>2. Spent(r) /\ parkedOn[r] \subseteq Runs
    BY DEF RemovedAreSpent, Spent, TypeOK
<1> QED BY <1>1, <1>2 DEF Spent, Created, IsTerminal

\* A run that remembers no children has nothing to keep in order.
LEMMA SpentCleared ==
    ASSUME NEW r \in Runs, waitOn'[r] = {}, parkedOn'[r] = {}
    PROVE  Spent(r)'
BY DEF Spent

\* Nor has a run that goes back to the queue with children that exist.
LEMMA SpentRequeued ==
    ASSUME TypeOK, RemovedAreSpent, [Next]_vars, NEW r \in Runs,
           status'[r] = "queued", waitOn'[r] = {}, parkedOn'[r] = parkedOn[r]
    PROVE  Spent(r)'
<1>1. \A x \in Runs : Created(x) => status'[x] # Absent
    BY TerminalFrozen
<1>2. \A c \in parkedOn[r] : c \in Runs /\ Created(c)
    BY DEF RemovedAreSpent, TypeOK
<1> QED BY <1>1, <1>2 DEF Spent, Created

\* Every operation keeps the wait records in order.
LEMMA RemovedStep ==
    ASSUME TypeOK, ParkedConsistent, RemovedAreSpent, [Next]_vars
    PROVE  RemovedAreSpent'
<1> USE ParentAssumption
<1> SUFFICES ASSUME NEW r \in Runs PROVE Spent(r)'
    BY DEF RemovedAreSpent, Spent
<1> DEFINE Same == /\ waitOn'[r] = waitOn[r]
                   /\ waitMode'[r] = waitMode[r]
                   /\ parkedOn'[r] = parkedOn[r]
                   /\ status'[r] = status[r]
           Cleared == waitOn'[r] = {} /\ parkedOn'[r] = {}
           Requeued == /\ status'[r] = "queued" /\ waitOn'[r] = {}
                       /\ parkedOn'[r] = parkedOn[r]
<1>a. Same => Spent(r)'
    BY SpentKept
<1>b. Cleared => Spent(r)'
    BY SpentCleared
<1>c. Requeued => Spent(r)'
    BY SpentRequeued
<1>1. ASSUME NEW q \in Runs, Create(q) PROVE Spent(r)'
    <2>1. CASE r # q
        BY <1>1, <2>1, <1>a DEF Create, TypeOK
    <2>2. CASE r = q
        <3>1. waitOn[r] = {} /\ status'[r] = "queued"
            BY <1>1, <2>2 DEF Create, Created, Absent, ParkedConsistent, TypeOK
        <3> QED BY <1>1, <3>1, <1>c DEF Create
    <2> QED BY <2>1, <2>2
<1>2. ASSUME NEW q \in Runs, NEW to \in UpdateTargets, Update(q, to) PROVE Spent(r)'
    BY <1>2, <1>a, <1>b DEF Update, ClearWait, Forget, TypeOK
<1>3. ASSUME NEW c \in Runs, NEW to \in UpdateTargets, CompleteAndWake(c, to)
      PROVE  Spent(r)'
    <2>1. to \in Terminal /\ WakeWaiters(c, to)
        BY <1>3 DEF CompleteAndWake
    <2>2. CASE r = c
        BY <2>1, <2>2, <1>b DEF WakeWaiters, Forget, TypeOK
    <2>5. CASE r # c /\ r \in Woken(c, to)
        BY <2>1, <2>5, <1>c DEF WakeWaiters, Forget, TypeOK
    <2>3. CASE r \notin {c} \cup Woken(c, to) /\ r \notin Waiters(c)
        BY <2>1, <2>3, <1>a DEF WakeWaiters, Forget, TypeOK
    <2>4. CASE r \notin {c} \cup Woken(c, to) /\ r \in Waiters(c)
        <3>1. /\ waitOn'[r] = waitOn[r] \ {c}
              /\ waitMode'[r] = waitMode[r]
              /\ parkedOn'[r] = parkedOn[r]
              /\ status'[r] = "waiting"
              /\ status'[c] = to
            BY <2>1, <2>4 DEF WakeWaiters, Waiters, Forget, TypeOK
        <3>2. ~satisfyChild(waitMode[r], to, waitOn[r] \ {c})
            BY <2>4 DEF Woken
        <3>3. /\ waitMode[r] # "any"
              /\ waitMode[r] = "all-fail-fast" => to = "succeeded"
              /\ waitMode[r] = "any-success" => to # "succeeded"
            BY <3>2 DEF satisfyChild
        <3>4. \A x \in Runs : /\ IsTerminal(status[x]) => status'[x] = status[x]
                              /\ Created(x) => status'[x] # Absent
            BY TerminalFrozen
        <3>5. Spent(r) /\ parkedOn[r] \subseteq Runs
            BY DEF RemovedAreSpent, Spent, TypeOK
        <3> QED
            BY <2>1, <2>4, <3>1, <3>3, <3>4, <3>5 DEF Spent, Created, IsTerminal, Waiters
    <2> QED BY <2>2, <2>3, <2>4, <2>5
<1>4. ASSUME NEW q \in Runs, NEW S \in SUBSET Children(q), NEW mode \in WaitMode,
             Suspend(q, S, mode)
      PROVE  Spent(r)'
    <2>1. CASE r = q
        <3>1. waitOn'[r] = S /\ parkedOn'[r] = S /\ status'[r] = "waiting"
            BY <1>4, <2>1 DEF Suspend, suspendToWaiting, TypeOK
        <3>2. \A c \in S : status'[c] # Absent
            BY <1>4, TerminalFrozen DEF Suspend, Children
        <3> QED BY <3>1, <3>2 DEF Spent, Created
    <2>2. CASE r # q
        BY <1>4, <2>2, <1>a DEF Suspend, suspendToWaiting, TypeOK
    <2> QED BY <2>1, <2>2
<1>5. ASSUME NEW q \in Runs, NEW S \in SUBSET Children(q), SuspendOnDelegate(q, S)
      PROVE  Spent(r)'
    <2> DEFINE st == Upserted(S)
               remaining == {c \in S : ~IsTerminal(st[c])}
    <2>0. st[r] = status[r] \/ (st[r] = "queued" /\ status[r] = Absent)
        BY DEF Upserted
    <2>a. status[r] = Absent => waitOn[r] = {}
        BY DEF ParkedConsistent, Absent
    <2>1. CASE r # q
        <3>1. /\ status'[r] = st[r] /\ waitOn'[r] = waitOn[r]
              /\ waitMode'[r] = waitMode[r] /\ parkedOn'[r] = parkedOn[r]
            BY <1>5, <2>1
               DEF SuspendOnDelegate, suspendToWaiting, ClearWait, Upserted, TypeOK
        <3> QED BY <2>0, <2>a, <3>1, <1>a, <1>c
    <2>2. CASE remaining = {} /\ r = q
        <3>1. /\ status' = [st EXCEPT ![q] = "queued"] /\ ClearWait(q)
              /\ parkedOn' = [parkedOn EXCEPT ![q] = S]
            BY <1>5, <2>2 DEF SuspendOnDelegate
        <3>2. status'[r] = "queued" /\ waitOn'[r] = {} /\ parkedOn'[r] = S
            BY <2>2, <3>1 DEF ClearWait, Upserted, TypeOK
        <3>3. \A c \in S : c \in Runs /\ c # q
            BY DEF Children
        <3>4. \A c \in S : status'[c] # Absent
            BY <3>1, <3>3 DEF Upserted, Absent
        <3> QED BY <3>2, <3>4 DEF Spent, Created
    <2>3. CASE remaining # {} /\ r = q
        <3>1. /\ status' = [st EXCEPT ![q] = "waiting"]
              /\ suspendToWaiting(q, remaining, S, "all")
            BY <1>5, <2>3 DEF SuspendOnDelegate
        <3>2. /\ waitOn'[r] = remaining /\ parkedOn'[r] = S
              /\ waitMode'[r] = "all" /\ status'[r] = "waiting"
            BY <2>3, <3>1 DEF suspendToWaiting, TypeOK, Upserted
        <3>3. \A c \in S : c \in Runs /\ c # q
            BY DEF Children
        <3>4. \A c \in S : status'[c] = st[c] /\ st[c] # Absent
            BY <3>1, <3>3 DEF Upserted, Absent
        <3> QED BY <3>2, <3>4 DEF Spent, Created
    <2> QED BY <2>1, <2>2, <2>3
<1>6. ASSUME NEW q \in Runs, SweepWaiting(q) PROVE Spent(r)'
    BY <1>6, <1>a, <1>c DEF SweepWaiting, ClearWait, TypeOK
<1>7. ASSUME NEW w \in Workers, NEW q \in Runs, ClaimQueued(w, q) PROVE Spent(r)'
    BY <1>7, <1>a, <1>b DEF ClaimQueued, Forget, ParkedConsistent, TypeOK
<1>8. ASSUME UNCHANGED <<status, waitOn, waitMode, parkedOn>> PROVE Spent(r)'
    BY <1>8, <1>a
<1> QED
    BY <1>1, <1>2, <1>3, <1>4, <1>5, <1>6, <1>7, <1>8
       DEF Next, RunStep, WorkerStep, ExpireLease, ReserveSpawn, Heartbeat,
           ReleaseLease, ClaimReclaimable, vars

\* In every behaviour of the store, the children removed from a wait set have
\* ended without meeting the wait.
THEOREM RemovedAlways == Spec => []RemovedAreSpent
<1>1. Init => RemovedAreSpent
    BY DEF Init, RemovedAreSpent
<1>2. TypeOK /\ ParkedConsistent /\ RemovedAreSpent /\ [Next]_vars => RemovedAreSpent'
    BY RemovedStep
<1> QED BY <1>1, <1>2, TypeCorrect, ParkedAlways, PTL DEF Spec

\* A wait whose removed children are spent has the same verdict over what is
\* left as over everything.
LEMMA SameVerdict ==
    ASSUME TypeOK, ParkedConsistent, RemovedAreSpent,
           NEW r \in Runs, status[r] = "waiting"
    PROVE  waitMet(r) <=> waitSatisfied(waitMode[r], parkedOn[r], status)
<1>1. Spent(r) /\ waitMode[r] \in WaitMode
    BY DEF RemovedAreSpent, Spent, TypeOK, ParkedConsistent
<1>2. \A c \in parkedOn[r] \ waitOn[r] : PersistedStatus(status[c]) = status[c]
    BY <1>1 DEF Spent, Created, PersistedStatus
<1> USE DEF waitMet, waitSatisfied, Spent, IsTerminal
<1>3. CASE waitMode[r] = "all"
    BY <1>1, <1>2, <1>3
<1>4. CASE waitMode[r] = "any"
    BY <1>1, <1>2, <1>4
<1>5. CASE waitMode[r] = "all-fail-fast"
    BY <1>1, <1>2, <1>5
<1>6. CASE waitMode[r] = "any-success"
    BY <1>1, <1>2, <1>6
<1> QED BY <1>1, <1>3, <1>4, <1>5, <1>6 DEF WaitMode

\* In every behaviour of the store, the wait that CompleteAndWake and the sweep
\* judge over the remaining children is the wait over all the children the run
\* was parked on.
THEOREM WakesAgree == Spec => []WakeAgreement
<1>1. TypeOK /\ ParkedConsistent /\ RemovedAreSpent => WakeAgreement
    BY SameVerdict DEF WakeAgreement
<1> QED BY <1>1, TypeCorrect, ParkedAlways, RemovedAlways, PTL

-------------------------------------------------------------------------------
(* The store implements RunLifecycle.                                      *)

\* The instance's copies of RunState's definitions are the module's own.
LEMMA SameState ==
    /\ L!Status = Status /\ L!Terminal = Terminal /\ L!Absent = Absent
    /\ L!NoMode = NoMode /\ L!WaitMode = WaitMode
    /\ \A from \in Status : \A to : L!CanTransition(from, to) <=> CanTransition(from, to)
BY DEF L!Status, Status, L!Terminal, Terminal, L!Absent, Absent, L!NoMode, NoMode,
       L!WaitMode, WaitMode, L!CanTransition, CanTransition, L!transitions, transitions

\* So the instance's waitSatisfied gives the module's own verdict.
LEMMA SameWait ==
    ASSUME NEW mode, NEW children, NEW st
    PROVE  L!waitSatisfied(mode, children, st) <=> waitSatisfied(mode, children, st)
BY DEF L!waitSatisfied, waitSatisfied, L!IsTerminal, IsTerminal, L!PersistedStatus,
       PersistedStatus, L!Terminal, Terminal, L!Absent, Absent

\* The child that meets a wait as it ends meets it over all the children: what
\* lets satisfyChild decide by one child and an empty rest.
LEMMA EarlyWakeIsRight ==
    ASSUME TypeOK, ParkedConsistent, RemovedAreSpent,
           NEW c \in Runs, NEW to \in Terminal, NEW p \in Woken(c, to)
    PROVE  waitSatisfied(waitMode[p], parkedOn[p], [status EXCEPT ![c] = to])
<1> DEFINE st == [status EXCEPT ![c] = to]
<1>1. /\ p \in Runs /\ status[p] = "waiting" /\ c \in waitOn[p]
      /\ satisfyChild(waitMode[p], to, waitOn[p] \ {c})
    BY DEF Woken, Waiters
<1>2. Spent(p) /\ waitMode[p] \in WaitMode /\ parkedOn[p] \subseteq Runs
    BY <1>1 DEF RemovedAreSpent, Spent, TypeOK, ParkedConsistent
<1>3. st[c] = to /\ \A x \in Runs \ {c} : st[x] = status[x]
    BY DEF TypeOK
<1>4. c \in parkedOn[p]
    BY <1>1, <1>2 DEF Spent
<1>5. IsTerminal(PersistedStatus(to)) /\ PersistedStatus(to) = to
    BY DEF IsTerminal, PersistedStatus, Terminal, Absent
<1>6. ASSUME waitOn[p] \ {c} = {}
      PROVE  \A x \in parkedOn[p] : IsTerminal(PersistedStatus(st[x]))
    <2> SUFFICES ASSUME NEW x \in parkedOn[p] \ {c}
                 PROVE  IsTerminal(PersistedStatus(st[x]))
        BY <1>3, <1>5
    <2>1. IsTerminal(status[x]) /\ st[x] = status[x]
        BY <1>1, <1>2, <1>3, <1>6 DEF Spent
    <2> QED BY <2>1 DEF IsTerminal, PersistedStatus, Terminal, Absent
<1> SUFFICES waitSatisfied(waitMode[p], parkedOn[p], st)
    OBVIOUS
<1> HIDE DEF st
<1>7. CASE waitMode[p] = "all"
    BY <1>1, <1>6, <1>7 DEF satisfyChild, waitSatisfied
<1>8. CASE waitMode[p] = "any"
    BY <1>3, <1>4, <1>5, <1>8 DEF waitSatisfied
<1>9. CASE waitMode[p] = "all-fail-fast"
    BY <1>1, <1>3, <1>4, <1>5, <1>6, <1>9 DEF satisfyChild, waitSatisfied
<1>10. CASE waitMode[p] = "any-success"
    BY <1>1, <1>3, <1>4, <1>5, <1>6, <1>10 DEF satisfyChild, waitSatisfied
<1> QED BY <1>2, <1>7, <1>8, <1>9, <1>10 DEF WaitMode

\* A step that clears the wait record of a run and forgets its children unparks it.
LEMMA ClearIsUnpark ==
    ASSUME NEW r, ClearWait(r), Forget(r)
    PROVE  L!Unpark(r)
BY SameState DEF ClearWait, Forget, L!Unpark

\* Every operation of the store is a step of RunLifecycle or changes none of
\* its variables.
LEMMA LifecycleStep ==
    ASSUME TypeOK, ParkedConsistent, RemovedAreSpent, [Next]_vars
    PROVE  [L!Next]_L!vars
<1> USE ParentAssumption, SameState
<1> DEFINE Step == [L!Next]_L!vars
<1>1. ASSUME NEW r \in Runs, Create(r) PROVE Step
    <2>1. L!Create(r)
        BY <1>1 DEF Create, Created, L!Create
    <2> QED BY <2>1 DEF L!Next
<1>2. ASSUME NEW r \in Runs, NEW to \in UpdateTargets, Update(r, to) PROVE Step
    <2>1. status[r] \in Status /\ to \in Status /\ to \notin {"waiting", "queued"}
        BY <1>2 DEF Update, Created, TypeOK, UpdateTargets, Status, Terminal
    <2>2. L!Move(r, to)
        BY <1>2, <2>1, ClearIsUnpark DEF Update, L!Move
    <2> QED BY <2>1, <2>2 DEF L!Next
<1>3. ASSUME NEW c \in Runs, NEW to \in UpdateTargets, CompleteAndWake(c, to) PROVE Step
    <2>1. /\ status[c] \in Status /\ to \in Terminal /\ to \in Status
          /\ CanTransition(status[c], to) /\ WakeWaiters(c, to)
        BY <1>3 DEF CompleteAndWake, Created, TypeOK, Status
    <2>2. parkedOn' = [parkedOn EXCEPT ![c] = {}]
        BY <2>1 DEF WakeWaiters, Forget
    <2>3. CASE Woken(c, to) = {}
        <3>1. status' = [status EXCEPT ![c] = to]
            BY <2>1, <2>3 DEF WakeWaiters, TypeOK
        <3>2. waitMode' = [waitMode EXCEPT ![c] = NoMode]
            BY <2>1, <2>3 DEF WakeWaiters, TypeOK
        <3>3. L!Move(c, to)
            BY <2>1, <2>2, <3>1, <3>2 DEF L!Move, L!Unpark, Terminal
        <3> QED BY <2>1, <3>3 DEF L!Next
    <2>4. CASE Woken(c, to) # {}
        <3>1. PICK p : p \in Woken(c, to)
            BY <2>4
        <3>2. /\ p = ParentOf[c] /\ p \in Runs /\ p # c
              /\ status[p] = "waiting" /\ c \in waitOn[p]
            BY <3>1 DEF Woken, Waiters
        <3>3. Woken(c, to) = {p}
            BY <3>1, <3>2 DEF Woken, Waiters
        <3>4. status' = [[status EXCEPT ![c] = to] EXCEPT ![p] = "queued"]
            BY <2>1, <3>2, <3>3 DEF WakeWaiters, TypeOK
        <3>5. c \in parkedOn[p]
            BY <3>2 DEF RemovedAreSpent
        <3>6. L!waitSatisfied(waitMode[p], parkedOn[p], [status EXCEPT ![c] = to])
            BY <2>1, <3>1, EarlyWakeIsRight, SameWait
        <3>7. waitMode' = [waitMode EXCEPT ![c] = NoMode, ![p] = NoMode]
            BY <2>1, <3>2, <3>3 DEF WakeWaiters, TypeOK
        <3>8. L!FinishAndWake(c, to)
            BY <2>1, <2>2, <3>2, <3>4, <3>5, <3>6, <3>7 DEF L!FinishAndWake
        <3> QED BY <2>1, <3>8 DEF L!Next
    <2> QED BY <2>3, <2>4
<1>4. ASSUME NEW r \in Runs, NEW S \in SUBSET Children(r), NEW mode \in WaitMode,
             Suspend(r, S, mode)
      PROVE  Step
    <2>1. S \in SUBSET Runs /\ r \notin S
        BY DEF Children
    <2>2. L!Park(r, S, mode)
        BY <1>4, <2>1 DEF Suspend, suspendToWaiting, MaySuspend, Created, TypeOK, L!Park
    <2> QED BY <2>1, <2>2 DEF L!Next
<1>5. ASSUME NEW r \in Runs, NEW S \in SUBSET Children(r), SuspendOnDelegate(r, S)
      PROVE  Step
    <2> DEFINE st == Upserted(S)
               remaining == {c \in S : ~IsTerminal(st[c])}
    <2>1. S \in SUBSET Runs /\ r \notin S
        BY DEF Children
    <2>2. CASE remaining # {}
        <3>1. /\ status' = [st EXCEPT ![r] = "waiting"]
              /\ suspendToWaiting(r, remaining, S, "all")
            BY <1>5, <2>2 DEF SuspendOnDelegate
        <3>2. L!Park(r, S, "all")
            BY <1>5, <2>1, <3>1
               DEF SuspendOnDelegate, suspendToWaiting, MaySuspend, Upserted, L!Park
        <3> QED BY <2>1, <3>2 DEF L!Next, WaitMode
    <2>3. CASE remaining = {}
        <3>1. /\ status' = [st EXCEPT ![r] = "queued"] /\ ClearWait(r)
              /\ parkedOn' = [parkedOn EXCEPT ![r] = S]
            BY <1>5, <2>3 DEF SuspendOnDelegate
        <3>2. \A c \in S : status[c] \in Terminal /\ st[c] = status[c]
            BY <2>1, <2>3 DEF Upserted, IsTerminal, Terminal
        <3>3. st = status
            BY <2>1, <3>2 DEF Upserted, TypeOK, Terminal, Absent
        <3>4. L!ParkMet(r, S)
            BY <1>5, <3>1, <3>2, <3>3
               DEF SuspendOnDelegate, MaySuspend, ClearWait, L!ParkMet
        <3> QED BY <2>1, <3>4 DEF L!Next
    <2> QED BY <2>2, <2>3
<1>6. ASSUME NEW r \in Runs, SweepWaiting(r) PROVE Step
    <2>1. L!waitSatisfied(waitMode[r], parkedOn[r], status)
        BY <1>6, SameVerdict, SameWait DEF SweepWaiting
    <2>2. L!Wake(r)
        BY <1>6, <2>1 DEF SweepWaiting, ClearWait, L!Wake
    <2> QED BY <2>2 DEF L!Next
<1>7. ASSUME NEW w \in Workers, NEW r \in Runs, ClaimQueued(w, r) PROVE Step
    <2>1. status[r] \in Status /\ CanTransition(status[r], "running") /\ "running" \in Status
        BY <1>7 DEF ClaimQueued, CanTransition, transitions, Status
    <2>2. waitMode[r] = NoMode
        BY <1>7 DEF ClaimQueued, ParkedConsistent
    <2>3. L!Unpark(r)
        BY <1>7, <2>2 DEF ClaimQueued, Forget, L!Unpark, TypeOK
    <2>4. L!Move(r, "running")
        BY <1>7, <2>1, <2>3 DEF ClaimQueued, L!Move
    <2> QED BY <2>1, <2>4 DEF L!Next
<1>8. ASSUME UNCHANGED <<status, waitMode, parkedOn>> PROVE Step
    BY <1>8 DEF L!vars
<1> QED
    BY <1>1, <1>2, <1>3, <1>4, <1>5, <1>6, <1>7, <1>8
       DEF Next, RunStep, WorkerStep, ExpireLease, ReserveSpawn, Heartbeat,
           ReleaseLease, ClaimReclaimable, vars

\* Every behaviour of the store is one of RunLifecycle: runs follow the table of
\* transitions, and a parked run is re-queued only when the wait over all the
\* children it was parked on is satisfied.
THEOREM StoreImplementsLifecycle == Spec => Lifecycle
<1>1. Init => L!Init
    BY SameState DEF Init, L!Init
<1>2. TypeOK /\ ParkedConsistent /\ RemovedAreSpent /\ [Next]_vars => [L!Next]_L!vars
    BY LifecycleStep
<1> QED
    BY <1>1, <1>2, TypeCorrect, ParkedAlways, RemovedAlways, PTL DEF Spec, Lifecycle, L!Spec
===============================================================================
