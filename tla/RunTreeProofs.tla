----------------------------- MODULE RunTreeProofs -----------------------------
(***************************************************************************)
(* Proofs about trees of runs: the spawn budget of a tree is never         *)
(* overrun, for trees of any shape; and, in a tree of one level, a cancel  *)
(* leaves no child behind.                                                 *)
(***************************************************************************)
EXTENDS RunWorkersProofs

-------------------------------------------------------------------------------
(* The spawn budget.                                                       *)

\* The runs below a root, as the code finds them: by their RootRunID.
Spawned(root) == {c \in Runs : RootOf[c] = root /\ ParentOf[c] # NoRun}

\* What the reservations of a tree were spent on: children that are there, ...
Made(root) == {c \in Spawned(root) : Created(c)}

\* ... spawn requests that have reserved and not created yet, ...
Asked(root) == {c \in Runs : RootOf[c] = root /\ spawning[c] = "reserved"}

\* ... and delegates that a suspending execution has paid for, one slot for
\* each, before it creates them.
Delegates(e) == exec[e].pc \in {"reserve", "suspend"}

Slots == Execs \X (1..Cardinality(Runs))

Paid(root) ==
    {s \in Slots : /\ Delegates(s[1]) /\ RootOf[exec[s[1]].run] = root
                   /\ s[2] <= Cardinality(exec[s[1]].kids) - exec[s[1]].left}

\* All three are covered by what the store has counted.
Covered(root) ==
    Cardinality(Made(root)) + Cardinality(Asked(root)) + Cardinality(Paid(root)) <= spawns[root]

SpawnsCovered == \A root \in Runs : ParentOf[root] = NoRun => Covered(root)

\* The runs below a root all carry its id as their RootRunID.
LEMMA BelowIsSpawned ==
    ASSUME NEW root \in Runs, ParentOf[root] = NoRun PROVE Below(root) \subseteq Spawned(root)
<1> USE ParentAssumption, RootAssumption
<1>1. Spawned(root) \in SUBSET Runs
    BY DEF Spawned
<1>2. Children(root) \subseteq Spawned(root)
    BY DEF Spawned, Children
<1>3. \A y \in Spawned(root) : Children(y) \subseteq Spawned(root)
    BY DEF Spawned, Children
<1> QED BY <1>1, <1>2, <1>3 DEF Below

\* A part of a finite set is no larger, ...
LEMMA Smaller ==
    ASSUME NEW S, IsFiniteSet(S), NEW T \in SUBSET S
    PROVE  IsFiniteSet(T) /\ Cardinality(T) \in Nat /\ Cardinality(S) \in Nat
           /\ Cardinality(T) <= Cardinality(S)
BY FS_Subset, FS_CardinalityType

\* ... and one element more is at most one more.
LEMMA OneMore ==
    ASSUME NEW S, IsFiniteSet(S), NEW x, NEW T \in SUBSET (S \cup {x})
    PROVE  IsFiniteSet(T) /\ Cardinality(T) \in Nat /\ Cardinality(S) \in Nat
           /\ Cardinality(T) <= Cardinality(S) + 1
<1>1. IsFiniteSet(S \cup {x}) /\ Cardinality(S \cup {x}) <= Cardinality(S) + 1
      /\ Cardinality(S) \in Nat
    BY FS_AddElement, FS_CardinalityType
<1>2. IsFiniteSet(T) /\ Cardinality(T) <= Cardinality(S \cup {x})
    BY <1>1, FS_Subset
<1> QED BY <1>1, <1>2, FS_CardinalityType

\* Everything counted is finite.
LEMMA FiniteCounts ==
    ASSUME NEW root
    PROVE  /\ IsFiniteSet(Made(root)) /\ IsFiniteSet(Asked(root)) /\ IsFiniteSet(Paid(root))
           /\ IsFiniteSet(Made(root)') /\ IsFiniteSet(Asked(root)') /\ IsFiniteSet(Paid(root)')
<1>1. IsFiniteSet(Runs) /\ Cardinality(Runs) \in Nat
    BY ExecutorAssumption, FS_CardinalityType
<1>2. IsFiniteSet(Execs)
    BY ExecutorAssumption, FS_Union DEF Execs
<1>3. IsFiniteSet(1..Cardinality(Runs))
    BY <1>1, FS_Interval
<1>4. IsFiniteSet(Slots)
    BY <1>2, <1>3, FS_Product DEF Slots
<1>5. /\ Made(root) \in SUBSET Runs /\ Asked(root) \in SUBSET Runs
      /\ Paid(root) \in SUBSET Slots
    BY DEF Made, Spawned, Asked, Paid
<1>6. /\ Made(root)' \in SUBSET Runs /\ Asked(root)' \in SUBSET Runs
      /\ Paid(root)' \in SUBSET Slots
    BY DEF Made, Spawned, Asked, Paid
<1> QED BY <1>1, <1>4, <1>5, <1>6, FS_Subset

\* A step that spends nothing keeps the account.
LEMMA CoveredKept ==
    ASSUME TypeOK, TypeOK', NEW root \in Runs, Covered(root), spawns'[root] >= spawns[root],
           Made(root)' \subseteq Made(root), Asked(root)' \subseteq Asked(root),
           Paid(root)' \subseteq Paid(root)
    PROVE  Covered(root)'
<1> DEFINE m == Made(root)  a == Asked(root)  p == Paid(root)
           mm == Made(root)'  aa == Asked(root)'  pp == Paid(root)'
<1>1. IsFiniteSet(m) /\ IsFiniteSet(a) /\ IsFiniteSet(p)
    BY FiniteCounts
<1>2. mm \in SUBSET m /\ aa \in SUBSET a /\ pp \in SUBSET p
    OBVIOUS
<1>3. Cardinality(m) + Cardinality(a) + Cardinality(p) <= spawns[root]
    BY DEF Covered
<1>4. spawns[root] \in Nat /\ spawns'[root] \in Nat
    BY BoundAssumption DEF TypeOK
<1> HIDE DEF m, a, p, mm, aa, pp
<1>5. Cardinality(mm) + Cardinality(aa) + Cardinality(pp) <= spawns'[root]
    <2>1. Cardinality(mm) \in Nat /\ Cardinality(m) \in Nat /\ Cardinality(mm) <= Cardinality(m)
        BY <1>1, <1>2, Smaller
    <2>2. Cardinality(aa) \in Nat /\ Cardinality(a) \in Nat /\ Cardinality(aa) <= Cardinality(a)
        BY <1>1, <1>2, Smaller
    <2>3. Cardinality(pp) \in Nat /\ Cardinality(p) \in Nat /\ Cardinality(pp) <= Cardinality(p)
        BY <1>1, <1>2, Smaller
    <2> QED BY <1>3, <1>4, <2>1, <2>2, <2>3
<1> QED BY <1>5 DEF Covered, mm, aa, pp

\* The slots, by executor and number.
LEMMA PaidSlots ==
    ASSUME NEW root
    PROVE  /\ Paid(root) \subseteq Slots /\ Paid(root)' \subseteq Slots
           /\ \A s \in Slots : \E f \in Execs, i \in 1..Cardinality(Runs) : s = <<f, i>>
           /\ \A f \in Execs, i \in 1..Cardinality(Runs) :
                <<f, i>> \in Paid(root) <=>
                    /\ Delegates(f) /\ RootOf[exec[f].run] = root
                    /\ i <= Cardinality(exec[f].kids) - exec[f].left
           /\ \A f \in Execs, i \in 1..Cardinality(Runs) :
                <<f, i>> \in Paid(root)' <=>
                    /\ Delegates(f)' /\ RootOf[exec'[f].run] = root
                    /\ i <= Cardinality(exec'[f].kids) - exec'[f].left
BY DEF Paid, Slots

\* A delegation goes on as it was, or begins with nothing paid.
Steady(f) ==
    Delegates(f)' => \/ /\ Delegates(f)
                        /\ exec'[f].run = exec[f].run /\ exec'[f].kids = exec[f].kids
                        /\ exec'[f].left = exec[f].left
                     \/ exec'[f].left = Cardinality(exec'[f].kids)

\* The number of a delegation's children, and how many are paid for.
LEMMA KidsCount ==
    ASSUME NEW f \in Execs
    PROVE  /\ ExecOK => /\ Cardinality(exec[f].kids) \in Nat
                        /\ Cardinality(exec[f].kids) <= Cardinality(Runs)
                        /\ exec[f].left \in Nat /\ IsFiniteSet(exec[f].kids)
           /\ ExecOK' => /\ Cardinality(exec'[f].kids) \in Nat
                         /\ Cardinality(exec'[f].kids) <= Cardinality(Runs)
                         /\ exec'[f].left \in Nat /\ IsFiniteSet(exec'[f].kids)
<1>1. IsFiniteSet(Runs) /\ Cardinality(Runs) \in Nat
    BY ExecutorAssumption, FS_CardinalityType
<1>2. \A S \in SUBSET Runs : /\ Cardinality(S) \in Nat /\ IsFiniteSet(S)
                             /\ Cardinality(S) <= Cardinality(Runs)
    BY <1>1, Smaller
<1>3. ExecOK => exec[f].kids \in SUBSET Runs /\ exec[f].left \in 0..Cardinality(Runs)
    BY DEF ExecOK, ExecRecord
<1>4. ExecOK' => exec'[f].kids \in SUBSET Runs /\ exec'[f].left \in 0..Cardinality(Runs)
    BY DEF ExecOK, ExecRecord
<1> QED BY <1>1, <1>2, <1>3, <1>4

\* Steady executors pay for nothing.
LEMMA SteadyPays ==
    ASSUME ExecOK, ExecOK', NEW root, NEW f \in Execs, Steady(f),
           NEW i \in 1..Cardinality(Runs), <<f, i>> \in Paid(root)'
    PROVE  <<f, i>> \in Paid(root)
<1>1. Delegates(f)' /\ RootOf[exec'[f].run] = root /\ i <= Cardinality(exec'[f].kids) - exec'[f].left
    BY PaidSlots
<1>2. Cardinality(exec'[f].kids) \in Nat
    BY KidsCount
<1>3. exec'[f].left # Cardinality(exec'[f].kids)
    BY <1>1, <1>2
<1> QED BY <1>1, <1>3, PaidSlots DEF Steady

\* A step after which no child, no request and no delegate is new keeps the
\* account of every tree.
LEMMA QuietStep ==
    ASSUME TypeOK, TypeOK', ExecOK, ExecOK', SpawnsCovered, UNCHANGED spawns,
           \A c \in Runs : Created(c)' => Created(c) \/ ParentOf[c] = NoRun,
           \A c \in Runs : spawning'[c] = "reserved" => spawning[c] = "reserved",
           \A f \in Execs : Steady(f)
    PROVE  SpawnsCovered'
<1> SUFFICES ASSUME NEW root \in Runs, ParentOf[root] = NoRun PROVE Covered(root)'
    BY DEF SpawnsCovered
<1>1. Made(root)' \subseteq Made(root) /\ Asked(root)' \subseteq Asked(root)
    BY DEF Made, Asked, Spawned
<1>2. Paid(root)' \subseteq Paid(root)
    BY SteadyPays, PaidSlots
<1>3. Covered(root) /\ spawns'[root] >= spawns[root]
    BY BoundAssumption DEF SpawnsCovered, TypeOK
<1> QED BY <1>1, <1>2, <1>3, CoveredKept

\* Which operations of the store insert no row.
LEMMA NothingMade ==
    ASSUME TypeOK, NEW x \in Runs,
           \/ \E to : Update(x, to) \/ CompleteAndWake(x, to)
           \/ SweepWaiting(x) \/ ExpireLease(x)
           \/ \E v \in Workers : WorkerStep(v, x)
           \/ UNCHANGED vars
    PROVE  UNCHANGED spawns /\ \A c \in Runs : Created(c)' => Created(c)
<1> USE DEF TypeOK, Created
<1>1. ASSUME NEW to, Update(x, to) PROVE UNCHANGED spawns /\ \A c \in Runs : Created(c)' => Created(c)
    BY <1>1 DEF Update
<1>2. ASSUME NEW to, CompleteAndWake(x, to)
      PROVE  UNCHANGED spawns /\ \A c \in Runs : Created(c)' => Created(c)
    <2>1. \A c \in Runs : c \in {x} \cup Woken(x, to) => status[c] # Absent
        BY <1>2 DEF CompleteAndWake, Woken, Waiters, Absent
    <2> QED BY <1>2, <2>1 DEF CompleteAndWake, WakeWaiters
<1>3. CASE SweepWaiting(x) \/ ExpireLease(x)
    BY <1>3 DEF SweepWaiting, ExpireLease, Absent
<1>4. ASSUME NEW v \in Workers, WorkerStep(v, x)
      PROVE  UNCHANGED spawns /\ \A c \in Runs : Created(c)' => Created(c)
    BY <1>4 DEF WorkerStep, ClaimQueued, Heartbeat, ReleaseLease, ClaimReclaimable, Absent
<1>5. CASE UNCHANGED vars
    BY <1>5 DEF vars
<1> QED BY <1>1, <1>2, <1>3, <1>4, <1>5

\* One reservation of the delegation's loop pays for one slot.
LEMMA ReservePays ==
    ASSUME TypeOK, TypeOK', ExecOK, ExecOK', SpawnsCovered, NEW e \in Execs,
           Delegates(e), exec[e].run \in Runs,
           ReserveSpawn(RootOf[exec[e].run]), Reserved(e), UNCHANGED spawning
    PROVE  SpawnsCovered'
<1> DEFINE top == RootOf[exec[e].run]
           slot == <<e, Cardinality(exec[e].kids) - exec[e].left + 1>>
<1>0. top \in Runs /\ spawns[top] \in Nat /\ spawns' = [spawns EXCEPT ![top] = @ + 1]
    BY RootAssumption, BoundAssumption DEF ReserveSpawn, TypeOK
<1>1. /\ exec'[e].run = exec[e].run /\ exec'[e].kids = exec[e].kids
      /\ exec'[e].left = exec[e].left - 1
      /\ \A f \in Execs \ {e} : exec'[f] = exec[f]
    <2>1. exec'[e] = [exec[e] EXCEPT !.left = @ - 1,
                         !.pc = IF exec[e].left = 1 THEN "suspend" ELSE "reserve"]
        BY DEF ExecOK, Reserved
    <2>2. exec[e] \in ExecRecord
        BY DEF ExecOK
    <2>3. /\ exec'[e].run = exec[e].run /\ exec'[e].kids = exec[e].kids
          /\ exec'[e].left = exec[e].left - 1
        BY <2>1, <2>2 DEF ExecRecord
    <2> QED BY <2>3 DEF ExecOK, Reserved
<1>2. ASSUME NEW root \in Runs
      PROVE  Made(root)' = Made(root) /\ Asked(root)' = Asked(root)
    BY DEF Made, Asked, Created, ReserveSpawn
<1>3. ASSUME NEW root \in Runs, NEW s \in Paid(root)', s \notin Paid(root)
      PROVE  root = top /\ s = slot
    <2>1. PICK f \in Execs, i \in 1..Cardinality(Runs) : s = <<f, i>>
        BY PaidSlots
    <2>2. f = e
        <3> SUFFICES ASSUME f # e PROVE Steady(f)
            BY <1>3, <2>1, SteadyPays
        <3> QED BY <1>1 DEF Steady, Delegates
    <2>3. root = top /\ i <= Cardinality(exec[e].kids) - (exec[e].left - 1)
        BY <1>1, <1>3, <2>1, <2>2, PaidSlots
    <2>4. ~(i <= Cardinality(exec[e].kids) - exec[e].left)
        BY <1>3, <2>1, <2>2, <2>3, PaidSlots
    <2>5. i = Cardinality(exec[e].kids) - exec[e].left + 1
        BY <2>3, <2>4, KidsCount
    <2> QED BY <2>1, <2>2, <2>3, <2>5
<1> HIDE DEF slot
<1> SUFFICES ASSUME NEW root \in Runs, ParentOf[root] = NoRun PROVE Covered(root)'
    BY DEF SpawnsCovered
<1>4. Covered(root)
    BY DEF SpawnsCovered
<1>5. CASE root # top
    <2>1. spawns'[root] >= spawns[root]
        BY <1>0, <1>5, BoundAssumption DEF TypeOK
    <2> QED BY <1>2, <1>3, <1>4, <1>5, <2>1, CoveredKept
<1>6. CASE root = top
    <2>1. Paid(root)' \in SUBSET (Paid(root) \cup {slot})
        BY <1>3
    <2>2. Cardinality(Paid(root)') \in Nat /\ Cardinality(Paid(root)) \in Nat
          /\ Cardinality(Paid(root)') <= Cardinality(Paid(root)) + 1
        BY <2>1, FiniteCounts, OneMore
    <2>3. Cardinality(Made(root)) \in Nat /\ Cardinality(Asked(root)) \in Nat
        BY FiniteCounts, FS_CardinalityType
    <2>4. spawns'[root] = spawns[root] + 1 /\ spawns[root] \in Nat
        BY <1>0, <1>6 DEF TypeOK
    <2> QED BY <1>2, <1>4, <2>2, <2>3, <2>4 DEF Covered
<1> QED BY <1>5, <1>6

\* A row of n slots.
LEMMA RowCount ==
    ASSUME NEW e, NEW n \in Nat
    PROVE  IsFiniteSet({e} \X (1..n)) /\ Cardinality({e} \X (1..n)) = n
<1> DEFINE S == {e}  T == 1..n
<1>1. IsFiniteSet(T) /\ Cardinality(T) = n
    BY FS_Interval
<1>2. IsFiniteSet(S) /\ Cardinality(S) = 1
    BY FS_Singleton
<1> HIDE DEF S, T
<1>3. IsFiniteSet(S \X T) /\ Cardinality(S \X T) = Cardinality(S) * Cardinality(T)
    BY <1>1, <1>2, FS_Product
<1>4. Cardinality(S \X T) = n
    BY <1>1, <1>2, <1>3
<1> QED BY <1>3, <1>4 DEF S, T

\* The suspension creates at most the delegates that were paid for.
LEMMA SuspendSpends ==
    ASSUME TypeOK, TypeOK', ExecOK, ExecOK', SpawnsCovered, NEW e \in Execs,
           exec[e].pc = "suspend", exec[e].run \in Runs,
           SuspendOnDelegate(exec[e].run, exec[e].kids), Return(e), UNCHANGED spawning
    PROVE  SpawnsCovered'
<1> DEFINE r == exec[e].run
           kids == exec[e].kids
           n == Cardinality(exec[e].kids)
           slots == {e} \X (1..n)
<1>1. kids \subseteq Children(r) /\ exec[e].left = 0 /\ IsFiniteSet(kids)
      /\ n \in Nat /\ n <= Cardinality(Runs) /\ Cardinality(Runs) \in Nat
    <2>1. RecordOK(exec[e]) /\ exec[e].left = 0
        BY DEF ExecOK, RecordOK
    <2> QED BY <2>1, KidsCount, ExecutorAssumption, FS_CardinalityType DEF RecordOK
<1>2. /\ ~Delegates(e)'
      /\ \A f \in Execs \ {e} : exec'[f] = exec[f]
    BY DEF Return, ExecOK, ExecRecord, Delegates, Idle
<1>3. ASSUME NEW root
      PROVE  Paid(root)' \subseteq Paid(root) /\ Paid(root)' \cap slots = {}
    <2>1. \A f \in Execs : Steady(f)
        BY <1>2 DEF Steady, Delegates
    <2>2. Paid(root)' \subseteq Paid(root)
        BY <2>1, PaidSlots, SteadyPays
    <2>3. ASSUME NEW s \in Paid(root)' PROVE s[1] # e
        <3>1. PICK f \in Execs, i \in 1..Cardinality(Runs) : s = <<f, i>>
            BY PaidSlots
        <3>2. f # e
            BY <1>2, <2>3, <3>1, PaidSlots
        <3> QED BY <3>1, <3>2
    <2> QED BY <2>2, <2>3
<1>4. UNCHANGED spawns /\ \A c \in Runs : Created(c)' => Created(c) \/ c \in kids
    <2>1. Upserted(kids) \in [Runs -> Status \cup {Absent}]
        BY DEF Upserted, Status, TypeOK
    <2>2. \A c \in Runs \ {r} : status'[c] = Upserted(kids)[c]
        BY <2>1 DEF SuspendOnDelegate
    <2>3. Created(r)
        BY DEF SuspendOnDelegate, MaySuspend, Created, Absent
    <2>4. UNCHANGED spawns
        BY DEF SuspendOnDelegate
    <2> QED BY <2>2, <2>3, <2>4 DEF Created, Upserted
<1>5. slots \subseteq Paid(RootOf[r]) /\ IsFiniteSet(slots) /\ Cardinality(slots) = n
    <2>1. \A i \in 1..n : i \in 1..Cardinality(Runs) /\ i <= n - exec[e].left
        BY <1>1
    <2>2. \A i \in 1..n : <<e, i>> \in Paid(RootOf[r])
        BY <2>1, PaidSlots DEF Delegates
    <2>3. \A s \in slots : \E i \in 1..n : s = <<e, i>>
        OBVIOUS
    <2>4. slots \subseteq Paid(RootOf[r])
        BY <2>2, <2>3
    <2>5. IsFiniteSet(slots) /\ Cardinality(slots) = n
        BY <1>1, RowCount
    <2> QED BY <2>4, <2>5
<1> HIDE DEF slots
<1> SUFFICES ASSUME NEW root \in Runs, ParentOf[root] = NoRun PROVE Covered(root)'
    BY DEF SpawnsCovered
<1>6. Covered(root) /\ spawns'[root] = spawns[root] /\ spawns[root] \in Nat
    BY <1>4, BoundAssumption DEF SpawnsCovered, TypeOK
<1>7. Asked(root)' = Asked(root)
    BY DEF Asked
<1>8. CASE root # RootOf[r]
    <2>1. \A c \in kids : RootOf[c] # root
        BY <1>1, <1>8, ParentAssumption, RootAssumption DEF Children
    <2>2. Made(root)' \subseteq Made(root)
        BY <1>4, <2>1 DEF Made, Spawned
    <2> QED BY <1>3, <1>6, <1>7, <2>2, CoveredKept
<1>9. CASE root = RootOf[r]
    <2> DEFINE m == Made(root)  p == Paid(root)  mm == Made(root)'  pp == Paid(root)'
    <2>1. IsFiniteSet(m) /\ IsFiniteSet(p) /\ IsFiniteSet(mm) /\ IsFiniteSet(pp)
        BY FiniteCounts
    <2>2. mm \subseteq m \cup kids
        BY <1>4 DEF Made, Spawned
    <2>3. pp \subseteq p /\ slots \subseteq p /\ pp \cap slots = {}
        BY <1>3, <1>5, <1>9
    <2> HIDE DEF m, p, mm, pp
    <2>4. Cardinality(mm) <= Cardinality(m) + n /\ Cardinality(mm) \in Nat
          /\ Cardinality(m) \in Nat
        <3>1. IsFiniteSet(m \cup kids)
              /\ Cardinality(m \cup kids) = Cardinality(m) + n - Cardinality(m \cap kids)
            BY <1>1, <2>1, FS_Union
        <3>2. Cardinality(m \cap kids) \in Nat
            BY <1>1, FS_Intersection, FS_CardinalityType
        <3>3. Cardinality(mm) <= Cardinality(m \cup kids)
            BY <2>2, <3>1, FS_Subset
        <3>4. Cardinality(mm) \in Nat /\ Cardinality(m) \in Nat /\ Cardinality(m \cup kids) \in Nat
            BY <2>1, <3>1, FS_CardinalityType
        <3> QED BY <1>1, <3>1, <3>2, <3>3, <3>4
    <2>5. Cardinality(pp) + n <= Cardinality(p) /\ Cardinality(pp) \in Nat
          /\ Cardinality(p) \in Nat
        <3>1. IsFiniteSet(pp \cup slots)
              /\ Cardinality(pp \cup slots) = Cardinality(pp) + n - Cardinality(pp \cap slots)
            BY <1>5, <2>1, FS_Union
        <3>2. Cardinality(pp \cap slots) = 0
            BY <2>3, FS_EmptySet
        <3>3. Cardinality(pp \cup slots) <= Cardinality(p)
            BY <2>1, <2>3, FS_Subset
        <3>4. Cardinality(pp) \in Nat /\ Cardinality(p) \in Nat
            BY <2>1, FS_CardinalityType
        <3> QED BY <1>1, <3>1, <3>2, <3>3, <3>4
    <2>6. Cardinality(Asked(root)) \in Nat
        BY FiniteCounts, FS_CardinalityType
    <2> QED BY <1>1, <1>6, <1>7, <2>4, <2>5, <2>6 DEF Covered, m, p, mm, pp
<1> QED BY <1>8, <1>9

\* A spawn request's reservation covers the request, and its insert spends it.
LEMMA SpawnRequests ==
    ASSUME TypeOK, TypeOK', ExecOK, ExecOK', SpawnsCovered, NEW c \in Runs,
           spawning \in [Runs -> {"none", "checked", "reserved"}],
           spawnReserves(c) \/ spawnCreates(c)
    PROVE  SpawnsCovered'
<1> USE DEF svars, ToSpawn
<1>0. UNCHANGED exec
    BY DEF spawnReserves, spawnCreates
<1>1. \A f \in Execs : Steady(f)
    BY <1>0 DEF Steady, Delegates
<1>2. ASSUME NEW root PROVE Paid(root)' = Paid(root)
    BY <1>0 DEF Paid, Delegates
<1>3. CASE UNCHANGED vars /\ spawning' = [spawning EXCEPT ![c] = "none"]
    BY <1>1, <1>3, QuietStep DEF vars, Created
<1>4. CASE ReserveSpawn(RootOf[c]) /\ spawning' = [spawning EXCEPT ![c] = "reserved"]
    <2> DEFINE top == RootOf[c]
    <2>0. top \in Runs /\ spawns[top] \in Nat /\ spawns' = [spawns EXCEPT ![top] = @ + 1]
        BY <1>4, RootAssumption, BoundAssumption DEF ReserveSpawn, TypeOK
    <2> SUFFICES ASSUME NEW root \in Runs, ParentOf[root] = NoRun PROVE Covered(root)'
        BY DEF SpawnsCovered
    <2>1. Made(root)' = Made(root)
        BY <1>4 DEF Made, Created, ReserveSpawn
    <2>2. Covered(root)
        BY DEF SpawnsCovered
    <2>3. CASE root # top
        <3>1. spawns'[root] >= spawns[root] /\ Asked(root)' \subseteq Asked(root)
            BY <1>4, <2>0, <2>3, BoundAssumption DEF TypeOK, Asked
        <3> QED BY <1>2, <2>1, <2>2, <3>1, CoveredKept
    <2>4. CASE root = top
        <3>1. Asked(root)' \in SUBSET (Asked(root) \cup {c})
            BY <1>4 DEF Asked
        <3>2. Cardinality(Asked(root)') \in Nat /\ Cardinality(Asked(root)) \in Nat
              /\ Cardinality(Asked(root)') <= Cardinality(Asked(root)) + 1
            BY <3>1, FiniteCounts, OneMore
        <3>3. Cardinality(Made(root)) \in Nat /\ Cardinality(Paid(root)) \in Nat
            BY FiniteCounts, FS_CardinalityType
        <3>4. spawns'[root] = spawns[root] + 1 /\ spawns[root] \in Nat
            BY <2>0, <2>4 DEF TypeOK
        <3> QED BY <1>2, <2>1, <2>2, <3>2, <3>3, <3>4 DEF Covered
    <2> QED BY <2>3, <2>4
<1>5. CASE spawning[c] = "reserved" /\ Create(c) /\ spawning' = [spawning EXCEPT ![c] = "none"]
    <2> SUFFICES ASSUME NEW root \in Runs, ParentOf[root] = NoRun PROVE Covered(root)'
        BY DEF SpawnsCovered
    <2>1. Covered(root) /\ spawns'[root] = spawns[root] /\ spawns[root] \in Nat
        BY <1>5, BoundAssumption DEF SpawnsCovered, Create, TypeOK
    <2>2. \A x \in Runs \ {c} : Created(x)' <=> Created(x)
        BY <1>5 DEF Create, Created, TypeOK
    <2>3. CASE RootOf[c] # root
        <3>1. Made(root)' \subseteq Made(root) /\ Asked(root)' \subseteq Asked(root)
            BY <1>5, <2>2, <2>3 DEF Made, Spawned, Asked
        <3> QED BY <1>2, <2>1, <3>1, CoveredKept
    <2>4. CASE RootOf[c] = root
        <3>1. Made(root)' \in SUBSET (Made(root) \cup {c})
            BY <2>2 DEF Made, Spawned
        <3>2. Cardinality(Made(root)') \in Nat /\ Cardinality(Made(root)) \in Nat
              /\ Cardinality(Made(root)') <= Cardinality(Made(root)) + 1
            BY <3>1, FiniteCounts, OneMore
        <3>3. c \in Asked(root) /\ Asked(root)' = Asked(root) \ {c}
            BY <1>5, <2>4 DEF Asked
        <3>4. Cardinality(Asked(root)') = Cardinality(Asked(root)) - 1
            BY <3>3, FiniteCounts, FS_RemoveElement
        <3>5. Cardinality(Asked(root)) \in Nat /\ Cardinality(Paid(root)) \in Nat
            BY FiniteCounts, FS_CardinalityType
        <3> QED BY <1>2, <2>1, <3>2, <3>4, <3>5 DEF Covered
    <2> QED BY <2>3, <2>4
<1> QED BY <1>3, <1>4, <1>5 DEF spawnReserves, spawnCreates

\* The steps of executeRun.
LEMMA ExecuteCovers ==
    ASSUME WTypeOK, Delegating, SpawnsCovered, TypeOK', ExecOK', NEW e \in Execs, ExecuteStep(e)
    PROVE  SpawnsCovered'
<1> USE DEF At, svars
<1>0. TypeOK /\ ExecOK /\ exec[e] \in ExecRecord /\ exec \in [Execs -> ExecRecord]
    BY ExecOKForm DEF WTypeOK, ExecOK
<1>1. exec[e].run \in Runs /\ UNCHANGED spawning /\ \A f \in Execs \ {e} : exec'[f] = exec[f]
    <2>1. InRun(e)
        BY ExecuteShape
    <2>2. exec[e].run \in Runs
        BY <2>1 DEF InRun, WTypeOK
    <2>3. UNCHANGED spawning
        BY DEF ExecuteStep, Open, InvokeAnswer, InvokeAborted, InvokePause, InvokeDelegate,
               WriteTerminal, WritePause, Reserve, WriteSuspend
    <2> QED BY <2>2, <2>3, ExecuteShape
<1>2. ASSUME ~Delegates(e)', UNCHANGED spawns, \A c \in Runs : Created(c)' => Created(c)
      PROVE  SpawnsCovered'
    <2>1. \A f \in Execs : Steady(f)
        BY <1>1, <1>2 DEF Steady, Delegates
    <2> QED BY <1>0, <1>1, <1>2, <2>1, QuietStep
<1>3. UNCHANGED vars => UNCHANGED spawns /\ \A c \in Runs : Created(c)' => Created(c)
    BY DEF vars, Created
<1>4. Return(e) => ~Delegates(e)'
    BY <1>0 DEF Return, Delegates, Idle, ExecRecord
<1>5. ASSUME NEW pc \in {"invoking", "pause"}, Goto(e, pc) PROVE ~Delegates(e)'
    BY <1>0, <1>5 DEF Goto, Delegates, ExecRecord
<1>6. FailDelegation(e) => ~Delegates(e)'
    <2> SUFFICES ASSUME FailDelegation(e) PROVE ~Delegates(e)'
        OBVIOUS
    <2>1. exec'[e] = [exec[e] EXCEPT !.pc = "finish", !.out = "failed", !.left = 0]
        BY <1>0 DEF FailDelegation
    <2>2. exec'[e].pc = "finish"
        BY <1>0, <2>1 DEF ExecRecord
    <2> QED BY <2>2 DEF Delegates
<1>7. CASE Open(e)
    <2>1. Update(exec[e].run, "running") \/ UNCHANGED vars
        BY <1>7 DEF Open
    <2>2. UNCHANGED spawns /\ \A c \in Runs : Created(c)' => Created(c)
        BY <1>0, <1>1, <2>1, NothingMade
    <2>3. ~Delegates(e)'
        BY <1>4, <1>5, <1>7 DEF Open
    <2> QED BY <1>2, <2>2, <2>3
<1>8. ASSUME NEW out, InvokeAnswer(e, out) PROVE SpawnsCovered'
    <2>1. exec'[e] = [exec[e] EXCEPT !.pc = "finish", !.out = out]
        BY <1>0, <1>8 DEF InvokeAnswer
    <2>2. exec'[e].pc = "finish"
        BY <1>0, <2>1 DEF ExecRecord
    <2> QED BY <1>2, <1>3, <1>8, <2>2 DEF InvokeAnswer, Delegates
<1>9. CASE InvokeAborted(e)
    <2>1. exec'[e] = [exec[e] EXCEPT !.pc = "finish", !.out = "aborted"]
        BY <1>0, <1>9 DEF InvokeAborted
    <2>2. exec'[e].pc = "finish"
        BY <1>0, <2>1 DEF ExecRecord
    <2> QED BY <1>2, <1>3, <1>9, <2>2 DEF InvokeAborted, Delegates
<1>10. CASE InvokePause(e)
    BY <1>2, <1>3, <1>5, <1>10 DEF InvokePause
<1>11. ASSUME NEW kids, InvokeDelegate(e, kids) PROVE SpawnsCovered'
    <2>1. exec'[e] = [exec[e] EXCEPT !.pc = "reserve", !.kids = kids, !.left = Cardinality(kids)]
        BY <1>0, <1>11 DEF InvokeDelegate
    <2>2. exec'[e].left = Cardinality(exec'[e].kids)
        BY <1>0, <2>1 DEF ExecRecord
    <2>3. \A f \in Execs : Steady(f)
        BY <1>1, <2>2 DEF Steady, Delegates
    <2> QED BY <1>0, <1>1, <1>3, <1>11, <2>3, QuietStep DEF InvokeDelegate
<1>12. CASE WriteTerminal(e)
    <2> DEFINE to == IF exec[e].out = "succeeded" THEN "succeeded" ELSE "failed"
    <2>1. TryTerminal(exec[e].run, to) \/ UNCHANGED vars
        BY <1>12 DEF WriteTerminal
    <2> HIDE DEF to
    <2>2. UNCHANGED spawns /\ \A c \in Runs : Created(c)' => Created(c)
        BY <1>0, <1>1, <2>1, NothingMade DEF TryTerminal, terminalTransition
    <2> QED BY <1>2, <1>4, <1>12, <2>2 DEF WriteTerminal
<1>13. CASE WritePause(e)
    <2>1. Update(exec[e].run, "requires_action") \/ UNCHANGED vars
        BY <1>13 DEF WritePause
    <2>2. UNCHANGED spawns /\ \A c \in Runs : Created(c)' => Created(c)
        BY <1>0, <1>1, <2>1, NothingMade
    <2> QED BY <1>2, <1>4, <1>13, <2>2 DEF WritePause
<1>14. CASE Reserve(e)
    BY <1>0, <1>1, <1>2, <1>3, <1>6, <1>14, ReservePays DEF Reserve, Delegates
<1>15. CASE WriteSuspend(e)
    BY <1>0, <1>1, <1>2, <1>3, <1>6, <1>15, SuspendSpends DEF WriteSuspend
<1> QED BY <1>7, <1>8, <1>9, <1>10, <1>11, <1>12, <1>13, <1>14, <1>15 DEF ExecuteStep

\* Heartbeats, drains, crashes, resumes and claims delegate nothing.
LEMMA OthersSteady ==
    ASSUME WTypeOK, NEW e \in Execs,
           \/ HolderStep(e) \/ Crash(e) \/ resumeApproves(e) \/ resumeDenies(e)
           \/ \E r \in Runs : \/ claimQueued(e, r) \/ reclaim(e, r) \/ resumeChecks(e, r)
    PROVE  UNCHANGED spawning /\ \A f \in Execs : Steady(f)
<1> USE DEF At
<1>0. exec \in [Execs -> ExecRecord] /\ exec[e] \in ExecRecord
    BY DEF WTypeOK
<1>1. UNCHANGED spawning
    BY DEF HolderStep, deadLetterPoison, heartbeatRenews, heartbeatLeaseLost, selfFence,
           Drain, drainGraceOver, releaseOnDrain, Crash, resumeApproves, resumeDenies,
           claimQueued, reclaim, resumeChecks
<1>2. \A f \in Execs \ {e} : exec'[f] = exec[f]
    <2>1. ASSUME NEW r \in Runs, claimQueued(e, r) \/ reclaim(e, r)
          PROVE  \A f \in Execs \ {e} : exec'[f] = exec[f]
        BY <1>0, <2>1 DEF claimQueued, reclaim, Take
    <2> QED BY <2>1, HolderShape, ResumeShape
<1>3. Steady(e)
    <2>a. ASSUME NEW r \in Runs, NEW pc \in {"poison", "opening", "resuming"},
                 exec' = [exec EXCEPT ![e] = [Idle EXCEPT !.pc = pc, !.run = r]]
          PROVE  ~Delegates(e)'
        <3>1. exec'[e] = [Idle EXCEPT !.pc = pc, !.run = r]
            BY <1>0, <2>a
        <3>2. exec'[e].pc = pc
            BY <3>1 DEF Idle
        <3> QED BY <3>2 DEF Delegates
    <2>b. Return(e) => ~Delegates(e)'
        BY <1>0 DEF Return, Delegates, Idle, ExecRecord
    <2>c. exec' = [exec EXCEPT ![e] = Idle] => ~Delegates(e)'
        BY <1>0 DEF Delegates, Idle
    <2>1. ASSUME NEW r \in Runs, claimQueued(e, r) \/ reclaim(e, r) PROVE ~Delegates(e)'
        <3> DEFINE pc == IF IsPoison(attempts'[r]) THEN "poison" ELSE "opening"
        <3>1. exec' = [exec EXCEPT ![e] = [Idle EXCEPT !.pc = pc, !.run = r]]
            BY <2>1 DEF claimQueued, reclaim, Take
        <3>2. pc \in {"poison", "opening", "resuming"}
            OBVIOUS
        <3> HIDE DEF pc
        <3> QED BY <2>a, <3>1, <3>2
    <2>2. ASSUME NEW r \in Runs, resumeChecks(e, r) PROVE ~Delegates(e)'
        BY <2>a, <2>2 DEF resumeChecks
    <2>3. CASE resumeApproves(e)
        <3>1. Goto(e, "opening") => ~Delegates(e)'
            BY <1>0 DEF Goto, Delegates, ExecRecord
        <3> QED BY <2>b, <2>3, <3>1 DEF resumeApproves, Steady
    <2>4. CASE resumeDenies(e)
        BY <2>b, <2>4 DEF resumeDenies, Steady
    <2>5. CASE Crash(e) \/ deadLetterPoison(e) \/ releaseOnDrain(e)
        BY <2>c, <2>5 DEF Crash, deadLetterPoison, releaseOnDrain, Steady
    <2>6. CASE heartbeatRenews(e)
        BY <2>6 DEF heartbeatRenews, Steady, Delegates
    <2>7. CASE heartbeatLeaseLost(e) \/ drainGraceOver(e) \/ Drain(e)
        BY <1>0, <2>7 DEF heartbeatLeaseLost, drainGraceOver, Drain, ExecRecord, Steady, Delegates
    <2>8. CASE selfFence(e)
        <3>1. exec'[e] = [exec[e] EXCEPT !.stopped = TRUE, !.fenced = TRUE]
            BY <1>0, <2>8 DEF selfFence
        <3>2. /\ exec'[e].pc = exec[e].pc /\ exec'[e].run = exec[e].run
              /\ exec'[e].kids = exec[e].kids /\ exec'[e].left = exec[e].left
            BY <1>0, <3>1 DEF ExecRecord
        <3> QED BY <3>2 DEF Steady, Delegates
    <2> QED BY <2>1, <2>2, <2>3, <2>4, <2>5, <2>6, <2>7, <2>8 DEF HolderStep, Steady
<1> QED BY <1>1, <1>2, <1>3 DEF Steady, Delegates

\* ... and insert no row.
LEMMA OthersMakeNothing ==
    ASSUME WTypeOK, NEW e \in Execs,
           \/ e \in Workers /\ HolderStep(e)
           \/ Crash(e) \/ resumeApproves(e) \/ resumeDenies(e)
           \/ \E r \in Runs : \/ e \in Workers /\ (claimQueued(e, r) \/ reclaim(e, r))
                              \/ resumeChecks(e, r)
    PROVE  UNCHANGED spawns /\ \A c \in Runs : Created(c)' => Created(c)
<1> USE DEF At, svars
<1>0. TypeOK /\ (exec[e].pc # "idle" => exec[e].run \in Runs)
    BY DEF WTypeOK
<1>1. UNCHANGED vars => UNCHANGED spawns /\ \A c \in Runs : Created(c)' => Created(c)
    BY DEF vars, Created
<1>2. ASSUME NEW r \in Runs, e \in Workers, claimQueued(e, r) \/ reclaim(e, r)
      PROVE  UNCHANGED spawns /\ \A c \in Runs : Created(c)' => Created(c)
    BY <1>0, <1>2, NothingMade DEF claimQueued, reclaim, WorkerStep
<1>3. CASE deadLetterPoison(e)
    BY <1>0, <1>1, <1>3, NothingMade DEF deadLetterPoison, TryTerminal, terminalTransition
<1>4. CASE e \in Workers /\ heartbeatRenews(e)
    BY <1>0, <1>4, NothingMade DEF heartbeatRenews, Beating, InRun, WorkerStep
<1>5. CASE e \in Workers /\ releaseOnDrain(e)
    BY <1>0, <1>1, <1>5, NothingMade DEF releaseOnDrain, WorkerStep
<1>6. CASE resumeApproves(e) \/ resumeDenies(e)
    BY <1>0, <1>1, <1>6, NothingMade DEF resumeApproves, resumeDenies
<1>7. CASE Crash(e) \/ heartbeatLeaseLost(e) \/ selfFence(e) \/ Drain(e) \/ drainGraceOver(e)
           \/ \E r \in Runs : resumeChecks(e, r)
    BY <1>1, <1>7 DEF Crash, heartbeatLeaseLost, selfFence, Drain, drainGraceOver, resumeChecks
<1> QED BY <1>2, <1>3, <1>4, <1>5, <1>6, <1>7 DEF HolderStep

\* The account is inductive.
LEMMA CoveredStep ==
    ASSUME WTypeOK, Delegating, SpawnsCovered, [WNext]_wvars
    PROVE  SpawnsCovered'
<1>0. TypeOK /\ TypeOK' /\ ExecOK /\ ExecOK'
    <2>1. WTypeOK' /\ Delegating'
        BY WTypeStep
    <2>2. (WTypeOK /\ Delegating => ExecOK)'
        BY DEF WTypeOK, Delegating, ExecOK, RecordOK, At
    <2> QED BY <2>1, <2>2, ExecOKForm DEF WTypeOK
<1>1. ASSUME NEW e \in Execs, ExecuteStep(e) PROVE SpawnsCovered'
    BY <1>0, <1>1, ExecuteCovers
<1>2. ASSUME NEW e \in Execs,
             \/ e \in Workers /\ HolderStep(e)
             \/ Crash(e) \/ resumeApproves(e) \/ resumeDenies(e)
             \/ \E r \in Runs : \/ e \in Workers /\ (claimQueued(e, r) \/ reclaim(e, r))
                                \/ resumeChecks(e, r)
      PROVE  SpawnsCovered'
    <2>1. UNCHANGED spawning /\ \A f \in Execs : Steady(f)
        BY <1>2, OthersSteady
    <2>2. UNCHANGED spawns /\ \A c \in Runs : Created(c)' => Created(c)
        BY <1>2, OthersMakeNothing
    <2> QED BY <1>0, <2>1, <2>2, QuietStep
<1>3. ASSUME NEW r \in Runs, ApiStep(r), ~(\E e \in Inline : resumeChecks(e, r))
      PROVE  SpawnsCovered'
    <2> USE DEF svars
    <2>1. ASSUME UNCHANGED exec, UNCHANGED spawns,
                 \A c \in Runs : Created(c)' => Created(c) \/ ParentOf[c] = NoRun,
                 \A c \in Runs : spawning'[c] = "reserved" => spawning[c] = "reserved"
          PROVE  SpawnsCovered'
        <3>1. \A f \in Execs : Steady(f)
            BY <2>1 DEF Steady, Delegates
        <3> QED BY <1>0, <2>1, <3>1, QuietStep
    <2>2. UNCHANGED vars => UNCHANGED spawns /\ \A c \in Runs : Created(c)' => Created(c)
        BY DEF vars, Created
    <2>3. CASE handleCreateRun(r)
        BY <1>0, <2>1, <2>3 DEF handleCreateRun, Create, Created, TypeOK
    <2>4. CASE handleCancelRun(r) \/ sweepWaiting(r) \/ LeaseRunsOut(r) \/ LeaseLapses(r)
        BY <1>0, <2>1, <2>4, NothingMade
           DEF handleCancelRun, sweepWaiting, LeaseRunsOut, LeaseLapses
    <2>5. CASE cascadeLists(r)
        BY <2>1, <2>2, <2>5 DEF cascadeLists
    <2>6. ASSUME NEW x \in Runs, cascadeCancels(r, x) PROVE SpawnsCovered'
        BY <1>0, <2>1, <2>2, <2>6, NothingMade DEF cascadeCancels
    <2>7. CASE spawnChecks(r)
        BY <2>1, <2>2, <2>7 DEF spawnChecks, ToSpawn, WTypeOK
    <2>8. CASE spawnReserves(r) \/ spawnCreates(r)
        BY <1>0, <2>8, SpawnRequests DEF WTypeOK
    <2> QED BY <1>3, <2>3, <2>4, <2>5, <2>6, <2>7, <2>8 DEF ApiStep
<1>4. CASE UNCHANGED wvars
    <2>1. \A f \in Execs : Steady(f)
        BY <1>4 DEF wvars, Steady, Delegates
    <2> QED BY <1>0, <1>4, <2>1, QuietStep DEF wvars, vars, Created
<1> QED BY <1>1, <1>2, <1>3, <1>4 DEF WNext, Execs

\* The tree under a root never has more children than were reserved, and never
\* more than the budget is reserved, in a tree of any shape and with any number
\* of executors: through failed delegations, zombies that suspend a second
\* time, crashes between a reservation and the insert it pays for, and spawn
\* requests of the agents at work.
THEOREM BudgetHolds == WSpec => []SpawnBudget
<1>1. WInit => SpawnsCovered
    <2> SUFFICES ASSUME WInit, NEW root \in Runs PROVE Covered(root)
        BY DEF SpawnsCovered
    <2>1. Made(root) = {} /\ Asked(root) = {}
        BY DEF WInit, Init, Made, Spawned, Asked, Created
    <2>2. Paid(root) = {}
        <3>1. \A f \in Execs : ~Delegates(f)
            BY DEF WInit, Idle, Delegates
        <3> QED BY <3>1, PaidSlots
    <2>3. spawns[root] = 0
        BY DEF WInit, Init
    <2> QED BY <2>1, <2>2, <2>3, FS_EmptySet DEF Covered
<1>2. WTypeOK /\ SpawnsCovered => SpawnBudget
    <2> SUFFICES ASSUME WTypeOK, SpawnsCovered, NEW root \in Runs, ParentOf[root] = NoRun
                 PROVE  /\ Cardinality({c \in Below(root) : Created(c)}) <= spawns[root]
                        /\ spawns[root] <= MaxTotalSpawns
        BY DEF SpawnBudget
    <2> DEFINE made == {c \in Below(root) : Created(c)}
    <2>1. made \in SUBSET Made(root)
        BY BelowIsSpawned DEF Made
    <2>2. Cardinality(made) <= Cardinality(Made(root)) /\ Cardinality(made) \in Nat
          /\ Cardinality(Made(root)) \in Nat
        BY <2>1, FiniteCounts, Smaller
    <2>3. Cardinality(Asked(root)) \in Nat /\ Cardinality(Paid(root)) \in Nat
        BY FiniteCounts, FS_CardinalityType
    <2>4. spawns[root] \in 0..MaxTotalSpawns /\ Covered(root)
        BY DEF WTypeOK, TypeOK, SpawnsCovered
    <2> HIDE DEF made
    <2>5. Cardinality(made) <= spawns[root] /\ spawns[root] <= MaxTotalSpawns
        BY <2>2, <2>3, <2>4, BoundAssumption DEF Covered
    <2> QED BY <2>5 DEF made
<1> QED BY <1>1, <1>2, CoveredStep, WTypeCorrect, PTL DEF WSpec

-------------------------------------------------------------------------------
(* The cascade of a cancel.                                                *)

Live(x) == Created(x) /\ ~IsTerminal(status[x])

\* No spawn request is under way.
NoRequest == \A c \in Runs : spawning[c] = "none"

\* A cascade has only children of its run to cancel.
TodoChildren == \A r \in Runs : todo[r] \subseteq Children(r)

\* Every live child of a cancelled run is in reach of a cascade: the one that
\* has still to list the table, or the one that has listed it.
CascadePending ==
    \A r, x \in Runs :
        status[r] = "cancelled" /\ ParentOf[x] = r /\ Live(x) => r \in listing \/ x \in todo[r]

\* Only a plain Update cancels a run.
LEMMA NotCancelled ==
    ASSUME TypeOK, NEW y \in Runs, NEW r \in Runs, status'[r] = "cancelled",
           \/ \E to \in {"running", "requires_action", "succeeded", "failed"} :
                  Update(y, to) \/ CompleteAndWake(y, to)
           \/ \E kids : SuspendOnDelegate(y, kids)
           \/ Create(y) \/ SweepWaiting(y) \/ ExpireLease(y) \/ ReserveSpawn(y)
           \/ \E v \in Workers : WorkerStep(v, y)
           \/ UNCHANGED vars
    PROVE  status[r] = "cancelled"
<1> USE DEF TypeOK
<1>1. ASSUME NEW to \in {"running", "requires_action", "succeeded", "failed"},
             Update(y, to) \/ CompleteAndWake(y, to)
      PROVE  status[r] = "cancelled"
    BY <1>1 DEF Update, CompleteAndWake, WakeWaiters
<1>2. ASSUME NEW kids, SuspendOnDelegate(y, kids) PROVE status[r] = "cancelled"
    <2>1. Upserted(kids) \in [Runs -> Status \cup {Absent}]
        BY DEF Upserted, Status
    <2>2. status'[r] = Upserted(kids)[r]
        BY <1>2, <2>1 DEF SuspendOnDelegate
    <2> QED BY <2>2 DEF Upserted
<1>3. CASE Create(y) \/ SweepWaiting(y) \/ ExpireLease(y) \/ ReserveSpawn(y)
    BY <1>3 DEF Create, SweepWaiting, ExpireLease, ReserveSpawn
<1>4. ASSUME NEW v \in Workers, WorkerStep(v, y) PROVE status[r] = "cancelled"
    BY <1>4 DEF WorkerStep, ClaimQueued, Heartbeat, ReleaseLease, ClaimReclaimable
<1>5. CASE UNCHANGED vars
    BY <1>5 DEF vars
<1> QED BY <1>1, <1>2, <1>3, <1>4, <1>5

\* A step of executeRun cancels no run and gives a cancelled run no child: the
\* suspension that creates children leaves its run waiting or queued.
LEMMA ExecuteNoOrphan ==
    ASSUME WTypeOK, Delegating, NEW e \in Execs, ExecuteStep(e), NEW r \in Runs, NEW x \in Runs,
           status'[r] = "cancelled", ParentOf[x] = r, Created(x)'
    PROVE  status[r] = "cancelled" /\ Created(x)
<1> USE DEF At, svars
<1>0. TypeOK /\ exec[e].run \in Runs
    BY ExecuteShape DEF WTypeOK, InRun
<1>1. UNCHANGED vars => status[r] = "cancelled" /\ Created(x)
    BY DEF vars, Created
<1>2. ASSUME NEW to \in {"running", "requires_action", "succeeded", "failed"},
             Update(exec[e].run, to) \/ CompleteAndWake(exec[e].run, to)
      PROVE  status[r] = "cancelled" /\ Created(x)
    BY <1>0, <1>2, NotCancelled, NothingMade
<1>3. CASE Open(e) \/ WritePause(e)
    BY <1>1, <1>2, <1>3 DEF Open, WritePause
<1>4. CASE WriteTerminal(e)
    <2> DEFINE to == IF exec[e].out = "succeeded" THEN "succeeded" ELSE "failed"
    <2>1. TryTerminal(exec[e].run, to) \/ UNCHANGED vars
        BY <1>4 DEF WriteTerminal
    <2>2. to \in {"running", "requires_action", "succeeded", "failed"}
        OBVIOUS
    <2> HIDE DEF to
    <2> QED BY <1>1, <1>2, <2>1, <2>2 DEF TryTerminal, terminalTransition
<1>5. CASE Reserve(e)
    <2>1. CASE ReserveSpawn(RootOf[exec[e].run])
        BY <2>1 DEF ReserveSpawn, Created
    <2> QED BY <1>1, <1>5, <2>1 DEF Reserve
<1>6. CASE WriteSuspend(e)
    <2> DEFINE y == exec[e].run  kids == exec[e].kids
    <2>1. CASE SuspendOnDelegate(y, kids)
        <3>1. status[r] = "cancelled"
            BY <1>0, <2>1, NotCancelled
        <3>2. r # y
            BY <2>1, <3>1 DEF SuspendOnDelegate, MaySuspend
        <3>3. Upserted(kids) \in [Runs -> Status \cup {Absent}]
            BY <1>0 DEF Upserted, Status, TypeOK
        <3>4. x # y => status'[x] = Upserted(kids)[x]
            BY <2>1, <3>3 DEF SuspendOnDelegate
        <3>5. Created(y)
            BY <2>1 DEF SuspendOnDelegate, MaySuspend, Created, Absent
        <3>6. x \notin kids
            BY <1>6, <3>2 DEF WriteSuspend, Delegating, Children
        <3> QED BY <3>1, <3>4, <3>5, <3>6 DEF Upserted, Created
    <2> QED BY <1>1, <1>6, <2>1 DEF WriteSuspend
<1> QED BY <1>1, <1>3, <1>4, <1>5, <1>6
        DEF ExecuteStep, InvokeAnswer, InvokeAborted, InvokePause, InvokeDelegate

\* The same for the claims, the heartbeats, the drains and the crashes.
LEMMA HolderNoOrphan ==
    ASSUME WTypeOK, NEW w \in Execs, NEW r \in Runs, NEW x \in Runs,
           \/ Crash(w)
           \/ w \in Workers /\ (HolderStep(w) \/ \E y \in Runs : claimQueued(w, y) \/ reclaim(w, y)),
           status'[r] = "cancelled", Created(x)'
    PROVE  status[r] = "cancelled" /\ Created(x)
<1> USE DEF At, svars
<1>0. TypeOK /\ (exec[w].pc # "idle" => exec[w].run \in Runs)
    BY DEF WTypeOK
<1>1. Created(x)
    BY OthersMakeNothing
<1>2. UNCHANGED vars => status[r] = "cancelled"
    BY DEF vars
<1>3. ASSUME NEW y \in Runs, w \in Workers, claimQueued(w, y) \/ reclaim(w, y)
      PROVE  status[r] = "cancelled"
    BY <1>0, <1>3, NotCancelled DEF claimQueued, reclaim, WorkerStep
<1>4. CASE deadLetterPoison(w)
    BY <1>0, <1>1, <1>2, <1>4, NotCancelled DEF deadLetterPoison, TryTerminal, terminalTransition
<1>5. CASE w \in Workers /\ heartbeatRenews(w)
    BY <1>0, <1>1, <1>5, NotCancelled DEF heartbeatRenews, Beating, InRun, WorkerStep
<1>6. CASE w \in Workers /\ releaseOnDrain(w)
    BY <1>0, <1>1, <1>2, <1>6, NotCancelled DEF releaseOnDrain, WorkerStep
<1>7. CASE Crash(w) \/ heartbeatLeaseLost(w) \/ selfFence(w) \/ Drain(w) \/ drainGraceOver(w)
    BY <1>1, <1>2, <1>7 DEF Crash, heartbeatLeaseLost, selfFence, Drain, drainGraceOver
<1> QED BY <1>1, <1>3, <1>4, <1>5, <1>6, <1>7 DEF HolderStep

\* Neither touches the cascades.
LEMMA CascadeFrame ==
    ASSUME NEW e,
           \/ ExecuteStep(e) \/ HolderStep(e) \/ Crash(e)
           \/ \E y \in Runs : claimQueued(e, y) \/ reclaim(e, y)
    PROVE  UNCHANGED <<listing, todo, spawning>>
<1>1. ExecuteStep(e) => UNCHANGED <<listing, todo, spawning>>
    BY DEF ExecuteStep, Open, InvokeAnswer, InvokeAborted, InvokePause, InvokeDelegate,
           WriteTerminal, WritePause, Reserve, WriteSuspend
<1>2. HolderStep(e) => UNCHANGED <<listing, todo, spawning>>
    BY DEF HolderStep, deadLetterPoison, heartbeatRenews, heartbeatLeaseLost, selfFence,
           Drain, drainGraceOver, releaseOnDrain
<1> QED BY <1>1, <1>2 DEF Crash, claimQueued, reclaim

\* In a tree of one level the runs below a run are its children.
LEMMA BelowOneLevel ==
    ASSUME \A r \in Runs : ParentOf[r] # NoRun => ParentOf[ParentOf[r]] = NoRun, NEW r \in Runs
    PROVE  Below(r) = Children(r)
<1> USE ParentAssumption
<1>1. Children(r) \in SUBSET Runs
    BY DEF Children
<1>2. \A y \in Children(r) : Children(y) = {}
    BY DEF Children
<1>3. Below(r) \subseteq Children(r)
    BY <1>1, <1>2 DEF Below
<1>4. Children(r) \subseteq Below(r)
    BY <1>1 DEF Below
<1> QED BY <1>3, <1>4

\* The cascade's invariant is inductive in a tree of one level, without inline
\* executions (a deny cancels without a cascade) and without spawn requests (a
\* child inserted after the listing is not in it).
LEMMA CascadeStep ==
    ASSUME \A r \in Runs : ParentOf[r] # NoRun => ParentOf[ParentOf[r]] = NoRun,
           Inline = {}, "spawn" \notin Faults,
           WTypeOK, Delegating, NoRequest, TodoChildren, CascadePending, [WNext]_wvars
    PROVE  NoRequest' /\ TodoChildren' /\ CascadePending'
<1> USE ParentAssumption
<1> USE DEF svars
<1>0. TypeOK /\ todo \in [Runs -> SUBSET Runs] /\ [Next]_vars
    BY WTypeStep DEF WTypeOK
<1>1. ASSUME NEW x \in Runs, Created(x), Live(x)' PROVE Live(x)
    BY <1>0, <1>1, TerminalFrozen DEF Live
\* A step that leaves the cascades alone, cancels nothing and gives a
\* cancelled run no child.
<1>2. ASSUME UNCHANGED <<listing, todo, spawning>>,
             \A r, x \in Runs : status'[r] = "cancelled" /\ ParentOf[x] = r /\ Created(x)'
                                    => status[r] = "cancelled" /\ Created(x)
      PROVE  NoRequest' /\ TodoChildren' /\ CascadePending'
    <2>1. NoRequest' /\ TodoChildren'
        BY <1>2 DEF NoRequest, TodoChildren
    <2>2. ASSUME NEW r \in Runs, NEW x \in Runs, status'[r] = "cancelled", ParentOf[x] = r, Live(x)'
          PROVE  r \in listing' \/ x \in todo'[r]
        <3>1. status[r] = "cancelled" /\ Created(x)
            BY <1>2, <2>2 DEF Live
        <3>2. Live(x)
            BY <1>1, <2>2, <3>1
        <3> QED BY <1>2, <2>2, <3>1, <3>2 DEF CascadePending
    <2> QED BY <2>1, <2>2 DEF CascadePending
<1>3. ASSUME NEW e \in Execs, ExecuteStep(e)
      PROVE  NoRequest' /\ TodoChildren' /\ CascadePending'
    BY <1>2, <1>3, ExecuteNoOrphan, CascadeFrame
<1>4. ASSUME NEW e \in Execs,
             \/ Crash(e)
             \/ e \in Workers /\ (HolderStep(e) \/ \E y \in Runs : claimQueued(e, y) \/ reclaim(e, y))
      PROVE  NoRequest' /\ TodoChildren' /\ CascadePending'
    BY <1>2, <1>4, HolderNoOrphan, CascadeFrame
<1>5. ASSUME NEW y \in Runs, ApiStep(y)
      PROVE  NoRequest' /\ TodoChildren' /\ CascadePending'
    <2>1. CASE handleCreateRun(y)
        <3>1. \A x \in Runs : ParentOf[x] # NoRun /\ Created(x)' => Created(x)
            BY <1>0, <2>1 DEF handleCreateRun, Create, Created, TypeOK
        <3>2. \A r \in Runs : status'[r] = "cancelled" => status[r] = "cancelled"
            BY <1>0, <2>1, NotCancelled DEF handleCreateRun
        <3> QED BY <1>2, <2>1, <3>1, <3>2 DEF handleCreateRun
    <2>2. CASE sweepWaiting(y) \/ LeaseRunsOut(y) \/ LeaseLapses(y)
        BY <1>0, <1>2, <2>2, NotCancelled, NothingMade DEF sweepWaiting, LeaseRunsOut, LeaseLapses
    <2>3. CASE handleCancelRun(y)
        <3>1. \A r \in Runs : status'[r] = "cancelled" => status[r] = "cancelled" \/ r = y
            BY <1>0, <2>3 DEF handleCancelRun, Update, TypeOK
        <3>2. \A x \in Runs : Created(x)' => Created(x)
            BY <1>0, <2>3, NothingMade DEF handleCancelRun
        <3>3. NoRequest' /\ TodoChildren'
            BY <2>3 DEF handleCancelRun, NoRequest, TodoChildren
        <3>4. ASSUME NEW r \in Runs, NEW x \in Runs, status'[r] = "cancelled", ParentOf[x] = r, Live(x)'
              PROVE  r \in listing' \/ x \in todo'[r]
            <4>1. Live(x)
                BY <1>1, <3>2, <3>4 DEF Live
            <4>2. status[r] = "cancelled" => r \in listing \/ x \in todo[r]
                BY <3>4, <4>1 DEF CascadePending
            <4> QED BY <2>3, <3>1, <3>4, <4>2 DEF handleCancelRun
        <3> QED BY <3>3, <3>4 DEF CascadePending
    <2>4. CASE cascadeLists(y)
        <3>1. Below(y) = Children(y)
            BY BelowOneLevel
        <3>2. NoRequest' /\ TodoChildren'
            BY <1>0, <2>4, <3>1 DEF cascadeLists, NoRequest, TodoChildren, LiveBelow
        <3>3. ASSUME NEW r \in Runs, NEW x \in Runs, status'[r] = "cancelled", ParentOf[x] = r, Live(x)'
              PROVE  r \in listing' \/ x \in todo'[r]
            <4>1. status[r] = "cancelled" /\ Live(x)
                BY <2>4, <3>3 DEF cascadeLists, vars, Live, Created
            <4>2. r \in listing \/ x \in todo[r]
                BY <3>3, <4>1 DEF CascadePending
            <4>3. r = y => x \in todo'[r]
                BY <1>0, <2>4, <3>1, <3>3, <4>1 DEF cascadeLists, LiveBelow, Live, Children
            <4>4. r # y => r \in listing' \/ x \in todo'[r]
                BY <1>0, <2>4, <4>2 DEF cascadeLists
            <4> QED BY <4>3, <4>4
        <3> QED BY <3>2, <3>3 DEF CascadePending
    <2>5. ASSUME NEW z \in Runs, cascadeCancels(y, z)
          PROVE  NoRequest' /\ TodoChildren' /\ CascadePending'
        <3>1. z \in Children(y) /\ ParentOf[z] = y
            BY <2>5 DEF cascadeCancels, TodoChildren, Children
        <3>2. NoRequest' /\ TodoChildren'
            BY <1>0, <2>5 DEF cascadeCancels, NoRequest, TodoChildren
        <3>3. \A r \in Runs : status'[r] = "cancelled" => status[r] = "cancelled" \/ r = z
            BY <1>0, <2>5 DEF cascadeCancels, Update, TypeOK, vars
        <3>4. \A x \in Runs : Created(x)' => Created(x)
            BY <1>0, <2>5, NothingMade DEF cascadeCancels
        <3>5. IsTerminal(status'[z])
            BY <1>0, <2>5 DEF cascadeCancels, Update, TypeOK, vars, IsTerminal, Terminal
        <3>6. ASSUME NEW r \in Runs, NEW x \in Runs, status'[r] = "cancelled", ParentOf[x] = r, Live(x)'
              PROVE  r \in listing' \/ x \in todo'[r]
            <4>1. Live(x)
                BY <1>1, <3>4, <3>6 DEF Live
            <4>2. r # z
                BY <3>1, <3>6
            <4>3. r \in listing \/ x \in todo[r]
                BY <3>3, <3>6, <4>1, <4>2 DEF CascadePending
            <4>4. x # z
                BY <3>5, <3>6 DEF Live
            <4> QED BY <1>0, <2>5, <4>3, <4>4 DEF cascadeCancels
        <3> QED BY <3>2, <3>6 DEF CascadePending
    <2>6. ~(spawnChecks(y) \/ spawnReserves(y) \/ spawnCreates(y))
        BY DEF spawnChecks, spawnReserves, spawnCreates, NoRequest
    <2> QED BY <1>5, <2>1, <2>2, <2>3, <2>4, <2>5, <2>6 DEF ApiStep
<1>6. CASE UNCHANGED wvars
    <2>1. UNCHANGED <<listing, todo, spawning>> /\ UNCHANGED vars
        BY <1>6 DEF wvars
    <2> QED BY <1>2, <2>1 DEF vars, Created
<1> QED BY <1>3, <1>4, <1>5, <1>6 DEF WNext, Execs

\* In a tree of one level, without denies and spawn requests, a cancel leaves
\* no child behind: when no cascade is in progress, every child of a cancelled
\* run has ended, whatever executions of parent and children, reclaims, crashes
\* and sweeps come between the cancel, its listing and each of its writes.
THEOREM CancelLeavesNoOrphan ==
    ASSUME \A r \in Runs : ParentOf[r] # NoRun => ParentOf[ParentOf[r]] = NoRun,
           Inline = {}, "spawn" \notin Faults
    PROVE  WSpec => []NoOrphans
<1> DEFINE Inv == NoRequest /\ TodoChildren /\ CascadePending
<1>1. WInit => Inv
    BY DEF WInit, Init, NoRequest, TodoChildren, CascadePending, Absent
<1>2. WTypeOK /\ Delegating /\ Inv /\ [WNext]_wvars => Inv'
    BY CascadeStep
<1>3. Inv => NoOrphans
    <2> SUFFICES ASSUME Inv, listing = {}, \A r \in Runs : todo[r] = {},
                        NEW r \in Runs, status[r] = "cancelled"
                 PROVE  LiveBelow(r) = {}
        BY DEF NoOrphans
    <2>1. Below(r) = Children(r)
        BY BelowOneLevel
    <2> QED BY <2>1 DEF LiveBelow, CascadePending, Live, Children
<1> QED BY <1>1, <1>2, <1>3, WTypeCorrect, PTL DEF WSpec
===============================================================================
