--------------------------- MODULE RunWorkersProofs ---------------------------
(***************************************************************************)
(* Proofs about RunWorkers, for any tree of runs, any pool of workers, any *)
(* number of inline executions and any bounds: the executors use the store *)
(* only through its operations, so what is proved of the store carries     *)
(* over; and the invariants of the executors themselves.                   *)
(***************************************************************************)
EXTENDS RunWorkers, RunStoreProofs, FiniteSetTheorems

-------------------------------------------------------------------------------
(* The executors' state.                                                   *)

\* A delegation in progress is to children of the run, and it is parked only
\* when every child is paid for: what makes the countdown of the reservations
\* well-typed.
Delegating ==
    \A e \in Execs :
        exec[e].pc \in {"reserve", "suspend"} =>
            /\ exec[e].kids \subseteq Children(exec[e].run)
            /\ exec[e].left <= Cardinality(exec[e].kids)
            /\ exec[e].left = 0 <=> exec[e].pc = "suspend"

\* The operations of the store that the executors and the API use, with the
\* restriction that matters below: a spawned run is not ended as succeeded or
\* failed by a plain Update, which would tell its parent nothing.
StoreOp ==
    \/ \E r \in Runs :
        \/ Create(r)
        \/ \E to \in {"running", "requires_action", "cancelled"} : Update(r, to)
        \/ \E to \in {"succeeded", "failed"} :
               IF ParentOf[r] = NoRun THEN Update(r, to) ELSE CompleteAndWake(r, to)
        \/ \E children \in SUBSET Children(r) : SuspendOnDelegate(r, children)
        \/ SweepWaiting(r)
        \/ ExpireLease(r)
        \/ ReserveSpawn(r)
    \/ \E w \in Workers, r \in Runs : Heartbeat(w, r) \/ ReleaseLease(w, r)

\* ... and the claims, which only an idle worker makes.
Claiming == \E w \in Workers, r \in Runs : claimQueued(w, r) \/ reclaim(w, r)

\* These are steps of the store under its most general client.
LEMMA StoreOpIsNext == ASSUME StoreOp \/ Claiming PROVE Next
BY DEF StoreOp, Claiming, claimQueued, reclaim, Next, RunStep, WorkerStep, UpdateTargets

\* A terminal write of an executor is an operation of the store, or nothing.
LEMMA TryTerminalOp ==
    ASSUME NEW r \in Runs, NEW to \in {"succeeded", "failed"}, TryTerminal(r, to)
    PROVE  StoreOp \/ UNCHANGED vars
BY DEF TryTerminal, terminalTransition, svars, StoreOp

\* Every step of an executor is an operation of the store, or leaves it alone.
LEMMA ExecuteUsesStore ==
    ASSUME WTypeOK, Delegating, NEW e \in Execs, ExecuteStep(e)
    PROVE  StoreOp \/ UNCHANGED vars
<1> USE DEF svars, At
<1>0. exec[e].pc # "idle" => exec[e].run \in Runs
    BY DEF WTypeOK
<1>1. CASE Open(e)
    BY <1>0, <1>1 DEF Open, StoreOp
<1>2. CASE WriteTerminal(e)
    BY <1>0, <1>2, TryTerminalOp DEF WriteTerminal
<1>3. CASE WritePause(e)
    BY <1>0, <1>3 DEF WritePause, StoreOp
<1>4. CASE Reserve(e)
    BY <1>0, <1>4, RootAssumption DEF Reserve, StoreOp
<1>5. CASE WriteSuspend(e)
    BY <1>0, <1>5 DEF WriteSuspend, StoreOp, Delegating
<1> QED
    BY <1>1, <1>2, <1>3, <1>4, <1>5
       DEF ExecuteStep, InvokeAnswer, InvokeAborted, InvokePause, InvokeDelegate

\* So is every step of the heartbeats and the drains ...
LEMMA HolderUsesStore ==
    ASSUME WTypeOK, NEW w \in Workers, HolderStep(w)
    PROVE  StoreOp \/ UNCHANGED vars
<1> USE DEF svars, At
<1>0. exec[w].pc # "idle" => exec[w].run \in Runs
    BY DEF WTypeOK, Execs
<1>1. CASE deadLetterPoison(w)
    BY <1>0, <1>1, TryTerminalOp DEF deadLetterPoison
<1>2. CASE heartbeatRenews(w)
    BY <1>0, <1>2 DEF heartbeatRenews, StoreOp, Beating, InRun
<1>3. CASE releaseOnDrain(w)
    BY <1>0, <1>3 DEF releaseOnDrain, StoreOp
<1> QED
    BY <1>1, <1>2, <1>3
       DEF HolderStep, heartbeatLeaseLost, selfFence, Drain, drainGraceOver

\* ... and of the API, the sweep and the clock.
LEMMA ApiUsesStore ==
    ASSUME NEW r \in Runs, ApiStep(r)
    PROVE  StoreOp \/ UNCHANGED vars
<1> USE DEF svars
<1>1. ASSUME NEW x \in Runs, cascadeCancels(r, x) PROVE StoreOp \/ UNCHANGED vars
    BY <1>1 DEF cascadeCancels, StoreOp
<1>2. CASE spawnReserves(r)
    BY <1>2, RootAssumption DEF spawnReserves, StoreOp
<1>3. CASE spawnCreates(r)
    BY <1>3 DEF spawnCreates, StoreOp
<1>4. CASE handleCreateRun(r) \/ handleCancelRun(r) \/ sweepWaiting(r)
    BY <1>4 DEF handleCreateRun, handleCancelRun, sweepWaiting, StoreOp
<1>5. CASE LeaseRunsOut(r) \/ LeaseLapses(r)
    BY <1>5 DEF LeaseRunsOut, LeaseLapses, StoreOp
<1> QED
    BY <1>1, <1>2, <1>3, <1>4, <1>5
       DEF ApiStep, cascadeLists, resumeChecks, spawnChecks

\* Every step of the system is an operation of the store, or leaves it alone.
LEMMA UsesStore ==
    ASSUME WTypeOK, Delegating, [WNext]_wvars
    PROVE  StoreOp \/ Claiming \/ UNCHANGED vars
<1>1. ASSUME NEW e \in Execs, ExecuteStep(e) PROVE StoreOp \/ UNCHANGED vars
    BY <1>1, ExecuteUsesStore
<1>2. ASSUME NEW e \in Execs, Crash(e) PROVE UNCHANGED vars
    BY <1>2 DEF Crash, svars
<1>3. ASSUME NEW e \in Inline, resumeApproves(e) \/ resumeDenies(e)
      PROVE  StoreOp \/ UNCHANGED vars
    <2>1. exec[e].pc # "idle" => exec[e].run \in Runs
        BY DEF WTypeOK, Execs, At
    <2> QED BY <1>3, <2>1 DEF resumeApproves, resumeDenies, StoreOp, svars, At
<1>4. ASSUME NEW w \in Workers, HolderStep(w) PROVE StoreOp \/ UNCHANGED vars
    BY <1>4, HolderUsesStore
<1>5. ASSUME NEW r \in Runs, ApiStep(r) PROVE StoreOp \/ UNCHANGED vars
    BY <1>5, ApiUsesStore
<1> QED BY <1>1, <1>2, <1>3, <1>4, <1>5 DEF WNext, wvars, Claiming

-------------------------------------------------------------------------------
(* Type correctness, and: the executors are clients of the store.          *)

\* WTypeOK and Delegating for one executor's record.
RecordOK(rec) ==
    /\ rec \in ExecRecord
    /\ rec.pc # "idle" => rec.run \in Runs /\ Created(rec.run)
    /\ rec.pc \in {"reserve", "suspend"} =>
          /\ rec.kids \subseteq Children(rec.run)
          /\ rec.left <= Cardinality(rec.kids)
          /\ rec.left = 0 <=> rec.pc = "suspend"

\* ... and for all of them.
ExecOK ==
    /\ exec \in [Execs -> ExecRecord]
    /\ \A e \in Execs : RecordOK(exec[e])

\* The two forms say the same.
LEMMA ExecOKForm == (WTypeOK /\ Delegating) => ExecOK
BY DEF WTypeOK, Delegating, ExecOK, RecordOK, At

\* An idle executor is in order.
LEMMA IdleOK == Idle \in ExecRecord /\ RecordOK(Idle) /\ RecordOK(Idle)'
<1>1. Cardinality(Runs) \in Nat
    BY ExecutorAssumption, FS_CardinalityType
<1>2. Idle \in ExecRecord
    BY <1>1 DEF Idle, ExecRecord
<1> QED BY <1>2 DEF RecordOK, Idle

\* A step that changes one executor keeps all in order if the new record is:
\* the rows of the other executors' runs do not disappear.
LEMMA Replace ==
    ASSUME TypeOK, [Next]_vars, ExecOK, NEW e \in Execs,
           exec' = [exec EXCEPT ![e] = exec'[e]], RecordOK(exec[e])'
    PROVE  ExecOK'
<1>1. exec'[e] \in ExecRecord
    BY DEF RecordOK
<1>2. exec' \in [Execs -> ExecRecord]
    BY <1>1 DEF ExecOK
<1>3. ASSUME NEW f \in Execs, f # e PROVE RecordOK(exec[f])'
    <2>1. RecordOK(exec[f]) /\ exec'[f] = exec[f]
        BY <1>3 DEF ExecOK
    <2>2. \A r \in Runs : Created(r) => Created(r)'
        BY TerminalFrozen DEF Created
    <2> QED BY <2>1, <2>2 DEF RecordOK
<1> QED BY <1>2, <1>3 DEF ExecOK

\* executeRun keeps its record in order.
LEMMA ExecuteKeeps ==
    ASSUME WTypeOK, Delegating, [Next]_vars, NEW e \in Execs, ExecuteStep(e)
    PROVE  ExecOK'
<1>0. ExecOK /\ TypeOK /\ RecordOK(exec[e]) /\ exec[e] \in ExecRecord
    BY ExecOKForm DEF WTypeOK, ExecOK
<1>a. exec[e].pc # "idle" => exec[e].run \in Runs /\ status'[exec[e].run] # Absent
    BY <1>0, TerminalFrozen DEF Created, RecordOK
<1>b. Cardinality(Runs) \in Nat
    BY ExecutorAssumption, FS_CardinalityType
<1>c. \A S \in SUBSET Runs : Cardinality(S) \in 0..Cardinality(Runs)
    <2> TAKE S \in SUBSET Runs
    <2>1. IsFiniteSet(S) /\ Cardinality(S) <= Cardinality(Runs)
        BY ExecutorAssumption, FS_Subset
    <2>2. Cardinality(S) \in Nat
        BY <2>1, FS_CardinalityType
    <2> QED BY <1>b, <2>1, <2>2
<1> SUFFICES /\ exec' = [exec EXCEPT ![e] = exec'[e]]
             /\ RecordOK(exec[e])'
    BY <1>0, Replace
<1> USE DEF At, ExecOK, RecordOK, ExecRecord, Created
<1>d. ASSUME Return(e), exec[e].pc # "idle"
      PROVE  exec' = [exec EXCEPT ![e] = exec'[e]] /\ RecordOK(exec[e])'
    BY <1>0, <1>a, <1>d, IdleOK DEF Return
<1>e. ASSUME NEW pc \in {"opening", "invoking", "pause"}, Goto(e, pc), exec[e].pc # "idle"
      PROVE  exec' = [exec EXCEPT ![e] = exec'[e]] /\ RecordOK(exec[e])'
    BY <1>0, <1>a, <1>e DEF Goto
<1>f. ASSUME FailDelegation(e), exec[e].pc # "idle"
      PROVE  exec' = [exec EXCEPT ![e] = exec'[e]] /\ RecordOK(exec[e])'
    <2>1. exec'[e] = [exec[e] EXCEPT !.pc = "finish", !.out = "failed", !.left = 0]
        BY <1>0, <1>f DEF FailDelegation
    <2>2. exec' = [exec EXCEPT ![e] = exec'[e]]
        BY <1>0, <1>f, <2>1 DEF FailDelegation
    <2>3. 0 \in 0..Cardinality(Runs)
        BY <1>b
    <2> QED BY <1>0, <1>a, <1>f, <2>1, <2>2, <2>3
<1>1. CASE Open(e)
    BY <1>1, <1>d, <1>e DEF Open
<1>2. ASSUME NEW out \in {"succeeded", "failed"}, InvokeAnswer(e, out)
      PROVE  exec' = [exec EXCEPT ![e] = exec'[e]] /\ RecordOK(exec[e])'
    BY <1>0, <1>a, <1>2 DEF InvokeAnswer
<1>3. CASE InvokeAborted(e)
    BY <1>0, <1>a, <1>3 DEF InvokeAborted
<1>4. CASE InvokePause(e)
    BY <1>4, <1>e DEF InvokePause
<1>5. ASSUME NEW kids \in SUBSET Children(exec[e].run), InvokeDelegate(e, kids)
      PROVE  exec' = [exec EXCEPT ![e] = exec'[e]] /\ RecordOK(exec[e])'
    <2>1. kids \in SUBSET Runs
        BY DEF Children
    <2>2. Cardinality(kids) \in 0..Cardinality(Runs) /\ Cardinality(kids) # 0
        BY <1>c, <1>5, <2>1, FS_EmptySet, FS_Subset, ExecutorAssumption DEF InvokeDelegate
    <2>3. exec'[e] = [exec[e] EXCEPT !.pc = "reserve", !.kids = kids, !.left = Cardinality(kids)]
        BY <1>0, <1>5 DEF InvokeDelegate
    <2>4. exec' = [exec EXCEPT ![e] = exec'[e]]
        BY <1>0, <1>5, <2>3 DEF InvokeDelegate
    <2> QED BY <1>0, <1>a, <1>5, <2>1, <2>2, <2>3, <2>4 DEF InvokeDelegate
<1>6. CASE WriteTerminal(e)
    BY <1>6, <1>d DEF WriteTerminal
<1>7. CASE WritePause(e)
    BY <1>7, <1>d DEF WritePause
<1>8. CASE Reserve(e)
    <2>1. exec[e].left \in 1..Cardinality(Runs)
        BY <1>0, <1>b, <1>8 DEF Reserve
    <2>2. Cardinality(exec[e].kids) \in Nat
        BY <1>0, <1>c
    <2>3. CASE Reserved(e)
        <3> DEFINE next == IF exec[e].left = 1 THEN "suspend" ELSE "reserve"
        <3>1. exec'[e] = [exec[e] EXCEPT !.left = @ - 1, !.pc = next]
            BY <1>0, <2>3 DEF Reserved
        <3>2. exec' = [exec EXCEPT ![e] = exec'[e]]
            BY <1>0, <2>3, <3>1 DEF Reserved
        <3>3. exec[e].left - 1 \in 0..Cardinality(Runs)
            BY <1>b, <2>1
        <3>4. At(e, "reserve")
            BY <1>8 DEF Reserve
        <3> HIDE DEF next
        <3>5. next = IF exec[e].left = 1 THEN "suspend" ELSE "reserve"
            BY DEF next
        <3>6. exec'[e] \in ExecRecord
            BY <1>0, <3>1, <3>3, <3>5
        <3>7. /\ exec'[e].pc = next /\ exec'[e].left = exec[e].left - 1
              /\ exec'[e].run = exec[e].run /\ exec'[e].kids = exec[e].kids
            BY <1>0, <3>1
        <3>8. exec[e].left <= Cardinality(exec[e].kids) /\ exec[e].kids \subseteq Children(exec[e].run)
            BY <1>0, <3>4
        <3>9. exec[e].left - 1 <= Cardinality(exec[e].kids) /\ (exec[e].left - 1 = 0 <=> exec[e].left = 1)
            BY <1>b, <2>1, <2>2, <3>8
        <3> QED BY <1>a, <3>2, <3>4, <3>5, <3>6, <3>7, <3>8, <3>9
    <2> QED BY <1>8, <1>f, <2>3 DEF Reserve
<1>9. CASE WriteSuspend(e)
    BY <1>9, <1>d, <1>f DEF WriteSuspend
<1> QED
    BY <1>1, <1>2, <1>3, <1>4, <1>5, <1>6, <1>7, <1>8, <1>9 DEF ExecuteStep

\* So do the claims, the heartbeats, the drains, a resume and a crash.
LEMMA OthersKeep ==
    ASSUME WTypeOK, Delegating, [Next]_vars, NEW e \in Execs,
           \/ HolderStep(e) \/ Crash(e) \/ resumeApproves(e) \/ resumeDenies(e)
           \/ \E r \in Runs : \/ claimQueued(e, r) \/ reclaim(e, r)
                              \/ resumeChecks(e, r)
    PROVE  ExecOK'
<1>0. ExecOK /\ TypeOK /\ RecordOK(exec[e]) /\ exec[e] \in ExecRecord
    BY ExecOKForm DEF WTypeOK, ExecOK
<1>a. exec[e].pc # "idle" => exec[e].run \in Runs /\ status'[exec[e].run] # Absent
    BY <1>0, TerminalFrozen DEF Created, RecordOK
<1>b. Cardinality(Runs) \in Nat
    BY ExecutorAssumption, FS_CardinalityType
<1>c. \A r \in Runs : Created(r) => status'[r] # Absent
    BY <1>0, TerminalFrozen
<1> SUFFICES /\ exec' = [exec EXCEPT ![e] = exec'[e]]
             /\ RecordOK(exec[e])'
    BY <1>0, Replace
<1> USE DEF At, ExecOK, RecordOK, ExecRecord, Created
<1>d. ASSUME Return(e), exec[e].pc # "idle"
      PROVE  exec' = [exec EXCEPT ![e] = exec'[e]] /\ RecordOK(exec[e])'
    BY <1>0, <1>a, <1>d, IdleOK DEF Return
<1>e. ASSUME Goto(e, "opening"), exec[e].pc # "idle"
      PROVE  exec' = [exec EXCEPT ![e] = exec'[e]] /\ RecordOK(exec[e])'
    BY <1>0, <1>a, <1>e DEF Goto
<1>f. ASSUME exec' = [exec EXCEPT ![e] = Idle]
      PROVE  exec' = [exec EXCEPT ![e] = exec'[e]] /\ RecordOK(exec[e])'
    BY <1>0, <1>f, IdleOK
<1>g. ASSUME NEW r \in Runs, NEW pc \in {"poison", "opening", "resuming"}, Created(r),
             exec' = [exec EXCEPT ![e] = [Idle EXCEPT !.pc = pc, !.run = r]]
      PROVE  exec' = [exec EXCEPT ![e] = exec'[e]] /\ RecordOK(exec[e])'
    <2>1. exec'[e] = [Idle EXCEPT !.pc = pc, !.run = r]
        BY <1>0, <1>g
    <2>2. exec' = [exec EXCEPT ![e] = exec'[e]]
        BY <1>0, <1>g, <2>1
    <2> DEFINE rec == [Idle EXCEPT !.pc = pc]
    <2>a. rec \in ExecRecord /\ rec.pc = pc
        BY IdleOK
    <2>b. exec'[e] = [rec EXCEPT !.run = r]
        BY <2>1
    <2> HIDE DEF rec
    <2>3. exec'[e] \in ExecRecord /\ exec'[e].pc = pc /\ exec'[e].run = r
        BY <2>a, <2>b
    <2> QED BY <1>c, <1>g, <2>2, <2>3
<1>1. ASSUME NEW r \in Runs, claimQueued(e, r) \/ reclaim(e, r)
      PROVE  exec' = [exec EXCEPT ![e] = exec'[e]] /\ RecordOK(exec[e])'
    <2>1. Created(r)
        BY <1>1 DEF claimQueued, reclaim, ClaimQueued, ClaimReclaimable, Absent
    <2> DEFINE pc == IF IsPoison(attempts'[r]) THEN "poison" ELSE "opening"
    <2>2. exec' = [exec EXCEPT ![e] = [Idle EXCEPT !.pc = pc, !.run = r]]
        BY <1>1 DEF claimQueued, reclaim, Take
    <2>3. pc \in {"poison", "opening", "resuming"}
        OBVIOUS
    <2> HIDE DEF pc
    <2> QED BY <1>g, <2>1, <2>2, <2>3
<1>2. ASSUME NEW r \in Runs, resumeChecks(e, r)
      PROVE  exec' = [exec EXCEPT ![e] = exec'[e]] /\ RecordOK(exec[e])'
    <2>1. Created(r)
        BY <1>2 DEF resumeChecks, Absent
    <2> QED BY <1>2, <1>g, <2>1 DEF resumeChecks
<1>3. CASE resumeApproves(e) \/ resumeDenies(e)
    BY <1>3, <1>d, <1>e DEF resumeApproves, resumeDenies
<1>4. CASE Crash(e) \/ deadLetterPoison(e) \/ releaseOnDrain(e)
    BY <1>4, <1>f DEF Crash, deadLetterPoison, releaseOnDrain
<1>5. CASE heartbeatRenews(e)
    BY <1>0, <1>5, <1>a DEF heartbeatRenews
<1>6. CASE heartbeatLeaseLost(e)
    BY <1>0, <1>6, <1>a DEF heartbeatLeaseLost
<1>7. CASE selfFence(e)
    <2>1. exec'[e] = [exec[e] EXCEPT !.stopped = TRUE, !.fenced = TRUE]
        BY <1>0, <1>7 DEF selfFence
    <2>2. exec' = [exec EXCEPT ![e] = exec'[e]]
        BY <1>0, <1>7, <2>1 DEF selfFence
    <2> QED BY <1>0, <1>a, <2>1, <2>2
<1>8. CASE Drain(e)
    BY <1>0, <1>8, <1>a DEF Drain
<1>9. CASE drainGraceOver(e)
    BY <1>0, <1>9, <1>a DEF drainGraceOver
<1> QED
    BY <1>1, <1>2, <1>3, <1>4, <1>5, <1>6, <1>7, <1>8, <1>9 DEF HolderStep

\* Every step keeps the executors' records in order.
LEMMA RecordsKept ==
    ASSUME WTypeOK, Delegating, [Next]_vars, [WNext]_wvars
    PROVE  ExecOK'
<1>1. ASSUME UNCHANGED exec PROVE ExecOK'
    <2>1. ExecOK /\ TypeOK
        BY ExecOKForm DEF WTypeOK
    <2>2. \A r \in Runs : Created(r) => Created(r)'
        BY <2>1, TerminalFrozen DEF Created
    <2> QED BY <1>1, <2>1, <2>2 DEF ExecOK, RecordOK
<1>2. ASSUME NEW r \in Runs, ApiStep(r), ~(\E e \in Inline : resumeChecks(e, r))
      PROVE  UNCHANGED exec
    BY <1>2 DEF ApiStep, handleCreateRun, handleCancelRun, cascadeLists, cascadeCancels,
          spawnChecks, spawnReserves, spawnCreates, ToSpawn, sweepWaiting, LeaseRunsOut,
          LeaseLapses
<1>3. CASE UNCHANGED wvars
    BY <1>1, <1>3 DEF wvars
<1> QED BY <1>1, <1>2, <1>3, ExecuteKeeps, OthersKeep DEF WNext, Execs

\* The rest of the state has its types.
LEMMA QueuesKept ==
    ASSUME WTypeOK, [WNext]_wvars
    PROVE  /\ lapses' \in 0..MaxLapses /\ listing' \subseteq Runs
           /\ todo' \in [Runs -> SUBSET Runs]
           /\ spawning' \in [Runs -> {"none", "checked", "reserved"}]
<1> USE DEF WTypeOK
<1>1. ASSUME NEW e \in Execs, ExecuteStep(e)
      PROVE  UNCHANGED <<lapses, listing, todo, spawning>>
    BY <1>1 DEF ExecuteStep, Open, InvokeAnswer, InvokeAborted, InvokePause, InvokeDelegate,
          WriteTerminal, WritePause, Reserve, WriteSuspend
<1>2. ASSUME NEW e \in Execs, Crash(e) \/ resumeApproves(e) \/ resumeDenies(e)
      PROVE  UNCHANGED <<lapses, listing, todo, spawning>>
    BY <1>2 DEF Crash, resumeApproves, resumeDenies
<1>3. ASSUME NEW w \in Workers,
             HolderStep(w) \/ \E r \in Runs : claimQueued(w, r) \/ reclaim(w, r)
      PROVE  UNCHANGED <<lapses, listing, todo, spawning>>
    BY <1>3 DEF HolderStep, deadLetterPoison, heartbeatRenews, heartbeatLeaseLost, selfFence,
          Drain, drainGraceOver, releaseOnDrain, claimQueued, reclaim
<1>4. ASSUME NEW r \in Runs, ApiStep(r)
      PROVE  /\ lapses' \in 0..MaxLapses /\ listing' \subseteq Runs
             /\ todo' \in [Runs -> SUBSET Runs]
             /\ spawning' \in [Runs -> {"none", "checked", "reserved"}]
    <2>1. CASE LeaseLapses(r)
        BY <2>1, ExecutorAssumption DEF LeaseLapses
    <2>2. CASE spawnChecks(r) \/ spawnReserves(r) \/ spawnCreates(r)
        BY <2>2 DEF spawnChecks, spawnReserves, spawnCreates, ToSpawn
    <2>3. CASE cascadeLists(r)
        BY <2>3 DEF cascadeLists, LiveBelow, Below
    <2>4. ASSUME NEW x \in Runs, cascadeCancels(r, x)
          PROVE  UNCHANGED <<lapses, listing, spawning>> /\ todo' \in [Runs -> SUBSET Runs]
        BY <2>4 DEF cascadeCancels
    <2>5. CASE handleCancelRun(r)
        BY <2>5 DEF handleCancelRun
    <2> QED BY <1>4, <2>1, <2>2, <2>3, <2>4, <2>5
            DEF ApiStep, handleCreateRun, resumeChecks, sweepWaiting, LeaseRunsOut
<1>5. CASE UNCHANGED wvars
    BY <1>5 DEF wvars
<1> QED BY <1>1, <1>2, <1>3, <1>4, <1>5 DEF WNext, Execs

\* Type correctness of the executors is inductive together with Delegating.
LEMMA WTypeStep ==
    ASSUME WTypeOK, Delegating, [WNext]_wvars
    PROVE  WTypeOK' /\ Delegating' /\ [Next]_vars
<1>1. [Next]_vars
    BY UsesStore, StoreOpIsNext
<1>2. TypeOK'
    BY <1>1, TypeStep DEF WTypeOK
<1>3. ExecOK'
    BY <1>1, RecordsKept
<1> QED BY <1>1, <1>2, <1>3, QueuesKept DEF WTypeOK, Delegating, ExecOK, RecordOK, At

\* The initial state is in order.
LEMMA WTypeInit == WInit => WTypeOK /\ Delegating /\ Init
<1> SUFFICES ASSUME WInit PROVE WTypeOK /\ Delegating /\ Init
    OBVIOUS
<1>1. TypeOK
    BY BoundAssumption DEF WInit, Init, TypeOK, Leases, WaitMode
<1>2. \A e \in Execs : exec[e] = Idle
    BY DEF WInit
<1>3. exec \in [Execs -> ExecRecord]
    BY IdleOK DEF WInit
<1>4. lapses \in 0..MaxLapses
    BY ExecutorAssumption DEF WInit
<1> QED BY <1>1, <1>2, <1>3, <1>4 DEF WInit, WTypeOK, Delegating, At, Idle

\* The executors' state has its types in every execution, with any number of
\* workers, runs and faults: an execution in progress is of a run that has a
\* row, and a countdown of reservations never passes zero.
THEOREM WTypeCorrect == WSpec => [](WTypeOK /\ Delegating)
BY WTypeInit, WTypeStep, PTL DEF WSpec

\* The executors, the API, the crashes and the clock use the store only
\* through its operations: the system is a client of RunStore.
THEOREM WorkersUseStore == WSpec => Spec
BY WTypeCorrect, WTypeInit, WTypeStep, PTL DEF WSpec, Spec

-------------------------------------------------------------------------------
(* No lost wakeup.                                                         *)

\* A run waits only for its own children.
WaitsOnChildren == \A p \in Runs : waitOn[p] \subseteq Children(p)

\* NoLostWakeup is inductive with WaitsOnChildren and ParkedConsistent: the
\* end of an execution finds the parent that waits for it, and the parent's
\* wait set is built from children that are not terminal.
LEMMA WakeupStep ==
    ASSUME TypeOK, ParkedConsistent, WaitsOnChildren, NoLostWakeup,
           StoreOp \/ Claiming \/ UNCHANGED vars
    PROVE  WaitsOnChildren' /\ NoLostWakeup'
<1> USE ParentAssumption
<1> USE DEF TypeOK, WaitsOnChildren, NoLostWakeup, Children
<1>1. ASSUME NEW r \in Runs, Create(r) PROVE WaitsOnChildren' /\ NoLostWakeup'
    BY <1>1 DEF Create
<1>2. ASSUME NEW r \in Runs, NEW to \in {"running", "requires_action", "cancelled"}, Update(r, to)
      PROVE  WaitsOnChildren' /\ NoLostWakeup'
    BY <1>2 DEF Update, ClearWait
<1>3. ASSUME NEW r \in Runs, NEW to \in {"succeeded", "failed"}, ParentOf[r] = NoRun,
             Update(r, to)
      PROVE  WaitsOnChildren' /\ NoLostWakeup'
    BY <1>3 DEF Update, ClearWait
<1>4. ASSUME NEW r \in Runs, NEW to \in {"succeeded", "failed"}, CompleteAndWake(r, to)
      PROVE  WaitsOnChildren' /\ NoLostWakeup'
    <2>1. \A p \in Runs : waitOn'[p] \subseteq waitOn[p]
        BY <1>4 DEF CompleteAndWake, WakeWaiters
    <2>2. \A p \in Runs : r \notin waitOn'[p]
        <3> SUFFICES ASSUME NEW p \in Runs, r \in waitOn[p] PROVE r \notin waitOn'[p]
            BY <2>1
        <3>1. p \in Waiters(r)
            BY DEF Waiters, ParkedConsistent
        <3> QED BY <1>4, <3>1 DEF CompleteAndWake, WakeWaiters
    <2>3. \A x \in Runs \ {r} : status'[x] = status[x] \/ status'[x] = "queued"
        BY <1>4 DEF CompleteAndWake, WakeWaiters
    <2> QED BY <2>1, <2>2, <2>3
<1>5. ASSUME NEW r \in Runs, NEW children \in SUBSET Children(r), SuspendOnDelegate(r, children)
      PROVE  WaitsOnChildren' /\ NoLostWakeup'
    <2> DEFINE st == Upserted(children)
               remaining == {c \in children : ~IsTerminal(st[c])}
    <2>1. \A x \in Runs : st[x] = status[x] \/ st[x] = "queued"
        BY DEF Upserted
    <2>2. waitOn' = [waitOn EXCEPT ![r] = remaining] \/ waitOn' = [waitOn EXCEPT ![r] = {}]
        BY <1>5 DEF SuspendOnDelegate, suspendToWaiting, ClearWait
    <2>3. st \in [Runs -> Status \cup {Absent}]
        BY DEF Upserted, Status
    <2>4. status' = [st EXCEPT ![r] = "waiting"] \/ status' = [st EXCEPT ![r] = "queued"]
        BY <1>5 DEF SuspendOnDelegate
    <2>5. \A x \in Runs : status'[x] = st[x] \/ status'[x] \in {"waiting", "queued"}
        BY <2>3, <2>4
    <2>6. \A c \in remaining : st[c] \notin {"succeeded", "failed"}
        BY DEF IsTerminal, Terminal
    <2> HIDE DEF st
    <2>7. WaitsOnChildren'
        BY <2>2
    <2> QED BY <2>1, <2>2, <2>5, <2>6, <2>7
<1>6. ASSUME NEW r \in Runs, SweepWaiting(r) PROVE WaitsOnChildren' /\ NoLostWakeup'
    BY <1>6 DEF SweepWaiting, ClearWait
<1>7. ASSUME NEW r \in Runs, ExpireLease(r) \/ ReserveSpawn(r)
      PROVE  WaitsOnChildren' /\ NoLostWakeup'
    BY <1>7 DEF ExpireLease, ReserveSpawn
<1>8. ASSUME NEW w \in Workers, NEW r \in Runs,
             \/ Heartbeat(w, r) \/ ReleaseLease(w, r)
             \/ ClaimQueued(w, r) \/ ClaimReclaimable(w, r)
      PROVE  WaitsOnChildren' /\ NoLostWakeup'
    BY <1>8 DEF ClaimQueued, Heartbeat, ReleaseLease, ClaimReclaimable
<1>9. CASE UNCHANGED vars
    BY <1>9 DEF vars
<1> QED BY <1>1, <1>2, <1>3, <1>4, <1>5, <1>6, <1>7, <1>8, <1>9
    DEF StoreOp, Claiming, claimQueued, reclaim

\* A parked run never waits for a child whose execution has ended: whatever
\* crashes, zombies, cancels and resumes do, CompleteAndWake and the two
\* suspensions between them leave no such child in a wait set.
THEOREM WakeupNeverLost == WSpec => []NoLostWakeup
<1>1. WInit => WaitsOnChildren /\ NoLostWakeup
    BY DEF WInit, Init, WaitsOnChildren, NoLostWakeup
<1>2. WTypeOK /\ Delegating /\ ParkedConsistent /\ WaitsOnChildren /\ NoLostWakeup /\ [WNext]_wvars
          => WaitsOnChildren' /\ NoLostWakeup'
    BY UsesStore, WakeupStep DEF WTypeOK
<1>3. WSpec => []ParkedConsistent
    BY WorkersUseStore, ParkedAlways, PTL
<1> QED BY <1>1, <1>2, <1>3, WTypeCorrect, PTL DEF WSpec

-------------------------------------------------------------------------------
(* How an executor comes to be in executeRun.                              *)

\* A step of executeRun is of an execution in progress: it leaves the other
\* executors alone, and it stays on its run, or returns.
LEMMA ExecuteShape ==
    ASSUME WTypeOK, NEW e \in Execs, ExecuteStep(e)
    PROVE  /\ InRun(e)
           /\ \A f \in Execs \ {e} : exec'[f] = exec[f]
           /\ exec'[e] = Idle \/ exec'[e].run = exec[e].run
<1> DEFINE Goal == /\ InRun(e)
                   /\ \A f \in Execs \ {e} : exec'[f] = exec[f]
                   /\ exec'[e] = Idle \/ exec'[e].run = exec[e].run
<1> USE DEF At, InRun
<1>0. exec \in [Execs -> ExecRecord] /\ exec[e] \in ExecRecord
    BY DEF WTypeOK
<1>a. ASSUME Return(e), InRun(e) PROVE Goal
    BY <1>0, <1>a DEF Return, ExecRecord
<1>b. ASSUME NEW pc, Goto(e, pc), InRun(e) PROVE Goal
    BY <1>0, <1>b DEF Goto, ExecRecord
<1>c. ASSUME FailDelegation(e), InRun(e) PROVE Goal
    <2>1. exec'[e] = [exec[e] EXCEPT !.pc = "finish", !.out = "failed", !.left = 0]
        BY <1>0, <1>c DEF FailDelegation
    <2>2. exec'[e].run = exec[e].run
        BY <1>0, <2>1 DEF ExecRecord
    <2> QED BY <1>0, <1>c, <2>2 DEF FailDelegation
<1>1. CASE Open(e)
    BY <1>1, <1>a, <1>b DEF Open
<1>2. ASSUME NEW out, InvokeAnswer(e, out) PROVE Goal
    <2>1. exec'[e] = [exec[e] EXCEPT !.pc = "finish", !.out = out]
        BY <1>0, <1>2 DEF InvokeAnswer
    <2>2. exec'[e].run = exec[e].run
        BY <1>0, <2>1 DEF ExecRecord
    <2> QED BY <1>0, <1>2, <2>2 DEF InvokeAnswer
<1>3. CASE InvokeAborted(e)
    <2>1. exec'[e] = [exec[e] EXCEPT !.pc = "finish", !.out = "aborted"]
        BY <1>0, <1>3 DEF InvokeAborted
    <2>2. exec'[e].run = exec[e].run
        BY <1>0, <2>1 DEF ExecRecord
    <2> QED BY <1>0, <1>3, <2>2 DEF InvokeAborted
<1>4. CASE InvokePause(e)
    BY <1>4, <1>b DEF InvokePause
<1>5. ASSUME NEW kids, InvokeDelegate(e, kids) PROVE Goal
    <2>1. exec'[e] = [exec[e] EXCEPT !.pc = "reserve", !.kids = kids, !.left = Cardinality(kids)]
        BY <1>0, <1>5 DEF InvokeDelegate
    <2>2. exec'[e].run = exec[e].run
        BY <1>0, <2>1 DEF ExecRecord
    <2> QED BY <1>0, <1>5, <2>2 DEF InvokeDelegate
<1>6. CASE WriteTerminal(e) \/ WritePause(e)
    BY <1>6, <1>a DEF WriteTerminal, WritePause
<1>7. CASE Reserve(e)
    <2>1. CASE Reserved(e)
        <3>1. exec'[e] = [exec[e] EXCEPT !.left = @ - 1,
                             !.pc = IF exec[e].left = 1 THEN "suspend" ELSE "reserve"]
            BY <1>0, <2>1 DEF Reserved
        <3>2. exec'[e].run = exec[e].run
            BY <1>0, <3>1 DEF ExecRecord
        <3> QED BY <1>0, <1>7, <2>1, <3>2 DEF Reserve, Reserved
    <2> QED BY <1>7, <1>c, <2>1 DEF Reserve
<1>8. CASE WriteSuspend(e)
    BY <1>8, <1>a, <1>c DEF WriteSuspend
<1> QED BY <1>1, <1>2, <1>3, <1>4, <1>5, <1>6, <1>7, <1>8 DEF ExecuteStep

\* A step of a heartbeat or of a drain, a dead-letter or a crash changes one
\* executor and starts no execution.
LEMMA HolderShape ==
    ASSUME WTypeOK, NEW e \in Execs, HolderStep(e) \/ Crash(e)
    PROVE  /\ \A f \in Execs \ {e} : exec'[f] = exec[f]
           /\ InRun(e)' => InRun(e) /\ exec'[e].run = exec[e].run
<1> DEFINE Goal == /\ \A f \in Execs \ {e} : exec'[f] = exec[f]
                   /\ InRun(e)' => InRun(e) /\ exec'[e].run = exec[e].run
<1> USE DEF At, InRun
<1>0. exec \in [Execs -> ExecRecord] /\ exec[e] \in ExecRecord
    BY DEF WTypeOK
<1>1. ASSUME exec' = [exec EXCEPT ![e] = Idle] PROVE Goal
    BY <1>0, <1>1 DEF Idle
<1>2. CASE Crash(e) \/ deadLetterPoison(e) \/ releaseOnDrain(e)
    BY <1>1, <1>2 DEF Crash, deadLetterPoison, releaseOnDrain
<1>3. CASE heartbeatRenews(e)
    BY <1>3 DEF heartbeatRenews, Beating
<1>4. CASE heartbeatLeaseLost(e) \/ drainGraceOver(e) \/ Drain(e)
    BY <1>0, <1>4 DEF heartbeatLeaseLost, drainGraceOver, Drain, Beating, ExecRecord
<1>5. CASE selfFence(e)
    <2>1. exec'[e] = [exec[e] EXCEPT !.stopped = TRUE, !.fenced = TRUE]
        BY <1>0, <1>5 DEF selfFence
    <2>2. exec'[e].run = exec[e].run
        BY <1>0, <2>1 DEF ExecRecord
    <2> QED BY <1>0, <1>5, <2>2 DEF selfFence, Beating
<1> QED BY <1>2, <1>3, <1>4, <1>5 DEF HolderStep

\* Only the approval of a resume request starts an inline execution.
LEMMA ResumeShape ==
    ASSUME WTypeOK, NEW e \in Execs,
           resumeApproves(e) \/ resumeDenies(e) \/ \E r \in Runs : resumeChecks(e, r)
    PROVE  /\ \A f \in Execs \ {e} : exec'[f] = exec[f]
           /\ InRun(e)' => resumeApproves(e) /\ exec'[e].run = exec[e].run
<1> DEFINE Goal == /\ \A f \in Execs \ {e} : exec'[f] = exec[f]
                   /\ InRun(e)' => resumeApproves(e) /\ exec'[e].run = exec[e].run
<1> USE DEF InRun
<1>0. exec \in [Execs -> ExecRecord] /\ exec[e] \in ExecRecord
    BY DEF WTypeOK
<1>1. ASSUME Return(e) PROVE Goal
    BY <1>0, <1>1 DEF Return, ExecRecord, Idle
<1>2. ASSUME NEW r \in Runs, resumeChecks(e, r) PROVE Goal
    <2>1. exec'[e] = [Idle EXCEPT !.pc = "resuming", !.run = r]
        BY <1>0, <1>2 DEF resumeChecks
    <2>2. exec'[e].pc = "resuming"
        BY <2>1 DEF Idle
    <2> QED BY <1>0, <1>2, <2>2 DEF resumeChecks
<1>3. CASE resumeApproves(e)
    <2>1. CASE Goto(e, "opening")
        BY <1>0, <1>3, <2>1 DEF Goto, ExecRecord
    <2> QED BY <1>1, <1>3, <2>1 DEF resumeApproves
<1> QED BY <1>1, <1>2, <1>3 DEF resumeDenies

\* An execution is in executeRun because it was, or because of a claim whose
\* run is not poison, or, for an inline one, an approved resume.
LEMMA InRunShape ==
    ASSUME WTypeOK, [WNext]_wvars, NEW e \in Execs, InRun(e)'
    PROVE  \/ InRun(e) /\ exec'[e].run = exec[e].run
           \/ /\ e \in Workers /\ (claimQueued(e, exec'[e].run) \/ reclaim(e, exec'[e].run))
              /\ exec'[e].run \in Runs /\ ~IsPoison(attempts'[exec'[e].run])
           \/ e \in Inline /\ resumeApproves(e) /\ exec'[e].run = exec[e].run
<1> DEFINE Goal ==
           \/ InRun(e) /\ exec'[e].run = exec[e].run
           \/ /\ e \in Workers /\ (claimQueued(e, exec'[e].run) \/ reclaim(e, exec'[e].run))
              /\ exec'[e].run \in Runs /\ ~IsPoison(attempts'[exec'[e].run])
           \/ e \in Inline /\ resumeApproves(e) /\ exec'[e].run = exec[e].run
<1>0. exec \in [Execs -> ExecRecord] /\ exec[e] \in ExecRecord
    BY DEF WTypeOK
<1>a. ASSUME exec'[e] = exec[e] PROVE Goal
    BY <1>a DEF InRun
<1>1. ASSUME NEW f \in Execs, ExecuteStep(f) PROVE Goal
    BY <1>1, <1>a, ExecuteShape DEF Idle, InRun
<1>2. ASSUME NEW f \in Execs, Crash(f) PROVE Goal
    BY <1>0, <1>2, <1>a DEF Crash, Idle, InRun
<1>3. ASSUME NEW f \in Inline, resumeApproves(f) \/ resumeDenies(f) PROVE Goal
    <2>1. f \in Execs
        BY DEF Execs
    <2> QED BY <1>3, <1>a, <2>1, ResumeShape
<1>4. ASSUME NEW w \in Workers, HolderStep(w) PROVE Goal
    <2>1. w \in Execs
        BY DEF Execs
    <2> QED BY <1>4, <1>a, <2>1, HolderShape
<1>5. ASSUME NEW w \in Workers, NEW r \in Runs, claimQueued(w, r) \/ reclaim(w, r)
      PROVE  Goal
    <2>1. w \in Execs
        BY DEF Execs
    <2>2. CASE w = e
        <3> DEFINE pc == IF IsPoison(attempts'[r]) THEN "poison" ELSE "opening"
        <3>1. exec'[e] = [Idle EXCEPT !.pc = pc, !.run = r]
            BY <1>0, <1>5, <2>2 DEF claimQueued, reclaim, Take
        <3>2. exec'[e].run = r /\ exec'[e].pc = pc
            BY <3>1 DEF Idle
        <3> QED BY <1>5, <2>2, <3>2 DEF InRun
    <2>3. CASE w # e
        <3>1. exec'[e] = exec[e]
            BY <1>0, <1>5, <2>3 DEF claimQueued, reclaim, Take
        <3> QED BY <1>a, <3>1
    <2> QED BY <2>2, <2>3
<1>6. ASSUME NEW r \in Runs, ApiStep(r) PROVE Goal
    <2>1. ASSUME NEW f \in Inline, resumeChecks(f, r) PROVE Goal
        <3>1. f \in Execs
            BY DEF Execs
        <3>2. ~resumeApproves(f)
            BY <2>1 DEF resumeChecks, resumeApproves, At
        <3> QED BY <1>a, <2>1, <3>1, <3>2, ResumeShape
    <2> QED BY <1>6, <1>a, <2>1 DEF ApiStep, handleCreateRun, handleCancelRun, cascadeLists,
              cascadeCancels, spawnChecks, spawnReserves, spawnCreates, ToSpawn, sweepWaiting,
              LeaseRunsOut, LeaseLapses
<1>7. CASE UNCHANGED wvars
    BY <1>7, <1>a DEF wvars
<1> QED BY <1>1, <1>2, <1>3, <1>4, <1>5, <1>6, <1>7 DEF WNext

-------------------------------------------------------------------------------
(* A poison run is not executed by the worker that holds it.               *)

\* Only a claim names a worker or counts an attempt.
LEMMA WorkerFrame ==
    ASSUME TypeOK, StoreOp \/ UNCHANGED vars, NEW r \in Runs, NEW w \in Workers,
           worker'[r] = w
    PROVE  worker[r] = w /\ attempts'[r] = attempts[r]
<1> USE WorkerAssumption DEF TypeOK
<1>1. ASSUME NEW x \in Runs, Create(x) PROVE worker[r] = w /\ attempts'[r] = attempts[r]
    BY <1>1 DEF Create
<1>2. ASSUME NEW x \in Runs, NEW to, Update(x, to) \/ CompleteAndWake(x, to)
      PROVE  worker[r] = w /\ attempts'[r] = attempts[r]
    BY <1>2 DEF Update, CompleteAndWake
<1>3. ASSUME NEW x \in Runs, NEW children, SuspendOnDelegate(x, children)
      PROVE  worker[r] = w /\ attempts'[r] = attempts[r]
    BY <1>3 DEF SuspendOnDelegate, suspendToWaiting, DropLease
<1>4. ASSUME NEW x \in Runs, SweepWaiting(x) \/ ExpireLease(x) \/ ReserveSpawn(x)
      PROVE  worker[r] = w /\ attempts'[r] = attempts[r]
    BY <1>4 DEF SweepWaiting, ExpireLease, ReserveSpawn
<1>5. ASSUME NEW v \in Workers, NEW x \in Runs, Heartbeat(v, x) \/ ReleaseLease(v, x)
      PROVE  worker[r] = w /\ attempts'[r] = attempts[r]
    BY <1>5 DEF Heartbeat, ReleaseLease
<1>6. CASE UNCHANGED vars
    BY <1>6 DEF vars
<1> QED BY <1>1, <1>2, <1>3, <1>4, <1>5, <1>6 DEF StoreOp

\* A run past the cap is given to no execution, and an attempt is counted only
\* by a claim, which an executing worker does not make: PoisonNeverRuns is
\* inductive with the types.
LEMMA PoisonStep ==
    ASSUME WTypeOK, Delegating, PoisonNeverRuns, [WNext]_wvars
    PROVE  PoisonNeverRuns'
<1> SUFFICES ASSUME NEW w \in Workers, NEW r \in Runs, Executes(w, r)', worker'[r] = w
             PROVE  attempts'[r] <= PoisonCap
    BY DEF PoisonNeverRuns
<1>0. w \in Execs /\ w \notin Inline /\ exec'[w].run = r /\ TypeOK /\ TypeOK'
    BY ExecutorAssumption, WTypeStep DEF Execs, Executes, WTypeOK
<1>1. CASE claimQueued(w, r) \/ reclaim(w, r)
    <2>1. ~InRun(w)
        BY <1>1 DEF claimQueued, reclaim, At, InRun
    <2>2. ~IsPoison(attempts'[r])
        BY <1>0, <2>1, InRunShape DEF Executes
    <2> QED BY <1>0, <2>2, BoundAssumption, ExecutorAssumption DEF IsPoison, TypeOK
<1>2. CASE ~(claimQueued(w, r) \/ reclaim(w, r))
    <2>1. Executes(w, r)
        BY <1>0, <1>2, InRunShape DEF Executes
    <2>2. ASSUME NEW v \in Workers, NEW x \in Runs, claimQueued(v, x) \/ reclaim(v, x)
          PROVE  worker[r] = w /\ attempts'[r] = attempts[r]
        <3>1. v # w
            BY <2>1, <2>2 DEF claimQueued, reclaim, At, Executes, InRun
        <3> QED BY <1>0, <2>2, <3>1 DEF claimQueued, reclaim, ClaimQueued, ClaimReclaimable,
                  TakeLease, TypeOK
    <2>3. worker[r] = w /\ attempts'[r] = attempts[r]
        BY <1>0, <2>2, UsesStore, WorkerFrame DEF Claiming
    <2> QED BY <2>1, <2>3 DEF PoisonNeverRuns
<1> QED BY <1>1, <1>2

\* A run that was reclaimed more often than poisonRedeliveryCap is never in
\* executeRun at the worker that its row names.
THEOREM PoisonIsNotRun == WSpec => []PoisonNeverRuns
<1>1. WInit => PoisonNeverRuns
    BY DEF WInit, PoisonNeverRuns, Executes, InRun, Idle, Execs
<1> QED BY <1>1, PoisonStep, WTypeCorrect, PTL DEF WSpec
===============================================================================
