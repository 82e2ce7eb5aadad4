-------------------------- MODULE RunExclusionProofs --------------------------
(***************************************************************************)
(* The proof that leases exclude: with no inline execution and until a     *)
(* lease lapses under a live holder, one run has one execution, however    *)
(* workers crash, drain, reclaim and are fenced, and users cancel.         *)
(***************************************************************************)
EXTENDS RunWorkersProofs

-------------------------------------------------------------------------------
(* The inductive invariant.                                                *)

\* The row names w, under a live lease; or the run is over.
Held(w, r) ==
    \/ IsTerminal(status[r])
    \/ status[r] = "running" /\ worker[r] = w /\ lease[r] = "live"

\* A worker in executeRun holds its run.
ExecutorsHold ==
    \A w \in Workers, r \in Runs : Executes(w, r) => Held(w, r)

\* Two executions are never of one run.
OneExecutor ==
    \A e, f \in Workers, r \in Runs : Executes(e, r) /\ Executes(f, r) => e = f

-------------------------------------------------------------------------------
(* What the store's operations do to a held run.                           *)

\* Operations that cannot take a held run from its worker, whatever run they
\* are on: they end it, or their guards do not fit it.
LEMMA HeldFrame ==
    ASSUME TypeOK, NEW w \in Workers, NEW r \in Runs, Held(w, r), NEW x \in Runs,
           \/ Create(x) \/ Update(x, "running") \/ Update(x, "cancelled")
           \/ \E to \in {"succeeded", "failed"} : Update(x, to) \/ CompleteAndWake(x, to)
           \/ SweepWaiting(x) \/ ReserveSpawn(x)
           \/ \E v \in Workers : \/ Heartbeat(v, x) \/ ClaimQueued(v, x)
                                 \/ ClaimReclaimable(v, x)
           \/ UNCHANGED vars
    PROVE  Held(w, r)'
<1> USE DEF TypeOK, Held, IsTerminal, Terminal
<1>1. CASE Create(x)
    BY <1>1 DEF Create, Created, Absent
<1>2. ASSUME NEW to \in {"running", "cancelled", "succeeded", "failed"}, Update(x, to)
      PROVE  Held(w, r)'
    BY <1>2 DEF Update, CanTransition, transitions, Status
<1>3. ASSUME NEW to \in {"succeeded", "failed"}, CompleteAndWake(x, to)
      PROVE  Held(w, r)'
    BY <1>3 DEF CompleteAndWake, WakeWaiters, Woken, Waiters
<1>4. CASE SweepWaiting(x) \/ ReserveSpawn(x)
    BY <1>4 DEF SweepWaiting, ReserveSpawn
<1>5. ASSUME NEW v \in Workers,
             Heartbeat(v, x) \/ ClaimQueued(v, x) \/ ClaimReclaimable(v, x)
      PROVE  Held(w, r)'
    BY <1>5 DEF Heartbeat, ClaimQueued, ClaimReclaimable, TakeLease
<1>6. CASE UNCHANGED vars
    BY <1>6 DEF vars
<1> QED BY <1>1, <1>2, <1>3, <1>4, <1>5, <1>6

\* Operations that do take a run from its worker leave the others alone.
LEMMA HeldOther ==
    ASSUME TypeOK, NEW w \in Workers, NEW r \in Runs, Held(w, r), NEW x \in Runs,
           \/ x # r /\ (\/ Update(x, "requires_action") \/ ExpireLease(x)
                        \/ \E kids : SuspendOnDelegate(x, kids))
           \/ \E v \in Workers \ {w} : ReleaseLease(v, x)
    PROVE  Held(w, r)'
<1> USE DEF TypeOK, Held, IsTerminal, Terminal
<1>1. ASSUME NEW kids, x # r, SuspendOnDelegate(x, kids) PROVE Held(w, r)'
    <2>1. status'[r] = Upserted(kids)[r] /\ worker'[r] = worker[r] /\ lease'[r] = lease[r]
        <3>1. Upserted(kids) \in [Runs -> Status \cup {Absent}]
            BY DEF Upserted, Status
        <3> QED BY <1>1, <3>1 DEF SuspendOnDelegate, suspendToWaiting, DropLease
    <2>2. status[r] # Absent
        BY DEF Absent
    <2> QED BY <2>1, <2>2 DEF Upserted
<1>2. CASE x # r /\ (Update(x, "requires_action") \/ ExpireLease(x))
    BY <1>2 DEF Update, ExpireLease
<1>3. ASSUME NEW v \in Workers \ {w}, ReleaseLease(v, x) PROVE Held(w, r)'
    BY <1>3 DEF ReleaseLease, Holds
<1> QED BY <1>1, <1>2, <1>3

-------------------------------------------------------------------------------
(* The steps of the system.                                                *)

\* A worker that is in executeRun before and after a step of an executor is
\* still the holder: what could take its run away is a pause or a suspension
\* of that run, by the one execution of it, which then has returned.
LEMMA HeldByExecute ==
    ASSUME WTypeOK, Delegating, OneExecutor, Inline = {}, NEW e \in Execs, ExecuteStep(e),
           NEW w \in Workers, NEW r \in Runs, Executes(w, r), Executes(w, r)', Held(w, r)
    PROVE  Held(w, r)'
<1> USE DEF At, svars
<1>0. TypeOK /\ InRun(e) /\ e \in Workers /\ exec[e].run \in Runs
    BY ExecuteShape DEF WTypeOK, Execs, InRun
<1>a. ASSUME Return(e) PROVE exec[e].run # r
    <2>1. ~InRun(e)'
        BY <1>0, <1>a DEF Return, InRun, WTypeOK, ExecRecord, Idle, Execs
    <2>2. e # w
        BY <2>1 DEF Executes
    <2> QED BY <1>0, <2>2 DEF OneExecutor, Executes
<1>b. UNCHANGED vars => Held(w, r)'
    BY <1>0, HeldFrame
<1>1. CASE Open(e)
    BY <1>0, <1>1, <1>b, HeldFrame DEF Open
<1>2. CASE WriteTerminal(e)
    <2> DEFINE to == IF exec[e].out = "succeeded" THEN "succeeded" ELSE "failed"
    <2>1. TryTerminal(exec[e].run, to) \/ UNCHANGED vars
        BY <1>2 DEF WriteTerminal
    <2>2. to \in {"succeeded", "failed"}
        OBVIOUS
    <2> HIDE DEF to
    <2> QED BY <1>0, <1>b, <2>1, <2>2, HeldFrame DEF TryTerminal, terminalTransition
<1>3. CASE WritePause(e)
    BY <1>0, <1>3, <1>a, <1>b, HeldOther DEF WritePause
<1>4. CASE Reserve(e)
    <2>1. RootOf[exec[e].run] \in Runs
        BY <1>0, RootAssumption
    <2> QED BY <1>0, <1>4, <1>b, <2>1, HeldFrame DEF Reserve
<1>5. CASE WriteSuspend(e)
    BY <1>0, <1>5, <1>a, <1>b, HeldOther DEF WriteSuspend
<1> QED BY <1>1, <1>2, <1>3, <1>4, <1>5, <1>b
        DEF ExecuteStep, InvokeAnswer, InvokeAborted, InvokePause, InvokeDelegate

\* The same for the heartbeats, the drains and the dead-letters: a release is
\* of a worker that has returned.
LEMMA HeldByHolder ==
    ASSUME WTypeOK, NEW v \in Workers, HolderStep(v),
           NEW w \in Workers, NEW r \in Runs, Executes(w, r), Held(w, r)
    PROVE  Held(w, r)'
<1> USE DEF At, svars
<1>0. TypeOK /\ (exec[v].pc # "idle" => exec[v].run \in Runs)
    BY DEF WTypeOK, Execs
<1>b. UNCHANGED vars => Held(w, r)'
    BY <1>0, HeldFrame
<1>1. CASE deadLetterPoison(v)
    BY <1>0, <1>1, <1>b, HeldFrame DEF deadLetterPoison, TryTerminal, terminalTransition
<1>2. CASE heartbeatRenews(v)
    BY <1>0, <1>2, HeldFrame DEF heartbeatRenews, Beating, InRun
<1>3. CASE releaseOnDrain(v)
    <2>1. v # w
        BY <1>3 DEF releaseOnDrain, Executes, InRun
    <2> QED BY <1>0, <1>3, <1>b, <2>1, HeldOther DEF releaseOnDrain
<1> QED BY <1>1, <1>2, <1>3, <1>b
        DEF HolderStep, heartbeatLeaseLost, selfFence, Drain, drainGraceOver

\* The same for the API, the sweep and the clock: a lease runs out under no
\* live holder, and a lapse is counted.
LEMMA HeldByApi ==
    ASSUME WTypeOK, NEW x \in Runs, ApiStep(x), lapses = 0, lapses' = 0,
           NEW w \in Workers, NEW r \in Runs, Executes(w, r), Held(w, r)
    PROVE  Held(w, r)'
<1> USE DEF svars
<1>0. TypeOK
    BY DEF WTypeOK
<1>b. UNCHANGED vars => Held(w, r)'
    BY <1>0, HeldFrame
<1>1. CASE LeaseRunsOut(x)
    <2>1. CASE IsTerminal(status[r])
        BY <1>0, <1>1, <2>1 DEF LeaseRunsOut, ExpireLease, Held
    <2>2. CASE ~IsTerminal(status[r])
        <3>1. x # r
            BY <1>1, <2>2 DEF LeaseRunsOut, HolderLives, Held, Executes
        <3> QED BY <1>0, <1>1, <3>1, HeldOther DEF LeaseRunsOut
    <2> QED BY <2>1, <2>2
<1>2. CASE LeaseLapses(x)
    BY <1>2 DEF LeaseLapses
<1>3. ASSUME NEW y \in Runs, cascadeCancels(x, y) PROVE Held(w, r)'
    BY <1>0, <1>3, <1>b, HeldFrame DEF cascadeCancels
<1>4. CASE spawnReserves(x)
    <2>1. RootOf[x] \in Runs
        BY RootAssumption
    <2> QED BY <1>0, <1>4, <1>b, <2>1, HeldFrame DEF spawnReserves
<1>5. CASE spawnCreates(x)
    BY <1>0, <1>5, <1>b, HeldFrame DEF spawnCreates
<1>6. CASE handleCreateRun(x) \/ handleCancelRun(x) \/ sweepWaiting(x)
    BY <1>0, <1>6, HeldFrame DEF handleCreateRun, handleCancelRun, sweepWaiting
<1> QED BY <1>1, <1>2, <1>3, <1>4, <1>5, <1>6, <1>b
        DEF ApiStep, cascadeLists, resumeChecks, spawnChecks

\* Who executes a run before and after a step keeps holding it.
LEMMA HeldStep ==
    ASSUME WTypeOK, Delegating, OneExecutor, Inline = {}, [WNext]_wvars,
           lapses = 0, lapses' = 0,
           NEW w \in Workers, NEW r \in Runs, Executes(w, r), Executes(w, r)', Held(w, r)
    PROVE  Held(w, r)'
<1>0. TypeOK
    BY DEF WTypeOK
<1>1. ASSUME NEW v \in Workers, NEW x \in Runs, claimQueued(v, x) \/ reclaim(v, x)
      PROVE  Held(w, r)'
    BY <1>0, <1>1, HeldFrame DEF claimQueued, reclaim
<1>2. ASSUME UNCHANGED vars PROVE Held(w, r)'
    BY <1>0, <1>2, HeldFrame
<1>3. ASSUME NEW e \in Execs, Crash(e) PROVE UNCHANGED vars
    BY <1>3 DEF Crash, svars
<1>4. CASE UNCHANGED wvars
    BY <1>2, <1>4 DEF wvars
<1> QED BY <1>1, <1>2, <1>3, <1>4, HeldByExecute, HeldByHolder, HeldByApi DEF WNext

\* A new execution begins with a claim, which the store gives of no held run.
LEMMA ClaimExcludes ==
    ASSUME WTypeOK, NEW w \in Workers, NEW r \in Runs, claimQueued(w, r) \/ reclaim(w, r)
    PROVE  Held(w, r)' /\ \A v \in Workers : ~Held(v, r)
BY DEF claimQueued, reclaim, ClaimQueued, ClaimReclaimable, TakeLease, Held, IsTerminal,
       Terminal, WTypeOK, TypeOK

\* The invariant is inductive until a lease lapses.
LEMMA ExclusionStep ==
    ASSUME WTypeOK, Delegating, OneExecutor, ExecutorsHold, Inline = {}, [WNext]_wvars,
           lapses = 0, lapses' = 0
    PROVE  OneExecutor' /\ ExecutorsHold'
<1>0. \A w \in Workers : w \in Execs
    BY DEF Execs
<1>1. ASSUME NEW w \in Workers, NEW r \in Runs, Executes(w, r)'
      PROVE  Executes(w, r) \/ claimQueued(w, r) \/ reclaim(w, r)
    BY <1>0, <1>1, InRunShape DEF Executes
<1>2. ExecutorsHold'
    <2> SUFFICES ASSUME NEW w \in Workers, NEW r \in Runs, Executes(w, r)'
                 PROVE  Held(w, r)'
        BY DEF ExecutorsHold
    <2> QED BY <1>1, HeldStep, ClaimExcludes DEF ExecutorsHold
<1>3. OneExecutor'
    <2> SUFFICES ASSUME NEW e \in Workers, NEW f \in Workers, NEW r \in Runs,
                        Executes(e, r)', Executes(f, r)', e # f
                 PROVE  FALSE
        BY DEF OneExecutor
    <2>1. CASE Executes(e, r) /\ Executes(f, r)
        BY <2>1 DEF OneExecutor
    <2>2. ASSUME NEW v \in Workers, NEW u \in Workers, v # u, Executes(v, r),
                 Executes(u, r)', claimQueued(u, r) \/ reclaim(u, r)
          PROVE  FALSE
        BY <2>2, ClaimExcludes DEF ExecutorsHold
    <2>3. CASE ~Executes(e, r) /\ ~Executes(f, r)
        <3>1. /\ claimQueued(e, r) \/ reclaim(e, r)
              /\ claimQueued(f, r) \/ reclaim(f, r)
            BY <1>1, <2>3
        <3>2. worker'[r] = e /\ worker'[r] = f
            BY <3>1 DEF claimQueued, reclaim, ClaimQueued, ClaimReclaimable, TakeLease,
                  WTypeOK, TypeOK
        <3> QED BY <3>2
    <2> QED BY <1>1, <2>1, <2>2, <2>3
<1> QED BY <1>2, <1>3

\* Lapses are only counted.
LEMMA LapsesGrow ==
    ASSUME WTypeOK, [WNext]_wvars PROVE lapses' = 0 => lapses = 0
<1> USE DEF WTypeOK
<1>1. ASSUME NEW e \in Execs, ExecuteStep(e) PROVE UNCHANGED lapses
    BY <1>1 DEF ExecuteStep, Open, InvokeAnswer, InvokeAborted, InvokePause, InvokeDelegate,
          WriteTerminal, WritePause, Reserve, WriteSuspend
<1>2. ASSUME NEW e \in Execs, Crash(e) \/ resumeApproves(e) \/ resumeDenies(e)
      PROVE  UNCHANGED lapses
    BY <1>2 DEF Crash, resumeApproves, resumeDenies
<1>3. ASSUME NEW w \in Workers,
             HolderStep(w) \/ \E r \in Runs : claimQueued(w, r) \/ reclaim(w, r)
      PROVE  UNCHANGED lapses
    BY <1>3 DEF HolderStep, deadLetterPoison, heartbeatRenews, heartbeatLeaseLost, selfFence,
          Drain, drainGraceOver, releaseOnDrain, claimQueued, reclaim
<1>4. ASSUME NEW r \in Runs, ApiStep(r) PROVE lapses' = 0 => lapses = 0
    <2>1. CASE LeaseLapses(r)
        BY <2>1, ExecutorAssumption DEF LeaseLapses
    <2> QED BY <1>4, <2>1 DEF ApiStep, handleCreateRun, handleCancelRun, cascadeLists,
              cascadeCancels, resumeChecks, spawnChecks, spawnReserves, spawnCreates,
              ToSpawn, sweepWaiting, LeaseRunsOut
<1>5. CASE UNCHANGED wvars
    BY <1>5 DEF wvars
<1> QED BY <1>1, <1>2, <1>3, <1>4, <1>5 DEF WNext, Execs

\* Where no resume starts an inline execution, and until a lease lapses under
\* a live holder, no run has two executions and a worker in executeRun on a
\* running run is the one its row names: claim, reclaim, heartbeat, release on
\* drain and the crashes between them never let a second worker in.
THEOREM OneExecution ==
    ASSUME Inline = {}
    PROVE  WSpec => [](lapses = 0 => ExclusiveExecution)
<1> DEFINE Inv == lapses = 0 => OneExecutor /\ ExecutorsHold
<1>1. WInit => Inv
    BY DEF WInit, OneExecutor, ExecutorsHold, Executes, InRun, Idle, Execs
<1>2. WTypeOK /\ Delegating /\ Inv /\ [WNext]_wvars => Inv'
    BY ExclusionStep, LapsesGrow
<1>3. Inv => (lapses = 0 => ExclusiveExecution)
    BY DEF ExclusiveExecution, OneExecutor, ExecutorsHold, Held, Execs, IsTerminal, Terminal
<1> QED BY <1>1, <1>2, <1>3, WTypeCorrect, PTL DEF WSpec
===============================================================================
