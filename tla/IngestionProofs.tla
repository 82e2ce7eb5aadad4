---------------------------- MODULE IngestionProofs ----------------------------
(***************************************************************************)
(* Proofs about Ingestion, for any list of documents, any chunks, any      *)
(* number of runs, workers and requests, and any faults.                   *)
(***************************************************************************)
EXTENDS Ingestion, RunStoreProofs, LeastNatural

-------------------------------------------------------------------------------
(* The types, and the document the loop picks.                             *)

Pcs == {"idle", "start", "next", "fetch", "upsert", "sweep", "persist",
        "complete", "succeed", "fail", "end"}

ExecRecord == [pc : Pcs, run : Runs \cup {NoRun}, done : SUBSET Docs,
               doc : Docs \cup {NoRun}, todo : SUBSET Chunks,
               stopped : BOOLEAN, fenced : BOOLEAN]

\* What each part of an execution's record may be.
RecordOK(e) ==
    /\ e.pc # "idle" => e.run \in Runs /\ Created(e.run)
    /\ e.pc = "idle" => e.run = NoRun
    /\ e.pc \in {"fetch", "upsert", "sweep"} => e.doc \in Docs \ e.done

\* The type invariant with the whole type of the records.
Typed ==
    /\ TypeOK
    /\ source \in [Docs -> SUBSET Chunks]
    /\ rows \in [Docs -> [Chunks -> Runs \cup {NoRun}]]
    /\ cursor \in [Runs -> SUBSET Docs]
    /\ corpus \in [phase : {"none", "Ready", "Failed"}, by : Runs \cup {NoRun}]
    /\ req \in [Requesters -> {"idle", "insert"}]
    /\ hist \in [last : Runs \cup {NoRun}, overlap : BOOLEAN, lapsed : BOOLEAN]
    /\ exec \in [Workers -> ExecRecord]
    /\ \A w \in Workers : RecordOK(exec[w])

\* While a document is not done, the loop of the executor finds one: the first
\* in the order of the snapshot (ingestion_executor.go, the loop over the
\* documents that skips those of the cursor).
LEMMA PendingExists ==
    ASSUME NEW done \in SUBSET Docs, done # Docs
    PROVE  FirstPending(done) \in Docs \ done
<1> DEFINE P(i) == /\ Documents[i] \notin done
                   /\ \A j \in 1..(i - 1) : Documents[j] \in done
           T == {i \in DOMAIN Documents : Documents[i] \notin done}
<1>1. T \in SUBSET Nat /\ T # {}
  <2>1. DOMAIN Documents \subseteq Nat
      BY IngestAssumption
  <2>2. \E d \in Docs : d \notin done
      OBVIOUS
  <2>3. \E i \in DOMAIN Documents : Documents[i] \notin done
      BY <2>2 DEF Docs, Range
  <2> QED
      BY <2>1, <2>3
<1>2. PICK x \in T : \A y \in T : x <= y
    BY <1>1, Least
<1>3. \A j \in 1..(x - 1) : Documents[j] \in done
  <2> SUFFICES ASSUME NEW j \in 1..(x - 1) PROVE Documents[j] \in done
      OBVIOUS
  <2>1. x \in 1..Len(Documents) /\ Len(Documents) \in Nat
      BY <1>2, IngestAssumption
  <2>2. j \in 1..Len(Documents) /\ ~(x <= j)
      BY <2>1
  <2>3. j \notin T
      BY <1>2, <2>2
  <2> QED
      BY <2>2, <2>3, IngestAssumption
<1>4. \E i \in DOMAIN Documents : P(i)
    BY <1>2, <1>3
<1> DEFINE i == CHOOSE i \in DOMAIN Documents : P(i)
<1>5. i \in DOMAIN Documents /\ P(i)
    BY <1>4
<1>6. FirstPending(done) = Documents[i]
    BY DEF FirstPending
<1> HIDE DEF i
<1> QED
    BY <1>5, <1>6 DEF Docs, Range

-------------------------------------------------------------------------------
(* The steps of an execution, reduced to what they do to its record and to *)
(* the tables: what the inductive arguments below go through.              *)

written == <<vars, rows, cursor, corpus>>

Others(w) == \A v \in Workers : v # w => exec'[v] = exec[v]

\* The execution keeps its run and its progress.
Same(w) ==
    /\ exec'[w].run = exec[w].run /\ exec'[w].done = exec[w].done
    /\ exec'[w].doc = exec[w].doc

Leaves(w) == exec'[w] = Idle /\ UNCHANGED written

\* Its context is cancelled, or it is about to fail the run.
Marks(w) ==
    /\ exec[w].pc # "idle" /\ exec'[w].pc \in {exec[w].pc, "fail"}
    /\ Same(w) /\ exec'[w].todo = exec[w].todo
    /\ UNCHANGED written

Opens(w) ==
    /\ exec[w].pc = "start" /\ exec'[w].pc = "next"
    /\ exec'[w].run = exec[w].run /\ exec'[w].done = cursor[exec[w].run]
    /\ status[exec[w].run] = "running"
    /\ UNCHANGED written

Finds(w) ==
    /\ exec[w].pc = "next" /\ exec'[w].pc = "complete" /\ exec[w].done = Docs
    /\ Same(w) /\ UNCHANGED written

Picks(w) ==
    /\ exec[w].pc = "next" /\ exec'[w].pc = "fetch"
    /\ exec'[w].run = exec[w].run /\ exec'[w].done = exec[w].done
    /\ exec'[w].doc \in Docs \ exec[w].done
    /\ UNCHANGED written

Cuts(w) ==
    /\ exec[w].pc = "fetch"
    /\ exec'[w].pc = IF source[exec[w].doc] = {} THEN "sweep" ELSE "upsert"
    /\ exec'[w].todo = source[exec[w].doc]
    /\ Same(w) /\ UNCHANGED written

Upserts(w) ==
    /\ exec[w].pc = "upsert"
    /\ \E c \in exec[w].todo :
          /\ rows' = [rows EXCEPT ![exec[w].doc][c] = exec[w].run]
          /\ exec'[w].todo = exec[w].todo \ {c}
          /\ exec'[w].pc = IF exec[w].todo = {c} THEN "sweep" ELSE "upsert"
    /\ Same(w) /\ UNCHANGED <<vars, cursor, corpus>>

Sweeps(w) ==
    /\ exec[w].pc = "sweep" /\ exec'[w].pc = "persist"
    /\ rows' = [rows EXCEPT ![exec[w].doc] = Swept(exec[w].run, exec[w].doc)]
    /\ exec'[w].run = exec[w].run /\ exec'[w].done = exec[w].done \cup {exec[w].doc}
    /\ UNCHANGED <<vars, cursor, corpus>>

Persists(w) ==
    /\ exec[w].pc = "persist" /\ exec'[w].pc = "next"
    /\ cursor' = [cursor EXCEPT ![exec[w].run] = exec[w].done]
    /\ Same(w) /\ UNCHANGED <<vars, rows, corpus>>

Records(w) ==
    /\ \/ /\ exec[w].pc = "complete" /\ exec'[w].pc = "succeed"
          /\ corpus' \in {corpus, [phase |-> "Ready", by |-> exec[w].run]}
       \/ /\ exec[w].pc = "fail" /\ exec'[w].pc = "end"
          /\ corpus' \in {corpus, [phase |-> "Failed", by |-> exec[w].run]}
    /\ Same(w) /\ UNCHANGED <<vars, rows, cursor>>

Succeeds(w) ==
    /\ exec[w].pc = "succeed" /\ exec'[w] = Idle
    /\ status' = [status EXCEPT ![exec[w].run] = "succeeded"]
    /\ cursor' = [cursor EXCEPT ![exec[w].run] = exec[w].done]
    /\ UNCHANGED <<lease, rows, corpus>>

Fails(w) ==
    /\ exec[w].pc = "end" /\ exec'[w] = Idle
    /\ status' = [status EXCEPT ![exec[w].run] = "failed"]
    /\ UNCHANGED <<lease, rows, cursor, corpus>>

Shape(w) ==
    \/ Leaves(w) \/ Marks(w) \/ Opens(w) \/ Finds(w) \/ Picks(w) \/ Cuts(w)
    \/ Upserts(w) \/ Sweeps(w) \/ Persists(w) \/ Records(w) \/ Succeeds(w) \/ Fails(w)

\* The record of a worker without a run is a record.
LEMMA IdleOK == Idle \in ExecRecord /\ Idle.pc = "idle" /\ Idle.run = NoRun
BY DEF Idle, ExecRecord, Pcs

\* A return and a jump, by their effect on the records.
LEMMA ReturnForm ==
    ASSUME Typed, NEW w \in Workers, Return(w)
    PROVE  exec' \in [Workers -> ExecRecord] /\ Others(w) /\ exec'[w] = Idle
BY IdleOK DEF Typed, Return, Others

\* A jump keeps all of the worker's record but its place in runIngestion.
LEMMA GotoForm ==
    ASSUME Typed, NEW w \in Workers, NEW pc \in Pcs, Goto(w, pc)
    PROVE  /\ exec' \in [Workers -> ExecRecord] /\ Others(w) /\ Same(w)
           /\ exec'[w].pc = pc /\ exec'[w].todo = exec[w].todo
<1>1. exec[w] \in ExecRecord
    BY DEF Typed
<1>2. exec'[w] = [exec[w] EXCEPT !.pc = pc]
    BY DEF Goto, Typed
<1>3. exec'[w] \in ExecRecord
    BY <1>1, <1>2 DEF ExecRecord
<1>4. exec' = [exec EXCEPT ![w] = exec'[w]]
    BY DEF Goto, Typed
<1>5. exec' \in [Workers -> ExecRecord]
    BY <1>3, <1>4 DEF Typed
<1> QED BY <1>1, <1>2, <1>4, <1>5 DEF Same, Others, ExecRecord, Typed

\* A terminal write has no parent to wake.
LEMMA EndForm ==
    ASSUME Typed, NEW r \in Runs, NEW to, CompleteAndWake(r, to)
    PROVE  status' = [status EXCEPT ![r] = to] /\ UNCHANGED lease
<1>1. Waiters(r) = {}
    BY IngestAssumption, ParentAssumption DEF Waiters
<1>2. Woken(r, to) = {}
    BY <1>1 DEF Woken
<1> QED BY <1>2 DEF CompleteAndWake, WakeWaiters, Typed, TypeOK

\* What every step of an execution leaves alone, and the form it has.
Reduced(w) ==
    /\ exec' \in [Workers -> ExecRecord] /\ Others(w) /\ Shape(w)
    /\ UNCHANGED <<source, req, hist>>

\* The steps of an executor, its heartbeat's marks, a drain and a crash.
LEMMA Reduction ==
    ASSUME Typed, NEW w \in Workers,
           \/ Execute(w) \/ heartbeatLeaseLost(w) \/ selfFence(w) \/ drain(w) \/ Crash(w)
    PROVE  Reduced(w)
<1> DEFINE r == exec[w].run
           d == exec[w].doc
<1>0. exec[w] \in ExecRecord /\ RecordOK(exec[w])
    BY DEF Typed
<1>r. ASSUME Return(w), UNCHANGED written, UNCHANGED <<source, req, hist>> PROVE Reduced(w)
    BY <1>r, ReturnForm DEF Reduced, Shape, Leaves
<1>f. ASSUME Goto(w, "fail"), exec[w].pc # "idle", UNCHANGED written,
             UNCHANGED <<source, req, hist>>
      PROVE  Reduced(w)
    BY <1>f, GotoForm DEF Reduced, Shape, Marks, Pcs
<1>b. ASSUME Breaks(w), exec[w].pc # "idle", UNCHANGED written,
             UNCHANGED <<source, req, hist>>
      PROVE  Reduced(w)
    BY <1>b, <1>r, <1>f DEF Breaks
<1>n. ASSUME NEW f \in ExecRecord, exec' = [exec EXCEPT ![w] = f]
      PROVE  exec' \in [Workers -> ExecRecord] /\ Others(w) /\ exec'[w] = f
    BY <1>n DEF Typed, Others
<1> USE DEF At, Busy, written
<1>1. CASE start(w, r)
    <2>1. CASE /\ exec' = [exec EXCEPT ![w].done = cursor[r], ![w].pc = "next"]
               /\ status[r] = "running"
        <3>0. exec[w].pc = "start" /\ r \in Runs /\ status[r] = "running"
            BY <1>0, <1>1, <2>1 DEF start, RecordOK
        <3> DEFINE g == [exec[w] EXCEPT !.done = cursor[r]]
                   f == [g EXCEPT !.pc = "next"]
        <3>1. exec' = [exec EXCEPT ![w] = f]
            BY <2>1 DEF Typed
        <3>2. g \in ExecRecord /\ g.run = r /\ g.done = cursor[r]
            BY <1>0, <3>0 DEF ExecRecord, Typed
        <3>3. f \in ExecRecord /\ f.run = g.run /\ f.done = g.done /\ f.pc = "next"
            BY <3>2 DEF ExecRecord, Pcs
        <3> HIDE DEF f, g
        <3>4. exec' \in [Workers -> ExecRecord] /\ Others(w) /\ exec'[w] = f
            BY <1>n, <3>1, <3>3
        <3> QED BY <1>1, <3>0, <3>2, <3>3, <3>4 DEF Reduced, Shape, Opens, start
    <2> QED BY <1>1, <1>r, <1>f, <2>1 DEF start, Started
<1>2. CASE nextDocument(w)
    <2>1. CASE exec[w].done = Docs /\ Goto(w, "complete")
        BY <1>2, <2>1, GotoForm DEF nextDocument, Reduced, Shape, Finds, Pcs
    <2>2. CASE exec[w].done # Docs /\ exec' = [exec EXCEPT ![w].doc = FirstPending(exec[w].done), ![w].pc = "fetch"]
        <3> DEFINE p == FirstPending(exec[w].done)
                   g == [exec[w] EXCEPT !.doc = p]
                   f == [g EXCEPT !.pc = "fetch"]
        <3>0. p \in Docs \ exec[w].done
            BY <1>0, <2>2, PendingExists DEF ExecRecord
        <3>1. exec' = [exec EXCEPT ![w] = f]
            BY <2>2 DEF Typed
        <3> HIDE DEF p
        <3>2. g \in ExecRecord /\ g.run = r /\ g.done = exec[w].done /\ g.doc = p
            BY <1>0, <3>0 DEF ExecRecord
        <3>3. f \in ExecRecord /\ f.run = g.run /\ f.done = g.done /\ f.doc = g.doc /\ f.pc = "fetch"
            BY <3>2 DEF ExecRecord, Pcs
        <3> HIDE DEF f, g
        <3>4. exec' \in [Workers -> ExecRecord] /\ Others(w) /\ exec'[w] = f
            BY <1>n, <3>1, <3>3
        <3> QED BY <1>2, <3>0, <3>2, <3>3, <3>4 DEF Reduced, Shape, Picks, nextDocument
    <2> QED BY <1>2, <1>r, <2>1, <2>2 DEF nextDocument
<1>3. CASE fetch(w, d)
    <2>0. exec[w].pc = "fetch" /\ d \in Docs /\ source[d] \in SUBSET Chunks
        BY <1>0, <1>3 DEF fetch, RecordOK, Typed
    <2>1. CASE exec' = [exec EXCEPT ![w].todo = source[d],
                                    ![w].pc = IF source[d] = {} THEN "sweep" ELSE "upsert"]
        <3> DEFINE to == IF source[d] = {} THEN "sweep" ELSE "upsert"
                   g == [exec[w] EXCEPT !.todo = source[d]]
                   f == [g EXCEPT !.pc = to]
        <3>1. exec' = [exec EXCEPT ![w] = f]
            BY <2>1 DEF Typed
        <3>2. g \in ExecRecord /\ g.run = r /\ g.done = exec[w].done /\ g.doc = d /\ g.todo = source[d]
            BY <1>0, <2>0 DEF ExecRecord
        <3>3. /\ f \in ExecRecord /\ f.run = g.run /\ f.done = g.done /\ f.doc = g.doc
              /\ f.todo = g.todo /\ f.pc = to
            BY <3>2 DEF ExecRecord, Pcs
        <3> HIDE DEF f, g
        <3>4. exec' \in [Workers -> ExecRecord] /\ Others(w) /\ exec'[w] = f
            BY <1>n, <3>1, <3>3
        <3> QED BY <1>3, <2>0, <3>2, <3>3, <3>4 DEF Reduced, Shape, Cuts, Same, fetch
    <2>2. UNCHANGED written /\ UNCHANGED <<source, req, hist>>
        BY <1>3 DEF fetch
    <2> QED BY <1>3, <1>b, <1>f, <2>0, <2>1, <2>2 DEF fetch
<1>4. CASE embedAndUpsertChunks(w, r, d)
    <2>0. exec[w].pc = "upsert" /\ UNCHANGED <<vars, source, cursor, corpus, req, hist>>
        BY <1>4 DEF embedAndUpsertChunks
    <2>1. ASSUME NEW c \in exec[w].todo, Upsert(w, r, d, c) PROVE Reduced(w)
        <3> DEFINE to == IF exec[w].todo = {c} THEN "sweep" ELSE "upsert"
                   g == [exec[w] EXCEPT !.todo = @ \ {c}]
                   f == [g EXCEPT !.pc = to]
        <3>1. exec' = [exec EXCEPT ![w] = f]
            BY <2>1 DEF Typed, Upsert
        <3>2. g \in ExecRecord /\ g.run = r /\ g.done = exec[w].done /\ g.doc = d /\ g.todo = exec[w].todo \ {c}
            BY <1>0 DEF ExecRecord
        <3>3. /\ f \in ExecRecord /\ f.run = g.run /\ f.done = g.done /\ f.doc = g.doc
              /\ f.todo = g.todo /\ f.pc = to
            BY <3>2 DEF ExecRecord, Pcs
        <3> HIDE DEF f, g
        <3>4. exec' \in [Workers -> ExecRecord] /\ Others(w) /\ exec'[w] = f
            BY <1>n, <3>1, <3>3
        <3> QED BY <2>0, <2>1, <3>2, <3>3, <3>4 DEF Reduced, Shape, Upserts, Same, Upsert
    <2> QED BY <1>4, <1>b, <1>f, <1>r, <2>0, <2>1 DEF embedAndUpsertChunks
<1>5. CASE SweepOrphans(w, r, d)
    <2>0. exec[w].pc = "sweep" /\ d \in Docs /\ UNCHANGED <<vars, source, cursor, corpus, req, hist>>
        BY <1>0, <1>5 DEF SweepOrphans, RecordOK
    <2>1. CASE /\ rows' = [rows EXCEPT ![d] = Swept(r, d)]
               /\ exec' = [exec EXCEPT ![w].done = @ \cup {d}, ![w].doc = NoRun, ![w].pc = "persist"]
        <3> DEFINE g == [exec[w] EXCEPT !.done = @ \cup {d}]
                   h == [g EXCEPT !.doc = NoRun]
                   f == [h EXCEPT !.pc = "persist"]
        <3>1. exec' = [exec EXCEPT ![w] = f]
            BY <2>1 DEF Typed
        <3>2. g \in ExecRecord /\ g.run = r /\ g.done = exec[w].done \cup {d}
            BY <1>0, <2>0 DEF ExecRecord
        <3>3. h \in ExecRecord /\ h.run = g.run /\ h.done = g.done
            BY <3>2 DEF ExecRecord
        <3>4. f \in ExecRecord /\ f.run = h.run /\ f.done = h.done /\ f.pc = "persist"
            BY <3>3 DEF ExecRecord, Pcs
        <3> HIDE DEF f, g, h
        <3>5. exec' \in [Workers -> ExecRecord] /\ Others(w) /\ exec'[w] = f
            BY <1>n, <3>1, <3>4
        <3> QED BY <2>0, <2>1, <3>2, <3>3, <3>4, <3>5 DEF Reduced, Shape, Sweeps
    <2> QED BY <1>5, <1>b, <2>0, <2>1 DEF SweepOrphans
<1>6. CASE persistIngestionCursor(w, r)
    <2>1. CASE cursor' = [cursor EXCEPT ![r] = exec[w].done] /\ Goto(w, "next")
        BY <1>6, <2>1, GotoForm DEF persistIngestionCursor, Reduced, Shape, Persists, Pcs
    <2> QED BY <1>6, <1>f, <2>1 DEF persistIngestionCursor
<1>7. CASE recordCorpusStatus(w, r)
    BY <1>7, GotoForm DEF recordCorpusStatus, Recorded, Reduced, Shape, Records, Pcs
<1>8. CASE endIngestion(w, r)
    <2>0. /\ Return(w) /\ UNCHANGED <<source, rows, corpus, req, hist>>
          /\ exec[w].pc \in {"succeed", "end"} /\ r \in Runs
        BY <1>0, <1>8 DEF endIngestion, RecordOK
    <2>1. exec' \in [Workers -> ExecRecord] /\ Others(w) /\ exec'[w] = Idle
        BY <2>0, ReturnForm
    <2>2. CASE /\ exec[w].pc = "succeed" /\ CompleteAndWake(r, "succeeded")
               /\ cursor' = [cursor EXCEPT ![r] = exec[w].done]
        BY <2>0, <2>1, <2>2, EndForm DEF Reduced, Shape, Succeeds
    <2>3. CASE exec[w].pc = "end" /\ CompleteAndWake(r, "failed") /\ UNCHANGED cursor
        BY <2>0, <2>1, <2>3, EndForm DEF Reduced, Shape, Fails
    <2> QED BY <1>8, <1>r, <2>0, <2>2, <2>3 DEF endIngestion
<1>9. CASE heartbeatLeaseLost(w) \/ drain(w) \/ selfFence(w)
    <2>0. /\ UNCHANGED written /\ UNCHANGED <<source, req, hist>> /\ exec[w].pc # "idle"
          /\ \/ exec' = [exec EXCEPT ![w].stopped = TRUE]
             \/ exec' = [exec EXCEPT ![w].stopped = TRUE, ![w].fenced = TRUE]
        BY <1>9 DEF heartbeatLeaseLost, drain, selfFence
    <2> DEFINE g == [exec[w] EXCEPT !.stopped = TRUE]
               f == [g EXCEPT !.fenced = TRUE]
    <2>1. exec' = [exec EXCEPT ![w] = g] \/ exec' = [exec EXCEPT ![w] = f]
        BY <2>0 DEF Typed
    <2>2. /\ g \in ExecRecord /\ g.run = r /\ g.done = exec[w].done /\ g.doc = d
          /\ g.todo = exec[w].todo /\ g.pc = exec[w].pc
        BY <1>0 DEF ExecRecord
    <2>3. /\ f \in ExecRecord /\ f.run = r /\ f.done = exec[w].done /\ f.doc = d
          /\ f.todo = exec[w].todo /\ f.pc = exec[w].pc
        BY <2>2 DEF ExecRecord
    <2> HIDE DEF f, g
    <2> QED BY <1>n, <2>0, <2>1, <2>2, <2>3 DEF Reduced, Shape, Marks, Same
<1>10. CASE Crash(w)
    BY <1>10, <1>r DEF Crash
<1> QED BY <1>1, <1>2, <1>3, <1>4, <1>5, <1>6, <1>7, <1>8, <1>9, <1>10 DEF Execute

-------------------------------------------------------------------------------
(* Type correctness.                                                       *)

\* The ingestion uses the store only through its operations.
LEMMA UsesStore ==
    ASSUME Typed, [IngestNext]_ingestVars
    PROVE  [Next]_vars
<1>a. \A r \in Runs : Create(r) \/ ExpireLease(r) \/ Update(r, "cancelled") => Next
    BY DEF Next, RunStep, UpdateTargets
<1>b. \A w \in Workers, r \in Runs :
          ClaimQueued(w, r) \/ ClaimReclaimable(w, r) \/ Heartbeat(w, r) => Next
    BY DEF Next, WorkerStep
<1>c. \A r \in Runs : CompleteAndWake(r, "succeeded") \/ CompleteAndWake(r, "failed") => Next
    BY DEF Next, RunStep, UpdateTargets
<1>1. ASSUME NEW w \in Workers, WorkerDoes(w) PROVE [Next]_vars
    <2>0. exec[w].pc # "idle" => exec[w].run \in Runs
        BY DEF Typed, RecordOK
    <2>1. CASE \E r \in Runs : claim(w, r)
        BY <1>b, <2>1 DEF claim
    <2>2. CASE heartbeatRenews(w)
        BY <1>b, <2>0, <2>2 DEF heartbeatRenews, Busy, At
    <2>3. CASE endIngestion(w, exec[w].run)
        BY <1>c, <2>0, <2>3 DEF endIngestion, At
    <2>4. CASE UNCHANGED vars
        BY <2>4
    <2> QED
        BY <1>1, <2>1, <2>2, <2>3, <2>4
           DEF WorkerDoes, Execute, start, nextDocument, fetch, embedAndUpsertChunks,
               SweepOrphans, persistIngestionCursor, recordCorpusStatus,
               heartbeatLeaseLost, selfFence, drain, Crash
<1>2. ASSUME NEW r \in Runs, leaseRunsOut(r) \/ handleCancelRun(r) PROVE [Next]_vars
    BY <1>a, <1>2 DEF leaseRunsOut, handleCancelRun
<1>3. ASSUME NEW q \in Requesters, ActiveIngestion(q) \/ \E r \in Runs : CreateIngestionRun(q, r)
      PROVE  [Next]_vars
    BY <1>a, <1>3 DEF ActiveIngestion, CreateIngestionRun
<1>4. ASSUME NEW d \in Docs, NEW content \in SUBSET Chunks, edit(d, content) PROVE [Next]_vars
    BY <1>4 DEF edit
<1> QED BY <1>1, <1>2, <1>3, <1>4 DEF IngestNext, ingestVars

\* A claim, by its effect on the records.
LEMMA ClaimForm ==
    ASSUME Typed, NEW w \in Workers, NEW r \in Runs, claim(w, r)
    PROVE  /\ exec' \in [Workers -> ExecRecord] /\ Others(w)
           /\ exec'[w].pc = "start" /\ exec'[w].run = r /\ exec'[w].done = {}
           /\ exec[w].pc = "idle"
<1> DEFINE g == [Idle EXCEPT !.pc = "start"]
           f == [g EXCEPT !.run = r]
<1>1. exec' = [exec EXCEPT ![w] = f] /\ exec[w].pc = "idle"
    BY DEF claim, At
<1>2. g \in ExecRecord /\ g.pc = "start" /\ g.done = {}
    BY IdleOK DEF ExecRecord, Pcs, Idle
<1>3. f \in ExecRecord /\ f.pc = g.pc /\ f.done = g.done /\ f.run = r
    BY <1>2 DEF ExecRecord
<1> HIDE DEF f, g
<1> QED BY <1>1, <1>2, <1>3 DEF Typed, Others

\* The records stay in order: only the worker that steps changes its own, and
\* the row of a run does not disappear.
LEMMA RecordsKept ==
    ASSUME Typed, [Next]_vars, NEW w \in Workers, Others(w), RecordOK(exec[w])'
    PROVE  (\A v \in Workers : RecordOK(exec[v]))'
<1>1. \A r \in Runs : Created(r) => Created(r)'
    BY TerminalFrozen DEF Typed, Created
<1>2. ASSUME NEW v \in Workers, v # w PROVE RecordOK(exec[v])'
    <2>1. RecordOK(exec[v]) /\ exec'[v] = exec[v]
        BY <1>2 DEF Typed, Others
    <2> QED BY <1>1, <2>1 DEF RecordOK
<1> QED BY <1>2

\* The reduced steps keep the types.
LEMMA ReducedTypes ==
    ASSUME Typed, [Next]_vars, NEW w \in Workers, Reduced(w)
    PROVE  Typed'
<1> DEFINE r == exec[w].run
           d == exec[w].doc
<1>0. exec[w] \in ExecRecord /\ RecordOK(exec[w])
    BY DEF Typed
<1>1. TypeOK'
    BY TypeStep DEF Typed
<1>a. exec[w].pc # "idle" => r \in Runs /\ status'[r] # Absent
    BY <1>0, TerminalFrozen DEF RecordOK, Created, Typed
<1>2. RecordOK(exec[w])'
    <2> USE DEF RecordOK, Created
    <2>1. CASE exec'[w] = Idle
        BY <2>1, IdleOK
    <2>2. CASE Marks(w)
        BY <1>0, <1>a, <2>2 DEF Marks, Same
    <2>3. CASE Opens(w)
        BY <1>0, <1>a, <2>3 DEF Opens
    <2>4. CASE Finds(w) \/ Persists(w)
        BY <1>0, <1>a, <2>4 DEF Finds, Persists, Same
    <2>5. CASE Picks(w)
        BY <1>0, <1>a, <2>5 DEF Picks
    <2>6. CASE Cuts(w)
        BY <1>0, <1>a, <2>6 DEF Cuts, Same
    <2>7. CASE Upserts(w)
        BY <1>0, <1>a, <2>7 DEF Upserts, Same
    <2>8. CASE Sweeps(w)
        BY <1>0, <1>a, <2>8 DEF Sweeps
    <2>9. CASE Records(w)
        BY <1>0, <1>a, <2>9 DEF Records, Same
    <2> QED
        BY <2>1, <2>2, <2>3, <2>4, <2>5, <2>6, <2>7, <2>8, <2>9
           DEF Reduced, Shape, Leaves, Succeeds, Fails
<1>3. (\A v \in Workers : RecordOK(exec[v]))'
    BY <1>2, RecordsKept DEF Reduced
<1>4. rows' \in [Docs -> [Chunks -> Runs \cup {NoRun}]]
    <2>1. CASE Upserts(w)
        <3>0. d \in Docs /\ r \in Runs /\ exec[w].todo \in SUBSET Chunks
            BY <1>0, <2>1 DEF Upserts, RecordOK, ExecRecord
        <3>1. PICK c \in exec[w].todo : rows' = [rows EXCEPT ![d][c] = r]
            BY <2>1 DEF Upserts
        <3> QED BY <3>0, <3>1 DEF Typed
    <2>2. CASE Sweeps(w)
        <3>0. d \in Docs /\ r \in Runs
            BY <1>0, <2>2 DEF Sweeps, RecordOK
        <3>1. Swept(r, d) \in [Chunks -> Runs \cup {NoRun}]
            BY <3>0 DEF Swept
        <3> QED BY <2>2, <3>0, <3>1 DEF Typed, Sweeps
    <2>3. CASE UNCHANGED rows
        BY <2>3 DEF Typed
    <2> QED
        BY <2>1, <2>2, <2>3
           DEF Reduced, Shape, Leaves, Marks, Opens, Finds, Picks, Cuts, Persists,
               Records, Succeeds, Fails, written
<1>5. cursor' \in [Runs -> SUBSET Docs]
    <2>1. CASE Persists(w) \/ Succeeds(w)
        BY <1>0, <2>1 DEF Persists, Succeeds, Typed, RecordOK, ExecRecord
    <2>2. CASE UNCHANGED cursor
        BY <2>2 DEF Typed
    <2> QED
        BY <2>1, <2>2
           DEF Reduced, Shape, Leaves, Marks, Opens, Finds, Picks, Cuts, Upserts, Sweeps,
               Records, Fails, written
<1>6. corpus' \in [phase : {"none", "Ready", "Failed"}, by : Runs \cup {NoRun}]
    <2>1. CASE Records(w)
        BY <1>0, <2>1 DEF Records, Typed, RecordOK, ExecRecord
    <2>2. CASE UNCHANGED corpus
        BY <2>2 DEF Typed
    <2> QED
        BY <2>1, <2>2
           DEF Reduced, Shape, Leaves, Marks, Opens, Finds, Picks, Cuts, Upserts, Sweeps,
               Persists, Succeeds, Fails, written
<1>7. source' \in [Docs -> SUBSET Chunks] /\ req' \in [Requesters -> {"idle", "insert"}]
    BY DEF Reduced, Typed
<1> QED BY <1>1, <1>3, <1>4, <1>5, <1>6, <1>7 DEF Typed, Reduced

\* The types are inductive.
LEMMA TypedStep ==
    ASSUME Typed, [IngestNext]_ingestVars
    PROVE  Typed' /\ [Next]_vars
<1>0. [Next]_vars
    BY UsesStore
<1>1. TypeOK' /\ \A r \in Runs : Created(r) => Created(r)'
    BY <1>0, TypeStep, TerminalFrozen DEF Typed, Created
<1>2. ASSUME NEW w \in Workers, Reduced(w) PROVE Typed'
    BY <1>0, <1>2, ReducedTypes
<1>3. ASSUME NEW w \in Workers, NEW r \in Runs, claim(w, r) PROVE Typed'
    <2>0. status'[r] = "running"
        BY <1>3 DEF claim, ClaimQueued, ClaimReclaimable, Typed, TypeOK
    <2>1. RecordOK(exec[w])'
        BY <1>3, <2>0, ClaimForm DEF RecordOK, Created, Absent
    <2>2. (\A v \in Workers : RecordOK(exec[v]))'
        BY <1>0, <1>3, <2>1, ClaimForm, RecordsKept
    <2> QED BY <1>1, <1>3, <2>2, ClaimForm DEF claim, Typed
<1>4. ASSUME UNCHANGED <<source, rows, cursor, corpus, req, exec>>,
             hist' \in [last : Runs \cup {NoRun}, overlap : BOOLEAN, lapsed : BOOLEAN]
      PROVE  Typed'
    BY <1>1, <1>4 DEF Typed, RecordOK, Created
<1>5. ASSUME NEW q \in Requesters, ActiveIngestion(q) \/ \E r \in Runs : CreateIngestionRun(q, r)
      PROVE  Typed'
    <2>1. req' \in [Requesters -> {"idle", "insert"}]
        BY <1>5 DEF ActiveIngestion, CreateIngestionRun, Typed
    <2>2. UNCHANGED <<source, rows, cursor, corpus, exec, hist>>
        BY <1>5 DEF ActiveIngestion, CreateIngestionRun
    <2> QED BY <1>1, <2>1, <2>2 DEF Typed, RecordOK, Created
<1>6. ASSUME NEW d \in Docs, NEW content \in SUBSET Chunks, edit(d, content) PROVE Typed'
    BY <1>1, <1>6 DEF edit, Typed, RecordOK, Created
<1>7. ASSUME NEW w \in Workers, WorkerDoes(w) PROVE Typed'
    <2>1. CASE heartbeatRenews(w)
        BY <2>1, <1>4 DEF heartbeatRenews, ivars, Typed
    <2> QED BY <1>7, <2>1, <1>2, <1>3, Reduction DEF WorkerDoes
<1>8. ASSUME NEW r \in Runs, leaseRunsOut(r) \/ handleCancelRun(r) PROVE Typed'
    <2>1. hist' \in [last : Runs \cup {NoRun}, overlap : BOOLEAN, lapsed : BOOLEAN]
        BY <1>8 DEF leaseRunsOut, handleCancelRun, Typed
    <2> QED BY <1>4, <1>8, <2>1 DEF leaseRunsOut, handleCancelRun
<1>9. CASE UNCHANGED ingestVars
    BY <1>4, <1>9 DEF ingestVars, Typed
<1> QED BY <1>0, <1>5, <1>6, <1>7, <1>8, <1>9 DEF IngestNext

\* The initial state is in order.
LEMMA TypedInit == IngestInit => Typed /\ Init
<1> SUFFICES ASSUME IngestInit PROVE Typed /\ Init
    OBVIOUS
<1>1. TypeOK
    BY BoundAssumption DEF IngestInit, Init, TypeOK, Leases, WaitMode
<1>2. exec \in [Workers -> ExecRecord] /\ \A w \in Workers : RecordOK(exec[w])
    BY IdleOK DEF IngestInit, RecordOK
<1> QED BY <1>1, <1>2 DEF IngestInit, Typed

\* The types imply the run's type invariant.
LEMMA TypedForm == Typed => IngestTypeOK
BY DEF Typed, IngestTypeOK, RecordOK, ExecRecord, Busy, At

\* The ingestion's state has its types in every execution: an execution under
\* way is of a run that has a row, and the document it works on is one of the
\* snapshot that it has not done (ingestion_executor.go, the loop over the
\* documents).
THEOREM IngestTypeCorrect == IngestSpec => []IngestTypeOK
<1>1. IngestSpec => []Typed
    BY TypedInit, TypedStep, PTL DEF IngestSpec
<1> QED BY <1>1, TypedForm, PTL

\* The ingestion is a client of the run store: what is proved of the store
\* holds of its runs.
THEOREM IngestionUsesStore == IngestSpec => Spec
<1>1. IngestSpec => []Typed
    BY TypedInit, TypedStep, PTL DEF IngestSpec
<1> QED BY <1>1, TypedInit, TypedStep, PTL DEF IngestSpec, Spec

-------------------------------------------------------------------------------
(* A resume never forgets a document.                                      *)

\* Where an execution has read the cursor and may still write it.
Past == {"next", "fetch", "upsert", "sweep", "persist", "complete", "succeed"}

\* A run that is executed has left the queue for good.
LeftQueue == \A w \in Workers : exec[w].pc # "idle" => status[exec[w].run] # "queued"

\* As long as no lease lapsed under an execution, its lease is live, so that
\* nobody else executes the run, and it knows every document that the cursor
\* names.
Leased == \A w \in Workers : exec[w].pc # "idle" => lease[exec[w].run] = "live"
Single == \A v, w \in Workers : exec[v].pc # "idle" /\ exec[w].run = exec[v].run => w = v
Knows == \A w \in Workers : exec[w].pc \in Past => cursor[exec[w].run] \subseteq exec[w].done

Alone == LeftQueue /\ (~hist.lapsed => Leased /\ Single /\ Knows)

\* What a cursor that only grows means for one step.
Grows == ~hist'.lapsed => \A r \in Runs : cursor[r] \subseteq cursor'[r]

\* The reduced steps keep the invariant, and write the cursor only with more.
LEMMA AloneReduced ==
    ASSUME Typed, Alone, NEW w \in Workers, Reduced(w)
    PROVE  Alone' /\ Grows
<1> DEFINE r == exec[w].run
<1>0. /\ exec[w] \in ExecRecord /\ RecordOK(exec[w]) /\ hist' = hist
      /\ \A v \in Workers : v # w => exec'[v] = exec[v]
    BY DEF Typed, Reduced, Others
<1>1. /\ exec[w].pc # "idle" => r \in Runs
      /\ \A v \in Workers : exec[v].pc # "idle" => exec[v].run \in Runs
    BY <1>0 DEF RecordOK, Typed
<1>l. ASSUME exec'[w] = Idle, exec[w].pc # "idle", UNCHANGED lease, NEW to, to # "queued",
             status' = [status EXCEPT ![r] = to],
             \A x \in Runs : x # r => cursor'[x] = cursor[x]
      PROVE  Alone'
    <2>1. exec'[w].pc = "idle" /\ exec'[w].run = NoRun /\ exec'[w].pc \notin Past
        BY <1>l, IdleOK DEF Past
    <2>2. \A x \in Runs : status'[x] = IF x = r THEN to ELSE status[x]
        BY <1>l DEF Typed, TypeOK
    <2>3. \A v \in Workers : v # w /\ exec'[v].pc # "idle" =>
              exec'[v] = exec[v] /\ exec[v].run \in Runs
        BY <1>0, <1>1
    <2>4. LeftQueue'
        BY <1>l, <2>1, <2>2, <2>3 DEF Alone, LeftQueue
    <2>5. ~hist.lapsed => Leased'
        BY <1>l, <2>1, <2>3 DEF Alone, Leased
    <2>6. ~hist.lapsed => Single'
        <3> SUFFICES ASSUME ~hist.lapsed, NEW u \in Workers, NEW v \in Workers,
                            exec'[u].pc # "idle", exec'[v].run = exec'[u].run
                     PROVE  v = u
            BY DEF Single
        <3>1. u # w /\ exec'[u] = exec[u] /\ exec[u].run \in Runs
            BY <2>1, <2>3
        <3>2. v # w
            BY <2>1, <3>1, ParentAssumption
        <3> QED BY <1>0, <3>1, <3>2 DEF Alone, Single
    <2>7. ~hist.lapsed => Knows'
        <3> SUFFICES ASSUME ~hist.lapsed, NEW v \in Workers, exec'[v].pc \in Past
                     PROVE  cursor'[exec'[v].run] \subseteq exec'[v].done
            BY DEF Knows
        <3>1. v # w /\ exec'[v] = exec[v] /\ exec[v].pc # "idle" /\ exec[v].run \in Runs
            BY <2>1, <2>3 DEF Past
        <3>2. exec[v].run # r
            BY <1>l, <3>1 DEF Alone, Single
        <3> QED BY <1>l, <3>1, <3>2 DEF Alone, Knows
    <2> QED BY <1>0, <2>4, <2>5, <2>6, <2>7 DEF Alone
<1>a. CASE exec'[w] = Idle /\ UNCHANGED <<status, lease, cursor>>
    BY <1>0, <1>1, <1>a, IdleOK, ParentAssumption DEF Alone, LeftQueue, Leased, Single, Knows, Grows, Past
<1>b. CASE Marks(w) \/ Finds(w)
    BY <1>0, <1>1, <1>b DEF Marks, Finds, Same, written, vars, Alone, LeftQueue, Leased, Single, Knows, Grows, Past
<1>c. CASE Opens(w)
    BY <1>0, <1>1, <1>c DEF Opens, written, vars, Alone, LeftQueue, Leased, Single, Knows, Grows, Past
<1>d. CASE Picks(w)
    BY <1>0, <1>1, <1>d DEF Picks, written, vars, Alone, LeftQueue, Leased, Single, Knows, Grows, Past
<1>e. CASE Cuts(w)
    BY <1>0, <1>1, <1>e DEF Cuts, Same, written, vars, Alone, LeftQueue, Leased, Single, Knows, Grows, Past
<1>f. CASE Upserts(w)
    BY <1>0, <1>1, <1>f DEF Upserts, Same, vars, Alone, LeftQueue, Leased, Single, Knows, Grows, Past
<1>g. CASE Sweeps(w)
    BY <1>0, <1>1, <1>g DEF Sweeps, vars, Alone, LeftQueue, Leased, Single, Knows, Grows, Past
<1>h. CASE Persists(w)
    <2>1. exec[w].pc = "persist" /\ exec[w].pc \in Past /\ exec'[w].pc = "next"
        BY <1>h DEF Persists, Past
    <2>2. cursor' = [cursor EXCEPT ![r] = exec[w].done] /\ UNCHANGED <<status, lease>>
        BY <1>h DEF Persists, vars
    <2>3. exec'[w].run = r /\ exec'[w].done = exec[w].done
        BY <1>h DEF Persists, Same
    <2>4. Grows
        BY <1>0, <1>1, <2>1, <2>2 DEF Alone, LeftQueue, Leased, Single, Knows, Grows, Typed
    <2>5. \A x \in Runs : cursor'[x] = IF x = r THEN exec[w].done ELSE cursor[x]
        BY <2>2 DEF Typed
    <2>6. LeftQueue' /\ (~hist.lapsed => Leased' /\ Single')
        BY <1>0, <1>1, <2>1, <2>2, <2>3 DEF Alone, LeftQueue, Leased, Single
    <2>7. ~hist.lapsed => Knows'
        <3> SUFFICES ASSUME ~hist.lapsed, NEW v \in Workers, exec'[v].pc \in Past
                     PROVE  cursor'[exec'[v].run] \subseteq exec'[v].done
            BY DEF Knows
        <3>1. CASE v = w
            BY <3>1, <1>1, <2>1, <2>3, <2>5
        <3>2. CASE v # w
            <4>1. exec'[v] = exec[v] /\ exec[v].pc # "idle" /\ exec[v].run # r
                BY <3>2, <1>0, <2>1 DEF Alone, Single, Past
            <4> QED BY <4>1, <1>1, <2>5 DEF Alone, Knows
        <3> QED BY <3>1, <3>2
    <2> QED BY <1>0, <2>4, <2>6, <2>7 DEF Alone
<1>i. CASE Records(w)
    BY <1>0, <1>1, <1>i DEF Records, Same, vars, Alone, LeftQueue, Leased, Single, Knows, Grows, Past
<1>j. CASE Succeeds(w)
    <2>1. exec[w].pc \in Past /\ exec[w].pc # "idle" /\ exec'[w].pc = "idle" /\ exec'[w].run = NoRun
        BY <1>j, IdleOK DEF Succeeds, Past
    <2>2. /\ cursor' = [cursor EXCEPT ![r] = exec[w].done] /\ UNCHANGED lease
          /\ status' = [status EXCEPT ![r] = "succeeded"]
        BY <1>j DEF Succeeds
    <2>3. Grows
        BY <1>0, <1>1, <2>1, <2>2 DEF Alone, LeftQueue, Leased, Single, Knows, Grows, Typed
    <2>4. \A x \in Runs : x # r => cursor'[x] = cursor[x]
        BY <2>2 DEF Typed
    <2>5. exec'[w] = Idle
        BY <1>j DEF Succeeds
    <2>6. Alone'
        BY <1>l, <2>1, <2>2, <2>4, <2>5
    <2> QED BY <2>3, <2>6
<1>k. CASE Fails(w)
    BY <1>k, <1>l DEF Fails, Grows
<1> QED
    BY <1>a, <1>b, <1>c, <1>d, <1>e, <1>f, <1>g, <1>h, <1>i, <1>j, <1>k
       DEF Reduced, Shape, Leaves, written, vars

\* ... and so do the claims, the clock, the API and the requests.
LEMMA AloneStep ==
    ASSUME Typed, Alone, [IngestNext]_ingestVars
    PROVE  Alone' /\ Grows
<1>0. \A v \in Workers : exec[v].pc # "idle" => exec[v].run \in Runs /\ Created(exec[v].run)
    BY DEF Typed, RecordOK
<1>i. \A v \in Workers : exec[v].pc = "idle" => exec[v].run = NoRun
    BY DEF Typed, RecordOK
<1>1. ASSUME NEW w \in Workers, Reduced(w) PROVE Alone' /\ Grows
    BY <1>1, AloneReduced
<1>2. ASSUME NEW w \in Workers, NEW r \in Runs, claim(w, r) PROVE Alone' /\ Grows
    <2>1. /\ exec[w].pc = "idle" /\ exec'[w].pc = "start" /\ exec'[w].run = r
          /\ \A v \in Workers : v # w => exec'[v] = exec[v]
        BY <1>2, ClaimForm DEF Others
    <2>2. /\ lease' = [lease EXCEPT ![r] = "live"] /\ UNCHANGED cursor
          /\ status' = [status EXCEPT ![r] = "running"]
        BY <1>2 DEF claim, ClaimQueued, ClaimReclaimable, TakeLease, Typed, TypeOK
    <2>3. hist'.lapsed = hist.lapsed
        BY <1>2 DEF claim
    <2>4. status[r] = "queued" \/ lease[r] = "expired"
        BY <1>2 DEF claim, ClaimQueued, ClaimReclaimable
    <2>5. ~hist.lapsed => \A v \in Workers : exec[v].run # r
        BY <1>i, <2>4, ParentAssumption DEF Alone, LeftQueue, Leased, Single, Knows
    <2>6. \A x \in Runs : /\ status'[x] = IF x = r THEN "running" ELSE status[x]
                          /\ lease'[x] = IF x = r THEN "live" ELSE lease[x]
        BY <2>2 DEF Typed, TypeOK
    <2>7. LeftQueue'
        BY <1>0, <2>1, <2>6 DEF Alone, LeftQueue
    <2>8. ~hist.lapsed => Leased'
        BY <1>0, <2>1, <2>6 DEF Alone, Leased
    <2>9. ~hist.lapsed => Single'
        BY <2>1, <2>5 DEF Alone, Single
    <2>10. ~hist.lapsed => Knows'
        BY <2>1, <2>2 DEF Alone, Knows, Past
    <2> QED BY <2>2, <2>3, <2>7, <2>8, <2>9, <2>10 DEF Alone, Grows
<1>3. ASSUME NEW r \in Runs, leaseRunsOut(r) PROVE Alone' /\ Grows
    <2>1. lease' = [lease EXCEPT ![r] = "expired"] /\ UNCHANGED <<status, cursor, exec>>
        BY <1>3 DEF leaseRunsOut, ExpireLease
    <2>2. hist'.lapsed = (hist.lapsed \/ \E w \in Workers : exec[w].run = r)
        BY <1>3 DEF leaseRunsOut
    <2>3. \A x \in Runs : x # r => lease'[x] = lease[x]
        BY <2>1 DEF Typed, TypeOK
    <2>4. ~hist'.lapsed => \A w \in Workers : exec[w].run # r
        BY <2>2
    <2>5. ~hist'.lapsed => ~hist.lapsed
        BY <2>2
    <2>6. ~hist'.lapsed => Leased'
        BY <1>0, <2>1, <2>3, <2>4, <2>5 DEF Alone, Leased
    <2> QED BY <2>1, <2>5, <2>6 DEF Alone, LeftQueue, Single, Knows, Grows
<1>4. ASSUME NEW r \in Runs, handleCancelRun(r) PROVE Alone' /\ Grows
    BY <1>4 DEF handleCancelRun, Update, Alone, LeftQueue, Leased, Single, Knows, Grows, Typed, TypeOK
<1>5. ASSUME NEW q \in Requesters, NEW r \in Runs, CreateIngestionRun(q, r) PROVE Alone' /\ Grows
    BY <1>0, <1>5 DEF CreateIngestionRun, Create, Alone, LeftQueue, Leased, Single, Knows, Grows, Typed, TypeOK
<1>6. ASSUME UNCHANGED <<status, lease, cursor, exec, hist>> PROVE Alone' /\ Grows
    BY <1>6 DEF Alone, LeftQueue, Leased, Single, Knows, Grows
<1>7. ASSUME NEW d \in Docs, NEW content \in SUBSET Chunks, edit(d, content)
      PROVE  Alone' /\ Grows
    BY <1>7 DEF edit, vars, Alone, LeftQueue, Leased, Single, Knows, Grows
<1>8. ASSUME NEW w \in Workers, WorkerDoes(w) PROVE Alone' /\ Grows
    <2>1. CASE heartbeatRenews(w)
        <3>1. /\ lease' = [lease EXCEPT ![exec[w].run] = "live"] /\ exec[w].run \in Runs
              /\ UNCHANGED <<status, cursor, exec, hist>>
            BY <1>0, <2>1 DEF heartbeatRenews, Heartbeat, ivars, Busy, At
        <3> QED BY <3>1 DEF Alone, LeftQueue, Leased, Single, Knows, Grows, Typed, TypeOK
    <2> QED BY <1>1, <1>2, <1>8, <2>1, Reduction DEF WorkerDoes
<1> QED
    BY <1>3, <1>4, <1>5, <1>6, <1>7, <1>8 DEF IngestNext, ActiveIngestion, ingestVars, vars

\* At the start nothing is executed.
LEMMA AloneInit == IngestInit => Alone
BY IdleOK DEF IngestInit, Alone, LeftQueue, Leased, Single, Knows, Past

\* The documents that a run's cursor calls done are never forgotten by a crash,
\* a reclaim or a resume, except by an execution whose lease lapsed under it:
\* as long as none did, a run has one execution at a time, it starts from the
\* cursor and writes back more (ingestion_executor.go 62, persistIngestionCursor).
THEOREM ResumeForgetsNothing == IngestSpec => DoneStaysDone
<1>1. Typed /\ Alone /\ [IngestNext]_ingestVars
         => [~hist'.lapsed => \A r \in Runs : cursor[r] \subseteq cursor'[r]]_ingestVars
    BY AloneStep DEF Grows
<1> QED
    BY <1>1, TypedInit, TypedStep, AloneInit, AloneStep, PTL DEF IngestSpec, DoneStaysDone

-------------------------------------------------------------------------------
(* A corpus that is called ready is whole.                                 *)

Current(d) == Indexed(d) = source[d]

\* A run that may still write rows.
Engaged(r) == status[r] \in {"queued", "running"} \/ \E w \in Workers : exec[w].run = r

\* Runs have no children, so they never wait; nothing names a run that has no
\* row; and what a run that may still write has written is of the present
\* text, which is replaced only while there is no such run.
NeverWaits == \A r \in Runs : status[r] \in {Absent, "queued", "running"} \cup Terminal
NewIsBlank == \A r \in Runs : ~Created(r) => cursor[r] = {}
Stamped == \A d \in Docs, c \in Chunks : rows[d][c] \in Runs =>
              /\ Created(rows[d][c])
              /\ Engaged(rows[d][c]) => c \in source[d]
ReadyNamed == corpus.phase = "Ready" => corpus.by \in Runs /\ Created(corpus.by)
TodoPresent == \A w \in Workers :
                  exec[w].pc = "upsert" => exec[w].todo \subseteq source[exec[w].doc]
AllDone == \A w \in Workers : exec[w].pc \in {"complete", "succeed"} => exec[w].done = Docs

Stamps == NeverWaits /\ NewIsBlank /\ Stamped /\ ReadyNamed /\ TodoPresent /\ AllDone

\* Without an overlap, every execution under way is of the run claimed last;
\* the chunks it has gone through carry its stamp, and the documents that it,
\* or the cursor of a run that has not ended, calls done are current.
OneRun == \A w \in Workers : exec[w].pc # "idle" => exec[w].run = hist.last
Through ==
    \A w \in Workers :
        /\ exec[w].pc = "upsert" =>
              \A c \in source[exec[w].doc] \ exec[w].todo : rows[exec[w].doc][c] = exec[w].run
        /\ exec[w].pc = "sweep" =>
              \A c \in source[exec[w].doc] : rows[exec[w].doc][c] = exec[w].run
DoneCurrent == \A w \in Workers : exec[w].pc \in Past => \A d \in exec[w].done : Current(d)
CursorCurrent == \A r \in Runs : ~IsTerminal(status[r]) => \A d \in cursor[r] : Current(d)
ReadyWhole ==
    \A r \in Runs : (r = hist.last \/ ~IsTerminal(status[r])) /\ CalledReady(r) => Whole

Progress == ~hist.overlap => OneRun /\ Through /\ DoneCurrent /\ CursorCurrent /\ ReadyWhole

\* What a step of an execution does to one chunk row: nothing, or the stamp of
\* a chunk of the present text, or the removal of another run's.
Rewrites(w) ==
    \/ \A x \in Docs, c \in Chunks : rows'[x][c] = rows[x][c]
    \/ /\ exec[w].pc = "upsert"
       /\ \E k \in exec[w].todo :
             \A x \in Docs, c \in Chunks :
                 rows'[x][c] = IF x = exec[w].doc /\ c = k THEN exec[w].run ELSE rows[x][c]
    \/ /\ exec[w].pc = "sweep"
       /\ \A x \in Docs, c \in Chunks :
             rows'[x][c] = IF x = exec[w].doc /\ rows[x][c] # exec[w].run THEN NoRun
                           ELSE rows[x][c]

\* Only the upsert and the sweep of a document (processDocument) rewrite chunk
\* rows, each the rows of the document at hand and in its own way.
LEMMA RowsForm ==
    ASSUME Typed, NEW w \in Workers, Reduced(w)
    PROVE  Rewrites(w)
<1>0. exec[w] \in ExecRecord /\ RecordOK(exec[w])
    BY DEF Typed
<1>1. CASE Upserts(w)
    <2>0. exec[w].doc \in Docs /\ exec[w].todo \in SUBSET Chunks /\ exec[w].pc = "upsert"
        BY <1>0, <1>1 DEF Upserts, RecordOK, ExecRecord
    <2>1. PICK k \in exec[w].todo : rows' = [rows EXCEPT ![exec[w].doc][k] = exec[w].run]
        BY <1>1 DEF Upserts
    <2>2. \A x \in Docs, c \in Chunks :
              rows'[x][c] = IF x = exec[w].doc /\ c = k THEN exec[w].run ELSE rows[x][c]
        BY <2>0, <2>1 DEF Typed
    <2> QED BY <2>0, <2>2 DEF Rewrites
<1>2. CASE Sweeps(w)
    <2>0. exec[w].doc \in Docs /\ exec[w].pc = "sweep"
        BY <1>0, <1>2 DEF Sweeps, RecordOK
    <2>1. \A x \in Docs, c \in Chunks :
              rows'[x][c] = IF x = exec[w].doc /\ rows[x][c] # exec[w].run THEN NoRun
                            ELSE rows[x][c]
        BY <1>2, <2>0 DEF Sweeps, Swept, Typed
    <2> QED BY <2>0, <2>1 DEF Rewrites
<1>3. CASE UNCHANGED rows
    BY <1>3 DEF Rewrites
<1> QED
    BY <1>1, <1>2, <1>3
       DEF Reduced, Shape, Leaves, Marks, Opens, Finds, Picks, Cuts, Persists, Records,
           Succeeds, Fails, written

\* The status of a run changes in a step of an execution only by its end.
LEMMA StatusForm ==
    ASSUME Typed, NEW w \in Workers, Reduced(w)
    PROVE  /\ \A x \in Runs : status'[x] = status[x] \/ status'[x] \in {"succeeded", "failed"}
           /\ \A x \in Runs, v \in Workers : exec'[v].run = x => exec[v].run = x
           /\ \A v \in Workers : exec[v].pc # "idle" => exec[v].run \in Runs
<1>1. \A v \in Workers : v # w => exec'[v] = exec[v]
    BY DEF Reduced, Others
<1>2. exec[w].pc # "idle" => exec[w].run \in Runs
    BY DEF Typed, RecordOK
<1>3. exec'[w].run \in {exec[w].run, NoRun}
    BY IdleOK
       DEF Reduced, Shape, Leaves, Marks, Opens, Finds, Picks, Cuts, Upserts, Sweeps, Persists,
           Records, Succeeds, Fails, Same
<1>4. \A x \in Runs : status'[x] = status[x] \/ status'[x] \in {"succeeded", "failed"}
    <2>1. CASE Succeeds(w)
        BY <1>2, <2>1 DEF Succeeds, Typed, TypeOK
    <2>2. CASE Fails(w)
        BY <1>2, <2>2 DEF Fails, Typed, TypeOK
    <2>3. CASE UNCHANGED status
        BY <2>3
    <2> QED
        BY <2>1, <2>2, <2>3
           DEF Reduced, Shape, Leaves, Marks, Opens, Finds, Picks, Cuts, Upserts, Sweeps,
               Persists, Records, written, vars
<1> QED BY <1>1, <1>3, <1>4, ParentAssumption DEF Typed, RecordOK

\* The steps of an execution keep the stamps in order.
LEMMA StampsReduced ==
    ASSUME Typed, Typed', Stamps, [Next]_vars, NEW w \in Workers, Reduced(w)
    PROVE  Stamps'
<1> DEFINE r == exec[w].run
           d == exec[w].doc
<1>0. exec[w] \in ExecRecord /\ RecordOK(exec[w]) /\ source' = source
    BY DEF Typed, Reduced
<1>1. \A x \in Runs : Created(x) => Created(x)'
    BY TerminalFrozen DEF Typed, Created
<1>2. \A v \in Workers : v # w => exec'[v] = exec[v]
    BY DEF Reduced, Others
<1>3. NeverWaits'
    BY StatusForm DEF Stamps, NeverWaits, Terminal
<1>4. Stamped'
    <2> SUFFICES ASSUME NEW x \in Docs, NEW c \in Chunks, rows'[x][c] \in Runs
                 PROVE  /\ Created(rows[x][c])'
                        /\ Engaged(rows[x][c])' => c \in source[x]
        BY <1>0 DEF Stamped
    <2>1. \A y \in Runs : Engaged(y)' => Engaged(y)
        BY StatusForm DEF Engaged
    <2>2. CASE rows'[x][c] = rows[x][c]
        BY <1>1, <2>1, <2>2 DEF Stamps, Stamped, Created, Engaged
    <2>3. CASE rows'[x][c] = r /\ exec[w].pc = "upsert" /\ x = d /\ c \in exec[w].todo
        <3>1. r \in Runs /\ status'[r] # Absent
            BY <1>0, <1>1, <2>3 DEF RecordOK, Created
        <3>2. c \in source[x]
            BY <2>3 DEF Stamps, TodoPresent
        <3> QED BY <2>3, <3>1, <3>2 DEF Created
    <2> QED BY <2>2, <2>3, RowsForm, ParentAssumption DEF Rewrites
<1>5. NewIsBlank'
    <2> SUFFICES ASSUME NEW x \in Runs, ~Created(x)' PROVE cursor'[x] = {}
        BY DEF NewIsBlank
    <2>1. ~Created(x) /\ cursor[x] = {}
        BY <1>1 DEF Stamps, NewIsBlank
    <2>2. cursor'[x] = cursor[x]
        <3>1. CASE Persists(w)
            BY <1>0, <2>1, <3>1 DEF Persists, RecordOK, Typed
        <3>2. CASE Succeeds(w)
            BY <1>0, <2>1, <3>2 DEF Succeeds, RecordOK, Typed
        <3>3. CASE UNCHANGED cursor
            BY <3>3
        <3> QED
            BY <3>1, <3>2, <3>3
               DEF Reduced, Shape, Leaves, Marks, Opens, Finds, Picks, Cuts, Upserts, Sweeps,
                   Records, Fails, written
    <2> QED BY <2>1, <2>2
<1>6. ReadyNamed'
    <2>1. CASE UNCHANGED corpus
        BY <1>1, <2>1 DEF Stamps, ReadyNamed, Created
    <2>2. CASE Records(w)
        BY <1>0, <1>1, <2>1, <2>2 DEF Records, RecordOK, ReadyNamed, Created
    <2> QED
        BY <2>1, <2>2
           DEF Reduced, Shape, Leaves, Marks, Opens, Finds, Picks, Cuts, Upserts, Sweeps,
               Persists, Succeeds, Fails, written
<1>7. /\ exec'[w].pc = "upsert" => exec'[w].todo \subseteq source[exec'[w].doc]
      /\ exec'[w].pc \in {"complete", "succeed"} => exec'[w].done = Docs
    <2>0. /\ exec[w].pc = "upsert" => exec[w].todo \subseteq source[d]
          /\ exec[w].pc \in {"complete", "succeed"} => exec[w].done = Docs
        BY DEF Stamps, TodoPresent, AllDone
    <2>1. CASE exec'[w] = Idle
        BY <2>1, IdleOK
    <2>2. CASE Marks(w)
        BY <2>0, <2>2 DEF Marks, Same
    <2>3. CASE Cuts(w)
        BY <2>0, <2>3 DEF Cuts, Same
    <2>4. CASE Upserts(w)
        BY <2>0, <2>4 DEF Upserts, Same
    <2>5. CASE Records(w) \/ Finds(w)
        BY <2>0, <2>5 DEF Records, Finds, Same
    <2> QED
        BY <2>1, <2>2, <2>3, <2>4, <2>5
           DEF Reduced, Shape, Leaves, Opens, Picks, Sweeps, Persists, Succeeds, Fails
<1>8. TodoPresent' /\ AllDone'
    BY <1>0, <1>2, <1>7 DEF Stamps, TodoPresent, AllDone
<1> QED BY <1>3, <1>4, <1>5, <1>6, <1>8 DEF Stamps

\* ... and so does every other step.
LEMMA StampsStep ==
    ASSUME Typed, Typed', Stamps, [IngestNext]_ingestVars
    PROVE  Stamps'
<1>0. [Next]_vars
    BY UsesStore
<1>1. \A x \in Runs : Created(x) => Created(x)'
    BY <1>0, TerminalFrozen DEF Typed, Created
<1>a. ASSUME UNCHANGED <<source, rows, cursor, corpus>>, NeverWaits',
             \A x \in Runs : Created(x) /\ Engaged(x)' => Engaged(x),
             \A w \in Workers : \/ /\ exec'[w].pc \in {"start", exec[w].pc} /\ Same(w)
                                   /\ exec'[w].todo = exec[w].todo
                                \/ exec'[w].pc = "start"
      PROVE  Stamps'
    <2>1. NewIsBlank'
        BY <1>1, <1>a DEF Stamps, NewIsBlank
    <2>2. Stamped'
        BY <1>1, <1>a DEF Stamps, Stamped, Created, Engaged
    <2>3. ReadyNamed'
        BY <1>1, <1>a DEF Stamps, ReadyNamed, Created
    <2>4. TodoPresent' /\ AllDone'
        BY <1>a DEF Stamps, TodoPresent, AllDone, Same
    <2> QED BY <1>a, <2>1, <2>2, <2>3, <2>4 DEF Stamps
<1>2. ASSUME NEW w \in Workers, NEW r \in Runs, claim(w, r) PROVE Stamps'
    <2>1. /\ exec'[w].pc = "start" /\ exec'[w].run = r
          /\ \A v \in Workers : v # w => exec'[v] = exec[v]
        BY <1>2, ClaimForm DEF Others
    <2>2. status' = [status EXCEPT ![r] = "running"] /\ status[r] \in {"queued", "running"}
        BY <1>2 DEF claim, ClaimQueued, ClaimReclaimable, Typed, TypeOK
    <2>3. NeverWaits'
        BY <2>2 DEF Stamps, NeverWaits, Typed, TypeOK
    <2>4. \A x \in Runs : Engaged(x)' => Engaged(x)
        <3> SUFFICES ASSUME NEW x \in Runs, Engaged(x)' PROVE Engaged(x)
            OBVIOUS
        <3>1. CASE x = r
            BY <2>2, <3>1 DEF Engaged
        <3>2. CASE x # r
            BY <2>1, <2>2, <3>2 DEF Engaged, Typed, TypeOK
        <3> QED BY <3>1, <3>2
    <2>5. UNCHANGED <<source, rows, cursor, corpus>>
        BY <1>2 DEF claim
    <2> QED BY <1>a, <2>1, <2>3, <2>4, <2>5 DEF Same
<1>3. ASSUME UNCHANGED <<status, exec, source, rows, cursor, corpus>> PROVE Stamps'
    BY <1>3 DEF Stamps, NeverWaits, NewIsBlank, Stamped, ReadyNamed, TodoPresent, AllDone,
                Engaged, Created
<1>4. ASSUME NEW r \in Runs, handleCancelRun(r) PROVE Stamps'
    <2>1. status' = [status EXCEPT ![r] = "cancelled"]
        BY <1>4 DEF handleCancelRun, Update
    <2>2. UNCHANGED <<source, rows, cursor, corpus, exec>>
        BY <1>4 DEF handleCancelRun
    <2>3. NeverWaits' /\ \A x \in Runs : Engaged(x)' => Engaged(x)
        BY <2>1, <2>2 DEF Stamps, NeverWaits, Terminal, Engaged, Typed, TypeOK
    <2> QED BY <1>a, <2>2, <2>3 DEF Same
<1>5. ASSUME NEW q \in Requesters, NEW r \in Runs, CreateIngestionRun(q, r) PROVE Stamps'
    <2>1. status' = [status EXCEPT ![r] = "queued"] /\ ~Created(r)
        BY <1>5 DEF CreateIngestionRun, Create
    <2>2. UNCHANGED <<source, rows, cursor, corpus, exec>>
        BY <1>5 DEF CreateIngestionRun
    <2>3. NeverWaits'
        BY <2>1 DEF Stamps, NeverWaits, Typed, TypeOK
    <2>4. \A x \in Runs : Created(x) /\ Engaged(x)' => Engaged(x)
        BY <2>1, <2>2 DEF Engaged, Typed, TypeOK
    <2> QED BY <1>a, <2>2, <2>3, <2>4 DEF Same
<1>6. ASSUME NEW d \in Docs, NEW content \in SUBSET Chunks, edit(d, content) PROVE Stamps'
    <2>1. /\ Active = {} /\ \A w \in Workers : exec[w].pc = "idle"
          /\ UNCHANGED <<status, rows, cursor, corpus, exec>>
        BY <1>6 DEF edit, Busy, At, vars
    <2>2. \A w \in Workers : exec[w].run = NoRun
        BY <2>1 DEF Typed, RecordOK
    <2>3. \A x \in Runs : ~Engaged(x)'
        BY <2>1, <2>2, ParentAssumption DEF Engaged, Active
    <2>4. Stamped'
        BY <2>1, <2>3 DEF Stamps, Stamped, Engaged, Created
    <2>5. TodoPresent' /\ AllDone'
        BY <2>1 DEF TodoPresent, AllDone
    <2> QED BY <2>1, <2>4, <2>5 DEF Stamps, NeverWaits, NewIsBlank, ReadyNamed, Created
<1>7. ASSUME NEW w \in Workers, WorkerDoes(w) PROVE Stamps'
    <2>1. CASE heartbeatRenews(w)
        BY <1>3, <2>1 DEF heartbeatRenews, Heartbeat, ivars
    <2>2. CASE Reduced(w)
        BY <1>0, <2>2, StampsReduced
    <2> QED BY <1>2, <1>7, <2>1, <2>2, Reduction DEF WorkerDoes
<1>8. ASSUME NEW r \in Runs, leaseRunsOut(r) PROVE Stamps'
    BY <1>3, <1>8 DEF leaseRunsOut, ExpireLease
<1> QED
    BY <1>3, <1>4, <1>5, <1>6, <1>7, <1>8 DEF IngestNext, ActiveIngestion, ingestVars, vars

\* What is current stays current in a step of an execution, and the document
\* that is swept becomes so: its rows of other runs go, and those of this run
\* are exactly the present text.
LEMMA CurrentKept ==
    ASSUME Typed, Stamps, Progress, ~hist.overlap, NEW w \in Workers, Reduced(w)
    PROVE  /\ \A x \in Docs : Current(x) => Current(x)'
           /\ Sweeps(w) => \A x \in Docs : x = exec[w].doc => Current(x)'
           /\ \A v \in Workers, x \in Docs, c \in Chunks :
                 exec[v].pc # "idle" /\ rows[x][c] = exec[v].run => rows'[x][c] = exec[v].run
<1> DEFINE r == exec[w].run
           d == exec[w].doc
<1>0. /\ exec[w] \in ExecRecord /\ RecordOK(exec[w]) /\ source' = source
      /\ source \in [Docs -> SUBSET Chunks]
    BY DEF Typed, Reduced
<1>1. \A v \in Workers : exec[v].pc # "idle" /\ exec[w].pc # "idle" => exec[v].run = r
    BY DEF Progress, OneRun
<1>2. exec[w].pc # "idle" => r \in Runs /\ r # NoRun
    BY <1>0, ParentAssumption DEF RecordOK
<1>3. CASE \A x \in Docs, c \in Chunks : rows'[x][c] = rows[x][c]
    <2>1. ~Sweeps(w) \/ \A x \in Docs : x = d => Current(x)'
        <3> SUFFICES ASSUME Sweeps(w), NEW x \in Docs, x = d PROVE Current(x)'
            OBVIOUS
        <3>1. exec[w].pc = "sweep" /\ rows' = [rows EXCEPT ![x] = Swept(r, x)]
            BY DEF Sweeps
        <3>2. \A c \in Chunks : rows'[x][c] # NoRun => rows[x][c] = r
            BY <3>1 DEF Typed, Swept
        <3>3. \A c \in Chunks : rows[x][c] = r => rows'[x][c] # NoRun /\ c \in source[x]
            BY <1>2, <1>3, <3>1 DEF Stamps, Stamped, Engaged
        <3>4. \A c \in source[x] : rows[x][c] = r
            BY <3>1 DEF Progress, Through
        <3> QED BY <1>0, <3>2, <3>3, <3>4 DEF Current, Indexed
    <2>2. \A x \in Docs : Indexed(x)' = Indexed(x)
        BY <1>3 DEF Indexed
    <2> QED BY <1>0, <1>3, <2>1, <2>2 DEF Current
<1>4. CASE /\ exec[w].pc = "upsert"
           /\ \E k \in exec[w].todo : \A x \in Docs, c \in Chunks :
                 rows'[x][c] = IF x = d /\ c = k THEN r ELSE rows[x][c]
    <2>1. PICK k \in exec[w].todo : \A x \in Docs, c \in Chunks :
              rows'[x][c] = IF x = d /\ c = k THEN r ELSE rows[x][c]
        BY <1>4
    <2>2. k \in source[d] /\ ~Sweeps(w)
        BY <1>4 DEF Stamps, TodoPresent, Sweeps
    <2>3. ASSUME NEW x \in Docs, Current(x) PROVE Current(x)'
        BY <1>0, <1>2, <1>4, <2>1, <2>2, <2>3 DEF Current, Indexed
    <2> QED BY <1>1, <1>4, <2>1, <2>2, <2>3
<1>5. CASE /\ exec[w].pc = "sweep"
           /\ \A x \in Docs, c \in Chunks :
                 rows'[x][c] = IF x = d /\ rows[x][c] # r THEN NoRun ELSE rows[x][c]
    <2>1. d \in Docs /\ r \in Runs /\ r # NoRun
        BY <1>0, <1>2, <1>5 DEF RecordOK
    <2>2. \A c \in Chunks : rows[d][c] = r => c \in source[d]
        BY <2>1 DEF Stamps, Stamped, Engaged
    <2>3. \A c \in source[d] : rows[d][c] = r
        BY <1>5 DEF Progress, Through
    <2>4. \A x \in Docs : x = d => Indexed(x)' = source[x]
        <3>1. \A c \in Chunks : rows'[d][c] # NoRun <=> c \in source[d]
            BY <1>5, <2>1, <2>2, <2>3
        <3>2. source[d] \subseteq Chunks
            BY <1>0, <2>1
        <3> QED BY <3>1, <3>2 DEF Indexed
    <2>5. \A x \in Docs : x = d => Current(x)'
        BY <1>0, <2>4 DEF Current
    <2>6. \A x \in Docs : x # d => Indexed(x)' = Indexed(x)
        BY <1>5 DEF Indexed
    <2> QED BY <1>0, <1>1, <1>5, <2>5, <2>6 DEF Current
<1> QED BY <1>3, <1>4, <1>5, RowsForm DEF Rewrites

\* The steps of an execution make progress as claimed.
LEMMA ProgressReduced ==
    ASSUME Typed, Stamps, Progress, ~hist.overlap, NEW w \in Workers, Reduced(w)
    PROVE  (OneRun /\ Through /\ DoneCurrent /\ CursorCurrent /\ ReadyWhole)'
<1> DEFINE r == exec[w].run
           d == exec[w].doc
<1>0. /\ exec[w] \in ExecRecord /\ RecordOK(exec[w]) /\ source' = source /\ hist' = hist
      /\ \A v \in Workers : v # w => exec'[v] = exec[v]
    BY DEF Typed, Reduced, Others
<1>1. OneRun /\ Through /\ DoneCurrent /\ CursorCurrent /\ ReadyWhole
    BY DEF Progress
<1>c. \A x \in Docs : Current(x) => Current(x)'
    BY CurrentKept
<1>s. \A v \in Workers, x \in Docs, c \in Chunks :
          exec[v].pc # "idle" /\ rows[x][c] = exec[v].run => rows'[x][c] = exec[v].run
    BY CurrentKept
<1>t. /\ \A v \in Workers : RecordOK(exec[v]) /\ exec[v] \in ExecRecord
      /\ source \in [Docs -> SUBSET Chunks] /\ cursor \in [Runs -> SUBSET Docs]
    BY DEF Typed
<1>2. OneRun'
    <2>1. exec'[w].pc # "idle" => exec[w].pc # "idle" /\ exec'[w].run = r
        BY IdleOK
           DEF Reduced, Shape, Leaves, Marks, Opens, Finds, Picks, Cuts, Upserts, Sweeps,
               Persists, Records, Succeeds, Fails, Same
    <2> QED BY <1>0, <1>1, <2>1 DEF OneRun
<1>3. Through'
    <2> DEFINE Good(v) ==
            /\ exec'[v].pc = "upsert" => \A c \in source[exec'[v].doc] \ exec'[v].todo :
                                            rows'[exec'[v].doc][c] = exec'[v].run
            /\ exec'[v].pc = "sweep" => \A c \in source[exec'[v].doc] :
                                            rows'[exec'[v].doc][c] = exec'[v].run
    <2>1. ASSUME NEW v \in Workers, v # w PROVE Good(v)
        <3>1. exec'[v] = exec[v] /\ exec[v].pc \in {"upsert", "sweep"} => exec[v].doc \in Docs
            BY <1>t, <2>1 DEF RecordOK
        <3> QED BY <1>0, <1>1, <1>s, <1>t, <2>1, <3>1 DEF Through
    <2>2. Good(w)
        <3>1. CASE Upserts(w)
            <4>0. d \in Docs /\ exec[w].todo \in SUBSET Chunks /\ exec[w].pc = "upsert"
                BY <1>0, <3>1 DEF Upserts, RecordOK, ExecRecord
            <4>1. PICK k \in exec[w].todo :
                      /\ rows' = [rows EXCEPT ![d][k] = r]
                      /\ exec'[w].todo = exec[w].todo \ {k}
                      /\ exec'[w].pc = IF exec[w].todo = {k} THEN "sweep" ELSE "upsert"
                BY <3>1 DEF Upserts
            <4>2. exec'[w].run = r /\ exec'[w].doc = d
                BY <3>1 DEF Upserts, Same
            <4>3. rows'[d][k] = r
                BY <4>0, <4>1 DEF Typed
            <4>4. \A c \in source[d] \ exec[w].todo : rows'[d][c] = r
                BY <1>1, <1>s, <1>t, <4>0 DEF Through
            <4>5. \A c \in source[d] \ exec'[w].todo : rows'[d][c] = r
                BY <4>1, <4>3, <4>4
            <4> QED BY <4>1, <4>2, <4>4, <4>5
        <3>2. CASE Cuts(w)
            BY <1>0, <3>2 DEF Cuts, Same
        <3>3. CASE Marks(w)
            <4>1. UNCHANGED rows /\ exec'[w].run = r /\ exec'[w].doc = d /\ exec'[w].todo = exec[w].todo
                BY <3>3 DEF Marks, written, Same
            <4> QED BY <1>1, <3>3, <4>1 DEF Marks, Through
        <3>4. CASE exec'[w] = Idle
            BY <3>4, IdleOK
        <3> QED
            BY <3>1, <3>2, <3>3, <3>4
               DEF Reduced, Shape, Leaves, Opens, Finds, Picks, Sweeps, Persists, Records,
                   Succeeds, Fails
    <2> HIDE DEF Good
    <2>3. \A v \in Workers : Good(v)
        BY <2>1, <2>2
    <2> QED BY <1>0, <2>3 DEF Good, Through
<1>4. exec'[w].pc \in Past => \A x \in exec'[w].done : x \in Docs /\ Current(x)'
    <2>0. exec[w].pc \in Past => \A x \in exec[w].done : x \in Docs /\ Current(x)'
        BY <1>0, <1>1, <1>c DEF DoneCurrent, ExecRecord
    <2>1. CASE exec'[w] = Idle
        BY <2>1, IdleOK DEF Past
    <2>2. CASE Opens(w)
        <3>1. exec'[w].done = cursor[r] /\ status[r] = "running" /\ r \in Runs
            BY <1>0, <2>2 DEF Opens, RecordOK
        <3>2. \A x \in cursor[r] : x \in Docs /\ Current(x)
            BY <1>1, <1>t, <3>1 DEF CursorCurrent, IsTerminal, Terminal
        <3> QED BY <1>c, <3>1, <3>2
    <2>3. CASE Sweeps(w)
        <3>1. exec'[w].done = exec[w].done \cup {d} /\ exec[w].pc \in Past /\ d \in Docs
            BY <1>0, <2>3 DEF Sweeps, Past, RecordOK
        <3>2. \A x \in Docs : x = d => Current(x)'
            BY <2>3, CurrentKept
        <3> QED BY <2>0, <3>1, <3>2
    <2>4. CASE exec'[w].done = exec[w].done /\ (exec'[w].pc \in Past => exec[w].pc \in Past)
        BY <2>0, <2>4
    <2> QED
        BY <2>1, <2>2, <2>3, <2>4
           DEF Reduced, Shape, Leaves, Marks, Finds, Picks, Cuts, Upserts, Persists, Records,
               Succeeds, Fails, Same, Past
<1>5. DoneCurrent'
    <2>1. ASSUME NEW v \in Workers, v # w, exec'[v].pc \in Past, NEW x \in exec'[v].done
          PROVE  Current(x)'
        BY <1>0, <1>1, <1>c, <1>t, <2>1 DEF DoneCurrent, ExecRecord
    <2> QED BY <1>4, <2>1 DEF DoneCurrent
<1>6. CursorCurrent'
    <2> SUFFICES ASSUME NEW x \in Runs, ~IsTerminal(status'[x]), NEW y \in cursor'[x]
                 PROVE  Current(y)'
        BY DEF CursorCurrent
    <2>1. ~IsTerminal(status[x])
        BY StatusForm DEF IsTerminal, Terminal
    <2>2. CASE y \in cursor[x]
        BY <1>1, <1>c, <1>t, <2>1, <2>2 DEF CursorCurrent
    <2>3. CASE Persists(w)
        <3>1. cursor' = [cursor EXCEPT ![r] = exec[w].done] /\ r \in Runs
            BY <1>0, <2>3 DEF Persists, RecordOK
        <3>2. exec'[w].pc \in Past /\ exec'[w].done = exec[w].done
            BY <2>3 DEF Persists, Past, Same
        <3>3. CASE y \in exec[w].done
            BY <1>4, <3>2, <3>3
        <3> QED BY <1>t, <2>2, <3>1, <3>3
    <2>4. CASE Succeeds(w)
        <3>1. /\ cursor' = [cursor EXCEPT ![r] = exec[w].done] /\ r \in Runs
              /\ status' = [status EXCEPT ![r] = "succeeded"]
            BY <1>0, <2>4 DEF Succeeds, RecordOK
        <3>2. x # r
            BY <3>1 DEF IsTerminal, Terminal, Typed, TypeOK
        <3> QED BY <1>t, <2>2, <3>1, <3>2
    <2>5. CASE UNCHANGED cursor
        BY <2>2, <2>5
    <2> QED
        BY <2>3, <2>4, <2>5
           DEF Reduced, Shape, Leaves, Marks, Opens, Finds, Picks, Cuts, Upserts, Sweeps,
               Records, Fails, written
<1>7. ReadyWhole'
    <2>0. Whole => Whole'
        BY <1>c DEF Whole, Current
    <2> SUFFICES ASSUME NEW x \in Runs, x = hist.last \/ ~IsTerminal(status'[x]),
                        status'[x] = "succeeded" \/ corpus' = [phase |-> "Ready", by |-> x]
                 PROVE  Whole'
        BY <1>0 DEF ReadyWhole, CalledReady
    <2>1. CASE /\ status'[x] = "succeeded" => status[x] = "succeeded"
               /\ corpus' = [phase |-> "Ready", by |-> x] => corpus = [phase |-> "Ready", by |-> x]
        <3>1. x # NoRun
            BY ParentAssumption
        <3>2. CalledReady(x)
            BY <2>1, <3>1 DEF CalledReady
        <3>3. x = hist.last \/ ~IsTerminal(status[x])
            BY StatusForm DEF IsTerminal, Terminal
        <3> QED BY <1>1, <2>0, <3>2, <3>3 DEF ReadyWhole
    <2>2. CASE exec[w].pc \in {"complete", "succeed"}
        <3>1. exec[w].done = Docs /\ exec[w].pc \in Past
            BY <2>2 DEF Stamps, AllDone, Past
        <3>2. Whole
            BY <1>1, <3>1 DEF DoneCurrent, Current, Whole
        <3> QED BY <2>0, <3>2
    <2>3. CASE exec[w].pc \notin {"complete", "succeed"}
        <3>1. status'[x] = "succeeded" => status[x] = "succeeded"
            <4>1. CASE Fails(w)
                BY <4>1, <1>0 DEF Fails, RecordOK, Typed, TypeOK
            <4> QED
                BY <2>3, <4>1
                   DEF Reduced, Shape, Leaves, Marks, Opens, Finds, Picks, Cuts, Upserts, Sweeps,
                       Persists, Records, Succeeds, written, vars
        <3>2. corpus' = [phase |-> "Ready", by |-> x] => corpus = [phase |-> "Ready", by |-> x]
            <4>1. corpus' = corpus \/ corpus'.phase = "Failed"
                BY <2>3
                   DEF Reduced, Shape, Leaves, Marks, Opens, Finds, Picks, Cuts, Upserts, Sweeps,
                       Persists, Records, Succeeds, Fails, written
            <4> QED BY <4>1
        <3> QED BY <2>1, <3>1, <3>2
    <2> QED BY <2>2, <2>3
<1> QED BY <1>2, <1>3, <1>5, <1>6, <1>7

\* ... and the other steps do not undo it.
LEMMA ProgressStep ==
    ASSUME Typed, Stamps, Progress, [IngestNext]_ingestVars
    PROVE  Progress'
<1> DEFINE All == OneRun /\ Through /\ DoneCurrent /\ CursorCurrent /\ ReadyWhole
<1>1. ASSUME NEW w \in Workers, Reduced(w) PROVE Progress'
    BY <1>1, ProgressReduced DEF Progress, Reduced
<1>2. ASSUME UNCHANGED <<source, rows, cursor, corpus, exec, hist>>,
             \A x \in Runs : ~IsTerminal(status'[x]) => ~IsTerminal(status[x]),
             \A x \in Runs : status'[x] = "succeeded" => status[x] = "succeeded"
      PROVE  Progress'
    <2> SUFFICES ASSUME ~hist.overlap PROVE All'
        BY <1>2 DEF Progress
    <2>1. All
        BY DEF Progress
    <2>2. (OneRun /\ Through)'
        BY <1>2, <2>1 DEF OneRun, Through
    <2>3. (DoneCurrent /\ CursorCurrent)'
        BY <1>2, <2>1 DEF DoneCurrent, CursorCurrent, Current, Indexed
    <2>4. ReadyWhole'
        BY <1>2, <2>1 DEF ReadyWhole, CalledReady, Whole, Indexed
    <2> QED BY <2>2, <2>3, <2>4
<1>3. ASSUME NEW w \in Workers, NEW r \in Runs, claim(w, r) PROVE Progress'
    <2>1. /\ exec[w].pc = "idle" /\ exec'[w].pc = "start" /\ exec'[w].run = r
          /\ \A v \in Workers : v # w => exec'[v] = exec[v]
        BY <1>3, ClaimForm DEF Others
    <2>2. status' = [status EXCEPT ![r] = "running"] /\ status[r] \in {"queued", "running"}
        BY <1>3 DEF claim, ClaimQueued, ClaimReclaimable, Typed, TypeOK
    <2>3. UNCHANGED <<source, rows, cursor, corpus>>
        BY <1>3 DEF claim
    <2>4. /\ hist'.last = r
          /\ hist'.overlap = (hist.overlap \/ \E v \in Workers : Busy(v) /\ exec[v].run # r)
        BY <1>3 DEF claim, Typed
    <2> SUFFICES ASSUME ~hist'.overlap PROVE All'
        BY DEF Progress
    <2>5. ~hist.overlap /\ \A v \in Workers : exec[v].pc # "idle" => exec[v].run = r
        BY <2>4 DEF Busy, At
    <2>6. All
        BY <2>5 DEF Progress
    <2>7. OneRun'
        BY <2>1, <2>4, <2>5 DEF OneRun
    <2>8. Through'
        BY <2>1, <2>3, <2>6 DEF Through
    <2>9. \A x \in Docs : Current(x)' <=> Current(x)
        BY <2>3 DEF Current, Indexed
    <2>10. DoneCurrent'
        <3> SUFFICES ASSUME NEW v \in Workers, exec'[v].pc \in Past, NEW x \in exec'[v].done
                     PROVE  Current(x)'
            BY DEF DoneCurrent
        <3>1. exec'[v] = exec[v]
            BY <2>1 DEF Past
        <3> QED BY <2>6, <2>9, <3>1 DEF DoneCurrent, Typed, ExecRecord
    <2>11. \A x \in Runs : ~IsTerminal(status'[x]) => ~IsTerminal(status[x])
        BY <2>2 DEF Typed, TypeOK, IsTerminal, Terminal
    <2>12. CursorCurrent'
        BY <2>3, <2>6, <2>9, <2>11 DEF CursorCurrent, Typed
    <2>13. ReadyWhole'
        <3> SUFFICES ASSUME NEW x \in Runs, x = r \/ ~IsTerminal(status'[x]), CalledReady(x)'
                     PROVE  Whole
            BY <2>3, <2>4 DEF ReadyWhole, Whole, Indexed
        <3>1. ~IsTerminal(status[x])
            BY <2>2, <2>11 DEF IsTerminal, Terminal
        <3>2. CalledReady(x)
            BY <2>2, <2>3 DEF CalledReady, Typed, TypeOK
        <3> QED BY <2>6, <3>1, <3>2 DEF ReadyWhole
    <2> QED BY <2>7, <2>8, <2>10, <2>12, <2>13
<1>4. ASSUME NEW r \in Runs, handleCancelRun(r) PROVE Progress'
    <2>1. status' = [status EXCEPT ![r] = "cancelled"]
        BY <1>4 DEF handleCancelRun, Update
    <2>2. /\ \A x \in Runs : ~IsTerminal(status'[x]) => ~IsTerminal(status[x])
          /\ \A x \in Runs : status'[x] = "succeeded" => status[x] = "succeeded"
        BY <2>1 DEF Typed, TypeOK, IsTerminal, Terminal
    <2> QED BY <1>2, <1>4, <2>2 DEF handleCancelRun
<1>5. ASSUME NEW q \in Requesters, NEW r \in Runs, CreateIngestionRun(q, r) PROVE Progress'
    <2>1. status' = [status EXCEPT ![r] = "queued"] /\ ~Created(r)
        BY <1>5 DEF CreateIngestionRun, Create
    <2>2. UNCHANGED <<source, rows, cursor, corpus, exec, hist>>
        BY <1>5 DEF CreateIngestionRun
    <2>3. /\ \A x \in Runs : ~IsTerminal(status'[x]) => ~IsTerminal(status[x])
          /\ \A x \in Runs : status'[x] = "succeeded" => status[x] = "succeeded"
        BY <2>1 DEF Typed, TypeOK, IsTerminal, Terminal, Created, Absent
    <2> QED BY <1>2, <2>2, <2>3
<1>6. ASSUME NEW d \in Docs, NEW content \in SUBSET Chunks, edit(d, content) PROVE Progress'
    <2>1. /\ Active = {} /\ \A w \in Workers : exec[w].pc = "idle"
          /\ UNCHANGED <<status, rows, cursor, corpus, exec>>
        BY <1>6 DEF edit, Busy, At, vars
    <2>2. hist'.last = NoRun
        BY <1>6 DEF edit, Typed
    <2>3. \A x \in Runs : ~IsTerminal(status'[x]) => ~Created(x)
        BY <2>1 DEF Stamps, NeverWaits, IsTerminal, Active, Created
    <2>4. (OneRun /\ Through /\ DoneCurrent)'
        BY <2>1 DEF OneRun, Through, DoneCurrent, Past
    <2>5. CursorCurrent'
        BY <2>1, <2>3 DEF Stamps, NewIsBlank, CursorCurrent
    <2>6. ReadyWhole'
        <3> SUFFICES ASSUME NEW x \in Runs, ~IsTerminal(status'[x]), CalledReady(x)'
                     PROVE  FALSE
            BY <2>2, ParentAssumption DEF ReadyWhole
        <3>1. ~Created(x)
            BY <2>3
        <3>2. corpus = [phase |-> "Ready", by |-> x]
            BY <2>1, <3>1 DEF CalledReady, Created, Absent
        <3> QED BY <3>1, <3>2 DEF Stamps, ReadyNamed
    <2> QED BY <2>4, <2>5, <2>6 DEF Progress
<1>7. ASSUME UNCHANGED <<status, source, rows, cursor, corpus, exec>>, hist'.overlap = hist.overlap,
             hist'.last = hist.last
      PROVE  Progress'
    BY <1>7 DEF Progress, OneRun, Through, DoneCurrent, CursorCurrent, ReadyWhole, CalledReady,
                Whole, Current, Indexed
<1>8. ASSUME NEW w \in Workers, WorkerDoes(w) PROVE Progress'
    <2>1. CASE heartbeatRenews(w)
        BY <1>7, <2>1 DEF heartbeatRenews, Heartbeat, ivars
    <2> QED BY <1>1, <1>3, <1>8, <2>1, Reduction DEF WorkerDoes
<1>9. ASSUME NEW r \in Runs, leaseRunsOut(r) PROVE Progress'
    <2>1. hist'.overlap = hist.overlap /\ hist'.last = hist.last
        BY <1>9 DEF leaseRunsOut, Typed
    <2> QED BY <1>7, <1>9, <2>1 DEF leaseRunsOut, ExpireLease
<1> QED
    BY <1>4, <1>5, <1>6, <1>7, <1>8, <1>9 DEF IngestNext, ActiveIngestion, ingestVars, vars

\* At the start there are no rows, no runs and no executions.
LEMMA ReadyInit == IngestInit => Stamps /\ Progress
<1> SUFFICES ASSUME IngestInit PROVE Stamps /\ Progress
    OBVIOUS
<1>1. \A w \in Workers : exec[w].pc = "idle" /\ exec[w].run = NoRun
    BY IdleOK DEF IngestInit
<1>2. \A r \in Runs : status[r] = Absent /\ cursor[r] = {}
    BY DEF IngestInit, Init
<1>3. corpus.phase = "none"
    BY DEF IngestInit
<1>4. \A d \in Docs, c \in Chunks : rows[d][c] = NoRun
    BY DEF IngestInit
<1>5. Stamps
    BY <1>1, <1>2, <1>3, <1>4, ParentAssumption
       DEF Stamps, NeverWaits, NewIsBlank, Stamped, ReadyNamed, TodoPresent, AllDone, Created
<1>6. \A r \in Runs : ~CalledReady(r)
    BY <1>2, <1>3 DEF CalledReady, Absent
<1> QED BY <1>1, <1>2, <1>5, <1>6 DEF Progress, OneRun, Through, DoneCurrent, CursorCurrent, ReadyWhole, Past

\* A corpus that is called ready is what its documents yield, no stale chunk
\* and none missing, whatever crashed, lapsed, was reclaimed, cancelled or
\* edited on the way, with any number of documents, runs and workers, as long
\* as no two runs were executed at a time: the stamp of the run on every chunk
\* and the sweep of the others make it so (ingestion_executor.go 396-399).
THEOREM ReadyCorpusIsWhole == IngestSpec => []ReadyIsWhole
<1>1. Progress /\ Typed => ReadyIsWhole
    <2> SUFFICES ASSUME Progress, Typed, ~hist.overlap, CalledReady(hist.last) PROVE Whole
        BY DEF ReadyIsWhole
    <2>1. hist.last \in Runs
        BY DEF Typed, CalledReady
    <2> QED BY <2>1 DEF Progress, ReadyWhole
<1> QED
    BY <1>1, TypedInit, TypedStep, ReadyInit, StampsStep, ProgressStep, PTL DEF IngestSpec
===============================================================================
