------------------------------ MODULE Ingestion ------------------------------
(***************************************************************************)
(* Ingestion of one knowledge base: the requests that start a run          *)
(* (bff/knowledgebases.go, internal/ingestion), the executor that a worker *)
(* runs for it (bff/ingestion_executor.go), the chunk rows and the corpus  *)
(* status row (controlplane/knowledge/pgstore.go).                         *)
(*                                                                         *)
(* The runs are rows of RunStore; they have no parent and no children.     *)
(* The writes of the executor to the chunk rows, to the corpus status and  *)
(* to the run's cursor are not fenced; its terminal write is.              *)
(***************************************************************************)
EXTENDS RunStore, Sequences, Functions

CONSTANTS
    Documents,   \* the documents of the knowledge base, in the order of the spec snapshot
    Chunks,      \* the chunk contents a document may have
    Requesters,  \* the requests (users, the schedule) that may be served at a time
    Namesake,    \* an AgentDeployment that the user may read has the name of the knowledge base
    Faults,      \* what may happen besides: see Fault
    MaxFaults    \* bound: how often

Docs == Range(Documents)

ASSUME IngestAssumption ==
    /\ Len(Documents) \in Nat \ {0} /\ DOMAIN Documents = 1..Len(Documents)
    /\ IsInjective(Documents)
    /\ \A r \in Runs : ParentOf[r] = NoRun
    /\ Namesake \in BOOLEAN
    /\ Faults \subseteq {"crash", "drain", "lapse", "rate", "status", "cancel"}
    /\ MaxFaults \in Nat /\ MaxAttempts > MaxFaults

VARIABLES
    source,   \* what the object store holds: the chunks each document yields
    rows,     \* knowledge_chunks: the run that stamped each chunk, NoRun for no row
    cursor,   \* Run.Cursor: the documents done
    corpus,   \* the corpus status row: a phase and the run that wrote it
    req,      \* the requests under way
    exec,     \* what each worker does
    faults,
    hist      \* what the properties remember, no action reads it.  last: the
              \* run claimed last, NoRun since a document was replaced; overlap:
              \* executions of two runs were under way at a time; lapsed: a
              \* lease ran out while an execution of the run was under way

ivars == <<source, rows, cursor, corpus, req, exec, faults, hist>>
ingestVars == <<vars, source, rows, cursor, corpus, req, exec, faults, hist>>

-------------------------------------------------------------------------------

Idle == [pc |-> "idle", run |-> NoRun, done |-> {}, doc |-> NoRun, todo |-> {},
         stopped |-> FALSE, fenced |-> FALSE]

At(w, pc) == exec[w].pc = pc
Busy(w) == ~At(w, "idle")
Goto(w, pc) == exec' = [exec EXCEPT ![w].pc = pc]
Return(w) == exec' = [exec EXCEPT ![w] = Idle]

\* The chunks of document d that a retrieval can find.
Indexed(d) == {c \in Chunks : rows[d][c] # NoRun}

Active == {r \in Runs : status[r] \in {"queued", "running"}}

\* One more of the things that may happen at any time.
Fault(f) == f \in Faults /\ faults < MaxFaults /\ faults' = faults + 1

IngestInit ==
    /\ Init
    /\ source = [d \in Docs |-> Chunks]
    /\ rows = [d \in Docs |-> [c \in Chunks |-> NoRun]]
    /\ cursor = [r \in Runs |-> {}]
    /\ corpus = [phase |-> "none", by |-> NoRun]
    /\ req = [q \in Requesters |-> "idle"]
    /\ exec = [w \in Workers |-> Idle]
    /\ faults = 0
    /\ hist = [last |-> NoRun, overlap |-> FALSE, lapsed |-> FALSE]

-------------------------------------------------------------------------------
(* A request: CreateIngestionRun, and the handler that has its own copy.   *)

\* ActiveIngestion finds no queued or running ingestion; otherwise the
\* request is refused.
ActiveIngestion(q) ==
    /\ req[q] = "idle" /\ Active = {}
    /\ \E r \in Runs : ~Created(r)
    /\ req' = [req EXCEPT ![q] = "insert"]
    /\ UNCHANGED <<vars, source, rows, cursor, corpus, exec, faults, hist>>

CreateIngestionRun(q, r) ==
    /\ req[q] = "insert"
    /\ Create(r)
    /\ req' = [req EXCEPT ![q] = "idle"]
    /\ UNCHANGED <<source, rows, cursor, corpus, exec, faults, hist>>

-------------------------------------------------------------------------------
(* The executor.                                                           *)

claim(w, r) ==
    /\ At(w, "idle")
    /\ ClaimQueued(w, r) \/ ClaimReclaimable(w, r)
    /\ exec' = [exec EXCEPT ![w] = [Idle EXCEPT !.pc = "start", !.run = r]]
    /\ hist' = [hist EXCEPT !.last = r,
                             !.overlap = @ \/ \E v \in Workers : Busy(v) /\ exec[v].run # r]
    /\ UNCHANGED <<source, rows, cursor, corpus, req, faults>>

\* Where an execution starts: with the run's cursor, or failing the run for
\* an unusable spec, a corpus over its storage cap or a failing EnsureCorpus.
Started(w, done) ==
    \/ exec' = [exec EXCEPT ![w].done = done, ![w].pc = "next"]
    \/ Goto(w, "fail")

\* A mutant: a run that is running already is not opened again.
start_NoReopen(w, r) ==
    /\ At(w, "start")
    /\ \/ status[r] = "queued" /\ Started(w, cursor[r])
       \/ status[r] # "queued" /\ Return(w)
    /\ UNCHANGED <<vars, source, rows, cursor, corpus, req, faults, hist>>

\* A mutant: a resumed execution starts from a fresh cursor.
start_Fresh(w, r) ==
    /\ At(w, "start")
    /\ \/ status[r] = "running" /\ Started(w, {})
       \/ status[r] # "running" /\ Return(w)
    /\ UNCHANGED <<vars, source, rows, cursor, corpus, req, faults, hist>>

\* The opening Update, then the run is read.  The claim has made the run
\* running, so the Update is a no-op unless the run has ended meanwhile.
start(w, r) ==
    /\ At(w, "start")
    /\ \/ status[r] = "running" /\ Started(w, cursor[r])
       \/ status[r] # "running" /\ Return(w)
    /\ UNCHANGED <<vars, source, rows, cursor, corpus, req, faults, hist>>

FirstPending(done) == Documents[CHOOSE i \in DOMAIN Documents :
                                  /\ Documents[i] \notin done
                                  /\ \A j \in 1..(i - 1) : Documents[j] \in done]

\* A mutant: the loop goes one document too far.
nextDocument_TooFar(w) ==
    /\ At(w, "next")
    /\ \/ exec[w].stopped /\ Return(w)
       \/ exec[w].done = Docs /\ Goto(w, "fetch")
       \/ /\ ~exec[w].stopped /\ exec[w].done # Docs
          /\ exec' = [exec EXCEPT ![w].doc = FirstPending(exec[w].done), ![w].pc = "fetch"]
    /\ UNCHANGED <<vars, source, rows, cursor, corpus, req, faults, hist>>

\* The loop over the documents: a cancelled context leaves the run running.  It
\* is looked at before each document, those done already included, and not
\* after the last one.
nextDocument(w) ==
    /\ At(w, "next")
    /\ \/ exec[w].stopped /\ Return(w)
       \/ exec[w].done = Docs /\ Goto(w, "complete")
       \/ /\ ~exec[w].stopped /\ exec[w].done # Docs
          /\ exec' = [exec EXCEPT ![w].doc = FirstPending(exec[w].done), ![w].pc = "fetch"]
    /\ UNCHANGED <<vars, source, rows, cursor, corpus, req, faults, hist>>

\* An error of the object store, the gateway or the database: a failure of
\* the run, unless this executor was cancelled (cancelledMidDoc).
Breaks(w) == IF exec[w].stopped THEN Return(w) ELSE Goto(w, "fail")

\* The document is fetched and cut.  One with no text has no chunks: the run
\* is partial and goes on to the sweep.  An extraction error fails the run.
fetch(w, d) ==
    /\ At(w, "fetch")
    /\ \/ /\ ~exec[w].stopped
          /\ exec' = [exec EXCEPT ![w].todo = source[d],
                                  ![w].pc = IF source[d] = {} THEN "sweep" ELSE "upsert"]
       \/ Breaks(w)
       \/ Goto(w, "fail")
    /\ UNCHANGED <<vars, source, rows, cursor, corpus, req, faults, hist>>

\* One sub-batch (here one chunk) is embedded and upserted under the run's id.
Upsert(w, r, d, c) ==
    /\ rows' = [rows EXCEPT ![d][c] = r]
    /\ exec' = [exec EXCEPT ![w].todo = @ \ {c},
                            ![w].pc = IF exec[w].todo = {c} THEN "sweep" ELSE "upsert"]
    /\ UNCHANGED <<faults>>

\* embedAndUpsertChunks: a 429 that outlasts the retries leaves the run as it
\* is; a 402 and other errors fail it.
embedAndUpsertChunks(w, r, d) ==
    /\ At(w, "upsert")
    /\ \/ ~exec[w].stopped /\ \E c \in exec[w].todo : Upsert(w, r, d, c)
       \/ Fault("rate") /\ Return(w) /\ UNCHANGED rows
       \/ Goto(w, "fail") /\ UNCHANGED <<rows, faults>>
       \/ Breaks(w) /\ UNCHANGED <<rows, faults>>
    /\ UNCHANGED <<vars, source, cursor, corpus, req, hist>>

\* A mutant: what an earlier run left is kept.
Swept_None(r, d) == rows[d]

\* The document's rows once those of other runs are deleted.
Swept(r, d) == [c \in Chunks |-> IF rows[d][c] = r THEN r ELSE NoRun]

SweepOrphans(w, r, d) ==
    /\ At(w, "sweep")
    /\ \/ /\ ~exec[w].stopped
          /\ rows' = [rows EXCEPT ![d] = Swept(r, d)]
          /\ exec' = [exec EXCEPT ![w].done = @ \cup {d}, ![w].doc = NoRun, ![w].pc = "persist"]
       \/ Breaks(w) /\ UNCHANGED rows
    /\ UNCHANGED <<vars, source, cursor, corpus, req, faults, hist>>

\* A plain Update of the cursor column.
persistIngestionCursor(w, r) ==
    /\ At(w, "persist")
    /\ \/ cursor' = [cursor EXCEPT ![r] = exec[w].done] /\ Goto(w, "next")
       \/ Goto(w, "fail") /\ UNCHANGED cursor
    /\ UNCHANGED <<vars, source, rows, corpus, req, faults, hist>>

\* recordCorpusStatus comes before the run's own status; a failing write is
\* logged and forgotten.  Ready is written under the executor's context, and
\* is not once that is cancelled; Failed is written under one of its own.
Recorded(phase, r) ==
    \/ corpus' = [phase |-> phase, by |-> r] /\ UNCHANGED faults
    \/ Fault("status") /\ UNCHANGED corpus

recordCorpusStatus(w, r) ==
    /\ \/ /\ At(w, "complete") /\ Goto(w, "succeed")
          /\ \/ ~exec[w].stopped /\ Recorded("Ready", r)
             \/ exec[w].stopped /\ UNCHANGED <<corpus, faults>>
       \/ At(w, "fail") /\ Goto(w, "end") /\ Recorded("Failed", r)
    /\ UNCHANGED <<vars, source, rows, cursor, req, hist>>

\* terminalTransitionFenced, with the check of the closure it is given.
MayEnd(w, r) == ~exec[w].fenced /\ worker[r] = w /\ ~IsTerminal(status[r])

endIngestion(w, r) ==
    /\ \/ /\ At(w, "succeed") /\ MayEnd(w, r)
          /\ CompleteAndWake(r, "succeeded")
          /\ cursor' = [cursor EXCEPT ![r] = exec[w].done]
       \/ /\ At(w, "end") /\ MayEnd(w, r)
          /\ CompleteAndWake(r, "failed")
          /\ UNCHANGED cursor
       \/ /\ At(w, "succeed") \/ At(w, "end")
          /\ ~MayEnd(w, r)
          /\ UNCHANGED <<vars, cursor>>
    /\ Return(w)
    /\ UNCHANGED <<source, rows, corpus, req, faults, hist>>

Execute(w) ==
    LET r == exec[w].run
        d == exec[w].doc
    IN  \/ start(w, r) \/ nextDocument(w)
        \/ fetch(w, d) \/ embedAndUpsertChunks(w, r, d) \/ SweepOrphans(w, r, d)
        \/ persistIngestionCursor(w, r) \/ recordCorpusStatus(w, r) \/ endIngestion(w, r)

-------------------------------------------------------------------------------
(* The worker around it, the API, and the world.                           *)

\* The heartbeat finds the run reclaimed, ended or cancelled and cancels the
\* executor's context.
heartbeatLeaseLost(w) ==
    /\ Busy(w) /\ ~exec[w].stopped /\ ~Holds(w, exec[w].run)
    /\ exec' = [exec EXCEPT ![w].stopped = TRUE]
    /\ UNCHANGED <<vars, source, rows, cursor, corpus, req, faults, hist>>

heartbeatRenews(w) ==
    /\ Busy(w) /\ ~exec[w].stopped /\ lease[exec[w].run] = "expired"
    /\ Heartbeat(w, exec[w].run)
    /\ UNCHANGED ivars

\* A sustained outage of the renewals.
selfFence(w) ==
    /\ Busy(w) /\ ~exec[w].stopped /\ lease[exec[w].run] = "expired" /\ Holds(w, exec[w].run)
    /\ exec' = [exec EXCEPT ![w].stopped = TRUE, ![w].fenced = TRUE]
    /\ UNCHANGED <<vars, source, rows, cursor, corpus, req, faults, hist>>

\* The drain's grace is over: the context is cancelled.  The lease, released
\* when the executor returns, runs out as any other.
drain(w) ==
    /\ Busy(w) /\ ~exec[w].stopped /\ Fault("drain")
    /\ exec' = [exec EXCEPT ![w].stopped = TRUE]
    /\ UNCHANGED <<vars, source, rows, cursor, corpus, req, hist>>

Crash(w) ==
    /\ Busy(w) /\ Fault("crash") /\ Return(w)
    /\ UNCHANGED <<vars, source, rows, cursor, corpus, req, hist>>

Beating(r) == \E w \in Workers : exec[w].run = r /\ Holds(w, r) /\ ~exec[w].stopped

\* A lease that nobody renews runs out; one that is being renewed runs out
\* only when its holder stalls.
leaseRunsOut(r) ==
    /\ ExpireLease(r)
    /\ \/ ~Beating(r) /\ UNCHANGED faults
       \/ Beating(r) /\ Fault("lapse")
    /\ hist' = [hist EXCEPT !.lapsed = @ \/ \E w \in Workers : exec[w].run = r]
    /\ UNCHANGED <<source, rows, cursor, corpus, req, exec>>

\* authorizeRunAccess: an ingestion run names no creator, so its backing
\* resource decides, and that is looked up as an AgentDeployment with the
\* name of the knowledge base.  Without one the cancel is a 404.
handleCancelRun(r) ==
    /\ Namesake
    /\ Created(r) /\ ~IsTerminal(status[r]) /\ Fault("cancel")
    /\ Update(r, "cancelled")
    /\ UNCHANGED <<source, rows, cursor, corpus, req, exec, hist>>

\* A document is replaced after an ingestion, with none queued or under way.
\* The new text yields fewer chunks: the bound that keeps what a sweep is for.
edit(d, content) ==
    /\ \E r \in Runs : Created(r)
    /\ Active = {} /\ \A w \in Workers : ~Busy(w)
    /\ content \subseteq source[d] /\ content # source[d]
    /\ source' = [source EXCEPT ![d] = content]
    /\ hist' = [hist EXCEPT !.last = NoRun]
    /\ UNCHANGED <<vars, rows, cursor, corpus, req, exec, faults>>

WorkerDoes(w) ==
    \/ \E r \in Runs : claim(w, r)
    \/ Execute(w)
    \/ heartbeatLeaseLost(w) \/ heartbeatRenews(w) \/ selfFence(w) \/ drain(w) \/ Crash(w)

IngestNext ==
    \/ \E q \in Requesters : ActiveIngestion(q) \/ \E r \in Runs : CreateIngestionRun(q, r)
    \/ \E w \in Workers : WorkerDoes(w)
    \/ \E r \in Runs : leaseRunsOut(r) \/ handleCancelRun(r)
    \/ \E d \in Docs, content \in SUBSET Chunks : edit(d, content)

IngestSpec == IngestInit /\ [][IngestNext]_ingestVars

\* The pool keeps claiming, an execution goes on, an unattended lease runs out.
IngestFairSpec ==
    /\ IngestSpec
    /\ \A w \in Workers : WF_ingestVars(Execute(w))
    /\ \A r \in Runs : /\ WF_ingestVars(\E w \in Workers : claim(w, r))
                       /\ WF_ingestVars(leaseRunsOut(r))

-------------------------------------------------------------------------------
(* Properties.                                                             *)

\* Type invariant of the ingestion's own state.
IngestTypeOK ==
    /\ source \in [Docs -> SUBSET Chunks]
    /\ rows \in [Docs -> [Chunks -> Runs \cup {NoRun}]]
    /\ cursor \in [Runs -> SUBSET Docs]
    /\ corpus \in [phase : {"none", "Ready", "Failed"}, by : Runs \cup {NoRun}]
    /\ req \in [Requesters -> {"idle", "insert"}]
    /\ \A w \in Workers :
          /\ Busy(w) => exec[w].run \in Runs /\ Created(exec[w].run)
          /\ exec[w].done \subseteq Docs /\ exec[w].todo \subseteq Chunks
          /\ exec[w].pc \in {"fetch", "upsert", "sweep"} => exec[w].doc \in Docs \ exec[w].done

Whole == \A d \in Docs : Indexed(d) = source[d]

\* The ingestion claimed last has succeeded, or the status row calls its corpus
\* ready, whether or not its executor lived to write the run's own status.
CalledReady(r) == r # NoRun /\ (status[r] = "succeeded" \/ corpus = [phase |-> "Ready", by |-> r])

\* A corpus that is called ready is what its documents yield, no more (stale
\* chunks of an earlier content) and no less, whatever crashed, lapsed, was
\* reclaimed and resumed on the way, as long as no two runs were executed at
\* a time (ingestion_executor.go 396-399, the sweep by run id).
ReadyIsWhole == ~hist.overlap /\ CalledReady(hist.last) => Whole

\* knowledgebases.go 456-460 and ingestion.go 142: there is one ingestion at a
\* time per knowledge base, because concurrent ones sweep each other's rows;
\* so a corpus that is called ready is whole without that condition.
CorpusIsWhole == CalledReady(hist.last) => Whole

\* A resume never forgets a document that is done: the cursor of a run only
\* grows, except by an execution whose lease lapsed under it
\* (ingestion_executor.go 62).
DoneStaysDone ==
    [][~hist'.lapsed => \A r \in Runs : cursor[r] \subseteq cursor'[r]]_ingestVars

\* Every ingestion ends.
IngestionEnds == \A r \in Runs : Created(r) ~> IsTerminal(status[r])
===============================================================================
