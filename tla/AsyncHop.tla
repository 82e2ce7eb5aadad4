------------------------------ MODULE AsyncHop ------------------------------
(***************************************************************************)
(* One asynchronous agent-to-agent message on its way through              *)
(*   - the JetStream stream and its durable consumer (internal/asyncbus),  *)
(*   - the dispatcher every BFF replica runs (internal/bff),               *)
(*   - the callee's launcher (cmd/launcher/async.go), which claims the     *)
(*     message id in the shared seen-set before it calls the agent, if it  *)
(*     has one.                                                            *)
(* Messages share nothing but a dispatcher's attention: the seen-set is    *)
(* keyed by message id.  One message is therefore enough, and the others   *)
(* appear as the time it may wait in a dispatcher's queue.                 *)
(*                                                                         *)
(* Time is counted in units the constants are multiples of; every timer    *)
(* is the time it has left.                                                *)
(***************************************************************************)
EXTENDS Integers, Sequences, FiniteSets

CONSTANTS
    Dispatchers,        \* the BFF replicas that share the durable consumer
    NoOne,              \* no dispatcher
    redeliveryBackoff,  \* jetstream.go 76-81: a sequence of delays
    asyncDispatchTimeout, \* async_dispatcher.go 49: one delivery attempt
    dedupeTTL,          \* async.go 63: the life of a claim
    MaxCrashes          \* bound: dispatcher and pod failures per behaviour

ASSUME AsyncAssumption ==
    /\ Dispatchers # {} /\ IsFiniteSet(Dispatchers) /\ NoOne \notin Dispatchers
    /\ redeliveryBackoff \in Seq(Nat \ {0}) /\ redeliveryBackoff # <<>>
    /\ asyncDispatchTimeout \in Nat \ {0}
    /\ dedupeTTL \in Nat /\ dedupeTTL > asyncDispatchTimeout
    /\ MaxCrashes \in Nat

VARIABLES
    stream,     \* what the broker holds: "empty", "pending", "acked", "terminated"
    delivered,  \* NumDelivered: how many times it has been delivered
    due,        \* time left until the broker may deliver it again
    try,        \* the delivery attempts, 1 .. maxDeliver
    seen,       \* time left of the message id's key in the seen-set, 0 when absent;
                \* Never when the launcher has no seen-set (main.go 95-101)
    up,         \* the dispatchers that are running
    crashes,    \* failures so far
    hist        \* what the properties remember; no action reads it

busVars == <<stream, delivered, due>>
hopVars == <<stream, delivered, due, try, seen, up, crashes, hist>>

(***************************************************************************)
(* The consumer's configuration and the delay a nak asks for.              *)
(***************************************************************************)

\* The first attempt plus one per backoff step.
maxDeliver == Len(redeliveryBackoff) + 1

Attempts == 1 .. maxDeliver

\* No timer runs.
Never == -1

\* A mutant: every retry comes after the first delay.
nakDelay_First(k) == redeliveryBackoff[1]

\* Indexed from 1: the delay after the k-th delivery, the last step held.
nakDelay(k) == redeliveryBackoff[IF k > Len(redeliveryBackoff) THEN Len(redeliveryBackoff) ELSE k]

\* A mutant: an unanswered delivery is not repeated.
ackTimer_None(k) == Never

\* ConsumerConfig.BackOff: when an unanswered delivery is repeated.  It is
\* the same schedule, and it is in force while the attempt is under way.
ackTimer(k) == nakDelay(k)

\* The sum of the first k delays: the least time between the first delivery
\* and the one after k more.
Elapsed[k \in 0 .. Len(redeliveryBackoff)] ==
    IF k = 0 THEN 0 ELSE Elapsed[k - 1] + redeliveryBackoff[k]

\* The least time between the first delivery and the last.
Span == Elapsed[Len(redeliveryBackoff)]

(***************************************************************************)
(* An attempt: where it is, the dispatcher that has it queued or waits for *)
(* its answer (NoOne when none does), and the time its HTTP call has left. *)
(***************************************************************************)

\* Inside the launcher's consume, before the agent is called.
Preparing == {"posting", "decoded", "claimed"}
Calling == Preparing \cup {"agent"}
Phases == {"none", "queued", "done"} \cup Calling

Untried == [phase |-> "none", by |-> NoOne, left |-> 0]

Ended == [Untried EXCEPT !.phase = "done"]

\* The dispatcher no longer waits.
Unheard(t) == [phase |-> t.phase, by |-> NoOne, left |-> 0]

InFlight(k) == try[k].phase \in Calling \cup {"queued"}

\* The client runs one handler at a time in each process.
Busy(d) == \E k \in Attempts : try[k].by = d /\ try[k].phase \in Calling

AtPhase(k, p) == try' = [try EXCEPT ![k].phase = p] /\ UNCHANGED busVars

(***************************************************************************)
(* What the properties remember.  served: the calls of the agent since the *)
(* last claim ran out.  fate: the gravest of what befell the message: an   *)
(* attempt that had the claim failed, the agent processed it, it was       *)
(* refused.  age: the time since the first delivery, or Slow once time has *)
(* passed during an attempt.                                               *)
(***************************************************************************)
Fates == {"open", "spoiled", "processed", "refused"}
Graver(f, g) == IF f = "open" \/ g = "refused" \/ (f = "spoiled" /\ g = "processed") THEN g ELSE f
Befell(f) == hist' = [hist EXCEPT !.fate = Graver(@, f)]
Slow == -1

AsyncInit ==
    /\ stream = "empty" /\ delivered = 0 /\ due = 0
    /\ try = [k \in Attempts |-> Untried]
    /\ seen \in {0, Never}
    /\ up = Dispatchers /\ crashes = 0
    /\ hist = [served |-> 0, fate |-> "open", age |-> 0]

(***************************************************************************)
(* The broker.                                                             *)
(***************************************************************************)

\* handleAsyncPublish answers 202 once the stream has stored the message.
Publish ==
    /\ stream = "empty"
    /\ stream' = "pending"
    /\ UNCHANGED <<delivered, due, try, seen, up, crashes, hist>>

\* A mutant: one delivery too many.
Deliver_OffByOne(d) ==
    /\ stream = "pending" /\ due = 0 /\ delivered <= maxDeliver /\ d \in up
    /\ delivered' = delivered + 1
    /\ due' = ackTimer(delivered + 1)
    /\ UNCHANGED <<stream, try, seen, up, crashes, hist>>

\* The consumer hands the message to one of the dispatchers, first or again.
Deliver(d) ==
    /\ stream = "pending" /\ due = 0 /\ delivered < maxDeliver /\ d \in up
    /\ delivered' = delivered + 1
    /\ due' = ackTimer(delivered + 1)
    /\ try' = [try EXCEPT ![delivered + 1] =
                  [phase |-> "queued", by |-> d, left |-> 0]]
    /\ UNCHANGED <<stream, seen, up, crashes, hist>>

\* Past MaxDeliver the broker stops redelivering.
Terminate ==
    /\ stream = "pending" /\ due = 0 /\ delivered = maxDeliver
    /\ stream' = "terminated"
    /\ UNCHANGED <<delivered, due, try, seen, up, crashes, hist>>

\* m.Ack(): its error is dropped, so the ack may be lost; a message that is
\* no longer pending is left alone.
Ack ==
    /\ stream' \in {stream, IF stream = "pending" THEN "acked" ELSE stream}
    /\ UNCHANGED <<delivered, due>>

\* m.NakWithDelay(nakDelay(NumDelivered)): it may be lost, and a nak of an
\* attempt that a later delivery has overtaken may or may not move the timer.
Nak(k) ==
    /\ due' \in {due, IF stream = "pending" THEN nakDelay(k) ELSE due}
    /\ UNCHANGED <<stream, delivered>>

(***************************************************************************)
(* The dispatcher: deliverAsyncHop, run by Subscribe's callback.           *)
(***************************************************************************)

\* The handler returns for attempt k.
HandlerEnds(k) == try' = [try EXCEPT ![k] = Ended]

\* No namespace or receiver, or a receiver outside the sender's registry:
\* acked without a call.
Unroutable(k) ==
    /\ HandlerEnds(k)
    /\ Ack
    /\ Befell("refused")

\* The capability registry cannot be read.
LookupFails(k) == HandlerEnds(k) /\ Nak(k) /\ UNCHANGED hist

\* The CloudEvent is POSTed, with the client's timeout running.
Post(k) ==
    /\ try' = [try EXCEPT ![k] = [phase |-> "posting", by |-> @.by, left |-> asyncDispatchTimeout]]
    /\ UNCHANGED busVars /\ UNCHANGED hist

deliverAsyncHop(k) ==
    /\ try[k].phase = "queued" /\ ~Busy(try[k].by)
    /\ Unroutable(k) \/ LookupFails(k) \/ Post(k)
    /\ UNCHANGED <<seen, up, crashes>>

\* What the answer makes of the message: a 2xx, and a 4xx, which is the
\* callee's own refusal, are acked; a 5xx or an error of the transport is a
\* nak.  When nobody waits for the answer any more it changes nothing.
Answer(k, status) ==
    /\ HandlerEnds(k)
    /\ \/ try[k].by = NoOne /\ UNCHANGED busVars
       \/ try[k].by # NoOne /\ status \in {"2xx", "4xx"} /\ Ack
       \/ try[k].by # NoOne /\ status = "failed" /\ Nak(k)

\* The connection cannot be made: the callee is scaled to zero or restarting.
Unreachable(k) ==
    /\ try[k].phase = "posting"
    /\ Answer(k, "failed")
    /\ UNCHANGED <<seen, up, crashes, hist>>

\* http.Client.Timeout: the dispatcher naks and moves on; the launcher may
\* still be at work and finds its request's context cancelled.
DispatchTimeout(k) ==
    /\ try[k].phase \in Calling /\ try[k].by # NoOne /\ try[k].left = 0
    /\ try' = [try EXCEPT ![k] = Unheard(@)]
    /\ Nak(k)
    /\ UNCHANGED <<seen, up, crashes, hist>>

(***************************************************************************)
(* The launcher: consume and markSeen.                                     *)
(***************************************************************************)

\* The request reaches the callee; a body that is no CloudEvent or no
\* envelope is answered 400.
Decode(k) ==
    /\ try[k].phase = "posting"
    /\ \/ AtPhase(k, "decoded") /\ UNCHANGED hist
       \/ Answer(k, "4xx") /\ Befell("refused")
    /\ UNCHANGED <<seen, up, crashes>>

\* The launcher is configured with a seen-set.
Deduped == seen # Never

\* SETNX with the TTL: the key is new.
FirstSeen == seen = 0

\* The first sighting goes on to the agent.
SeenFirst(k) == FirstSeen /\ seen' = dedupeTTL /\ AtPhase(k, "claimed") /\ UNCHANGED hist

\* A duplicate is acked without a second call.
SeenDuplicate(k) == ~FirstSeen /\ Answer(k, "2xx") /\ UNCHANGED <<seen, hist>>

\* The store cannot be reached: nothing is written.
StoreFails(k) == Answer(k, "failed") /\ UNCHANGED <<seen, hist>>

\* The key is written and the reply is lost: an error to the launcher too.
StoreReplyLost(k) ==
    /\ FirstSeen
    /\ seen' = dedupeTTL
    /\ Befell("spoiled")
    /\ Answer(k, "failed")

\* A nil seen-set: every delivery is a first sighting.
NoSeenSet(k) == ~Deduped /\ AtPhase(k, "claimed") /\ UNCHANGED <<seen, hist>>

\* A mutant: an error of the store counts as a first sighting.
markSeen_FailOpen(k) ==
    \/ NoSeenSet(k)
    \/ Deduped /\ \/ SeenFirst(k) \/ SeenDuplicate(k) \/ StoreReplyLost(k)
                  \/ AtPhase(k, "claimed") /\ UNCHANGED <<seen, hist>>

\* A mutant: an error of the store counts as a duplicate.
markSeen_ErrorIsDuplicate(k) ==
    \/ NoSeenSet(k)
    \/ Deduped /\ \/ SeenFirst(k) \/ SeenDuplicate(k) \/ StoreReplyLost(k)
                  \/ Answer(k, "2xx") /\ UNCHANGED <<seen, hist>>

\* The outcomes of one MarkSeen: first, duplicate, or an error, which fails
\* closed with a 503.
markSeen(k) ==
    \/ NoSeenSet(k)
    \/ Deduped /\ (SeenFirst(k) \/ SeenDuplicate(k) \/ StoreFails(k) \/ StoreReplyLost(k))

Dedupe(k) ==
    /\ try[k].phase = "decoded"
    /\ markSeen(k)
    /\ UNCHANGED <<up, crashes>>

\* An attempt that had the claim ends without the agent's success.
Spoil(k) == Answer(k, "failed") /\ Befell("spoiled")

\* A $ref payload is fetched and the agent called; when the fetch fails, or
\* the agent cannot be reached, the answer is a 502.
Invoke(k) ==
    /\ try[k].phase = "claimed"
    /\ \/ AtPhase(k, "agent") /\ hist' = [hist EXCEPT !.served = @ + 1]
       \/ Spoil(k)
    /\ UNCHANGED <<seen, up, crashes>>

\* A mutant: the agent's 5xx is relayed as an answer like any other.
AgentOutcome_AnyIsAck(k) ==
    \/ Answer(k, "2xx") /\ Befell("processed")
    \/ Answer(k, "4xx") /\ Befell("spoiled")

\* Below 500 is processed and acked; a 5xx or a broken call is a 502.
AgentOutcome(k) ==
    \/ Answer(k, "2xx") /\ Befell("processed")
    \/ Spoil(k)

AgentAnswers(k) ==
    /\ try[k].phase = "agent"
    /\ AgentOutcome(k)
    /\ UNCHANGED <<seen, up, crashes>>

(***************************************************************************)
(* Failures and time.                                                      *)
(***************************************************************************)

\* A dispatcher dies: its queue is gone, its calls are cut off.
Crash(d) ==
    /\ d \in up /\ crashes < MaxCrashes
    /\ up' = up \ {d} /\ crashes' = crashes + 1
    /\ try' = [k \in Attempts |->
                  IF try[k].by # d THEN try[k]
                  ELSE IF try[k].phase = "queued" THEN Ended
                  ELSE Unheard(try[k])]
    /\ UNCHANGED <<stream, delivered, due, seen, hist>>

\* The restarted dispatcher rejoins the durable consumer by its fixed name.
Restart(d) ==
    /\ d \notin up
    /\ up' = up \cup {d}
    /\ UNCHANGED <<stream, delivered, due, try, seen, crashes, hist>>

\* The callee's pod dies, or the connection to it breaks, under a call.
CallBreaks(k) ==
    /\ try[k].phase \in {"decoded", "claimed", "agent"} /\ crashes < MaxCrashes
    /\ crashes' = crashes + 1
    /\ Answer(k, "failed")
    /\ IF try[k].phase = "decoded" THEN UNCHANGED hist ELSE Befell("spoiled")
    /\ UNCHANGED <<seen, up>>

Elapse(t) == IF t > 0 THEN t - 1 ELSE t

\* One unit passes.  A call that is out of time ends first, and so does what
\* the launcher does for a cancelled request before it calls the agent.
Tick ==
    /\ stream # "empty"
    /\ due > 0 \/ seen > 0 \/ \E k \in Attempts : try[k].left > 0
    /\ \A k \in Attempts : /\ try[k].phase \in Preparing => try[k].left > 0
                           /\ try[k].phase \in Calling /\ try[k].by # NoOne => try[k].left > 0
    /\ due' = Elapse(due)
    /\ seen' = Elapse(seen)
    /\ try' = [k \in Attempts |-> [try[k] EXCEPT !.left = Elapse(@)]]
    /\ hist' = [served |-> IF seen = 1 THEN 0 ELSE hist.served,
                fate |-> hist.fate,
                age |-> IF hist.age = Slow \/ \E k \in Attempts : InFlight(k) THEN Slow
                        ELSE IF delivered > 0 /\ hist.age < Span THEN hist.age + 1 ELSE hist.age]
    /\ UNCHANGED <<stream, delivered, up, crashes>>

AttemptStep(k) ==
    \/ deliverAsyncHop(k) \/ Unreachable(k) \/ DispatchTimeout(k)
    \/ Decode(k) \/ Dedupe(k) \/ Invoke(k) \/ AgentAnswers(k)

AsyncNext ==
    \/ Publish
    \/ \E d \in Dispatchers : Deliver(d) \/ Crash(d) \/ Restart(d)
    \/ Terminate
    \/ \E k \in Attempts : AttemptStep(k) \/ CallBreaks(k)
    \/ Tick

AsyncSpec == AsyncInit /\ [][AsyncNext]_hopVars

(***************************************************************************)
(* Time passes, the broker delivers what is due, an attempt goes on: every *)
(* call is bounded by a timeout.  A crashed dispatcher is restarted by the *)
(* deployment that owns it.                                                *)
(***************************************************************************)
AsyncFairSpec ==
    /\ AsyncSpec
    /\ WF_hopVars(Tick)
    /\ WF_hopVars(Terminate)
    /\ WF_hopVars(\E d \in Dispatchers : Deliver(d))
    /\ WF_hopVars(\E d \in Dispatchers : Restart(d))
    /\ \A k \in Attempts : WF_hopVars(AttemptStep(k))

(***************************************************************************)
(* Properties.                                                             *)
(***************************************************************************)

\* Type invariant of the hop's state.
AsyncTypeOK ==
    /\ stream \in {"empty", "pending", "acked", "terminated"}
    /\ delivered \in 0 .. maxDeliver
    /\ due \in Nat \cup {Never}
    /\ try \in [Attempts -> [phase : Phases, by : Dispatchers \cup {NoOne},
                             left : 0 .. asyncDispatchTimeout]]
    /\ seen \in 0 .. dedupeTTL \cup {Never}
    /\ up \subseteq Dispatchers
    /\ crashes \in 0 .. MaxCrashes
    /\ hist \in [served : Nat, fate : Fates, age : Nat \cup {Slow}]

\* consume calls the agent at most once in the life of a claim, whatever is
\* redelivered, by whichever replica, during an attempt or after it, and
\* although the seen-set fails in between (async.go 219-241: a redelivery in
\* the TTL is a duplicate, an error fails closed).  A launcher without a
\* seen-set calls it at most once for each delivery (async.go 306-309).
OneCallPerClaim == hist.served <= IF Deduped THEN 1 ELSE delivered

\* A message that nobody refused (unroutable, a 4xx) and that is acked
\* unprocessed was claimed: either the attempt with the claim is still under
\* way, or a failure struck between its claim and the agent's answer
\* (async.go consume, async_dispatcher.go deliverAsyncHop).
DropsOnlyAfterFailedClaim ==
    stream = "acked" =>
        \/ hist.fate # "open"
        \/ \E k \in Attempts : try[k].phase \in {"claimed", "agent"}

\* A callee that refuses every attempt at once (cold, or being rolled) gets
\* its last attempt only when the whole backoff schedule has passed: a nak
\* does not burn the delivery budget (jetstream.go 67-75).
BudgetSpansOutage == delivered = maxDeliver => hist.age \in {Span, Slow}

\* A published message is acked or given up: no crash, lost ack or hung call
\* leaves it pending (jetstream.go 223-296).
HopSettles == (stream = "pending") ~> (stream \in {"acked", "terminated"})

\* async.go 178-183: a duplicate "has already been processed", an agent
\* failure is a NACK that is retried: an acked message that nobody refused,
\* once no attempt is under way, was processed.
AckedWasProcessed ==
    stream = "acked" /\ (\A k \in Attempts : ~InFlight(k)) => hist.fate \in {"processed", "refused"}

\* Where there is no seen-set every delivery is a new attempt, and it holds:
\* only the dedup claim makes an ack possible that stands for no call.
OpenAcksAreEarned == ~Deduped => AckedWasProcessed
=============================================================================
