--------------------------- MODULE AsyncHopProofs ---------------------------
(***************************************************************************)
(* Proofs about AsyncHop, for any number of dispatchers, any backoff       *)
(* schedule, any timeout that is shorter than the life of a claim, and any *)
(* number of failures.                                                     *)
(***************************************************************************)
EXTENDS AsyncHop, LeastNatural, FiniteSetTheorems

-------------------------------------------------------------------------------
(* The inductive invariants.                                               *)

\* The claim is exclusive while it matters: an attempt that holds it and has
\* not yet called the agent ends before the key does, is the only one, and no
\* call was made under this key; and no call is on record without a key.
ClaimHeld ==
    /\ \A k \in Attempts : try[k].phase = "claimed" => seen > try[k].left /\ hist.served = 0
    /\ \A j, k \in Attempts : try[j].phase = "claimed" /\ try[k].phase = "claimed" => j = k
    /\ seen = 0 => hist.served = 0
    /\ hist.served <= 1

\* The deliveries that have not called the agent yet.
Uncalled == {k \in Attempts : try[k].phase \in Preparing \cup {"queued"}}

\* Without a seen-set, each call has a delivery of its own.
CallsCounted == hist.served + Cardinality(Uncalled) <= delivered

\* The message was processed or refused, an attempt with the claim failed, or
\* such an attempt is under way.
Accounted ==
    \/ hist.fate # "open"
    \/ \E k \in Attempts : try[k].phase \in {"claimed", "agent"}

\* What a duplicate relies on: a key in the seen-set accounts for the message.
KeyAccounts ==
    /\ \A k \in Attempts : k > delivered => try[k].phase = "none"
    /\ seen > 0 => Accounted

-------------------------------------------------------------------------------
(* Type correctness.                                                       *)

Attempt == [phase : Phases, by : Dispatchers \cup {NoOne}, left : 0 .. asyncDispatchTimeout]

BusTypeOK ==
    /\ stream \in {"empty", "pending", "acked", "terminated"}
    /\ delivered \in 0 .. maxDeliver
    /\ due \in Nat \cup {Never}

\* The schedule has a first step, and every delay it yields is a number.
LEMMA Schedule ==
    /\ maxDeliver \in Nat
    /\ \A k \in Attempts : k \in Nat /\ nakDelay(k) \in Nat
<1>1. Len(redeliveryBackoff) \in Nat /\ Len(redeliveryBackoff) > 0
    BY AsyncAssumption
<1>2. \A i \in 1 .. Len(redeliveryBackoff) : redeliveryBackoff[i] \in Nat
    BY AsyncAssumption
<1> QED BY <1>1, <1>2 DEF maxDeliver, Attempts, nakDelay

\* An ack and a nak keep the consumer's state in its type; only an ack can
\* take the message from the stream.
LEMMA BusStep ==
    ASSUME AsyncTypeOK, NEW k \in Attempts, Ack \/ Nak(k) \/ UNCHANGED busVars
    PROVE  BusTypeOK' /\ delivered' = delivered /\ stream' \in {stream, "acked"}
BY Schedule DEF AsyncTypeOK, BusTypeOK, Ack, Nak, busVars

\* The end of an attempt, whatever is answered: it is over, and the message
\* leaves the stream only by an answer that is acked.
LEMMA AnswerStep ==
    ASSUME AsyncTypeOK, NEW k \in Attempts, NEW status \in {"2xx", "4xx", "failed"},
           Answer(k, status)
    PROVE  /\ BusTypeOK' /\ delivered' = delivered
           /\ try' = [try EXCEPT ![k] = Ended]
           /\ stream' = stream \/ (stream' = "acked" /\ status # "failed")
<1>1. try' = [try EXCEPT ![k] = Ended]
    BY DEF Answer, HandlerEnds
<1>2. CASE try[k].by = NoOne
    BY <1>1, <1>2, BusStep DEF Answer, busVars
<1>3. CASE try[k].by # NoOne /\ status # "failed"
    BY <1>1, <1>3, BusStep DEF Answer
<1>4. CASE try[k].by # NoOne /\ status = "failed"
    BY <1>1, <1>4, BusStep DEF Answer, Nak
<1> QED BY <1>2, <1>3, <1>4

\* The record of what befell the message keeps its type and only gets graver.
LEMMA BefellStep ==
    ASSUME AsyncTypeOK, NEW f \in Fates, Befell(f)
    PROVE  /\ hist' \in [served : Nat, fate : Fates, age : Nat \cup {Slow}]
           /\ hist'.served = hist.served
           /\ hist.fate # "open" => hist'.fate # "open"
           /\ f # "open" => hist'.fate # "open"
BY DEF AsyncTypeOK, Befell, Graver, Fates

\* Every step of the broker, the dispatchers, the launcher and time keeps the
\* hop's state in its type.
LEMMA AsyncTypeStep ==
    ASSUME AsyncTypeOK, [AsyncNext]_hopVars
    PROVE  AsyncTypeOK'
<1> DEFINE HistOK == hist \in [served : Nat, fate : Fates, age : Nat \cup {Slow}]
           TryOK == try \in [Attempts -> Attempt]
           RestOK == seen \in 0 .. dedupeTTL \cup {Never} /\ up \subseteq Dispatchers
                     /\ crashes \in 0 .. MaxCrashes
<1>0. /\ BusTypeOK /\ HistOK /\ TryOK /\ RestOK
      /\ BusTypeOK' /\ HistOK' /\ TryOK' /\ RestOK' => AsyncTypeOK'
    BY DEF AsyncTypeOK, BusTypeOK, Attempt
<1>t. /\ asyncDispatchTimeout \in Nat /\ dedupeTTL \in Nat /\ MaxCrashes \in Nat
      /\ Ended \in Attempt
      /\ \A t \in Attempt : Unheard(t) \in Attempt
    <2>1. Ended = [phase |-> "done", by |-> NoOne, left |-> 0]
        BY DEF Ended, Untried
    <2> QED BY <2>1, AsyncAssumption DEF Attempt, Unheard, Phases
<1>e. \A k \in Attempts : [try EXCEPT ![k] = Ended] \in [Attempts -> Attempt]
    BY <1>0, <1>t
<1>p. ASSUME NEW k \in Attempts, NEW q \in Phases, AtPhase(k, q)
      PROVE  TryOK' /\ BusTypeOK'
    BY <1>p, <1>0, BusStep DEF AtPhase, Attempt, busVars
<1>1. ASSUME Publish PROVE AsyncTypeOK'
    BY <1>1, <1>0 DEF Publish, BusTypeOK
<1>2. ASSUME NEW d \in Dispatchers, Deliver(d) PROVE AsyncTypeOK'
    <2>1. delivered + 1 \in Attempts /\ delivered' \in 0 .. maxDeliver
        BY <1>2, <1>0, Schedule DEF Deliver, BusTypeOK, Attempts
    <2>2. BusTypeOK'
        BY <1>2, <1>0, <2>1, Schedule DEF Deliver, BusTypeOK, ackTimer
    <2>3. [phase |-> "queued", by |-> d, left |-> 0] \in Attempt
        BY <1>t DEF Attempt, Phases
    <2>4. TryOK'
        BY <1>2, <1>0, <2>1, <2>3 DEF Deliver
    <2> QED BY <1>2, <1>0, <2>2, <2>4 DEF Deliver
<1>3. ASSUME NEW d \in Dispatchers, Crash(d) PROVE AsyncTypeOK'
    <2>1. TryOK'
        BY <1>3, <1>0, <1>t DEF Crash
    <2> QED BY <1>3, <1>0, <1>t, <2>1 DEF Crash, BusTypeOK
<1>4. ASSUME NEW d \in Dispatchers, Restart(d) PROVE AsyncTypeOK'
    BY <1>4, <1>0 DEF Restart, BusTypeOK
<1>5. ASSUME Terminate PROVE AsyncTypeOK'
    BY <1>5, <1>0 DEF Terminate, BusTypeOK
<1>6. ASSUME NEW k \in Attempts, deliverAsyncHop(k) PROVE AsyncTypeOK'
    <2>1. CASE Unroutable(k)
        BY <1>6, <2>1, <1>0, <1>e, BusStep, BefellStep
           DEF deliverAsyncHop, Unroutable, HandlerEnds, Fates
    <2>2. CASE LookupFails(k)
        BY <1>6, <2>2, <1>0, <1>e, BusStep DEF deliverAsyncHop, LookupFails, HandlerEnds
    <2>3. CASE Post(k)
        <3>1. TryOK'
            BY <2>3, <1>0, <1>t DEF Post, Attempt, Phases, Calling, Preparing
        <3> QED BY <1>6, <2>3, <3>1, <1>0, BusStep DEF deliverAsyncHop, Post
    <2> QED BY <1>6, <2>1, <2>2, <2>3 DEF deliverAsyncHop
<1>7. ASSUME NEW k \in Attempts, Unreachable(k) PROVE AsyncTypeOK'
    BY <1>7, <1>0, <1>e, AnswerStep DEF Unreachable
<1>8. ASSUME NEW k \in Attempts, DispatchTimeout(k) PROVE AsyncTypeOK'
    <2>1. TryOK'
        BY <1>8, <1>0, <1>t DEF DispatchTimeout
    <2> QED BY <1>8, <2>1, <1>0, BusStep DEF DispatchTimeout
<1>9. ASSUME NEW k \in Attempts, Decode(k) PROVE AsyncTypeOK'
    <2>1. CASE AtPhase(k, "decoded") /\ UNCHANGED hist
        BY <1>9, <2>1, <1>0, <1>p DEF Decode, Phases, Calling, Preparing
    <2>2. CASE Answer(k, "4xx") /\ Befell("refused")
        BY <1>9, <2>2, <1>0, <1>e, AnswerStep, BefellStep DEF Decode, Fates
    <2> QED BY <1>9, <2>1, <2>2 DEF Decode
<1>10. ASSUME NEW k \in Attempts, Dedupe(k) PROVE AsyncTypeOK'
    <2>1. CASE SeenFirst(k)
        BY <1>10, <2>1, <1>0, <1>t, <1>p DEF Dedupe, SeenFirst, Phases, Calling, Preparing
    <2>2. CASE SeenDuplicate(k)
        BY <1>10, <2>2, <1>0, <1>e, AnswerStep DEF Dedupe, SeenDuplicate
    <2>3. CASE StoreFails(k)
        BY <1>10, <2>3, <1>0, <1>e, AnswerStep DEF Dedupe, StoreFails
    <2>4. CASE StoreReplyLost(k)
        BY <1>10, <2>4, <1>0, <1>t, <1>e, AnswerStep, BefellStep
           DEF Dedupe, StoreReplyLost, Fates
    <2>5. CASE NoSeenSet(k)
        BY <1>10, <2>5, <1>0, <1>p DEF Dedupe, NoSeenSet, Phases, Calling, Preparing
    <2> QED BY <1>10, <2>1, <2>2, <2>3, <2>4, <2>5 DEF Dedupe, markSeen
<1>11. ASSUME NEW k \in Attempts, Invoke(k) PROVE AsyncTypeOK'
    <2>1. CASE AtPhase(k, "agent") /\ hist' = [hist EXCEPT !.served = @ + 1]
        <3>1. HistOK'
            BY <2>1, <1>0
        <3> QED BY <1>11, <2>1, <3>1, <1>0, <1>p DEF Invoke, Phases, Calling
    <2>2. CASE Spoil(k)
        BY <1>11, <2>2, <1>0, <1>e, AnswerStep, BefellStep DEF Invoke, Spoil, Fates
    <2> QED BY <1>11, <2>1, <2>2 DEF Invoke
<1>12. ASSUME NEW k \in Attempts, AgentAnswers(k) PROVE AsyncTypeOK'
    BY <1>12, <1>0, <1>e, AnswerStep, BefellStep DEF AgentAnswers, AgentOutcome, Spoil, Fates
<1>13. ASSUME NEW k \in Attempts, CallBreaks(k) PROVE AsyncTypeOK'
    <2>1. HistOK'
        BY <1>13, <1>0, BefellStep DEF CallBreaks, Fates
    <2> QED BY <1>13, <2>1, <1>0, <1>t, <1>e, AnswerStep DEF CallBreaks
<1>14. ASSUME Tick PROVE AsyncTypeOK'
    <2>1. TryOK'
        BY <1>14, <1>0, <1>t DEF Tick, Elapse, Attempt
    <2>2. HistOK'
        BY <1>14, <1>0 DEF Tick, Slow
    <2>3. BusTypeOK' /\ RestOK'
        BY <1>14, <1>0, <1>t DEF Tick, BusTypeOK, Elapse, Never
    <2> QED BY <2>1, <2>2, <2>3, <1>0
<1>15. CASE UNCHANGED hopVars
    BY <1>15, <1>0 DEF hopVars, BusTypeOK
<1> QED
    BY <1>1, <1>2, <1>3, <1>4, <1>5, <1>6, <1>7, <1>8, <1>9, <1>10, <1>11, <1>12, <1>13,
       <1>14, <1>15
       DEF AsyncNext, AttemptStep

\* In every behaviour of the hop its state has its type: the message is never
\* delivered more often than the consumer's MaxDeliver.
THEOREM AsyncTypeCorrect == AsyncSpec => []AsyncTypeOK
<1>1. AsyncInit => AsyncTypeOK
    BY AsyncAssumption, Schedule DEF AsyncInit, AsyncTypeOK, Untried, Phases, Fates
<1> QED BY <1>1, AsyncTypeStep, PTL DEF AsyncSpec

-------------------------------------------------------------------------------
(* One call per claim.                                                     *)

\* An attempt that ends, or goes on to a phase other than the claim, leaves
\* the others and the key alone: the claim is as exclusive as before.
LEMMA ClaimKept ==
    ASSUME AsyncTypeOK, ClaimHeld, seen' = seen, hist'.served = hist.served,
           \A k \in Attempts : try'[k].phase = "claimed" =>
               try[k].phase = "claimed" /\ try'[k].left <= try[k].left,
           try' \in [Attempts -> Attempt]
    PROVE  ClaimHeld'
BY DEF ClaimHeld, AsyncTypeOK, Attempt

\* The end of an attempt is such a step.
LEMMA ClaimEnds ==
    ASSUME AsyncTypeOK, ClaimHeld, NEW k \in Attempts, try' = [try EXCEPT ![k] = Ended],
           seen' = seen, hist'.served = hist.served, AsyncTypeOK'
    PROVE  ClaimHeld'
<1>1. Ended.phase = "done"
    BY DEF Ended, Untried
<1>2. \A j \in Attempts : try'[j].phase = "claimed" => try'[j] = try[j]
    BY <1>1 DEF AsyncTypeOK
<1>3. \A j \in Attempts : try[j].left <= try[j].left
    BY AsyncAssumption DEF AsyncTypeOK
<1>4. try' \in [Attempts -> Attempt]
    BY DEF AsyncTypeOK, Attempt
<1> QED BY <1>2, <1>3, <1>4, ClaimKept

\* Every step keeps the claim exclusive, and at most one call is made under it.
LEMMA ClaimStep ==
    ASSUME Deduped, AsyncTypeOK, ClaimHeld, [AsyncNext]_hopVars
    PROVE  ClaimHeld'
<1>0. /\ AsyncTypeOK'
      /\ try \in [Attempts -> Attempt] /\ try' \in [Attempts -> Attempt]
      /\ \A k \in Attempts : try[k].left \in Nat /\ try'[k].left \in Nat
      /\ seen \in Nat /\ hist.served \in Nat
    BY AsyncTypeStep, AsyncAssumption DEF AsyncTypeOK, Attempt, Deduped
\* An absent key is held by no attempt.
<1>f. FirstSeen => \A k \in Attempts : try[k].phase # "claimed"
    BY <1>0 DEF FirstSeen, ClaimHeld
<1>1. CASE UNCHANGED <<try, seen, hist>>
    BY <1>1 DEF ClaimHeld
<1>2. ASSUME NEW d \in Dispatchers, Deliver(d) PROVE ClaimHeld'
    <2>1. \A k \in Attempts : try'[k].phase = "claimed" => try'[k] = try[k]
        BY <1>2, <1>0 DEF Deliver
    <2> QED BY <1>2, <1>0, <2>1, ClaimKept DEF Deliver
<1>3. ASSUME NEW d \in Dispatchers, Crash(d) PROVE ClaimHeld'
    <2>1. \A k \in Attempts : try'[k].phase = "claimed" =>
              try[k].phase = "claimed" /\ try'[k].left <= try[k].left
        BY <1>3, <1>0 DEF Crash, Unheard, Ended, Untried
    <2> QED BY <1>3, <1>0, <2>1, ClaimKept DEF Crash
<1>4. ASSUME NEW k \in Attempts, deliverAsyncHop(k) PROVE ClaimHeld'
    <2>1. hist'.served = hist.served
        BY <1>4, BefellStep DEF deliverAsyncHop, Unroutable, LookupFails, Post, Fates
    <2>2. CASE try' = [try EXCEPT ![k] = Ended]
        BY <1>4, <1>0, <2>1, <2>2, ClaimEnds DEF deliverAsyncHop
    <2>3. CASE Post(k)
        <3>1. \A j \in Attempts : try'[j].phase = "claimed" => try'[j] = try[j]
            BY <2>3, <1>0 DEF Post
        <3> QED BY <1>4, <1>0, <2>1, <3>1, ClaimKept DEF deliverAsyncHop
    <2> QED BY <1>4, <2>2, <2>3 DEF deliverAsyncHop, Unroutable, LookupFails, HandlerEnds
<1>5. ASSUME NEW k \in Attempts, Unreachable(k) PROVE ClaimHeld'
    BY <1>5, <1>0, AnswerStep, ClaimEnds DEF Unreachable
<1>6. ASSUME NEW k \in Attempts, DispatchTimeout(k) PROVE ClaimHeld'
    <2>1. \A j \in Attempts : try'[j].phase = "claimed" =>
              try[j].phase = "claimed" /\ try'[j].left <= try[j].left
        BY <1>6, <1>0 DEF DispatchTimeout, Unheard
    <2> QED BY <1>6, <1>0, <2>1, ClaimKept DEF DispatchTimeout
<1>7. ASSUME NEW k \in Attempts, Decode(k) PROVE ClaimHeld'
    <2>1. CASE AtPhase(k, "decoded") /\ UNCHANGED hist
        <3>1. \A j \in Attempts : try'[j].phase = "claimed" => try'[j] = try[j]
            BY <2>1, <1>0 DEF AtPhase, Attempt
        <3> QED BY <1>7, <1>0, <2>1, <3>1, ClaimKept DEF Decode
    <2>2. CASE Answer(k, "4xx") /\ Befell("refused")
        BY <1>7, <1>0, <2>2, AnswerStep, BefellStep, ClaimEnds DEF Decode, Fates
    <2> QED BY <1>7, <2>1, <2>2 DEF Decode
<1>8. ASSUME NEW k \in Attempts, Dedupe(k) PROVE ClaimHeld'
    <2>1. CASE SeenFirst(k)
        <3>1. /\ seen' = dedupeTTL /\ hist' = hist /\ hist.served = 0
              /\ dedupeTTL \in Nat /\ dedupeTTL > asyncDispatchTimeout
              /\ asyncDispatchTimeout \in Nat
            BY <2>1, AsyncAssumption DEF SeenFirst, FirstSeen, ClaimHeld
        <3>2. \A j \in Attempts : try'[j].phase = "claimed" =>
                  j = k /\ try'[j].left = try[j].left
            BY <2>1, <1>0, <1>f DEF SeenFirst, AtPhase, Attempt
        <3>3. try[k].left <= asyncDispatchTimeout
            BY <1>0, <3>1 DEF Attempt
        <3> QED BY <1>0, <3>1, <3>2, <3>3 DEF ClaimHeld
    <2>2. CASE SeenDuplicate(k)
        BY <1>8, <1>0, <2>2, AnswerStep, ClaimEnds DEF Dedupe, SeenDuplicate
    <2>3. CASE StoreFails(k)
        BY <1>8, <1>0, <2>3, AnswerStep, ClaimEnds DEF Dedupe, StoreFails
    <2>4. CASE StoreReplyLost(k)
        <3>1. hist'.served = 0 /\ FirstSeen
            BY <2>4, BefellStep DEF StoreReplyLost, Fates, FirstSeen, ClaimHeld
        <3>2. \A j \in Attempts : try'[j].phase # "claimed"
            BY <2>4, <1>0, <1>f, <3>1, AnswerStep DEF StoreReplyLost, Ended, Untried
        <3> QED BY <3>1, <3>2 DEF ClaimHeld
    <2> QED BY <1>8, <2>1, <2>2, <2>3, <2>4 DEF Dedupe, markSeen, NoSeenSet
<1>9. ASSUME NEW k \in Attempts, Invoke(k) PROVE ClaimHeld'
    <2>1. CASE AtPhase(k, "agent") /\ hist' = [hist EXCEPT !.served = @ + 1]
        <3>1. hist.served = 0 /\ seen > 0 /\ seen' = seen
            BY <1>9, <1>0 DEF Invoke, ClaimHeld
        <3>2. hist'.served = 1
            BY <2>1, <3>1 DEF AsyncTypeOK
        <3>3. \A j \in Attempts : try'[j].phase # "claimed"
            BY <1>9, <2>1, <1>0 DEF Invoke, AtPhase, ClaimHeld, Attempt
        <3> QED BY <1>0, <3>1, <3>2, <3>3 DEF ClaimHeld
    <2>2. CASE Spoil(k)
        BY <1>9, <1>0, <2>2, AnswerStep, BefellStep, ClaimEnds
           DEF Invoke, Spoil, Fates
    <2> QED BY <1>9, <2>1, <2>2 DEF Invoke
<1>10. ASSUME NEW k \in Attempts, AgentAnswers(k) PROVE ClaimHeld'
    <2>1. try' = [try EXCEPT ![k] = Ended] /\ hist'.served = hist.served
        BY <1>10, AnswerStep, BefellStep DEF AgentAnswers, AgentOutcome, Spoil, Fates
    <2> QED BY <1>10, <1>0, <2>1, ClaimEnds DEF AgentAnswers
<1>11. ASSUME NEW k \in Attempts, CallBreaks(k) PROVE ClaimHeld'
    <2>1. try' = [try EXCEPT ![k] = Ended] /\ hist'.served = hist.served
        BY <1>11, AnswerStep, BefellStep DEF CallBreaks, Fates
    <2> QED BY <1>11, <1>0, <2>1, ClaimEnds DEF CallBreaks
<1>12. ASSUME Tick PROVE ClaimHeld'
    <2>1. /\ hist'.served = IF seen = 1 THEN 0 ELSE hist.served
          /\ seen' = IF seen > 0 THEN seen - 1 ELSE seen
        BY <1>12 DEF Tick, Elapse
    <2>2. \A k \in Attempts : try'[k].phase = "claimed" =>
              /\ try[k].phase = "claimed" /\ try[k].left > 0
              /\ try'[k].left = try[k].left - 1
        BY <1>12, <1>0 DEF Tick, Elapse, Preparing, Attempt
    <2> QED BY <1>0, <2>1, <2>2 DEF ClaimHeld
<1> QED
    BY <1>1, <1>2, <1>3, <1>4, <1>5, <1>6, <1>7, <1>8, <1>9, <1>10, <1>11, <1>12
       DEF AsyncNext, AttemptStep, hopVars, Publish, Restart, Terminate

\* The attempts are finitely many, and so are those before the call.
LEMMA UncalledFinite ==
    ASSUME AsyncTypeOK
    PROVE  IsFiniteSet(Uncalled) /\ Cardinality(Uncalled) \in Nat
<1>1. IsFiniteSet(Attempts)
    BY Schedule, FS_Interval DEF Attempts
<1> QED BY <1>1, FS_Subset, FS_CardinalityType DEF Uncalled

\* A step that delivers nothing, calls no agent and brings no attempt back to
\* where it has not called yet.
LEMMA CallsKept ==
    ASSUME AsyncTypeOK, CallsCounted, AsyncTypeOK', hist'.served = hist.served,
           delivered' = delivered, Uncalled' \subseteq Uncalled
    PROVE  CallsCounted'
<1>1. Cardinality(Uncalled') <= Cardinality(Uncalled) /\ Cardinality(Uncalled) \in Nat
      /\ Cardinality(Uncalled') \in Nat
    BY UncalledFinite, FS_Subset, FS_CardinalityType
<1>2. hist.served \in Nat /\ delivered \in Nat
    BY Schedule DEF AsyncTypeOK
<1> QED BY <1>1, <1>2 DEF CallsCounted

\* Every step keeps the calls within the deliveries.
LEMMA CallsStep ==
    ASSUME ~Deduped, AsyncTypeOK, CallsCounted, [AsyncNext]_hopVars
    PROVE  CallsCounted'
<1> DEFINE Waiting == Preparing \cup {"queued"}
<1>0. /\ AsyncTypeOK' /\ try \in [Attempts -> Attempt]
      /\ hist.served \in Nat /\ delivered \in Nat
      /\ Ended.phase \notin Waiting
    BY AsyncTypeStep, Schedule DEF AsyncTypeOK, Attempt, Ended, Untried, Preparing
<1>s. ASSUME \A j \in Attempts : try'[j].phase \in Waiting => try[j].phase \in Waiting,
             hist'.served = hist.served, delivered' = delivered
      PROVE  CallsCounted'
    BY <1>s, <1>0, CallsKept DEF Uncalled
<1>a. ASSUME NEW k \in Attempts, NEW a \in {"2xx", "4xx", "failed"}, Answer(k, a),
             hist'.served = hist.served
      PROVE  CallsCounted'
    BY <1>a, <1>0, <1>s, AnswerStep
<1>1. CASE UNCHANGED <<try, hist, delivered>>
    BY <1>1, <1>s
<1>2. ASSUME NEW d \in Dispatchers, Deliver(d) PROVE CallsCounted'
    <2>1. delivered + 1 \in Attempts /\ delivered' = delivered + 1 /\ hist' = hist
        BY <1>2, <1>0, Schedule DEF Deliver, Attempts
    <2>2. \A k \in Attempts : k # delivered + 1 => try'[k] = try[k]
        BY <1>2, <1>0 DEF Deliver
    <2>3. Uncalled' \subseteq Uncalled \cup {delivered + 1}
        BY <2>1, <2>2, Schedule DEF Uncalled
    <2>4. /\ IsFiniteSet(Uncalled \cup {delivered + 1})
          /\ Cardinality(Uncalled \cup {delivered + 1}) <= Cardinality(Uncalled) + 1
        <3>1. /\ IsFiniteSet(Uncalled) /\ Cardinality(Uncalled) \in Nat
              /\ IsFiniteSet(Uncalled \cup {delivered + 1})
              /\ \/ Cardinality(Uncalled \cup {delivered + 1}) = Cardinality(Uncalled)
                 \/ Cardinality(Uncalled \cup {delivered + 1}) = Cardinality(Uncalled) + 1
            BY UncalledFinite, FS_AddElement, Zenon
        <3> QED BY <3>1
    <2>5. /\ Cardinality(Uncalled') <= Cardinality(Uncalled \cup {delivered + 1})
          /\ Cardinality(Uncalled') \in Nat /\ Cardinality(Uncalled \cup {delivered + 1}) \in Nat
        BY <2>3, <2>4, FS_Subset, FS_CardinalityType
    <2> QED BY <1>0, <2>1, <2>4, <2>5, UncalledFinite DEF CallsCounted
<1>3. ASSUME NEW d \in Dispatchers, Crash(d) PROVE CallsCounted'
    BY <1>3, <1>0, <1>s DEF Crash, Unheard
<1>4. ASSUME NEW k \in Attempts, deliverAsyncHop(k) PROVE CallsCounted'
    <2>1. CASE Unroutable(k)
        BY <1>4, <2>1, <1>0, <1>s, BefellStep DEF Unroutable, HandlerEnds, Ack, Fates
    <2>2. CASE LookupFails(k)
        BY <1>4, <2>2, <1>0, <1>s DEF LookupFails, HandlerEnds, Nak
    <2>3. CASE Post(k)
        BY <1>4, <2>3, <1>0, <1>s DEF deliverAsyncHop, Post, busVars
    <2> QED BY <1>4, <2>1, <2>2, <2>3 DEF deliverAsyncHop
<1>5. ASSUME NEW k \in Attempts, Unreachable(k) PROVE CallsCounted'
    BY <1>5, <1>a DEF Unreachable
<1>6. ASSUME NEW k \in Attempts, DispatchTimeout(k) PROVE CallsCounted'
    BY <1>6, <1>0, <1>s DEF DispatchTimeout, Unheard, Nak
<1>7. ASSUME NEW k \in Attempts, Decode(k) PROVE CallsCounted'
    <2>1. CASE AtPhase(k, "decoded") /\ UNCHANGED hist
        BY <1>7, <2>1, <1>0, <1>s DEF Decode, AtPhase, Attempt, Preparing, busVars
    <2>2. CASE Answer(k, "4xx") /\ Befell("refused")
        BY <2>2, <1>a, BefellStep DEF Fates
    <2> QED BY <1>7, <2>1, <2>2 DEF Decode
<1>8. ASSUME NEW k \in Attempts, Dedupe(k) PROVE CallsCounted'
    BY <1>8, <1>0, <1>s DEF Dedupe, markSeen, NoSeenSet, AtPhase, Attempt, Preparing, busVars
<1>9. ASSUME NEW k \in Attempts, Invoke(k) PROVE CallsCounted'
    <2>1. CASE AtPhase(k, "agent") /\ hist' = [hist EXCEPT !.served = @ + 1]
        <3>1. hist'.served = hist.served + 1 /\ delivered' = delivered
            BY <2>1, <1>0 DEF AtPhase, busVars, AsyncTypeOK
        <3>2. k \in Uncalled
            BY <1>9, <2>1 DEF Invoke, Uncalled, Preparing
        <3>3. Uncalled' \subseteq Uncalled \ {k}
            BY <2>1, <1>0, <3>1 DEF Uncalled, AtPhase, Attempt, Preparing
        <3>4. /\ IsFiniteSet(Uncalled \ {k})
              /\ Cardinality(Uncalled \ {k}) = Cardinality(Uncalled) - 1
            BY <3>2, UncalledFinite, FS_RemoveElement
        <3>5. /\ Cardinality(Uncalled') <= Cardinality(Uncalled \ {k})
              /\ Cardinality(Uncalled') \in Nat
            BY <3>3, <3>4, FS_Subset, FS_CardinalityType
        <3> QED BY <1>0, <3>1, <3>4, <3>5, UncalledFinite DEF CallsCounted
    <2>2. CASE Spoil(k)
        BY <2>2, <1>a, BefellStep DEF Spoil, Fates
    <2> QED BY <1>9, <2>1, <2>2 DEF Invoke
<1>10. ASSUME NEW k \in Attempts, AgentAnswers(k) PROVE CallsCounted'
    BY <1>10, <1>a, BefellStep DEF AgentAnswers, AgentOutcome, Spoil, Fates
<1>11. ASSUME NEW k \in Attempts, CallBreaks(k) PROVE CallsCounted'
    BY <1>11, <1>a, BefellStep DEF CallBreaks, Fates
<1>12. ASSUME Tick PROVE CallsCounted'
    <2>1. \A j \in Attempts : try'[j].phase = try[j].phase
        BY <1>12, <1>0 DEF Tick, Attempt
    <2>2. hist'.served \in {0, hist.served} /\ delivered' = delivered
        BY <1>12 DEF Tick
    <2>3. CASE hist'.served = hist.served
        BY <2>1, <2>2, <2>3, <1>s
    <2>4. CASE hist'.served = 0
        <3>1. Uncalled' = Uncalled
            BY <2>1, <2>2 DEF Uncalled
        <3> QED BY <3>1, <2>2, <2>4, <1>0, UncalledFinite DEF CallsCounted
    <2> QED BY <2>2, <2>3, <2>4
<1> QED
    BY <1>1, <1>2, <1>3, <1>4, <1>5, <1>6, <1>7, <1>8, <1>9, <1>10, <1>11, <1>12
       DEF AsyncNext, AttemptStep, hopVars, Publish, Restart, Terminate

\* Whether there is a seen-set is settled when the pod starts.
LEMMA SeenSetStays ==
    ASSUME AsyncTypeOK, [AsyncNext]_hopVars
    PROVE  Deduped' <=> Deduped
<1>0. seen \in Int /\ dedupeTTL \in Nat /\ (seen > 0 \/ seen = 0 \/ seen = Never)
    BY AsyncAssumption DEF AsyncTypeOK, Never
<1>1. ASSUME NEW k \in Attempts, Dedupe(k) PROVE Deduped' <=> Deduped
    BY <1>1, <1>0 DEF Dedupe, markSeen, SeenFirst, SeenDuplicate, StoreFails, StoreReplyLost,
       NoSeenSet, Deduped, Never
<1>2. CASE Tick
    BY <1>2, <1>0 DEF Tick, Elapse, Deduped, Never
<1>3. CASE seen' = seen
    BY <1>3 DEF Deduped
<1> QED
    BY <1>1, <1>2, <1>3
       DEF AsyncNext, AttemptStep, hopVars, Publish, Terminate, Deliver, Crash, Restart,
           deliverAsyncHop, Unreachable, DispatchTimeout, Decode, Invoke, AgentAnswers, CallBreaks

\* consume calls the agent at most once in the life of a claim, or, without a
\* seen-set, once per delivery, for every schedule of deliveries, failures of
\* the store and crashes.
THEOREM OneCallAlways == AsyncSpec => []OneCallPerClaim
<1> DEFINE Counted == (Deduped => ClaimHeld) /\ (~Deduped => CallsCounted)
<1>1. AsyncInit => Counted
    <2> SUFFICES ASSUME AsyncInit PROVE Counted
        OBVIOUS
    <2>1. ASSUME Deduped PROVE ClaimHeld
        BY <2>1 DEF AsyncInit, ClaimHeld, Untried, Deduped
    <2>2. Uncalled = {}
        BY DEF AsyncInit, Uncalled, Untried, Preparing
    <2>3. CallsCounted
        BY <2>2, FS_EmptySet DEF AsyncInit, CallsCounted
    <2> QED BY <2>1, <2>3
<1>2. AsyncTypeOK /\ Counted /\ [AsyncNext]_hopVars => Counted'
    <2> SUFFICES ASSUME AsyncTypeOK, Counted, [AsyncNext]_hopVars PROVE Counted'
        OBVIOUS
    <2>1. CASE Deduped
        BY <2>1, ClaimStep, SeenSetStays
    <2>2. CASE ~Deduped
        BY <2>2, CallsStep, SeenSetStays
    <2> QED BY <2>1, <2>2
<1>3. AsyncTypeOK /\ Counted => OneCallPerClaim
    BY UncalledFinite, Schedule DEF ClaimHeld, CallsCounted, OneCallPerClaim, AsyncTypeOK
<1> QED BY <1>1, <1>2, <1>3, AsyncTypeCorrect, PTL DEF AsyncSpec

-------------------------------------------------------------------------------
(* What is dropped was claimed.                                            *)

\* The message, once accounted for, stays so when an attempt ends, provided
\* that the end of an attempt with the claim is put on record.
LEMMA AccountKept ==
    ASSUME AsyncTypeOK, Accounted, NEW k \in Attempts, try' = [try EXCEPT ![k] = Ended],
           hist.fate # "open" => hist'.fate # "open",
           try[k].phase \in {"claimed", "agent"} => hist'.fate # "open"
    PROVE  Accounted'
BY DEF Accounted, AsyncTypeOK

\* Every step keeps a key in the seen-set, and the ack of a message, accounted
\* for.
LEMMA KeyStep ==
    ASSUME AsyncTypeOK, KeyAccounts, DropsOnlyAfterFailedClaim, [AsyncNext]_hopVars
    PROVE  KeyAccounts' /\ DropsOnlyAfterFailedClaim'
<1> DEFINE Fresh == \A k \in Attempts : k > delivered => try[k].phase = "none"
<1>0. /\ AsyncTypeOK'
      /\ try \in [Attempts -> Attempt] /\ delivered \in Nat
      /\ seen \in Int /\ (Deduped => seen \in Nat)
      /\ \A k \in Attempts : k \in Nat
      /\ Ended.phase = "done"
    BY AsyncTypeStep, AsyncAssumption, Schedule
       DEF AsyncTypeOK, Attempt, Ended, Untried, Deduped, Never
\* It is enough that the account is kept, and that a new key or ack has one.
<1>a. ASSUME Accounted => Accounted', Fresh',
             seen' > 0 => seen > 0 \/ Accounted',
             stream' = "acked" => stream = "acked" \/ Accounted'
      PROVE  KeyAccounts' /\ DropsOnlyAfterFailedClaim'
    BY <1>a DEF KeyAccounts, DropsOnlyAfterFailedClaim, Accounted
<1>1. CASE UNCHANGED <<try, hist, seen, delivered>> /\ stream' # "acked"
    BY <1>1 DEF KeyAccounts, DropsOnlyAfterFailedClaim, Accounted
<1>2. ASSUME NEW d \in Dispatchers, Deliver(d)
      PROVE  KeyAccounts' /\ DropsOnlyAfterFailedClaim'
    <2>1. /\ delivered + 1 \in Attempts /\ try[delivered + 1].phase = "none"
          /\ \A k \in Attempts : k # delivered + 1 => try'[k] = try[k]
          /\ UNCHANGED <<stream, seen, hist>> /\ delivered' = delivered + 1
        BY <1>2, <1>0, Schedule DEF Deliver, KeyAccounts, Attempts
    <2>2. Fresh'
        BY <2>1, <1>0 DEF KeyAccounts
    <2>3. Accounted => Accounted'
        BY <2>1 DEF Accounted
    <2> QED BY <2>1, <2>2, <2>3, <1>a
<1>3. ASSUME NEW d \in Dispatchers, Crash(d)
      PROVE  KeyAccounts' /\ DropsOnlyAfterFailedClaim'
    <2>1. \A k \in Attempts : \/ try'[k].phase = try[k].phase
                              \/ try[k].phase = "queued"
        BY <1>3, <1>0 DEF Crash, Unheard
    <2>2. Fresh'
        BY <1>3, <2>1, <1>0 DEF Crash, KeyAccounts
    <2>3. Accounted => Accounted'
        BY <1>3, <2>1 DEF Crash, Accounted
    <2> QED BY <1>3, <2>2, <2>3, <1>a DEF Crash
<1>4. ASSUME NEW k \in Attempts, deliverAsyncHop(k)
      PROVE  KeyAccounts' /\ DropsOnlyAfterFailedClaim'
    <2>1. CASE Unroutable(k)
        <3>1. hist'.fate # "open" /\ seen' = seen
            BY <1>4, <2>1, BefellStep DEF deliverAsyncHop, Unroutable, Fates
        <3>2. Fresh'
            BY <1>4, <2>1, <1>0 DEF deliverAsyncHop, Unroutable, HandlerEnds, Ack, KeyAccounts
        <3> QED BY <3>1, <3>2, <1>a DEF Accounted
    <2>2. CASE LookupFails(k)
        <3>1. Fresh' /\ UNCHANGED <<stream, seen, hist>>
            BY <1>4, <2>2, <1>0 DEF deliverAsyncHop, LookupFails, HandlerEnds, Nak, KeyAccounts
        <3>2. Accounted => Accounted'
            BY <1>4, <2>2, <3>1, AccountKept DEF deliverAsyncHop, LookupFails, HandlerEnds
        <3> QED BY <3>1, <3>2, <1>a
    <2>3. CASE Post(k)
        <3>1. Fresh' /\ UNCHANGED <<stream, seen, hist>>
            BY <1>4, <2>3, <1>0 DEF deliverAsyncHop, Post, busVars, KeyAccounts
        <3>2. Accounted => Accounted'
            BY <1>4, <2>3, <3>1, <1>0 DEF deliverAsyncHop, Post, Accounted
        <3> QED BY <3>1, <3>2, <1>a
    <2> QED BY <1>4, <2>1, <2>2, <2>3 DEF deliverAsyncHop
\* An attempt is answered: the record is kept, and it is made when the attempt
\* had the claim, when the answer is acked, and when the key is new.
<1>5. ASSUME NEW k \in Attempts, NEW status \in {"2xx", "4xx", "failed"}, Answer(k, status),
             try[k].phase # "none",
             hist.fate # "open" => hist'.fate # "open",
             try[k].phase \in {"claimed", "agent"} => hist'.fate # "open",
             status # "failed" => hist'.fate # "open" \/ (seen > 0 /\ seen' = seen),
             seen' > 0 => seen > 0 \/ hist'.fate # "open"
      PROVE  KeyAccounts' /\ DropsOnlyAfterFailedClaim'
    <2>1. /\ try' = [try EXCEPT ![k] = Ended] /\ delivered' = delivered
          /\ stream' = stream \/ (stream' = "acked" /\ status # "failed")
        BY <1>5, AnswerStep
    <2>2. Fresh'
        BY <1>5, <2>1, <1>0 DEF KeyAccounts
    <2>3. Accounted => Accounted'
        BY <1>5, <2>1, AccountKept
    <2>4. stream' = "acked" => stream = "acked" \/ Accounted'
        BY <1>5, <2>1, <2>3 DEF Accounted, KeyAccounts
    <2>5. seen' > 0 => seen > 0 \/ Accounted'
        BY <1>5 DEF Accounted
    <2> QED BY <2>2, <2>3, <2>4, <2>5, <1>a
<1>6. ASSUME NEW k \in Attempts, Unreachable(k)
      PROVE  KeyAccounts' /\ DropsOnlyAfterFailedClaim'
    BY <1>6, <1>5 DEF Unreachable
<1>7. ASSUME NEW k \in Attempts, DispatchTimeout(k)
      PROVE  KeyAccounts' /\ DropsOnlyAfterFailedClaim'
    <2>1. /\ \A j \in Attempts : try'[j].phase = try[j].phase
          /\ UNCHANGED <<stream, delivered, seen, hist>>
        BY <1>7, <1>0 DEF DispatchTimeout, Unheard, Nak
    <2> QED BY <2>1, <1>a DEF Accounted, KeyAccounts
<1>8. ASSUME NEW k \in Attempts, Decode(k)
      PROVE  KeyAccounts' /\ DropsOnlyAfterFailedClaim'
    <2>1. CASE AtPhase(k, "decoded") /\ UNCHANGED hist
        <3>1. Fresh' /\ UNCHANGED <<stream, seen, hist>>
            BY <1>8, <2>1, <1>0 DEF Decode, AtPhase, busVars, KeyAccounts
        <3>2. Accounted => Accounted'
            BY <1>8, <2>1, <1>0 DEF Decode, AtPhase, Accounted
        <3> QED BY <3>1, <3>2, <1>a
    <2>2. CASE Answer(k, "4xx") /\ Befell("refused")
        BY <1>8, <2>2, <1>5, BefellStep DEF Decode, Fates
    <2> QED BY <1>8, <2>1, <2>2 DEF Decode
<1>9. ASSUME NEW k \in Attempts, Dedupe(k)
      PROVE  KeyAccounts' /\ DropsOnlyAfterFailedClaim'
    <2>1. CASE SeenFirst(k)
        <3>1. Fresh' /\ UNCHANGED <<stream, hist>>
            BY <1>9, <2>1, <1>0 DEF Dedupe, SeenFirst, AtPhase, busVars, KeyAccounts
        <3>2. try'[k].phase = "claimed"
            BY <2>1, <1>0 DEF SeenFirst, AtPhase, Attempt
        <3> QED BY <3>1, <3>2, <1>a DEF Accounted
    <2>2. CASE Deduped /\ SeenDuplicate(k)
        BY <1>9, <2>2, <1>5, <1>0 DEF Dedupe, SeenDuplicate, FirstSeen
    <2>3. CASE StoreFails(k)
        BY <1>9, <2>3, <1>5 DEF Dedupe, StoreFails
    <2>4. CASE StoreReplyLost(k)
        BY <1>9, <2>4, <1>5, BefellStep DEF Dedupe, StoreReplyLost, Fates
    <2>5. CASE NoSeenSet(k)
        <3>1. Fresh' /\ UNCHANGED <<stream, hist, seen>>
            BY <1>9, <2>5, <1>0 DEF Dedupe, NoSeenSet, AtPhase, busVars, KeyAccounts
        <3>2. try'[k].phase = "claimed"
            BY <2>5, <1>0 DEF NoSeenSet, AtPhase, Attempt
        <3> QED BY <3>1, <3>2, <1>a DEF Accounted
    <2> QED BY <1>9, <2>1, <2>2, <2>3, <2>4, <2>5 DEF Dedupe, markSeen
<1>10. ASSUME NEW k \in Attempts, Invoke(k)
       PROVE  KeyAccounts' /\ DropsOnlyAfterFailedClaim'
    <2>1. CASE AtPhase(k, "agent") /\ hist' = [hist EXCEPT !.served = @ + 1]
        <3>1. Fresh' /\ UNCHANGED <<stream, seen>>
            BY <1>10, <2>1, <1>0 DEF Invoke, AtPhase, busVars, KeyAccounts
        <3>2. try'[k].phase = "agent"
            BY <2>1, <1>0 DEF AtPhase, Attempt
        <3> QED BY <3>1, <3>2, <1>a DEF Accounted
    <2>2. CASE Spoil(k)
        BY <1>10, <2>2, <1>5, BefellStep DEF Invoke, Spoil, Fates
    <2> QED BY <1>10, <2>1, <2>2 DEF Invoke
<1>11. ASSUME NEW k \in Attempts, AgentAnswers(k)
       PROVE  KeyAccounts' /\ DropsOnlyAfterFailedClaim'
    BY <1>11, <1>5, BefellStep DEF AgentAnswers, AgentOutcome, Spoil, Fates
<1>12. ASSUME NEW k \in Attempts, CallBreaks(k)
       PROVE  KeyAccounts' /\ DropsOnlyAfterFailedClaim'
    BY <1>12, <1>5, BefellStep DEF CallBreaks, Fates
<1>13. ASSUME Tick PROVE KeyAccounts' /\ DropsOnlyAfterFailedClaim'
    <2>1. /\ \A j \in Attempts : try'[j].phase = try[j].phase
          /\ hist'.fate = hist.fate /\ UNCHANGED <<stream, delivered>>
          /\ seen' > 0 => seen > 0
        BY <1>13, <1>0 DEF Tick, Elapse, Attempt
    <2> QED BY <2>1, <1>a DEF Accounted, KeyAccounts
<1>14. CASE UNCHANGED hopVars
    BY <1>14 DEF hopVars, KeyAccounts, DropsOnlyAfterFailedClaim, Accounted
<1>15. CASE Publish \/ Terminate
    BY <1>15, <1>1 DEF Publish, Terminate
<1>16. ASSUME NEW d \in Dispatchers, Restart(d)
       PROVE  KeyAccounts' /\ DropsOnlyAfterFailedClaim'
    BY <1>16 DEF Restart, KeyAccounts, DropsOnlyAfterFailedClaim, Accounted
<1> QED
    BY <1>2, <1>3, <1>4, <1>6, <1>7, <1>8, <1>9, <1>10, <1>11, <1>12, <1>13, <1>14, <1>15,
       <1>16
       DEF AsyncNext, AttemptStep

\* A message is acked unprocessed and unrefused only after an attempt that had
\* the claim failed, or while one is under way.
THEOREM DropsAlways == AsyncSpec => []DropsOnlyAfterFailedClaim
<1>1. AsyncInit => KeyAccounts /\ DropsOnlyAfterFailedClaim
    BY DEF AsyncInit, KeyAccounts, DropsOnlyAfterFailedClaim, Untried, Never
<1> QED BY <1>1, KeyStep, AsyncTypeCorrect, PTL DEF AsyncSpec

-------------------------------------------------------------------------------
(* Without a seen-set an acked message was processed.                      *)

\* The ack of a message is the answer of an attempt that processed or refused it.
AcksFinal == stream = "acked" => hist.fate \in {"processed", "refused"}

\* Every step keeps it so.
LEMMA AcksStep ==
    ASSUME ~Deduped, AsyncTypeOK, AcksFinal, [AsyncNext]_hopVars
    PROVE  AcksFinal'
<1> DEFINE Final == hist.fate \in {"processed", "refused"}
<1>b. ASSUME NEW f \in Fates, Befell(f)
      PROVE  (Final => Final') /\ (f \in {"processed", "refused"} => Final')
    BY <1>b DEF Befell, Graver, Fates, AsyncTypeOK
<1>s. ASSUME stream' = "acked" => stream = "acked" \/ Final', Final => Final'
      PROVE  AcksFinal'
    BY <1>s DEF AcksFinal
<1>1. CASE UNCHANGED hist /\ (stream' = "acked" => stream = "acked")
    BY <1>1, <1>s
<1>2. ASSUME NEW k \in Attempts, Answer(k, "failed"),
             UNCHANGED hist \/ Befell("spoiled")
      PROVE  AcksFinal'
    BY <1>2, <1>b, <1>s, AnswerStep DEF Fates
<1>3. ASSUME NEW k \in Attempts, deliverAsyncHop(k) PROVE AcksFinal'
    BY <1>3, <1>1, <1>b, <1>s
       DEF deliverAsyncHop, Unroutable, LookupFails, Post, Nak, busVars, Fates
<1>4. ASSUME NEW k \in Attempts, Decode(k) PROVE AcksFinal'
    BY <1>4, <1>1, <1>b, <1>s DEF Decode, AtPhase, busVars, Fates
<1>5. ASSUME NEW k \in Attempts, Dedupe(k) PROVE AcksFinal'
    BY <1>5, <1>1 DEF Dedupe, markSeen, NoSeenSet, AtPhase, busVars
<1>6. ASSUME NEW k \in Attempts, Invoke(k) PROVE AcksFinal'
    <2>1. CASE AtPhase(k, "agent") /\ hist' = [hist EXCEPT !.served = @ + 1]
        <3>1. hist'.fate = hist.fate
            BY <2>1 DEF AsyncTypeOK
        <3> QED BY <2>1, <3>1, <1>s DEF AtPhase, busVars
    <2> QED BY <1>6, <2>1, <1>2 DEF Invoke, Spoil
<1>7. ASSUME NEW k \in Attempts, AgentAnswers(k) PROVE AcksFinal'
    BY <1>7, <1>2, <1>b, <1>s DEF AgentAnswers, AgentOutcome, Spoil, Fates
<1>8. ASSUME NEW k \in Attempts, Unreachable(k) \/ CallBreaks(k) PROVE AcksFinal'
    BY <1>8, <1>2 DEF Unreachable, CallBreaks
<1>9. ASSUME NEW k \in Attempts, DispatchTimeout(k) PROVE AcksFinal'
    BY <1>9, <1>1 DEF DispatchTimeout, Nak
<1>10. CASE Tick
    BY <1>10, <1>s DEF Tick
<1>11. CASE UNCHANGED hopVars
    BY <1>11, <1>1 DEF hopVars
<1>12. CASE Publish \/ Terminate \/ \E d \in Dispatchers : Deliver(d) \/ Crash(d) \/ Restart(d)
    BY <1>12, <1>1 DEF Publish, Terminate, Deliver, Crash, Restart
<1> QED
    BY <1>3, <1>4, <1>5, <1>6, <1>7, <1>8, <1>9, <1>10, <1>11, <1>12 DEF AsyncNext, AttemptStep

\* Where the launcher has no seen-set, no message that nobody refused is acked
\* unprocessed, whatever fails: what the dedup claim costs.
THEOREM NothingDropped == AsyncSpec => []OpenAcksAreEarned
<1>1. AsyncInit => (~Deduped => AcksFinal)
    BY DEF AsyncInit, AcksFinal
<1>2. AsyncTypeOK /\ (~Deduped => AcksFinal) /\ [AsyncNext]_hopVars => (~Deduped => AcksFinal)'
    BY AcksStep, SeenSetStays
<1>3. (~Deduped => AcksFinal) => OpenAcksAreEarned
    BY DEF AcksFinal, AckedWasProcessed, OpenAcksAreEarned
<1> QED BY <1>1, <1>2, <1>3, AsyncTypeCorrect, PTL DEF AsyncSpec

-------------------------------------------------------------------------------
(* The delivery budget spans the schedule.                                 *)

\* The partial sums of the schedule are what their recursive definition says,
\* and none exceeds the whole.
LEMMA ElapsedSums ==
    /\ Elapsed \in [0 .. Len(redeliveryBackoff) -> Nat]
    /\ Elapsed[0] = 0
    /\ \A k \in 1 .. Len(redeliveryBackoff) : Elapsed[k] = Elapsed[k - 1] + redeliveryBackoff[k]
<1> DEFINE n == Len(redeliveryBackoff)
           b == redeliveryBackoff
<1>0. n \in Nat /\ \A i \in 1 .. n : b[i] \in Nat
    BY AsyncAssumption
<1> HIDE DEF n, b
<1> DEFINE Sums(f, m) == f[0] = 0 /\ \A k \in 1 .. m : f[k] = f[k - 1] + b[k]
           G == {m \in Nat : m <= n => \E f \in [0 .. m -> Nat] : Sums(f, m)}
<1>1. 0 \in G
    <2> DEFINE f == [i \in 0 .. 0 |-> 0]
    <2>1. f \in [0 .. 0 -> Nat] /\ Sums(f, 0)
        OBVIOUS
    <2> QED BY <2>1
<1>2. ASSUME NEW m \in G PROVE m + 1 \in G
    <2> SUFFICES ASSUME m + 1 <= n PROVE \E f \in [0 .. m + 1 -> Nat] : Sums(f, m + 1)
        OBVIOUS
    <2>1. m \in Nat /\ m <= n
        BY <1>0
    <2>2. PICK f \in [0 .. m -> Nat] : Sums(f, m)
        BY <2>1
    <2> DEFINE g == [i \in 0 .. m + 1 |-> IF i = m + 1 THEN f[m] + b[m + 1] ELSE f[i]]
    <2>3. g \in [0 .. m + 1 -> Nat]
        <3>1. b[m + 1] \in Nat /\ f[m] \in Nat
            BY <1>0, <2>1
        <3>2. \A i \in 0 .. m + 1 : i # m + 1 => i \in 0 .. m
            BY <2>1
        <3> QED BY <3>1, <3>2
    <2>4. g[0] = 0
        BY <2>1, <2>2
    <2>5. ASSUME NEW k \in 1 .. m + 1 PROVE g[k] = g[k - 1] + b[k]
        <3>1. k \in 0 .. m + 1 /\ k - 1 \in 0 .. m + 1 /\ k - 1 # m + 1
            BY <2>1
        <3>2. CASE k = m + 1
            <4>1. k - 1 = m
                BY <3>2, <2>1
            <4> QED BY <2>1, <3>1, <3>2, <4>1
        <3>3. CASE k # m + 1
            <4>1. k \in 1 .. m
                BY <3>3, <2>1
            <4> QED BY <2>2, <3>1, <3>3, <4>1
        <3> QED BY <3>2, <3>3
    <2> HIDE DEF g
    <2>6. Sums(g, m + 1)
        BY <2>4, <2>5
    <2> QED BY <2>3, <2>6
<1> HIDE DEF Sums
<1>3. G = Nat
    BY <1>1, <1>2, Induction
<1>4. PICK f \in [0 .. n -> Nat] : Sums(f, n)
    BY <1>0, <1>3
<1> DEFINE Step(g) == [k \in 0 .. n |-> IF k = 0 THEN 0 ELSE g[k - 1] + b[k]]
<1>5. f = Step(f)
    <2>1. \A k \in 0 .. n : f[k] = IF k = 0 THEN 0 ELSE f[k - 1] + b[k]
        BY <1>0, <1>4 DEF Sums
    <2> QED BY <1>4, <2>1
<1>6. Elapsed = CHOOSE g : g = Step(g)
    BY DEF Elapsed, n, b
<1> HIDE DEF Step
<1>7. Elapsed = Step(Elapsed)
    BY <1>5, <1>6
<1>8. \A k \in 0 .. n : Elapsed[k] = IF k = 0 THEN 0 ELSE Elapsed[k - 1] + b[k]
    BY <1>7 DEF Step
<1>9. Elapsed[0] = 0
    <2>1. 0 \in 0 .. n
        BY <1>0
    <2> QED BY <1>8, <2>1
<1>10. ASSUME NEW k \in 1 .. n PROVE Elapsed[k] = Elapsed[k - 1] + b[k]
    <2>1. k \in 0 .. n /\ k # 0
        BY <1>0
    <2> QED BY <1>8, <2>1
<1> DEFINE H == {m \in Nat : m <= n => Elapsed[m] \in Nat}
<1>11. 0 \in H
    BY <1>9
<1>12. ASSUME NEW m \in H PROVE m + 1 \in H
    <2> SUFFICES ASSUME m + 1 <= n PROVE Elapsed[m + 1] \in Nat
        OBVIOUS
    <2>1. m \in Nat /\ m <= n /\ m + 1 \in 1 .. n /\ (m + 1) - 1 = m
        BY <1>0
    <2>2. Elapsed[m] \in Nat /\ b[m + 1] \in Nat
        BY <1>0, <2>1
    <2>3. Elapsed[m + 1] = Elapsed[m] + b[m + 1]
        BY <1>10, <2>1
    <2> QED BY <2>2, <2>3
<1>13. H = Nat
    BY <1>11, <1>12, Induction
<1>14. ASSUME NEW k \in 0 .. n PROVE Elapsed[k] \in Nat
    <2>1. k \in H /\ k <= n
        BY <1>0, <1>13
    <2> QED BY <2>1
<1>15. Elapsed = [k \in 0 .. n |-> Elapsed[k]]
    BY <1>7 DEF Step
<1>16. Elapsed \in [0 .. n -> Nat]
    BY <1>14, <1>15
<1> QED BY <1>9, <1>10, <1>16 DEF n, b

\* No partial sum of the schedule exceeds the whole.
LEMMA ElapsedBounded ==
    \A k \in 0 .. Len(redeliveryBackoff) : Elapsed[k] \in Nat /\ Elapsed[k] <= Span
<1> DEFINE n == Len(redeliveryBackoff)
           G == {j \in Nat : j <= n => Elapsed[n - j] <= Span}
<1>0. /\ n \in Nat /\ \A i \in 1 .. n : redeliveryBackoff[i] \in Nat
      /\ \A k \in 0 .. n : Elapsed[k] \in Nat
      /\ \A k \in 1 .. n : Elapsed[k] = Elapsed[k - 1] + redeliveryBackoff[k]
      /\ Span = Elapsed[n]
    <2>1. n \in Nat /\ \A i \in 1 .. n : redeliveryBackoff[i] \in Nat
        BY AsyncAssumption
    <2>2. Elapsed \in [0 .. n -> Nat]
        BY ElapsedSums
    <2>3. \A k \in 1 .. n : Elapsed[k] = Elapsed[k - 1] + redeliveryBackoff[k]
        BY ElapsedSums
    <2>4. Span = Elapsed[n]
        BY DEF Span
    <2> HIDE DEF n
    <2> QED BY <2>1, <2>2, <2>3, <2>4
<1> HIDE DEF n
<1>1. 0 \in G
    BY <1>0
<1>2. ASSUME NEW j \in G PROVE j + 1 \in G
    <2> SUFFICES ASSUME j + 1 <= n PROVE Elapsed[n - (j + 1)] <= Span
        OBVIOUS
    <2>1. j \in Nat /\ j <= n /\ n - j \in 1 .. n /\ (n - j) - 1 = n - (j + 1) /\ n - (j + 1) \in 0 .. n
        BY <1>0
    <2>2. Elapsed[n - j] <= Span
        BY <2>1
    <2>3. Elapsed[n - j] = Elapsed[n - (j + 1)] + redeliveryBackoff[n - j]
        BY <1>0, <2>1
    <2>4. redeliveryBackoff[n - j] \in Nat /\ Elapsed[n - (j + 1)] \in Nat /\ Span \in Nat
        BY <1>0, <2>1
    <2> QED BY <2>2, <2>3, <2>4
<1>3. G = Nat
    BY <1>1, <1>2, Induction
<1>4. \A k \in 0 .. n : Elapsed[k] <= Span
    <2> TAKE k \in 0 .. n
    <2>1. n - k \in Nat /\ n - k <= n /\ n - (n - k) = k
        BY <1>0
    <2>2. n - k \in G
        BY <1>3, <2>1
    <2> QED BY <2>1, <2>2
<1> QED BY <1>0, <1>4 DEF n

\* Unless time passed during an attempt: the time since the first delivery
\* covers the delays before the last delivery, and with the running timer the
\* delay after it too; and an attempt that is under way is the last delivery's
\* and its timer has not run out, so that its nak restarts the same delay.
Paced ==
    /\ due \in Nat
    /\ hist.age # Slow =>
          /\ hist.age <= Span
          /\ delivered > 0 => hist.age >= Elapsed[delivered - 1]
          /\ delivered \in 1 .. Len(redeliveryBackoff) => hist.age + due >= Elapsed[delivered]
          /\ \A k \in Attempts : InFlight(k) => k = delivered /\ due > 0

\* A step of the dispatcher or the launcher for attempt k: at most it restarts
\* the timer with k's delay, and it puts no other attempt under way.
LEMMA PacedKept ==
    ASSUME AsyncTypeOK, Paced, NEW k \in Attempts, InFlight(k),
           due' \in {due, nakDelay(k)}, delivered' = delivered, hist'.age = hist.age,
           \A j \in Attempts : InFlight(j)' => InFlight(j)
    PROVE  Paced'
<1> DEFINE n == Len(redeliveryBackoff)
<1>0. /\ n \in Nat /\ n > 0 /\ \A i \in 1 .. n : redeliveryBackoff[i] \in Nat \ {0}
      /\ Attempts = 1 .. n + 1 /\ delivered \in 0 .. n + 1
      /\ hist.age \in Nat \cup {Slow}
    BY AsyncAssumption DEF AsyncTypeOK, Attempts, maxDeliver
<1>1. /\ \A i \in 0 .. n : Elapsed[i] \in Nat
      /\ \A i \in 1 .. n : Elapsed[i] = Elapsed[i - 1] + redeliveryBackoff[i]
    BY ElapsedBounded, ElapsedSums
<1>2. /\ nakDelay(k) \in Nat \ {0}
      /\ k \in 1 .. n => nakDelay(k) = redeliveryBackoff[k]
    <2>1. k \in 1 .. n + 1
        BY <1>0
    <2>2. CASE k > n
        <3>1. nakDelay(k) = redeliveryBackoff[n]
            BY <2>2 DEF nakDelay
        <3> QED BY <1>0, <2>1, <2>2, <3>1
    <2>3. CASE ~(k > n)
        <3>1. nakDelay(k) = redeliveryBackoff[k] /\ k \in 1 .. n
            BY <1>0, <2>1, <2>3 DEF nakDelay
        <3> QED BY <1>0, <3>1
    <2> QED BY <2>2, <2>3
<1> HIDE DEF n
<1>3. due' \in Nat
    BY <1>2 DEF Paced
<1>4. CASE hist.age = Slow
    BY <1>3, <1>4 DEF Paced
<1>5. CASE hist.age # Slow
    <2>1. /\ hist.age <= Span /\ k = delivered /\ due > 0
          /\ hist.age >= Elapsed[delivered - 1]
          /\ delivered \in 1 .. n => hist.age + due >= Elapsed[delivered]
        BY <1>0, <1>5 DEF Paced, n
    <2>2. delivered \in 1 .. n => hist.age + due' >= Elapsed[delivered]
        <3> SUFFICES ASSUME delivered \in 1 .. n PROVE hist.age + due' >= Elapsed[delivered]
            OBVIOUS
        <3>1. CASE due' = due
            BY <2>1, <3>1
        <3>2. CASE due' = nakDelay(k)
            <4>1. due' = redeliveryBackoff[delivered] /\ redeliveryBackoff[delivered] \in Nat
                BY <1>0, <1>2, <2>1, <3>2
            <4>2. Elapsed[delivered] = Elapsed[delivered - 1] + redeliveryBackoff[delivered]
                BY <1>1
            <4>3. Elapsed[delivered - 1] \in Nat /\ hist.age \in Nat
                BY <1>0, <1>1, <1>5
            <4> QED BY <2>1, <4>1, <4>2, <4>3
        <3> QED BY <3>1, <3>2
    <2>3. due' > 0
        BY <1>2, <2>1 DEF Paced
    <2> QED BY <1>3, <1>5, <2>1, <2>2, <2>3 DEF Paced, n
<1> QED BY <1>4, <1>5

\* The end of attempt k, by whatever answer, is such a step.
LEMMA PacedEnds ==
    ASSUME AsyncTypeOK, Paced, NEW k \in Attempts, InFlight(k), HandlerEnds(k),
           Ack \/ Nak(k) \/ UNCHANGED busVars, hist'.age = hist.age
    PROVE  Paced'
<1>1. due' \in {due, nakDelay(k)} /\ delivered' = delivered
    BY DEF Ack, Nak, busVars
<1>2. Ended.phase = "done"
    BY DEF Ended, Untried
<1>3. \A j \in Attempts : InFlight(j)' => InFlight(j)
    BY <1>2 DEF HandlerEnds, AsyncTypeOK, InFlight, Calling, Preparing
<1> QED BY <1>1, <1>3, PacedKept

\* Every step keeps the pace.
LEMMA PacedStep ==
    ASSUME AsyncTypeOK, Paced, [AsyncNext]_hopVars
    PROVE  Paced'
<1> DEFINE n == Len(redeliveryBackoff)
<1>0. /\ n \in Nat /\ n > 0 /\ \A i \in 1 .. n : redeliveryBackoff[i] \in Nat \ {0}
      /\ Attempts = 1 .. n + 1 /\ maxDeliver = n + 1 /\ delivered \in 0 .. n + 1
      /\ hist.age \in Nat \cup {Slow} /\ try \in [Attempts -> Attempt] /\ due \in Nat
    BY AsyncAssumption DEF AsyncTypeOK, Attempts, Attempt, maxDeliver, Paced
<1>1. /\ \A i \in 0 .. n : Elapsed[i] \in Nat /\ Elapsed[i] <= Span
      /\ \A i \in 1 .. n : Elapsed[i] = Elapsed[i - 1] + redeliveryBackoff[i]
      /\ Elapsed[0] = 0 /\ Span \in Nat
    BY ElapsedBounded, ElapsedSums, <1>0 DEF Span
<1>b. \A f \in Fates : Befell(f) => hist'.age = hist.age
    BY DEF Befell, AsyncTypeOK
<1>a. ASSUME NEW k \in Attempts, InFlight(k), NEW s \in {"2xx", "4xx", "failed"}, Answer(k, s),
             hist'.age = hist.age
      PROVE  Paced'
    BY <1>a, PacedEnds DEF Answer
<1>p. ASSUME NEW k \in Attempts, InFlight(k), NEW q \in Phases, AtPhase(k, q),
             hist'.age = hist.age
      PROVE  Paced'
    <2>1. \A j \in Attempts : InFlight(j)' => InFlight(j)
        BY <1>p, <1>0 DEF AtPhase, InFlight, Attempt
    <2> QED BY <1>p, <2>1, PacedKept DEF AtPhase, busVars
<1>u. ASSUME UNCHANGED <<due, delivered, hist>>,
             \A j \in Attempts : InFlight(j)' => InFlight(j)
      PROVE  Paced'
    BY <1>u DEF Paced
<1>2. ASSUME NEW d \in Dispatchers, Deliver(d) PROVE Paced'
    <2>1. /\ due = 0 /\ delivered < n + 1 /\ delivered' = delivered + 1 /\ hist' = hist
          /\ due' = nakDelay(delivered + 1)
          /\ \A j \in Attempts : j # delivered + 1 => try'[j] = try[j]
        BY <1>0, <1>2 DEF Deliver, ackTimer
    <2>2. due' \in Nat \ {0} /\ (delivered + 1 <= n => due' = redeliveryBackoff[delivered + 1])
        BY <1>0, <2>1 DEF nakDelay
    <2>3. CASE hist.age = Slow
        BY <2>1, <2>2, <2>3 DEF Paced
    <2>4. CASE hist.age # Slow
        <3>1. hist.age \in Nat /\ hist.age <= Span /\ \A k \in Attempts : ~InFlight(k)
            BY <1>0, <2>1, <2>4 DEF Paced
        <3>2. hist.age >= Elapsed[delivered]
            <4>1. CASE delivered = 0
                BY <1>1, <3>1, <4>1
            <4>2. CASE delivered # 0
                <5>1. delivered \in 1 .. n
                    BY <1>0, <2>1, <4>2
                <5> QED BY <2>1, <2>4, <3>1, <5>1 DEF Paced, n
            <4> QED BY <4>1, <4>2
        <3>3. delivered' - 1 = delivered /\ delivered' > 0
            BY <1>0, <2>1
        <3>4. delivered' \in 1 .. n => hist.age + due' >= Elapsed[delivered']
            <4> SUFFICES ASSUME delivered' \in 1 .. n PROVE hist.age + due' >= Elapsed[delivered']
                OBVIOUS
            <4>1. Elapsed[delivered'] = Elapsed[delivered] + redeliveryBackoff[delivered']
                BY <1>1, <3>3
            <4>2. due' = redeliveryBackoff[delivered'] /\ Elapsed[delivered] \in Nat
                BY <1>0, <1>1, <2>1, <2>2
            <4> QED BY <2>2, <3>1, <3>2, <4>1, <4>2
        <3>5. \A k \in Attempts : InFlight(k)' => k = delivered'
            BY <2>1, <3>1 DEF InFlight
        <3> QED BY <2>1, <2>2, <3>1, <3>2, <3>3, <3>4, <3>5 DEF Paced, n
    <2> QED BY <2>3, <2>4
<1>3. ASSUME NEW d \in Dispatchers, Crash(d) PROVE Paced'
    <2>1. \A j \in Attempts : InFlight(j)' => InFlight(j)
        BY <1>3, <1>0 DEF Crash, Unheard, Ended, Untried, InFlight, Calling, Preparing
    <2> QED BY <1>3, <1>u, <2>1 DEF Crash
<1>4. ASSUME NEW k \in Attempts, deliverAsyncHop(k) PROVE Paced'
    <2>0. InFlight(k)
        BY <1>4 DEF deliverAsyncHop, InFlight
    <2>1. CASE Unroutable(k)
        BY <1>b, <2>0, <2>1, PacedEnds DEF Unroutable, Fates
    <2>2. CASE LookupFails(k)
        BY <2>0, <2>2, PacedEnds DEF LookupFails
    <2>3. CASE Post(k)
        <3>1. \A j \in Attempts : InFlight(j)' => InFlight(j)
            BY <1>0, <2>0, <2>3 DEF Post, InFlight
        <3> QED BY <2>3, <3>1, <1>u DEF Post, busVars
    <2> QED BY <1>4, <2>1, <2>2, <2>3 DEF deliverAsyncHop
<1>5. ASSUME NEW k \in Attempts, Unreachable(k) PROVE Paced'
    BY <1>5, <1>a DEF Unreachable, InFlight, Calling, Preparing
<1>6. ASSUME NEW k \in Attempts, DispatchTimeout(k) PROVE Paced'
    <2>1. InFlight(k) /\ due' \in {due, nakDelay(k)} /\ UNCHANGED <<delivered, hist>>
        BY <1>6 DEF DispatchTimeout, InFlight, Nak
    <2>2. \A j \in Attempts : InFlight(j)' => InFlight(j)
        BY <1>6, <1>0 DEF DispatchTimeout, Unheard, InFlight
    <2> QED BY <2>1, <2>2, PacedKept
<1>7. ASSUME NEW k \in Attempts, Decode(k) PROVE Paced'
    BY <1>7, <1>a, <1>b, <1>p DEF Decode, InFlight, Calling, Preparing, Phases, Fates
<1>8. ASSUME NEW k \in Attempts, Dedupe(k) PROVE Paced'
    BY <1>8, <1>a, <1>b, <1>p
       DEF Dedupe, markSeen, NoSeenSet, SeenFirst, SeenDuplicate, StoreFails, StoreReplyLost,
           InFlight, Calling, Preparing, Phases, Fates
<1>9. ASSUME NEW k \in Attempts, Invoke(k) PROVE Paced'
    <2>0. InFlight(k)
        BY <1>9 DEF Invoke, InFlight, Calling, Preparing
    <2>1. CASE AtPhase(k, "agent") /\ hist' = [hist EXCEPT !.served = @ + 1]
        <3>1. hist'.age = hist.age
            BY <2>1 DEF AsyncTypeOK
        <3> QED BY <2>0, <2>1, <3>1, <1>p DEF Phases, Calling
    <2> QED BY <1>9, <1>a, <1>b, <2>0, <2>1 DEF Invoke, Spoil, Fates
<1>10. ASSUME NEW k \in Attempts, AgentAnswers(k) PROVE Paced'
    BY <1>10, <1>a, <1>b DEF AgentAnswers, AgentOutcome, Spoil, InFlight, Calling, Fates
<1>11. ASSUME NEW k \in Attempts, CallBreaks(k) PROVE Paced'
    BY <1>11, <1>a, <1>b DEF CallBreaks, InFlight, Calling, Preparing, Fates
<1>12. ASSUME Tick PROVE Paced'
    <2>1. /\ delivered' = delivered /\ due' = IF due > 0 THEN due - 1 ELSE due
          /\ \A j \in Attempts : try'[j].phase = try[j].phase
          /\ hist'.age = IF hist.age = Slow \/ \E k \in Attempts : InFlight(k) THEN Slow
                         ELSE IF delivered > 0 /\ hist.age < Span THEN hist.age + 1 ELSE hist.age
        BY <1>12, <1>0 DEF Tick, Elapse, Attempt
    <2>2. due' \in Nat
        BY <1>0, <2>1
    <2>3. CASE hist'.age = Slow
        BY <2>2, <2>3 DEF Paced
    <2>4. CASE hist'.age # Slow
        <3>1. /\ hist.age # Slow /\ hist.age \in Nat /\ \A k \in Attempts : ~InFlight(k)
              /\ hist'.age = IF delivered > 0 /\ hist.age < Span THEN hist.age + 1 ELSE hist.age
            BY <1>0, <2>1, <2>4
        <3>2. \A k \in Attempts : ~InFlight(k)'
            BY <2>1, <3>1 DEF InFlight
        <3>3. hist'.age <= Span /\ hist'.age >= hist.age /\ hist'.age \in Nat
            BY <1>1, <3>1 DEF Paced
        <3>4. delivered > 0 => hist'.age >= Elapsed[delivered - 1]
            <4> SUFFICES ASSUME delivered > 0 PROVE hist'.age >= Elapsed[delivered - 1]
                OBVIOUS
            <4>1. hist.age >= Elapsed[delivered - 1] /\ Elapsed[delivered - 1] \in Nat
                BY <1>0, <1>1, <3>1 DEF Paced
            <4> QED BY <3>1, <3>3, <4>1
        <3>5. delivered \in 1 .. n => hist'.age + due' >= Elapsed[delivered]
            <4> SUFFICES ASSUME delivered \in 1 .. n PROVE hist'.age + due' >= Elapsed[delivered]
                OBVIOUS
            <4>1. /\ hist.age + due >= Elapsed[delivered] /\ Elapsed[delivered] \in Nat
                  /\ Elapsed[delivered] <= Span
                BY <1>0, <1>1, <3>1 DEF Paced, n
            <4>2. delivered > 0
                BY <1>0
            <4>3. CASE hist.age < Span
                BY <1>0, <2>1, <3>1, <4>1, <4>2, <4>3
            <4>4. CASE ~(hist.age < Span)
                BY <1>0, <1>1, <2>1, <2>2, <3>1, <4>1, <4>4
            <4> QED BY <4>3, <4>4
        <3> QED BY <2>1, <2>2, <3>2, <3>3, <3>4, <3>5 DEF Paced, n
    <2> QED BY <2>3, <2>4
<1>13. CASE UNCHANGED <<due, delivered, hist, try>>
    BY <1>13, <1>u DEF InFlight
<1> QED
    BY <1>2, <1>3, <1>4, <1>5, <1>6, <1>7, <1>8, <1>9, <1>10, <1>11, <1>12, <1>13
       DEF AsyncNext, AttemptStep, Publish, Terminate, Restart, hopVars

\* A callee that refuses every attempt at once gets its last attempt only when
\* the whole backoff schedule has passed, for every schedule: neither a nak,
\* first, late or lost, nor a crash burns the delivery budget early
\* (jetstream.go 67-75).
THEOREM BudgetSpansSchedule == AsyncSpec => []BudgetSpansOutage
<1>1. AsyncInit => Paced
    <2> SUFFICES ASSUME AsyncInit PROVE Paced
        OBVIOUS
    <2>1. due = 0 /\ delivered = 0 /\ hist.age = 0 /\ \A k \in Attempts : ~InFlight(k)
        BY DEF AsyncInit, Untried, InFlight, Calling, Preparing
    <2>2. Span \in Nat
        <3>1. Len(redeliveryBackoff) \in Nat
            BY AsyncAssumption
        <3> QED BY <3>1, ElapsedBounded DEF Span
    <2> QED BY <2>1, <2>2 DEF Paced
<1>2. AsyncTypeOK /\ Paced => BudgetSpansOutage
    <2> SUFFICES ASSUME AsyncTypeOK, Paced, delivered = maxDeliver, hist.age # Slow
                 PROVE  hist.age = Span
        BY DEF BudgetSpansOutage
    <2>1. Len(redeliveryBackoff) \in Nat /\ delivered = Len(redeliveryBackoff) + 1
        BY AsyncAssumption DEF maxDeliver
    <2>2. delivered > 0 /\ delivered - 1 = Len(redeliveryBackoff)
        BY <2>1
    <2>3. hist.age >= Span /\ hist.age <= Span
        BY <2>2 DEF Paced, Span
    <2>4. hist.age \in Nat /\ Span \in Nat
        BY <2>1, ElapsedBounded DEF AsyncTypeOK, Span
    <2> QED BY <2>3, <2>4
<1> QED BY <1>1, <1>2, PacedStep, AsyncTypeCorrect, PTL DEF AsyncSpec
===============================================================================
