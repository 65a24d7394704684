------------------------ MODULE BrokerRefinement_proofs ------------------------
(***************************************************************************)
(* TurnBroker implements ToolCalls.  Fates(c) is the abstract state of the *)
(* calls of a channel.  A handler first prunes, which makes the expired    *)
(* turns go away, and then leaves the calls of its own channel alone or    *)
(* moves them as one of the abstract steps does.                           *)
(***************************************************************************)
EXTENDS TurnBroker_proofs

USE DEF Live

Fates(c) == [x \in Calls |-> CallStatus(c, x)]

\* What an abstract step does with the calls of a turn that stays.
Moves(s, n) ==
  \/ n = s
  \/ n = Abstract!Moved(s, "queued", "delivered")
  \/ n = Abstract!Moved(s, "queued", "compacted")
  \/ \E x \in Calls : s[x] = "none" /\ n = [s EXCEPT ![x] = "queued"]
  \/ \E x \in Calls : s[x] = "none" /\ n = [s EXCEPT ![x] = "compacted"]
  \/ \E x \in Calls : s[x] = "delivered" /\ n = [s EXCEPT ![x] = "result"]

\* The calls of a pruned channel moved, and a channel that is gone has none that can.
Served(c, d) == Fates(d) = Fates(c) \/ (Live(c) /\ Moves(Fates(c), Fates(d)))

\* Turns that go away in this step, and one turn that may move.
LEMMA AbstractStep ==
  ASSUME NEW gone \in SUBSET Tokens, NEW t \in Tokens \ gone,
         \A u \in Tokens : u # t =>
           Fates(channels'[u]) = IF u \in gone THEN Abstract!Rejected(Fates(channels[u]))
                                               ELSE Fates(channels[u]),
         Moves(Fates(channels[t]), Fates(channels'[t]))
  PROVE  Abstract!Next
<1> DEFINE st == [u \in Tokens |-> Fates(channels[u])]
           nx == [u \in Tokens |-> Fates(channels'[u])]
           W == [u \in Tokens |-> IF u \in gone THEN Abstract!Rejected(st[u]) ELSE st[u]]
<1>1. Abstract!Without(gone) = W
  BY DEF Abstract!Without, Fates
<1>2. nx = [W EXCEPT ![t] = Fates(channels'[t])]
  OBVIOUS
<1>3. \A next : next = Fates(channels'[t]) => Abstract!Step(gone, t, next)
  BY <1>1, <1>2 DEF Abstract!Step, Fates
<1>4. nx = W => Abstract!Next
  BY <1>1 DEF Abstract!Next, Fates
<1>5. st[t] = Fates(channels[t]) /\ W[t] = st[t]
  OBVIOUS
<1> DEFINE s == Fates(channels[t])
           n == Fates(channels'[t])
<1>6. CASE n = s
  BY <1>2, <1>4, <1>5, <1>6
<1>7. CASE n = Abstract!Moved(s, "queued", "delivered")
  BY <1>3, <1>5, <1>7 DEF Abstract!Next, Fates
<1>8. CASE n = Abstract!Moved(s, "queued", "compacted")
  BY <1>3, <1>5, <1>8 DEF Abstract!Next, Fates
<1>9. ASSUME NEW x \in Calls, s[x] = "none", n = [s EXCEPT ![x] = "queued"]
       PROVE  Abstract!Next
  BY <1>3, <1>5, <1>9 DEF Abstract!Next, Fates
<1>10. ASSUME NEW x \in Calls, s[x] = "none", n = [s EXCEPT ![x] = "compacted"]
       PROVE  Abstract!Next
  BY <1>3, <1>5, <1>10 DEF Abstract!Next, Fates
<1>11. ASSUME NEW x \in Calls, s[x] = "delivered", n = [s EXCEPT ![x] = "result"]
       PROVE  Abstract!Next
  BY <1>3, <1>5, <1>11 DEF Abstract!Next, Fates
<1> QED BY <1>6, <1>7, <1>8, <1>9, <1>10, <1>11 DEF Moves

\* Turns that go away and nothing else.
LEMMA AbstractGone ==
  ASSUME NEW gone \in SUBSET Tokens,
         \A u \in Tokens :
           Fates(channels'[u]) = IF u \in gone THEN Abstract!Rejected(Fates(channels[u]))
                                               ELSE Fates(channels[u])
  PROVE  Abstract!Next
<1> DEFINE nx == [u \in Tokens |-> Fates(channels'[u])]
<1>1. nx = Abstract!Without(gone)
  BY DEF Abstract!Without, Fates
<1> QED BY <1>1 DEF Abstract!Next, Fates

-----------------------------------------------------------------------------
(***************************************************************************)
(* What each rewriting of a channel does to the fates of its calls.        *)
(***************************************************************************)

\* The fates depend on the outcomes and the queue alone.
LEMMA SameFates ==
  ASSUME NEW c, NEW d, d.outcome = c.outcome, d.queuedCallIds = c.queuedCallIds
  PROVE  Fates(d) = Fates(c)
  BY DEF Fates, CallStatus

\* revoke rejects exactly what is queued or delivered.
LEMMA RevokedFates ==
  ASSUME NEW c, OK(c) PROVE Fates(Revoked(c)) = Abstract!Rejected(Fates(c))
<1>1. Revoked(c).outcome = RejectedOutcome(c)
  BY DEF Revoked, Remains, Unregistered
<1>2. \A x \in Calls : CallStatus(Revoked(c), x) =
        IF CallStatus(c, x) \in {"queued", "delivered"} THEN "rejected" ELSE CallStatus(c, x)
  BY <1>1 DEF CallStatus, RejectedOutcome, OK, ChannelOK, CallsAccounted, Channel, Outcomes
<1> QED BY <1>2 DEF Fates, Abstract!Rejected, Abstract!Moved

\* takeQueued hands out everything that is queued.
LEMMA TakenFates ==
  ASSUME NEW c, OK(c), NEW d, d.outcome = c.outcome, d.queuedCallIds = {}
  PROVE  Fates(d) = Abstract!Moved(Fates(c), "queued", "delivered")
<1>1. \A x \in Calls : CallStatus(d, x) =
        IF CallStatus(c, x) = "queued" THEN "delivered" ELSE CallStatus(c, x)
  BY DEF CallStatus, OK, Channel, Outcomes
<1> QED BY <1>1 DEF Fates, Abstract!Moved

\* A poll hands out the whole queue or changes no fate.
LEMMA PolledFates ==
  ASSUME NEW c, OK(c), NEW p PROVE Moves(Fates(c), Fates(Polled(c, p)))
<1> DEFINE W == c.waiters \cup {p}
           w == [c EXCEPT !.waiters = W]
           q == QueueTaken(c)
<1>1. w.outcome = c.outcome /\ w.queuedCallIds = c.queuedCallIds
  BY DEF OK, Channel
<1>2. q.outcome = c.outcome /\ q.queuedCallIds = {}
  BY DEF QueueTaken, OK, Channel
<1>3. Polled(c, p) \in {c, w, q}
  BY DEF Polled
<1> HIDE DEF w, q
<1> QED BY <1>1, <1>2, <1>3, SameFates, TakenFates DEF Moves

\* completeTool settles one delivered call.
LEMMA CompletedFates ==
  ASSUME NEW c, OK(c), NEW x \in c.invocations \cap c.deliveredCallIds,
         NEW d, d.outcome = [c.outcome EXCEPT ![x] = "result"],
         d.queuedCallIds = c.queuedCallIds
  PROVE  Moves(Fates(c), Fates(d))
<1>1. x \in Calls /\ c.outcome[x] = "pending" /\ x \notin c.queuedCallIds
  BY DEF OK, ChannelOK, CallsAccounted, Channel
<1>2. Fates(c)[x] = "delivered"
  BY <1>1 DEF Fates, CallStatus
<1>3. \A y \in Calls : CallStatus(d, y) = IF y = x THEN "result" ELSE CallStatus(c, y)
  BY <1>1 DEF CallStatus, OK, Channel, Outcomes
<1>4. Fates(d) = [Fates(c) EXCEPT ![x] = "result"]
  BY <1>3 DEF Fates
<1> QED BY <1>1, <1>2, <1>4 DEF Moves

\* The compaction notice answers the whole queue.
LEMMA CompactionFates ==
  ASSUME NEW c, OK(c), NEW d, d.queuedCallIds = {},
         d.outcome = [x \in Calls |-> IF x \in c.queuedCallIds \cap c.invocations
                                      THEN "compacted" ELSE c.outcome[x]]
  PROVE  Moves(Fates(c), Fates(d))
<1>1. \A x \in Calls : CallStatus(d, x) =
        IF CallStatus(c, x) = "queued" THEN "compacted" ELSE CallStatus(c, x)
  BY DEF CallStatus, OK, ChannelOK, CallsAccounted, Channel, Outcomes
<1>2. Fates(d) = Abstract!Moved(Fates(c), "queued", "compacted")
  BY <1>1 DEF Fates, Abstract!Moved
<1> QED BY <1>2 DEF Moves

\* An invoke queues one new call, or has it answered by the notice.
LEMMA InvokedFates ==
  ASSUME NEW c, OK(c), NEW x \in Calls, c.outcome[x] = "none", NEW d,
         \/ /\ d.outcome = [c.outcome EXCEPT ![x] = "compacted"]
            /\ d.queuedCallIds = c.queuedCallIds
         \/ /\ d.outcome = [c.outcome EXCEPT ![x] = "pending"]
            /\ d.queuedCallIds = c.queuedCallIds \cup {x}
  PROVE  Moves(Fates(c), Fates(d))
<1>1. Fates(c)[x] = "none"
  BY DEF Fates, CallStatus
<1>2. CASE /\ d.outcome = [c.outcome EXCEPT ![x] = "compacted"]
           /\ d.queuedCallIds = c.queuedCallIds
  <2>1. \A y \in Calls : CallStatus(d, y) = IF y = x THEN "compacted" ELSE CallStatus(c, y)
    BY <1>2 DEF CallStatus, OK, Channel, Outcomes
  <2>2. Fates(d) = [Fates(c) EXCEPT ![x] = "compacted"]
    BY <2>1 DEF Fates
  <2> QED BY <1>1, <2>2 DEF Moves
<1>3. CASE /\ d.outcome = [c.outcome EXCEPT ![x] = "pending"]
           /\ d.queuedCallIds = c.queuedCallIds \cup {x}
  <2>1. \A y \in Calls : CallStatus(d, y) = IF y = x THEN "queued" ELSE CallStatus(c, y)
    BY <1>3 DEF CallStatus, OK, Channel, Outcomes
  <2>2. Fates(d) = [Fates(c) EXCEPT ![x] = "queued"]
    BY <2>1 DEF Fates
  <2> QED BY <1>1, <2>2 DEF Moves
<1> QED BY <1>2, <1>3

-----------------------------------------------------------------------------
(***************************************************************************)
(* The handlers.                                                           *)
(***************************************************************************)

\* A handler that prunes: the expired turns go away, and its own turn may move.
LEMMA ServeAbstract ==
  ASSUME IInv, NEW t \in Tokens, NEW d, Serve(t, d), Served(Pruned[t], d)
  PROVE  Abstract!Next
<1> DEFINE gone == {u \in Tokens : Expired(channels[u])}
<1>1. \A u \in Tokens : channels'[u] = IF u = t THEN d ELSE Pruned[u]
  BY PrunedOK DEF Serve
<1>2. \A u \in Tokens : Fates(Pruned[u]) =
        IF u \in gone THEN Abstract!Rejected(Fates(channels[u])) ELSE Fates(channels[u])
  BY PrunedOK, RevokedFates DEF Pruned
<1>3. CASE t \in gone
  <2>1. Pruned[t].phase = "retired"
    BY <1>3 DEF Pruned, Revoked, Remains, Unregistered
  <2>2. Fates(d) = Fates(Pruned[t])
    BY <2>1 DEF Served
  <2> HIDE DEF gone
  <2> QED BY <1>1, <1>2, <2>2, AbstractGone DEF gone
<1>4. CASE t \notin gone
  <2>1. Pruned[t] = channels[t]
    BY <1>4 DEF Pruned
  <2>2. Moves(Fates(channels[t]), Fates(channels'[t]))
    BY <1>1, <2>1 DEF Served, Moves
  <2> QED BY <1>1, <1>2, <1>4, <2>2, AbstractStep
<1> QED BY <1>3, <1>4

\* A handler that does not prune.
LEMMA ReplaceAbstract ==
  ASSUME IInv, NEW t \in Tokens, NEW d, channels' = [channels EXCEPT ![t] = d],
         Moves(Fates(channels[t]), Fates(d))
  PROVE  Abstract!Next
<1>1. \A u \in Tokens : channels'[u] = IF u = t THEN d ELSE channels[u]
  BY DEF IInv, TypeOK
<1> DEFINE gone == {u \in Tokens : FALSE}
<1>2. gone \in SUBSET Tokens /\ t \in Tokens \ gone
  OBVIOUS
<1>3. \A u \in Tokens : u # t =>
        Fates(channels'[u]) = IF u \in gone THEN Abstract!Rejected(Fates(channels[u]))
                                            ELSE Fates(channels[u])
  BY <1>1
<1>4. Moves(Fates(channels[t]), Fates(channels'[t]))
  BY <1>1
<1> HIDE DEF gone
<1> QED BY <1>2, <1>3, <1>4, AbstractStep

\* Revoking turns.
LEMMA RevokeAllAbstract == ASSUME IInv, NEW ts, RevokeAll(ts) PROVE Abstract!Next
<1> DEFINE gone == {u \in Tokens : u \in ts /\ Live(channels[u])}
<1>1. \A u \in Tokens : Fates(channels'[u]) =
        IF u \in gone THEN Abstract!Rejected(Fates(channels[u])) ELSE Fates(channels[u])
  BY PrunedOK, RevokedFates DEF RevokeAll
<1> QED BY <1>1, AbstractGone

\* A released binding takes its turn away, besides those that expired.
LEMMA ReleaseAbstract == ASSUME IInv, NEW t \in Tokens, Release(t) PROVE Abstract!Next
<1> DEFINE gone == {u \in Tokens : Expired(channels[u])} \cup {t}
<1>1. Pruned[t] = channels[t] /\ Serve(t, Revoked(channels[t]))
  <2>1. Pruned[t] = IF Expired(channels[t]) THEN Revoked(channels[t]) ELSE channels[t]
    BY DEF Pruned
  <2>2. ~Live(Revoked(channels[t]))
    BY DEF Live, Revoked, Remains, Unregistered
  <2>3. Live(Pruned[t]) /\ Serve(t, Revoked(Pruned[t]))
    BY DEF Release
  <2>4. Pruned[t] = channels[t]
    BY <2>1, <2>2, <2>3
  <2> QED BY <2>3, <2>4
<1>2. \A u \in Tokens :
        channels'[u] = IF u \in gone THEN Revoked(channels[u]) ELSE channels[u]
  BY <1>1, PrunedOK DEF Serve, Pruned
<1>3. \A u \in Tokens : Fates(channels'[u]) =
        IF u \in gone THEN Abstract!Rejected(Fates(channels[u])) ELSE Fates(channels[u])
  BY <1>2, PrunedOK, RevokedFates
<1> QED BY <1>3, AbstractGone

\* A pruning handler whose channel keeps its outcomes and its queue.
LEMMA SameServed ==
  ASSUME IInv, NEW t \in Tokens, NEW d, Serve(t, d), d.outcome = Pruned[t].outcome,
         d.queuedCallIds = Pruned[t].queuedCallIds
  PROVE  Abstract!Next
  BY ServeAbstract, SameFates DEF Served

\* Every call of the owner is an abstract step.
LEMMA OwnerStepAbstract == ASSUME IInv, NEW t \in Tokens, OwnerStep(t) PROVE Abstract!Next
<1> DEFINE c == Pruned[t]
<1>0. OK(c) /\ c \in Channel /\ OK(channels[t]) /\ channels[t] \in Channel
  BY PrunedOK DEF OK
<1>1. ASSUME NEW safe \in Contracts, NEW ttl \in Deadlines, NEW external \in BOOLEAN,
             Register(t, safe, ttl, external)
      PROVE  Abstract!Next
  <2>1. CASE RequestRegistration(t, external)
    <3> DEFINE r == [channels[t] EXCEPT !.phase = "registering", !.external = external]
    <3>1. /\ c = channels[t]
          /\ Serve(t, r) \/ channels' = [channels EXCEPT ![t] = r]
      BY <2>1, RequestedServes
    <3>2. r.outcome = channels[t].outcome /\ r.queuedCallIds = channels[t].queuedCallIds
      BY <1>0 DEF Channel
    <3> HIDE DEF r
    <3> QED BY <3>1, <3>2, SameServed, SameFates, ReplaceAbstract DEF Moves
  <2>2. CASE \E d \in {Registered(c.trace, safe, ttl, external), Unregistered(c.trace)} :
               c.phase = "registering" /\ Serve(t, d)
    <3>1. PICK d \in {Registered(c.trace, safe, ttl, external), Unregistered(c.trace)} :
            c.phase = "registering" /\ Serve(t, d)
      BY <2>2
    <3>2. \A x \in Calls : c.outcome[x] = "none" /\ d.outcome[x] = "none"
      <4>1. \A x \in Calls : c.outcome[x] = "none"
        BY <1>0, <3>1 DEF OK, ChannelOK, CallsAccounted
      <4>2. CASE d = Registered(c.trace, safe, ttl, external)
        BY <4>1, <4>2 DEF Registered, Unregistered
      <4>3. CASE d = Unregistered(c.trace)
        BY <4>1, <4>3 DEF Unregistered
      <4> QED BY <3>1, <4>2, <4>3
    <3> HIDE DEF c
    <3>3. Fates(d) = Fates(c)
      BY <3>2 DEF Fates, CallStatus
    <3> QED BY <3>1, <3>3, ServeAbstract DEF Served, c
  <2> QED BY <1>1, <2>1, <2>2 DEF Register
<1>2. CASE UpdateEnvironment(t)
  BY <1>2, SameServed DEF UpdateEnvironment
<1>3. CASE Revoke(t)
  BY <1>3, RevokeAllAbstract DEF Revoke
<1>4. CASE WaitForRetirement(t)
  <2> DEFINE O == c.observers \cup {"retirement"}
             d == [c EXCEPT !.observers = O]
  <2>1. Serve(t, d)
    BY <1>4 DEF WaitForRetirement
  <2>2. d.outcome = c.outcome /\ d.queuedCallIds = c.queuedCallIds
    BY <1>0 DEF Channel
  <2> HIDE DEF d
  <2> QED BY <2>1, <2>2, SameServed
<1>5. ASSUME NEW p \in Polls, PollTools(t, p) PROVE Abstract!Next
  <2> DEFINE S == c.startWaiters \cup {p}
             d == [c EXCEPT !.startWaiters = S]
  <2>1. Live(c) /\ (Serve(t, d) \/ Serve(t, Polled(c, p)))
    BY <1>5 DEF PollTools
  <2>2. d.outcome = c.outcome /\ d.queuedCallIds = c.queuedCallIds
    BY <1>0 DEF Channel
  <2>3. Moves(Fates(c), Fates(Polled(c, p)))
    BY <1>0, PolledFates
  <2> HIDE DEF d
  <2> QED BY <2>1, <2>2, <2>3, SameServed, ServeAbstract DEF Served
<1>6. ASSUME NEW p \in Polls, ResumePoll(t, p) PROVE Abstract!Next
  <2> DEFINE R == c.resumedPolls \ {p}
             d == [c EXCEPT !.resumedPolls = R]
             e == [c EXCEPT !.resumedPolls = R, !.resumedClaims = c.resumedClaims,
                            !.resumedAnswers = c.resumedAnswers]
  <2>1. Serve(t, d) \/ (Live(d) /\ Serve(t, Polled(d, p)))
    BY <1>6 DEF ResumePoll
  <2>2. R \in SUBSET Polls
    BY <1>0 DEF Channel
  <2>3. /\ d.outcome = c.outcome /\ d.queuedCallIds = c.queuedCallIds /\ d.phase = c.phase
        /\ d = e
    BY <1>0 DEF Channel
  <2> HIDE DEF c, R
  <2>4. OK(e)
    BY <1>0, <2>2, ResumedOK DEF Channel
  <2> HIDE DEF d, e
  <2>5. Moves(Fates(d), Fates(Polled(d, p))) /\ Fates(d) = Fates(c)
    BY <2>3, <2>4, PolledFates, SameFates
  <2> QED BY <2>1, <2>3, <2>5, SameServed, ServeAbstract DEF Served, c
<1>7. ASSUME NEW p \in Polls, AbortPoll(t, p) PROVE Abstract!Next
  <2> DEFINE e == channels[t]
             S == e.startWaiters \ {p}
             W == e.waiters \ {p}
             d == [e EXCEPT !.startWaiters = S, !.waiters = W]
  <2>1. channels' = [channels EXCEPT ![t] = d]
    BY <1>7 DEF AbortPoll, IInv, TypeOK
  <2>2. d.outcome = e.outcome /\ d.queuedCallIds = e.queuedCallIds
    BY <1>0 DEF Channel
  <2> HIDE DEF d
  <2> QED BY <2>1, <2>2, SameFates, ReplaceAbstract DEF Moves
<1>8. CASE BatchTimer(t)
  <2> DEFINE e == channels[t]
             b == [e EXCEPT !.batchTimer = FALSE]
             d == [QueueTaken(b) EXCEPT !.waiters = {}]
  <2>1. channels' = [channels EXCEPT ![t] = d] \/ channels' = [channels EXCEPT ![t] = b]
    BY <1>8 DEF BatchTimer
  <2>2. /\ b.outcome = e.outcome /\ b.queuedCallIds = e.queuedCallIds
        /\ d.outcome = e.outcome /\ d.queuedCallIds = {}
    BY <1>0 DEF Channel, QueueTaken
  <2> HIDE DEF b, d
  <2>3. Moves(Fates(e), Fates(b)) /\ Moves(Fates(e), Fates(d))
    BY <1>0, <2>2, SameFates, TakenFates DEF Moves
  <2> QED BY <2>1, <2>3, ReplaceAbstract
<1>9. ASSUME NEW x \in Calls, CompleteTool(t, x) PROVE Abstract!Next
  <2> DEFINE I == c.invocations \ {x}
             D == c.deliveredCallIds \ {x}
             O == [c.outcome EXCEPT ![x] = "result"]
             d == [c EXCEPT !.invocations = I, !.deliveredCallIds = D, !.outcome = O]
  <2>1. Live(c) /\ x \in c.invocations \cap c.deliveredCallIds /\ Serve(t, d)
    BY <1>9 DEF CompleteTool
  <2>2. d.outcome = O /\ d.queuedCallIds = c.queuedCallIds
    BY <1>0 DEF Channel
  <2> HIDE DEF d
  <2>3. Moves(Fates(c), Fates(d))
    BY <1>0, <2>1, <2>2, CompletedFates
  <2> QED BY <2>1, <2>3, ServeAbstract DEF Served
<1>10. ASSUME NEW revision, CommitCompletionFence(t, revision) PROVE Abstract!Next
  <2> DEFINE d == [c EXCEPT !.completionCommitted = TRUE, !.completionRevision = revision]
  <2>1. Serve(t, d)
    BY <1>10 DEF CommitCompletionFence
  <2>2. d.outcome = c.outcome /\ d.queuedCallIds = c.queuedCallIds
    BY <1>0 DEF Channel
  <2> HIDE DEF d
  <2> QED BY <2>1, <2>2, SameServed
<1>11. CASE RequestCompaction(t)
  <2> DEFINE X == c.queuedCallIds \cap c.invocations
             O == [x \in Calls |-> IF x \in X THEN "compacted" ELSE c.outcome[x]]
             I == c.invocations \ c.queuedCallIds
             N == c.compactionDeliveryCount + Cardinality(X)
             d == [c EXCEPT !.compactionRequested = TRUE, !.batchTimer = FALSE, !.outcome = O,
                            !.compactionDeliveryCount = N, !.invocations = I,
                            !.queuedCallIds = {}]
  <2>1. Live(c) /\ Serve(t, d)
    BY <1>11 DEF RequestCompaction
  <2>2. d.outcome = O /\ d.queuedCallIds = {}
    BY <1>0 DEF Channel
  <2> HIDE DEF d
  <2>3. Moves(Fates(c), Fates(d))
    BY <1>0, <2>2, CompactionFates
  <2> QED BY <2>1, <2>3, ServeAbstract DEF Served
<1> QED
  BY <1>1, <1>2, <1>3, <1>4, <1>5, <1>6, <1>7, <1>8, <1>9, <1>10, <1>11 DEF OwnerStep

\* Activation, an accepted answer, a claim and a settled activity leave every call alone.
LEMMA CallsUntouched ==
  ASSUME NEW e \in Channel, NEW y, NEW a,
         NEW d \in {Activated(e), Answered(e, y), Claimed(e, a), ActivitySettled(e, a)}
  PROVE  d.outcome = e.outcome /\ d.queuedCallIds = e.queuedCallIds
<1>1. CASE d = Activated(e)
  BY <1>1 DEF Activated, Channel
<1>2. CASE d = Answered(e, y)
  BY <1>2 DEF Answered, Channel
<1>3. CASE d = Claimed(e, a)
  BY <1>3 DEF Claimed, Channel
<1>4. CASE d = ActivitySettled(e, a)
  BY <1>4 DEF ActivitySettled, Channel
<1> QED BY <1>1, <1>2, <1>3, <1>4

\* Every Zero Risk call leaves the tool calls alone.
LEMMA SafeStepAbstract == ASSUME IInv, NEW t \in Tokens, SafeStep(t) PROVE Abstract!Next
<1> DEFINE c == Pruned[t]
<1>0. OK(c) /\ c \in Channel
  BY PrunedOK DEF OK
<1>1. CASE StartSafeTurn(t)
  <2> DEFINE e == [c EXCEPT !.connectorStarted = TRUE]
  <2>1. Serve(t, Activated(e))
    BY <1>1 DEF StartSafeTurn
  <2>2. e \in Channel /\ e.outcome = c.outcome /\ e.queuedCallIds = c.queuedCallIds
    BY <1>0 DEF Channel
  <2> HIDE DEF e
  <2> QED BY <2>1, <2>2, CallsUntouched, SameServed
<1>2. CASE ConfirmSafeTurnSent(t)
  <2> DEFINE A == c.resumedClaims \cup c.sentClaims
             Y == c.resumedAnswers \cup c.sentAnswers
             e == [c EXCEPT !.launcherSent = TRUE, !.resumedClaims = A, !.sentClaims = {},
                            !.resumedAnswers = Y, !.sentAnswers = {}]
  <2>1. Serve(t, Activated(e))
    BY <1>2 DEF ConfirmSafeTurnSent
  <2>2. A \in SUBSET Activities /\ Y \in SUBSET Answers
    BY <1>0 DEF Channel
  <2> HIDE DEF c, A, Y
  <2>3. e \in Channel /\ e.outcome = c.outcome /\ e.queuedCallIds = c.queuedCallIds
    BY <1>0, <2>2 DEF Channel
  <2> HIDE DEF e
  <2> QED BY <2>1, <2>3, CallsUntouched, SameServed DEF c
<1>3. CASE WaitForSafeCompletion(t)
  <2> DEFINE O == c.observers \cup {"completion"}
             d == [c EXCEPT !.observers = O]
  <2>1. Serve(t, d)
    BY <1>3 DEF WaitForSafeCompletion
  <2>2. d.outcome = c.outcome /\ d.queuedCallIds = c.queuedCallIds
    BY <1>0 DEF Channel
  <2> HIDE DEF d
  <2> QED BY <2>1, <2>2, SameServed
<1>4. ASSUME NEW y \in Answers, CompleteSafeTurn(t, y) PROVE Abstract!Next
  <2> DEFINE Y == c.sentAnswers \cup {y}
             d == [c EXCEPT !.sentAnswers = Y]
  <2>1. Serve(t, d) \/ Serve(t, Answered(c, y))
    BY <1>4 DEF CompleteSafeTurn
  <2>2. d.outcome = c.outcome /\ d.queuedCallIds = c.queuedCallIds
    BY <1>0 DEF Channel
  <2> HIDE DEF d
  <2> QED BY <1>0, <2>1, <2>2, CallsUntouched, SameServed
<1>5. ASSUME NEW y \in Answers, ResumeSafeAnswer(t, y) PROVE Abstract!Next
  <2> DEFINE R == c.resumedAnswers \ {y}
             d == [c EXCEPT !.resumedAnswers = R]
  <2>1. Serve(t, d) \/ Serve(t, Answered(d, y))
    BY <1>5 DEF ResumeSafeAnswer
  <2>2. R \in SUBSET Answers
    BY <1>0 DEF Channel
  <2> HIDE DEF c, R
  <2>3. d \in Channel /\ d.outcome = c.outcome /\ d.queuedCallIds = c.queuedCallIds
    BY <1>0, <2>2 DEF Channel
  <2> HIDE DEF d
  <2> QED BY <2>1, <2>3, CallsUntouched, SameServed DEF c
<1> QED BY <1>1, <1>2, <1>3, <1>4, <1>5 DEF SafeStep

\* Every request of the MCP process is an abstract step.
LEMMA McpStepAbstract == ASSUME IInv, NEW t \in Tokens, McpStep(t) PROVE Abstract!Next
<1> DEFINE c == Pruned[t]
<1>0. OK(c) /\ c \in Channel /\ OK(channels[t]) /\ channels[t] \in Channel
  BY PrunedOK DEF OK
<1>1. ASSUME NEW a \in Activities, Claim(t, a) PROVE Abstract!Next
  <2> DEFINE A == c.sentClaims \cup {a}
             d == [c EXCEPT !.sentClaims = A]
  <2>1. Serve(t, d) \/ Serve(t, Claimed(c, a))
    BY <1>1 DEF Claim
  <2>2. d.outcome = c.outcome /\ d.queuedCallIds = c.queuedCallIds
    BY <1>0 DEF Channel
  <2> HIDE DEF d
  <2> QED BY <1>0, <2>1, <2>2, CallsUntouched, SameServed
<1>2. ASSUME NEW a \in Activities, ResumeClaim(t, a) PROVE Abstract!Next
  <2> DEFINE R == c.resumedClaims \ {a}
             d == [c EXCEPT !.resumedClaims = R]
  <2>1. Serve(t, d) \/ Serve(t, Claimed(d, a))
    BY <1>2 DEF ResumeClaim
  <2>2. R \in SUBSET Activities
    BY <1>0 DEF Channel
  <2> HIDE DEF c, R
  <2>3. d \in Channel /\ d.outcome = c.outcome /\ d.queuedCallIds = c.queuedCallIds
    BY <1>0, <2>2 DEF Channel
  <2> HIDE DEF d
  <2> QED BY <2>1, <2>3, CallsUntouched, SameServed DEF c
<1>3. ASSUME NEW a \in Activities, ActivityComplete(t, a) PROVE Abstract!Next
  <2>1. Serve(t, ActivitySettled(c, a))
    BY <1>3 DEF ActivityComplete
  <2> QED BY <1>0, <2>1, CallsUntouched, SameServed
<1>4. CASE AbortSentWait(t)
  <2> DEFINE e == channels[t]
  <2>1. ASSUME NEW A, NEW Y,
               channels' = [channels EXCEPT ![t] =
                              [e EXCEPT !.sentClaims = A, !.sentAnswers = Y]]
        PROVE  Abstract!Next
    <3> DEFINE d == [e EXCEPT !.sentClaims = A, !.sentAnswers = Y]
    <3>1. d.outcome = e.outcome /\ d.queuedCallIds = e.queuedCallIds
      BY <1>0 DEF Channel
    <3>2. channels' = [channels EXCEPT ![t] = d]
      BY <2>1
    <3> HIDE DEF d
    <3> QED BY <3>1, <3>2, SameFates, ReplaceAbstract DEF Moves
  <2>2. ASSUME NEW a, channels' = [channels EXCEPT ![t].sentClaims = @ \ {a}]
        PROVE  Abstract!Next
    <3>1. channels' = [channels EXCEPT ![t] = [e EXCEPT !.sentClaims = e.sentClaims \ {a},
                                                        !.sentAnswers = e.sentAnswers]]
      BY <1>0, <2>2 DEF IInv, TypeOK, Channel
    <3> QED BY <2>1, <3>1
  <2>3. ASSUME NEW y, channels' = [channels EXCEPT ![t].sentAnswers = @ \ {y}]
        PROVE  Abstract!Next
    <3>1. channels' = [channels EXCEPT ![t] = [e EXCEPT !.sentClaims = e.sentClaims,
                                                        !.sentAnswers = e.sentAnswers \ {y}]]
      BY <1>0, <2>3 DEF IInv, TypeOK, Channel
    <3> QED BY <2>1, <3>1
  <2> QED BY <1>4, <2>2, <2>3 DEF AbortSentWait
<1>5. CASE Release(t)
  BY <1>5, ReleaseAbstract
<1>6. ASSUME NEW x \in Calls, Invoke(t, x), c.compactionRequested PROVE Abstract!Next
  <2> DEFINE O == [c.outcome EXCEPT ![x] = "compacted"]
             N == c.compactionDeliveryCount + 1
             d == [c EXCEPT !.outcome = O, !.compactionDeliveryCount = N]
  <2>1. Live(c) /\ Serve(t, d) /\ c.outcome[x] = "none"
    BY <1>6 DEF Invoke
  <2>2. d.outcome = O /\ d.queuedCallIds = c.queuedCallIds
    BY <1>0 DEF Channel
  <2> HIDE DEF d
  <2>3. Moves(Fates(c), Fates(d))
    BY <1>0, <2>1, <2>2, InvokedFates
  <2> QED BY <2>1, <2>3, ServeAbstract DEF Served
<1>7. ASSUME NEW x \in Calls, Invoke(t, x), ~c.compactionRequested PROVE Abstract!Next
  <2> DEFINE O == [c.outcome EXCEPT ![x] = "pending"]
             I == c.invocations \cup {x}
             Q == c.queuedCallIds \cup {x}
             e == [c EXCEPT !.outcome = O, !.invocations = I, !.queuedCallIds = Q]
             d == Scheduled(e)
  <2>1. Live(c) /\ Serve(t, d) /\ c.outcome[x] = "none"
    BY <1>7 DEF Invoke
  <2>2. e.outcome = O /\ e.queuedCallIds = Q
    BY <1>0 DEF Channel
  <2>3. d.outcome = O /\ d.queuedCallIds = Q
    <3>1. [e EXCEPT !.batchTimer = TRUE].outcome = O
          /\ [e EXCEPT !.batchTimer = TRUE].queuedCallIds = Q
      BY <1>0 DEF Channel
    <3> HIDE DEF e
    <3> QED BY <2>2, <3>1 DEF Scheduled
  <2> HIDE DEF d
  <2>4. Moves(Fates(c), Fates(d))
    BY <1>0, <2>1, <2>3, InvokedFates
  <2> QED BY <2>1, <2>4, ServeAbstract DEF Served
<1> QED BY <1>1, <1>2, <1>3, <1>4, <1>5, <1>6, <1>7 DEF McpStep

\* Every step of the broker is an abstract step.
LEMMA NextAbstract == ASSUME IInv, Next PROVE Abstract!Next
<1>1. ASSUME NEW t \in Tokens, ClockPasses(t) PROVE Abstract!Next
  <2> DEFINE e == channels[t]
             d == [e EXCEPT !.ttl = "lapsed"]
  <2>1. channels' = [channels EXCEPT ![t] = d] /\ e \in Channel
    BY <1>1, PrunedOK DEF ClockPasses, OK
  <2>2. d.outcome = e.outcome /\ d.queuedCallIds = e.queuedCallIds
    BY <2>1 DEF Channel
  <2> HIDE DEF d
  <2> QED BY <2>1, <2>2, SameFates, ReplaceAbstract DEF Moves
<1>2. CASE Prune
  <2> DEFINE gone == {u \in Tokens : Expired(channels[u])}
  <2>1. \A u \in Tokens : Fates(channels'[u]) =
          IF u \in gone THEN Abstract!Rejected(Fates(channels[u])) ELSE Fates(channels[u])
    BY <1>2, PrunedOK, RevokedFates DEF Prune, Pruned
  <2> QED BY <2>1, AbstractGone
<1>3. CASE RevokeExternalOwners
  BY <1>3, RevokeAllAbstract DEF RevokeExternalOwners
<1>4. CASE Close
  BY <1>4, RevokeAllAbstract DEF Close
<1>5. ASSUME NEW trace \in Traces, RevokeTrace(trace) PROVE Abstract!Next
  BY <1>5, RevokeAllAbstract DEF RevokeTrace
<1>6. ASSUME NEW accepted \in BOOLEAN, SetExternalOwnersAccepted(accepted) PROVE Abstract!Next
  <2> DEFINE gone == {u \in Tokens : FALSE}
  <2>1. \A u \in Tokens : Fates(channels'[u]) =
          IF u \in gone THEN Abstract!Rejected(Fates(channels[u])) ELSE Fates(channels[u])
    BY <1>6 DEF SetExternalOwnersAccepted
  <2> HIDE DEF gone
  <2>2. gone \in SUBSET Tokens
    BY DEF gone
  <2> QED BY <2>1, <2>2, AbstractGone
<1> QED
  BY <1>1, <1>2, <1>3, <1>4, <1>5, <1>6, OwnerStepAbstract, SafeStepAbstract, McpStepAbstract
  DEF Next, RuntimeStep

\* The broker keeps the promise about tool calls for every number of turns and calls: handed out
\* in whole batches, answered by the owner only then, settled once (ImplementsToolCalls).
THEOREM BrokerImplementsToolCalls == Spec => ImplementsToolCalls
<1> DEFINE st == [t \in Tokens |-> [x \in Calls |-> CallStatus(channels[t], x)]]
<1>1. Init => Abstract!Init
  <2>1. \A tr, x : x \in Calls => CallStatus(Unregistered(tr), x) = "none"
    BY DEF CallStatus, Unregistered
  <2> QED BY <2>1 DEF Init, Abstract!Init
<1>2. IInv /\ [Next]_vars => [Abstract!Next]_st
  BY NextAbstract DEF vars
<1> QED BY <1>1, <1>2, BrokerInvariant, PTL DEF Spec, ImplementsToolCalls, Abstract!Spec
=============================================================================
