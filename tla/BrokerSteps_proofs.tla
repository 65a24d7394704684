--------------------------- MODULE BrokerSteps_proofs ---------------------------
(***************************************************************************)
(* What a step of the broker does to a turn that stays live: it keeps the  *)
(* completion and the deadline, it never brings a turn back, and it counts *)
(* what the compaction notice answered.  Each handler is shown to leave    *)
(* its channel as one that Follows the one it found; registration is the   *)
(* only step that makes a channel live.                                    *)
(***************************************************************************)
EXTENDS TurnBroker_proofs

USE DEF Live

Follows(c, d) ==
  Live(d) => /\ Live(c)
             /\ d.external = c.external
             /\ CompletionKept(c, d)
             /\ DeadlineStays(c, d)
             /\ CompactionCounted(c) => CompactionCounted(d)

\* The registration was admitted by this step.
Born(c, d, accepting) ==
  /\ c.phase = "registering"
  /\ d.external => accepting
  /\ CompactionCounted(d)

\* What a step may make of any channel.
Lives(c, d, accepting) == Follows(c, d) \/ Born(c, d, accepting)

-----------------------------------------------------------------------------
(***************************************************************************)
(* Each way a handler rewrites a channel.                                  *)
(***************************************************************************)

\* A channel whose ledger and completion are untouched follows the one it was made from.
LEMMA UntouchedFollows ==
  ASSUME NEW c, NEW d, d.phase = c.phase, d.external = c.external, d.safe = c.safe,
         d.ttl # "none" \/ d.ttl = c.ttl, d.finalAnswer = c.finalAnswer,
         d.completionCommitted = c.completionCommitted,
         d.completionRevision = c.completionRevision,
         d.outcome = c.outcome, d.compactionDeliveryCount = c.compactionDeliveryCount
  PROVE  Follows(c, d)
  BY DEF Follows, CompletionKept, DeadlineStays, CompactionCounted, Compacted

\* A revoked channel is not live.
LEMMA RevokedFollows == ASSUME NEW c, NEW e PROVE Follows(c, Revoked(e))
  BY DEF Follows, Revoked, Remains, Unregistered

\* The activation of a Zero Risk turn is the one event that ends its setup deadline.
LEMMA ActivatedFollows ==
  ASSUME NEW c \in Channel, NEW e \in Channel, Follows(c, e), e.safe = c.safe
  PROVE  Follows(c, Activated(e))
<1>1. CASE e.safe = "awaiting_start" /\ e.launcherSent /\ e.connectorStarted
  <2> DEFINE P == e.resumedPolls \cup e.startWaiters
             d == [e EXCEPT !.safe = "running", !.ttl = "none", !.resumedPolls = P,
                            !.startWaiters = {}]
  <2>1. Activated(e) = d
    BY <1>1 DEF Activated
  <2>2. /\ d.phase = e.phase /\ d.external = e.external /\ d.safe = "running"
        /\ d.completionCommitted = e.completionCommitted
        /\ d.completionRevision = e.completionRevision
        /\ d.outcome = e.outcome /\ d.compactionDeliveryCount = e.compactionDeliveryCount
    BY DEF Channel
  <2> HIDE DEF d
  <2>3. Follows(c, d)
    BY <1>1, <2>2 DEF Follows, CompletionKept, DeadlineStays, CompactionCounted, Compacted
  <2> QED BY <2>1, <2>3
<1>2. CASE ~(e.safe = "awaiting_start" /\ e.launcherSent /\ e.connectorStarted)
  BY <1>2 DEF Activated
<1> QED BY <1>1, <1>2

\* An accepted answer is the first one.
LEMMA AnsweredFollows ==
  ASSUME NEW c \in Channel, NEW e \in Channel, Follows(c, e), e.safe = c.safe,
         AnswerAllowed(e), NEW y
  PROVE  Follows(c, Answered(e, y))
<1> DEFINE O == e.observers \ {"completion"}
           d == [e EXCEPT !.safe = "completed", !.finalAnswer = y, !.observers = O]
<1> HIDE DEF O
<1>1. /\ d.phase = e.phase /\ d.external = e.external /\ d.ttl = e.ttl
      /\ d.completionCommitted = e.completionCommitted
      /\ d.completionRevision = e.completionRevision
      /\ d.outcome = e.outcome /\ d.compactionDeliveryCount = e.compactionDeliveryCount
  BY DEF Channel
<1>2. Answered(e, y) = d
  BY DEF Answered, O
<1>3. c.safe = "running"
  BY DEF AnswerAllowed
<1> HIDE DEF d
<1>4. Follows(c, d)
  BY <1>1, <1>3 DEF Follows, CompletionKept, DeadlineStays, CompactionCounted, Compacted
<1> QED BY <1>2, <1>4

\* The queue, the batches and the polls leave every outcome as it is.
LEMMA PolledFollows ==
  ASSUME NEW c \in Channel, NEW e \in Channel, Follows(c, e), e.ttl = c.ttl, e.safe = c.safe,
         NEW p
  PROVE  Follows(c, Polled(e, p))
<1> DEFINE D == e.deliveredCallIds \cup (e.queuedCallIds \cap e.invocations)
           W == e.waiters \cup {p}
           q == [e EXCEPT !.deliveredCallIds = D, !.queuedCallIds = {}]
           w == [e EXCEPT !.waiters = W]
<1> HIDE DEF D, W
<1>1. Follows(c, q)
  BY DEF Follows, CompletionKept, DeadlineStays, CompactionCounted, Compacted, Channel
<1>2. Follows(c, w)
  BY DEF Follows, CompletionKept, DeadlineStays, CompactionCounted, Compacted, Channel
<1>3. QueueTaken(e) = q
  BY DEF QueueTaken, D
<1> QED BY <1>1, <1>2, <1>3 DEF Polled, W

\* Claims and settled activities leave the ledger and the completion as they are.
LEMMA ClaimedFollows ==
  ASSUME NEW c \in Channel, NEW e \in Channel, Follows(c, e), NEW a
  PROVE  Follows(c, Claimed(e, a)) /\ Follows(c, ActivitySettled(e, a))
<1> DEFINE A == e.activities \cup {a}
           R == IF a \in e.activities THEN e.activityRevision ELSE e.activityRevision + 1
           B == e.activities \ {a}
           T == e.completedActivities \cup {a}
           S == e.activityRevision + 1
           d == [e EXCEPT !.activities = A, !.activityRevision = R, !.bound = TRUE]
           f == [e EXCEPT !.activities = B, !.completedActivities = T, !.activityRevision = S]
<1>0. Claimed(e, a) = d
  BY DEF Claimed, Channel
<1>1. ActivitySettled(e, a) = e \/ ActivitySettled(e, a) = f
  BY DEF ActivitySettled, Channel
<1> HIDE DEF A, R, B, T, S
<1>2. Follows(c, d) /\ Follows(c, f)
  BY DEF Follows, CompletionKept, DeadlineStays, CompactionCounted, Compacted, Channel
<1> QED BY <1>0, <1>1, <1>2

(***************************************************************************)
(* What the compaction notice answered is counted.                         *)
(***************************************************************************)

\* An outcome other than "compacted", given to a call that has no such outcome, counts nothing.
LEMMA OtherOutcomeFollows ==
  ASSUME NEW c \in Channel, NEW O \in [Calls -> Outcomes], NEW I, NEW Q, NEW D, NEW B,
         \A y \in Calls : O[y] = "compacted" <=> c.outcome[y] = "compacted"
  PROVE  Follows(c, [c EXCEPT !.outcome = O, !.invocations = I, !.queuedCallIds = Q,
                              !.deliveredCallIds = D, !.batchTimer = B])
<1> DEFINE d == [c EXCEPT !.outcome = O, !.invocations = I, !.queuedCallIds = Q,
                          !.deliveredCallIds = D, !.batchTimer = B]
<1>1. /\ d.phase = c.phase /\ d.external = c.external /\ d.safe = c.safe /\ d.ttl = c.ttl
      /\ d.finalAnswer = c.finalAnswer /\ d.completionCommitted = c.completionCommitted
      /\ d.completionRevision = c.completionRevision /\ d.outcome = O
      /\ d.compactionDeliveryCount = c.compactionDeliveryCount
  BY DEF Channel
<1> HIDE DEF d
<1>2. Compacted(d) = Compacted(c)
  BY <1>1 DEF Compacted
<1>3. Follows(c, d)
  BY <1>1, <1>2 DEF Follows, CompletionKept, DeadlineStays, CompactionCounted
<1> QED BY <1>3 DEF d

\* The notice counts exactly the calls it answers, which it had not answered before.
LEMMA CompactedFollows ==
  ASSUME NEW c \in Channel, NEW X \in SUBSET Calls,
         \A y \in X : c.outcome[y] # "compacted",
         NEW O \in [Calls -> Outcomes],
         \A y \in Calls : O[y] = "compacted" <=> y \in X \/ c.outcome[y] = "compacted",
         NEW d, d.phase = c.phase, d.external = c.external, d.safe = c.safe, d.ttl = c.ttl,
         d.finalAnswer = c.finalAnswer, d.completionCommitted = c.completionCommitted,
         d.completionRevision = c.completionRevision, d.outcome = O,
         d.compactionDeliveryCount = c.compactionDeliveryCount + Cardinality(X)
  PROVE  Follows(c, d)
<1>1. Compacted(d) = Compacted(c) \cup X /\ Compacted(c) \cap X = {}
  BY DEF Compacted
<1>2. IsFiniteSet(Compacted(c)) /\ IsFiniteSet(X)
  BY CallsAssumption, FS_Subset DEF Compacted
<1>3. /\ Cardinality(Compacted(c)) \in Nat /\ Cardinality(X) \in Nat
      /\ Cardinality(Compacted(c) \cap X) = 0
  BY <1>1, <1>2, FS_CardinalityType, FS_EmptySet
<1>4. Cardinality(Compacted(d)) = Cardinality(Compacted(c)) + Cardinality(X)
  <2>1. Cardinality(Compacted(c) \cup X)
          = Cardinality(Compacted(c)) + Cardinality(X) - Cardinality(Compacted(c) \cap X)
    BY <1>2, FS_Union
  <2> QED BY <2>1, <1>1, <1>3
<1>5. CompactionCounted(c) => CompactionCounted(d)
  BY <1>4 DEF CompactionCounted
<1> QED BY <1>5 DEF Follows, CompletionKept, DeadlineStays

-----------------------------------------------------------------------------
(***************************************************************************)
(* The handlers.                                                           *)
(***************************************************************************)
AllLive == \A u \in Tokens : Lives(channels[u], channels'[u], acceptingExternalOwners)

\* A channel that is left alone, or revoked, follows itself.
LEMMA SelfFollows == ASSUME NEW c PROVE Follows(c, c)
  BY DEF Follows, CompletionKept, DeadlineStays

\* prune keeps a channel as it is or takes it out of the map.
LEMMA PrunedFollows ==
  ASSUME NEW u \in Tokens, NEW d, Lives(Pruned[u], d, acceptingExternalOwners)
  PROVE  Lives(channels[u], d, acceptingExternalOwners)
<1>1. CASE Expired(channels[u])
  <2>1. Pruned[u] = Revoked(channels[u])
    BY <1>1 DEF Pruned
  <2>2. Pruned[u].phase = "retired"
    BY <2>1 DEF Revoked, Remains, Unregistered
  <2> QED BY <2>2 DEF Lives, Follows, Born
<1>2. CASE ~Expired(channels[u])
  BY <1>2 DEF Pruned
<1> QED BY <1>1, <1>2

\* A pruning handler that leaves its own channel right leaves all of them right.
LEMMA ServeFollows ==
  ASSUME IInv, NEW t \in Tokens, NEW c, Serve(t, c),
         Lives(Pruned[t], c, acceptingExternalOwners)
  PROVE  AllLive
<1>1. \A u \in Tokens : channels'[u] = IF u = t THEN c ELSE Pruned[u]
  BY PrunedOK DEF Serve
<1>2. \A u \in Tokens : Lives(Pruned[u], Pruned[u], acceptingExternalOwners)
  BY SelfFollows DEF Lives
<1> QED BY <1>1, <1>2, PrunedFollows DEF AllLive

\* So does a handler that does not prune.
LEMMA ReplaceFollows ==
  ASSUME IInv, NEW t \in Tokens, NEW c, channels' = [channels EXCEPT ![t] = c],
         Follows(channels[t], c)
  PROVE  AllLive
<1>1. \A u \in Tokens : channels'[u] = IF u = t THEN c ELSE channels[u]
  BY DEF IInv, TypeOK
<1> QED BY <1>1, SelfFollows DEF AllLive, Lives

\* Revoking turns brings none back.
LEMMA RevokeAllFollows == ASSUME NEW ts, RevokeAll(ts) PROVE AllLive
  BY RevokedFollows, SelfFollows DEF RevokeAll, AllLive, Lives

\* A request makes no turn live; an external one that goes on while the runtime drains makes none
\* either, and a turn that is new answered nothing yet.
LEMMA RegisterFollows ==
  ASSUME IInv, NEW t \in Tokens, NEW safe \in Contracts, NEW ttl \in Deadlines,
         NEW external \in BOOLEAN, Register(t, safe, ttl, external)
  PROVE  AllLive
<1> DEFINE c == Pruned[t]
           d == Registered(c.trace, safe, ttl, external)
           e == Unregistered(c.trace)
<1>1. CASE RequestRegistration(t, external)
  <2> DEFINE r == [channels[t] EXCEPT !.phase = "registering", !.external = external]
  <2>1. /\ Pruned[t] = channels[t]
        /\ Serve(t, r) \/ channels' = [channels EXCEPT ![t] = r]
    BY <1>1, RequestedServes
  <2>2. ~Live(r)
    BY PrunedOK DEF OK, Channel
  <2> HIDE DEF r
  <2>3. Follows(channels[t], r)
    BY <2>2 DEF Follows
  <2> QED BY <2>1, <2>3, ServeFollows, ReplaceFollows DEF Lives
<1>2. CASE /\ c.phase = "registering"
           /\ Serve(t, IF Admitted(external) THEN d ELSE e)
  <2>1. d.external = external /\ d.compactionDeliveryCount = 0 /\ Compacted(d) = {}
    BY DEF Registered, Unregistered, Compacted
  <2>2. ~Live(e)
    BY DEF Unregistered
  <2>3. c.phase = "registering" /\ Serve(t, IF Admitted(external) THEN d ELSE e)
    BY <1>2
  <2> HIDE DEF c, d, e
  <2>4. CompactionCounted(d)
    BY <2>1, FS_EmptySet DEF CompactionCounted
  <2>5. Lives(c, IF Admitted(external) THEN d ELSE e, acceptingExternalOwners)
    BY <2>1, <2>2, <2>3, <2>4 DEF Lives, Born, Follows, Admitted
  <2> QED BY <2>3, <2>5, ServeFollows DEF c
<1> QED BY <1>1, <1>2 DEF Register

\* No call of the owner takes a completion back, moves a deadline or brings a turn back.
LEMMA OwnerStepFollows == ASSUME IInv, NEW t \in Tokens, OwnerStep(t) PROVE AllLive
<1> USE DEF Lives
<1> DEFINE c == Pruned[t]
<1>0. OK(c) /\ c \in Channel /\ OK(channels[t]) /\ channels[t] \in Channel
  BY PrunedOK DEF OK
<1>1. ASSUME NEW safe \in Contracts, NEW ttl \in Deadlines, NEW external \in BOOLEAN,
             Register(t, safe, ttl, external)
      PROVE  AllLive
  BY <1>1, RegisterFollows
<1>2. CASE UpdateEnvironment(t)
  BY <1>2, SelfFollows, ServeFollows DEF UpdateEnvironment
<1>3. CASE Revoke(t)
  BY <1>3, RevokeAllFollows DEF Revoke
<1>4. CASE WaitForRetirement(t)
  <2> DEFINE O == c.observers \cup {"retirement"}
             d == [c EXCEPT !.observers = O]
  <2>1. Serve(t, d)
    BY <1>4 DEF WaitForRetirement
  <2> HIDE DEF c, O
  <2>2. Follows(c, d)
    BY <1>0, UntouchedFollows DEF Channel
  <2> QED BY <2>1, <2>2, ServeFollows DEF c
<1>5. ASSUME NEW p \in Polls, PollTools(t, p) PROVE AllLive
  <2> DEFINE S == c.startWaiters \cup {p}
             d == [c EXCEPT !.startWaiters = S]
  <2>1. Serve(t, d) \/ Serve(t, Polled(c, p))
    BY <1>5 DEF PollTools
  <2> HIDE DEF c, S
  <2>2. Follows(c, d)
    BY <1>0, UntouchedFollows DEF Channel
  <2>3. Follows(c, Polled(c, p))
    BY <1>0, SelfFollows, PolledFollows
  <2> QED BY <2>1, <2>2, <2>3, ServeFollows DEF c
<1>6. ASSUME NEW p \in Polls, ResumePoll(t, p) PROVE AllLive
  <2> DEFINE R == c.resumedPolls \ {p}
             d == [c EXCEPT !.resumedPolls = R]
  <2>1. Serve(t, d) \/ Serve(t, Polled(d, p))
    BY <1>6 DEF ResumePoll
  <2>2. R \in SUBSET Polls
    BY <1>0 DEF Channel
  <2> HIDE DEF c, R
  <2>3. d \in Channel /\ d.ttl = c.ttl /\ d.safe = c.safe
    BY <1>0, <2>2 DEF Channel
  <2>4. Follows(c, d)
    BY <1>0, UntouchedFollows DEF Channel
  <2> HIDE DEF d
  <2>5. Follows(c, Polled(d, p))
    BY <1>0, <2>3, <2>4, PolledFollows
  <2> QED BY <2>1, <2>4, <2>5, ServeFollows DEF c
<1>7. ASSUME NEW p \in Polls, AbortPoll(t, p) PROVE AllLive
  <2> DEFINE e == channels[t]
             S == e.startWaiters \ {p}
             W == e.waiters \ {p}
             d == [e EXCEPT !.startWaiters = S, !.waiters = W]
  <2>1. channels' = [channels EXCEPT ![t] = d]
    BY <1>7 DEF AbortPoll, IInv, TypeOK
  <2>2. e \in Channel
    BY <1>0
  <2> HIDE DEF e, S, W
  <2>3. Follows(e, d)
    BY <2>2 DEF Channel, Follows, CompletionKept, DeadlineStays, CompactionCounted, Compacted
  <2> QED BY <2>1, <2>3, ReplaceFollows DEF e
<1>8. CASE BatchTimer(t)
  <2> DEFINE e == channels[t]
             D == e.deliveredCallIds \cup (e.queuedCallIds \cap e.invocations)
             b == [e EXCEPT !.batchTimer = FALSE]
             d == [e EXCEPT !.batchTimer = FALSE, !.deliveredCallIds = D, !.queuedCallIds = {},
                            !.waiters = {}]
  <2>1. channels' = [channels EXCEPT ![t] = d] \/ channels' = [channels EXCEPT ![t] = b]
    <3>1. [QueueTaken(b) EXCEPT !.waiters = {}] = d
      BY <1>0 DEF QueueTaken, Channel
    <3> QED BY <1>8, <3>1 DEF BatchTimer
  <2>2. e \in Channel
    BY <1>0
  <2> HIDE DEF D, e
  <2>3. Follows(e, d) /\ Follows(e, b)
    BY <2>2 DEF Channel, Follows, CompletionKept, DeadlineStays, CompactionCounted, Compacted
  <2> HIDE DEF d, b
  <2> QED BY <2>1, <2>3, ReplaceFollows DEF e
<1>9. ASSUME NEW x \in Calls, CompleteTool(t, x) PROVE AllLive
  <2> DEFINE I == c.invocations \ {x}
             D == c.deliveredCallIds \ {x}
             O == [c.outcome EXCEPT ![x] = "result"]
             d == [c EXCEPT !.outcome = O, !.invocations = I, !.queuedCallIds = c.queuedCallIds,
                            !.deliveredCallIds = D, !.batchTimer = c.batchTimer]
  <2>1. Serve(t, d)
    <3>1. Serve(t, [c EXCEPT !.invocations = I, !.deliveredCallIds = D, !.outcome = O])
      BY <1>9 DEF CompleteTool
    <3>2. [c EXCEPT !.invocations = I, !.deliveredCallIds = D, !.outcome = O] = d
      BY <1>0 DEF Channel
    <3> QED BY <3>1, <3>2
  <2>2. O \in [Calls -> Outcomes]
    BY <1>0 DEF Channel, Outcomes
  <2>3. c.outcome[x] = "pending"
    BY <1>0, <1>9 DEF CompleteTool, OK, ChannelOK, CallsAccounted
  <2>4. \A y \in Calls : O[y] = "compacted" <=> c.outcome[y] = "compacted"
    BY <1>0, <2>3 DEF Channel
  <2> HIDE DEF c, I, D, O
  <2>5. Follows(c, d)
    BY <1>0, <2>2, <2>4, OtherOutcomeFollows
  <2> QED BY <2>1, <2>5, ServeFollows DEF c
<1>10. ASSUME NEW revision, CommitCompletionFence(t, revision) PROVE AllLive
  <2> DEFINE d == [c EXCEPT !.completionCommitted = TRUE, !.completionRevision = revision]
  <2>1. Serve(t, d) /\ ~c.completionCommitted
    BY <1>10 DEF CommitCompletionFence
  <2> HIDE DEF c
  <2>2. Follows(c, d)
    BY <1>0, <2>1 DEF Channel, Follows, CompletionKept, DeadlineStays, CompactionCounted, Compacted
  <2> QED BY <2>1, <2>2, ServeFollows DEF c
<1>11. CASE RequestCompaction(t)
  <2> DEFINE X == c.queuedCallIds \cap c.invocations
             O == [x \in Calls |-> IF x \in X THEN "compacted" ELSE c.outcome[x]]
             I == c.invocations \ c.queuedCallIds
             N == c.compactionDeliveryCount + Cardinality(X)
             d == [c EXCEPT !.compactionRequested = TRUE, !.batchTimer = FALSE, !.outcome = O,
                            !.compactionDeliveryCount = N, !.invocations = I,
                            !.queuedCallIds = {}]
  <2>1. Serve(t, d)
    BY <1>11 DEF RequestCompaction
  <2>2. /\ X \in SUBSET Calls /\ O \in [Calls -> Outcomes]
        /\ \A y \in X : c.outcome[y] # "compacted"
        /\ \A y \in Calls : O[y] = "compacted" <=> y \in X \/ c.outcome[y] = "compacted"
    BY <1>0 DEF OK, ChannelOK, CallsAccounted, Channel, Outcomes
  <2> HIDE DEF c, X, O, I
  <2>3. /\ d.phase = c.phase /\ d.external = c.external /\ d.safe = c.safe /\ d.ttl = c.ttl
        /\ d.finalAnswer = c.finalAnswer /\ d.completionCommitted = c.completionCommitted
        /\ d.completionRevision = c.completionRevision /\ d.outcome = O
        /\ d.compactionDeliveryCount = c.compactionDeliveryCount + Cardinality(X)
    BY <1>0 DEF Channel
  <2> HIDE DEF d
  <2>4. Follows(c, d)
    BY <1>0, <2>2, <2>3, CompactedFollows
  <2> QED BY <2>1, <2>4, ServeFollows DEF c
<1> QED
  BY <1>1, <1>2, <1>3, <1>4, <1>5, <1>6, <1>7, <1>8, <1>9, <1>10, <1>11 DEF OwnerStep

\* A Zero Risk call ends a setup deadline only by starting the turn, and completes it only once.
LEMMA SafeStepFollows == ASSUME IInv, NEW t \in Tokens, SafeStep(t) PROVE AllLive
<1> USE DEF Lives
<1> DEFINE c == Pruned[t]
<1>0. OK(c) /\ c \in Channel
  BY PrunedOK DEF OK
<1>1. CASE StartSafeTurn(t)
  <2> DEFINE e == [c EXCEPT !.connectorStarted = TRUE]
  <2>1. Serve(t, Activated(e))
    BY <1>1 DEF StartSafeTurn
  <2> HIDE DEF c
  <2>2. e \in Channel /\ e.safe = c.safe
    BY <1>0 DEF Channel
  <2>3. Follows(c, e)
    BY <1>0, UntouchedFollows DEF Channel
  <2> HIDE DEF e
  <2>4. Follows(c, Activated(e))
    BY <1>0, <2>2, <2>3, ActivatedFollows
  <2> QED BY <2>1, <2>4, ServeFollows DEF c
<1>2. CASE ConfirmSafeTurnSent(t)
  <2> DEFINE A == c.resumedClaims \cup c.sentClaims
             Y == c.resumedAnswers \cup c.sentAnswers
             e == [c EXCEPT !.launcherSent = TRUE, !.resumedClaims = A, !.sentClaims = {},
                            !.resumedAnswers = Y, !.sentAnswers = {}]
  <2>1. Serve(t, Activated(e))
    BY <1>2 DEF ConfirmSafeTurnSent
  <2>2. A \in SUBSET Activities /\ Y \in SUBSET Answers
    BY <1>0 DEF Channel
  <2> HIDE DEF c, A, Y
  <2>3. e \in Channel /\ e.safe = c.safe
    BY <1>0, <2>2 DEF Channel
  <2>4. Follows(c, e)
    BY <1>0 DEF Channel, Follows, CompletionKept, DeadlineStays, CompactionCounted, Compacted
  <2> HIDE DEF e
  <2>5. Follows(c, Activated(e))
    BY <1>0, <2>3, <2>4, ActivatedFollows
  <2> QED BY <2>1, <2>5, ServeFollows DEF c
<1>3. CASE WaitForSafeCompletion(t)
  <2> DEFINE O == c.observers \cup {"completion"}
             d == [c EXCEPT !.observers = O]
  <2>1. Serve(t, d)
    BY <1>3 DEF WaitForSafeCompletion
  <2> HIDE DEF c, O
  <2>2. Follows(c, d)
    BY <1>0, UntouchedFollows DEF Channel
  <2> QED BY <2>1, <2>2, ServeFollows DEF c
<1>4. ASSUME NEW y \in Answers, CompleteSafeTurn(t, y) PROVE AllLive
  <2> DEFINE Y == c.sentAnswers \cup {y}
             d == [c EXCEPT !.sentAnswers = Y]
  <2>1. Serve(t, d) \/ (AnswerAllowed(c) /\ Serve(t, Answered(c, y)))
    BY <1>4 DEF CompleteSafeTurn
  <2> HIDE DEF c, Y
  <2>2. Follows(c, d)
    BY <1>0, UntouchedFollows DEF Channel
  <2>3. AnswerAllowed(c) => Follows(c, Answered(c, y))
    BY <1>0, SelfFollows, AnsweredFollows
  <2> HIDE DEF d
  <2> QED BY <2>1, <2>2, <2>3, ServeFollows DEF c
<1>5. ASSUME NEW y \in Answers, ResumeSafeAnswer(t, y) PROVE AllLive
  <2> DEFINE R == c.resumedAnswers \ {y}
             d == [c EXCEPT !.resumedAnswers = R]
  <2>1. Serve(t, d) \/ (AnswerAllowed(d) /\ Serve(t, Answered(d, y)))
    BY <1>5 DEF ResumeSafeAnswer
  <2>2. R \in SUBSET Answers
    BY <1>0 DEF Channel
  <2> HIDE DEF c, R
  <2>3. d \in Channel /\ d.safe = c.safe
    BY <1>0, <2>2 DEF Channel
  <2>4. Follows(c, d)
    BY <1>0, UntouchedFollows DEF Channel
  <2> HIDE DEF d
  <2>5. AnswerAllowed(d) => Follows(c, Answered(d, y))
    BY <1>0, <2>3, <2>4, AnsweredFollows
  <2> QED BY <2>1, <2>4, <2>5, ServeFollows DEF c
<1> QED BY <1>1, <1>2, <1>3, <1>4, <1>5 DEF SafeStep

\* No request of the MCP process reopens a completion, and an intercepted call is counted.
LEMMA McpStepFollows == ASSUME IInv, NEW t \in Tokens, McpStep(t) PROVE AllLive
<1> USE DEF Lives
<1> DEFINE c == Pruned[t]
<1>0. OK(c) /\ c \in Channel /\ OK(channels[t]) /\ channels[t] \in Channel
  BY PrunedOK DEF OK
<1>1. ASSUME NEW a \in Activities, Claim(t, a) PROVE AllLive
  <2> DEFINE A == c.sentClaims \cup {a}
             d == [c EXCEPT !.sentClaims = A]
  <2>1. Serve(t, d) \/ Serve(t, Claimed(c, a))
    BY <1>1 DEF Claim
  <2> HIDE DEF c, A
  <2>2. Follows(c, d)
    BY <1>0, UntouchedFollows DEF Channel
  <2>3. Follows(c, Claimed(c, a))
    BY <1>0, SelfFollows, ClaimedFollows
  <2> HIDE DEF d
  <2> QED BY <2>1, <2>2, <2>3, ServeFollows DEF c
<1>2. ASSUME NEW a \in Activities, ResumeClaim(t, a) PROVE AllLive
  <2> DEFINE R == c.resumedClaims \ {a}
             d == [c EXCEPT !.resumedClaims = R]
  <2>1. Serve(t, d) \/ Serve(t, Claimed(d, a))
    BY <1>2 DEF ResumeClaim
  <2>2. R \in SUBSET Activities
    BY <1>0 DEF Channel
  <2> HIDE DEF c, R
  <2>3. d \in Channel
    BY <1>0, <2>2 DEF Channel
  <2>4. Follows(c, d)
    BY <1>0, UntouchedFollows DEF Channel
  <2> HIDE DEF d
  <2>5. Follows(c, Claimed(d, a))
    BY <1>0, <2>3, <2>4, ClaimedFollows
  <2> QED BY <2>1, <2>4, <2>5, ServeFollows DEF c
<1>3. ASSUME NEW a \in Activities, ActivityComplete(t, a) PROVE AllLive
  <2>1. Serve(t, ActivitySettled(c, a))
    BY <1>3 DEF ActivityComplete
  <2>2. Follows(c, ActivitySettled(c, a))
    BY <1>0, SelfFollows, ClaimedFollows
  <2> QED BY <2>1, <2>2, ServeFollows
<1>4. CASE AbortSentWait(t)
  <2> DEFINE e == channels[t]
  <2>1. e \in Channel
    BY <1>0
  <2>2. ASSUME NEW a, channels' = [channels EXCEPT ![t].sentClaims = @ \ {a}] PROVE AllLive
    <3> DEFINE A == e.sentClaims \ {a}
               d == [e EXCEPT !.sentClaims = A]
    <3>1. channels' = [channels EXCEPT ![t] = d]
      BY <2>2 DEF IInv, TypeOK
    <3> HIDE DEF e, A
    <3>2. Follows(e, d)
      BY <2>1 DEF Channel, Follows, CompletionKept, DeadlineStays, CompactionCounted, Compacted
    <3> QED BY <3>1, <3>2, ReplaceFollows DEF e
  <2>3. ASSUME NEW y, channels' = [channels EXCEPT ![t].sentAnswers = @ \ {y}] PROVE AllLive
    <3> DEFINE Y == e.sentAnswers \ {y}
               d == [e EXCEPT !.sentAnswers = Y]
    <3>1. channels' = [channels EXCEPT ![t] = d]
      BY <2>3 DEF IInv, TypeOK
    <3> HIDE DEF e, Y
    <3>2. Follows(e, d)
      BY <2>1 DEF Channel, Follows, CompletionKept, DeadlineStays, CompactionCounted, Compacted
    <3> QED BY <3>1, <3>2, ReplaceFollows DEF e
  <2> QED BY <1>4, <2>2, <2>3 DEF AbortSentWait
<1>5. CASE Release(t)
  BY <1>5, RevokedFollows, ServeFollows DEF Release
<1>6. ASSUME NEW x \in Calls, Invoke(t, x), c.compactionRequested PROVE AllLive
  <2> DEFINE O == [c.outcome EXCEPT ![x] = "compacted"]
             N == c.compactionDeliveryCount + 1
             d == [c EXCEPT !.outcome = O, !.compactionDeliveryCount = N]
  <2>1. Serve(t, d) /\ c.outcome[x] = "none"
    BY <1>6 DEF Invoke
  <2>2. /\ O \in [Calls -> Outcomes] /\ c.outcome[x] # "compacted" /\ {x} \in SUBSET Calls
        /\ \A y \in Calls : O[y] = "compacted" <=> y \in {x} \/ c.outcome[y] = "compacted"
    BY <1>0, <2>1 DEF Channel, Outcomes
  <2>3. N = c.compactionDeliveryCount + Cardinality({x})
    BY FS_Singleton
  <2> HIDE DEF c, O, N
  <2>4. /\ d.phase = c.phase /\ d.external = c.external /\ d.safe = c.safe /\ d.ttl = c.ttl
        /\ d.finalAnswer = c.finalAnswer /\ d.completionCommitted = c.completionCommitted
        /\ d.completionRevision = c.completionRevision /\ d.outcome = O
        /\ d.compactionDeliveryCount = N
    BY <1>0 DEF Channel
  <2> HIDE DEF d
  <2>5. Follows(c, d)
    BY <1>0, <2>2, <2>3, <2>4, CompactedFollows
  <2> QED BY <2>1, <2>5, ServeFollows DEF c
<1>7. ASSUME NEW x \in Calls, Invoke(t, x), ~c.compactionRequested PROVE AllLive
  <2> DEFINE O == [c.outcome EXCEPT ![x] = "pending"]
             I == c.invocations \cup {x}
             Q == c.queuedCallIds \cup {x}
             e == [c EXCEPT !.outcome = O, !.invocations = I, !.queuedCallIds = Q]
             d(b) == [c EXCEPT !.outcome = O, !.invocations = I, !.queuedCallIds = Q,
                               !.deliveredCallIds = c.deliveredCallIds, !.batchTimer = b]
  <2>1. Serve(t, Scheduled(e)) /\ c.outcome[x] = "none"
    BY <1>7 DEF Invoke
  <2>2. /\ O \in [Calls -> Outcomes]
        /\ \A y \in Calls : O[y] = "compacted" <=> c.outcome[y] = "compacted"
    BY <1>0, <2>1 DEF Channel, Outcomes
  <2> HIDE DEF c, O, I, Q
  <2>3. e = d(c.batchTimer) /\ [e EXCEPT !.batchTimer = TRUE] = d(TRUE)
    BY <1>0 DEF Channel
  <2>4. Follows(c, d(c.batchTimer)) /\ Follows(c, d(TRUE))
    BY <1>0, <2>2, OtherOutcomeFollows
  <2> HIDE DEF e, d
  <2>5. Scheduled(e) = d(c.batchTimer) \/ Scheduled(e) = d(TRUE)
    BY <2>3 DEF Scheduled
  <2> QED BY <2>1, <2>4, <2>5, ServeFollows DEF c
<1> QED BY <1>1, <1>2, <1>3, <1>4, <1>5, <1>6, <1>7 DEF McpStep

\* Every step of the broker.
LEMMA NextFollows == ASSUME IInv, Next PROVE AllLive
<1>1. ASSUME NEW t \in Tokens, ClockPasses(t) PROVE AllLive
  <2> DEFINE e == channels[t]
             d == [e EXCEPT !.ttl = "lapsed"]
  <2>1. channels' = [channels EXCEPT ![t] = d] /\ e \in Channel
    BY <1>1, PrunedOK DEF ClockPasses, OK
  <2> HIDE DEF e
  <2>2. Follows(e, d)
    BY <2>1 DEF Channel, Follows, CompletionKept, DeadlineStays, CompactionCounted, Compacted
  <2> QED BY <2>1, <2>2, ReplaceFollows DEF e
<1>2. CASE Prune
  <2>1. \A u \in Tokens : Lives(Pruned[u], Pruned[u], acceptingExternalOwners)
    BY SelfFollows DEF Lives
  <2> QED BY <1>2, <2>1, PrunedFollows DEF Prune, AllLive
<1>3. CASE RevokeExternalOwners
  BY <1>3, RevokeAllFollows DEF RevokeExternalOwners
<1>4. CASE Close
  BY <1>4, RevokeAllFollows DEF Close
<1>5. ASSUME NEW trace \in Traces, RevokeTrace(trace) PROVE AllLive
  BY <1>5, RevokeAllFollows DEF RevokeTrace
<1>6. ASSUME NEW accepted \in BOOLEAN, SetExternalOwnersAccepted(accepted) PROVE AllLive
  BY <1>6, SelfFollows DEF SetExternalOwnersAccepted, AllLive, Lives
<1> QED
  BY <1>1, <1>2, <1>3, <1>4, <1>5, <1>6, OwnerStepFollows, SafeStepFollows, McpStepFollows
  DEF Next, RuntimeStep

-----------------------------------------------------------------------------
(***************************************************************************)
(* The theorems.                                                           *)
(***************************************************************************)

\* An accepted answer and a committed completion stay what they are for as long as the turn lives
\* (CompletionIsFinal).
THEOREM CompletionStaysFinal == Spec => CompletionIsFinal
<1>1. IInv /\ [Next]_vars =>
        [\A t \in Tokens : Live(channels[t]) /\ Live(channels'[t]) =>
           CompletionKept(channels[t], channels'[t])]_vars
  BY NextFollows DEF AllLive, Lives, Follows, Born
<1> QED BY <1>1, BrokerInvariant, PTL DEF Spec, CompletionIsFinal

\* Only the start of a Zero Risk turn takes a registration deadline away (DeadlineKept).
THEOREM DeadlineIsKept == Spec => DeadlineKept
<1>1. IInv /\ [Next]_vars =>
        [\A t \in Tokens : Live(channels[t]) /\ Live(channels'[t]) =>
           DeadlineStays(channels[t], channels'[t])]_vars
  BY NextFollows DEF AllLive, Lives, Follows, Born
<1> QED BY <1>1, BrokerInvariant, PTL DEF Spec, DeadlineKept

\* A drained runtime stays drained until it accepts external owners again, although registrations
\* that were requested before the drain still await the listener (DrainStaysDrained).
THEOREM DrainIsStable == Spec => DrainStaysDrained
<1>1. IInv /\ [Next]_vars =>
        [~acceptingExternalOwners /\ ExternalOwnersGone /\ ~acceptingExternalOwners'
           => ExternalOwnersGone']_vars
  BY NextFollows DEF AllLive, Lives, Follows, Born, ExternalOwnersGone
<1> QED BY <1>1, BrokerInvariant, PTL DEF Spec, DrainStaysDrained

\* Every call is in one list, and the compaction notice counted what it answered (CallLedger).
THEOREM LedgerHolds == Spec => []CallLedger
<1> DEFINE Counted == \A t \in Tokens : CompactionCounted(channels[t])
<1>1. Init => Counted
  <2>1. \A tr \in Traces : CompactionCounted(Unregistered(tr))
    BY DEF CompactionCounted, Unregistered
  <2> QED BY <2>1 DEF Init
<1>2. IInv /\ Counted /\ [Next]_vars => Counted'
  <2> SUFFICES ASSUME IInv, Counted, [Next]_vars PROVE Counted'
    OBVIOUS
  <2>1. CASE Next
    <3>1. AllLive
      BY <2>1, NextFollows
    <3> QED BY <3>1 DEF AllLive, Lives, Follows, Born, CompactionCounted
  <2>2. CASE UNCHANGED vars
    BY <2>2 DEF vars
  <2> QED BY <2>1, <2>2
<1>3. IInv /\ Counted => CallLedger
  BY DEF IInv, ChannelOK, CallLedger
<1> HIDE DEF Counted
<1> QED BY <1>1, <1>2, <1>3, BrokerInvariant, PTL DEF Spec
=============================================================================
