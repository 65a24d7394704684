-------------------------- MODULE TurnBroker_proofs --------------------------
(***************************************************************************)
(* What holds in every reachable state of TurnBroker, for any number of    *)
(* turns, calls, requests, polls and answers.  The inductive invariant is  *)
(* ChannelOK of every channel: first each function that rewrites a channel *)
(* is shown to keep it, then each handler of the broker, then Next.        *)
(***************************************************************************)
EXTENDS TurnBroker, FiniteSetTheorems, TLAPS

\* revoke and rejectChannel leave a well-typed record behind.
LEMMA RevokedType == ASSUME NEW c \in Channel PROVE Revoked(c) \in Channel
<1> DEFINE O == RejectedOutcome(c)
           S == IF c.safe = "native" THEN "native" ELSE "revoked"
           U == Unregistered(c.trace)
<1>1. O \in [Calls -> Outcomes]
  BY DEF Channel, Outcomes, RejectedOutcome
<1>2. U \in Channel
  BY DEF Channel, Unregistered, Outcomes, SafeStates
<1>3. S \in SafeStates
  BY DEF SafeStates
<1>4. /\ c.external \in BOOLEAN /\ c.resumedPolls \in SUBSET Polls
      /\ c.resumedClaims \in SUBSET Activities /\ c.resumedAnswers \in SUBSET Answers
  BY DEF Channel
<1> HIDE DEF O, S, U
<1>5. [U EXCEPT !.phase = "retired", !.external = c.external, !.safe = S,
                !.resumedPolls = c.resumedPolls, !.resumedClaims = c.resumedClaims,
                !.resumedAnswers = c.resumedAnswers] \in Channel
  BY <1>2, <1>3, <1>4 DEF Channel
<1>6. Remains(c) \in Channel
  BY <1>5 DEF Remains, S, U
<1>7. [Remains(c) EXCEPT !.outcome = O] \in Channel
  BY <1>1, <1>6 DEF Channel
<1> QED BY <1>7 DEF Revoked, O

-----------------------------------------------------------------------------
(***************************************************************************)
(* Each way a handler rewrites a channel keeps its type and ChannelOK.     *)
(***************************************************************************)
OK(c) == c \in Channel /\ ChannelOK(c)

USE DEF Live

\* Revoking a channel keeps the invariant: every wait is settled and every pending call rejected.
LEMMA RevokedOK == ASSUME NEW c, OK(c) PROVE OK(Revoked(c))
<1>1. Revoked(c) \in Channel
  BY RevokedType DEF OK
<1> DEFINE d == Revoked(c)
<1>2. /\ d.phase = "retired" /\ d.safe \in {"native", "revoked"} /\ d.ttl = "none"
      /\ d.activities = {} /\ d.completedActivities = {} /\ d.completionCommitted = FALSE
      /\ d.invocations = {} /\ d.queuedCallIds = {} /\ d.deliveredCallIds = {}
      /\ d.waiters = {} /\ d.startWaiters = {} /\ d.sentClaims = {} /\ d.sentAnswers = {}
      /\ d.batchTimer = FALSE /\ d.observers = {} /\ d.finalAnswer = NoAnswer
  BY DEF Revoked, Remains, Unregistered
<1>3. d.outcome = RejectedOutcome(c)
  BY DEF Revoked, Remains, Unregistered
<1>4. \A x \in Calls : d.outcome[x] # "pending"
  BY <1>3 DEF OK, ChannelOK, CallsAccounted, RejectedOutcome
<1> HIDE DEF d
<1>5. ChannelOK(d)
  BY <1>2, <1>4 DEF ChannelOK, CallsAccounted, WakeupsOwed, WorkAuthorized, LeasesClosed, Quiet
<1> QED BY <1>1, <1>5 DEF OK, d

\* A token that nobody registered, or whose registration was refused.
LEMMA UnregisteredOK == ASSUME NEW tr \in Traces PROVE OK(Unregistered(tr))
<1>1. Unregistered(tr) \in Channel
  BY DEF Channel, Unregistered, Outcomes, SafeStates
<1>2. ChannelOK(Unregistered(tr))
  BY DEF ChannelOK, CallsAccounted, WakeupsOwed, WorkAuthorized, LeasesClosed, Quiet, Unregistered
<1> QED BY <1>1, <1>2 DEF OK

\* A registration that awaits the listener is as empty as it was before.
LEMMA RequestedOK ==
  ASSUME NEW c, OK(c), c.phase = "fresh", NEW external \in BOOLEAN
  PROVE  OK([c EXCEPT !.phase = "registering", !.external = external])
<1> DEFINE d == [c EXCEPT !.phase = "registering", !.external = external]
<1>1. d \in Channel
  BY DEF OK, Channel
<1>2. ChannelOK(d)
  BY DEF OK, ChannelOK, Channel, CallsAccounted, WakeupsOwed, WorkAuthorized, LeasesClosed, Quiet
<1> QED BY <1>1, <1>2 DEF OK

\* A channel that register or registerSafe has just created satisfies the invariant.
LEMMA RegisteredOK ==
  ASSUME NEW tr \in Traces, NEW safe \in {"native", "awaiting_start"},
         NEW ttl \in {"none", "armed"}, NEW external \in BOOLEAN
  PROVE  OK(Registered(tr, safe, ttl, external))
<1>1. Unregistered(tr) \in Channel
  BY DEF Channel, Unregistered, Outcomes, SafeStates
<1>2. Registered(tr, safe, ttl, external) \in Channel
  BY <1>1 DEF Registered, Channel, SafeStates
<1>3. ChannelOK(Registered(tr, safe, ttl, external))
  BY DEF ChannelOK, CallsAccounted, WakeupsOwed, WorkAuthorized, LeasesClosed,
     Quiet, Registered, Unregistered
<1> QED BY <1>2, <1>3 DEF OK

\* Passing expiresAt changes nothing but the clock.
LEMMA LapsedOK == ASSUME NEW c, OK(c), c.ttl = "armed" PROVE OK([c EXCEPT !.ttl = "lapsed"])
<1>1. [c EXCEPT !.ttl = "lapsed"] \in Channel
  BY DEF OK, Channel
<1>2. ChannelOK([c EXCEPT !.ttl = "lapsed"])
  BY DEF OK, ChannelOK, Channel, CallsAccounted, WakeupsOwed, WorkAuthorized, LeasesClosed, Quiet
<1> QED BY <1>1, <1>2 DEF OK

\* An accepted claim opens one lease and nothing else.
LEMMA ClaimedOK ==
  ASSUME NEW c, OK(c), NEW a \in Activities, ClaimAllowed(c, a)
  PROVE  OK(Claimed(c, a))
<1> DEFINE A == c.activities \cup {a}
           R == IF a \in c.activities THEN c.activityRevision ELSE c.activityRevision + 1
           d == [c EXCEPT !.activities = A, !.activityRevision = R, !.bound = TRUE]
<1>1. A \in SUBSET Activities /\ R \in Nat /\ c.activityRevision <= R
  BY DEF Channel, OK
<1>2. A \cap c.completedActivities = {}
  BY DEF ClaimAllowed, OK, ChannelOK, LeasesClosed
<1> HIDE DEF A, R
<1>3. d \in Channel
  BY <1>1 DEF Channel, OK
<1>4. ChannelOK(d)
  BY <1>1, <1>2 DEF OK, ChannelOK, Channel, CallsAccounted, WakeupsOwed, WorkAuthorized, LeasesClosed,
     Quiet, ClaimAllowed, HarnessOpen, HarnessRunning
<1> QED BY <1>3, <1>4 DEF OK, Claimed, A, R

(***************************************************************************)
(* Waits that start, resume or are aborted.                                *)
(***************************************************************************)
\* waitForRetirement and waitForSafeCompletion wait only for events still to come.
LEMMA ObservedOK ==
  ASSUME NEW c, OK(c), Live(c), NEW o \in {"completion", "retirement"},
         o = "completion" => c.safe \in {"awaiting_start", "running"}
  PROVE  OK([c EXCEPT !.observers = @ \cup {o}])
<1> DEFINE O == c.observers \cup {o}
           d == [c EXCEPT !.observers = O]
<1>1. O \in SUBSET {"completion", "retirement"}
  BY DEF OK, Channel
<1>2. "completion" \in O => Live(c) /\ c.safe \in {"awaiting_start", "running"}
  BY DEF OK, ChannelOK, WakeupsOwed
<1>3. "retirement" \in O => Live(c)
  OBVIOUS
<1> HIDE DEF O
<1>4. d \in Channel
  BY <1>1 DEF OK, Channel
<1>5. ChannelOK(d)
  BY <1>2, <1>3 DEF OK, ChannelOK, Channel, CallsAccounted, WakeupsOwed, WorkAuthorized,
     LeasesClosed, Quiet
<1> QED BY <1>4, <1>5 DEF OK, O

\* An aborted poll leaves both sets of waiters.
LEMMA PollAbortedOK ==
  ASSUME NEW c, OK(c), NEW p
  PROVE  OK([c EXCEPT !.startWaiters = @ \ {p}, !.waiters = @ \ {p}])
<1> DEFINE S == c.startWaiters \ {p}
           W == c.waiters \ {p}
           d == [c EXCEPT !.startWaiters = S, !.waiters = W]
<1>1. S \in SUBSET Polls /\ W \in SUBSET Polls
  BY DEF OK, Channel
<1>2. (S # {} => c.startWaiters # {}) /\ (W # {} => c.waiters # {})
  OBVIOUS
<1> HIDE DEF S, W
<1>3. d \in Channel
  BY <1>1 DEF OK, Channel
<1>4. ChannelOK(d)
  BY <1>2 DEF OK, ChannelOK, Channel, CallsAccounted, WakeupsOwed, WorkAuthorized,
     LeasesClosed, Quiet
<1> QED BY <1>3, <1>4 DEF OK, S, W

\* A poll of a turn that has not started waits for its start.
LEMMA StartAwaitedOK ==
  ASSUME NEW c, OK(c), Live(c), c.safe = "awaiting_start", NEW p \in Polls
  PROVE  OK([c EXCEPT !.startWaiters = @ \cup {p}])
<1> DEFINE S == c.startWaiters \cup {p}
           d == [c EXCEPT !.startWaiters = S]
<1>1. S \in SUBSET Polls
  BY DEF OK, Channel
<1> HIDE DEF S
<1>2. d \in Channel
  BY <1>1 DEF OK, Channel
<1>3. ChannelOK(d)
  BY DEF OK, ChannelOK, Channel, CallsAccounted, WakeupsOwed, WorkAuthorized, LeasesClosed, Quiet
<1> QED BY <1>2, <1>3 DEF OK, S

\* A claim or an answer that arrives before Sent waits for Sent.
LEMMA SentAwaitedOK ==
  ASSUME NEW c, OK(c), NEW A \in SUBSET Activities, NEW Y \in SUBSET Answers,
         A # {} \/ Y # {} => Live(c) /\ c.safe = "awaiting_start" /\ ~c.launcherSent
  PROVE  OK([c EXCEPT !.sentClaims = A, !.sentAnswers = Y])
<1> DEFINE d == [c EXCEPT !.sentClaims = A, !.sentAnswers = Y]
<1>1. d \in Channel
  BY DEF OK, Channel
<1>2. ChannelOK(d)
  BY DEF OK, ChannelOK, Channel, CallsAccounted, WakeupsOwed, WorkAuthorized, LeasesClosed, Quiet
<1> QED BY <1>1, <1>2 DEF OK

\* A continuation that runs is no longer among the resumed ones.
LEMMA ResumedOK ==
  ASSUME NEW c, OK(c), NEW P \in SUBSET Polls, NEW A \in SUBSET Activities,
         NEW Y \in SUBSET Answers
  PROVE  OK([c EXCEPT !.resumedPolls = P, !.resumedClaims = A, !.resumedAnswers = Y])
<1> DEFINE d == [c EXCEPT !.resumedPolls = P, !.resumedClaims = A, !.resumedAnswers = Y]
<1>1. d \in Channel
  BY DEF OK, Channel
<1>2. ChannelOK(d)
  BY DEF OK, ChannelOK, Channel, CallsAccounted, WakeupsOwed, WorkAuthorized, LeasesClosed, Quiet
<1> QED BY <1>1, <1>2 DEF OK

(***************************************************************************)
(* Tool calls.                                                             *)
(***************************************************************************)
\* takeQueued moves the queue to the delivered calls.
LEMMA QueueTakenOK == ASSUME NEW c, OK(c) PROVE OK(QueueTaken(c))
<1> DEFINE D == c.deliveredCallIds \cup (c.queuedCallIds \cap c.invocations)
           d == [c EXCEPT !.deliveredCallIds = D, !.queuedCallIds = {}]
<1>1. D \in SUBSET Calls
  BY DEF OK, Channel
<1>2. D = c.invocations
  BY DEF OK, ChannelOK, CallsAccounted
<1> HIDE DEF D
<1>3. d \in Channel
  BY <1>1 DEF OK, Channel
<1>4. ChannelOK(d)
  BY <1>2 DEF OK, ChannelOK, Channel, CallsAccounted, WakeupsOwed, WorkAuthorized, LeasesClosed, Quiet
<1> QED BY <1>3, <1>4 DEF OK, QueueTaken, D

\* A poll waits only while nothing is queued, so it owes no timer.
LEMMA WaiterAddedOK ==
  ASSUME NEW c, OK(c), Live(c), c.queuedCallIds = {}, NEW p \in Polls
  PROVE  OK([c EXCEPT !.waiters = @ \cup {p}])
<1> DEFINE W == c.waiters \cup {p}
           d == [c EXCEPT !.waiters = W]
<1>1. W \in SUBSET Polls
  BY DEF OK, Channel
<1> HIDE DEF W
<1>2. d \in Channel
  BY <1>1 DEF OK, Channel
<1>3. ChannelOK(d)
  BY DEF OK, ChannelOK, Channel, CallsAccounted, WakeupsOwed, WorkAuthorized, LeasesClosed, Quiet
<1> QED BY <1>2, <1>3 DEF OK, W

\* Every way nextToolBatch ends keeps the invariant.
LEMMA PolledOK == ASSUME NEW c, OK(c), Live(c), NEW p \in Polls PROVE OK(Polled(c, p))
  BY QueueTakenOK, WaiterAddedOK DEF Polled

\* wakeToolWaiters: the timer is spent and the waiters are settled.
LEMMA BatchOK ==
  ASSUME NEW c, OK(c), NEW W \in SUBSET Polls, W \subseteq c.waiters,
         W = {} \/ c.queuedCallIds = {}
  PROVE  OK([c EXCEPT !.batchTimer = FALSE, !.waiters = W])
<1> DEFINE d == [c EXCEPT !.batchTimer = FALSE, !.waiters = W]
<1>1. d \in Channel
  BY DEF OK, Channel
<1>2. W # {} => c.waiters # {}
  OBVIOUS
<1>3. ChannelOK(d)
  BY <1>2 DEF OK, ChannelOK, Channel, CallsAccounted, WakeupsOwed, WorkAuthorized, LeasesClosed, Quiet
<1> QED BY <1>1, <1>3 DEF OK

\* completeTool removes a delivered call from both records at once.
LEMMA ToolCompletedOK ==
  ASSUME NEW c, OK(c), NEW x \in c.invocations \cap c.deliveredCallIds
  PROVE  OK([c EXCEPT !.invocations = @ \ {x}, !.deliveredCallIds = @ \ {x},
                      !.outcome[x] = "result"])
<1> DEFINE I == c.invocations \ {x}
           D == c.deliveredCallIds \ {x}
           O == [c.outcome EXCEPT ![x] = "result"]
           d == [c EXCEPT !.invocations = I, !.deliveredCallIds = D, !.outcome = O]
<1>1. x \in Calls /\ I \in SUBSET Calls /\ D \in SUBSET Calls
  BY DEF OK, Channel
<1>2. O \in [Calls -> Outcomes]
  BY DEF OK, Channel, Outcomes
<1>3. /\ I = {y \in Calls : O[y] = "pending"}
      /\ c.queuedCallIds \cup D = I
      /\ c.queuedCallIds \cap D = {}
      /\ c.invocations = {} => I = {}
      /\ c.phase \notin {"fresh", "registering"}
  BY <1>1 DEF OK, ChannelOK, CallsAccounted, Channel
<1> HIDE DEF I, D, O
<1>4. d \in Channel
  BY <1>1, <1>2 DEF OK, Channel
<1>5. ChannelOK(d)
  BY <1>3 DEF OK, ChannelOK, Channel, CallsAccounted, WakeupsOwed, WorkAuthorized, LeasesClosed, Quiet
<1> QED BY <1>4, <1>5 DEF OK, I, D, O

\* scheduleToolWaiters gives a queued call that somebody waits for its timer.
LEMMA WokenOK ==
  ASSUME NEW c, OK(c)
  PROVE  OK([QueueTaken([c EXCEPT !.batchTimer = FALSE]) EXCEPT !.waiters = {}])
<1> DEFINE D == c.deliveredCallIds \cup (c.queuedCallIds \cap c.invocations)
           q == [c EXCEPT !.deliveredCallIds = D, !.queuedCallIds = {}]
           d == [c EXCEPT !.batchTimer = FALSE, !.deliveredCallIds = D, !.queuedCallIds = {},
                          !.waiters = {}]
<1>1. OK(q)
  BY QueueTakenOK DEF QueueTaken
<1>2. OK([q EXCEPT !.batchTimer = FALSE, !.waiters = {}])
  BY <1>1, BatchOK
<1> HIDE DEF D
<1>3. [q EXCEPT !.batchTimer = FALSE, !.waiters = {}] = d
  BY DEF OK, Channel
<1>4. [QueueTaken([c EXCEPT !.batchTimer = FALSE]) EXCEPT !.waiters = {}] = d
  BY DEF OK, Channel, QueueTaken, D
<1> QED BY <1>2, <1>3, <1>4

\* An invoke queues its call and starts the timer if a poll waits.
LEMMA InvokedOK ==
  ASSUME NEW c, OK(c), Live(c), HarnessOpen(c), ~c.compactionRequested,
         NEW x \in Calls, c.outcome[x] = "none"
  PROVE  OK(Scheduled([c EXCEPT !.outcome[x] = "pending", !.invocations = @ \cup {x},
                                !.queuedCallIds = @ \cup {x}]))
<1> DEFINE I == c.invocations \cup {x}
           Q == c.queuedCallIds \cup {x}
           O == [c.outcome EXCEPT ![x] = "pending"]
           T == IF c.waiters # {} THEN TRUE ELSE c.batchTimer
           e == [c EXCEPT !.outcome = O, !.invocations = I, !.queuedCallIds = Q]
           d == [c EXCEPT !.outcome = O, !.invocations = I, !.queuedCallIds = Q, !.batchTimer = T]
<1>1. I \in SUBSET Calls /\ Q \in SUBSET Calls /\ Q # {}
  BY DEF OK, Channel
<1>2. O \in [Calls -> Outcomes]
  BY DEF OK, Channel, Outcomes
<1>3. /\ I = {y \in Calls : O[y] = "pending"}
      /\ Q \cup c.deliveredCallIds = I
      /\ Q \cap c.deliveredCallIds = {}
  BY DEF OK, ChannelOK, CallsAccounted, Channel
<1>4. T \in BOOLEAN /\ (c.waiters # {} => T) /\ (T => c.waiters # {} \/ c.batchTimer)
  BY DEF OK, Channel
<1>5. c.safe \in {"native", "running"}
  BY DEF HarnessOpen, HarnessRunning
<1> HIDE DEF I, Q, O, T
<1>6. d \in Channel
  BY <1>1, <1>2, <1>4 DEF OK, Channel
<1>7. ChannelOK(d)
  BY <1>3, <1>4, <1>5 DEF OK, ChannelOK, Channel, CallsAccounted, WakeupsOwed, WorkAuthorized,
     LeasesClosed, Quiet
<1>8. Scheduled(e) = d
  <2>1. CASE c.waiters # {}
    <3>1. T = TRUE BY <2>1 DEF T
    <3> QED BY <2>1, <3>1, <1>1 DEF Scheduled, OK, Channel
  <2>2. CASE c.waiters = {}
    <3>1. T = c.batchTimer BY <2>2 DEF T
    <3> QED BY <2>2, <3>1, <1>1 DEF Scheduled, OK, Channel
  <2> QED BY <2>1, <2>2
<1> QED BY <1>6, <1>7, <1>8 DEF OK, I, Q, O

\* An invoke after the compaction notice is settled at once.
LEMMA InterceptedOK ==
  ASSUME NEW c, OK(c), Live(c), NEW x \in Calls, c.outcome[x] = "none"
  PROVE  OK([c EXCEPT !.outcome[x] = "compacted", !.compactionDeliveryCount = @ + 1])
<1> DEFINE O == [c.outcome EXCEPT ![x] = "compacted"]
           N == c.compactionDeliveryCount + 1
           d == [c EXCEPT !.outcome = O, !.compactionDeliveryCount = N]
<1>1. O \in [Calls -> Outcomes] /\ N \in Nat
  BY DEF OK, Channel, Outcomes
<1>2. c.invocations = {y \in Calls : O[y] = "pending"}
  BY DEF OK, ChannelOK, CallsAccounted, Channel
<1> HIDE DEF O, N
<1>3. d \in Channel
  BY <1>1 DEF OK, Channel
<1>4. ChannelOK(d)
  BY <1>2 DEF OK, ChannelOK, Channel, CallsAccounted, WakeupsOwed, WorkAuthorized, LeasesClosed, Quiet
<1> QED BY <1>3, <1>4 DEF OK, O, N

\* requestCompaction settles what is queued and leaves what was delivered.
LEMMA CompactionOK ==
  ASSUME NEW c, OK(c), Live(c)
  PROVE  OK([c EXCEPT
       !.compactionRequested = TRUE,
       !.batchTimer = FALSE,
       !.outcome = [x \in Calls |-> IF x \in c.queuedCallIds \cap c.invocations
                                    THEN "compacted" ELSE c.outcome[x]],
       !.compactionDeliveryCount = @ + Cardinality(c.queuedCallIds \cap c.invocations),
       !.invocations = @ \ c.queuedCallIds,
       !.queuedCallIds = {}])
<1> DEFINE O == [x \in Calls |-> IF x \in c.queuedCallIds \cap c.invocations
                                 THEN "compacted" ELSE c.outcome[x]]
           N == c.compactionDeliveryCount + Cardinality(c.queuedCallIds \cap c.invocations)
           I == c.invocations \ c.queuedCallIds
           d == [c EXCEPT !.compactionRequested = TRUE, !.batchTimer = FALSE, !.outcome = O,
                          !.compactionDeliveryCount = N, !.invocations = I, !.queuedCallIds = {}]
<1>1. O \in [Calls -> Outcomes] /\ I \in SUBSET Calls
  BY DEF OK, Channel, Outcomes
<1>2. N \in Nat
  <2>1. IsFiniteSet(c.queuedCallIds \cap c.invocations)
    BY CallsAssumption, FS_Subset DEF OK, Channel
  <2>2. Cardinality(c.queuedCallIds \cap c.invocations) \in Nat
    BY <2>1, FS_CardinalityType
  <2> QED BY <2>2 DEF OK, Channel
<1>3. /\ I = {y \in Calls : O[y] = "pending"}
      /\ c.deliveredCallIds = I
      /\ c.invocations = {} => I = {}
  BY DEF OK, ChannelOK, CallsAccounted, Channel
<1> HIDE DEF I, O, N
<1>4. d \in Channel
  BY <1>1, <1>2 DEF OK, Channel
<1>5. ChannelOK(d)
  BY <1>3 DEF OK, ChannelOK, Channel, CallsAccounted, WakeupsOwed, WorkAuthorized, LeasesClosed, Quiet
<1> QED BY <1>4, <1>5 DEF OK, I, O, N

(***************************************************************************)
(* Leases, completion, Zero Risk.                                          *)
(***************************************************************************)
\* activity_complete moves the lease to the tombstones, or leaves a tombstone.
LEMMA ActivitySettledOK ==
  ASSUME NEW c, OK(c), NEW a \in Activities PROVE OK(ActivitySettled(c, a))
<1>1. CASE a \in c.completedActivities
  BY <1>1 DEF ActivitySettled
<1>2. CASE a \notin c.completedActivities
  <2> DEFINE A == c.activities \ {a}
             T == c.completedActivities \cup {a}
             R == c.activityRevision + 1
             d == [c EXCEPT !.activities = A, !.completedActivities = T, !.activityRevision = R]
  <2>1. A \in SUBSET Activities /\ T \in SUBSET Activities /\ R \in Nat
    BY DEF OK, Channel
  <2>2. A \cap T = {} /\ (c.activities = {} => A = {})
    BY DEF OK, ChannelOK, LeasesClosed
  <2>3. c.completionRevision <= c.activityRevision => c.completionRevision <= R
    BY DEF OK, Channel
  <2> HIDE DEF A, T, R
  <2>4. d \in Channel
    BY <2>1 DEF OK, Channel
  <2>5. ChannelOK(d)
    BY <2>2, <2>3 DEF OK, ChannelOK, Channel, CallsAccounted, WakeupsOwed, WorkAuthorized,
       LeasesClosed, Quiet
  <2> QED BY <1>2, <2>4, <2>5 DEF OK, ActivitySettled, A, T, R
<1> QED BY <1>1, <1>2

\* commitCompletionFence commits only a quiet channel.
LEMMA CommittedOK ==
  ASSUME NEW c, OK(c), Quiet(c)
  PROVE  OK([c EXCEPT !.completionCommitted = TRUE, !.completionRevision = c.activityRevision])
<1> DEFINE d == [c EXCEPT !.completionCommitted = TRUE, !.completionRevision = c.activityRevision]
<1>1. d \in Channel
  BY DEF OK, Channel
<1>2. ChannelOK(d)
  BY DEF OK, ChannelOK, Channel, CallsAccounted, WakeupsOwed, WorkAuthorized, LeasesClosed, Quiet
<1> QED BY <1>1, <1>2 DEF OK

\* An accepted Zero Risk answer leaves nothing outstanding and nobody waiting for it.
LEMMA AnsweredOK ==
  ASSUME NEW c, OK(c), AnswerAllowed(c), NEW y \in Answers PROVE OK(Answered(c, y))
<1> DEFINE O == c.observers \ {"completion"}
           d == [c EXCEPT !.safe = "completed", !.finalAnswer = y, !.observers = O]
<1>1. O \in SUBSET {"completion", "retirement"}
  BY DEF OK, Channel
<1>2. "completion" \notin O /\ ("retirement" \in O => "retirement" \in c.observers)
  OBVIOUS
<1> HIDE DEF O
<1>3. d \in Channel
  BY <1>1 DEF OK, Channel, SafeStates
<1>4. ChannelOK(d)
  BY <1>2, AnswerAssumption DEF OK, ChannelOK, Channel, CallsAccounted, WakeupsOwed, WorkAuthorized,
     LeasesClosed, Quiet, AnswerAllowed
<1> QED BY <1>3, <1>4 DEF OK, Answered, O

\* Both confirmations, in either order: the second one activates the turn.
LEMMA ConfirmedOK ==
  ASSUME NEW c, OK(c), Live(c), c.safe \in {"awaiting_start", "running"},
         NEW sent \in BOOLEAN, NEW started \in BOOLEAN,
         c.launcherSent => sent, c.connectorStarted => started,
         sent => c.sentClaims = {} /\ c.sentAnswers = {}
  PROVE  OK(Activated([c EXCEPT !.launcherSent = sent, !.connectorStarted = started]))
<1> DEFINE e == [c EXCEPT !.launcherSent = sent, !.connectorStarted = started]
           S == c.resumedPolls \cup c.startWaiters
           d == [c EXCEPT !.launcherSent = sent, !.connectorStarted = started,
                          !.safe = "running", !.ttl = "none",
                          !.resumedPolls = S, !.startWaiters = {}]
<1>1. S \in SUBSET Polls
  BY DEF OK, Channel
<1> HIDE DEF S
<1>2. e \in Channel /\ d \in Channel
  <2>1. e \in Channel
    BY DEF OK, Channel
  <2> HIDE DEF e
  <2>2. d = [e EXCEPT !.safe = "running", !.ttl = "none",
                      !.resumedPolls = S, !.startWaiters = {}]
    BY DEF OK, Channel, e
  <2>3. "running" \in SafeStates
    BY DEF SafeStates
  <2> HIDE DEF d
  <2>4. d \in Channel
    BY <1>1, <2>1, <2>2, <2>3 DEF Channel
  <2> QED BY <2>1, <2>4
<1>3. CASE c.safe = "awaiting_start" /\ sent /\ started
  <2>1. ChannelOK(d)
    BY <1>3 DEF OK, ChannelOK, Channel, CallsAccounted, WakeupsOwed, WorkAuthorized,
       LeasesClosed, Quiet
  <2>2. Activated(e) = d
    BY <1>3 DEF Activated, OK, Channel, S
  <2> QED BY <2>1, <2>2, <1>2 DEF OK
<1>4. CASE ~(c.safe = "awaiting_start" /\ sent /\ started)
  <2>1. ChannelOK(e)
    BY <1>4 DEF OK, ChannelOK, Channel, CallsAccounted, WakeupsOwed, WorkAuthorized,
       LeasesClosed, Quiet
  <2>2. Activated(e) = e
    BY <1>4 DEF Activated, OK, Channel
  <2> QED BY <2>1, <2>2, <1>2 DEF OK
<1> QED BY <1>3, <1>4

-----------------------------------------------------------------------------
(***************************************************************************)
(* The inductive invariant.  ChannelOK strengthens the safety invariants   *)
(* only by what a handler needs to know of the channel it finds: that a    *)
(* fresh channel has no calls and that a committed revision is not ahead.  *)
(***************************************************************************)
IInv == TypeOK /\ \A t \in Tokens : ChannelOK(channels[t])

\* The broker starts with no turn, and no turn satisfies the invariant.
LEMMA InitIInv == Init => IInv
<1> SUFFICES ASSUME Init PROVE IInv
  OBVIOUS
<1>1. \A tr \in Traces : Unregistered(tr) \in Channel
  BY UnregisteredOK DEF OK
<1>2. \A tr \in Traces : ChannelOK(Unregistered(tr))
  BY UnregisteredOK DEF OK
<1>3. \A t \in Tokens : \E tr \in Traces : channels[t] = Unregistered(tr)
  BY DEF Init
<1>4. channels \in [Tokens -> Channel]
  BY <1>1 DEF Init
<1> QED BY <1>1, <1>2, <1>3, <1>4 DEF Init, IInv, TypeOK

\* prune keeps every channel's invariant.
LEMMA PrunedOK ==
  ASSUME IInv
  PROVE  Pruned \in [Tokens -> Channel] /\ \A t \in Tokens : OK(channels[t]) /\ OK(Pruned[t])
<1>1. \A t \in Tokens : OK(channels[t])
  BY DEF IInv, TypeOK, OK
<1>2. \A t \in Tokens : OK(Pruned[t])
  BY <1>1, RevokedOK DEF Pruned
<1> QED BY <1>1, <1>2 DEF Pruned, OK

\* A pruning handler that leaves its own channel right leaves the broker right.
LEMMA ServeOK ==
  ASSUME IInv, NEW t \in Tokens, NEW c, OK(c), Serve(t, c) PROVE IInv'
<1>1. channels' \in [Tokens -> Channel]
  BY PrunedOK DEF Serve, OK
<1>2. \A u \in Tokens : OK(channels'[u])
  BY PrunedOK DEF Serve
<1> QED BY <1>1, <1>2 DEF Serve, IInv, TypeOK, OK

\* So does a handler that does not prune.
LEMMA ReplaceOK ==
  ASSUME IInv, NEW t \in Tokens, NEW c, OK(c), channels' = [channels EXCEPT ![t] = c],
         UNCHANGED acceptingExternalOwners
  PROVE  IInv'
<1>1. channels' \in [Tokens -> Channel]
  BY DEF IInv, TypeOK, OK
<1>2. \A u \in Tokens : OK(channels'[u])
  BY PrunedOK, <1>1 DEF IInv, TypeOK
<1> QED BY <1>1, <1>2 DEF IInv, TypeOK, OK

\* Revoking any set of turns keeps the invariant.
LEMMA RevokeAllOK ==
  ASSUME IInv, NEW ts, RevokeAll(ts), acceptingExternalOwners' \in BOOLEAN PROVE IInv'
<1>1. \A u \in Tokens : OK(channels'[u])
  BY PrunedOK, RevokedOK DEF RevokeAll
<1>2. channels' \in [Tokens -> Channel]
  BY <1>1 DEF RevokeAll, OK
<1> QED BY <1>1, <1>2 DEF IInv, TypeOK, OK

\* What a request for a registration does: it prunes if it comes from outside, and marks the token.
LEMMA RequestedServes ==
  ASSUME IInv, NEW t \in Tokens, NEW external \in BOOLEAN, RequestRegistration(t, external)
  PROVE  LET d == [channels[t] EXCEPT !.phase = "registering", !.external = external]
         IN  /\ channels[t].phase = "fresh" /\ Pruned[t] = channels[t]
             /\ Serve(t, d) \/ (channels' = [channels EXCEPT ![t] = d]
                                 /\ UNCHANGED acceptingExternalOwners)
<1> DEFINE d == [channels[t] EXCEPT !.phase = "registering", !.external = external]
<1>1. channels[t].phase = "fresh" /\ Pruned[t] = channels[t]
  BY DEF RequestRegistration, Pruned, Expired
<1>2. CASE external
  <2>1. [Pruned EXCEPT ![t].phase = "registering", ![t].external = external]
          = [Pruned EXCEPT ![t] = d]
    BY <1>1, PrunedOK
  <2> QED BY <1>1, <1>2, <2>1 DEF RequestRegistration, Serve
<1>3. CASE ~external
  <2>1. [channels EXCEPT ![t].phase = "registering", ![t].external = external]
          = [channels EXCEPT ![t] = d]
    BY DEF IInv, TypeOK
  <2> QED BY <1>1, <1>3, <2>1 DEF RequestRegistration
<1> QED BY <1>2, <1>3, <1>1

\* Every call of the owner keeps the invariant.
LEMMA OwnerStepOK == ASSUME IInv, NEW t \in Tokens, OwnerStep(t) PROVE IInv'
<1> DEFINE c == Pruned[t]
<1>0. OK(c) /\ OK(channels[t]) /\ c.trace \in Traces
  BY PrunedOK DEF OK, Channel
<1>1. ASSUME NEW safe \in Contracts, NEW ttl \in Deadlines, NEW external \in BOOLEAN,
             Register(t, safe, ttl, external)
      PROVE  IInv'
  <2>1. CASE RequestRegistration(t, external)
    <3> DEFINE d == [channels[t] EXCEPT !.phase = "registering", !.external = external]
    <3>1. /\ channels[t].phase = "fresh"
          /\ Serve(t, d) \/ (channels' = [channels EXCEPT ![t] = d]
                              /\ UNCHANGED acceptingExternalOwners)
      BY <2>1, RequestedServes
    <3>2. OK(d)
      BY <1>0, <3>1, RequestedOK
    <3> HIDE DEF d
    <3> QED BY <3>1, <3>2, ServeOK, ReplaceOK
  <2>2. CASE Serve(t, Registered(c.trace, safe, ttl, external)) \/ Serve(t, Unregistered(c.trace))
    <3>1. OK(Registered(c.trace, safe, ttl, external)) /\ OK(Unregistered(c.trace))
      BY <1>0, RegisteredOK, UnregisteredOK, ContractsAssumption, DeadlinesAssumption
    <3> QED BY <2>2, <3>1, ServeOK
  <2> QED BY <1>1, <2>1, <2>2 DEF Register
<1>2. CASE UpdateEnvironment(t)
  BY <1>0, <1>2, ServeOK DEF UpdateEnvironment
<1>3. CASE Revoke(t)
  BY <1>3, RevokeAllOK DEF Revoke, IInv, TypeOK
<1>4. CASE WaitForRetirement(t)
  <2>1. Live(c) /\ Serve(t, [c EXCEPT !.observers = @ \cup {"retirement"}])
    BY <1>4 DEF WaitForRetirement
  <2> QED BY <1>0, <2>1, ObservedOK, ServeOK
<1>5. ASSUME NEW p \in Polls, PollTools(t, p) PROVE IInv'
  BY <1>0, <1>5, StartAwaitedOK, PolledOK, ServeOK DEF PollTools
<1>6. ASSUME NEW p \in Polls, ResumePoll(t, p) PROVE IInv'
  <2> DEFINE d == [c EXCEPT !.resumedPolls = @ \ {p}]
  <2>1. OK(d)
    <3>1. /\ c.resumedPolls \ {p} \in SUBSET Polls /\ c.resumedClaims \in SUBSET Activities
          /\ c.resumedAnswers \in SUBSET Answers
      BY <1>0 DEF OK, Channel
    <3>2. OK([c EXCEPT !.resumedPolls = c.resumedPolls \ {p}, !.resumedClaims = c.resumedClaims,
                       !.resumedAnswers = c.resumedAnswers])
      BY <1>0, <3>1, ResumedOK
    <3> HIDE DEF c
    <3> QED BY <3>2, <1>0 DEF OK, Channel
  <2>2. Serve(t, IF Live(d) THEN Polled(d, p) ELSE d)
    BY <1>6 DEF ResumePoll
  <2> HIDE DEF d
  <2> QED BY <2>1, <2>2, PolledOK, ServeOK
<1>7. ASSUME NEW p \in Polls, AbortPoll(t, p) PROVE IInv'
  <2> DEFINE e == channels[t]
             d == [e EXCEPT !.startWaiters = @ \ {p}, !.waiters = @ \ {p}]
  <2>1. OK(d)
    BY <1>0, PollAbortedOK
  <2>2. channels' = [channels EXCEPT ![t] = d]
    BY <1>7 DEF AbortPoll, IInv, TypeOK
  <2>3. UNCHANGED acceptingExternalOwners
    BY <1>7 DEF AbortPoll
  <2> HIDE DEF d
  <2> QED BY <2>1, <2>2, <2>3, ReplaceOK
<1>8. CASE BatchTimer(t)
  <2> DEFINE e == channels[t]
             b == [e EXCEPT !.batchTimer = FALSE]
             d == IF b.queuedCallIds # {} /\ b.waiters # {}
                  THEN [QueueTaken(b) EXCEPT !.waiters = {}] ELSE b
  <2>1. OK(d)
    <3>1. CASE e.queuedCallIds # {} /\ e.waiters # {}
      <4>1. d = [QueueTaken(b) EXCEPT !.waiters = {}]
        BY <3>1, <1>0 DEF OK, Channel
      <4> QED BY <4>1, <1>0, WokenOK
    <3>2. CASE ~(e.queuedCallIds # {} /\ e.waiters # {})
      <4>1. d = b
        BY <3>2, <1>0 DEF OK, Channel
      <4>2. OK([e EXCEPT !.batchTimer = FALSE, !.waiters = e.waiters])
        BY <3>2, <1>0, BatchOK DEF OK, Channel
      <4>3. [e EXCEPT !.batchTimer = FALSE, !.waiters = e.waiters] = b
        BY <1>0 DEF OK, Channel
      <4> QED BY <4>1, <4>2, <4>3
    <3> QED BY <3>1, <3>2
  <2>2. channels' = [channels EXCEPT ![t] = d] /\ UNCHANGED acceptingExternalOwners
    BY <1>8 DEF BatchTimer
  <2> HIDE DEF d
  <2> QED BY <2>1, <2>2, ReplaceOK
<1>9. ASSUME NEW x \in Calls, CompleteTool(t, x) PROVE IInv'
  BY <1>0, <1>9, ToolCompletedOK, ServeOK DEF CompleteTool
<1>10. ASSUME NEW revision, CommitCompletionFence(t, revision) PROVE IInv'
  BY <1>0, <1>10, CommittedOK, ServeOK DEF CommitCompletionFence
<1>11. CASE RequestCompaction(t)
  BY <1>0, <1>11, CompactionOK, ServeOK DEF RequestCompaction
<1> QED
  BY <1>1, <1>2, <1>3, <1>4, <1>5, <1>6, <1>7, <1>8, <1>9, <1>10, <1>11 DEF OwnerStep

\* Every Zero Risk call keeps the invariant.
LEMMA SafeStepOK == ASSUME IInv, NEW t \in Tokens, SafeStep(t) PROVE IInv'
<1> DEFINE c == Pruned[t]
<1>0. OK(c) /\ OK(channels[t])
  BY PrunedOK
<1>1. CASE StartSafeTurn(t)
  <2> DEFINE e == [c EXCEPT !.connectorStarted = TRUE]
  <2>1. /\ Live(c) /\ c.safe \in {"awaiting_start", "running"}
        /\ Serve(t, Activated(e))
    BY <1>1 DEF StartSafeTurn
  <2>2. OK(Activated([c EXCEPT !.launcherSent = c.launcherSent, !.connectorStarted = TRUE]))
    <3>1. c.launcherSent \in BOOLEAN /\ (c.launcherSent => c.sentClaims = {} /\ c.sentAnswers = {})
      BY <1>0 DEF OK, Channel, ChannelOK, WakeupsOwed
    <3> HIDE DEF c
    <3> QED BY <1>0, <2>1, <3>1, ConfirmedOK
  <2>3. [c EXCEPT !.launcherSent = c.launcherSent, !.connectorStarted = TRUE] = e
    BY <1>0 DEF OK, Channel
  <2> QED BY <2>1, <2>2, <2>3, ServeOK
<1>2. CASE ConfirmSafeTurnSent(t)
  <2> DEFINE A == c.resumedClaims \cup c.sentClaims
             Y == c.resumedAnswers \cup c.sentAnswers
             e == [c EXCEPT !.launcherSent = TRUE, !.resumedClaims = A, !.sentClaims = {},
                            !.resumedAnswers = Y, !.sentAnswers = {}]
             f == [c EXCEPT !.resumedPolls = c.resumedPolls, !.resumedClaims = A,
                            !.resumedAnswers = Y]
             g == [f EXCEPT !.sentClaims = {}, !.sentAnswers = {}]
             h == [g EXCEPT !.launcherSent = TRUE, !.connectorStarted = g.connectorStarted]
  <2>1. /\ Live(c) /\ c.safe \in {"awaiting_start", "running"}
        /\ Serve(t, Activated(e))
    BY <1>2 DEF ConfirmSafeTurnSent
  <2>2. A \in SUBSET Activities /\ Y \in SUBSET Answers /\ c.resumedPolls \in SUBSET Polls
    BY <1>0 DEF OK, Channel
  <2> HIDE DEF c, A, Y
  <2>3. OK(f)
    BY <1>0, <2>2, ResumedOK
  <2>4. f.phase = c.phase /\ f.safe = c.safe /\ f.connectorStarted = c.connectorStarted
    BY <1>0 DEF OK, Channel
  <2>5. OK(g)
    <3> HIDE DEF f
    <3> QED BY <2>3, SentAwaitedOK
  <2>6. /\ g.phase = c.phase /\ g.safe = c.safe /\ g.sentClaims = {} /\ g.sentAnswers = {}
        /\ g.connectorStarted \in BOOLEAN
    BY <1>0, <2>2 DEF OK, Channel
  <2>7. OK(Activated(h))
    <3> HIDE DEF g
    <3> QED BY <2>1, <2>5, <2>6, ConfirmedOK
  <2>8. h = e
    BY <1>0, <2>2 DEF OK, Channel
  <2> QED BY <2>1, <2>7, <2>8, ServeOK
<1>3. CASE WaitForSafeCompletion(t)
  <2>1. /\ Live(c) /\ c.safe \in {"awaiting_start", "running"}
        /\ Serve(t, [c EXCEPT !.observers = @ \cup {"completion"}])
    BY <1>3 DEF WaitForSafeCompletion
  <2> QED BY <1>0, <2>1, ObservedOK, ServeOK
<1>4. ASSUME NEW y \in Answers, CompleteSafeTurn(t, y) PROVE IInv'
  <2>1. CASE /\ Live(c) /\ c.safe = "awaiting_start" /\ ~c.launcherSent
             /\ Serve(t, [c EXCEPT !.sentAnswers = @ \cup {y}])
    <3> DEFINE d == [c EXCEPT !.sentClaims = c.sentClaims, !.sentAnswers = c.sentAnswers \cup {y}]
    <3>1. c.sentClaims \in SUBSET Activities /\ c.sentAnswers \cup {y} \in SUBSET Answers
      BY <1>0 DEF OK, Channel
    <3> HIDE DEF c
    <3>2. OK(d)
      BY <1>0, <2>1, <3>1, SentAwaitedOK
    <3>3. d = [c EXCEPT !.sentAnswers = @ \cup {y}]
      BY <1>0 DEF OK, Channel
    <3> QED BY <2>1, <3>2, <3>3, ServeOK
  <2>2. CASE AnswerAllowed(c) /\ Serve(t, Answered(c, y))
    BY <1>0, <2>2, AnsweredOK, ServeOK
  <2> QED BY <1>4, <2>1, <2>2 DEF CompleteSafeTurn
<1>5. ASSUME NEW y \in Answers, ResumeSafeAnswer(t, y) PROVE IInv'
  <2> DEFINE d == [c EXCEPT !.resumedAnswers = @ \ {y}]
  <2>1. OK(d)
    <3>1. /\ c.resumedPolls \in SUBSET Polls /\ c.resumedClaims \in SUBSET Activities
          /\ c.resumedAnswers \ {y} \in SUBSET Answers
      BY <1>0 DEF OK, Channel
    <3> HIDE DEF c
    <3>2. OK([c EXCEPT !.resumedPolls = c.resumedPolls, !.resumedClaims = c.resumedClaims,
                       !.resumedAnswers = c.resumedAnswers \ {y}])
      BY <1>0, <3>1, ResumedOK
    <3> QED BY <3>2, <1>0 DEF OK, Channel
  <2>2. Serve(t, IF AnswerAllowed(d) THEN Answered(d, y) ELSE d)
    BY <1>5 DEF ResumeSafeAnswer
  <2> HIDE DEF d
  <2> QED BY <2>1, <2>2, AnsweredOK, ServeOK
<1> QED BY <1>1, <1>2, <1>3, <1>4, <1>5 DEF SafeStep

\* Every request of the MCP process keeps the invariant.
LEMMA McpStepOK == ASSUME IInv, NEW t \in Tokens, McpStep(t) PROVE IInv'
<1> DEFINE c == Pruned[t]
<1>0. OK(c) /\ OK(channels[t])
  BY PrunedOK
<1>1. ASSUME NEW a \in Activities, Claim(t, a) PROVE IInv'
  <2>1. CASE ClaimWaits(c) /\ Serve(t, [c EXCEPT !.sentClaims = @ \cup {a}])
    <3> DEFINE d == [c EXCEPT !.sentClaims = c.sentClaims \cup {a}, !.sentAnswers = c.sentAnswers]
    <3>1. c.sentClaims \cup {a} \in SUBSET Activities /\ c.sentAnswers \in SUBSET Answers
      BY <1>0 DEF OK, Channel
    <3> HIDE DEF c
    <3>2. OK(d)
      BY <1>0, <2>1, <3>1, SentAwaitedOK DEF ClaimWaits
    <3>3. d = [c EXCEPT !.sentClaims = @ \cup {a}]
      BY <1>0 DEF OK, Channel
    <3> QED BY <2>1, <3>2, <3>3, ServeOK
  <2>2. CASE ClaimAllowed(c, a) /\ Serve(t, Claimed(c, a))
    BY <1>0, <2>2, ClaimedOK, ServeOK
  <2> QED BY <1>1, <2>1, <2>2 DEF Claim
<1>2. ASSUME NEW a \in Activities, ResumeClaim(t, a) PROVE IInv'
  <2> DEFINE d == [c EXCEPT !.resumedClaims = @ \ {a}]
  <2>1. OK(d)
    <3>1. /\ c.resumedPolls \in SUBSET Polls /\ c.resumedClaims \ {a} \in SUBSET Activities
          /\ c.resumedAnswers \in SUBSET Answers
      BY <1>0 DEF OK, Channel
    <3> HIDE DEF c
    <3>2. OK([c EXCEPT !.resumedPolls = c.resumedPolls, !.resumedClaims = c.resumedClaims \ {a},
                       !.resumedAnswers = c.resumedAnswers])
      BY <1>0, <3>1, ResumedOK
    <3> QED BY <3>2, <1>0 DEF OK, Channel
  <2>2. Serve(t, IF ClaimAllowed(d, a) THEN Claimed(d, a) ELSE d)
    BY <1>2 DEF ResumeClaim
  <2> HIDE DEF d
  <2> QED BY <2>1, <2>2, ClaimedOK, ServeOK
<1>3. ASSUME NEW a \in Activities, ActivityComplete(t, a) PROVE IInv'
  BY <1>0, <1>3, ActivitySettledOK, ServeOK DEF ActivityComplete
<1>4. CASE AbortSentWait(t)
  <2> DEFINE e == channels[t]
  <2>0. e \in Channel /\ e.sentClaims \in SUBSET Activities /\ e.sentAnswers \in SUBSET Answers
    BY <1>0 DEF OK, Channel
  <2>1. ASSUME NEW a \in e.sentClaims, UNCHANGED acceptingExternalOwners,
               channels' = [channels EXCEPT ![t].sentClaims = @ \ {a}]
        PROVE  IInv'
    <3> DEFINE d == [e EXCEPT !.sentClaims = e.sentClaims \ {a}, !.sentAnswers = e.sentAnswers]
    <3>1. e.sentClaims \ {a} \in SUBSET Activities
      BY <2>0
    <3>2. OK(d)
      BY <1>0, <2>0, <3>1, SentAwaitedOK DEF OK, ChannelOK, WakeupsOwed
    <3>3. d = [e EXCEPT !.sentClaims = @ \ {a}]
      BY <2>0 DEF Channel
    <3>4. channels' = [channels EXCEPT ![t] = d]
      BY <2>1, <3>3 DEF IInv, TypeOK
    <3> QED BY <2>1, <3>2, <3>4, ReplaceOK
  <2>2. ASSUME NEW y \in e.sentAnswers, UNCHANGED acceptingExternalOwners,
               channels' = [channels EXCEPT ![t].sentAnswers = @ \ {y}]
        PROVE  IInv'
    <3> DEFINE d == [e EXCEPT !.sentClaims = e.sentClaims, !.sentAnswers = e.sentAnswers \ {y}]
    <3>1. e.sentAnswers \ {y} \in SUBSET Answers
      BY <2>0
    <3>2. OK(d)
      BY <1>0, <2>0, <3>1, SentAwaitedOK DEF OK, ChannelOK, WakeupsOwed
    <3>3. d = [e EXCEPT !.sentAnswers = @ \ {y}]
      BY <2>0 DEF Channel
    <3>4. channels' = [channels EXCEPT ![t] = d]
      BY <2>2, <3>3 DEF IInv, TypeOK
    <3> QED BY <2>2, <3>2, <3>4, ReplaceOK
  <2> QED BY <1>4, <2>1, <2>2 DEF AbortSentWait
<1>5. CASE Release(t)
  BY <1>0, <1>5, RevokedOK, ServeOK DEF Release
<1>6. ASSUME NEW x \in Calls, Invoke(t, x) PROVE IInv'
  <2>1. CASE c.compactionRequested
    BY <1>0, <1>6, <2>1, InterceptedOK, ServeOK DEF Invoke
  <2>2. CASE ~c.compactionRequested
    BY <1>0, <1>6, <2>2, InvokedOK, ServeOK DEF Invoke
  <2> QED BY <2>1, <2>2
<1> QED BY <1>1, <1>2, <1>3, <1>4, <1>5, <1>6 DEF McpStep

\* The invariant is inductive.
LEMMA NextIInv == IInv /\ [Next]_vars => IInv'
<1> SUFFICES ASSUME IInv, [Next]_vars PROVE IInv'
  OBVIOUS
<1>1. ASSUME NEW t \in Tokens, ClockPasses(t) PROVE IInv'
  <2> DEFINE d == [channels[t] EXCEPT !.ttl = "lapsed"]
  <2>1. OK(d)
    BY <1>1, PrunedOK, LapsedOK DEF ClockPasses
  <2>2. channels' = [channels EXCEPT ![t] = d] /\ UNCHANGED acceptingExternalOwners
    BY <1>1 DEF ClockPasses
  <2> HIDE DEF d
  <2> QED BY <2>1, <2>2, ReplaceOK
<1>2. CASE Prune
  BY <1>2, PrunedOK DEF Prune, IInv, TypeOK, OK
<1>3. CASE RevokeExternalOwners
  BY <1>3, RevokeAllOK DEF RevokeExternalOwners, IInv, TypeOK
<1>4. CASE Close
  BY <1>4, RevokeAllOK DEF Close, IInv, TypeOK
<1>5. ASSUME NEW trace \in Traces, RevokeTrace(trace) PROVE IInv'
  BY <1>5, RevokeAllOK DEF RevokeTrace, IInv, TypeOK
<1>6. ASSUME NEW accepted \in BOOLEAN, SetExternalOwnersAccepted(accepted) PROVE IInv'
  BY <1>6 DEF SetExternalOwnersAccepted, IInv, TypeOK
<1>7. CASE UNCHANGED vars
  BY <1>7 DEF vars, IInv, TypeOK
<1> QED
  BY <1>1, <1>2, <1>3, <1>4, <1>5, <1>6, <1>7, OwnerStepOK, SafeStepOK, McpStepOK
  DEF Next, RuntimeStep

-----------------------------------------------------------------------------
\* Every reachable state of the broker satisfies the inductive invariant.
THEOREM BrokerInvariant == Spec => []IInv
<1>1. Init => IInv
  BY InitIInv
<1>2. IInv /\ [Next]_vars => IInv'
  BY NextIInv
<1> QED BY <1>1, <1>2, PTL DEF Spec

\* The broker's state keeps its type for every number of turns, calls, requests and polls.
THEOREM TypeCorrect == Spec => []TypeOK
<1>1. IInv => TypeOK
  BY DEF IInv
<1> QED BY <1>1, BrokerInvariant, PTL

\* No promise is forgotten: whoever waits on a turn still has an event to come (NoLostWakeup).
THEOREM WakeupsNeverLost == Spec => []NoLostWakeup
<1>1. IInv => NoLostWakeup
  BY DEF IInv, ChannelOK, NoLostWakeup
<1> QED BY <1>1, BrokerInvariant, PTL

\* A Zero Risk turn does nothing before both confirmations nor after its answer, and a running one
\* has no deadline (SafeAuthorization).
THEOREM SafeTurnsAuthorized == Spec => []SafeAuthorization
<1>1. IInv => SafeAuthorization
  BY DEF IInv, ChannelOK, SafeAuthorization
<1> QED BY <1>1, BrokerInvariant, PTL

\* No delayed claim resurrects a settled activity, and none is in flight once the fence committed.
THEOREM LeasesStayClosed == Spec => []NoLeaseAfterClosure
<1>1. IInv => NoLeaseAfterClosure
  BY DEF IInv, ChannelOK, NoLeaseAfterClosure
<1> QED BY <1>1, BrokerInvariant, PTL
=============================================================================
