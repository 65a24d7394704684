---------------------------- MODULE TurnChannel ----------------------------
(***************************************************************************)
(* The per-turn state of the Turn Broker (src/adapters/chatgpt-web/        *)
(* turn-broker.ts): one TurnChannel record for each capability token, and  *)
(* the operators that several broker handlers share.  The handlers         *)
(* themselves, and the broker-wide state, are in TurnBroker.               *)
(*                                                                         *)
(* A JavaScript Set of waiters whose members are told apart only by who    *)
(* called is a set of caller names here.  A promise that was resolved but  *)
(* whose continuation has not run yet is a member of a "resumed" set.      *)
(***************************************************************************)
EXTENDS Naturals, FiniteSets

CONSTANTS
  Calls,        \* one per "invoke" request that reaches the broker (its callId)
  Activities,   \* activityId values: one per MCP request
  Polls,        \* concurrent callers of nextToolBatch
  Answers,      \* final_answer texts of a Zero Risk turn
  NoAnswer,     \* "no final answer accepted yet"
  Traces        \* traceId values

ASSUME AnswerAssumption == NoAnswer \notin Answers
ASSUME CallsAssumption == IsFiniteSet(Calls)

-----------------------------------------------------------------------------
(***************************************************************************)
(* What became of an invocation's promise, as its MCP caller sees it.      *)
(***************************************************************************)
Outcomes == {"none", "pending", "result", "compacted", "rejected"}

SafeStates == {"native", "awaiting_start", "running", "completed", "revoked"}

Channel ==
  [ phase                   : {"fresh", "registering", "live", "retired"},
    trace                   : Traces,
    external                : BOOLEAN,
    ttl                     : {"none", "armed", "lapsed"},
    bound                   : BOOLEAN,
    \* MCP request leases
    activities              : SUBSET Activities,
    completedActivities     : SUBSET Activities,
    activityRevision        : Nat,
    completionCommitted     : BOOLEAN,
    completionRevision      : Nat,
    \* tool calls
    outcome                 : [Calls -> Outcomes],
    invocations             : SUBSET Calls,
    queuedCallIds           : SUBSET Calls,
    deliveredCallIds        : SUBSET Calls,
    waiters                 : SUBSET Polls,
    batchTimer              : BOOLEAN,
    compactionRequested     : BOOLEAN,
    compactionDeliveryCount : Nat,
    \* Zero Risk control ("native": the channel has none)
    safe                    : SafeStates,
    launcherSent            : BOOLEAN,
    connectorStarted        : BOOLEAN,
    finalAnswer             : Answers \cup {NoAnswer},
    startWaiters            : SUBSET Polls,
    resumedPolls            : SUBSET Polls,
    sentClaims              : SUBSET Activities,
    resumedClaims           : SUBSET Activities,
    sentAnswers             : SUBSET Answers,
    resumedAnswers          : SUBSET Answers,
    \* callers of waitForSafeCompletion and waitForRetirement
    observers               : SUBSET {"completion", "retirement"} ]

Unregistered(trace) ==
  [ phase                   |-> "fresh",
    trace                   |-> trace,
    external                |-> FALSE,
    ttl                     |-> "none",
    bound                   |-> FALSE,
    activities              |-> {},
    completedActivities     |-> {},
    activityRevision        |-> 0,
    completionCommitted     |-> FALSE,
    completionRevision      |-> 0,
    outcome                 |-> [x \in Calls |-> "none"],
    invocations             |-> {},
    queuedCallIds           |-> {},
    deliveredCallIds        |-> {},
    waiters                 |-> {},
    batchTimer              |-> FALSE,
    compactionRequested     |-> FALSE,
    compactionDeliveryCount |-> 0,
    safe                    |-> "native",
    launcherSent            |-> FALSE,
    connectorStarted        |-> FALSE,
    finalAnswer             |-> NoAnswer,
    startWaiters            |-> {},
    resumedPolls            |-> {},
    sentClaims              |-> {},
    resumedClaims           |-> {},
    sentAnswers             |-> {},
    resumedAnswers          |-> {},
    observers               |-> {} ]

Registered(trace, safe, ttl, external) ==
  [Unregistered(trace) EXCEPT !.phase = "live", !.safe = safe, !.ttl = ttl,
                              !.external = external]

-----------------------------------------------------------------------------
Live(c) == c.phase = "live"

\* nextToolBatch is one of: awaiting the start, about to resume, waiting for a batch.
Polling(c, p) == p \in c.startWaiters \cup c.resumedPolls \cup c.waiters

(***************************************************************************)
(* assertSafeHarnessRunning, with and without allowCompaction.             *)
(***************************************************************************)
HarnessRunning(c) == c.safe \in {"native", "running"}

HarnessOpen(c) ==
  /\ HarnessRunning(c)
  /\ c.compactionRequested => c.safe = "native"

\* Mutant: only what still waits for the owner is looked at.
NothingQueued(c) == c.queuedCallIds = {}

\* No MCP request holds a lease and no tool call is outstanding.
Quiet(c) == c.activities = {} /\ c.invocations = {}

(***************************************************************************)
(* revoke and rejectChannel: every promise the channel still owes is       *)
(* settled and the channel leaves the map.  Continuations that were        *)
(* already resolved run later and find no channel; the rest of the object  *)
(* is unreachable.                                                         *)
(***************************************************************************)
RejectedOutcome(c) ==
  [x \in Calls |-> IF x \in c.invocations THEN "rejected" ELSE c.outcome[x]]

Remains(c) ==
  [Unregistered(c.trace) EXCEPT
     !.phase = "retired",
     !.external = c.external,
     !.safe = IF c.safe = "native" THEN "native" ELSE "revoked",
     !.resumedPolls = c.resumedPolls,
     !.resumedClaims = c.resumedClaims,
     !.resumedAnswers = c.resumedAnswers]

\* Mutant: revocation forgets the polls that wait for a batch.
RevokedKeepingWaiters(c) ==
  [Remains(c) EXCEPT !.outcome = RejectedOutcome(c), !.waiters = c.waiters]

Revoked(c) == [Remains(c) EXCEPT !.outcome = RejectedOutcome(c)]

\* prune revokes a channel whose expiresAt has passed.
Expired(c) == Live(c) /\ c.ttl = "lapsed"

\* Mutant: the connector alone starts the turn.
ActivatedWithoutSent(c) ==
  IF c.safe = "awaiting_start" /\ c.connectorStarted
  THEN [c EXCEPT !.safe = "running",
                 !.ttl = "none",
                 !.resumedPolls = c.resumedPolls \cup c.startWaiters,
                 !.startWaiters = {}]
  ELSE c

(***************************************************************************)
(* activateSafeTurn: running needs both confirmations, ends the setup      *)
(* deadline and resolves whoever waits for the start.                      *)
(***************************************************************************)
Activated(c) ==
  IF c.safe = "awaiting_start" /\ c.launcherSent /\ c.connectorStarted
  THEN [c EXCEPT !.safe = "running",
                 !.ttl = "none",
                 !.resumedPolls = c.resumedPolls \cup c.startWaiters,
                 !.startWaiters = {}]
  ELSE c

\* takeQueued: everything queued is handed out in one batch.
QueueTaken(c) ==
  [c EXCEPT !.deliveredCallIds = c.deliveredCallIds \cup (c.queuedCallIds \cap c.invocations),
            !.queuedCallIds = {}]

\* Mutant: the timer is armed only when nobody waits.
ScheduledForNobody(c) ==
  IF c.queuedCallIds # {} /\ c.waiters = {}
  THEN [c EXCEPT !.batchTimer = TRUE]
  ELSE c

\* scheduleToolWaiters: at most one 15 ms timer, and only for somebody.
Scheduled(c) ==
  IF c.queuedCallIds # {} /\ c.waiters # {}
  THEN [c EXCEPT !.batchTimer = TRUE]
  ELSE c

(***************************************************************************)
(* The part of nextToolBatch after the Zero Risk start: what has been      *)
(* delivered and not answered is delivered again before anything new.      *)
(* A poll that returns or throws is no longer in any of the sets.          *)
(***************************************************************************)
Polled(c, p) ==
  IF ~HarnessRunning(c) \/ c.compactionRequested \/ c.deliveredCallIds # {}
  THEN c
  ELSE IF c.queuedCallIds # {}
       THEN QueueTaken(c)
       ELSE [c EXCEPT !.waiters = c.waiters \cup {p}]

\* Mutant: a delayed claim is not checked against the tombstones.
ClaimAllowedAgain(c, a) ==
  /\ Live(c)
  /\ ~c.completionCommitted
  /\ HarnessOpen(c)
  /\ a \in Activities

(***************************************************************************)
(* The part of "claim" after the Zero Risk Sent confirmation: the lease    *)
(* and the binding.                                                        *)
(***************************************************************************)
ClaimAllowed(c, a) ==
  /\ Live(c)
  /\ ~c.completionCommitted
  /\ HarnessOpen(c)
  /\ a \notin c.completedActivities

Claimed(c, a) ==
  [c EXCEPT !.activities = c.activities \cup {a},
            !.activityRevision = IF a \in c.activities THEN @ ELSE @ + 1,
            !.bound = TRUE]

\* Mutant: the revision counts the open activities instead of growing.
ActivityUncounted(c, a) ==
  IF a \in c.completedActivities
  THEN c
  ELSE [c EXCEPT !.activities = c.activities \ {a},
                 !.completedActivities = c.completedActivities \cup {a},
                 !.activityRevision = @ - 1]

\* activity_complete: the tombstone is left even if the claim never arrived.
ActivitySettled(c, a) ==
  IF a \in c.completedActivities
  THEN c
  ELSE [c EXCEPT !.activities = c.activities \ {a},
                 !.completedActivities = c.completedActivities \cup {a},
                 !.activityRevision = @ + 1]

\* Mutant: a retried codex_turn_complete is not recognised.
AnswerAllowedTwice(c) == Live(c) /\ c.safe \in {"running", "completed"} /\ Quiet(c)

\* completeSafeTurn's success: nothing may be outstanding.
AnswerAllowed(c) == Live(c) /\ c.safe = "running" /\ Quiet(c)

Answered(c, answer) ==
  [c EXCEPT !.safe = "completed",
            !.finalAnswer = answer,
            !.observers = c.observers \ {"completion"}]

-----------------------------------------------------------------------------
(***************************************************************************)
(* The invariant of a channel, in named parts.                             *)
(***************************************************************************)

\* An unsettled call is in exactly one of the two lists.
CallsAccounted(c) ==
  /\ c.invocations = {x \in Calls : c.outcome[x] = "pending"}
  /\ c.queuedCallIds \cup c.deliveredCallIds = c.invocations
  /\ c.queuedCallIds \cap c.deliveredCallIds = {}
  /\ c.phase \in {"fresh", "registering"} => \A x \in Calls : c.outcome[x] = "none"

\* A live turn counts the calls it answered with the compaction notice.
Compacted(c) == {x \in Calls : c.outcome[x] = "compacted"}

CompactionCounted(c) == Live(c) => c.compactionDeliveryCount = Cardinality(Compacted(c))

\* Whoever waits still has an event to come that settles the wait.
WakeupsOwed(c) ==
  /\ c.waiters # {} => Live(c)
  /\ c.waiters # {} /\ c.queuedCallIds # {} => c.batchTimer
  /\ c.batchTimer => Live(c) /\ ~c.compactionRequested
  /\ c.startWaiters # {} => Live(c) /\ c.safe = "awaiting_start"
  /\ c.sentClaims # {} \/ c.sentAnswers # {} =>
       Live(c) /\ c.safe = "awaiting_start" /\ ~c.launcherSent
  /\ "completion" \in c.observers => Live(c) /\ c.safe \in {"awaiting_start", "running"}
  /\ "retirement" \in c.observers => Live(c)

\* A Zero Risk turn works only between both confirmations and its final answer.
WorkAuthorized(c) ==
  /\ c.safe \in {"running", "completed"} => c.launcherSent /\ c.connectorStarted /\ c.ttl = "none"
  /\ c.safe = "awaiting_start" => ~(c.launcherSent /\ c.connectorStarted)
  /\ c.safe \in {"awaiting_start", "completed", "revoked"} => Quiet(c)
  /\ c.finalAnswer # NoAnswer <=> c.safe = "completed"

\* A settled activity stays settled; a committed completion has no request in flight.
LeasesClosed(c) ==
  /\ c.activities \cap c.completedActivities = {}
  /\ c.completionCommitted => c.activities = {} /\ c.completionRevision <= c.activityRevision

ChannelOK(c) == CallsAccounted(c) /\ WakeupsOwed(c) /\ WorkAuthorized(c) /\ LeasesClosed(c)
=============================================================================
