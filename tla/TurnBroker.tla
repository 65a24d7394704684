----------------------------- MODULE TurnBroker -----------------------------
(***************************************************************************)
(* The Turn Broker of src/adapters/chatgpt-web/turn-broker.ts: every       *)
(* handler that the owner (the Responses adapter), the MCP process and the *)
(* Launcher reach, in any order.  The broker is one Node event loop, so a  *)
(* handler up to its await is one step; what follows an await is a step of *)
(* its own that looks everything up again, as the code does.               *)
(*                                                                         *)
(* Every handler but a few starts with prune(), which revokes whatever     *)
(* has expired: Pruned is the state the rest of the handler works on.      *)
(***************************************************************************)
EXTENDS TurnChannel

CONSTANTS
  Tokens,     \* capability tokens; fresh random values, so never reused
  Contracts,  \* how a turn may be registered: "native", "awaiting_start" (Zero Risk)
  Deadlines   \* with or without a TTL: "none", "armed"

ASSUME ContractsAssumption == Contracts \subseteq {"native", "awaiting_start"}
ASSUME DeadlinesAssumption == Deadlines \subseteq {"none", "armed"}

VARIABLES channels,                 \* the map of TurnChannel records
          acceptingExternalOwners   \* closed while the runtime drains

vars == <<channels, acceptingExternalOwners>>

TypeOK == /\ channels \in [Tokens -> Channel]
          /\ acceptingExternalOwners \in BOOLEAN

Init == /\ channels \in [Tokens -> {Unregistered(tr) : tr \in Traces}]
        /\ acceptingExternalOwners = TRUE

-----------------------------------------------------------------------------
Pruned == [t \in Tokens |-> IF Expired(channels[t]) THEN Revoked(channels[t])
                                                    ELSE channels[t]]

\* A pruning handler that leaves channel t as c.
Serve(t, c) == /\ channels' = [Pruned EXCEPT ![t] = c]
               /\ UNCHANGED acceptingExternalOwners

\* A handler that does not prune and revokes the channels of ts.
RevokeAll(ts) ==
  channels' = [t \in Tokens |-> IF t \in ts /\ Live(channels[t])
                                THEN Revoked(channels[t]) ELSE channels[t]]

\* A request that only reads (owner_status, resolve, beginCompletionFence) or that is refused.
Prune == channels' = Pruned /\ UNCHANGED acceptingExternalOwners

\* Date.now() passes expiresAt.
ClockPasses(t) ==
  /\ channels[t].ttl = "armed"
  /\ channels' = [channels EXCEPT ![t].ttl = "lapsed"]
  /\ UNCHANGED acceptingExternalOwners

-----------------------------------------------------------------------------
(***************************************************************************)
(* The owner: registration.  An owner beside the daemon sends a request,   *)
(* which prunes; register then awaits the listener, and only what runs     *)
(* after that await decides.                                               *)
(***************************************************************************)
Admitted(external) == external => acceptingExternalOwners

RequestRegistration(t, external) ==
  /\ channels[t].phase = "fresh"
  /\ channels' = [(IF external THEN Pruned ELSE channels) EXCEPT
                    ![t].phase = "registering", ![t].external = external]
  /\ UNCHANGED acceptingExternalOwners

\* Mutant: register looks at the drain before its await, and not after it.
RegisterCheckedFirst(t, safe, ttl, external) ==
  LET c == Pruned[t] IN
  \/ Admitted(external) /\ RequestRegistration(t, external)
  \/ /\ c.phase = "registering"
     /\ Serve(t, Registered(c.trace, safe, ttl, c.external))

\* What follows "await this.start()": no token is handed out while the runtime drains.
Register(t, safe, ttl, external) ==
  LET c == Pruned[t] IN
  \/ RequestRegistration(t, external)
  \/ /\ c.phase = "registering" /\ c.external = external
     /\ Serve(t, IF Admitted(external) THEN Registered(c.trace, safe, ttl, external)
                                       ELSE Unregistered(c.trace))

-----------------------------------------------------------------------------
(***************************************************************************)
(* The owner: environment, revocation, retirement.                         *)
(***************************************************************************)
\* Mutant: the new environment replaces expiresAt too.
UpdateWholeEnvironment(t) ==
  /\ Live(Pruned[t])
  /\ Serve(t, [Pruned[t] EXCEPT !.ttl = "none"])

UpdateEnvironment(t) ==
  /\ Live(Pruned[t])
  /\ Serve(t, Pruned[t])

Revoke(t) == RevokeAll({t}) /\ UNCHANGED acceptingExternalOwners

RevokeTrace(trace) ==
  /\ RevokeAll({t \in Tokens : channels[t].trace = trace})
  /\ UNCHANGED acceptingExternalOwners

RevokeExternalOwners ==
  /\ RevokeAll({t \in Tokens : channels[t].external})
  /\ UNCHANGED acceptingExternalOwners

Close == RevokeAll(Tokens) /\ UNCHANGED acceptingExternalOwners

SetExternalOwnersAccepted(accepted) ==
  /\ acceptingExternalOwners' = accepted
  /\ UNCHANGED channels

\* A channel that is gone resolves at once.
WaitForRetirement(t) ==
  LET c == Pruned[t] IN
  /\ Live(c)
  /\ Serve(t, [c EXCEPT !.observers = @ \cup {"retirement"}])

-----------------------------------------------------------------------------
(***************************************************************************)
(* The owner: tool batches and results (nextToolBatch, completeTool).      *)
(***************************************************************************)
PollTools(t, p) ==
  LET c == Pruned[t] IN
  /\ Live(c) /\ ~Polling(c, p)
  /\ Serve(t, IF c.safe = "awaiting_start"
              THEN [c EXCEPT !.startWaiters = @ \cup {p}]
              ELSE Polled(c, p))

\* The continuation of "await this.waitForSafeStart".
ResumePoll(t, p) ==
  LET c == [Pruned[t] EXCEPT !.resumedPolls = @ \ {p}] IN
  /\ p \in channels[t].resumedPolls
  /\ Serve(t, IF Live(c) THEN Polled(c, p) ELSE c)

\* The abort listener of a waiting poll; it does not prune.
AbortPoll(t, p) ==
  /\ p \in channels[t].startWaiters \cup channels[t].waiters
  /\ channels' = [channels EXCEPT ![t].startWaiters = @ \ {p},
                                  ![t].waiters = @ \ {p}]
  /\ UNCHANGED acceptingExternalOwners

\* wakeToolWaiters, 15 ms after a call was queued: one waiter gets the batch, the rest reject.
BatchTimer(t) ==
  LET c == [channels[t] EXCEPT !.batchTimer = FALSE] IN
  /\ channels[t].batchTimer
  /\ channels' = [channels EXCEPT ![t] =
                    IF c.queuedCallIds # {} /\ c.waiters # {}
                    THEN [QueueTaken(c) EXCEPT !.waiters = {}]
                    ELSE c]
  /\ UNCHANGED acceptingExternalOwners

\* Mutant: the answered call stays in deliveredCallIds.
CompleteToolKeepingDelivery(t, x) ==
  LET c == Pruned[t] IN
  /\ Live(c) /\ HarnessRunning(c)
  /\ x \in c.invocations \cap c.deliveredCallIds
  /\ Serve(t, [c EXCEPT !.invocations = @ \ {x}, !.outcome[x] = "result"])

CompleteTool(t, x) ==
  LET c == Pruned[t] IN
  /\ Live(c) /\ HarnessRunning(c)
  /\ x \in c.invocations \cap c.deliveredCallIds
  /\ Serve(t, [c EXCEPT !.invocations = @ \ {x},
                        !.deliveredCallIds = @ \ {x},
                        !.outcome[x] = "result"])

-----------------------------------------------------------------------------
(***************************************************************************)
(* The owner: the completion fence.  beginCompletionFence changes nothing; *)
(* FenceOpen and FenceRevision are what it answers.                        *)
(***************************************************************************)
FenceOpen(c) == Live(c) /\ (c.completionCommitted \/ Quiet(c))

FenceRevision(c) == IF c.completionCommitted THEN c.completionRevision
                                             ELSE c.activityRevision

CommitCompletionFence(t, revision) ==
  LET c == Pruned[t] IN
  /\ Live(c) /\ ~c.completionCommitted
  /\ c.activityRevision = revision
  /\ Quiet(c)
  /\ Serve(t, [c EXCEPT !.completionCommitted = TRUE,
                        !.completionRevision = revision])

\* Mutant: the notice also answers what the owner already holds.
CompactDelivered(t) ==
  LET c == Pruned[t] IN
  /\ Live(c) /\ HarnessRunning(c) /\ ~c.compactionRequested
  /\ Serve(t, [c EXCEPT
       !.compactionRequested = TRUE,
       !.batchTimer = FALSE,
       !.outcome = [x \in Calls |-> IF x \in c.invocations THEN "compacted" ELSE c.outcome[x]],
       !.compactionDeliveryCount = @ + Cardinality(c.invocations),
       !.invocations = {},
       !.deliveredCallIds = {},
       !.queuedCallIds = {}])

(***************************************************************************)
(* The owner: context compaction.  What is queued is answered with the     *)
(* compaction notice; what was delivered stays with the owner.             *)
(***************************************************************************)
RequestCompaction(t) ==
  LET c == Pruned[t] IN
  /\ Live(c) /\ HarnessRunning(c) /\ ~c.compactionRequested
  /\ Serve(t, [c EXCEPT
       !.compactionRequested = TRUE,
       !.batchTimer = FALSE,
       !.outcome = [x \in Calls |-> IF x \in c.queuedCallIds \cap c.invocations
                                    THEN "compacted" ELSE c.outcome[x]],
       !.compactionDeliveryCount = @ + Cardinality(c.queuedCallIds \cap c.invocations),
       !.invocations = @ \ c.queuedCallIds,
       !.queuedCallIds = {}])

-----------------------------------------------------------------------------
(***************************************************************************)
(* Zero Risk: the connector's start, the Launcher's Sent confirmation, the *)
(* final answer.                                                           *)
(***************************************************************************)
StartSafeTurn(t) ==
  LET c == Pruned[t] IN
  /\ Live(c) /\ c.safe \in {"awaiting_start", "running"}
  /\ ~c.connectorStarted
  /\ Serve(t, Activated([c EXCEPT !.connectorStarted = TRUE]))

ConfirmSafeTurnSent(t) ==
  LET c == Pruned[t] IN
  /\ Live(c) /\ c.safe \in {"awaiting_start", "running"}
  /\ ~c.launcherSent
  /\ Serve(t, Activated([c EXCEPT !.launcherSent = TRUE,
                                  !.resumedClaims = @ \cup c.sentClaims,
                                  !.sentClaims = {},
                                  !.resumedAnswers = @ \cup c.sentAnswers,
                                  !.sentAnswers = {}]))

\* safe_complete: before Sent it waits; the answer is accepted once.
CompleteSafeTurn(t, answer) ==
  LET c == Pruned[t] IN
  \/ /\ Live(c) /\ c.safe = "awaiting_start" /\ ~c.launcherSent
     /\ Serve(t, [c EXCEPT !.sentAnswers = @ \cup {answer}])
  \/ /\ AnswerAllowed(c)
     /\ Serve(t, Answered(c, answer))

ResumeSafeAnswer(t, answer) ==
  LET c == [Pruned[t] EXCEPT !.resumedAnswers = @ \ {answer}] IN
  /\ answer \in channels[t].resumedAnswers
  /\ Serve(t, IF AnswerAllowed(c) THEN Answered(c, answer) ELSE c)

WaitForSafeCompletion(t) ==
  LET c == Pruned[t] IN
  /\ Live(c) /\ c.safe \in {"awaiting_start", "running"}
  /\ Serve(t, [c EXCEPT !.observers = @ \cup {"completion"}])

-----------------------------------------------------------------------------
(***************************************************************************)
(* The MCP process.  A request with the wrong contract for the token, or   *)
(* with a binding that is gone, is refused (Prune).                        *)
(***************************************************************************)
ClaimWaits(c) ==
  /\ Live(c) /\ ~c.completionCommitted
  /\ c.safe = "awaiting_start" /\ ~c.launcherSent

Claim(t, a) ==
  LET c == Pruned[t] IN
  \/ /\ ClaimWaits(c)
     /\ Serve(t, [c EXCEPT !.sentClaims = @ \cup {a}])
  \/ /\ ClaimAllowed(c, a)
     /\ Serve(t, Claimed(c, a))

\* The continuation of "await this.waitForSafeSent".
ResumeClaim(t, a) ==
  LET c == [Pruned[t] EXCEPT !.resumedClaims = @ \ {a}] IN
  /\ a \in channels[t].resumedClaims
  /\ Serve(t, IF ClaimAllowed(c, a) THEN Claimed(c, a) ELSE c)

\* The MCP process drops the connection of a claim or an answer that waits for Sent.
AbortSentWait(t) ==
  \/ \E a \in channels[t].sentClaims :
       /\ channels' = [channels EXCEPT ![t].sentClaims = @ \ {a}]
       /\ UNCHANGED acceptingExternalOwners
  \/ \E answer \in channels[t].sentAnswers :
       /\ channels' = [channels EXCEPT ![t].sentAnswers = @ \ {answer}]
       /\ UNCHANGED acceptingExternalOwners

ActivityComplete(t, a) ==
  /\ Live(Pruned[t])
  /\ Serve(t, ActivitySettled(Pruned[t], a))

\* "release" of a binding that still exists.
Release(t) ==
  /\ Live(Pruned[t]) /\ Pruned[t].bound
  /\ Serve(t, Revoked(Pruned[t]))

Invoke(t, x) ==
  LET c == Pruned[t] IN
  /\ Live(c) /\ c.bound /\ HarnessOpen(c)
  /\ c.outcome[x] = "none"
  /\ Serve(t,
       IF c.compactionRequested
       THEN [c EXCEPT !.outcome[x] = "compacted",
                      !.compactionDeliveryCount = @ + 1]
       ELSE Scheduled([c EXCEPT !.outcome[x] = "pending",
                                !.invocations = @ \cup {x},
                                !.queuedCallIds = @ \cup {x}]))

-----------------------------------------------------------------------------
OwnerStep(t) ==
  \/ \E safe \in Contracts, ttl \in Deadlines, external \in BOOLEAN :
       Register(t, safe, ttl, external)
  \/ UpdateEnvironment(t)
  \/ Revoke(t)
  \/ WaitForRetirement(t)
  \/ \E p \in Polls : PollTools(t, p) \/ ResumePoll(t, p) \/ AbortPoll(t, p)
  \/ BatchTimer(t)
  \/ \E x \in Calls : CompleteTool(t, x)
  \/ \E revision \in 0 .. channels[t].activityRevision : CommitCompletionFence(t, revision)
  \/ RequestCompaction(t)

SafeStep(t) ==
  \/ StartSafeTurn(t)
  \/ ConfirmSafeTurnSent(t)
  \/ WaitForSafeCompletion(t)
  \/ \E answer \in Answers : CompleteSafeTurn(t, answer) \/ ResumeSafeAnswer(t, answer)

McpStep(t) ==
  \/ \E a \in Activities : Claim(t, a) \/ ResumeClaim(t, a) \/ ActivityComplete(t, a)
  \/ AbortSentWait(t)
  \/ Release(t)
  \/ \E x \in Calls : Invoke(t, x)

RuntimeStep ==
  \/ Prune
  \/ RevokeExternalOwners
  \/ Close
  \/ \E trace \in Traces : RevokeTrace(trace)
  \/ \E accepted \in BOOLEAN : SetExternalOwnersAccepted(accepted)

Next ==
  \/ \E t \in Tokens : ClockPasses(t) \/ OwnerStep(t) \/ SafeStep(t) \/ McpStep(t)
  \/ RuntimeStep

Spec == Init /\ [][Next]_vars

-----------------------------------------------------------------------------
(***************************************************************************)
(* Properties.                                                             *)
(***************************************************************************)

\* No tool call is lost or doubled by the queue, the batches, the compaction notice or a late
\* result: every unsettled invocation is either queued or delivered, never both
\* (turn-broker.ts: queuedCallIds, deliveredCallIds, invocations, compactionDeliveryCount).
CallLedger == \A t \in Tokens : CallsAccounted(channels[t]) /\ CompactionCounted(channels[t])

\* No promise of the broker is forgotten: a poll facing a queued call has the batch timer running,
\* and nobody waits on a turn for an event that is already past (waiters, startWaiters,
\* sentWaiters, completionWaiters, retirementWaiters of turn-broker.ts).
NoLostWakeup == \A t \in Tokens : WakeupsOwed(channels[t])

\* Nothing of a Zero Risk turn runs before the user confirmed Sent and the connector started, or
\* after the final answer; and once running it has no deadline that could revoke it
\* (assertSafeHarnessRunning, activateSafeTurn, completeSafeTurn).
SafeAuthorization == \A t \in Tokens : WorkAuthorized(channels[t])

\* A delayed claim never resurrects an activity that was already settled, and none is in flight
\* after the completion fence committed (completedActivities, commitCompletionFence).
NoLeaseAfterClosure == \A t \in Tokens : LeasesClosed(channels[t])

\* A Zero Risk answer that was accepted is never replaced by a retry, and a committed completion
\* is never taken back or moved to another revision while the turn is live.
CompletionKept(c, d) ==
  /\ c.safe = "completed" => d.safe = "completed" /\ d.finalAnswer = c.finalAnswer
  /\ c.completionCommitted => d.completionCommitted /\ d.completionRevision = c.completionRevision

CompletionIsFinal ==
  [][\A t \in Tokens : Live(channels[t]) /\ Live(channels'[t]) =>
       CompletionKept(channels[t], channels'[t])]_vars

\* A registration deadline disappears only because a Zero Risk turn starts running: no owner
\* update, poll or retry extends the setup window (updateEnvironment keeps expiresAt).
DeadlineStays(c, d) ==
  c.ttl # "none" => d.ttl # "none" \/ (c.safe = "awaiting_start" /\ d.safe = "running")

DeadlineKept ==
  [][\A t \in Tokens : Live(channels[t]) /\ Live(channels'[t]) =>
       DeadlineStays(channels[t], channels'[t])]_vars

\* The broker implements the abstract life of a tool call: handed out in whole batches, answered
\* only by the owner once handed out, settled exactly once (ToolCalls).
CallStatus(c, x) ==
  IF c.outcome[x] # "pending" THEN c.outcome[x]
  ELSE IF x \in c.queuedCallIds THEN "queued" ELSE "delivered"

Abstract == INSTANCE ToolCalls
              WITH status <- [t \in Tokens |-> [x \in Calls |-> CallStatus(channels[t], x)]]

ImplementsToolCalls == Abstract!Spec

\* Once the runtime refuses external owners and none is left, none appears until it accepts them
\* again.  externalOwnerActiveCount() does not count a registration that awaits the listener, so
\* the drain may see none while one is on its way: that one must be refused when it goes on
\* (register, setExternalOwnersAccepted).
ExternalOwnersGone == \A t \in Tokens : ~(Live(channels[t]) /\ channels[t].external)

DrainStaysDrained ==
  [][~acceptingExternalOwners /\ ExternalOwnersGone /\ ~acceptingExternalOwners'
       => ExternalOwnersGone']_vars

\* If timers fire, a poll that faces a queued call is answered, or somebody else took the calls
\* (scheduleToolWaiters, wakeToolWaiters).
PollsAnswered ==
  \A t \in Tokens :
    (channels[t].queuedCallIds # {} /\ channels[t].waiters # {})
      ~> (channels[t].queuedCallIds = {} \/ channels[t].waiters = {})
=============================================================================
