-------------------------- MODULE NativeTurn_proofs --------------------------
(***************************************************************************)
(* What holds in every reachable state of a turn, for any number of calls, *)
(* requests, disconnects and abandoned broker calls.  The inductive        *)
(* invariant joins that of the broker (TurnBroker_proofs) with four parts: *)
(* what kind of channel the turn has, what the adapter knows of the calls  *)
(* it holds, where the requests and their broker calls are, and what the   *)
(* worker's fence and read are worth.  A part says nothing of a step that  *)
(* leaves its variables alone, which the Quiet lemmas state once.          *)
(***************************************************************************)
EXTENDS NativeTurn, BrokerRefinement_proofs

USE DEF turn, Live

\* The turn's channel: native, without a deadline, polled by the rounds only.  A channel that is
\* gone has no work and no lease, and no promise is rejected before it goes.
NativeChannel(c) ==
  /\ c.safe = "native" /\ c.ttl = "none" /\ c.phase \in {"live", "retired"}
  /\ c.startWaiters = {} /\ c.resumedPolls = {} /\ c.waiters \subseteq {Poll}
  /\ c.activities # {} => c.bound
  /\ Live(c) => \A x \in Calls : c.outcome[x] # "rejected"
  /\ ~Live(c) => c.activities = {} /\ c.invocations = {} /\ ~c.completionCommitted

OwnerTypes ==
  /\ round \in {"away", "polling", "observing", "returning", "compacting", "finished"}
  /\ batch \in SUBSET Calls /\ outstanding \in SUBSET Calls
  /\ activeToolCalls \in Nat
  /\ boundary \in {"none", "recorded", "mirrored", "acknowledged"}
  /\ disconnects \in 0 .. MaxDisconnects

\* A round polls or holds a batch, or Codex holds calls; what they hold is delivered and counted,
\* and nothing else is as long as no observer went away.
OwnerInvariant ==
  /\ OwnerTypes
  /\ turn.waiters # {} => round = "polling"
  /\ batch # {} => round = "observing"
  /\ round \in {"polling", "observing"} => outstanding = {}
  /\ Live(turn) =>
       /\ outstanding \cup batch \subseteq turn.deliveredCallIds
       /\ Cardinality(turn.deliveredCallIds) <= activeToolCalls
       /\ disconnects = 0 => /\ turn.deliveredCallIds = outstanding \cup batch
                             /\ activeToolCalls = Cardinality(turn.deliveredCallIds)

Written(a) == {call \in BrokerCalls : <<call, a>> \in network}

\* Which broker calls of a request may be unread, stale ones included, at each of its stages.
Unread(stage) ==
  CASE stage \in {"idle", "action"} -> {}
    [] stage = "claim"              -> {"claim"}
    [] stage = "invoke"             -> {"invoke"}
    [] stage = "release"            -> {"invoke", "release"}
    [] stage = "settle"             -> BrokerCalls \ {"resettle"}
    [] stage \in {"resettle", "done"} -> BrokerCalls

\* A request makes its call once, and whoever cleans up had a fault.
RequestAt(a) ==
  /\ Written(a) \subseteq Unread(awaiting[a])
  /\ awaiting[a] \in {"idle", "claim", "action"} => turn.outcome[a] = "none"
  /\ turn.outcome[a] # "none" => "invoke" \notin Written(a)
  /\ awaiting[a] = "resettle" => faults > 0
  /\ awaiting[a] = "release" => faults > 0 \/ ~Live(turn)

\* While at most one caller gave up: a working request holds its lease, a call can only come from
\* a request that waits for it, and a request that is over has left its tombstone.
LeaseAt(a) ==
  /\ awaiting[a] \in {"action", "invoke", "release"} => a \in turn.activities
  /\ "invoke" \in Written(a) \/ a \in turn.invocations => awaiting[a] \in {"invoke", "release"}
  /\ awaiting[a] = "done" => a \in turn.completedActivities

RequestInvariant ==
  /\ McpTypeOK
  /\ \A a \in Activities : RequestAt(a)
  /\ Live(turn) /\ faults <= 1 =>
       /\ \A a \in Activities : LeaseAt(a)
       /\ turn.completionCommitted => turn.invocations = {}

\* The fence was captured before the fresh read, and the read before now.
WorkerInvariant ==
  /\ worker \in {"reading", "rereading", "committing", "final", "aborted"}
  /\ mirror \in Nat /\ fence \in Nat \cup {NoFence} /\ readRevision \in Nat
  /\ Live(turn) /\ worker \in {"rereading", "committing"} =>
       fence \in Nat /\ fence <= turn.activityRevision
  /\ Live(turn) /\ worker = "committing" =>
       fence <= readRevision /\ readRevision <= turn.activityRevision

TurnInvariant ==
  IInv /\ NativeChannel(turn) /\ OwnerInvariant /\ RequestInvariant /\ WorkerInvariant

-----------------------------------------------------------------------------
(***************************************************************************)
(* Every step of the turn is a step of the broker, or none of it.          *)
(***************************************************************************)

\* A turn without a deadline is never pruned.
LEMMA TurnNotPruned ==
  ASSUME IInv, turn.ttl = "none"
  PROVE  /\ Pruned[Turn] = turn /\ turn \in Channel /\ OK(turn)
         /\ \A d : Serve(Turn, d) => turn' = d
         /\ Prune => turn' = turn
<1>1. Pruned[Turn] = turn
  BY TurnAssumption DEF Pruned, Expired
<1>2. OK(turn) /\ turn \in Channel /\ Pruned \in [Tokens -> Channel]
  BY PrunedOK, TurnAssumption DEF OK
<1> QED BY <1>1, <1>2, TurnAssumption DEF Serve, Prune

LEMMA RequestIsBrokerStep ==
  ASSUME NEW a \in Activities, RequestStep(a) PROVE [Next]_vars
<1>1. a \in Calls
  BY RequestAssumption
<1>2. CASE HandleClaim(a)
  BY <1>2, TurnAssumption DEF HandleClaim, Next, McpStep, RuntimeStep
<1>3. CASE HandleInvoke(a)
  BY <1>1, <1>3, TurnAssumption DEF HandleInvoke, Next, McpStep, RuntimeStep
<1>4. CASE HandleRelease(a)
  BY <1>4, TurnAssumption DEF HandleRelease, Next, McpStep, RuntimeStep
<1>5. CASE HandleSettle(a)
  BY <1>5, TurnAssumption DEF HandleSettle, Next, McpStep, RuntimeStep
<1>6. CASE StartRequest(a) \/ Act(a) \/ InvokeReturns(a) \/ GiveUp(a)
  BY <1>6 DEF StartRequest, Act, InvokeReturns, GiveUp, vars
<1> QED
  BY <1>2, <1>3, <1>4, <1>5, <1>6 DEF RequestStep, McpRequestStep, HandleCall

LEMMA OwnerIsBrokerStep == ASSUME OwnerNext PROVE [Next]_vars
<1>1. ASSUME OwnerStep(Turn) PROVE Next
  BY <1>1, TurnAssumption DEF Next
<1>2. CASE ArmNextTools
  BY <1>1, <1>2, PollAssumption DEF ArmNextTools, OwnerStep
<1>3. CASE BatchArrives
  BY <1>1, <1>3 DEF BatchArrives, OwnerStep
<1>4. CASE Journal
  BY <1>4 DEF Journal
<1>5. CASE Disconnect
  BY <1>1, <1>5, PollAssumption DEF Disconnect, OwnerStep
<1>6. CASE ResultsArrive
  BY <1>6 DEF ResultsArrive
<1>7. ASSUME NEW x \in Calls, ReturnResult(x) PROVE [Next]_vars
  BY <1>1, <1>7 DEF ReturnResult, OwnerStep
<1>8. CASE Compact
  BY <1>1, <1>8 DEF Compact, OwnerStep
<1>9. CASE Cancel
  BY <1>1, <1>9 DEF Cancel, OwnerStep
<1>10. CASE Finish
  BY <1>1, <1>10 DEF Finish, OwnerStep
<1>11. CASE RetirementObserved
  BY <1>11 DEF RetirementObserved
<1> QED
  BY <1>2, <1>3, <1>4, <1>5, <1>6, <1>7, <1>8, <1>9, <1>10, <1>11 DEF OwnerNext

LEMMA WorkerIsBrokerStep == ASSUME IInv, turn.ttl = "none", WorkerNext PROVE [Next]_vars
<1>1. ASSUME CommitCompletionFence(Turn, fence) PROVE Next
  <2>1. fence \in 0 .. channels[Turn].activityRevision
    BY <1>1, TurnNotPruned DEF CommitCompletionFence, Channel
  <2> QED BY <1>1, <2>1, TurnAssumption DEF Next, OwnerStep
<1>2. CASE CommitFence
  BY <1>1, <1>2 DEF CommitFence, Next, RuntimeStep
<1> QED
  BY <1>2 DEF WorkerNext, MirrorProgress, ObserveBatch, NotReady, BeginFence, FreshRead

LEMMA TurnNextIsBrokerStep ==
  ASSUME IInv, turn.ttl = "none", [TurnNext]_turnVars PROVE [Next]_vars
  BY RequestIsBrokerStep, OwnerIsBrokerStep, WorkerIsBrokerStep DEF TurnNext, turnVars

-----------------------------------------------------------------------------
(***************************************************************************)
(* What each broker call does to the turn's channel.                       *)
(***************************************************************************)
SameLeases(c, d) ==
  /\ d.phase = c.phase /\ d.safe = c.safe /\ d.ttl = c.ttl
  /\ d.startWaiters = c.startWaiters /\ d.resumedPolls = c.resumedPolls
  /\ d.bound = c.bound /\ d.activities = c.activities
  /\ d.completedActivities = c.completedActivities
  /\ d.activityRevision = c.activityRevision

SamePromises(c, d) == d.outcome = c.outcome /\ d.invocations = c.invocations

\* The hypotheses of every step: what holds of the turn before it.
TurnChannelOK == IInv /\ NativeChannel(turn)

LEMMA TurnFacts ==
  ASSUME TurnChannelOK
  PROVE  /\ turn \in Channel /\ OK(turn) /\ turn.ttl = "none" /\ IsFiniteSet(turn.deliveredCallIds)
         /\ turn.deliveredCallIds \subseteq turn.invocations
         /\ turn.invocations = {x \in Calls : turn.outcome[x] = "pending"}
         /\ ~Live(turn) => turn.waiters = {}
         /\ turn.completionCommitted => turn.activities = {}
         /\ turn.activities \cap turn.completedActivities = {}
<1>1. OK(turn) /\ turn \in Channel /\ turn.ttl = "none"
  BY TurnNotPruned DEF TurnChannelOK, NativeChannel
<1>2. turn.deliveredCallIds \in SUBSET Calls
  BY <1>1 DEF Channel
<1>3. IsFiniteSet(turn.deliveredCallIds)
  BY <1>2, CallsAssumption, FS_Subset
<1> QED
  BY <1>1, <1>3 DEF OK, ChannelOK, CallsAccounted, WakeupsOwed, LeasesClosed

LEMMA TurnServed ==
  ASSUME TurnChannelOK
  PROVE  Pruned[Turn] = turn /\ \A d : Serve(Turn, d) => turn' = d
  BY TurnNotPruned DEF TurnChannelOK, NativeChannel

LEMMA RevokedTurn ==
  ASSUME TurnChannelOK, Revoke(Turn)
  PROVE  /\ ~Live(turn') /\ NativeChannel(turn') /\ turn'.waiters = {}
         /\ \A x \in Calls : turn'.outcome[x] # "none" => turn.outcome[x] # "none"
<1>1. turn' = IF Live(turn) THEN Revoked(turn) ELSE turn
  BY TurnAssumption DEF Revoke, RevokeAll
<1>2. CASE Live(turn)
  BY <1>1, <1>2, TurnFacts
  DEF TurnChannelOK, NativeChannel, Revoked, Remains, Unregistered, RejectedOutcome
<1>3. CASE ~Live(turn)
  BY <1>1, <1>3, TurnFacts DEF TurnChannelOK, NativeChannel
<1> QED BY <1>2, <1>3

LEMMA ReleasedTurn ==
  ASSUME TurnChannelOK, Release(Turn)
  PROVE  /\ ~Live(turn') /\ NativeChannel(turn') /\ turn'.waiters = {}
         /\ \A x \in Calls : turn'.outcome[x] # "none" => turn.outcome[x] # "none"
<1>1. turn' = Revoked(turn) /\ Live(turn)
  BY TurnNotPruned, TurnFacts DEF Release, TurnChannelOK
<1> QED
  BY <1>1, TurnFacts
  DEF TurnChannelOK, NativeChannel, Revoked, Remains, Unregistered, RejectedOutcome

\* nextToolBatch for the round: the batch is there, or the round waits for one.
LEMMA PolledTurn ==
  ASSUME TurnChannelOK, PollTools(Turn, Poll)
  PROVE  /\ NativeChannel(turn') /\ SameLeases(turn, turn') /\ SamePromises(turn, turn')
         /\ turn'.completionCommitted = turn.completionCommitted
         /\ turn.waiters = {} /\ turn.deliveredCallIds \subseteq turn'.deliveredCallIds
         /\ \/ turn'.waiters = {Poll} /\ turn'.deliveredCallIds = turn.deliveredCallIds
            \/ turn'.waiters = {}
<1>1. turn' = Polled(turn, Poll) /\ Live(turn) /\ ~Polling(turn, Poll) /\ turn \in Channel
  BY TurnNotPruned, TurnFacts DEF PollTools, TurnChannelOK, NativeChannel
<1>2. turn.waiters = {}
  BY <1>1 DEF Polling, TurnChannelOK, NativeChannel
<1> DEFINE D == turn.deliveredCallIds \cup (turn.queuedCallIds \cap turn.invocations)
           W == turn.waiters \cup {Poll}
<1>3. turn' = turn \/ turn' = [turn EXCEPT !.deliveredCallIds = D, !.queuedCallIds = {}]
        \/ turn' = [turn EXCEPT !.waiters = W]
  BY <1>1 DEF Polled, QueueTaken
<1>4. turn.deliveredCallIds \subseteq D /\ W = {Poll}
  BY <1>2
<1> HIDE DEF D, W
<1>5. /\ SameLeases(turn, turn') /\ SamePromises(turn, turn')
      /\ turn'.completionCommitted = turn.completionCommitted
      /\ \/ turn'.waiters = turn.waiters /\ turn'.deliveredCallIds = turn.deliveredCallIds
         \/ turn'.waiters = turn.waiters /\ turn'.deliveredCallIds = D
         \/ turn'.waiters = W /\ turn'.deliveredCallIds = turn.deliveredCallIds
  <2>1. CASE turn' = turn
    BY <2>1 DEF SameLeases, SamePromises
  <2>2. CASE turn' = [turn EXCEPT !.deliveredCallIds = D, !.queuedCallIds = {}]
    BY <1>1, <2>2 DEF SameLeases, SamePromises, Channel
  <2>3. CASE turn' = [turn EXCEPT !.waiters = W]
    BY <1>1, <2>3 DEF SameLeases, SamePromises, Channel
  <2> QED BY <1>3, <2>1, <2>2, <2>3
<1>6. NativeChannel(turn')
  BY <1>1, <1>2, <1>4, <1>5 DEF TurnChannelOK, NativeChannel, SameLeases, SamePromises
<1> QED
  BY <1>2, <1>4, <1>5, <1>6

\* wakeToolWaiters: the round's poll gets everything that is queued.
LEMMA TimedTurn ==
  ASSUME TurnChannelOK, BatchTimer(Turn)
  PROVE  /\ NativeChannel(turn') /\ SameLeases(turn, turn') /\ SamePromises(turn, turn')
         /\ turn'.completionCommitted = turn.completionCommitted
         /\ turn.deliveredCallIds \subseteq turn'.deliveredCallIds
         /\ \/ /\ turn'.waiters = turn.waiters
               /\ turn'.deliveredCallIds = turn.deliveredCallIds
            \/ turn'.waiters = {} /\ turn.waiters # {}
<1> DEFINE D == turn.deliveredCallIds \cup (turn.queuedCallIds \cap turn.invocations)
<1>1. turn \in Channel
  BY TurnFacts
<1>2. \/ turn' = [turn EXCEPT !.batchTimer = FALSE]
      \/ /\ turn.waiters # {}
         /\ turn' = [[[turn EXCEPT !.batchTimer = FALSE]
                        EXCEPT !.deliveredCallIds = D, !.queuedCallIds = {}]
                        EXCEPT !.waiters = {}]
  BY <1>1, TurnAssumption DEF BatchTimer, QueueTaken, TurnChannelOK, IInv, TypeOK, Channel
<1>3. turn.deliveredCallIds \subseteq D
  OBVIOUS
<1> HIDE DEF D
<1>4. /\ SameLeases(turn, turn') /\ SamePromises(turn, turn')
      /\ turn'.completionCommitted = turn.completionCommitted
      /\ \/ turn'.waiters = turn.waiters /\ turn'.deliveredCallIds = turn.deliveredCallIds
         \/ turn'.waiters = {} /\ turn.waiters # {} /\ turn'.deliveredCallIds = D
  <2>1. CASE turn' = [turn EXCEPT !.batchTimer = FALSE]
    BY <1>1, <2>1 DEF SameLeases, SamePromises, Channel
  <2>2. CASE /\ turn.waiters # {}
             /\ turn' = [[[turn EXCEPT !.batchTimer = FALSE]
                           EXCEPT !.deliveredCallIds = D, !.queuedCallIds = {}]
                           EXCEPT !.waiters = {}]
    BY <1>1, <2>2 DEF SameLeases, SamePromises, Channel
  <2> QED BY <1>2, <2>1, <2>2
<1> QED
  BY <1>3, <1>4 DEF TurnChannelOK, NativeChannel, SameLeases, SamePromises

LEMMA AbortedTurn ==
  ASSUME TurnChannelOK, AbortPoll(Turn, Poll)
  PROVE  /\ NativeChannel(turn') /\ SameLeases(turn, turn') /\ SamePromises(turn, turn')
         /\ turn'.completionCommitted = turn.completionCommitted
         /\ turn'.deliveredCallIds = turn.deliveredCallIds /\ turn'.waiters = {}
<1> DEFINE S == turn.startWaiters \ {Poll}
           W == turn.waiters \ {Poll}
<1>1. turn \in Channel
  BY TurnFacts
<1>2. turn' = [turn EXCEPT !.startWaiters = S, !.waiters = W]
  BY TurnAssumption DEF AbortPoll, TurnChannelOK, IInv, TypeOK
<1>3. S = turn.startWaiters /\ W = {}
  BY DEF TurnChannelOK, NativeChannel
<1> HIDE DEF S, W
<1>4. /\ SameLeases(turn, turn') /\ SamePromises(turn, turn')
      /\ turn'.completionCommitted = turn.completionCommitted
      /\ turn'.deliveredCallIds = turn.deliveredCallIds /\ turn'.waiters = {}
  BY <1>1, <1>2, <1>3 DEF SameLeases, SamePromises, Channel
<1> QED
  BY <1>4 DEF TurnChannelOK, NativeChannel, SameLeases, SamePromises

LEMMA CompletedTurn ==
  ASSUME TurnChannelOK, NEW x \in Calls, CompleteTool(Turn, x)
  PROVE  /\ NativeChannel(turn') /\ SameLeases(turn, turn') /\ Live(turn)
         /\ turn'.completionCommitted = turn.completionCommitted
         /\ turn'.waiters = turn.waiters
         /\ x \in turn.deliveredCallIds /\ x \in turn.invocations
         /\ turn'.deliveredCallIds = turn.deliveredCallIds \ {x}
         /\ turn'.invocations = turn.invocations \ {x}
         /\ turn'.outcome = [turn.outcome EXCEPT ![x] = "result"]
<1> DEFINE I == turn.invocations \ {x}
           D == turn.deliveredCallIds \ {x}
           O == [turn.outcome EXCEPT ![x] = "result"]
<1>1. turn \in Channel /\ turn.outcome \in [Calls -> Outcomes]
  BY TurnFacts DEF Channel
<1>2. /\ turn' = [turn EXCEPT !.invocations = I, !.deliveredCallIds = D, !.outcome = O]
      /\ Live(turn) /\ x \in turn.invocations \cap turn.deliveredCallIds
  BY TurnServed DEF CompleteTool
<1>3. \A y \in Calls : O[y] = "rejected" => turn.outcome[y] = "rejected"
  BY <1>1
<1> HIDE DEF I, D, O
<1>4. /\ SameLeases(turn, turn') /\ turn'.completionCommitted = turn.completionCommitted
      /\ turn'.waiters = turn.waiters
      /\ turn'.invocations = I /\ turn'.deliveredCallIds = D /\ turn'.outcome = O
  BY <1>1, <1>2 DEF SameLeases, Channel
<1> QED
  BY <1>2, <1>3, <1>4 DEF TurnChannelOK, NativeChannel, SameLeases, I, D, O

LEMMA CompactedTurn ==
  ASSUME TurnChannelOK, RequestCompaction(Turn)
  PROVE  /\ NativeChannel(turn') /\ SameLeases(turn, turn')
         /\ turn'.completionCommitted = turn.completionCommitted
         /\ turn'.waiters = turn.waiters
         /\ turn'.deliveredCallIds = turn.deliveredCallIds
         /\ turn'.invocations \subseteq turn.invocations
         /\ \A x \in Calls : turn'.outcome[x] # "none" => turn.outcome[x] # "none"
<1> DEFINE I == turn.invocations \ turn.queuedCallIds
           O == [x \in Calls |-> IF x \in turn.queuedCallIds \cap turn.invocations
                                 THEN "compacted" ELSE turn.outcome[x]]
           N == turn.compactionDeliveryCount
                  + Cardinality(turn.queuedCallIds \cap turn.invocations)
<1>1. turn \in Channel
  BY TurnFacts
<1>2. /\ Live(turn)
      /\ turn' = [turn EXCEPT !.compactionRequested = TRUE, !.batchTimer = FALSE,
                              !.outcome = O, !.compactionDeliveryCount = N,
                              !.invocations = I, !.queuedCallIds = {}]
  BY TurnServed DEF RequestCompaction
<1>3. /\ \A y \in Calls : O[y] = "rejected" => turn.outcome[y] = "rejected"
      /\ \A y \in Calls : O[y] # "none" => turn.outcome[y] # "none"
      /\ I \subseteq turn.invocations
  BY TurnFacts
<1> HIDE DEF I, O, N
<1>4. /\ SameLeases(turn, turn') /\ turn'.completionCommitted = turn.completionCommitted
      /\ turn'.waiters = turn.waiters /\ turn'.deliveredCallIds = turn.deliveredCallIds
      /\ turn'.invocations = I /\ turn'.outcome = O
  BY <1>1, <1>2 DEF SameLeases, Channel
<1> QED
  BY <1>2, <1>3, <1>4 DEF TurnChannelOK, NativeChannel, SameLeases

LEMMA CommittedTurn ==
  ASSUME TurnChannelOK, CommitCompletionFence(Turn, fence)
  PROVE  /\ NativeChannel(turn') /\ SameLeases(turn, turn') /\ SamePromises(turn, turn')
         /\ turn'.waiters = turn.waiters /\ turn'.deliveredCallIds = turn.deliveredCallIds
         /\ turn.invocations = {} /\ Live(turn) /\ turn.activityRevision = fence
<1>1. turn \in Channel
  BY TurnFacts
<1>2. /\ Live(turn) /\ Quiet(turn) /\ turn.activityRevision = fence
      /\ turn' = [turn EXCEPT !.completionCommitted = TRUE, !.completionRevision = fence]
  BY TurnServed DEF CommitCompletionFence
<1> DEFINE r == fence
<1> HIDE DEF r
<1>3. turn' = [turn EXCEPT !.completionCommitted = TRUE, !.completionRevision = r]
  BY <1>2 DEF r
<1>4. SameLeases(turn, turn')
  BY <1>1, <1>3 DEF SameLeases, Channel
<1>5. /\ SamePromises(turn, turn')
      /\ turn'.waiters = turn.waiters /\ turn'.deliveredCallIds = turn.deliveredCallIds
  BY <1>1, <1>3 DEF SamePromises, Channel
<1>6. NativeChannel(turn')
  BY <1>2, <1>4, <1>5 DEF TurnChannelOK, NativeChannel, SameLeases, SamePromises
<1> QED
  BY <1>2, <1>4, <1>5, <1>6 DEF Quiet
\* A claim takes its lease at once: nothing of a native turn waits for Sent.
LEMMA ClaimedTurn ==
  ASSUME TurnChannelOK, NEW a \in Activities, Claim(Turn, a)
  PROVE  /\ NativeChannel(turn') /\ SamePromises(turn, turn') /\ turn'.phase = turn.phase
         /\ turn'.waiters = turn.waiters /\ turn'.deliveredCallIds = turn.deliveredCallIds
         /\ turn'.activities = turn.activities \cup {a}
         /\ turn'.completedActivities = turn.completedActivities
         /\ turn.activityRevision <= turn'.activityRevision
         /\ ~turn'.completionCommitted
<1> DEFINE A == turn.activities \cup {a}
           R == IF a \in turn.activities THEN turn.activityRevision
                                         ELSE turn.activityRevision + 1
<1>1. turn \in Channel /\ turn.activityRevision \in Nat
  BY TurnFacts DEF Channel
<1>2. /\ Live(turn) /\ ~turn.completionCommitted
      /\ turn' = [turn EXCEPT !.activities = A, !.activityRevision = R, !.bound = TRUE]
  BY TurnNotPruned
  DEF Claim, ClaimWaits, ClaimAllowed, Claimed, TurnChannelOK, NativeChannel
<1>3. turn.activityRevision <= R
  BY <1>1
<1> HIDE DEF A, R
<1>4. /\ SamePromises(turn, turn') /\ turn'.phase = turn.phase /\ turn'.safe = turn.safe
      /\ turn'.ttl = turn.ttl /\ turn'.startWaiters = turn.startWaiters
      /\ turn'.resumedPolls = turn.resumedPolls
      /\ turn'.waiters = turn.waiters /\ turn'.deliveredCallIds = turn.deliveredCallIds
      /\ turn'.activities = A /\ turn'.activityRevision = R /\ turn'.bound
      /\ turn'.completedActivities = turn.completedActivities
      /\ turn'.completionCommitted = turn.completionCommitted
  BY <1>1, <1>2 DEF SamePromises, Channel
<1> QED
  BY <1>2, <1>3, <1>4 DEF TurnChannelOK, NativeChannel, SamePromises, A

LEMMA SettledTurn ==
  ASSUME TurnChannelOK, NEW a \in Activities, ActivityComplete(Turn, a)
  PROVE  /\ NativeChannel(turn') /\ SamePromises(turn, turn') /\ turn'.phase = turn.phase
         /\ turn'.waiters = turn.waiters /\ turn'.deliveredCallIds = turn.deliveredCallIds
         /\ turn'.activities = turn.activities \ {a}
         /\ turn'.completedActivities = turn.completedActivities \cup {a}
         /\ turn.activityRevision <= turn'.activityRevision
         /\ turn'.completionCommitted = turn.completionCommitted
<1> DEFINE A == turn.activities \ {a}
           C == turn.completedActivities \cup {a}
           R == turn.activityRevision + 1
<1>1. turn \in Channel /\ turn.activityRevision \in Nat
  BY TurnFacts DEF Channel
<1>2. Live(turn) /\ turn' = ActivitySettled(turn, a)
  BY TurnServed DEF ActivityComplete
<1>3. CASE a \in turn.completedActivities
  <2>1. turn' = turn /\ A = turn.activities /\ C = turn.completedActivities
    BY <1>2, <1>3, TurnFacts DEF ActivitySettled
  <2> QED BY <1>1, <2>1 DEF TurnChannelOK, SamePromises
<1>4. CASE a \notin turn.completedActivities
  <2>1. turn' = [turn EXCEPT !.activities = A, !.completedActivities = C,
                             !.activityRevision = R]
    BY <1>2, <1>4 DEF ActivitySettled
  <2>2. turn.activityRevision <= R /\ (A # {} => turn.activities # {})
    BY <1>1
  <2> HIDE DEF A, C, R
  <2>3. /\ SamePromises(turn, turn') /\ turn'.phase = turn.phase /\ turn'.safe = turn.safe
        /\ turn'.ttl = turn.ttl /\ turn'.startWaiters = turn.startWaiters
        /\ turn'.resumedPolls = turn.resumedPolls /\ turn'.bound = turn.bound
        /\ turn'.waiters = turn.waiters /\ turn'.deliveredCallIds = turn.deliveredCallIds
        /\ turn'.activities = A /\ turn'.completedActivities = C
        /\ turn'.activityRevision = R
        /\ turn'.completionCommitted = turn.completionCommitted
    BY <1>1, <2>1 DEF SamePromises, Channel
  <2>4. NativeChannel(turn')
    BY <1>2, <2>2, <2>3 DEF TurnChannelOK, NativeChannel, SamePromises
  <2> QED BY <2>2, <2>3, <2>4 DEF A, C
<1> QED BY <1>3, <1>4

\* An invocation is queued, or answered with the compaction notice at once.
LEMMA InvokedTurn ==
  ASSUME TurnChannelOK, NEW x \in Calls, Invoke(Turn, x)
  PROVE  /\ NativeChannel(turn') /\ SameLeases(turn, turn') /\ Live(turn)
         /\ turn'.waiters = turn.waiters /\ turn'.deliveredCallIds = turn.deliveredCallIds
         /\ turn'.completionCommitted = turn.completionCommitted
         /\ turn'.invocations \subseteq turn.invocations \cup {x}
         /\ \A y \in Calls \ {x} : turn'.outcome[y] = turn.outcome[y]
<1> DEFINE I == turn.invocations \cup {x}
           Q == turn.queuedCallIds \cup {x}
           O(outcome) == [turn.outcome EXCEPT ![x] = outcome]
           P == O("pending")
           N == O("compacted")
           M == turn.compactionDeliveryCount + 1
<1>1. turn \in Channel /\ turn.outcome \in [Calls -> Outcomes]
  BY TurnFacts DEF Channel
<1>2. /\ Live(turn)
      /\ \/ turn' = [turn EXCEPT !.outcome = N, !.compactionDeliveryCount = M]
         \/ turn' = Scheduled([turn EXCEPT !.outcome = P, !.invocations = I,
                                           !.queuedCallIds = Q])
  BY TurnServed DEF Invoke
<1>3. /\ \A y \in Calls \ {x} : P[y] = turn.outcome[y] /\ N[y] = turn.outcome[y]
      /\ P[x] # "rejected" /\ N[x] # "rejected"
  BY <1>1
<1> HIDE DEF O, P, N, M, I, Q
<1>4. /\ SameLeases(turn, turn') /\ turn'.waiters = turn.waiters
      /\ turn'.deliveredCallIds = turn.deliveredCallIds
      /\ turn'.completionCommitted = turn.completionCommitted
      /\ turn'.invocations \in {I, turn.invocations} /\ turn'.outcome \in {P, N}
  <2>1. CASE turn' = [turn EXCEPT !.outcome = N, !.compactionDeliveryCount = M]
    BY <1>1, <2>1 DEF SameLeases, Channel
  <2> DEFINE e == [turn EXCEPT !.outcome = P, !.invocations = I, !.queuedCallIds = Q]
  <2>2. /\ SameLeases(turn, e) /\ e.waiters = turn.waiters
        /\ e.deliveredCallIds = turn.deliveredCallIds
        /\ e.completionCommitted = turn.completionCommitted
        /\ e.invocations = I /\ e.outcome = P
    BY <1>1 DEF SameLeases, Channel
  <2>3. CASE turn' = [turn EXCEPT !.outcome = P, !.invocations = I, !.queuedCallIds = Q]
    BY <2>2, <2>3
  <2>4. CASE turn' = [e EXCEPT !.batchTimer = TRUE]
    <3>1. /\ SameLeases(e, turn') /\ turn'.waiters = e.waiters
          /\ turn'.deliveredCallIds = e.deliveredCallIds
          /\ turn'.completionCommitted = e.completionCommitted
          /\ turn'.invocations = e.invocations /\ turn'.outcome = e.outcome
      BY <1>1, <2>4 DEF SameLeases, Channel
    <3> QED BY <2>2, <3>1 DEF SameLeases
  <2> QED BY <1>2, <2>1, <2>3, <2>4 DEF Scheduled
<1>5. I = turn.invocations \cup {x}
  BY DEF I
<1> QED
  BY <1>2, <1>3, <1>4, <1>5 DEF TurnChannelOK, NativeChannel, SameLeases


-----------------------------------------------------------------------------
(***************************************************************************)
(* A step that leaves a part's variables alone, and the channel as far as  *)
(* the part looks at it, keeps the part of the invariant.                  *)
(***************************************************************************)
OwnerQuiet ==
  /\ UNCHANGED <<round, batch, outstanding, activeToolCalls, disconnects>>
  /\ boundary' \in {"none", "recorded", "mirrored", "acknowledged"}
  /\ turn'.waiters \subseteq turn.waiters
  /\ Live(turn') => Live(turn) /\ turn'.deliveredCallIds = turn.deliveredCallIds

LEMMA OwnerKept == ASSUME OwnerInvariant, OwnerQuiet PROVE OwnerInvariant'
<1>1. OwnerTypes'
  BY DEF OwnerInvariant, OwnerQuiet, OwnerTypes
<1>2. turn'.waiters # {} => turn.waiters # {}
  BY DEF OwnerQuiet
<1>3. CASE Live(turn')
  BY <1>1, <1>2, <1>3 DEF OwnerInvariant, OwnerQuiet
<1>4. CASE ~Live(turn')
  BY <1>1, <1>2, <1>4 DEF OwnerInvariant, OwnerQuiet
<1> QED BY <1>3, <1>4

WorkerQuiet ==
  /\ UNCHANGED workerVars
  /\ Live(turn') => Live(turn) /\ turn.activityRevision <= turn'.activityRevision

LEMMA WorkerKept ==
  ASSUME WorkerInvariant, WorkerQuiet, turn.activityRevision \in Nat,
         turn'.activityRevision \in Nat
  PROVE  WorkerInvariant'
<1> DEFINE r == turn.activityRevision
           s == turn'.activityRevision
<1>1. r \in Nat /\ s \in Nat /\ (Live(turn') => Live(turn) /\ r <= s)
  BY DEF WorkerQuiet
<1>2. /\ Live(turn) /\ worker \in {"rereading", "committing"} => fence \in Nat /\ fence <= r
      /\ Live(turn) /\ worker = "committing" => fence <= readRevision /\ readRevision <= r
  BY DEF WorkerInvariant
<1>3. readRevision \in Nat
  BY DEF WorkerInvariant
<1> HIDE DEF r, s
<1>4. /\ Live(turn') /\ worker \in {"rereading", "committing"} => fence \in Nat /\ fence <= s
      /\ Live(turn') /\ worker = "committing" => fence <= readRevision /\ readRevision <= s
  BY <1>1, <1>2, <1>3
<1> QED BY <1>4 DEF WorkerInvariant, WorkerQuiet, workerVars, s

\* Of the calls and leases of request b the step opens none.
LeasesKept(b) ==
  /\ turn'.outcome[b] # "none" => turn.outcome[b] # "none"
  /\ Live(turn') => /\ Live(turn)
                    /\ b \in turn'.activities <=> b \in turn.activities
                    /\ b \in turn'.completedActivities <=> b \in turn.completedActivities
                    /\ b \in turn'.invocations => b \in turn.invocations

\* The fence is committed only when no invocation is open, and none is opened after it.
CommitKept ==
  Live(turn') /\ turn'.completionCommitted =>
    \/ Live(turn) /\ turn.completionCommitted /\ turn'.invocations \subseteq turn.invocations
    \/ turn'.invocations = {}

RequestQuiet == UNCHANGED mcpVars /\ CommitKept /\ \A b \in Activities : LeasesKept(b)

LEMMA OtherRequest ==
  ASSUME NEW b \in Activities, RequestInvariant, LeasesKept(b),
         awaiting'[b] = awaiting[b], Written(b)' = Written(b), faults <= faults',
         faults \in Nat, faults' \in Nat
  PROVE  RequestAt(b)' /\ (Live(turn') /\ faults' <= 1 => LeaseAt(b)')
<1>1. RequestAt(b)
  BY DEF RequestInvariant
<1>2. RequestAt(b)'
  BY <1>1 DEF RequestAt, LeasesKept
<1>3. ASSUME Live(turn'), faults' <= 1 PROVE LeaseAt(b)'
  <2>1. LeaseAt(b)
    BY <1>3 DEF RequestInvariant, LeasesKept
  <2> QED BY <1>3, <2>1 DEF LeaseAt, LeasesKept
<1> QED BY <1>2, <1>3

LEMMA RequestKept == ASSUME RequestInvariant, RequestQuiet PROVE RequestInvariant'
<1>1. McpTypeOK /\ UNCHANGED <<awaiting, network, faults>> /\ faults \in Nat
  BY FaultAssumption DEF RequestInvariant, RequestQuiet, mcpVars, McpTypeOK
<1>2. McpTypeOK'
  BY <1>1 DEF McpTypeOK
<1>3. ASSUME NEW b \in Activities
      PROVE  RequestAt(b)' /\ (Live(turn') /\ faults' <= 1 => LeaseAt(b)')
  BY <1>1, OtherRequest DEF RequestQuiet, Written
<1>4. Live(turn') /\ faults' <= 1 => (turn'.completionCommitted => turn'.invocations = {})
  BY <1>1 DEF RequestInvariant, RequestQuiet, CommitKept
<1> QED BY <1>2, <1>3, <1>4 DEF RequestInvariant

LEMMA RequestMoved ==
  ASSUME RequestInvariant, NEW a \in Activities, McpTypeOK', RequestAt(a)',
         faults <= faults',
         Live(turn') /\ faults' <= 1 =>
           LeaseAt(a)' /\ (turn'.completionCommitted => turn'.invocations = {}),
         \A b \in Activities \ {a} : LeasesKept(b) /\ awaiting'[b] = awaiting[b]
                                       /\ Written(b)' = Written(b)
  PROVE  RequestInvariant'
<1>1. faults \in Nat /\ faults' \in Nat
  BY FaultAssumption DEF RequestInvariant, McpTypeOK
<1>2. ASSUME NEW b \in Activities
      PROVE  RequestAt(b)' /\ (Live(turn') /\ faults' <= 1 => LeaseAt(b)')
  BY <1>1, OtherRequest
<1> QED BY <1>2 DEF RequestInvariant

-----------------------------------------------------------------------------
(***************************************************************************)
(* The requests.  What a call's writing and its reading do to a request,   *)
(* then one lemma for each handler.                                        *)
(***************************************************************************)
Stages == BrokerCalls \cup {"idle", "action", "done"}

LEMMA Sent ==
  ASSUME McpTypeOK, NEW a \in Activities, NEW call \in BrokerCalls, Send(a, call),
         UNCHANGED faults
  PROVE  /\ McpTypeOK' /\ awaiting'[a] = call /\ Written(a)' = Written(a) \cup {call}
         /\ \A b \in Activities \ {a} : awaiting'[b] = awaiting[b] /\ Written(b)' = Written(b)
<1>1. McpTypeOK'
  BY DEF McpTypeOK, Send, BrokerCalls
<1> QED BY <1>1 DEF McpTypeOK, Send, Written

LEMMA Handled ==
  ASSUME McpTypeOK, NEW a \in Activities, NEW call \in BrokerCalls, NEW next \in Stages,
         Handle(a, call, next)
  PROVE  /\ McpTypeOK' /\ faults' = faults /\ faults \in Nat /\ call \in Written(a)
         /\ \/ /\ awaiting[a] # call /\ awaiting'[a] = awaiting[a]
               /\ Written(a)' = Written(a) \ {call}
            \/ /\ awaiting[a] = call /\ awaiting'[a] = next
               /\ Written(a)' = (Written(a) \ {call}) \cup
                                (IF next \in BrokerCalls \ {call} THEN {next} ELSE {})
         /\ \A b \in Activities \ {a} : awaiting'[b] = awaiting[b] /\ Written(b)' = Written(b)
<1>1. faults' = faults /\ faults \in Nat /\ call \in Written(a)
  BY FaultAssumption DEF Handle, McpTypeOK, Written
<1>2. CASE awaiting[a] # call
  <2>1. UNCHANGED awaiting /\ network' = network \ {<<call, a>>}
    BY <1>2 DEF Handle
  <2>2. McpTypeOK'
    BY <1>1, <2>1 DEF McpTypeOK
  <2> QED BY <1>1, <1>2, <2>1, <2>2 DEF Written
<1>3. CASE awaiting[a] = call
  <2> DEFINE new == IF next \in BrokerCalls \ {call} THEN {next} ELSE {}
  <2>1. /\ awaiting' = [awaiting EXCEPT ![a] = next]
        /\ network' = (network \ {<<call, a>>}) \cup {<<m, a>> : m \in new}
    BY <1>3 DEF Handle
  <2>2. new \subseteq BrokerCalls
    OBVIOUS
  <2> HIDE DEF new
  <2>3. awaiting' \in [Activities -> Stages] /\ network' \subseteq BrokerCalls \X Activities
    BY <2>1, <2>2 DEF McpTypeOK, Stages
  <2>4. McpTypeOK'
    BY <1>1, <2>3 DEF McpTypeOK, Stages
  <2>5. Written(a)' = (Written(a) \ {call}) \cup new
    BY <2>1, <2>2 DEF Written
  <2>6. \A b \in Activities \ {a} : awaiting'[b] = awaiting[b] /\ Written(b)' = Written(b)
    BY <2>1 DEF Written, McpTypeOK
  <2>7. awaiting'[a] = next
    BY <2>1 DEF McpTypeOK
  <2> QED BY <1>1, <1>3, <2>4, <2>5, <2>6, <2>7 DEF new
<1> QED BY <1>2, <1>3

LEMMA GaveUp ==
  ASSUME McpTypeOK, NEW a \in Activities, GiveUp(a)
  PROVE  /\ McpTypeOK' /\ faults' = faults + 1 /\ faults \in Nat
         /\ awaiting[a] \in BrokerCalls /\ awaiting'[a] = AfterError(awaiting[a])
         /\ \E written \in {Written(a), Written(a) \ {awaiting[a]}} :
              Written(a)' = written \cup (IF awaiting'[a] = "done" THEN {} ELSE {awaiting'[a]})
         /\ \A b \in Activities \ {a} : awaiting'[b] = awaiting[b] /\ Written(b)' = Written(b)
<1> DEFINE call == awaiting[a]
           next == AfterError(call)
<1>1. call \in BrokerCalls /\ next \in Stages /\ (next # "done" => next \in BrokerCalls)
  BY DEF GiveUp, AfterError, BrokerCalls, Stages
<1>2. faults' = faults + 1 /\ faults \in Nat /\ faults' \in 0 .. MaxFaults
  BY FaultAssumption DEF GiveUp, McpTypeOK
<1>3. PICK written \in {network, network \ {<<call, a>>}} :
        network' = IF next = "done" THEN written ELSE written \cup {<<next, a>>}
  BY DEF GiveUp
<1>4. awaiting' = [awaiting EXCEPT ![a] = next]
  BY DEF GiveUp
<1> HIDE DEF next
<1>5. awaiting' \in [Activities -> Stages] /\ awaiting'[a] = next
  BY <1>1, <1>4 DEF McpTypeOK, Stages
<1>6. network' \subseteq BrokerCalls \X Activities
  BY <1>1, <1>3 DEF McpTypeOK
<1>7. \E w \in {Written(a), Written(a) \ {call}} :
        Written(a)' = w \cup (IF next = "done" THEN {} ELSE {next})
  <2>1. CASE written = network
    BY <1>1, <1>3, <2>1 DEF Written
  <2>2. CASE written = network \ {<<call, a>>}
    BY <1>1, <1>3, <2>2 DEF Written
  <2> QED BY <2>1, <2>2
<1>8. \A b \in Activities \ {a} : awaiting'[b] = awaiting[b] /\ Written(b)' = Written(b)
  BY <1>3, <1>4 DEF Written, McpTypeOK
<1>9. McpTypeOK'
  BY <1>2, <1>5, <1>6 DEF McpTypeOK, Stages
<1> QED BY <1>1, <1>2, <1>5, <1>7, <1>8, <1>9 DEF next

\* What the channel is when a broker call only prunes, or when no broker call is read.
LEMMA QuietChannel ==
  ASSUME TurnChannelOK, turn' = turn
  PROVE  /\ NativeChannel(turn') /\ SameLeases(turn, turn') /\ SamePromises(turn, turn')
         /\ CommitKept /\ \A b \in Activities : LeasesKept(b)
  BY RequestAssumption
  DEF TurnChannelOK, NativeChannel, SameLeases, SamePromises, CommitKept, LeasesKept

LEMMA StartRequestOK ==
  ASSUME TurnChannelOK, RequestInvariant, NEW a \in Activities, StartRequest(a)
  PROVE  RequestInvariant' /\ turn' = turn
<1>1. turn' = turn /\ faults' = faults /\ awaiting[a] = "idle" /\ Send(a, "claim")
  BY DEF StartRequest, vars
<1>2. McpTypeOK /\ faults \in Nat /\ "claim" \in BrokerCalls
  BY FaultAssumption DEF RequestInvariant, McpTypeOK, BrokerCalls
<1>3. RequestAt(a) /\ (Live(turn) /\ faults <= 1 => LeaseAt(a))
  BY DEF RequestInvariant
<1>4. RequestAt(a)' /\ (Live(turn') /\ faults' <= 1 => LeaseAt(a)')
  BY <1>1, <1>2, <1>3, Sent DEF RequestAt, LeaseAt, Unread
<1> QED BY <1>1, <1>2, <1>4, Sent, QuietChannel, RequestMoved DEF RequestInvariant

LEMMA ActOK ==
  ASSUME TurnChannelOK, RequestInvariant, NEW a \in Activities, Act(a)
  PROVE  RequestInvariant' /\ turn' = turn
<1>1. turn' = turn /\ faults' = faults /\ awaiting[a] = "action"
  BY DEF Act, vars
<1>2. PICK call \in {"settle", "invoke"} : Send(a, call)
  BY DEF Act
<1>3. McpTypeOK /\ faults \in Nat /\ call \in BrokerCalls
  BY FaultAssumption DEF RequestInvariant, McpTypeOK, BrokerCalls
<1>4. RequestAt(a) /\ (Live(turn) /\ faults <= 1 => LeaseAt(a))
  BY DEF RequestInvariant
<1>5. RequestAt(a)' /\ (Live(turn') /\ faults' <= 1 => LeaseAt(a)')
  BY <1>1, <1>2, <1>3, <1>4, Sent DEF RequestAt, LeaseAt, Unread, BrokerCalls
<1> QED BY <1>1, <1>2, <1>3, <1>5, Sent, QuietChannel, RequestMoved DEF RequestInvariant

LEMMA InvokeReturnsOK ==
  ASSUME TurnChannelOK, RequestInvariant, NEW a \in Activities, InvokeReturns(a)
  PROVE  RequestInvariant' /\ turn' = turn
<1>1. turn' = turn /\ faults' = faults /\ awaiting[a] = "invoke"
  BY DEF InvokeReturns, vars
<1>2. PICK call \in {"settle", "release"} :
        /\ Send(a, call)
        /\ turn.outcome[a] = "rejected" \/ call = "settle"
        /\ turn.outcome[a] \in {"result", "compacted", "rejected"}
  BY DEF InvokeReturns
<1>3. McpTypeOK /\ faults \in Nat /\ call \in BrokerCalls
  BY FaultAssumption DEF RequestInvariant, McpTypeOK, BrokerCalls
<1>4. RequestAt(a) /\ (Live(turn) /\ faults <= 1 => LeaseAt(a))
  BY DEF RequestInvariant
<1>5. /\ a \notin turn.invocations
      /\ call = "release" => ~Live(turn)
  BY <1>2, TurnFacts, RequestAssumption DEF TurnChannelOK, NativeChannel
<1>6. RequestAt(a)'
  BY <1>1, <1>2, <1>3, <1>4, <1>5, Sent DEF RequestAt, Unread, BrokerCalls
<1>7. Live(turn') /\ faults' <= 1 => LeaseAt(a)'
  BY <1>1, <1>2, <1>3, <1>4, <1>5, Sent DEF RequestAt, LeaseAt
<1> QED BY <1>1, <1>2, <1>3, <1>6, <1>7, Sent, QuietChannel, RequestMoved DEF RequestInvariant

LEMMA GiveUpOK ==
  ASSUME TurnChannelOK, RequestInvariant, NEW a \in Activities, GiveUp(a)
  PROVE  RequestInvariant' /\ turn' = turn
<1>1. turn' = turn
  BY DEF GiveUp, vars
<1>2. McpTypeOK /\ RequestAt(a) /\ (Live(turn) /\ faults <= 1 => LeaseAt(a))
  BY DEF RequestInvariant
<1> DEFINE call == awaiting[a]
           next == awaiting'[a]
<1>3. /\ McpTypeOK' /\ faults' = faults + 1 /\ faults \in Nat
      /\ call \in BrokerCalls /\ next = AfterError(call)
      /\ Written(a)' \subseteq Written(a) \cup (IF next = "done" THEN {} ELSE {next})
  BY <1>2, GaveUp
<1>4. /\ Written(a)' \subseteq Unread(next)
      /\ "invoke" \in Written(a)' => "invoke" \in Written(a)
      /\ next \notin {"idle", "claim", "action", "invoke"}
  BY <1>2, <1>3 DEF AfterError, Unread, BrokerCalls, RequestAt
<1>5. RequestAt(a)'
  BY <1>1, <1>2, <1>3, <1>4 DEF RequestAt
<1>6. ASSUME Live(turn'), faults' <= 1 PROVE LeaseAt(a)'
  <2>1. faults = 0 /\ Live(turn) /\ LeaseAt(a)
    BY <1>1, <1>2, <1>3, <1>6
  <2>2. call \notin {"release", "resettle"}
    BY <1>2, <2>1 DEF RequestAt
  <2>3. next # "done" /\ (next = "release" => call = "invoke") /\ (call = "invoke" => next = "release")
    BY <1>3, <2>2 DEF AfterError, BrokerCalls
  <2> QED BY <1>1, <1>4, <2>1, <2>2, <2>3 DEF LeaseAt
<1>7. Live(turn') /\ faults' <= 1 => (turn'.completionCommitted => turn'.invocations = {})
  BY <1>1, <1>3 DEF RequestInvariant
<1> QED BY <1>1, <1>2, <1>3, <1>5, <1>6, <1>7, GaveUp, QuietChannel, RequestMoved

\* What a handler of a request's broker call leaves of the parts it is not about.
HandledQuietly ==
  /\ NativeChannel(turn')
  /\ turn'.waiters \subseteq turn.waiters
  /\ Live(turn') => /\ Live(turn) /\ turn'.deliveredCallIds = turn.deliveredCallIds
                    /\ turn.activityRevision <= turn'.activityRevision

LEMMA QuietHandled == ASSUME TurnChannelOK, turn' = turn PROVE HandledQuietly
<1>1. turn.activityRevision \in Nat
  BY TurnFacts DEF Channel
<1> QED BY <1>1, QuietChannel DEF HandledQuietly

LEMMA HandleClaimOK ==
  ASSUME TurnChannelOK, RequestInvariant, NEW a \in Activities, HandleClaim(a)
  PROVE  RequestInvariant' /\ HandledQuietly
<1>1. McpTypeOK /\ RequestAt(a) /\ (Live(turn) /\ faults <= 1 => LeaseAt(a))
  BY DEF RequestInvariant
<1>2. "claim" \in BrokerCalls /\ "action" \in Stages /\ "settle" \in Stages
  BY DEF BrokerCalls, Stages
<1>3. a \in Calls
  BY RequestAssumption
<1>4. CASE Claim(Turn, a) /\ Handle(a, "claim", "action")
  <2>1. /\ NativeChannel(turn') /\ SamePromises(turn, turn') /\ (Live(turn') => Live(turn))
        /\ turn'.waiters = turn.waiters /\ turn'.deliveredCallIds = turn.deliveredCallIds
        /\ turn'.activities = turn.activities \cup {a}
        /\ turn'.completedActivities = turn.completedActivities
        /\ turn.activityRevision <= turn'.activityRevision
        /\ ~turn'.completionCommitted
    BY <1>4, ClaimedTurn
  <2>2. /\ McpTypeOK' /\ faults' = faults /\ faults \in Nat /\ "claim" \in Written(a)
        /\ \/ awaiting[a] # "claim" /\ awaiting'[a] = awaiting[a]
           \/ awaiting[a] = "claim" /\ awaiting'[a] = "action"
        /\ Written(a)' = Written(a) \ {"claim"}
        /\ \A b \in Activities \ {a} : awaiting'[b] = awaiting[b] /\ Written(b)' = Written(b)
    BY <1>1, <1>2, <1>4, Handled DEF BrokerCalls
  <2>3. RequestAt(a)'
    BY <1>1, <2>1, <2>2 DEF RequestAt, Unread, SamePromises
  <2>4. Live(turn') /\ faults' <= 1 => LeaseAt(a)'
    BY <1>1, <2>1, <2>2 DEF LeaseAt, RequestAt, Unread, SamePromises
  <2>5. \A b \in Activities \ {a} : LeasesKept(b)
    BY <2>1 DEF LeasesKept, SamePromises
  <2> QED BY <2>1, <2>2, <2>3, <2>4, <2>5, RequestMoved DEF HandledQuietly
<1>5. CASE Prune /\ Handle(a, "claim", "settle")
  <2>1. turn' = turn
    BY <1>5, TurnNotPruned DEF TurnChannelOK, NativeChannel
  <2>2. /\ McpTypeOK' /\ faults' = faults /\ faults \in Nat
        /\ \/ /\ awaiting[a] # "claim" /\ awaiting'[a] = awaiting[a]
              /\ Written(a)' = Written(a) \ {"claim"}
           \/ /\ awaiting[a] = "claim" /\ awaiting'[a] = "settle"
              /\ Written(a)' = (Written(a) \ {"claim"}) \cup {"settle"}
        /\ \A b \in Activities \ {a} : awaiting'[b] = awaiting[b] /\ Written(b)' = Written(b)
    BY <1>1, <1>2, <1>5, Handled DEF BrokerCalls
  <2>3. RequestAt(a)'
    BY <1>1, <2>1, <2>2 DEF RequestAt, Unread, BrokerCalls
  <2>4. Live(turn') /\ faults' <= 1 => LeaseAt(a)'
    BY <1>1, <2>1, <2>2 DEF LeaseAt
  <2> QED BY <2>1, <2>2, <2>3, <2>4, QuietChannel, QuietHandled, RequestMoved
          DEF RequestInvariant
<1> QED BY <1>4, <1>5 DEF HandleClaim

LEMMA HandleInvokeOK ==
  ASSUME TurnChannelOK, RequestInvariant, NEW a \in Activities, HandleInvoke(a)
  PROVE  RequestInvariant' /\ HandledQuietly
<1>1. McpTypeOK /\ RequestAt(a) /\ (Live(turn) /\ faults <= 1 => LeaseAt(a))
  BY DEF RequestInvariant
<1>2. "invoke" \in BrokerCalls /\ "invoke" \in Stages /\ "release" \in Stages
  BY DEF BrokerCalls, Stages
<1>3. a \in Calls /\ turn.activityRevision \in Nat
  BY RequestAssumption, TurnFacts DEF Channel
<1>4. CASE Invoke(Turn, a) /\ Handle(a, "invoke", "invoke")
  <2>1. /\ NativeChannel(turn') /\ SameLeases(turn, turn') /\ Live(turn)
        /\ turn'.waiters = turn.waiters /\ turn'.deliveredCallIds = turn.deliveredCallIds
        /\ turn'.completionCommitted = turn.completionCommitted
        /\ turn'.invocations \subseteq turn.invocations \cup {a}
        /\ \A y \in Calls \ {a} : turn'.outcome[y] = turn.outcome[y]
    BY <1>3, <1>4, InvokedTurn
  <2>2. /\ McpTypeOK' /\ faults' = faults /\ faults \in Nat /\ "invoke" \in Written(a)
        /\ awaiting'[a] = awaiting[a] /\ Written(a)' = Written(a) \ {"invoke"}
        /\ \A b \in Activities \ {a} : awaiting'[b] = awaiting[b] /\ Written(b)' = Written(b)
    BY <1>1, <1>2, <1>4, Handled
  <2>3. awaiting[a] \notin {"idle", "claim", "action"}
    BY <1>1, <2>2 DEF RequestAt, Unread
  <2>4. RequestAt(a)'
    BY <1>1, <2>1, <2>2, <2>3 DEF RequestAt
  <2>5. faults' <= 1 => LeaseAt(a)'
    BY <1>1, <2>1, <2>2 DEF LeaseAt, SameLeases
  <2>6. faults' <= 1 => ~turn'.completionCommitted
    BY <1>1, <2>1, <2>2, TurnFacts DEF LeaseAt
  <2>7. \A b \in Activities \ {a} : LeasesKept(b)
    BY <2>1, RequestAssumption DEF LeasesKept, SameLeases
  <2>8. HandledQuietly
    BY <1>3, <2>1 DEF HandledQuietly, SameLeases
  <2> QED BY <2>2, <2>4, <2>5, <2>6, <2>7, <2>8, RequestMoved
<1>5. CASE ~InvokeAllowed(Pruned[Turn]) /\ Prune /\ Handle(a, "invoke", "release")
  <2>1. turn' = turn /\ ~InvokeAllowed(turn)
    BY <1>5, TurnNotPruned DEF TurnChannelOK, NativeChannel
  <2>2. /\ McpTypeOK' /\ faults' = faults /\ faults \in Nat /\ "invoke" \in Written(a)
        /\ \/ /\ awaiting[a] # "invoke" /\ awaiting'[a] = awaiting[a]
              /\ Written(a)' = Written(a) \ {"invoke"}
           \/ /\ awaiting[a] = "invoke" /\ awaiting'[a] = "release"
              /\ Written(a)' = (Written(a) \ {"invoke"}) \cup {"release"}
        /\ \A b \in Activities \ {a} : awaiting'[b] = awaiting[b] /\ Written(b)' = Written(b)
    BY <1>1, <1>2, <1>5, Handled DEF BrokerCalls
  <2>3. ~Live(turn) \/ faults > 0
    <3>1. a \in turn.activities /\ Live(turn) => InvokeAllowed(turn)
      BY DEF InvokeAllowed, HarnessOpen, HarnessRunning, TurnChannelOK, NativeChannel
    <3> QED BY <1>1, <2>1, <2>2, <3>1 DEF LeaseAt
  <2>4. RequestAt(a)'
    BY <1>1, <2>1, <2>2, <2>3 DEF RequestAt, Unread, BrokerCalls
  <2>5. Live(turn') /\ faults' <= 1 => LeaseAt(a)'
    BY <1>1, <2>1, <2>2 DEF LeaseAt
  <2> QED BY <2>1, <2>2, <2>4, <2>5, QuietChannel, QuietHandled, RequestMoved
          DEF RequestInvariant
<1> QED BY <1>4, <1>5 DEF HandleInvoke

LEMMA HandleReleaseOK ==
  ASSUME TurnChannelOK, RequestInvariant, NEW a \in Activities, HandleRelease(a)
  PROVE  RequestInvariant' /\ HandledQuietly
<1>1. McpTypeOK /\ RequestAt(a) /\ (Live(turn) /\ faults <= 1 => LeaseAt(a))
  BY DEF RequestInvariant
<1>2. "release" \in BrokerCalls /\ "settle" \in Stages /\ Handle(a, "release", "settle")
  BY DEF BrokerCalls, Stages, HandleRelease
<1>3. /\ McpTypeOK' /\ faults' = faults /\ faults \in Nat /\ "release" \in Written(a)
      /\ \/ /\ awaiting[a] # "release" /\ awaiting'[a] = awaiting[a]
            /\ Written(a)' = Written(a) \ {"release"}
         \/ /\ awaiting[a] = "release" /\ awaiting'[a] = "settle"
            /\ Written(a)' = (Written(a) \ {"release"}) \cup {"settle"}
      /\ \A b \in Activities \ {a} : awaiting'[b] = awaiting[b] /\ Written(b)' = Written(b)
  BY <1>1, <1>2, Handled DEF BrokerCalls
<1>4. CASE Live(turn) /\ turn.bound
  <2>1. Release(Turn)
    BY <1>4, TurnServed DEF HandleRelease
  <2>2. /\ ~Live(turn') /\ NativeChannel(turn') /\ turn'.waiters = {}
        /\ \A x \in Calls : turn'.outcome[x] # "none" => turn.outcome[x] # "none"
    BY <2>1, ReleasedTurn
  <2>3. RequestAt(a)'
    BY <1>1, <1>3, <2>2, RequestAssumption DEF RequestAt, Unread, BrokerCalls
  <2>4. \A b \in Activities \ {a} : LeasesKept(b)
    BY <2>2, RequestAssumption DEF LeasesKept
  <2>5. HandledQuietly
    BY <2>2 DEF HandledQuietly
  <2> QED BY <1>3, <2>2, <2>3, <2>4, <2>5, RequestMoved
<1>5. CASE ~(Live(turn) /\ turn.bound)
  <2>1. turn' = turn
    BY <1>5, TurnNotPruned DEF TurnChannelOK, NativeChannel, HandleRelease
  <2>2. RequestAt(a)'
    BY <1>1, <1>3, <2>1 DEF RequestAt, Unread, BrokerCalls
  <2>3. Live(turn) => turn.activities = {}
    BY <1>5 DEF TurnChannelOK, NativeChannel
  <2>4. Live(turn') /\ faults' <= 1 => LeaseAt(a)'
    BY <1>1, <1>3, <2>1, <2>3 DEF LeaseAt
  <2> QED BY <1>3, <2>1, <2>2, <2>4, QuietChannel, QuietHandled, RequestMoved
          DEF RequestInvariant
<1> QED BY <1>4, <1>5

LEMMA HandleSettleOK ==
  ASSUME TurnChannelOK, RequestInvariant, NEW a \in Activities, HandleSettle(a)
  PROVE  RequestInvariant' /\ HandledQuietly
<1>1. McpTypeOK /\ RequestAt(a) /\ (Live(turn) /\ faults <= 1 => LeaseAt(a))
  BY DEF RequestInvariant
<1>2. PICK call \in {"settle", "resettle"} : Handle(a, call, "done")
  BY DEF HandleSettle
<1>3. call \in BrokerCalls /\ "done" \in Stages
  BY DEF BrokerCalls, Stages
<1>4. /\ McpTypeOK' /\ faults' = faults /\ faults \in Nat /\ call \in Written(a)
      /\ \/ awaiting[a] # call /\ awaiting'[a] = awaiting[a]
         \/ awaiting[a] = call /\ awaiting'[a] = "done"
      /\ Written(a)' = Written(a) \ {call}
      /\ \A b \in Activities \ {a} : awaiting'[b] = awaiting[b] /\ Written(b)' = Written(b)
  BY <1>1, <1>2, <1>3, Handled DEF BrokerCalls
<1>5. awaiting[a] \in {"settle", "resettle", "done"} /\ awaiting'[a] \in {"settle", "resettle", "done"}
  BY <1>1, <1>4 DEF RequestAt, Unread, McpTypeOK, BrokerCalls
<1>6. Written(a)' \subseteq Unread(awaiting'[a])
  BY <1>1, <1>4, <1>5 DEF RequestAt, Unread, BrokerCalls
<1>7. awaiting'[a] = "resettle" => faults' > 0
  BY <1>1, <1>4, <1>5 DEF RequestAt
<1>8. CASE Live(turn)
  <2>1. ActivityComplete(Turn, a)
    BY <1>8, TurnServed DEF HandleSettle
  <2>2. /\ NativeChannel(turn') /\ SamePromises(turn, turn') /\ turn'.phase = turn.phase
        /\ turn'.waiters = turn.waiters /\ turn'.deliveredCallIds = turn.deliveredCallIds
        /\ turn'.activities = turn.activities \ {a}
        /\ turn'.completedActivities = turn.completedActivities \cup {a}
        /\ turn.activityRevision <= turn'.activityRevision
        /\ turn'.completionCommitted = turn.completionCommitted
    BY <2>1, SettledTurn
  <2>3. RequestAt(a)'
    BY <1>1, <1>4, <1>5, <1>6, <1>7, <2>2 DEF RequestAt, SamePromises
  <2>4. faults' <= 1 => LeaseAt(a)'
    BY <1>1, <1>4, <1>5, <1>8, <2>2 DEF LeaseAt, SamePromises
  <2>5. \A b \in Activities \ {a} : LeasesKept(b)
    BY <2>2 DEF LeasesKept, SamePromises
  <2>6. faults' <= 1 => (turn'.completionCommitted => turn'.invocations = {})
    BY <1>4, <1>8, <2>2 DEF RequestInvariant, SamePromises
  <2>7. HandledQuietly
    BY <2>2 DEF HandledQuietly
  <2> QED BY <1>4, <2>3, <2>4, <2>5, <2>6, <2>7, RequestMoved
<1>9. CASE ~Live(turn)
  <2>1. turn' = turn
    BY <1>9, TurnNotPruned DEF TurnChannelOK, NativeChannel, HandleSettle
  <2>2. RequestAt(a)'
    BY <1>1, <1>4, <1>5, <1>6, <1>7, <2>1 DEF RequestAt
  <2> QED BY <1>4, <1>9, <2>1, <2>2, QuietChannel, QuietHandled, RequestMoved
<1> QED BY <1>8, <1>9

LEMMA RequestStepOK ==
  ASSUME TurnInvariant, NEW a \in Activities, RequestStep(a)
  PROVE  /\ NativeChannel(turn') /\ RequestInvariant'
         /\ OwnerInvariant' /\ (IInv' => WorkerInvariant')
<1>1. TurnChannelOK /\ RequestInvariant /\ OwnerInvariant /\ WorkerInvariant
  BY DEF TurnInvariant, TurnChannelOK
<1>2. RequestInvariant' /\ HandledQuietly
  BY <1>1, StartRequestOK, ActOK, InvokeReturnsOK, GiveUpOK, HandleClaimOK, HandleInvokeOK,
     HandleReleaseOK, HandleSettleOK, QuietHandled
  DEF RequestStep, McpRequestStep, HandleCall
<1>3. UNCHANGED <<ownerVars, workerVars>>
  BY DEF RequestStep
<1>4. OwnerQuiet /\ WorkerQuiet
  BY <1>1, <1>2, <1>3
  DEF OwnerQuiet, WorkerQuiet, HandledQuietly, ownerVars, OwnerInvariant, OwnerTypes
<1>5. turn.activityRevision \in Nat /\ (IInv' => turn'.activityRevision \in Nat)
  BY <1>1, TurnFacts, TurnAssumption DEF IInv, TypeOK, Channel
<1> QED BY <1>1, <1>2, <1>4, <1>5, OwnerKept, WorkerKept DEF HandledQuietly

-----------------------------------------------------------------------------
(***************************************************************************)
(* The owner.  The first lemma is the arithmetic of the veto: a batch is   *)
(* counted when the round receives it, after everything before it is back. *)
(***************************************************************************)
LEMMA ReceivedCounted ==
  ASSUME TurnChannelOK, OwnerInvariant, Live(turn), outstanding = {}, batch = {},
         turn' \in Channel, turn'.waiters = {}, outstanding' = {}, disconnects' = disconnects,
         Received(turn'.deliveredCallIds)
  PROVE  OwnerInvariant'
<1> DEFINE D == turn'.deliveredCallIds
           n == Cardinality(D)
           m == Cardinality(turn.deliveredCallIds)
<1>1. D \in SUBSET Calls /\ n \in Nat
  BY CallsAssumption, FS_Subset, FS_CardinalityType DEF Channel
<1>2. m \in Nat /\ m <= activeToolCalls /\ activeToolCalls \in Nat
  BY TurnFacts, FS_CardinalityType DEF OwnerInvariant, OwnerTypes
<1>3. /\ batch' = D /\ round' = "observing" /\ boundary' = "recorded"
      /\ activeToolCalls' = activeToolCalls + n
  BY DEF Received
<1>4. disconnects = 0 => activeToolCalls = 0
  BY FS_EmptySet DEF OwnerInvariant
<1> HIDE DEF n, m
<1>5. activeToolCalls' \in Nat /\ n <= activeToolCalls'
      /\ (disconnects = 0 => activeToolCalls' = n)
  BY <1>1, <1>2, <1>3, <1>4
<1>6. OwnerTypes'
  BY <1>1, <1>3, <1>5 DEF OwnerInvariant, OwnerTypes
<1> QED BY <1>3, <1>5, <1>6 DEF OwnerInvariant, n

\* What an owner's step leaves of the parts it is not about.
LEMMA OwnerStepQuiet ==
  ASSUME RequestInvariant, WorkerInvariant, UNCHANGED <<mcpVars, workerVars>>,
         SameLeases(turn, turn'), turn'.invocations \subseteq turn.invocations,
         turn'.completionCommitted = turn.completionCommitted, turn \in Channel,
         \A x \in Calls : turn'.outcome[x] # "none" => turn.outcome[x] # "none"
  PROVE  RequestInvariant' /\ WorkerInvariant'
<1>1. turn.activityRevision \in Nat /\ turn'.activityRevision = turn.activityRevision
  BY DEF Channel, SameLeases
<1>2. WorkerQuiet
  BY <1>1 DEF WorkerQuiet, SameLeases
<1>3. RequestQuiet
  BY RequestAssumption DEF RequestQuiet, CommitKept, LeasesKept, SameLeases
<1> QED BY <1>1, <1>2, <1>3, RequestKept, WorkerKept

\* A turn that is gone owes the parts nothing but their types.
LEMMA GoneQuiet ==
  ASSUME RequestInvariant, UNCHANGED mcpVars, ~Live(turn'),
         \A x \in Calls : turn'.outcome[x] # "none" => turn.outcome[x] # "none"
  PROVE  RequestInvariant'
<1>1. RequestQuiet
  BY RequestAssumption DEF RequestQuiet, CommitKept, LeasesKept
<1> QED BY <1>1, RequestKept

StepOK == NativeChannel(turn') /\ OwnerInvariant' /\ RequestInvariant' /\ WorkerInvariant'

LEMMA ArmNextToolsOK == ASSUME TurnInvariant, IInv', ArmNextTools PROVE StepOK
<1>1. TurnChannelOK /\ RequestInvariant /\ OwnerInvariant /\ WorkerInvariant
  BY DEF TurnInvariant, TurnChannelOK
<1>2. /\ NativeChannel(turn') /\ SameLeases(turn, turn') /\ SamePromises(turn, turn')
      /\ turn'.completionCommitted = turn.completionCommitted
      /\ turn.waiters = {}
      /\ \/ turn'.waiters = {Poll} /\ turn'.deliveredCallIds = turn.deliveredCallIds
         \/ turn'.waiters = {}
  BY <1>1, PolledTurn DEF ArmNextTools
<1>3. turn \in Channel /\ turn' \in Channel
  BY <1>1, TurnFacts, TurnAssumption DEF IInv, TypeOK
<1>4. RequestInvariant' /\ WorkerInvariant'
  BY <1>1, <1>2, <1>3, OwnerStepQuiet DEF ArmNextTools, SamePromises
<1>5. /\ Live(turn) /\ outstanding = {} /\ outstanding' = {} /\ disconnects' = disconnects
      /\ batch = {}
  BY <1>1 DEF ArmNextTools, OwnerInvariant
<1>6. CASE turn'.waiters = {}
  BY <1>1, <1>2, <1>3, <1>4, <1>5, <1>6, ReceivedCounted DEF ArmNextTools, StepOK
<1>7. CASE turn'.waiters = {Poll} /\ turn'.deliveredCallIds = turn.deliveredCallIds
  <2>1. round' = "polling" /\ UNCHANGED <<batch, boundary, activeToolCalls>>
    BY <1>7 DEF ArmNextTools
  <2>2. OwnerInvariant'
    BY <1>1, <1>2, <1>5, <1>7, <2>1 DEF OwnerInvariant, OwnerTypes
  <2> QED BY <1>2, <1>4, <2>2 DEF StepOK
<1> QED BY <1>2, <1>6, <1>7

LEMMA BatchArrivesOK == ASSUME TurnInvariant, IInv', BatchArrives PROVE StepOK
<1>1. TurnChannelOK /\ RequestInvariant /\ OwnerInvariant /\ WorkerInvariant
  BY DEF TurnInvariant, TurnChannelOK
<1>2. /\ NativeChannel(turn') /\ SameLeases(turn, turn') /\ SamePromises(turn, turn')
      /\ turn'.completionCommitted = turn.completionCommitted
      /\ \/ /\ turn'.waiters = turn.waiters
            /\ turn'.deliveredCallIds = turn.deliveredCallIds
         \/ turn'.waiters = {} /\ turn.waiters # {}
  BY <1>1, TimedTurn DEF BatchArrives
<1>3. turn \in Channel /\ turn' \in Channel
  BY <1>1, TurnFacts, TurnAssumption DEF IInv, TypeOK
<1>4. RequestInvariant' /\ WorkerInvariant'
  BY <1>1, <1>2, <1>3, OwnerStepQuiet DEF BatchArrives, SamePromises
<1>5. CASE turn'.waiters = {} /\ turn.waiters # {}
  <2>1. /\ Live(turn) /\ outstanding = {} /\ outstanding' = {} /\ disconnects' = disconnects
        /\ batch = {} /\ Received(turn'.deliveredCallIds)
    BY <1>1, <1>5, TurnFacts DEF BatchArrives, OwnerInvariant
  <2> QED BY <1>1, <1>2, <1>3, <1>4, <1>5, <2>1, ReceivedCounted DEF StepOK
<1>6. CASE turn'.waiters = turn.waiters /\ turn'.deliveredCallIds = turn.deliveredCallIds
  <2>1. OwnerQuiet
    BY <1>1, <1>2, <1>6 DEF BatchArrives, OwnerQuiet, OwnerInvariant, OwnerTypes, SameLeases
  <2> QED BY <1>1, <1>2, <1>4, <2>1, OwnerKept DEF StepOK
<1> QED BY <1>2, <1>5, <1>6

LEMMA ReturnResultOK ==
  ASSUME TurnInvariant, NEW x \in Calls, ReturnResult(x) PROVE StepOK
<1>1. TurnChannelOK /\ RequestInvariant /\ OwnerInvariant /\ WorkerInvariant
  BY DEF TurnInvariant, TurnChannelOK
<1>2. /\ NativeChannel(turn') /\ SameLeases(turn, turn') /\ Live(turn)
      /\ turn'.completionCommitted = turn.completionCommitted
      /\ turn'.waiters = turn.waiters
      /\ x \in turn.deliveredCallIds /\ x \in turn.invocations
      /\ turn'.deliveredCallIds = turn.deliveredCallIds \ {x}
      /\ turn'.invocations = turn.invocations \ {x}
      /\ turn'.outcome = [turn.outcome EXCEPT ![x] = "result"]
  BY <1>1, CompletedTurn DEF ReturnResult
<1>3. /\ turn \in Channel /\ turn.outcome \in [Calls -> Outcomes]
      /\ turn.outcome[x] = "pending"
  BY <1>1, <1>2, TurnFacts DEF Channel
<1>4. RequestInvariant' /\ WorkerInvariant'
  <2>1. \A y \in Calls : turn'.outcome[y] # "none" => turn.outcome[y] # "none"
    BY <1>2, <1>3
  <2> QED BY <1>1, <1>2, <1>3, <2>1, OwnerStepQuiet DEF ReturnResult
<1> DEFINE m == Cardinality(turn.deliveredCallIds)
           n == Cardinality(turn'.deliveredCallIds)
<1>5. m \in Nat /\ n \in Nat /\ n = m - 1
  BY <1>1, <1>2, TurnFacts, FS_CardinalityType, FS_RemoveElement
<1>6. /\ activeToolCalls \in Nat /\ m <= activeToolCalls /\ batch = {} /\ batch' = {}
      /\ outstanding \cup batch \subseteq turn.deliveredCallIds
      /\ disconnects = 0 => /\ turn.deliveredCallIds = outstanding \cup batch
                            /\ activeToolCalls = m
      /\ turn.waiters = {}
  BY <1>1, <1>2 DEF ReturnResult, OwnerInvariant, OwnerTypes
<1>7. /\ activeToolCalls' = activeToolCalls - 1 /\ outstanding' = outstanding \ {x}
      /\ UNCHANGED <<round, boundary, disconnects>> /\ round \in {"returning", "compacting"}
  BY DEF ReturnResult
<1> HIDE DEF m, n
<1>8. activeToolCalls' \in Nat /\ n <= activeToolCalls' /\ (activeToolCalls = m => activeToolCalls' = n)
  BY <1>5, <1>6, <1>7
<1>9. OwnerTypes'
  BY <1>1, <1>6, <1>7, <1>8 DEF OwnerInvariant, OwnerTypes
<1>10. OwnerInvariant'
  BY <1>2, <1>6, <1>7, <1>8, <1>9 DEF OwnerInvariant, n
<1> QED BY <1>2, <1>4, <1>10 DEF StepOK

\* The steps that leave the broker alone: journal, reconnect and the observed retirement.
LEMMA OwnerAloneOK ==
  ASSUME TurnInvariant, Journal \/ ResultsArrive \/ RetirementObserved PROVE StepOK
<1>1. TurnChannelOK /\ RequestInvariant /\ OwnerInvariant /\ WorkerInvariant
  BY DEF TurnInvariant, TurnChannelOK
<1>2. turn' = turn /\ UNCHANGED mcpVars
  BY DEF Journal, ResultsArrive, RetirementObserved, vars
<1>3. NativeChannel(turn') /\ RequestInvariant'
  BY <1>1, <1>2, QuietChannel, RequestKept DEF RequestQuiet
<1>4. CASE Journal
  <2>1. OwnerInvariant'
    BY <1>1, <1>2, <1>4 DEF Journal, OwnerInvariant, OwnerTypes
  <2>2. WorkerInvariant'
    BY <1>1, <1>2, <1>4 DEF Journal, WorkerInvariant, workerVars
  <2> QED BY <1>3, <2>1, <2>2 DEF StepOK
<1>5. CASE ResultsArrive
  <2>1. OwnerInvariant'
    BY <1>1, <1>2, <1>5 DEF ResultsArrive, OwnerInvariant, OwnerTypes
  <2>2. WorkerInvariant'
    BY <1>1, <1>2, <1>5 DEF ResultsArrive, WorkerInvariant, workerVars
  <2> QED BY <1>3, <2>1, <2>2 DEF StepOK
<1>6. CASE RetirementObserved
  <2>1. ~Live(turn)
    BY <1>6 DEF RetirementObserved
  <2>2. OwnerInvariant'
    BY <1>1, <1>2, <1>6, <2>1 DEF RetirementObserved, OwnerInvariant, OwnerTypes
  <2>3. WorkerInvariant'
    BY <1>1, <1>2, <1>6, <2>1 DEF RetirementObserved, WorkerInvariant
  <2> QED BY <1>3, <2>2, <2>3 DEF StepOK
<1> QED BY <1>4, <1>5, <1>6

LEMMA DisconnectOK == ASSUME TurnInvariant, Disconnect PROVE StepOK
<1>1. TurnChannelOK /\ RequestInvariant /\ OwnerInvariant /\ WorkerInvariant
  BY DEF TurnInvariant, TurnChannelOK
<1>2. /\ NativeChannel(turn') /\ SameLeases(turn, turn') /\ SamePromises(turn, turn')
      /\ turn'.completionCommitted = turn.completionCommitted
      /\ turn'.deliveredCallIds = turn.deliveredCallIds /\ turn'.waiters = {}
  <2>1. CASE Poll \in turn.waiters
    BY <1>1, <2>1, AbortedTurn DEF Disconnect
  <2>2. CASE Poll \notin turn.waiters
    <3>1. turn' = turn /\ turn.waiters = {}
      BY <1>1, <2>2 DEF Disconnect, vars, TurnChannelOK, NativeChannel
    <3> QED BY <1>1, <3>1, QuietChannel
  <2> QED BY <2>1, <2>2
<1>3. turn \in Channel
  BY <1>1, TurnFacts
<1>4. RequestInvariant' /\ WorkerInvariant'
  BY <1>1, <1>2, <1>3, OwnerStepQuiet DEF Disconnect, SamePromises
<1>5. disconnects \in Nat /\ disconnects' # 0 /\ disconnects' \in 0 .. MaxDisconnects
  BY <1>1, EnvironmentAssumption DEF Disconnect, OwnerInvariant, OwnerTypes
<1>6. /\ round' = "away" /\ batch' = {} /\ outstanding = {} /\ outstanding' = {}
      /\ UNCHANGED <<activeToolCalls, boundary>>
  BY <1>1 DEF Disconnect, OwnerInvariant
<1>7. OwnerInvariant'
  BY <1>1, <1>2, <1>5, <1>6 DEF OwnerInvariant, OwnerTypes, SameLeases
<1> QED BY <1>2, <1>4, <1>7 DEF StepOK

LEMMA CompactOK == ASSUME TurnInvariant, Compact PROVE StepOK
<1>1. TurnChannelOK /\ RequestInvariant /\ OwnerInvariant /\ WorkerInvariant
  BY DEF TurnInvariant, TurnChannelOK
<1>2. /\ NativeChannel(turn') /\ SameLeases(turn, turn')
      /\ turn'.completionCommitted = turn.completionCommitted
      /\ turn'.waiters = turn.waiters
      /\ turn'.deliveredCallIds = turn.deliveredCallIds
      /\ turn'.invocations \subseteq turn.invocations
      /\ \A x \in Calls : turn'.outcome[x] # "none" => turn.outcome[x] # "none"
  BY <1>1, CompactedTurn DEF Compact
<1>3. turn \in Channel
  BY <1>1, TurnFacts
<1>4. RequestInvariant' /\ WorkerInvariant'
  BY <1>1, <1>2, <1>3, OwnerStepQuiet DEF Compact
<1>5. /\ round = "away" /\ round' = "compacting"
      /\ UNCHANGED <<batch, outstanding, activeToolCalls, boundary, disconnects>>
  BY DEF Compact
<1>6. OwnerInvariant'
  BY <1>1, <1>2, <1>5 DEF OwnerInvariant, OwnerTypes, SameLeases
<1> QED BY <1>2, <1>4, <1>6 DEF StepOK

LEMMA RetireOK == ASSUME TurnInvariant, Cancel \/ Finish PROVE StepOK
<1>1. TurnChannelOK /\ RequestInvariant /\ OwnerInvariant /\ WorkerInvariant
  BY DEF TurnInvariant, TurnChannelOK
<1>2. /\ UNCHANGED mcpVars /\ UNCHANGED <<outstanding, activeToolCalls, boundary, disconnects>>
      /\ round' = "finished" /\ batch' = {} /\ Revoke(Turn)
  BY DEF Cancel, Finish
<1>3. /\ mirror' = mirror /\ readRevision' = readRevision
      /\ \/ worker' = worker /\ fence' = fence
         \/ worker' = "aborted" /\ fence' = NoFence
  BY DEF Cancel, Finish, workerVars
<1>4. /\ ~Live(turn') /\ NativeChannel(turn') /\ turn'.waiters = {}
      /\ \A x \in Calls : turn'.outcome[x] # "none" => turn.outcome[x] # "none"
  BY <1>1, <1>2, RevokedTurn
<1>5. RequestInvariant'
  BY <1>1, <1>2, <1>4, GoneQuiet
<1>6. OwnerInvariant'
  BY <1>1, <1>2, <1>4 DEF OwnerInvariant, OwnerTypes
<1>7. WorkerInvariant'
  BY <1>1, <1>3, <1>4 DEF WorkerInvariant
<1> QED BY <1>4, <1>5, <1>6, <1>7 DEF StepOK

LEMMA OwnerNextOK == ASSUME TurnInvariant, IInv', OwnerNext PROVE StepOK
  BY ArmNextToolsOK, BatchArrivesOK, ReturnResultOK, OwnerAloneOK, DisconnectOK, CompactOK,
     RetireOK
  DEF OwnerNext

-----------------------------------------------------------------------------
(***************************************************************************)
(* The worker.  A step of its loop changes what it knows, and the commit   *)
(* compares the revision it captured with the broker's.                    *)
(***************************************************************************)
LEMMA WorkerAloneOK ==
  ASSUME TurnInvariant,
         MirrorProgress \/ ObserveBatch \/ NotReady \/ BeginFence \/ FreshRead
  PROVE  StepOK
<1>1. TurnChannelOK /\ RequestInvariant /\ OwnerInvariant /\ WorkerInvariant
  BY DEF TurnInvariant, TurnChannelOK
<1>2. /\ turn' = turn /\ UNCHANGED mcpVars
      /\ UNCHANGED <<round, batch, outstanding, activeToolCalls, disconnects>>
      /\ boundary' \in {boundary, "mirrored", "acknowledged"}
  BY DEF MirrorProgress, ObserveBatch, NotReady, BeginFence, FreshRead, vars, ownerVars
<1>3. NativeChannel(turn') /\ RequestInvariant'
  BY <1>1, <1>2, QuietChannel, RequestKept DEF RequestQuiet
<1>4. OwnerInvariant'
  <2>1. OwnerQuiet
    BY <1>1, <1>2 DEF OwnerQuiet, OwnerInvariant, OwnerTypes
  <2> QED BY <1>1, <2>1, OwnerKept
<1>5. turn.activityRevision \in Nat /\ turn.completionRevision \in Nat
      /\ (turn.completionCommitted => turn.completionRevision <= turn.activityRevision)
  BY <1>1, TurnFacts DEF Channel, OK, ChannelOK, LeasesClosed
<1>6. WorkerInvariant'
  <2>1. CASE MirrorProgress
    BY <1>1, <1>2, <2>1 DEF MirrorProgress, WorkerInvariant, OwnerInvariant, OwnerTypes
  <2>2. CASE ObserveBatch
    BY <1>1, <1>2, <2>2 DEF ObserveBatch, WorkerInvariant
  <2>3. CASE NotReady
    BY <1>1, <1>2, <2>3 DEF NotReady, WorkerInvariant
  <2>4. CASE BeginFence
    BY <1>1, <1>2, <1>5, <2>4 DEF BeginFence, FenceRevision, WorkerInvariant
  <2>5. CASE FreshRead
    BY <1>1, <1>2, <1>5, <2>5 DEF FreshRead, WorkerInvariant
  <2> QED BY <2>1, <2>2, <2>3, <2>4, <2>5
<1> QED BY <1>3, <1>4, <1>6 DEF StepOK

LEMMA CommitFenceOK == ASSUME TurnInvariant, CommitFence PROVE StepOK
<1>1. TurnChannelOK /\ RequestInvariant /\ OwnerInvariant /\ WorkerInvariant
  BY DEF TurnInvariant, TurnChannelOK
<1>2. UNCHANGED <<mcpVars, ownerVars, mirror, readRevision>>
  BY DEF CommitFence
<1>3. turn.activityRevision \in Nat
  BY <1>1, TurnFacts DEF Channel
<1>4. CASE CommitCompletionFence(Turn, fence) /\ worker' = "final" /\ UNCHANGED fence
  <2>1. /\ NativeChannel(turn') /\ SameLeases(turn, turn') /\ SamePromises(turn, turn')
        /\ turn'.waiters = turn.waiters /\ turn'.deliveredCallIds = turn.deliveredCallIds
        /\ turn.invocations = {} /\ Live(turn)
    BY <1>1, <1>4, CommittedTurn
  <2>2. RequestQuiet
    BY <1>2, <2>1 DEF RequestQuiet, CommitKept, LeasesKept, SameLeases, SamePromises
  <2>3. OwnerQuiet
    BY <1>1, <1>2, <2>1 DEF OwnerQuiet, OwnerInvariant, OwnerTypes, ownerVars
  <2>4. WorkerInvariant'
    BY <1>1, <1>2, <1>4 DEF WorkerInvariant
  <2> QED BY <1>1, <2>1, <2>2, <2>3, <2>4, RequestKept, OwnerKept DEF StepOK
<1>5. CASE Prune /\ worker' = "reading" /\ fence' = NoFence
  <2>1. turn' = turn
    BY <1>1, <1>5, TurnNotPruned DEF TurnChannelOK, NativeChannel
  <2>2. RequestInvariant' /\ NativeChannel(turn')
    BY <1>1, <1>2, <2>1, QuietChannel, RequestKept DEF RequestQuiet
  <2>3. OwnerQuiet
    BY <1>1, <1>2, <2>1 DEF OwnerQuiet, OwnerInvariant, OwnerTypes, ownerVars
  <2>4. WorkerInvariant'
    BY <1>1, <1>2, <1>5 DEF WorkerInvariant
  <2> QED BY <1>1, <2>2, <2>3, <2>4, OwnerKept DEF StepOK
<1> QED BY <1>4, <1>5 DEF CommitFence

-----------------------------------------------------------------------------
LEMMA TurnInitOK == ASSUME TurnInit PROVE TurnInvariant
<1>1. PICK trace \in Traces :
        channels = [t \in Tokens |-> IF t = Turn THEN Registered(trace, "native", "none", FALSE)
                                                 ELSE Unregistered(trace)]
  BY DEF TurnInit
<1>2. OK(Registered(trace, "native", "none", FALSE))
  BY RegisteredOK
<1>3. Unregistered(trace) \in Channel /\ ChannelOK(Unregistered(trace))
  <2>1. Unregistered(trace) \in Channel
    BY DEF Channel, Unregistered, Outcomes, SafeStates
  <2> QED BY <2>1 DEF ChannelOK, CallsAccounted, WakeupsOwed, WorkAuthorized, LeasesClosed,
          Quiet, Unregistered
<1>4. IInv
  BY <1>1, <1>2, <1>3 DEF TurnInit, IInv, TypeOK, OK
<1>5. /\ turn = Registered(trace, "native", "none", FALSE)
      /\ awaiting = [a \in Activities |-> "idle"] /\ network = {} /\ faults = 0
      /\ round = "away" /\ batch = {} /\ outstanding = {}
      /\ activeToolCalls = 0 /\ boundary = "none" /\ disconnects = 0
      /\ worker = "reading" /\ mirror = 0 /\ fence = NoFence /\ readRevision = 0
  BY <1>1, TurnAssumption DEF TurnInit, McpInit
<1>6. /\ turn.phase = "live" /\ turn.safe = "native" /\ turn.ttl = "none"
      /\ turn.startWaiters = {} /\ turn.resumedPolls = {} /\ turn.waiters = {}
      /\ turn.activities = {} /\ turn.invocations = {} /\ turn.deliveredCallIds = {}
      /\ turn.outcome = [x \in Calls |-> "none"]
  BY <1>5 DEF Registered, Unregistered
<1>7. NativeChannel(turn)
  BY <1>6 DEF NativeChannel
<1>8. OwnerInvariant
  <2>1. Cardinality(turn.deliveredCallIds) = 0
    BY <1>6, FS_EmptySet
  <2>2. OwnerTypes
    BY <1>5, EnvironmentAssumption DEF OwnerTypes
  <2>3. activeToolCalls = 0 /\ outstanding = {} /\ batch = {}
    BY <1>5
  <2>4. /\ outstanding \cup batch = {} /\ activeToolCalls = Cardinality(turn.deliveredCallIds)
        /\ Cardinality(turn.deliveredCallIds) <= activeToolCalls
    BY <2>1, <2>3
  <2> QED BY <1>6, <2>2, <2>3, <2>4 DEF OwnerInvariant
<1>9. McpTypeOK /\ \A a \in Activities : Written(a) = {} /\ awaiting[a] = "idle"
  BY <1>5, FaultAssumption DEF McpTypeOK, Written
<1>10. RequestInvariant
  BY <1>6, <1>9, RequestAssumption DEF RequestInvariant, RequestAt, LeaseAt, Unread
<1>11. WorkerInvariant
  BY <1>5 DEF WorkerInvariant
<1> QED BY <1>4, <1>7, <1>8, <1>10, <1>11 DEF TurnInvariant

LEMMA TurnStepOK == ASSUME TurnInvariant, [TurnNext]_turnVars PROVE TurnInvariant'
<1>1. IInv /\ turn.ttl = "none"
  BY DEF TurnInvariant, NativeChannel
<1>2. IInv'
  BY <1>1, TurnNextIsBrokerStep, NextIInv
<1>3. CASE TurnNext
  BY <1>2, <1>3, RequestStepOK, OwnerNextOK, WorkerAloneOK, CommitFenceOK
  DEF TurnNext, WorkerNext, StepOK, TurnInvariant
<1>4. CASE UNCHANGED turnVars
  <2>1. IInv' /\ turn' = turn /\ UNCHANGED <<mcpVars, ownerVars, workerVars>>
    BY <1>2, <1>4 DEF turnVars, vars
  <2>2. TurnChannelOK /\ RequestInvariant /\ OwnerInvariant /\ WorkerInvariant
    BY DEF TurnInvariant, TurnChannelOK
  <2>3. NativeChannel(turn') /\ RequestInvariant'
    BY <2>1, <2>2, QuietChannel, RequestKept DEF RequestQuiet
  <2>4. OwnerInvariant'
    BY <2>1, <2>2, OwnerKept DEF OwnerQuiet, OwnerInvariant, OwnerTypes, ownerVars
  <2>5. WorkerInvariant'
    BY <2>1, <2>2 DEF WorkerInvariant, workerVars
  <2> QED BY <2>1, <2>3, <2>4, <2>5 DEF TurnInvariant
<1> QED BY <1>3, <1>4

-----------------------------------------------------------------------------
\* Every reachable state of a turn satisfies the inductive invariant: the broker's accounts, the
\* owner's count, the requests' stages and the worker's fence belong together.
THEOREM TurnIsConsistent == TurnSpec => []TurnInvariant
<1>1. TurnInit => TurnInvariant
  BY TurnInitOK
<1>2. TurnInvariant /\ [TurnNext]_turnVars => TurnInvariant'
  BY TurnStepOK
<1> QED BY <1>1, <1>2, PTL DEF TurnSpec

\* The turn's state keeps its type for any number of calls, requests, disconnects and faults.
THEOREM TurnTypeCorrect == TurnSpec => []TurnTypeOK
<1>1. TurnInvariant => TurnTypeOK
  BY DEF TurnInvariant, TurnTypeOK, IInv, OwnerInvariant, OwnerTypes, RequestInvariant,
         WorkerInvariant
<1> QED BY <1>1, TurnIsConsistent, PTL

\* While the turn lives, the broker holds every journaled call as delivered, so that each result
\* Codex was asked for can be returned, observers that went away included (JournalBacked).
THEOREM JournalIsBacked == TurnSpec => []JournalBacked
<1>1. TurnInvariant => JournalBacked
  BY DEF TurnInvariant, JournalBacked, OwnerInvariant
<1> QED BY <1>1, TurnIsConsistent, PTL

\* As long as at most one broker call was abandoned, a request that is over holds no lease
\* (NoLeakedActivity).
THEOREM LeasesEndWithRequests == TurnSpec => [](faults <= 1 => NoLeakedActivity)
<1>1. ASSUME TurnInvariant, faults <= 1, NEW a \in Activities, awaiting[a] = "done"
      PROVE  a \notin turn.activities
  <2>1. TurnChannelOK
    BY <1>1 DEF TurnInvariant, TurnChannelOK
  <2>2. CASE Live(turn)
    BY <1>1, <2>1, <2>2, TurnFacts DEF TurnInvariant, RequestInvariant, LeaseAt
  <2>3. CASE ~Live(turn)
    BY <2>1, <2>3 DEF TurnChannelOK, NativeChannel
  <2> QED BY <2>2, <2>3
<1>2. TurnInvariant => (faults <= 1 => NoLeakedActivity)
  BY <1>1 DEF NoLeakedActivity
<1> QED BY <1>2, TurnIsConsistent, PTL

\* As long as at most one broker call was abandoned, the adapter holds no batch and Codex runs no
\* call once the completion is committed (NoWorkAfterCommit): while the turn lives because what
\* they hold would be an open invocation, and a turn that is gone is not committed.
THEOREM NothingRunsAfterCommit == TurnSpec => [](faults <= 1 => NoWorkAfterCommit)
<1>1. ASSUME TurnInvariant, faults <= 1, turn.completionCommitted
      PROVE  batch = {} /\ outstanding = {}
  <2>1. TurnChannelOK
    BY <1>1 DEF TurnInvariant, TurnChannelOK
  <2>2. Live(turn)
    BY <1>1, <2>1 DEF TurnChannelOK, NativeChannel
  <2>3. turn.deliveredCallIds = {}
    BY <1>1, <2>1, <2>2, TurnFacts DEF TurnInvariant, RequestInvariant
  <2> QED BY <1>1, <2>2, <2>3 DEF TurnInvariant, OwnerInvariant
<1>2. TurnInvariant => (faults <= 1 => NoWorkAfterCommit)
  BY <1>1 DEF NoWorkAfterCommit
<1> QED BY <1>2, TurnIsConsistent, PTL

\* As long as no HTTP observer went away, the veto counts the delivered calls (VetoExact).
THEOREM VetoIsExact == TurnSpec => []VetoExact
<1>1. TurnInvariant => VetoExact
  BY DEF TurnInvariant, OwnerInvariant, VetoExact
<1> QED BY <1>1, TurnIsConsistent, PTL

\* The answer that becomes final was read after the last activity of the turn began or ended
\* (FinalAnswerIsFresh), whatever was abandoned: the commit compares the fence, which is older
\* than the read, with the revision of the moment, which is not.
THEOREM FinalAnswersAreFresh == TurnSpec => FinalAnswerIsFresh
<1>1. ASSUME TurnInvariant, TurnNext, worker # "final", worker' = "final"
      PROVE  readRevision = turn.activityRevision
  <2>1. CommitFence
    BY <1>1
    DEF TurnNext, RequestStep, OwnerNext, WorkerNext, workerVars, ArmNextTools, BatchArrives,
        Journal, Disconnect, ResultsArrive, ReturnResult, Compact, Cancel, Finish,
        RetirementObserved, MirrorProgress, ObserveBatch, NotReady, BeginFence, FreshRead
  <2>2. CommitCompletionFence(Turn, fence) /\ worker = "committing"
    BY <1>1, <2>1 DEF CommitFence
  <2>3. TurnChannelOK
    BY <1>1 DEF TurnInvariant, TurnChannelOK
  <2>4. Live(turn) /\ turn.activityRevision = fence
    BY <2>2, <2>3, CommittedTurn
  <2>5. fence <= readRevision /\ readRevision <= turn.activityRevision
    BY <1>1, <2>2, <2>4 DEF TurnInvariant, WorkerInvariant
  <2>6. fence \in Nat /\ readRevision \in Nat
    BY <1>1, <2>2, <2>4 DEF TurnInvariant, WorkerInvariant
  <2> QED BY <2>4, <2>5, <2>6
<1>2. TurnInvariant /\ [TurnNext]_turnVars
        => [worker # "final" /\ worker' = "final" => readRevision = turn.activityRevision]_turnVars
  BY <1>1
<1> QED BY <1>2, TurnIsConsistent, PTL DEF TurnSpec, FinalAnswerIsFresh

-----------------------------------------------------------------------------
\* In its composition with the MCP process, the owner and the worker the broker still loses no
\* promise and resurrects no lease (NoLostWakeup, NoLeaseAfterClosure).
THEOREM TurnKeepsBrokerPromises == TurnSpec => [](NoLostWakeup /\ NoLeaseAfterClosure)
<1>1. TurnInvariant => NoLostWakeup /\ NoLeaseAfterClosure
  BY DEF TurnInvariant, IInv, ChannelOK, NoLostWakeup, NoLeaseAfterClosure
<1> QED BY <1>1, TurnIsConsistent, PTL

\* The turn as a whole keeps the promise about tool calls (ImplementsToolCalls): every step of the
\* requests, of the owner and of the worker is one of the abstract specification, or stutters.
THEOREM TurnImplementsToolCalls == TurnSpec => ImplementsToolCalls
<1> DEFINE st == [t \in Tokens |-> [x \in Calls |-> CallStatus(channels[t], x)]]
<1>1. TurnInit => Abstract!Init
  <2>1. \A tr, x : x \in Calls => /\ CallStatus(Unregistered(tr), x) = "none"
                                  /\ CallStatus(Registered(tr, "native", "none", FALSE), x) = "none"
    BY DEF CallStatus, Registered, Unregistered
  <2>2. ASSUME NEW tr \in Traces,
               channels = [t \in Tokens |-> IF t = Turn THEN Registered(tr, "native", "none", FALSE)
                                                        ELSE Unregistered(tr)]
        PROVE  Abstract!Init
    <3>1. \A t \in Tokens : \A x \in Calls : CallStatus(channels[t], x) = "none"
      BY <2>1, <2>2
    <3> QED BY <3>1 DEF Abstract!Init
  <2> QED BY <2>2 DEF TurnInit
<1>2. TurnInvariant /\ [TurnNext]_turnVars => [Abstract!Next]_st
  <2>1. TurnInvariant /\ [TurnNext]_turnVars => IInv /\ [Next]_vars
    BY TurnNextIsBrokerStep DEF TurnInvariant, NativeChannel
  <2> QED BY <2>1, NextAbstract DEF vars
<1> QED BY <1>1, <1>2, TurnIsConsistent, PTL DEF TurnSpec, ImplementsToolCalls, Abstract!Spec
=============================================================================
