----------------------------- MODULE NativeTurn -----------------------------
(***************************************************************************)
(* One tool-using ChatGPT turn, end to end: the broker and the MCP process *)
(* (McpServer), the adapter that owns the turn and serves Codex's rounds   *)
(* (index.ts, with the journal of ChatGptTurnSession and the counters of   *)
(* ChatGptExternalTurnProgress), and the browser worker, which runs in the *)
(* helper process of the Launcher, sees the counters through a mirror and  *)
(* decides when the visible answer is final (browser-worker.ts).           *)
(*                                                                         *)
(* The page is nondeterministic: whenever no tool call vetoes it, the DOM  *)
(* may look complete, too early included.                                  *)
(***************************************************************************)
EXTENDS McpServer

CONSTANTS
  Poll,            \* the round's nextToolBatch caller
  NoFence,         \* "no completion fence revision captured"
  MaxDisconnects,  \* bound of the model on HTTP observers that go away
  MayCompact,      \* whether Codex asks for a context compaction during the turn
  MayCancel        \* whether the user cancels, or a round fails

ASSUME PollAssumption == Poll \in Polls
ASSUME NoFenceAssumption == NoFence \notin Nat
ASSUME EnvironmentAssumption ==
  MaxDisconnects \in Nat /\ MayCompact \in BOOLEAN /\ MayCancel \in BOOLEAN

VARIABLES
  round,           \* the HTTP round the adapter is in
  batch,           \* calls of a batch that is recorded but not journaled yet
  outstanding,     \* the session's journal: calls Codex was asked to run
  activeToolCalls, \* ChatGptExternalTurnProgress: the completion veto
  boundary,        \* the last batch's revision: where its acknowledgement stands
  disconnects,     \* how many HTTP observers went away so far
  worker,          \* the browser worker's completion decision
  mirror,          \* activeToolCalls as the worker knows it
  fence,           \* completionFenceRevision
  readRevision     \* history: the activity revision when the answer was last read

ownerVars == <<round, batch, outstanding, activeToolCalls, boundary, disconnects>>
workerVars == <<worker, mirror, fence, readRevision>>
turnVars == <<vars, mcpVars, ownerVars, workerVars>>

turn == channels[Turn]

TurnTypeOK ==
  /\ TypeOK /\ McpTypeOK
  /\ round \in {"away", "polling", "observing", "returning", "compacting", "finished"}
  /\ batch \subseteq Calls /\ outstanding \subseteq Calls
  /\ activeToolCalls \in Nat /\ mirror \in Nat
  /\ boundary \in {"none", "recorded", "mirrored", "acknowledged"}
  /\ disconnects \in 0 .. MaxDisconnects
  /\ worker \in {"reading", "rereading", "committing", "final", "aborted"}
  /\ fence \in Nat \cup {NoFence}
  /\ readRevision \in Nat

TurnInit ==
  /\ \E trace \in Traces :
       channels = [t \in Tokens |-> IF t = Turn THEN Registered(trace, "native", "none", FALSE)
                                                ELSE Unregistered(trace)]
  /\ acceptingExternalOwners = TRUE
  /\ McpInit
  /\ round = "away" /\ batch = {} /\ outstanding = {}
  /\ activeToolCalls = 0 /\ boundary = "none" /\ disconnects = 0
  /\ worker = "reading" /\ mirror = 0 /\ fence = NoFence /\ readRevision = 0

Decided == worker \in {"final", "aborted"}

-----------------------------------------------------------------------------
\* Mutant: the batch replaces the count instead of adding to it.
ReceivedUncounted(calls) ==
  /\ batch' = calls
  /\ round' = "observing"
  /\ boundary' = "recorded"
  /\ activeToolCalls' = activeToolCalls

(***************************************************************************)
(* The adapter.  A batch reaches the round from its own poll or from the   *)
(* batch timer; recordToolBatch counts it before it is journaled.          *)
(***************************************************************************)
Received(calls) ==
  /\ batch' = calls
  /\ round' = "observing"
  /\ boundary' = "recorded"
  /\ activeToolCalls' = activeToolCalls + Cardinality(calls)

\* nextToolBatch at the start of the tool wait: delivered or queued calls return at once.
ArmNextTools ==
  /\ round \in {"away", "returning"} /\ outstanding = {}
  /\ Live(turn) /\ ~Decided
  /\ PollTools(Turn, Poll)
  /\ IF Poll \in channels'[Turn].waiters
     THEN round' = "polling" /\ UNCHANGED <<batch, boundary, activeToolCalls>>
     ELSE Received(channels'[Turn].deliveredCallIds)
  /\ UNCHANGED <<mcpVars, outstanding, disconnects, workerVars>>

BatchArrives ==
  /\ BatchTimer(Turn)
  /\ IF turn.waiters # {} /\ channels'[Turn].waiters = {}
     THEN Received(channels'[Turn].deliveredCallIds)
     ELSE UNCHANGED <<round, batch, boundary, activeToolCalls>>
  /\ UNCHANGED <<mcpVars, outstanding, disconnects, workerVars>>

\* waitForToolBatchObservation and setOutstanding; the round ends with the calls for Codex.
Journal ==
  /\ round = "observing" /\ boundary = "acknowledged"
  /\ turn.phase # "retired"
  /\ outstanding' = batch
  /\ batch' = {}
  /\ round' = "away"
  /\ UNCHANGED <<vars, mcpVars, activeToolCalls, boundary, disconnects, workerVars>>

\* The HTTP observer goes away: the poll is aborted, an unjournaled batch is dropped.
Disconnect ==
  /\ round \in {"polling", "observing"}
  /\ disconnects < MaxDisconnects
  /\ disconnects' = disconnects + 1
  /\ round' = "away" /\ batch' = {}
  /\ IF Poll \in turn.waiters THEN AbortPoll(Turn, Poll) ELSE UNCHANGED vars
  /\ UNCHANGED <<mcpVars, outstanding, activeToolCalls, boundary, workerVars>>

\* Codex comes back with the results of the journaled batch.
ResultsArrive ==
  /\ round = "away" /\ outstanding # {} /\ ~Decided
  /\ round' = "returning"
  /\ UNCHANGED <<vars, mcpVars, batch, outstanding, activeToolCalls, boundary, disconnects,
                 workerVars>>

\* completeTool, recordToolResult, markResultDelivered.
ReturnResult(x) ==
  /\ round \in {"returning", "compacting"}
  /\ x \in outstanding
  /\ CompleteTool(Turn, x)
  /\ outstanding' = outstanding \ {x}
  /\ activeToolCalls' = activeToolCalls - 1
  /\ UNCHANGED <<mcpVars, round, batch, boundary, disconnects, workerVars>>

\* settleActiveCompactionSource: the round that stops ordinary tool delivery.
Compact ==
  /\ MayCompact
  /\ round = "away" /\ ~Decided
  /\ RequestCompaction(Turn)
  /\ round' = "compacting"
  /\ UNCHANGED <<mcpVars, batch, outstanding, activeToolCalls, boundary, disconnects, workerVars>>

\* session.cancel or retire, and broker.revoke: the user cancels, or the round ends in an error.
Cancel ==
  /\ MayCancel
  /\ round # "finished" /\ ~Decided
  /\ Revoke(Turn)
  /\ round' = "finished" /\ batch' = {}
  /\ worker' = "aborted" /\ fence' = NoFence
  /\ UNCHANGED <<mcpVars, outstanding, activeToolCalls, boundary, disconnects, mirror,
                 readRevision>>

\* The browser outcome settled: finishBrowserOutcome, or retireCapability once no round runs;
\* a round that is returning results ends by itself or fails on the retired turn.
Finish ==
  /\ round # "finished" /\ Decided
  /\ round \in {"returning", "compacting"} => outstanding = {} \/ ~Live(turn)
  /\ Revoke(Turn)
  /\ round' = "finished" /\ batch' = {}
  /\ UNCHANGED <<mcpVars, outstanding, activeToolCalls, boundary, disconnects, workerVars>>

\* observeCapabilityRetirement: the capability went away under the browser's answer.
RetirementObserved ==
  /\ turn.phase = "retired"
  /\ ~Decided \/ activeToolCalls # 0
  /\ activeToolCalls' = 0
  /\ IF worker = "final" THEN UNCHANGED <<worker, fence>>
                         ELSE worker' = "aborted" /\ fence' = NoFence
  /\ UNCHANGED <<vars, mcpVars, round, batch, outstanding, boundary, disconnects, mirror,
                 readRevision>>

-----------------------------------------------------------------------------
\* forwardProgress and ChatGptMirroredTurnProgress.apply: the latest snapshot reaches the helper.
MirrorProgress ==
  /\ mirror # activeToolCalls \/ boundary = "recorded"
  /\ mirror' = activeToolCalls
  /\ boundary' = IF boundary = "recorded" THEN "mirrored" ELSE boundary
  /\ UNCHANGED <<vars, mcpVars, round, batch, outstanding, activeToolCalls, disconnects,
                 worker, fence, readRevision>>

(***************************************************************************)
(* The browser worker's observation loop.  An iteration first observes a   *)
(* batch it has not observed; then the page is complete, or it is not.     *)
(***************************************************************************)
MayBeComplete == mirror = 0 /\ boundary # "mirrored"

\* observeToolBatch and acknowledgeToolBatch: the text boundary is captured before dispatch.
ObserveBatch ==
  /\ worker \in {"reading", "rereading"}
  /\ boundary = "mirrored"
  /\ boundary' = "acknowledged"
  /\ worker' = "reading" /\ fence' = NoFence
  /\ UNCHANGED <<vars, mcpVars, round, batch, outstanding, activeToolCalls, disconnects,
                 mirror, readRevision>>

\* The page is not complete, or a tool call is in flight: the fence is dropped.
NotReady ==
  /\ worker = "rereading"
  /\ worker' = "reading" /\ fence' = NoFence
  /\ UNCHANGED <<vars, mcpVars, ownerVars, mirror, readRevision>>

\* The page looks complete and no fence is held: completionFence.begin().
BeginFence ==
  /\ worker = "reading" /\ MayBeComplete
  /\ FenceOpen(turn)
  /\ fence' = FenceRevision(turn)
  /\ worker' = "rereading"
  /\ UNCHANGED <<vars, mcpVars, ownerVars, mirror, readRevision>>

\* The forced fresh read still looks complete.
FreshRead ==
  /\ worker = "rereading" /\ MayBeComplete
  /\ readRevision' = turn.activityRevision
  /\ worker' = "committing"
  /\ UNCHANGED <<vars, mcpVars, ownerVars, mirror, fence>>

\* Mutant: the commit is made against the revision of the moment.
CommitLatest ==
  /\ worker = "committing"
  /\ Live(turn)
  /\ CommitCompletionFence(Turn, turn.activityRevision)
  /\ worker' = "final"
  /\ UNCHANGED <<mcpVars, ownerVars, mirror, fence, readRevision>>

\* completionFence.commit(revision): the answer read is final, or the worker starts over.
CommitFence ==
  /\ worker = "committing"
  /\ Live(turn)
  /\ \/ /\ CommitCompletionFence(Turn, fence)
        /\ worker' = "final" /\ UNCHANGED fence
     \/ /\ ~(Quiet(turn) /\ turn.activityRevision = fence)
        /\ Prune
        /\ worker' = "reading" /\ fence' = NoFence
  /\ UNCHANGED <<mcpVars, ownerVars, mirror, readRevision>>

-----------------------------------------------------------------------------
RequestStep(a) == McpRequestStep(a) /\ UNCHANGED <<ownerVars, workerVars>>

OwnerNext ==
  \/ ArmNextTools \/ BatchArrives \/ Journal \/ Disconnect \/ ResultsArrive
  \/ \E x \in Calls : ReturnResult(x)
  \/ Compact \/ Cancel \/ Finish \/ RetirementObserved

WorkerNext ==
  MirrorProgress \/ ObserveBatch \/ NotReady \/ BeginFence \/ FreshRead \/ CommitFence

TurnNext == (\E a \in Activities : RequestStep(a)) \/ OwnerNext \/ WorkerNext

TurnSpec == TurnInit /\ [][TurnNext]_turnVars

(***************************************************************************)
(* What the processes do if they can: the event loops run their handlers,  *)
(* the timer fires, the reply of a broker call arrives, Codex reconnects   *)
(* and returns results.  ChatGPT starts requests as it pleases, and nobody *)
(* has to disconnect, give up, compact or cancel.  The last line is the    *)
(* page's part: once ChatGPT is done, the page keeps looking complete.     *)
(***************************************************************************)
ProgressOf(a) == Act(a) \/ InvokeReturns(a) \/ HandleCall(a)

TurnFairness ==
  /\ \A a \in Activities : WF_turnVars(ProgressOf(a) /\ UNCHANGED <<ownerVars, workerVars>>)
  /\ WF_turnVars(ArmNextTools) /\ WF_turnVars(BatchArrives) /\ WF_turnVars(Journal)
  /\ WF_turnVars(ResultsArrive) /\ WF_turnVars(\E x \in Calls : ReturnResult(x))
  /\ WF_turnVars(Finish) /\ WF_turnVars(RetirementObserved)
  /\ WF_turnVars(MirrorProgress) /\ WF_turnVars(ObserveBatch) /\ WF_turnVars(CommitFence)
  /\ SF_turnVars(BeginFence) /\ SF_turnVars(FreshRead)

FairTurnSpec == TurnSpec /\ TurnFairness

-----------------------------------------------------------------------------
(***************************************************************************)
(* Properties.                                                             *)
(***************************************************************************)

\* The answer that becomes final was read after the last MCP activity of the turn began or ended:
\* between that read and the commit nothing happened that ChatGPT could still answer to
\* (completionFenceRevision and the forced fresh read of browser-worker.ts).
FinalAnswerIsFresh ==
  [][worker # "final" /\ worker' = "final" => readRevision = turn.activityRevision]_turnVars

\* Once the completion is committed the adapter holds no batch and Codex runs no call of the turn
\* (commitCompletionFence against recordToolBatch and setOutstanding).
NoWorkAfterCommit ==
  turn.completionCommitted => batch = {} /\ outstanding = {}

\* Every result Codex was asked for can still be returned: while the turn lives the broker holds
\* each journaled call as delivered, so completeTool does not throw (index.ts results loop).
JournalBacked == Live(turn) => outstanding \cup batch \subseteq turn.deliveredCallIds

\* No lease outlives its request: a request that is over left no activity behind, although claims
\* are delayed, their callers give up and one cleanup call may be lost (mcp-server.ts).
NoLeakedActivity ==
  \A a \in Activities : awaiting[a] = "done" => a \notin turn.activities

\* "Only unresolved native tool calls veto browser-turn completion" (turn-progress.ts): while the
\* turn lives, a veto has a delivered call behind it.
VetoHonest == Live(turn) /\ activeToolCalls > 0 => turn.deliveredCallIds # {}

\* As long as no HTTP observer went away, the veto counts exactly the calls the adapter holds
\* (recordToolBatch, recordToolResult).
VetoExact ==
  Live(turn) /\ disconnects = 0 => activeToolCalls = Cardinality(turn.deliveredCallIds)

\* A request that ChatGPT started is over at some time, whatever happened to its turn
\* (withClaimedTurn, the batch timer, the round trip through Codex, revocation), unless an HTTP
\* observer went away: a delivered batch that was never journaled may then meet a compaction.
RequestsSettle ==
  \A a \in Activities : awaiting[a] # "idle" ~> awaiting[a] = "done" \/ disconnects > 0

\* The turn ends: the fence is not held up by leases, calls or counters that nobody releases
\* (browser-worker.ts observation loop, scheduleCapabilityRetirement), unless an HTTP observer
\* went away.
TurnFinishes == <>(round = "finished" \/ disconnects > 0)
=============================================================================
